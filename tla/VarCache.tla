------------------------------ MODULE VarCache ------------------------------
(***************************************************************************)
(* The variable cache (internal/api/varcache.go): varCache.get, called by  *)
(* every request handler, against the background refresher run/refreshAll, *)
(* and close.                                                              *)
(*                                                                         *)
(* The map "entries" is guarded by c.mu, but an entry fetched from it is   *)
(* used after the unlock: its data and lastUsed are atomics, and only its  *)
(* initial load is serialised, by its own mutex.  The refresher takes no   *)
(* entry mutex at all.  Each action is a section the code runs atomically. *)
(*                                                                         *)
(* A snapshot is represented by the version of the one object's metadata   *)
(* we look at; Nil is the nil pointer.  An enumeration (load) reads that   *)
(* object at some moment between its start and its end.  Its failures, and *)
(* the changes made to devices, come from the environment.                 *)
(*                                                                         *)
(* A local variable has a value while it is in scope, and an entry while   *)
(* somebody has a pointer to it: the garbage collector takes it then.      *)
(***************************************************************************)
EXTENDS Integers, FiniteSets

CONSTANTS
  Hosts,          \* device addresses (hostPort)
  Getters,        \* request goroutines that call get
  Asks,           \* the ways in which they may ask for devices
  Entries,        \* cacheEntry objects; an unreachable one may be reused
  HostOf,         \* HostOf[e]: the device entry e can be made for
  NoEntry,        \* the nil *cacheEntry
  NoGetter,       \* marks a free loadMu
  IdleRefreshes,  \* idleRefreshes: 10 intervals in the code
  MaxVersion,     \* MaxVersion[h]: bound on the versions of h's metadata
  MaxClock        \* the last moment told apart from later ones, in intervals

ASSUME CacheAssumption ==
  /\ NoEntry \notin Entries
  /\ NoGetter \notin Getters
  /\ Asks \subseteq [Getters -> SUBSET Hosts]
  /\ HostOf \in [Entries -> Hosts]
  /\ IdleRefreshes \in Nat
  /\ MaxVersion \in [Hosts -> Nat]
  /\ MaxClock \in Nat

VARIABLES
  entries,    \* varCache.entries: hostPort -> *cacheEntry
  data,       \* cacheEntry.data: version of the snapshot, or Nil
  lastUsed,   \* cacheEntry.lastUsed, 0 until the first Store
  loadMu,     \* cacheEntry.loadMu: its holder
  gpc,        \* where each getter stands in get
  gent,       \* the entry each getter has in hand, or NoEntry
  gfrom,      \* the version its device had when its load began, or Nil
  rpc,        \* where the refresher stands
  copy,       \* refreshAll's private copy of the entries still to refresh
  rfrom,      \* the version a device had when its refresh began, or Nil
  idleBefore, \* refreshAll's threshold for dropping entries
  due,        \* a tick waits in the ticker's channel
  cancelled,  \* close has cancelled the cache's context
  device,     \* the version each device's metadata has now
  clock,      \* the time, in refresh intervals
  asks        \* the devices each getter asks for, now and then

getVars == <<gpc, gent, gfrom>>
refVars == <<rpc, copy, rfrom, idleBefore>>
envVars == <<due, cancelled, device, clock, asks>>
vars == <<entries, data, lastUsed, loadMu, getVars, refVars, envVars>>
-----------------------------------------------------------------------------
Nil == 0
Versions == Nat \ {Nil}

\* The entries somebody still has a pointer to.
Reachable(e) ==
  \/ \E h \in Hosts : entries[h] = e \/ copy[h] = e
  \/ \E g \in Getters : gent[g] = e

\* The garbage collector: f with the value z for the entries that nobody has a
\* pointer to after the step.
Collected(f, z) == [e \in Entries |-> IF Reachable(e)' THEN f[e] ELSE z]

Collect ==
  /\ data' = Collected(data, Nil)
  /\ lastUsed' = Collected(lastUsed, 0)

GetPCs == {"idle", "touch", "fast", "lock", "check", "loading"}
RefPCs == {"sleep", "sweep", "scan", "loading", "stopped"}

\* Time starts late enough for a lastUsed of 0 to be long past, as it is for
\* UnixNano.
Init ==
  /\ entries = [h \in Hosts |-> NoEntry]
  /\ data = [e \in Entries |-> Nil]
  /\ lastUsed = [e \in Entries |-> 0]
  /\ loadMu = [e \in Entries |-> NoGetter]
  /\ gpc = [g \in Getters |-> "idle"]
  /\ gent = [g \in Getters |-> NoEntry]
  /\ gfrom = [g \in Getters |-> Nil]
  /\ rpc = "sleep"
  /\ copy = [h \in Hosts |-> NoEntry]
  /\ rfrom = [h \in Hosts |-> Nil]
  /\ idleBefore = 0
  /\ due = FALSE
  /\ cancelled = FALSE
  /\ device = [h \in Hosts |-> 1]
  /\ clock = IdleRefreshes + 1
  /\ asks \in Asks
-----------------------------------------------------------------------------
(* get *)

\* Mutant of LookupOld: the map's zero value is used as an entry.
LookupUnchecked(g, h) ==
  /\ gpc[g] = "idle"
  /\ gent' = [gent EXCEPT ![g] = entries[h]]
  /\ gpc' = [gpc EXCEPT ![g] = "touch"]
  /\ UNCHANGED <<entries, data, lastUsed, loadMu, gfrom,
                 refVars, envVars>>

\* Lines 102-108: find the entry, or make one, under c.mu.
LookupOld(g, h) ==
  /\ gpc[g] = "idle"
  /\ entries[h] # NoEntry
  /\ gent' = [gent EXCEPT ![g] = entries[h]]
  /\ gpc' = [gpc EXCEPT ![g] = "touch"]
  /\ UNCHANGED <<entries, data, lastUsed, loadMu, gfrom,
                 refVars, envVars>>

LookupNew(g, h, e) ==
  /\ gpc[g] = "idle"
  /\ entries[h] = NoEntry
  /\ ~ Reachable(e) /\ HostOf[e] = h
  /\ entries' = [entries EXCEPT ![h] = e]
  /\ gent' = [gent EXCEPT ![g] = e]
  /\ gpc' = [gpc EXCEPT ![g] = "touch"]
  /\ UNCHANGED <<data, lastUsed, loadMu, gfrom, refVars, envVars>>

\* Line 109: only now does the entry count as used.
Touch(g) ==
  /\ gpc[g] = "touch"
  /\ lastUsed' = [lastUsed EXCEPT ![gent[g]] = clock]
  /\ gpc' = [gpc EXCEPT ![g] = "fast"]
  /\ UNCHANGED <<entries, data, loadMu, gent, gfrom, refVars,
                 envVars>>

\* get returns.
Return(g) ==
  /\ gpc' = [gpc EXCEPT ![g] = "idle"]
  /\ gent' = [gent EXCEPT ![g] = NoEntry]

\* Lines 111-113: the snapshot is there, and get returns it.
FastHit(g) ==
  /\ gpc[g] = "fast"
  /\ data[gent[g]] # Nil
  /\ Return(g)
  /\ UNCHANGED <<entries, loadMu, gfrom, refVars, envVars>>
  /\ Collect

FastMiss(g) ==
  /\ gpc[g] = "fast"
  /\ data[gent[g]] = Nil
  /\ gpc' = [gpc EXCEPT ![g] = "lock"]
  /\ UNCHANGED <<entries, data, lastUsed, loadMu, gent, gfrom,
                 refVars, envVars>>

\* Line 114.
Acquire(g) ==
  /\ gpc[g] = "lock"
  /\ loadMu[gent[g]] = NoGetter
  /\ loadMu' = [loadMu EXCEPT ![gent[g]] = g]
  /\ gpc' = [gpc EXCEPT ![g] = "check"]
  /\ UNCHANGED <<entries, data, lastUsed, gent, gfrom, refVars,
                 envVars>>

\* get returns and the deferred Unlock (line 115) runs.
ReturnLocked(g) ==
  /\ loadMu' = [loadMu EXCEPT ![gent[g]] = NoGetter]
  /\ gfrom' = [gfrom EXCEPT ![g] = Nil]
  /\ Return(g)

\* Lines 116-118: another getter loaded the device meanwhile.
CheckHit(g) ==
  /\ gpc[g] = "check"
  /\ data[gent[g]] # Nil
  /\ ReturnLocked(g)
  /\ UNCHANGED <<entries, refVars, envVars>>
  /\ Collect

\* Mutant of LoadBegin: no second look at data once the mutex is held.
LoadAnyway(g) ==
  /\ gpc[g] = "check"
  /\ gfrom' = [gfrom EXCEPT ![g] = device[HostOf[gent[g]]]]
  /\ gpc' = [gpc EXCEPT ![g] = "loading"]
  /\ UNCHANGED <<entries, data, lastUsed, loadMu, gent, refVars,
                 envVars>>

\* Line 119: load begins.
LoadBegin(g) ==
  /\ gpc[g] = "check"
  /\ data[gent[g]] = Nil
  /\ gfrom' = [gfrom EXCEPT ![g] = device[HostOf[gent[g]]]]
  /\ gpc' = [gpc EXCEPT ![g] = "loading"]
  /\ UNCHANGED <<entries, data, lastUsed, loadMu, gent, refVars,
                 envVars>>

\* Lines 119-124: load succeeded.
LoadOk(g) ==
  /\ gpc[g] = "loading"
  /\ ReturnLocked(g)
  /\ UNCHANGED <<entries, refVars, envVars>>
  /\ \E v \in gfrom[g] .. device[HostOf[gent[g]]] :
       data' = Collected([data EXCEPT ![gent[g]] = v], Nil)
  /\ lastUsed' = Collected(lastUsed, 0)

\* Mutant of LoadFail: the early return leaves the mutex locked.
LoadFailLocked(g) ==
  /\ gpc[g] = "loading"
  /\ Return(g)
  /\ gfrom' = [gfrom EXCEPT ![g] = Nil]
  /\ UNCHANGED <<entries, loadMu, refVars, envVars>>
  /\ Collect

\* Lines 120-122: load failed; the next caller tries again.
LoadFail(g) ==
  /\ gpc[g] = "loading"
  /\ ReturnLocked(g)
  /\ UNCHANGED <<entries, refVars, envVars>>
  /\ Collect
-----------------------------------------------------------------------------
(* run and refreshAll *)

\* Lines 135-142: a tick is taken and the threshold computed from the time.
RefreshBegin ==
  /\ rpc = "sleep"
  /\ due
  /\ due' = FALSE
  /\ idleBefore' = clock - IdleRefreshes
  /\ rpc' = "sweep"
  /\ UNCHANGED <<entries, data, lastUsed, loadMu, getVars, copy, rfrom,
                 cancelled, device, clock, asks>>

\* Lines 143-152: under c.mu, drop the idle entries and copy the others.
Sweep ==
  /\ rpc = "sweep"
  /\ LET used == [h \in Hosts |->
                    IF \/ entries[h] = NoEntry
                       \/ lastUsed[entries[h]] < idleBefore
                      THEN NoEntry ELSE entries[h]]
     IN entries' = used /\ copy' = used
  /\ rpc' = "scan"
  /\ idleBefore' = 0
  /\ UNCHANGED <<loadMu, getVars, rfrom, envVars>>
  /\ Collect

\* Lines 155-157: an entry never loaded is left to the next request.
RefreshSkip(h) ==
  /\ rpc = "scan"
  /\ copy[h] # NoEntry
  /\ data[copy[h]] = Nil
  /\ copy' = [copy EXCEPT ![h] = NoEntry]
  /\ UNCHANGED <<entries, loadMu, getVars, rpc, rfrom, idleBefore, envVars>>
  /\ Collect

\* Line 158: load begins.
RefreshLoad(h) ==
  /\ rpc = "scan"
  /\ copy[h] # NoEntry
  /\ data[copy[h]] # Nil
  /\ rfrom' = [rfrom EXCEPT ![h] = device[h]]
  /\ rpc' = "loading"
  /\ UNCHANGED <<entries, data, lastUsed, loadMu, getVars, copy, idleBefore,
                 envVars>>

\* Line 158 returned, and the pass goes on.
RefreshReturns(h) ==
  /\ rpc = "loading"
  /\ rfrom[h] # Nil
  /\ rfrom' = [rfrom EXCEPT ![h] = Nil]
  /\ rpc' = "scan"
  /\ UNCHANGED <<entries, loadMu, getVars, idleBefore, envVars>>

\* Line 166: the new snapshot replaces the old one.
RefreshStore(h) ==
  /\ RefreshReturns(h)
  /\ copy' = [copy EXCEPT ![h] = NoEntry]
  /\ \E v \in rfrom[h] .. device[h] :
       data' = Collected([data EXCEPT ![copy[h]] = v], Nil)
  /\ lastUsed' = Collected(lastUsed, 0)

\* Mutants of RefreshFail: the snapshot is dropped, or the device tried again.
RefreshFailClears(h) ==
  /\ RefreshReturns(h)
  /\ copy' = [copy EXCEPT ![h] = NoEntry]
  /\ data' = Collected([data EXCEPT ![copy[h]] = Nil], Nil)
  /\ lastUsed' = Collected(lastUsed, 0)

RefreshFailRepeats(h) ==
  /\ RefreshReturns(h)
  /\ copy' = IF cancelled THEN copy ELSE [copy EXCEPT ![h] = NoEntry]
  /\ Collect

\* Lines 159-165: the old snapshot is kept; after close the pass ends.
RefreshFail(h) ==
  /\ RefreshReturns(h)
  /\ copy' = IF cancelled THEN [x \in Hosts |-> NoEntry]
                          ELSE [copy EXCEPT ![h] = NoEntry]
  /\ Collect

\* The pass over the copy is complete.
RefreshEnd ==
  /\ rpc = "scan"
  /\ \A h \in Hosts : copy[h] = NoEntry
  /\ rpc' = "sleep"
  /\ UNCHANGED <<entries, data, lastUsed, loadMu, getVars, copy, rfrom,
                 idleBefore, envVars>>

\* Lines 133-134: run returns, and done is closed.
Stop ==
  /\ rpc = "sleep"
  /\ cancelled
  /\ rpc' = "stopped"
  /\ UNCHANGED <<entries, data, lastUsed, loadMu, getVars, copy, rfrom,
                 idleBefore, envVars>>

\* close (lines 94-97) cancels the context and waits for "stopped".
Close ==
  /\ ~ cancelled
  /\ cancelled' = TRUE
  /\ UNCHANGED <<entries, data, lastUsed, loadMu, getVars, refVars,
                 due, device, clock, asks>>
-----------------------------------------------------------------------------
(* Environment *)

\* An interval passes; the ticker's channel holds one tick.  From MaxClock on
\* the moments are not told apart, and the ticks go on.
Tick ==
  /\ clock' = IF clock < MaxClock THEN clock + 1 ELSE clock
  /\ due' = TRUE
  /\ UNCHANGED <<entries, data, lastUsed, loadMu, getVars, refVars,
                 cancelled, device, asks>>

\* An object is renamed, or otherwise changed.
Change(h) ==
  /\ device[h] < MaxVersion[h]
  /\ device' = [device EXCEPT ![h] = @ + 1]
  /\ UNCHANGED <<entries, data, lastUsed, loadMu, getVars, refVars,
                 due, cancelled, clock, asks>>
-----------------------------------------------------------------------------
Lookup(g) == \E h \in asks[g] :
  LookupOld(g, h) \/ \E e \in Entries : LookupNew(g, h, e)

GetStep(g) ==
  \/ Touch(g) \/ FastHit(g) \/ FastMiss(g) \/ CheckHit(g) \/ LoadBegin(g)
  \/ LoadOk(g) \/ LoadFail(g)

RefreshStep ==
  \/ RefreshBegin \/ Sweep \/ RefreshEnd
  \/ \E h \in Hosts :
        RefreshSkip(h) \/ RefreshLoad(h) \/ RefreshStore(h) \/ RefreshFail(h)

Next ==
  \/ \E g \in Getters : Lookup(g) \/ GetStep(g) \/ Acquire(g)
  \/ RefreshStep \/ Stop \/ Close
  \/ Tick \/ \E h \in Hosts : Change(h)

Spec == Init /\ [][Next]_vars

\* Goroutines run and loads end, if only by their five-minute timeout (line
\* 174).  A sync.Mutex goes to a starving waiter first, and select chooses at
\* random among what is ready: so no waiter and no cancelled refresher is
\* passed over for ever.
FairSpec ==
  /\ Spec
  /\ \A g \in Getters : WF_vars(GetStep(g)) /\ SF_vars(Acquire(g))
  /\ WF_vars(RefreshStep)
  /\ SF_vars(Stop)
-----------------------------------------------------------------------------
(* Properties *)

\* The type of the state.
TypeOK ==
  /\ entries \in [Hosts -> Entries \cup {NoEntry}]
  /\ data \in [Entries -> Nat]
  /\ lastUsed \in [Entries -> Nat]
  /\ loadMu \in [Entries -> Getters \cup {NoGetter}]
  /\ gpc \in [Getters -> GetPCs]
  /\ gent \in [Getters -> Entries \cup {NoEntry}]
  /\ \A g \in Getters : gpc[g] # "idle" => gent[g] \in Entries
  /\ gfrom \in [Getters -> Nat]
  /\ rpc \in RefPCs
  /\ copy \in [Hosts -> Entries \cup {NoEntry}]
  /\ rfrom \in [Hosts -> Nat]
  /\ idleBefore \in Int
  /\ due \in BOOLEAN
  /\ cancelled \in BOOLEAN
  /\ device \in [Hosts -> Versions]
  /\ clock \in Nat
  /\ asks \in Asks

\* The loads in progress whose result goes into entry e.
LoadersOf(e) ==
  {g \in Getters : gpc[g] = "loading" /\ gent[g] = e}
  \cup {h \in Hosts : rpc = "loading" /\ rfrom[h] # Nil /\ copy[h] = e}

\* An entry is loaded by one goroutine at a time, although the refresher does
\* not take the mutex that "serializes the initial load" (line 56): getters
\* load only entries without data, the refresher only entries with data.
SingleLoader ==
  \A e \in Entries : \A x, y \in LoadersOf(e) : x = y

\* What requests see of a device through one entry never goes back: not to
\* nothing, and not to metadata older than was served before, whichever of
\* the loads the refresher and the getters started ends last.
SnapshotMonotone ==
  [][\A e \in Entries :
       Reachable(e) /\ Reachable(e)' => data'[e] >= data[e]]_vars

\* Every get returns, with a snapshot or an error.
GetReturns == \A g \in Getters : gpc[g] # "idle" ~> gpc[g] = "idle"

\* close returns: the refresher notices the cancelled context, even in the
\* middle of a pass, and in spite of ticks that keep coming.
CloseReturns == cancelled ~> rpc = "stopped"
=============================================================================
