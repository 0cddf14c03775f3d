--------------------------- MODULE VarCacheProofs ---------------------------
(***************************************************************************)
(* Proofs about the variable cache, for any number of devices, getters and *)
(* entries: its type, that an entry has one loader at a time, and that its *)
(* snapshots never go back.                                                *)
(***************************************************************************)
EXTENDS VarCache, TLAPS

\* A fact that every action establishes holds after every step.
LEMMA NextCases ==
  ASSUME TypeOK, [Next]_vars, NEW ACTION P,
    \A g \in Getters, h \in Hosts : LookupOld(g, h) => P,
    \A g \in Getters, h \in Hosts, e \in Entries : LookupNew(g, h, e) => P,
    \A g \in Getters : Touch(g) => P,
    \A g \in Getters : FastHit(g) => P,
    \A g \in Getters : FastMiss(g) => P,
    \A g \in Getters : Acquire(g) => P,
    \A g \in Getters : CheckHit(g) => P,
    \A g \in Getters : LoadBegin(g) => P,
    \A g \in Getters : LoadOk(g) => P,
    \A g \in Getters : LoadFail(g) => P,
    RefreshBegin => P,
    Sweep => P,
    \A h \in Hosts : RefreshSkip(h) => P,
    \A h \in Hosts : RefreshLoad(h) => P,
    \A h \in Hosts : RefreshStore(h) => P,
    \A h \in Hosts : RefreshFail(h) => P,
    RefreshEnd => P,
    Stop => P,
    Close => P,
    Tick => P,
    \A h \in Hosts : Change(h) => P,
    UNCHANGED vars => P
  PROVE P
  BY CacheAssumption DEF Next, Lookup, GetStep, RefreshStep, TypeOK
-----------------------------------------------------------------------------
(* The inductive invariant *)

\* A getter past the Lock holds its entry's mutex.
LockHeld ==
  \A g \in Getters : gpc[g] \in {"check", "loading"} => loadMu[gent[g]] = g

\* A getter only loads an entry that has no data, and nobody gives it any.
InitialLoad ==
  \A g \in Getters : gpc[g] = "loading" => data[gent[g]] = Nil

\* The maps lead to entries made for their keys.
OwnHost ==
  \A h \in Hosts : /\ entries[h] # NoEntry => HostOf[entries[h]] = h
                   /\ copy[h] # NoEntry => HostOf[copy[h]] = h

\* No snapshot is newer than the device.
NotAhead == \A e \in Entries : data[e] <= device[HostOf[e]]

\* The refresher only loads an entry that has data, and nobody else changes it
\* meanwhile: what it reads is at least as new.
Refreshing ==
  /\ rpc # "loading" => \A h \in Hosts : rfrom[h] = Nil
  /\ \A h, k \in Hosts : rfrom[h] # Nil /\ rfrom[k] # Nil => h = k
  /\ \A h \in Hosts : rfrom[h] # Nil =>
        /\ copy[h] \in Entries
        /\ data[copy[h]] # Nil
        /\ data[copy[h]] <= rfrom[h]
        /\ rfrom[h] <= device[h]

IInv == TypeOK /\ LockHeld /\ InitialLoad /\ OwnHost /\ NotAhead /\ Refreshing
-----------------------------------------------------------------------------
(* Types *)

\* Initially the state has its type.
LEMMA TypeInit == Init => TypeOK
<1> SUFFICES ASSUME Init PROVE TypeOK
  OBVIOUS
<1>1. clock \in Nat /\ 1 \in Versions /\ 0 \in Nat /\ idleBefore \in Int
  BY CacheAssumption DEF Init, Versions, Nil
<1>2. /\ entries \in [Hosts -> Entries \cup {NoEntry}]
      /\ copy \in [Hosts -> Entries \cup {NoEntry}]
      /\ loadMu \in [Entries -> Getters \cup {NoGetter}]
      /\ data \in [Entries -> Nat]
      /\ lastUsed \in [Entries -> Nat]
  BY <1>1 DEF Init, Nil
<1>3. /\ gpc \in [Getters -> GetPCs]
      /\ gfrom \in [Getters -> Nat]
      /\ device \in [Hosts -> Versions]
      /\ rpc \in RefPCs /\ rfrom \in [Hosts -> Nat]
  BY <1>1 DEF Init, GetPCs, RefPCs, Nil
<1> QED
  BY <1>1, <1>2, <1>3 DEF Init, TypeOK

\* Every step of getters, refresher and device keeps the type.
LEMMA TypeStep == TypeOK /\ [Next]_vars => TypeOK'
<1> SUFFICES ASSUME TypeOK, [Next]_vars PROVE TypeOK'
  OBVIOUS
<1> USE CacheAssumption DEF TypeOK, GetPCs, RefPCs, Versions, Nil, getVars, refVars, envVars
<1>1. ASSUME NEW g \in Getters, NEW h \in Hosts, LookupOld(g, h) PROVE TypeOK'
  BY <1>1 DEF LookupOld
<1>2. ASSUME NEW g \in Getters, NEW h \in Hosts, NEW e \in Entries,
             LookupNew(g, h, e) PROVE TypeOK'
  BY <1>2 DEF LookupNew
<1>3. ASSUME NEW g \in Getters, Touch(g) PROVE TypeOK'
  BY <1>3 DEF Touch
<1>4. ASSUME NEW g \in Getters, FastHit(g) PROVE TypeOK'
  BY <1>4 DEF FastHit, Return, Collect, Collected
<1>5. ASSUME NEW g \in Getters, FastMiss(g) PROVE TypeOK'
  BY <1>5 DEF FastMiss
<1>6. ASSUME NEW g \in Getters, Acquire(g) PROVE TypeOK'
  BY <1>6 DEF Acquire
<1>7. ASSUME NEW g \in Getters, CheckHit(g) PROVE TypeOK'
  BY <1>7 DEF CheckHit, ReturnLocked, Return, Collect, Collected
<1>8. ASSUME NEW g \in Getters, LoadBegin(g) PROVE TypeOK'
  BY <1>8 DEF LoadBegin
<1>9. ASSUME NEW g \in Getters, LoadOk(g) PROVE TypeOK'
  BY <1>9 DEF LoadOk, ReturnLocked, Return, Collect, Collected
<1>10. ASSUME NEW g \in Getters, LoadFail(g) PROVE TypeOK'
  BY <1>10 DEF LoadFail, ReturnLocked, Return, Collect, Collected
<1>11. ASSUME RefreshBegin PROVE TypeOK'
  <2>1. idleBefore' \in Int
    BY <1>11 DEF RefreshBegin
  <2>2. due' \in BOOLEAN /\ cancelled' \in BOOLEAN
    BY <1>11, Zenon DEF RefreshBegin
  <2> QED
    BY <1>11, <2>1, <2>2 DEF RefreshBegin
<1>12. ASSUME Sweep PROVE TypeOK'
  BY <1>12 DEF Sweep, Collect, Collected
<1>13. ASSUME NEW h \in Hosts, RefreshSkip(h) PROVE TypeOK'
  BY <1>13 DEF RefreshSkip, Collect, Collected
<1>14. ASSUME NEW h \in Hosts, RefreshLoad(h) PROVE TypeOK'
  BY <1>14 DEF RefreshLoad
<1>15. ASSUME NEW h \in Hosts, RefreshStore(h) PROVE TypeOK'
  <2>1. PICK v \in rfrom[h] .. device[h] :
          data' = Collected([data EXCEPT ![copy[h]] = v], Nil)
    BY <1>15 DEF RefreshStore
  <2>2. v \in Nat
    BY <2>1
  <2>3. data' \in [Entries -> Nat]
    BY <2>1, <2>2 DEF Collected
  <2>4. copy' \in [Hosts -> Entries \cup {NoEntry}]
    BY <1>15 DEF RefreshStore
  <2> QED
    BY <1>15, <2>3, <2>4 DEF RefreshStore, RefreshReturns, Collected
<1>16. ASSUME NEW h \in Hosts, RefreshFail(h) PROVE TypeOK'
  BY <1>16 DEF RefreshFail, RefreshReturns, Collect, Collected
<1>17. ASSUME RefreshEnd PROVE TypeOK'
  BY <1>17 DEF RefreshEnd
<1>18. ASSUME Stop PROVE TypeOK'
  BY <1>18 DEF Stop
<1>19. ASSUME Close PROVE TypeOK'
  BY <1>19 DEF Close
<1>20. ASSUME Tick PROVE TypeOK'
  BY <1>20 DEF Tick
<1>21. ASSUME NEW h \in Hosts, Change(h) PROVE TypeOK'
  BY <1>21 DEF Change
<1>22. ASSUME UNCHANGED vars PROVE TypeOK'
  BY <1>22 DEF vars
<1> QED
  BY <1>1, <1>2, <1>3, <1>4, <1>5, <1>6, <1>7, <1>8, <1>9, <1>10, <1>11,
     <1>12, <1>13, <1>14, <1>15, <1>16, <1>17, <1>18, <1>19, <1>20, <1>21,
     <1>22, NextCases

\* The maps hold entries or nothing, and time and versions only grow from
\* where they start.
THEOREM TypeCorrect == Spec => []TypeOK
BY TypeInit, TypeStep, PTL DEF Spec
-----------------------------------------------------------------------------
(* The invariant is inductive *)

\* Initially nothing is cached, loaded or locked.
LEMMA InvInit == Init => IInv
<1> SUFFICES ASSUME Init PROVE IInv
  OBVIOUS
<1>1. TypeOK
  BY TypeInit
<1> QED
  BY <1>1, CacheAssumption
  DEF Init, IInv, LockHeld, InitialLoad, OwnHost, NotAhead, Refreshing, Nil

\* When a getter returns and entries are collected, the loads of the others and
\* the refresher's keep their entries.
LEMMA CollectStep ==
  ASSUME IInv, Collect, UNCHANGED << entries, rpc, copy, rfrom, device >>,
         NEW g \in Getters, Return(g)
  PROVE  InitialLoad' /\ OwnHost' /\ NotAhead' /\ Refreshing'
<1>1. \A x \in Getters :
        gpc'[x] = "loading" => gpc[x] = "loading" /\ gent'[x] = gent[x]
  BY DEF Return, IInv, TypeOK
<1>2. \A e \in Entries : data'[e] = data[e] \/ data'[e] = Nil
  BY DEF Collect, Collected
<1>3. \A h \in Hosts : copy[h] \in Entries => data'[copy[h]] = data[copy[h]]
  BY DEF Collect, Collected, Reachable
<1>4. InitialLoad'
  <2> SUFFICES ASSUME NEW x \in Getters, gpc'[x] = "loading"
               PROVE  data'[gent'[x]] = Nil
    BY DEF InitialLoad
  <2>1. gent[x] \in Entries /\ data[gent[x]] = Nil /\ gent'[x] = gent[x]
    BY <1>1 DEF IInv, TypeOK, InitialLoad
  <2> QED
    BY <1>2, <2>1
<1>5. OwnHost'
  BY DEF IInv, OwnHost
<1>6. NotAhead'
  <2> SUFFICES ASSUME NEW e \in Entries PROVE data'[e] <= device[HostOf[e]]
    BY DEF NotAhead
  <2>1. data[e] <= device[HostOf[e]] /\ device[HostOf[e]] \in Nat
    BY CacheAssumption DEF IInv, TypeOK, NotAhead, Versions
  <2> QED
    BY <1>2, <2>1 DEF Nil
<1>7. Refreshing'
  BY <1>3 DEF IInv, Refreshing
<1> QED
  BY <1>4, <1>5, <1>6, <1>7

\* Every step keeps locks, entries and versions in accord.
LEMMA InvStep == IInv /\ [Next]_vars => IInv'
<1> SUFFICES ASSUME IInv, [Next]_vars PROVE IInv'
  OBVIOUS
<1> DEFINE Rest == LockHeld /\ InitialLoad /\ OwnHost /\ NotAhead /\ Refreshing
<1>0. TypeOK'
  BY TypeStep DEF IInv
<1> USE CacheAssumption DEF IInv, TypeOK, LockHeld, InitialLoad, OwnHost, NotAhead,
        Refreshing, Versions, Nil, getVars, refVars, envVars
<1>1. ASSUME NEW g \in Getters, NEW h \in Hosts, LookupOld(g, h) PROVE Rest'
  BY <1>1 DEF LookupOld
<1>2. ASSUME NEW g \in Getters, NEW h \in Hosts, NEW e \in Entries,
             LookupNew(g, h, e) PROVE Rest'
  BY <1>2 DEF LookupNew, Reachable
<1>3. ASSUME NEW g \in Getters, Touch(g) PROVE Rest'
  BY <1>3 DEF Touch
<1>4. ASSUME NEW g \in Getters, FastHit(g) PROVE Rest'
  <2>1. InitialLoad' /\ OwnHost' /\ NotAhead' /\ Refreshing'
    BY <1>4, CollectStep DEF FastHit
  <2>2. LockHeld'
    BY <1>4 DEF FastHit, Return
  <2> QED
    BY <2>1, <2>2
<1>5. ASSUME NEW g \in Getters, FastMiss(g) PROVE Rest'
  BY <1>5 DEF FastMiss
<1>6. ASSUME NEW g \in Getters, Acquire(g) PROVE Rest'
  BY <1>6 DEF Acquire
<1>7. ASSUME NEW g \in Getters, CheckHit(g) PROVE Rest'
  <2>1. InitialLoad' /\ OwnHost' /\ NotAhead' /\ Refreshing'
    BY <1>7, CollectStep DEF CheckHit, ReturnLocked
  <2>2. LockHeld'
    BY <1>7 DEF CheckHit, ReturnLocked, Return
  <2> QED
    BY <2>1, <2>2
<1>8. ASSUME NEW g \in Getters, LoadBegin(g) PROVE Rest'
  BY <1>8 DEF LoadBegin
<1>9. ASSUME NEW g \in Getters, LoadOk(g) PROVE Rest'
  <2>1. PICK v \in gfrom[g] .. device[HostOf[gent[g]]] :
          data' = Collected([data EXCEPT ![gent[g]] = v], Nil)
    BY <1>9 DEF LoadOk
  <2>2. /\ gpc[g] = "loading" /\ gent[g] \in Entries /\ data[gent[g]] = Nil
        /\ loadMu[gent[g]] = g
        /\ UNCHANGED << entries, rpc, copy, rfrom, device >>
    BY <1>9 DEF LoadOk
  <2>3. \A x \in Getters :
          gpc'[x] # "idle" =>
            /\ x # g /\ gpc'[x] = gpc[x] /\ gent'[x] = gent[x]
    BY <1>9 DEF LoadOk, ReturnLocked, Return
  <2>4. LockHeld'
    BY <1>9, <2>2, <2>3 DEF LoadOk, ReturnLocked
  <2>5. InitialLoad'
    <3> SUFFICES ASSUME NEW x \in Getters, gpc'[x] = "loading"
                 PROVE  data'[gent'[x]] = Nil
      OBVIOUS
    <3>1. x # g /\ gpc[x] = "loading" /\ gent'[x] = gent[x]
      BY <2>3
    <3>2. gent[x] # gent[g] /\ gent[x] \in Entries /\ data[gent[x]] = Nil
      BY <2>2, <3>1
    <3> QED
      BY <2>1, <3>1, <3>2 DEF Collected
  <2>6. OwnHost'
    BY <2>2
  <2>7. NotAhead'
    BY <2>1, <2>2 DEF Collected
  <2>8. Refreshing'
    BY <2>1, <2>2 DEF Collected, Reachable
  <2> QED
    BY <2>4, <2>5, <2>6, <2>7, <2>8
<1>10. ASSUME NEW g \in Getters, LoadFail(g) PROVE Rest'
  <2>1. InitialLoad' /\ OwnHost' /\ NotAhead' /\ Refreshing'
    BY <1>10, CollectStep DEF LoadFail, ReturnLocked
  <2>2. LockHeld'
    BY <1>10 DEF LoadFail, ReturnLocked, Return
  <2> QED
    BY <2>1, <2>2
<1>11. ASSUME RefreshBegin PROVE Rest'
  BY <1>11 DEF RefreshBegin
<1>12. ASSUME Sweep PROVE Rest'
  BY <1>12 DEF Sweep, Collect, Collected, Reachable
<1>13. ASSUME NEW h \in Hosts, RefreshSkip(h) PROVE Rest'
  BY <1>13 DEF RefreshSkip, Collect, Collected, Reachable
<1>14. ASSUME NEW h \in Hosts, RefreshLoad(h) PROVE Rest'
  BY <1>14 DEF RefreshLoad
<1>15. ASSUME NEW h \in Hosts, RefreshStore(h) PROVE Rest'
  BY <1>15 DEF RefreshStore, RefreshReturns, Collected, Reachable
<1>16. ASSUME NEW h \in Hosts, RefreshFail(h) PROVE Rest'
  BY <1>16 DEF RefreshFail, RefreshReturns, Collect, Collected, Reachable
<1>17. ASSUME RefreshEnd PROVE Rest'
  BY <1>17 DEF RefreshEnd
<1>18. ASSUME Stop PROVE Rest'
  BY <1>18 DEF Stop
<1>19. ASSUME Close PROVE Rest'
  BY <1>19 DEF Close
<1>20. ASSUME Tick PROVE Rest'
  BY <1>20 DEF Tick
<1>21. ASSUME NEW h \in Hosts, Change(h) PROVE Rest'
  BY <1>21 DEF Change
<1>22. ASSUME UNCHANGED vars PROVE Rest'
  BY <1>22 DEF vars
<1>23. Rest'
  BY <1>1, <1>2, <1>3, <1>4, <1>5, <1>6, <1>7, <1>8, <1>9, <1>10, <1>11,
     <1>12, <1>13, <1>14, <1>15, <1>16, <1>17, <1>18, <1>19, <1>20, <1>21,
     <1>22, NextCases
<1> QED
  BY <1>0, <1>23

\* Two getters loading an entry would both hold its mutex; a getter and the
\* refresher would disagree about whether it has data.
LEMMA InvSingleLoader == IInv => SingleLoader
<1> SUFFICES ASSUME IInv, NEW e \in Entries,
                    NEW x \in LoadersOf(e), NEW y \in LoadersOf(e)
             PROVE  x = y
  BY DEF SingleLoader
<1> DEFINE Getting(z) == z \in Getters /\ gpc[z] = "loading" /\ gent[z] = e
           Renewing(z) == z \in Hosts /\ rfrom[z] # Nil /\ copy[z] = e
<1>1. \A z \in LoadersOf(e) : Getting(z) \/ Renewing(z)
  BY DEF LoadersOf
<1>2. CASE Getting(x) /\ Getting(y)
  BY <1>2 DEF IInv, LockHeld
<1>3. CASE Renewing(x) /\ Renewing(y)
  BY <1>3 DEF IInv, Refreshing
<1>4. CASE Getting(x) /\ Renewing(y)
  BY <1>4 DEF IInv, InitialLoad, Refreshing
<1>5. CASE Renewing(x) /\ Getting(y)
  BY <1>5 DEF IInv, InitialLoad, Refreshing
<1> QED
  BY <1>1, <1>2, <1>3, <1>4, <1>5

\* However many requests and devices there are, no entry is ever loaded by two
\* goroutines at once, although the refresher takes no entry's mutex.
THEOREM OneLoader == Spec => []SingleLoader
BY InvInit, InvStep, InvSingleLoader, PTL DEF Spec

\* The entries' data after a step, from the state before it.
LEMMA DataStep ==
  ASSUME IInv, [Next]_vars, NEW e \in Entries, Reachable(e), Reachable(e)'
  PROVE  data'[e] >= data[e]
<1> DEFINE P == data'[e] >= data[e]
<1>0. data[e] \in Nat
  BY DEF IInv, TypeOK
<1>1. ASSUME data' = data PROVE P
  BY <1>0, <1>1
<1>2. ASSUME Collect PROVE P
  BY <1>0, <1>2 DEF Collect, Collected
<1>3. ASSUME NEW g \in Getters, LoadOk(g) PROVE P
  <2>1. PICK v \in gfrom[g] .. device[HostOf[gent[g]]] :
          data' = Collected([data EXCEPT ![gent[g]] = v], Nil)
    BY <1>3 DEF LoadOk
  <2>2. gpc[g] = "loading" /\ gent[g] \in Entries /\ data[gent[g]] = Nil
    BY <1>3 DEF LoadOk, IInv, InitialLoad, TypeOK
  <2>3. v \in Nat
    BY <2>1, <2>2, CacheAssumption DEF IInv, TypeOK, Versions
  <2> QED
    BY <1>0, <2>1, <2>2, <2>3 DEF IInv, TypeOK, Collected, Nil
<1>4. ASSUME NEW h \in Hosts, RefreshStore(h) PROVE P
  <2>1. PICK v \in rfrom[h] .. device[h] :
          data' = Collected([data EXCEPT ![copy[h]] = v], Nil)
    BY <1>4 DEF RefreshStore
  <2>2. data[copy[h]] <= v /\ v \in Nat
    BY <1>4, <2>1 DEF RefreshStore, RefreshReturns, IInv, Refreshing, TypeOK, Versions
  <2> QED
    BY <1>0, <2>1, <2>2 DEF IInv, TypeOK, Collected
<1> QED
  <2> USE <1>1
  <2> HIDE DEF P
  <2>1. \A g \in Getters : asks[g] \subseteq Hosts
    BY CacheAssumption DEF IInv, TypeOK
  <2>2. P \/ data' = data
    BY <1>2, <1>3, <1>4, <2>1
       DEF Next, Lookup, GetStep, RefreshStep, vars, LookupOld, LookupNew, Touch,
           FastHit, FastMiss, Acquire, CheckHit, LoadBegin, LoadFail, RefreshBegin, Sweep, RefreshSkip,
           RefreshLoad, RefreshFail, RefreshEnd, Stop, Close, Tick, Change
  <2>3. P
    BY <1>1, <2>2
  <2> QED
    BY <2>3 DEF P

\* What requests see of a device through an entry never goes back, whatever
\* the order in which loads, refreshes and changes to the device happen.
THEOREM SnapshotsMonotone == Spec => SnapshotMonotone
<1>1. IInv /\ [Next]_vars
        => [\A e \in Entries : Reachable(e) /\ Reachable(e)'
                                 => data'[e] >= data[e]]_vars
  BY DataStep
<1> QED
  BY <1>1, InvInit, InvStep, PTL DEF Spec, SnapshotMonotone
=============================================================================
