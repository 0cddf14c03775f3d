--------------------------- MODULE HandlersProofs ---------------------------
(***************************************************************************)
(* Proofs about the HTTP handlers, for any number of workers, callers,     *)
(* objects and names, any rules, and any number of changes to the device:  *)
(* nothing is shown or written that the rules did not allow under a name   *)
(* the object had, and strangers learn nothing about the device.           *)
(***************************************************************************)
EXTENDS Handlers, TLAPS

-----------------------------------------------------------------------------
(* The inductive invariant                                                 *)

MaybeNames == Names \cup {{}}
SnapshotType == [names : [Objects -> MaybeNames], own : DeviceObjects]
Responses == [status : {0, 200, 204, 400, 401, 403, FromDevice},
              shown : SUBSET Objects, wrote : SUBSET Objects,
              access : {"", "readonly", "readwrite", "each its own"}]

\* f, names of objects, has only names that its objects have had.
Past(f) == \A o \in Objects : f[o] # {} => <<o, f[o]>> \in had

\* A snapshot of the device, as it is or once was.
Good(s) == s \in SnapshotType /\ Past(s.names)

NamesPast == Past(names)
CachedGood == cached # NoSnapshot => Good(cached)

\* Person p may perform the operation of request kind k under name n.
May(p, k, n) == allowed(p, n, OperationOf(k))

\* Past authorization, the rules allow the request of worker w under the name
\* that authorizeVariable returned, which is one the object has had.
Cleared(w) ==
  /\ AboutVariable(w)
  /\ May(req[w].who, req[w].kind, judged[w])
  /\ needsObjectName /\ req[w].kind # "device" =>
       judged[w] \in Names /\ <<req[w].obj, judged[w]>> \in had
  /\ ~ needsObjectName => judged[w] = {}

\* What is asked of the device is what was authorized, and the list that it
\* answers with is filtered by a snapshot.
Aimed(w) ==
  /\ req[w].kind # "device" => target[w] = req[w].obj
  /\ req[w].kind = "object-list" /\ needsObjectName => Good(seen[w])

\* A response r to worker w's request that keeps all three promises.
MayRead(w, r, n) ==
  \/ CanRead(req[w].who, n)
  \/ req[w].kind = "object" /\ r.access = "" /\ May(req[w].who, "object", n)
Shows(w, r) ==
  req[w].kind # "device" =>
    \A o \in r.shown : \E n \in NamesOf(o) : MayRead(w, r, n)
Writes(w, r) ==
  \A o \in r.wrote : \E n \in NamesOf(o) : allowed(req[w].who, n, "write-property")
Tells(w, r) ==
  r.status \in {200, 204, FromDevice} /\ ~ Credentials[req[w].who].known
    => \E n \in MaybeNames : May(req[w].who, req[w].kind, n)
Justified(w, r) == r \in Responses /\ Shows(w, r) /\ Writes(w, r) /\ Tells(w, r)

\* One worker, wherever it stands.
WorkerOK(w) ==
  /\ pc[w] \in {"work", "io"} => Cleared(w)
  /\ pc[w] = "io" => Aimed(w)
  /\ Justified(w, resp[w])

IInv == TypeOK /\ NamesPast /\ CachedGood /\ \A w \in Workers : WorkerOK(w)

-----------------------------------------------------------------------------
(* The invariant contains what is to be shown.                             *)

\* The three promises about responses are part of the invariant.
LEMMA IInvImplies == IInv => ShownWasReadable /\ WrittenWasWritable /\ StrangersLearnNothing
BY DEF IInv, WorkerOK, Justified, Shows, MayRead, Writes, Tells, May, OperationOf,
       MaybeNames, ShownWasReadable, WrittenWasWritable, StrangersLearnNothing

\* Local variables are tables with an entry for each worker.
LEMMA PerWorker ==
  ASSUME IInv
  PROVE  /\ DOMAIN pc = Workers /\ DOMAIN judged = Workers /\ DOMAIN target = Workers
         /\ DOMAIN seen = Workers /\ DOMAIN resp = Workers /\ DOMAIN req = Workers
<1>1. DOMAIN pc = Workers /\ DOMAIN judged = Workers
  BY DEF IInv, TypeOK
<1>2. DOMAIN target = Workers /\ DOMAIN seen = Workers
  BY DEF IInv, TypeOK
<1>3. DOMAIN resp = Workers /\ DOMAIN req = Workers
  BY DEF IInv, TypeOK
<1> QED
  BY <1>1, <1>2, <1>3

\* A response that is a bare status.
LEMMA BareStatus ==
  ASSUME NEW c \in {0, 200, 204, 400, 401, 403, FromDevice}
  PROVE  /\ [NoResponse EXCEPT !.status = c] \in Responses
         /\ [NoResponse EXCEPT !.status = c].status = c
         /\ [NoResponse EXCEPT !.status = c].shown = {}
         /\ [NoResponse EXCEPT !.status = c].wrote = {}
<1>1. NoResponse \in Responses /\ NoResponse.shown = {} /\ NoResponse.wrote = {}
  <2>1. NoResponse \in Responses
    BY DEF NoResponse, Responses
  <2>2. NoResponse.shown = {} /\ NoResponse.wrote = {}
    BY DEF NoResponse
  <2> QED
    BY <2>1, <2>2
<1> DEFINE r == [NoResponse EXCEPT !.status = c]
       S == {0, 200, 204, 400, 401, 403, FromDevice}
       A == {"", "readonly", "readwrite", "each its own"}
       R == [status : S, shown : SUBSET Objects, wrote : SUBSET Objects, access : A]
<1>2. r \in Responses
  <2>1. NoResponse \in R /\ c \in S
    BY <1>1 DEF Responses
  <2> HIDE DEF S, A
  <2>2. r \in R
    BY <2>1
  <2> QED
    BY <2>2 DEF Responses, S, A
<1>3. r.status = c /\ r.shown = NoResponse.shown /\ r.wrote = NoResponse.wrote
  BY DEF NoResponse
<1> HIDE DEF r
<1>4. r \in Responses /\ r.status = c /\ r.shown = {} /\ r.wrote = {}
  BY <1>1, <1>2, <1>3
<1> QED
  BY <1>4 DEF r

\* No response is a response that promises nothing.
LEMMA Silence ==
  ASSUME NEW w, NEW c \in {400, 401, 403}
  PROVE  /\ Justified(w, NoResponse)
         /\ Justified(w, [NoResponse EXCEPT !.status = c])
<1>1. NoResponse \in Responses /\ [NoResponse EXCEPT !.status = c] \in Responses
  <2>1. NoResponse \in Responses
    BY DEF NoResponse, Responses
  <2> QED
    BY <2>1, BareStatus
<1>2. /\ NoResponse.status = 0 /\ NoResponse.shown = {} /\ NoResponse.wrote = {}
      /\ [NoResponse EXCEPT !.status = c].status = c
      /\ [NoResponse EXCEPT !.status = c].shown = {}
      /\ [NoResponse EXCEPT !.status = c].wrote = {}
  BY DEF NoResponse
<1>3. 0 \notin {200, 204, FromDevice} /\ c \notin {200, 204, FromDevice}
  BY DEF FromDevice
<1> QED
  BY <1>1, <1>2, <1>3 DEF Justified, Shows, Writes, Tells

\* Every initial state of the proxy satisfies the invariant.
LEMMA IInvInit == Init => IInv
<1> SUFFICES ASSUME Init
             PROVE  IInv
  OBVIOUS
<1>1. PICK p \in People :
        req = [w \in Workers |-> [kind |-> "devices", obj |-> own, who |-> p]]
  BY DEF Init
<1>2. own \in DeviceObjects /\ own \in Objects
  BY HandlersAssumption DEF Init
<1>3. names \in [Objects -> Names \cup {{}}]
  BY DEF Init
<1>4. \A w \in Workers : NoResponse \in Responses
  BY Silence DEF Justified
<1>5. TypeOK
  <2>1. /\ rules \in RuleLists
        /\ cached \in [names : [Objects -> Names \cup {{}}], own : DeviceObjects]
                      \cup {NoSnapshot}
        /\ pc \in [Workers -> {"idle", "auth", "work", "io"}]
        /\ judged \in [Workers -> Names \cup {{}}]
        /\ seen \in [Workers -> [names : [Objects -> Names \cup {{}}],
                                 own : DeviceObjects] \cup {NoSnapshot}]
    BY DEF Init
  <2>2. req \in [Workers -> [kind : Kinds, obj : Objects, who : People]]
    BY <1>1, <1>2 DEF Kinds
  <2>3. target \in [Workers -> Objects]
    BY <1>2 DEF Init
  <2>4. resp \in [Workers -> Responses]
    BY <1>4 DEF Init
  <2>5. had \subseteq Objects \X Names
    BY <1>3 DEF Init
  <2>6. changes \in 0 .. MaxChanges
    BY HandlersAssumption DEF Init
  <2> QED
    BY <1>2, <1>3, <2>1, <2>2, <2>3, <2>4, <2>5, <2>6 DEF TypeOK, Responses
<1>6. NamesPast /\ CachedGood
  BY DEF Init, NamesPast, CachedGood, Past
<1>7. \A w \in Workers : WorkerOK(w)
  BY Silence DEF Init, WorkerOK
<1> QED
  BY <1>5, <1>6, <1>7 DEF IInv

-----------------------------------------------------------------------------
(* Frame conditions                                                        *)

\* The rules of a running proxy do not change and the history of the device only
\* grows: the same things stay allowed, and what had a name has had it.
LEMMA Judgement ==
  ASSUME UNCHANGED rules, had \subseteq had'
  PROVE  /\ needsObjectName' = needsObjectName
         /\ \A p, n, op : allowed(p, n, op)' = allowed(p, n, op)
         /\ \A o : NamesOf(o) \subseteq NamesOf(o)'
         /\ \A s : Good(s) => Good(s)'
<1>1. needsObjectName' = needsObjectName
  BY DEF needsObjectName
<1>2. \A p, n, op : allowed(p, n, op)' = allowed(p, n, op)
  BY DEF allowed
<1>3. \A o : NamesOf(o) \subseteq NamesOf(o)'
  BY <1>1 DEF NamesOf
<1>4. \A s : Good(s) => Good(s)'
  BY DEF Good, Past, SnapshotType, MaybeNames
<1> QED
  BY <1>1, <1>2, <1>3, <1>4

\* A snapshot from cache.get, be it found or loaded, has only names that the
\* device has had, and so has what it leaves in the cache.
LEMMA Loaded ==
  ASSUME TypeOK, NamesPast, CachedGood, UNCHANGED had,
         NEW s \in Snapshots, Got(s)
  PROVE  Good(s) /\ CachedGood'
<1>1. own \in DeviceObjects
  BY DEF TypeOK
<1>2. ASSUME s \in Loadable
      PROVE  Good(s)
  <2>1. PICK f \in [Objects -> MaybeNames] :
          /\ \A o \in Objects : f[o] \in {names[o], {}}
          /\ s = [names |-> f, own |-> own]
    BY <1>2 DEF Loadable, MaybeNames
  <2> QED
    BY <1>1, <2>1 DEF Good, Past, NamesPast, SnapshotType
<1>3. Good(s)
  BY <1>2 DEF Got, CachedGood
<1>4. cached' \in {s, NoSnapshot}
  BY DEF Got
<1>5. CASE cached' = s
  BY <1>3, <1>5 DEF CachedGood, Good, Past, SnapshotType, MaybeNames
<1>6. CASE cached' = NoSnapshot
  BY <1>3, <1>6 DEF CachedGood, Good
<1> QED
  BY <1>4, <1>5, <1>6

\* What was justified by the rules and the names had stays so.
LEMMA StaysJustified ==
  ASSUME UNCHANGED rules, had \subseteq had', NEW w, NEW r, req'[w] = req[w],
         Justified(w, r)
  PROVE  Justified(w, r)'
<1>1. Shows(w, r)'
  <2>1. \A p, k, n : May(p, k, n)' = May(p, k, n)
    BY Judgement DEF May, OperationOf
  <2>2. \A p, n : CanRead(p, n)' = CanRead(p, n)
    BY Judgement DEF CanRead
  <2> QED
    BY <2>1, <2>2, Judgement DEF Justified, Shows, MayRead
<1>2. Writes(w, r)'
  BY Judgement DEF Justified, Writes
<1>3. Tells(w, r)'
  BY Judgement DEF Justified, Tells, May, MaybeNames, FromDevice
<1>4. Responses' = Responses
  BY DEF Responses, FromDevice
<1> QED
  BY <1>1, <1>2, <1>3, <1>4 DEF Justified

\* A cleared request stays cleared.
LEMMA ClearedStays ==
  ASSUME UNCHANGED rules, had \subseteq had', NEW v, Cleared(v),
         req'[v] = req[v], judged'[v] = judged[v]
  PROVE  Cleared(v)'
<1>1. AboutVariable(v)' /\ needsObjectName' = needsObjectName
  BY Judgement DEF Cleared, AboutVariable
<1>2. May(req[v].who, req[v].kind, judged[v])'
  <2>1. PICK p, k, n : p = req[v].who /\ k = req[v].kind /\ n = judged[v]
    OBVIOUS
  <2>2. allowed(p, n, OperationOf(k))'
    BY <2>1, Judgement DEF Cleared, May, OperationOf
  <2> QED
    BY <2>1, <2>2 DEF May, OperationOf, allowed
<1> QED
  BY <1>1, <1>2 DEF Cleared

\* A worker that does not move stays as it should be.
LEMMA WorkerWaits ==
  ASSUME UNCHANGED rules, had \subseteq had', NEW v, WorkerOK(v),
         pc'[v] = pc[v], req'[v] = req[v], judged'[v] = judged[v],
         target'[v] = target[v], seen'[v] = seen[v], resp'[v] = resp[v]
  PROVE  WorkerOK(v)'
<1>1. Cleared(v) => Cleared(v)'
  BY ClearedStays
<1>2. Aimed(v) => Aimed(v)'
  <2>1. Good(seen[v]) => Good(seen[v])'
    BY DEF Good, Past, SnapshotType, MaybeNames
  <2> QED
    BY <2>1, Judgement DEF Aimed
<1>3. Justified(v, resp[v])'
  <2>1. PICK x : x = resp[v] /\ Justified(v, x)
    BY DEF WorkerOK
  <2>2. Justified(v, x)'
    BY <2>1, StaysJustified
  <2> QED
    BY <2>1, <2>2 DEF Justified, Shows, Writes, Tells
<1> QED
  BY <1>1, <1>2, <1>3 DEF WorkerOK

\* A handler that returns a justified response keeps the invariant.
LEMMA RespondKeeps ==
  ASSUME IInv, NEW w \in Workers, NEW r, Respond(w, r), Justified(w, r),
         UNCHANGED <<rules, req, device>>, CachedGood'
  PROVE  IInv'
<1>1. TypeOK'
  <2>1. /\ resp' \in [Workers -> Responses]
        /\ judged' \in [Workers -> Names \cup {{}}]
        /\ target' \in [Workers -> Objects]
        /\ pc' \in [Workers -> {"idle", "auth", "work", "io"}]
    <3>1. resp \in [Workers -> Responses] /\ r \in Responses
      <4>1. resp \in [Workers -> Responses]
        BY DEF IInv, TypeOK, Responses
      <4> QED
        BY <4>1 DEF Justified
    <3>2. resp' \in [Workers -> Responses]
      BY <3>1 DEF Respond
    <3>3. /\ judged' \in [Workers -> Names \cup {{}}]
          /\ pc' \in [Workers -> {"idle", "auth", "work", "io"}]
      BY DEF IInv, TypeOK, Respond
    <3>4. target' \in [Workers -> Objects]
      <4>1. /\ target \in [Workers -> Objects]
            /\ req \in [Workers -> [kind : Kinds, obj : Objects, who : People]]
        BY DEF IInv, TypeOK
      <4>2. req[w].obj \in Objects
        BY <4>1
      <4> QED
        BY <4>1, <4>2 DEF Respond
    <3> QED
      BY <3>2, <3>3, <3>4
  <2>2. seen' \in [Workers -> [names : [Objects -> Names \cup {{}}],
                               own : DeviceObjects] \cup {NoSnapshot}]
    BY DEF IInv, TypeOK, Respond
  <2>3. cached' \in [names : [Objects -> Names \cup {{}}], own : DeviceObjects]
                    \cup {NoSnapshot}
    BY DEF CachedGood, Good, SnapshotType, MaybeNames
  <2> QED
    BY <2>1, <2>2, <2>3 DEF IInv, TypeOK, Responses, device, Kinds, FromDevice
<1>2. NamesPast'
  BY DEF IInv, NamesPast, Past, device
<1>3. ASSUME NEW v \in Workers, v # w
      PROVE  WorkerOK(v)'
  <2>1. /\ pc'[v] = pc[v] /\ req'[v] = req[v] /\ judged'[v] = judged[v]
        /\ target'[v] = target[v] /\ seen'[v] = seen[v] /\ resp'[v] = resp[v]
    BY <1>3, PerWorker DEF Respond
  <2> QED
    BY <2>1, WorkerWaits DEF IInv, device
<1>4. WorkerOK(w)'
  <2>1. pc'[w] = "idle" /\ resp'[w] = r
    BY PerWorker DEF Respond
  <2>2. Justified(w, r)'
    BY StaysJustified DEF device
  <2>3. Justified(w, resp[w])'
    BY <2>1, <2>2 DEF Justified, Shows, Writes, Tells
  <2> QED
    BY <2>1, <2>3 DEF WorkerOK
<1> QED
  BY <1>1, <1>2, <1>3, <1>4 DEF IInv

\* A snapshot that stays in the cache stays good.
LEMMA CachedStays ==
  ASSUME CachedGood, UNCHANGED cached, had \subseteq had'
  PROVE  CachedGood'
BY DEF CachedGood, Good, Past, SnapshotType, MaybeNames

\* writeDenied answers 401 or 403.
LEMMA DeniedStatus == \A p : Denied(p) \in {400, 401, 403}
BY DEF Denied

\* A refusal keeps the invariant: it tells nothing.
LEMMA Refuse ==
  ASSUME IInv, NEW w \in Workers, NEW c \in {400, 401, 403}, RespondStatus(w, c),
         UNCHANGED <<rules, req, device>>, CachedGood'
  PROVE  IInv'
<1>1. Justified(w, [NoResponse EXCEPT !.status = c])
  BY Silence
<1> QED
  BY <1>1, RespondKeeps DEF RespondStatus

\* A bare status that tells what became of the request keeps the invariant when
\* the caller is known or is allowed the operation under some name.
LEMMA Tell ==
  ASSUME IInv, NEW w \in Workers, NEW c \in {200, FromDevice}, RespondStatus(w, c),
         UNCHANGED <<rules, req, device>>, CachedGood',
         \/ Credentials[req[w].who].known
         \/ \E n \in MaybeNames : May(req[w].who, req[w].kind, n)
  PROVE  IInv'
<1> DEFINE r == [NoResponse EXCEPT !.status = c]
<1>1. r \in Responses /\ r.shown = {} /\ r.wrote = {}
  BY BareStatus
<1> HIDE DEF r
<1>2. Justified(w, r)
  BY <1>1 DEF Justified, Shows, Writes, Tells
<1> QED
  BY <1>2, RespondKeeps DEF RespondStatus, r

-----------------------------------------------------------------------------
(* Authorization                                                           *)

\* A request on its way in has not been answered and promises nothing yet.
LEMMA ReceiveKeeps ==
  ASSUME IInv, NEW w \in Workers, NEW k \in Kinds, NEW o \in Objects,
         NEW p \in People, Receive(w, k, o, p)
  PROVE  IInv'
<1>1. NoResponse \in Responses
  BY Silence DEF Justified
<1>2. TypeOK'
  <2>1. [kind |-> k, obj |-> o, who |-> p] \in [kind : Kinds, obj : Objects, who : People]
    OBVIOUS
  <2>2. req' \in [Workers -> [kind : Kinds, obj : Objects, who : People]]
    BY <2>1 DEF IInv, TypeOK, Receive
  <2>3. /\ resp' \in [Workers -> Responses]
        /\ target' \in [Workers -> Objects]
        /\ pc' \in [Workers -> {"idle", "auth", "work", "io"}]
    <3>1. resp \in [Workers -> Responses]
      BY DEF IInv, TypeOK, Responses
    <3>2. resp' \in [Workers -> Responses]
      BY <1>1, <3>1 DEF Receive
    <3>3. /\ target' \in [Workers -> Objects]
          /\ pc' \in [Workers -> {"idle", "auth", "work", "io"}]
      BY DEF IInv, TypeOK, Receive
    <3> QED
      BY <3>2, <3>3
  <2> QED
    BY <2>2, <2>3 DEF IInv, TypeOK, Receive, device, Responses, Kinds, FromDevice
<1>3. NamesPast' /\ CachedGood'
  BY CachedStays DEF IInv, Receive, device, NamesPast, Past
<1>4. ASSUME NEW v \in Workers, v # w
      PROVE  WorkerOK(v)'
  <2>1. /\ pc'[v] = pc[v] /\ req'[v] = req[v] /\ judged'[v] = judged[v]
        /\ target'[v] = target[v] /\ seen'[v] = seen[v] /\ resp'[v] = resp[v]
    BY <1>4, PerWorker DEF Receive
  <2> QED
    BY <2>1, WorkerWaits DEF IInv, Receive, device
<1>5. WorkerOK(w)'
  <2>1. pc'[w] = "auth" /\ resp'[w] = NoResponse
    BY PerWorker DEF Receive
  <2>2. NoResponse.status = 0 /\ NoResponse.shown = {} /\ NoResponse.wrote = {}
    BY DEF NoResponse
  <2>3. Responses' = Responses
    BY DEF Responses, FromDevice
  <2>4. Justified(w, resp[w])'
    BY <1>1, <2>1, <2>2, <2>3 DEF Justified, Shows, Writes, Tells, FromDevice
  <2> QED
    BY <2>1, <2>4 DEF WorkerOK
<1> QED
  BY <1>2, <1>3, <1>4, <1>5 DEF IInv

\* check lets a request through under a name that its object has had, or denies
\* it.
LEMMA CheckKeeps ==
  ASSUME IInv, NEW w \in Workers, AboutVariable(w), NEW n \in MaybeNames,
         needsObjectName /\ req[w].kind # "device" =>
           n \in Names /\ <<req[w].obj, n>> \in had,
         ~ needsObjectName => n = {},
         Check(w, n), UNCHANGED <<rules, req, device>>, CachedGood'
  PROVE  IInv'
<1> DEFINE may == allowed(req[w].who, n, OperationOf(req[w].kind))
<1>1. CASE ~ may
  <2>1. \E c \in {400, 401, 403} : RespondStatus(w, c)
    BY <1>1, DeniedStatus DEF Check
  <2> QED
    BY <2>1, Refuse
<1>2. CASE may
  <2>1. /\ judged' = [judged EXCEPT ![w] = n]
        /\ pc' = [pc EXCEPT ![w] = "work"]
        /\ UNCHANGED <<target, seen, resp>>
    BY <1>2 DEF Check
  <2>2. TypeOK'
    <3>1. /\ judged' \in [Workers -> Names \cup {{}}]
          /\ pc' \in [Workers -> {"idle", "auth", "work", "io"}]
      BY <2>1 DEF IInv, TypeOK, MaybeNames
    <3>2. cached' \in [names : [Objects -> Names \cup {{}}], own : DeviceObjects]
                      \cup {NoSnapshot}
      BY DEF CachedGood, Good, SnapshotType, MaybeNames
    <3> QED
      BY <2>1, <3>1, <3>2 DEF IInv, TypeOK, device, Kinds, FromDevice
  <2>3. NamesPast'
    BY DEF IInv, device, NamesPast, Past
  <2>4. ASSUME NEW v \in Workers, v # w
        PROVE  WorkerOK(v)'
    <3>1. /\ pc'[v] = pc[v] /\ req'[v] = req[v] /\ judged'[v] = judged[v]
          /\ target'[v] = target[v] /\ seen'[v] = seen[v] /\ resp'[v] = resp[v]
      BY <2>1, <2>4, PerWorker
    <3> QED
      BY <3>1, WorkerWaits DEF IInv, device
  <2>5. WorkerOK(w)'
    <3>1. pc'[w] = "work" /\ judged'[w] = n /\ resp'[w] = resp[w] /\ req'[w] = req[w]
      BY <2>1, PerWorker
    <3>2. Cleared(w)'
      <4>1. AboutVariable(w)' /\ needsObjectName' = needsObjectName /\ had' = had
        BY <3>1, Judgement DEF AboutVariable, device
      <4>2. May(req[w].who, req[w].kind, judged[w])'
        <5>1. PICK p, k : p = req[w].who /\ k = req[w].kind
          OBVIOUS
        <5>2. allowed(p, n, OperationOf(k))'
          BY <1>2, <5>1, Judgement DEF OperationOf, device
        <5> QED
          BY <3>1, <5>1, <5>2 DEF May, OperationOf
      <4> QED
        BY <3>1, <4>1, <4>2 DEF Cleared
    <3>3. PICK x : x = resp[w] /\ Justified(w, x)
      BY DEF IInv, WorkerOK
    <3>4. Justified(w, x)'
      BY <3>1, <3>3, StaysJustified DEF device
    <3> QED
      BY <3>1, <3>2, <3>3, <3>4 DEF WorkerOK, Justified, Shows, Writes, Tells
  <2> QED
    BY <2>2, <2>3, <2>4, <2>5 DEF IInv
<1> QED
  BY <1>1, <1>2

\* Each way authorization ends keeps the invariant.
LEMMA AuthorizeKeeps ==
  ASSUME IInv, NEW w \in Workers, Authorize(w)
  PROVE  IInv'
<1>1. UNCHANGED <<cached, had>> => CachedGood'
  BY CachedStays DEF IInv
<1>2. /\ req[w] \in [kind : Kinds, obj : Objects, who : People]
      /\ Justified(w, resp[w])
  <2>1. req \in [Workers -> [kind : Kinds, obj : Objects, who : People]]
    BY DEF IInv, TypeOK
  <2>2. Justified(w, resp[w])
    BY DEF IInv, WorkerOK
  <2> QED
    BY <2>1, <2>2
<1>3. CASE BadReference(w)
  BY <1>1, <1>3, Refuse DEF BadReference, device
<1>4. CASE ListDevices(w)
  <2>1. CASE allowed(req[w].who, {}, "list-devices")
    <3>1. May(req[w].who, req[w].kind, {}) /\ {} \in MaybeNames
      BY <1>4, <2>1 DEF ListDevices, May, OperationOf, MaybeNames
    <3>2. RespondStatus(w, 200)
      BY <1>4, <2>1 DEF ListDevices
    <3> QED
      BY <1>1, <1>4, <3>1, <3>2, Tell DEF ListDevices, device
  <2>2. CASE ~ allowed(req[w].who, {}, "list-devices")
    <3>1. RespondStatus(w, Denied(req[w].who))
      BY <1>4, <2>2 DEF ListDevices
    <3> QED
      BY <1>1, <1>4, <3>1, DeniedStatus, Refuse DEF ListDevices, device
  <2> QED
    BY <2>1, <2>2
<1>5. CASE AuthorizeUnnamed(w)
  <2>1. {} \in MaybeNames
    BY DEF MaybeNames
  <2> QED
    BY <1>1, <1>5, <2>1, CheckKeeps DEF AuthorizeUnnamed, device
<1>6. CASE AuthorizeNamed(w)
  <2>1. PICK s \in Snapshots :
          /\ Got(s)
          /\ LET n == s.names[IF req[w].kind = "device" THEN s.own
                                                        ELSE req[w].obj]
             IN IF n # {} THEN Check(w, n)
                          ELSE RespondStatus(w, Denied(req[w].who))
    BY <1>6 DEF AuthorizeNamed
  <2>2. Good(s) /\ CachedGood'
    BY <1>6, <2>1, Loaded DEF IInv, AuthorizeNamed, device
  <2> DEFINE o == IF req[w].kind = "device" THEN s.own ELSE req[w].obj
             n == s.names[o]
  <2>3. o \in Objects
    BY <1>2, <2>2, HandlersAssumption DEF Good, SnapshotType
  <2>4. n \in MaybeNames /\ (n # {} => n \in Names /\ <<o, n>> \in had)
    BY <2>2, <2>3 DEF Good, SnapshotType, Past, MaybeNames
  <2>5. CASE n # {}
    <3>1. Check(w, n)
      BY <2>1, <2>5
    <3>2. needsObjectName /\ req[w].kind # "device" =>
            n \in Names /\ <<req[w].obj, n>> \in had
      BY <2>4, <2>5
    <3> HIDE DEF n, o
    <3> QED
      BY <1>6, <2>2, <2>4, <3>1, <3>2, CheckKeeps DEF AuthorizeNamed
  <2>6. CASE n = {}
    <3>1. RespondStatus(w, Denied(req[w].who))
      BY <2>1, <2>6
    <3> QED
      BY <1>6, <2>2, <3>1, DeniedStatus, Refuse DEF AuthorizeNamed
  <2> QED
    BY <2>5, <2>6
<1>7. CASE AuthorizeFails(w)
  <2>1. CachedGood'
    BY <1>1, <1>7 DEF AuthorizeFails, GetFails, device
  <2>2. CASE Credentials[req[w].who].known
    BY <1>7, <2>1, <2>2, Tell DEF AuthorizeFails, EnumerationStatus
  <2>3. CASE ~ Credentials[req[w].who].known
    BY <1>7, <2>1, <2>3, DeniedStatus, Refuse DEF AuthorizeFails, EnumerationStatus
  <2> QED
    BY <2>2, <2>3
<1>8. CASE ListDenied(w)
  BY <1>1, <1>8, DeniedStatus, Refuse DEF ListDenied, device
<1>9. CASE ListFails(w)
  <2>1. CachedGood'
    BY <1>1, <1>9 DEF ListFails, GetFails, device
  <2>2. CASE ~ needsObjectName
    <3>1. May(req[w].who, req[w].kind, {}) /\ {} \in MaybeNames
      BY <1>9, <2>2 DEF ListFails, ListRefused, variableAccess, May, OperationOf,
                        MaybeNames
    <3> QED
      BY <1>9, <2>1, <2>2, <3>1, Tell DEF ListFails
  <2>3. CASE needsObjectName /\ Credentials[req[w].who].known
    BY <1>9, <2>1, <2>3, Tell DEF ListFails, EnumerationStatus
  <2>4. CASE needsObjectName /\ ~ Credentials[req[w].who].known
    BY <1>9, <2>1, <2>4, DeniedStatus, Refuse DEF ListFails, EnumerationStatus
  <2> QED
    BY <2>2, <2>3, <2>4
<1>10. CASE ListObjects(w)
  <2>1. PICK s \in Snapshots :
          /\ Got(s)
          /\ IF Visible(req[w].who, s) = {}
               THEN RespondStatus(w, Denied(req[w].who))
               ELSE Respond(w, [status |-> 200, shown |-> Visible(req[w].who, s),
                                wrote |-> {}, access |-> "each its own"])
    BY <1>10 DEF ListObjects
  <2>2. Good(s) /\ CachedGood'
    BY <1>10, <2>1, Loaded DEF IInv, ListObjects, device
  <2>3. CASE Visible(req[w].who, s) = {}
    <3>1. RespondStatus(w, Denied(req[w].who))
      BY <2>1, <2>3
    <3>2. UNCHANGED <<rules, req, device>>
      BY <1>10 DEF ListObjects
    <3> QED
      BY <2>2, <3>1, <3>2, DeniedStatus, Refuse
  <2>4. CASE Visible(req[w].who, s) # {}
    <3>1. PICK r : r = [status |-> 200, shown |-> Visible(req[w].who, s),
                        wrote |-> {}, access |-> "each its own"]
      OBVIOUS
    <3>2. \A o \in Visible(req[w].who, s) :
            \E n \in NamesOf(o) : n \in MaybeNames /\ May(req[w].who, req[w].kind, n)
      <4> SUFFICES ASSUME NEW o \in Visible(req[w].who, s)
                   PROVE  \E n \in NamesOf(o) : n \in MaybeNames
                                                /\ May(req[w].who, req[w].kind, n)
        OBVIOUS
      <4> DEFINE n == IF needsObjectName THEN s.names[o] ELSE {}
      <4>1. o \in Objects /\ s.names[o] # {} /\ variableAccess(req[w].who, n) # ""
        BY DEF Visible
      <4>2. n \in NamesOf(o) /\ n \in MaybeNames
        BY <2>2, <4>1 DEF Good, SnapshotType, Past, MaybeNames, NamesOf
      <4>3. May(req[w].who, req[w].kind, n)
        BY <1>10, <4>1 DEF variableAccess, May, OperationOf, ListObjects
      <4> QED
        BY <4>2, <4>3
    <3>3. r \in Responses /\ r.shown = Visible(req[w].who, s) /\ r.wrote = {}
      <4>1. Visible(req[w].who, s) \in SUBSET Objects
        BY DEF Visible
      <4> QED
        BY <3>1, <4>1 DEF Responses
    <3>4. Shows(w, r)
      BY <1>10, <3>2, <3>3 DEF ListObjects, Shows, MayRead, CanRead, May, OperationOf
    <3>5. Justified(w, r)
      BY <2>4, <3>2, <3>3, <3>4 DEF Justified, Writes, Tells
    <3> QED
      BY <1>10, <2>1, <2>2, <2>4, <3>1, <3>5, RespondKeeps DEF ListObjects
  <2> QED
    BY <2>3, <2>4
<1> QED
  BY <1>3, <1>4, <1>5, <1>6, <1>7, <1>8, <1>9, <1>10 DEF Authorize

-----------------------------------------------------------------------------
(* The authorized part                                                     *)

\* Going on to the device keeps the invariant if the object asked about is the
\* one authorized, and the snapshot to filter by is good.
LEMMA AimKeeps ==
  ASSUME IInv, NEW w \in Workers, pc[w] = "work",
         NEW o \in Objects, NEW s \in SnapshotType \cup {NoSnapshot},
         req[w].kind # "device" => o = req[w].obj,
         req[w].kind = "object-list" /\ needsObjectName => Good(s),
         target' = [target EXCEPT ![w] = o], seen' = [seen EXCEPT ![w] = s],
         pc' = [pc EXCEPT ![w] = "io"],
         UNCHANGED <<rules, req, judged, resp, device>>, CachedGood'
  PROVE  IInv'
<1>1. TypeOK'
  <2>1. /\ target' \in [Workers -> Objects]
        /\ pc' \in [Workers -> {"idle", "auth", "work", "io"}]
    BY DEF IInv, TypeOK
  <2>2. seen' \in [Workers -> [names : [Objects -> Names \cup {{}}],
                               own : DeviceObjects] \cup {NoSnapshot}]
    BY DEF IInv, TypeOK, SnapshotType, MaybeNames
  <2>3. cached' \in [names : [Objects -> Names \cup {{}}], own : DeviceObjects]
                    \cup {NoSnapshot}
    BY DEF CachedGood, Good, SnapshotType, MaybeNames
  <2> QED
    BY <2>1, <2>2, <2>3 DEF IInv, TypeOK, device, Kinds, FromDevice
<1>2. NamesPast'
  BY DEF IInv, device, NamesPast, Past
<1>3. ASSUME NEW v \in Workers, v # w
      PROVE  WorkerOK(v)'
  <2>1. /\ pc'[v] = pc[v] /\ req'[v] = req[v] /\ judged'[v] = judged[v]
        /\ target'[v] = target[v] /\ seen'[v] = seen[v] /\ resp'[v] = resp[v]
    BY <1>3, PerWorker
  <2> QED
    BY <2>1, WorkerWaits DEF IInv, device
<1>4. WorkerOK(w)'
  <2>1. target'[w] = o /\ seen'[w] = s /\ req' = req /\ judged' = judged
    BY PerWorker
  <2>2. Cleared(w)'
    BY <2>1, ClearedStays DEF IInv, WorkerOK, device
  <2>3. Aimed(w)'
    <3>1. Good(s) => Good(s)'
      BY Judgement DEF device
    <3>2. Good(s) => Good(seen[w])'
      BY <2>1, <3>1 DEF Good, Past
    <3> QED
      BY <2>1, <3>2, Judgement DEF Aimed, device
  <2>4. PICK x : x = resp[w] /\ Justified(w, x)
    BY DEF IInv, WorkerOK
  <2>5. Justified(w, x)'
    BY <2>1, <2>4, StaysJustified DEF device
  <2> QED
    BY <2>2, <2>3, <2>4, <2>5 DEF WorkerOK, Justified, Shows, Writes, Tells
<1> QED
  BY <1>1, <1>2, <1>3, <1>4 DEF IInv

\* A caller allowed the operation under the judged name may be told what became
\* of it.
LEMMA ClearedTells ==
  ASSUME IInv, NEW w \in Workers, pc[w] \in {"work", "io"}
  PROVE  /\ Cleared(w)
         /\ judged[w] \in MaybeNames
         /\ \E n \in MaybeNames : May(req[w].who, req[w].kind, n)
         /\ req[w].kind # "device" => judged[w] \in NamesOf(req[w].obj)
<1>1. Cleared(w)
  BY DEF IInv, WorkerOK
<1>2. judged[w] \in MaybeNames
  <2>1. judged \in [Workers -> MaybeNames]
    BY DEF IInv, TypeOK, MaybeNames
  <2> QED
    BY <2>1
<1>3. May(req[w].who, req[w].kind, judged[w])
  BY <1>1 DEF Cleared
<1>4. req[w].kind # "device" => judged[w] \in NamesOf(req[w].obj)
  BY <1>1 DEF Cleared, NamesOf
<1> QED
  BY <1>1, <1>2, <1>3, <1>4

\* Each step of an authorized handler keeps the invariant.
LEMMA WorkKeeps ==
  ASSUME IInv, NEW w \in Workers, Work(w)
  PROVE  IInv'
<1>1. UNCHANGED <<cached, had>> => CachedGood'
  BY CachedStays DEF IInv
<1>2. /\ req[w] \in [kind : Kinds, obj : Objects, who : People]
      /\ target[w] \in Objects
      /\ seen[w] \in SnapshotType \cup {NoSnapshot}
      /\ seen = [seen EXCEPT ![w] = seen[w]]
  <2>1. /\ req \in [Workers -> [kind : Kinds, obj : Objects, who : People]]
        /\ target \in [Workers -> Objects]
        /\ seen \in [Workers -> SnapshotType \cup {NoSnapshot}]
    BY DEF IInv, TypeOK, SnapshotType, MaybeNames
  <2> QED
    BY <2>1
<1>3. CASE BadInput(w)
  BY <1>1, <1>3, Refuse DEF BadInput, device
<1>4. CASE DeviceAgain(w)
  <2>1. PICK s \in Snapshots : Got(s) /\ target' = [target EXCEPT ![w] = s.own]
    BY <1>4 DEF DeviceAgain
  <2>2. Good(s) /\ CachedGood'
    BY <1>4, <2>1, Loaded DEF IInv, DeviceAgain, device
  <2>3. s.own \in Objects
    BY <2>2, HandlersAssumption DEF Good, SnapshotType
  <2> QED
    BY <1>2, <1>4, <2>1, <2>2, <2>3, AimKeeps DEF DeviceAgain
<1>5. CASE ListAgain(w)
  <2>1. PICK s \in Snapshots : Got(s) /\ seen' = [seen EXCEPT ![w] = s]
    BY <1>5 DEF ListAgain
  <2>2. Good(s) /\ CachedGood'
    BY <1>5, <2>1, Loaded DEF IInv, ListAgain, device
  <2>3. s \in SnapshotType \cup {NoSnapshot} /\ req[w].obj \in Objects
    BY <1>2, <2>2 DEF Good
  <2> QED
    BY <1>5, <2>1, <2>2, <2>3, AimKeeps DEF ListAgain
<1>6. CASE AgainFails(w)
  <2>1. CachedGood'
    BY <1>1, <1>6 DEF AgainFails, GetFails, device
  <2>2. \E n \in MaybeNames : May(req[w].who, req[w].kind, n)
    BY <1>6, ClearedTells DEF AgainFails
  <2>3. RespondStatus(w, FromDevice) /\ UNCHANGED <<rules, req, device>>
    BY <1>6 DEF AgainFails
  <2> QED
    BY <2>1, <2>2, <2>3, Tell
<1>7. CASE Direct(w)
  <2>1. req[w].obj \in Objects
    BY <1>2
  <2> QED
    BY <1>1, <1>2, <1>7, <2>1, AimKeeps DEF Direct, device
<1>8. CASE WriteOk(w) \/ IOFails(w)
  <2>1. PICK c \in {204, FromDevice}, W \in SUBSET {target[w]} :
          /\ Respond(w, [NoResponse EXCEPT !.status = c, !.wrote = W])
          /\ W # {} => req[w].kind = "write"
    BY <1>8 DEF WriteOk, IOFails
  <2>2. PICK r : r = [NoResponse EXCEPT !.status = c, !.wrote = W]
    OBVIOUS
  <2>3. r \in Responses /\ r.shown = {} /\ r.wrote = W
    <3>1. r = [status |-> c, shown |-> {}, wrote |-> W, access |-> ""]
      BY <2>2 DEF NoResponse
    <3>2. W \in SUBSET Objects
      BY <1>2
    <3> QED
      BY <3>1, <3>2 DEF Responses, FromDevice
  <2>4. pc[w] = "io" /\ UNCHANGED <<rules, cached, req, device>>
    BY <1>8 DEF WriteOk, IOFails
  <2>5. Writes(w, r)
    <3> SUFFICES ASSUME NEW o \in W
                 PROVE  \E n \in NamesOf(o) : allowed(req[w].who, n, "write-property")
      BY <2>3 DEF Writes
    <3>1. req[w].kind = "write" /\ o = req[w].obj
      BY <2>1, <2>4 DEF IInv, WorkerOK, Aimed
    <3> QED
      BY <2>4, <3>1, ClearedTells DEF Cleared, May, OperationOf
  <2>6. Justified(w, r)
    BY <2>3, <2>4, <2>5, ClearedTells DEF Justified, Shows, Tells
  <2> QED
    BY <1>1, <2>1, <2>2, <2>4, <2>6, RespondKeeps DEF device
<1>9. CASE ReadOk(w)
  <2> DEFINE list == IF needsObjectName THEN Filtered(w)
                     ELSE {o \in Objects : names[o] # {}}
             parts == IF req[w].kind = "object-list"
                        THEN {list, {}} \cup {{o} : o \in list}
                        ELSE {{target[w]}}
  <2>1. PICK part \in parts :
          Respond(w, [status |-> 200, shown |-> part, wrote |-> {},
                      access |-> variableAccess(req[w].who, judged[w])])
    BY <1>9 DEF ReadOk
  <2>2. PICK r : r = [status |-> 200, shown |-> part, wrote |-> {},
                      access |-> variableAccess(req[w].who, judged[w])]
    OBVIOUS
  <2>3. pc[w] = "io" /\ UNCHANGED <<rules, cached, req, device>>
    BY <1>9 DEF ReadOk
  <2>4. r \in Responses /\ r.shown = part /\ r.wrote = {}
    <3>1. list \subseteq Objects
      BY DEF Filtered
    <3>2. part \in SUBSET Objects
      <4> HIDE DEF list
      <4> QED
        BY <1>2, <3>1
    <3>3. variableAccess(req[w].who, judged[w]) \in {"", "readonly", "readwrite"}
      BY DEF variableAccess
    <3> QED
      BY <2>2, <3>2, <3>3 DEF Responses
  <2>5. Shows(w, r)
    <3> SUFFICES ASSUME req[w].kind # "device", NEW o \in part
                 PROVE  \E n \in NamesOf(o) : MayRead(w, r, n)
      BY <2>4 DEF Shows
    <3>4. MayRead(w, r, judged[w])
      <4>1. /\ May(req[w].who, req[w].kind, judged[w]) /\ AboutVariable(w)
            /\ req[w].kind \in Kinds \ {"write"}
        BY <1>9, <2>3 DEF IInv, TypeOK, WorkerOK, Cleared, ReadOk
      <4>2. CASE req[w].kind \in {"property", "object-list"}
        BY <4>1, <4>2 DEF MayRead, CanRead, May, OperationOf
      <4>3. CASE req[w].kind = "object"
        <5>1. r.access = variableAccess(req[w].who, judged[w])
          BY <2>2
        <5>2. r.access = "" \/ CanRead(req[w].who, judged[w])
          BY <5>1 DEF variableAccess, CanRead
        <5> QED
          BY <4>1, <4>3, <5>2 DEF MayRead
      <4> QED
        BY <4>1, <4>2, <4>3 DEF Kinds, AboutVariable
    <3>1. CASE req[w].kind # "object-list"
      <4>1. o = req[w].obj
        BY <2>3, <3>1 DEF IInv, WorkerOK, Aimed
      <4>2. judged[w] \in NamesOf(o)
        BY <2>3, <4>1, ClearedTells DEF Cleared, NamesOf, IInv, WorkerOK
      <4> QED
        BY <3>4, <4>2
    <3>2. CASE req[w].kind = "object-list" /\ ~ needsObjectName
      <4>1. judged[w] \in NamesOf(o)
        BY <2>3, <3>2 DEF Cleared, NamesOf, IInv, WorkerOK
      <4> QED
        BY <3>4, <4>1
    <3>3. CASE req[w].kind = "object-list" /\ needsObjectName
      <4>1. o \in Filtered(w)
        <5>1. list = Filtered(w) /\ parts = {list, {}} \cup {{x} : x \in list}
          BY <3>3
        <5> HIDE DEF list, parts
        <5> QED
          BY <5>1
      <4>2. Good(seen[w])
        BY <2>3, <3>3 DEF IInv, WorkerOK, Aimed
      <4>3. seen[w].names[o] \in NamesOf(o)
        BY <3>3, <4>1, <4>2 DEF Filtered, Good, SnapshotType, MaybeNames, Past, NamesOf
      <4>4. MayRead(w, r, seen[w].names[o])
        BY <4>1 DEF Filtered, variableAccess, MayRead, CanRead
      <4> QED
        BY <4>3, <4>4
    <3> QED
      BY <3>1, <3>2, <3>3
  <2>6. Justified(w, r)
    BY <2>3, <2>4, <2>5, ClearedTells DEF Justified, Writes, Tells
  <2> HIDE DEF parts
  <2> QED
    BY <1>1, <2>1, <2>2, <2>3, <2>6, RespondKeeps DEF device
<1> QED
  BY <1>3, <1>4, <1>5, <1>6, <1>7, <1>8, <1>9 DEF Work

-----------------------------------------------------------------------------
(* The cache and the device                                                *)

\* The refresher stores what it loads, or drops it; no worker moves.
LEMMA RefreshKeeps ==
  ASSUME IInv, Refresh
  PROVE  IInv'
<1>1. CachedGood'
  <2>1. CASE cached' = NoSnapshot
    BY <2>1 DEF CachedGood
  <2>2. CASE cached' \in Loadable
    <3>1. PICK f \in [Objects -> MaybeNames] :
            /\ \A o \in Objects : f[o] \in {names[o], {}}
            /\ cached' = [names |-> f, own |-> own]
      BY <2>2 DEF Loadable, MaybeNames
    <3>2. own \in DeviceObjects /\ had' = had
      BY DEF IInv, TypeOK, Refresh, device
    <3>3. PICK s : s = cached' /\ Good(s)
      BY <3>1, <3>2 DEF Good, Past, SnapshotType, IInv, NamesPast
    <3> QED
      BY <3>2, <3>3 DEF CachedGood, Good, Past, SnapshotType, MaybeNames
  <2> QED
    BY <2>1, <2>2 DEF Refresh
<1>2. cached' \in [names : [Objects -> Names \cup {{}}], own : DeviceObjects]
                  \cup {NoSnapshot}
  BY <1>1 DEF CachedGood, Good, SnapshotType, MaybeNames
<1>3. TypeOK'
  BY <1>2 DEF IInv, TypeOK, Refresh, locals, device, Kinds, FromDevice
<1>4. NamesPast'
  BY DEF IInv, NamesPast, Past, Refresh, device
<1>5. ASSUME NEW v \in Workers
      PROVE  WorkerOK(v)'
  BY WorkerWaits DEF IInv, Refresh, locals, device
<1> QED
  BY <1>1, <1>3, <1>4, <1>5 DEF IInv

\* Whatever becomes of the device, its history grows and no worker moves.
LEMMA ChangedKeeps ==
  ASSUME IInv, NEW f \in [Objects -> MaybeNames], Changed(f), own' \in DeviceObjects
  PROVE  IInv'
<1>1. had \subseteq had' /\ had' \subseteq Objects \X Names
  <2>1. had \subseteq Objects \X Names
    BY DEF IInv, TypeOK
  <2>2. \A x \in Objects : f[x] # {} => f[x] \in Names
    BY DEF MaybeNames
  <2> QED
    BY <2>1, <2>2 DEF Changed
<1>2. changes' \in 0 .. MaxChanges
  <2>1. changes \in 0 .. MaxChanges /\ MaxChanges \in Nat
    BY HandlersAssumption DEF IInv, TypeOK
  <2> QED
    BY <2>1 DEF Changed
<1>3. TypeOK'
  BY <1>1, <1>2 DEF IInv, TypeOK, Changed, locals, Kinds, FromDevice, MaybeNames
<1>4. NamesPast'
  BY DEF NamesPast, Past, Changed
<1>5. CachedGood'
  BY <1>1, CachedStays DEF IInv, Changed
<1>6. ASSUME NEW v \in Workers
      PROVE  WorkerOK(v)'
  BY <1>1, WorkerWaits DEF IInv, Changed, locals
<1> QED
  BY <1>3, <1>4, <1>5, <1>6 DEF IInv

-----------------------------------------------------------------------------
(* The invariant and what follows from it                                  *)

\* Every step of the proxy, the cache and the device keeps the invariant.
LEMMA IInvNext == IInv /\ [Next]_vars => IInv'
<1> SUFFICES ASSUME IInv, [Next]_vars
             PROVE  IInv'
  OBVIOUS
<1>1. CASE \E w \in Workers, k \in Kinds, o \in Objects, p \in People :
             Receive(w, k, o, p)
  BY <1>1, ReceiveKeeps
<1>2. CASE \E w \in Workers : Authorize(w) \/ Work(w)
  BY <1>2, AuthorizeKeeps, WorkKeeps
<1>3. CASE Refresh
  BY <1>3, RefreshKeeps
<1>4. ASSUME NEW o \in Objects, NEW n \in Names \cup {{}}, Reconfigure(o, n)
      PROVE  IInv'
  <2>1. [names EXCEPT ![o] = n] \in [Objects -> MaybeNames]
    BY DEF IInv, TypeOK, MaybeNames
  <2>2. own' \in DeviceObjects
    BY <1>4 DEF Reconfigure, IInv, TypeOK
  <2> QED
    BY <1>4, <2>1, <2>2, ChangedKeeps DEF Reconfigure
<1>5. ASSUME NEW d \in DeviceObjects, NEW n \in Names, Replace(d, n)
      PROVE  IInv'
  <2>1. [names EXCEPT ![own] = {}, ![d] = n] \in [Objects -> MaybeNames]
    BY HandlersAssumption DEF IInv, TypeOK, MaybeNames
  <2>2. own' \in DeviceObjects
    BY <1>5 DEF Replace
  <2> QED
    BY <1>5, <2>1, <2>2, ChangedKeeps DEF Replace
<1>6. CASE UNCHANGED vars
  <2>1. TypeOK' /\ NamesPast'
    BY <1>6 DEF IInv, TypeOK, NamesPast, Past, vars, locals, device, Kinds, FromDevice
  <2>2. CachedGood'
    BY <1>6, CachedStays DEF IInv, vars, device
  <2>3. ASSUME NEW v \in Workers
        PROVE  WorkerOK(v)'
    BY <1>6, WorkerWaits DEF IInv, vars, locals, device
  <2> QED
    BY <2>1, <2>2, <2>3 DEF IInv
<1> QED
  BY <1>1, <1>2, <1>3, <1>4, <1>5, <1>6 DEF Next

\* The state of the handlers, the cache and the device stays well-typed.
THEOREM TypeCorrect == Spec => []TypeOK
<1>1. Spec => []IInv
  BY IInvInit, IInvNext, PTL DEF Spec
<1>2. IInv => TypeOK
  BY DEF IInv
<1> QED
  BY <1>1, <1>2, PTL

\* However names and snapshots change while a request is served, every object in
\* an answer (other than GET /devices/{id}) has had a name under which the caller
\* can read it, or is shown whole by read-property-multiple with an empty access
\* field: visibleVariables, authorizeVariable and
\* serveFilteredObjectList, against any device.
THEOREM ShownReadable == Spec => []ShownWasReadable
<1>1. Spec => []IInv
  BY IInvInit, IInvNext, PTL DEF Spec
<1> QED
  BY <1>1, IInvImplies, PTL

\* No write reaches an object unless it has had a name under which the rules let
\* the caller write it (authorizeVariable before handlePutProperty's write).
THEOREM WrittenWritable == Spec => []WrittenWasWritable
<1>1. Spec => []IInv
  BY IInvInit, IInvNext, PTL DEF Spec
<1> QED
  BY <1>1, IInvImplies, PTL

\* Without a recognized credential nobody learns what became of a BACnet request
\* except those whom the rules allow the operation on some variable
\* (writeEnumerationError, writeDenied).
THEOREM StrangersExcluded == Spec => []StrangersLearnNothing
<1>1. Spec => []IInv
  BY IInvInit, IInvNext, PTL DEF Spec
<1> QED
  BY <1>1, IInvImplies, PTL
=============================================================================
