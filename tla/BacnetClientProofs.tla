------------------------- MODULE BacnetClientProofs -------------------------
(***************************************************************************)
(* Theorems about BacnetClient, for every number of callers, devices and   *)
(* retries and every size of the invoke ID space.  What is said of replies *)
(* names the age of datagrams; LagBound, that none outlives one turn of    *)
(* the ID counter, is assumed only where a theorem says so.                *)
(***************************************************************************)
EXTENDS BacnetClient, TLAPS
-----------------------------------------------------------------------------
(* The inductive invariant *)

\* A request in flight holds the invoke ID its ticket stands for.
CallStamps ==
  \A c \in Callers : InFlight(c) =>
    /\ call[c].stamp < ticket
    /\ call[c].id = call[c].stamp % NumIDs

\* So do the datagrams, and none is older than MaxAge.
NetStamps ==
  \A m \in net :
    /\ m.stamp < ticket
    /\ m.id = m.stamp % NumIDs
    /\ ticket - m.stamp <= MaxAge

\* A datagram that carries the ID of a request in flight was sent for that
\* request or before it: nobody draws an ID while it is held.
NoYoungerDatagram ==
  \A m \in net, c \in Callers :
    InFlight(c) /\ m.id = call[c].id => m.stamp <= call[c].stamp

\* Whatever reply reaches the receive loop's channel send may answer the
\* request that owns the channel.
HandingOwn ==
  \A h \in handing :
    /\ MayAnswer(h.msg.stamp, h.stamp)
    /\ call[h.to].stamp = h.stamp /\ InFlight(h.to)
         => Answers(h.msg, call[h.to])

\* A caller's stamp grows with each call, so a channel is never mistaken for
\* a later one of the same caller.
HandingPast == \A h \in handing : h.stamp < ticket

\* An acknowledgement of a write exists only once the write is carried out.
IsWriteAck(m) == /\ m.kind = "reply"
                 /\ m.type = "ack"
                 /\ m.svc = "WriteProperty"
AckApplied ==
  /\ \A m \in net : IsWriteAck(m) => m.stamp \in applied
  /\ \A h \in handing : IsWriteAck(h.msg) => h.msg.stamp \in applied
  /\ \A c \in Callers : \A m \in slot[c] : IsWriteAck(m) => m.stamp \in applied

StampInv == CallStamps /\ NetStamps /\ NoYoungerDatagram

HandoverInv == HandingOwn /\ HandingPast /\ OwnReply

WriteInv == AckApplied /\ AckedWriteApplied

\* The bound on the network's lag that the matching by invoke ID relies on.
LagBound == MaxAge <= NumIDs
-----------------------------------------------------------------------------
(* Types *)

\* Drawing an ID yields one in range, whatever the counter has reached.
LEMMA IdInRange ==
  ASSUME NEW a \in Nat PROVE a % NumIDs \in IDs
  BY ClientAssumption DEF IDs

\* Datagrams have the type the table and the channels expect.
LEMMA DatagramTypes ==
  /\ \A k \in Calls : RequestOf(k) \in Requests
  /\ \A m \in Requests, t \in AllReplyTypes : ReplyTo(m, t) \in Replies
  /\ \A m \in Requests \cup Replies : m.kind = "reply" => m \in Replies
  /\ \A m \in Requests \cup Replies : m.kind = "request" => m \in Requests
  BY DEF RequestOf, ReplyTo, Requests, Replies, Calls

\* A datagram is alive when it is there and not too old.
LEMMA AliveMember ==
  ASSUME TypeOK, NEW t \in Nat, NEW r, r \in Alive(net, t)
  PROVE  r \in net /\ r.stamp \in Nat /\ t - r.stamp <= MaxAge
<1>1. r \in net /\ t - r.stamp <= MaxAge
  BY DEF Alive
<1>2. r \in Requests \/ r \in Replies
  BY <1>1 DEF TypeOK
<1> QED
  BY <1>1, <1>2 DEF Requests, Replies, Stamps

\* A step of Next, or none, as the list of its actions.
LEMMA NextCases ==
  ASSUME [Next]_vars, NEW ACTION P,
    \A c \in Callers, d \in Devices, s \in Services : Register(c, d, s) => P,
    \A c \in Callers : TooManyOutstanding(c) => P,
    \A c \in Callers : Send(c) => P,
    \A c \in Callers : SendFails(c) => P,
    \A c \in Callers : TakeReply(c) => P,
    \A c \in Callers : RetryAfterTimeout(c) => P,
    \A c \in Callers : GiveUp(c) => P,
    \A c \in Callers : CtxDone(c) => P,
    \A c \in Callers : Finish(c) => P,
    \A m \in net : ReceiveUnsolicited(m) => P,
    \A m \in net : ReceiveReply(m) => P,
    HandOver => P,
    \A m \in net, t \in ReplyTypes : DeviceHandle(m, t) => P,
    Close => P,
    UNCHANGED vars => P
  PROVE P
  BY DEF Next, OwnStep, ReadLoop, ReceiveMismatch

\* Every step keeps the state's type.
LEMMA TypeStep == TypeOK /\ [Next]_vars => TypeOK'
<1> SUFFICES ASSUME TypeOK, [Next]_vars PROVE TypeOK'
  OBVIOUS
<1> USE DEF TypeOK, PCs, Outcomes
<1>1. ASSUME NEW c \in Callers, NEW d \in Devices, NEW s \in Services,
             Register(c, d, s)
      PROVE  TypeOK'
  <2>1. PICK k \in IDs :
          /\ ticket' = ticket + k + 1
          /\ pending' = [pending EXCEPT ![(ticket + k) % NumIDs] = c]
          /\ call' = [call EXCEPT ![c] = [dev |-> d, svc |-> s,
                        id |-> (ticket + k) % NumIDs, stamp |-> ticket + k,
                        attempt |-> 0]]
          /\ net' = Alive(net, ticket + k + 1)
    BY <1>1 DEF Register
  <2>2. k \in Nat /\ ticket + k \in Nat /\ ticket + k + 1 \in Nat
    BY ClientAssumption DEF IDs
  <2>3. (ticket + k) % NumIDs \in IDs
    BY <2>2, IdInRange
  <2>4. call' \in [Callers -> Calls]
    BY <2>1, <2>2, <2>3, ClientAssumption DEF Calls, Stamps
  <2>5. net' \subseteq Requests \cup Replies
    BY <2>1 DEF Alive
  <2>6. pending' \in [IDs -> Callers \cup {NoCaller}]
    BY <2>1, <2>3
  <2>7. pc' \in [Callers -> PCs] /\ slot' \in [Callers -> SUBSET Replies]
    BY <1>1 DEF Register
  <2> QED
    BY <1>1, <2>1, <2>2, <2>4, <2>5, <2>6, <2>7 DEF Register
<1>2. ASSUME NEW c \in Callers, TooManyOutstanding(c) PROVE TypeOK'
  BY <1>2 DEF TooManyOutstanding
<1>3. ASSUME NEW c \in Callers, Send(c) PROVE TypeOK'
  BY <1>3, DatagramTypes DEF Send, Alive
<1>4. ASSUME NEW c \in Callers, SendFails(c) PROVE TypeOK'
  BY <1>4 DEF SendFails, Return, Calls, Stamps
<1>5. ASSUME NEW c \in Callers, TakeReply(c) PROVE TypeOK'
  <2>1. PICK m \in slot[c] : Return(c, OutcomeOf(m), m.stamp)
    BY <1>5 DEF TakeReply
  <2>2. OutcomeOf(m) \in Outcomes /\ m.stamp \in Nat
    BY <2>1 DEF Replies, OutcomeOf, AllReplyTypes, Stamps
  <2> QED
    BY <1>5, <2>1, <2>2 DEF TakeReply, Return
<1>6. ASSUME NEW c \in Callers, RetryAfterTimeout(c) PROVE TypeOK'
  <2>1. call' \in [Callers -> Calls]
    BY <1>6 DEF RetryAfterTimeout, Calls
  <2> QED
    BY <1>6, <2>1 DEF RetryAfterTimeout
<1>7. ASSUME NEW c \in Callers, GiveUp(c) PROVE TypeOK'
  BY <1>7 DEF GiveUp, Return, Calls, Stamps
<1>8. ASSUME NEW c \in Callers, CtxDone(c) PROVE TypeOK'
  BY <1>8 DEF CtxDone, Return, Calls, Stamps
<1>9. ASSUME NEW c \in Callers, Finish(c) PROVE TypeOK'
  BY <1>9 DEF Finish, Calls
<1>10. ASSUME NEW m \in net, ReceiveUnsolicited(m) PROVE TypeOK'
  BY <1>10 DEF ReceiveUnsolicited
<1>11. ASSUME NEW m \in net, ReceiveReply(m) PROVE TypeOK'
  <2>1. m \in Replies /\ m.id \in IDs
    BY <1>11, DatagramTypes DEF ReceiveReply, Replies
  <2>2. pending[m.id] \in Callers
    BY <1>11, <2>1 DEF ReceiveReply
  <2>3. call[pending[m.id]].stamp \in Nat
    BY <2>2 DEF Calls, Stamps
  <2> QED
    BY <1>11, <2>1, <2>2, <2>3 DEF ReceiveReply
<1>12. ASSUME HandOver PROVE TypeOK'
  BY <1>12 DEF HandOver
<1>13. ASSUME NEW m \in net, NEW t \in ReplyTypes, DeviceHandle(m, t)
       PROVE  TypeOK'
  <2>1. m \in Requests /\ t \in AllReplyTypes
    BY <1>13, DatagramTypes, ClientAssumption DEF DeviceHandle
  <2>2. ReplyTo(m, t) \in Replies /\ m.stamp \in Nat
    BY <2>1, DatagramTypes DEF Requests, Stamps
  <2> QED
    BY <1>13, <2>2 DEF DeviceHandle
<1>14. ASSUME Close PROVE TypeOK'
  BY <1>14 DEF Close
<1>15. ASSUME UNCHANGED vars PROVE TypeOK'
  BY <1>15 DEF vars
<1> QED
  BY <1>1, <1>2, <1>3, <1>4, <1>5, <1>6, <1>7, <1>8, <1>9, <1>10, <1>11,
     <1>12, <1>13, <1>14, <1>15, NextCases

\* Initially the state has its type.
LEMMA TypeInit == Init => TypeOK
<1> SUFFICES ASSUME Init PROVE TypeOK
  OBVIOUS
<1>1. PICK d \in Devices, s \in Services :
        call = [c \in Callers |-> [dev |-> d, svc |-> s, id |-> 0,
                                  stamp |-> 0, attempt |-> 0]]
  BY DEF Init
<1>2. 0 \in IDs /\ s \in AllServices
  BY ClientAssumption DEF IDs
<1>3. call \in [Callers -> Calls]
  BY <1>1, <1>2 DEF Calls, Stamps
<1>4. result \in [Callers -> [outcome : Outcomes, stamp : Nat]]
  BY DEF Init, Outcomes
<1> QED
  BY <1>3, <1>4 DEF Init, TypeOK, PCs

\* The state of the client always has its type.
THEOREM TypeCorrect == Spec => []TypeOK
<1>1. Init => TypeOK
  BY TypeInit
<1>2. TypeOK /\ [Next]_vars => TypeOK'
  BY TypeStep
<1> QED
  BY <1>1, <1>2, PTL DEF Spec
-----------------------------------------------------------------------------
(* The pending table *)

\* What Register does, in terms of the number k of used IDs it skipped.
LEMMA RegisterDraws ==
  ASSUME TypeOK, NEW c \in Callers, NEW d \in Devices, NEW s \in Services,
         Register(c, d, s)
  PROVE  \E t \in Nat :
           /\ ticket <= t
           /\ t % NumIDs \in IDs
           /\ pending[t % NumIDs] = NoCaller
           /\ ticket' = t + 1
           /\ pending' = [pending EXCEPT ![t % NumIDs] = c]
           /\ call' = [call EXCEPT ![c] = [dev |-> d, svc |-> s,
                         id |-> t % NumIDs, stamp |-> t, attempt |-> 0]]
           /\ net' = Alive(net, t + 1)
<1>1. PICK k \in IDs :
        /\ FirstFree(k)
        /\ ticket' = ticket + k + 1
        /\ pending' = [pending EXCEPT ![(ticket + k) % NumIDs] = c]
        /\ call' = [call EXCEPT ![c] = [dev |-> d, svc |-> s,
                      id |-> (ticket + k) % NumIDs, stamp |-> ticket + k,
                      attempt |-> 0]]
        /\ net' = Alive(net, ticket + k + 1)
  BY DEF Register
<1> DEFINE t == ticket + k
<1>2. k \in Nat /\ t \in Nat /\ ticket <= t
  BY ClientAssumption DEF IDs, TypeOK
<1>3. t % NumIDs \in IDs
  BY <1>2, IdInRange
<1>4. pending[t % NumIDs] = NoCaller
  BY <1>1 DEF FirstFree
<1>5. /\ ticket' = t + 1
      /\ pending' = [pending EXCEPT ![t % NumIDs] = c]
      /\ call' = [call EXCEPT ![c] = [dev |-> d, svc |-> s,
                    id |-> t % NumIDs, stamp |-> t, attempt |-> 0]]
      /\ net' = Alive(net, t + 1)
  BY <1>1
<1> HIDE DEF t
<1> QED
  BY <1>2, <1>3, <1>4, <1>5

\* Every step keeps table and requests in flight in one-to-one accord.
LEMMA PendingStep == TypeOK /\ PendingExact /\ [Next]_vars => PendingExact'
<1> SUFFICES ASSUME TypeOK, PendingExact, [Next]_vars PROVE PendingExact'
  OBVIOUS
<1> USE DEF PendingExact, InFlight
<1>1. ASSUME NEW c \in Callers, NEW d \in Devices, NEW s \in Services,
             Register(c, d, s)
      PROVE  PendingExact'
  <2>1. PICK t \in Nat :
          /\ t % NumIDs \in IDs
          /\ pending[t % NumIDs] = NoCaller
          /\ pending' = [pending EXCEPT ![t % NumIDs] = c]
          /\ call' = [call EXCEPT ![c] = [dev |-> d, svc |-> s,
                        id |-> t % NumIDs, stamp |-> t, attempt |-> 0]]
    BY <1>1, RegisterDraws
  <2>2. pc[c] = "idle" /\ pc' = [pc EXCEPT ![c] = "send"]
    BY <1>1 DEF Register
  <2>3. ASSUME NEW x \in Callers, InFlight(x)'
        PROVE  (pending[call[x].id] = x)'
    BY <2>1, <2>2, <2>3, ClientAssumption DEF TypeOK
  <2>4. ASSUME NEW id \in IDs, (pending[id] # NoCaller)'
        PROVE  (InFlight(pending[id]) /\ call[pending[id]].id = id)'
    <3>1. CASE id = t % NumIDs
      BY <2>1, <2>2, <3>1 DEF TypeOK
    <3>2. CASE id # t % NumIDs
      <4>1. pending'[id] = pending[id] /\ pending[id] \in Callers
        BY <2>1, <2>4, <3>2 DEF TypeOK
      <4>2. pending[id] # c
        BY <2>2, <2>4, <4>1
      <4> QED
        BY <2>1, <2>2, <2>4, <4>1, <4>2 DEF TypeOK
    <3> QED
      BY <3>1, <3>2
  <2> QED
    BY <2>3, <2>4
<1>2. ASSUME NEW c \in Callers, TooManyOutstanding(c) PROVE PendingExact'
  BY <1>2 DEF TooManyOutstanding
<1>3. ASSUME NEW c \in Callers, Send(c) PROVE PendingExact'
  BY <1>3 DEF Send, TypeOK
<1>4. ASSUME NEW c \in Callers, SendFails(c) PROVE PendingExact'
  BY <1>4 DEF SendFails, Return, TypeOK
<1>5. ASSUME NEW c \in Callers, TakeReply(c) PROVE PendingExact'
  BY <1>5 DEF TakeReply, Return, TypeOK
<1>6. ASSUME NEW c \in Callers, RetryAfterTimeout(c) PROVE PendingExact'
  BY <1>6 DEF RetryAfterTimeout, TypeOK, Calls
<1>7. ASSUME NEW c \in Callers, GiveUp(c) PROVE PendingExact'
  BY <1>7 DEF GiveUp, Return, TypeOK
<1>8. ASSUME NEW c \in Callers, CtxDone(c) PROVE PendingExact'
  BY <1>8 DEF CtxDone, Return, TypeOK
<1>9. ASSUME NEW c \in Callers, Finish(c) PROVE PendingExact'
  <2>1. /\ pc[c] = "ret"
        /\ pending' = [pending EXCEPT ![call[c].id] = NoCaller]
        /\ pc' = [pc EXCEPT ![c] = "idle"]
        /\ call' = call
        /\ call[c].id \in IDs
    BY <1>9 DEF Finish, TypeOK, Calls
  <2>2. ASSUME NEW x \in Callers, InFlight(x)'
        PROVE  (pending[call[x].id] = x)'
    <3>1. x # c /\ InFlight(x)
      BY <2>1, <2>2 DEF TypeOK
    <3>2. call[x].id # call[c].id
      BY <2>1, <3>1
    <3> QED
      BY <2>1, <3>1, <3>2 DEF TypeOK
  <2>3. ASSUME NEW id \in IDs, (pending[id] # NoCaller)'
        PROVE  (InFlight(pending[id]) /\ call[pending[id]].id = id)'
    BY <2>1, <2>3, ClientAssumption DEF TypeOK
  <2> QED
    BY <2>2, <2>3
<1>10. ASSUME NEW m \in net, ReceiveUnsolicited(m) PROVE PendingExact'
  BY <1>10 DEF ReceiveUnsolicited
<1>11. ASSUME NEW m \in net, ReceiveReply(m) PROVE PendingExact'
  BY <1>11 DEF ReceiveReply
<1>12. ASSUME HandOver PROVE PendingExact'
  BY <1>12 DEF HandOver
<1>13. ASSUME NEW m \in net, NEW t \in ReplyTypes, DeviceHandle(m, t)
       PROVE  PendingExact'
  BY <1>13 DEF DeviceHandle
<1>14. ASSUME Close PROVE PendingExact'
  BY <1>14 DEF Close
<1>15. ASSUME UNCHANGED vars PROVE PendingExact'
  BY <1>15 DEF vars
<1> QED
  BY <1>1, <1>2, <1>3, <1>4, <1>5, <1>6, <1>7, <1>8, <1>9, <1>10, <1>11,
     <1>12, <1>13, <1>14, <1>15, NextCases

\* The pending table holds exactly the requests in flight, for any number of
\* callers, of IDs and of wraparounds of the counter.
THEOREM PendingIsExact == Spec => []PendingExact
<1>1. Init => TypeOK /\ PendingExact
  <2> SUFFICES ASSUME Init PROVE PendingExact
    BY TypeInit
  <2> QED
    BY DEF Init, PendingExact, InFlight
<1>2. TypeOK /\ PendingExact /\ [Next]_vars => TypeOK' /\ PendingExact'
  BY TypeStep, PendingStep
<1> QED
  BY <1>1, <1>2, PTL DEF Spec
-----------------------------------------------------------------------------
(* Replies and the requests they answer *)

\* Two tickets less than one turn of the counter apart that stand for the same
\* invoke ID are the same ticket.
LEMMA SameTurn ==
  ASSUME NEW n \in Nat \ {0}, NEW a \in Nat, NEW b \in Nat,
         a % n = b % n, b <= a, a - b < n
  PROVE  a = b
<1> DEFINE q == a \div n
<1> DEFINE p == b \div n
<1>1. /\ a = n * q + (a % n) /\ b = n * p + (a % n)
      /\ q \in Int /\ p \in Int
  BY SMT
<1>2. a - b = n * (q - p)
  BY <1>1, SMT
<1> HIDE DEF q, p
<1>3. CASE q - p >= 1
  <2>1. n * (q - p) >= n
    BY <1>1, <1>3, SMT
  <2> QED
    BY <2>1, <1>2, SMT
<1>4. CASE q - p <= 0
  <2>1. n * (q - p) <= 0
    BY <1>1, <1>4, SMT
  <2> QED
    BY <2>1, <1>2, SMT
<1> QED
  BY <1>1, <1>3, <1>4, SMT

\* Steps that keep ticket, calls, program counters of idle and busy callers
\* and datagrams keep what is known of the stamps.
LEMMA StampFrame ==
  ASSUME StampInv, ticket' = ticket, net' = net,
         \A c \in Callers : InFlight(c)' => InFlight(c),
         \A c \in Callers : /\ call'[c].stamp = call[c].stamp
                            /\ call'[c].id = call[c].id
  PROVE  StampInv'
  BY DEF StampInv, CallStamps, NetStamps, NoYoungerDatagram

\* Every step keeps stamps, invoke IDs and ages in accord.
LEMMA StampStep ==
  TypeOK /\ PendingExact /\ StampInv /\ [Next]_vars => StampInv'
<1> SUFFICES ASSUME TypeOK, PendingExact, StampInv, [Next]_vars PROVE StampInv'
  OBVIOUS
<1>1. ASSUME NEW c \in Callers, NEW d \in Devices, NEW s \in Services,
             Register(c, d, s)
      PROVE  StampInv'
  <2>1. PICK t \in Nat :
          /\ ticket <= t
          /\ t % NumIDs \in IDs
          /\ pending[t % NumIDs] = NoCaller
          /\ ticket' = t + 1
          /\ call' = [call EXCEPT ![c] = [dev |-> d, svc |-> s,
                        id |-> t % NumIDs, stamp |-> t, attempt |-> 0]]
          /\ net' = Alive(net, t + 1)
    BY <1>1, RegisterDraws
  <2>2. pc[c] = "idle" /\ pc' = [pc EXCEPT ![c] = "send"]
    BY <1>1 DEF Register
  <2>3. CallStamps'
    <3> SUFFICES ASSUME NEW x \in Callers, InFlight(x)'
                 PROVE  (/\ call[x].stamp < ticket
                         /\ call[x].id = call[x].stamp % NumIDs)'
      BY DEF CallStamps
    <3>1. CASE x = c
      BY <2>1, <3>1 DEF TypeOK
    <3>2. CASE x # c
      <4>1. InFlight(x) /\ call'[x] = call[x] /\ call[x].stamp \in Nat
        BY <2>1, <2>2, <3>2 DEF TypeOK, InFlight, Calls, Stamps
      <4> QED
        BY <4>1, <2>1 DEF StampInv, CallStamps, TypeOK
    <3> QED
      BY <3>1, <3>2
  <2>4. ASSUME NEW m \in net'
        PROVE  m \in net /\ m.stamp \in Nat /\ t + 1 - m.stamp <= MaxAge
    <3>1. m \in Alive(net, t + 1) /\ t + 1 \in Nat
      BY <2>1, <2>4
    <3> QED
      BY <3>1, AliveMember
  <2>5. NetStamps'
    <3> SUFFICES ASSUME NEW m \in net'
                 PROVE  /\ m.stamp < ticket'
                        /\ m.id = m.stamp % NumIDs
                        /\ ticket' - m.stamp <= MaxAge
      BY DEF NetStamps
    <3>1. m \in net /\ m.stamp \in Nat /\ t + 1 - m.stamp <= MaxAge
      BY <2>4
    <3>2. m.stamp < ticket /\ m.id = m.stamp % NumIDs
      BY <3>1 DEF StampInv, NetStamps
    <3>3. m.stamp < t + 1
      BY <2>1, <3>1, <3>2 DEF TypeOK
    <3> QED
      BY <2>1, <3>1, <3>2, <3>3
  <2>6. NoYoungerDatagram'
    <3> SUFFICES ASSUME NEW m \in net', NEW x \in Callers, InFlight(x)',
                        m.id = call'[x].id
                 PROVE  m.stamp <= call'[x].stamp
      BY DEF NoYoungerDatagram
    <3>1. CASE x = c
      BY <2>1, <2>4, <3>1 DEF StampInv, NetStamps, TypeOK
    <3>2. CASE x # c
      <4>1. InFlight(x) /\ call'[x] = call[x]
        BY <2>1, <2>2, <3>2 DEF TypeOK, InFlight
      <4> QED
        BY <2>4, <4>1 DEF StampInv, NoYoungerDatagram
    <3> QED
      BY <3>1, <3>2
  <2> QED
    BY <2>3, <2>5, <2>6 DEF StampInv
<1>2. ASSUME NEW c \in Callers, TooManyOutstanding(c) PROVE StampInv'
  BY <1>2, StampFrame DEF TooManyOutstanding, InFlight
<1>3. ASSUME NEW c \in Callers, Send(c) PROVE StampInv'
  <2> DEFINE r == RequestOf(call[c])
  <2>1. /\ InFlight(c)
        /\ ticket' = ticket /\ call' = call
        /\ net' = Alive(net \cup {r}, ticket)
        /\ \A x \in Callers : InFlight(x)' => InFlight(x)
    BY <1>3 DEF Send, InFlight, TypeOK
  <2>2. r.stamp = call[c].stamp /\ r.id = call[c].id
    BY DEF RequestOf
  <2>3. ASSUME NEW m \in net'
        PROVE  (m \in net \/ m = r) /\ ticket - m.stamp <= MaxAge
    BY <2>1, <2>3 DEF Alive
  <2> HIDE DEF r
  <2>4. CallStamps'
    BY <2>1 DEF StampInv, CallStamps
  <2>5. NetStamps'
    BY <2>1, <2>2, <2>3 DEF StampInv, CallStamps, NetStamps
  <2>6. NoYoungerDatagram'
    <3> SUFFICES ASSUME NEW m \in net', NEW x \in Callers, InFlight(x),
                        m.id = call[x].id
                 PROVE  m.stamp <= call[x].stamp
      BY <2>1 DEF NoYoungerDatagram
    <3>1. CASE m \in net
      BY <3>1 DEF StampInv, NoYoungerDatagram
    <3>2. CASE m = r
      <4>1. x = c
        BY <2>1, <2>2, <3>2 DEF PendingExact
      <4> QED
        BY <4>1, <2>2, <3>2 DEF TypeOK, Calls, Stamps
    <3> QED
      BY <2>3, <3>1, <3>2
  <2> QED
    BY <2>4, <2>5, <2>6 DEF StampInv
<1>4. ASSUME NEW c \in Callers, SendFails(c) PROVE StampInv'
  BY <1>4, StampFrame DEF SendFails, Return, InFlight, TypeOK
<1>5. ASSUME NEW c \in Callers, TakeReply(c) PROVE StampInv'
  BY <1>5, StampFrame DEF TakeReply, Return, InFlight, TypeOK
<1>6. ASSUME NEW c \in Callers, RetryAfterTimeout(c) PROVE StampInv'
  BY <1>6, StampFrame DEF RetryAfterTimeout, InFlight, TypeOK, Calls
<1>7. ASSUME NEW c \in Callers, GiveUp(c) PROVE StampInv'
  BY <1>7, StampFrame DEF GiveUp, Return, InFlight, TypeOK
<1>8. ASSUME NEW c \in Callers, CtxDone(c) PROVE StampInv'
  BY <1>8, StampFrame DEF CtxDone, Return, InFlight, TypeOK
<1>9. ASSUME NEW c \in Callers, Finish(c) PROVE StampInv'
  BY <1>9, StampFrame DEF Finish, InFlight, TypeOK
<1>10. ASSUME NEW m \in net, ReceiveUnsolicited(m) PROVE StampInv'
  BY <1>10, StampFrame DEF ReceiveUnsolicited, InFlight
<1>11. ASSUME NEW m \in net, ReceiveReply(m) PROVE StampInv'
  BY <1>11, StampFrame DEF ReceiveReply, InFlight
<1>12. ASSUME HandOver PROVE StampInv'
  BY <1>12, StampFrame DEF HandOver, InFlight
<1>13. ASSUME NEW m \in net, NEW t \in ReplyTypes, DeviceHandle(m, t)
       PROVE  StampInv'
  <2> DEFINE r == ReplyTo(m, t)
  <2>1. /\ ticket' = ticket /\ call' = call /\ pc' = pc
        /\ net' = net \cup {r}
    BY <1>13 DEF DeviceHandle
  <2>2. r.stamp = m.stamp /\ r.id = m.id
    BY DEF ReplyTo
  <2> HIDE DEF r
  <2> QED
    BY <2>1, <2>2
    DEF StampInv, CallStamps, NetStamps, NoYoungerDatagram, InFlight
<1>14. ASSUME Close PROVE StampInv'
  BY <1>14, StampFrame DEF Close, InFlight
<1>15. ASSUME UNCHANGED vars PROVE StampInv'
  BY <1>15, StampFrame DEF vars, InFlight
<1> QED
  BY <1>1, <1>2, <1>3, <1>4, <1>5, <1>6, <1>7, <1>8, <1>9, <1>10, <1>11,
     <1>12, <1>13, <1>14, <1>15, NextCases

\* Under the bound, a reply that may answer a request is its own.
LEMMA OwnUnderBound ==
  ASSUME LagBound, NEW a \in Nat, NEW b \in Nat, MayAnswer(a, b)
  PROVE  a = b
<1>1. a <= b /\ b - a < NumIDs /\ a % NumIDs = b % NumIDs
  BY ClientAssumption DEF LagBound, MayAnswer
<1>2. b = a
  BY <1>1, ClientAssumption, SameTurn
<1> QED
  BY <1>2

\* A reply the receive loop matches with a pending request was sent in answer
\* to it or to an earlier one with its ID: the tickets agree modulo NumIDs, the
\* reply's is not the younger one, and the datagram is not too old.
LEMMA MatchedMayAnswer ==
  ASSUME TypeOK, PendingExact, StampInv,
         NEW m \in net, m.kind = "reply", pending[m.id] # NoCaller
  PROVE  /\ pending[m.id] \in Callers
         /\ InFlight(pending[m.id])
         /\ MayAnswer(m.stamp, call[pending[m.id]].stamp)
<1> DEFINE c == pending[m.id]
<1>1. m \in Replies /\ m.id \in IDs /\ m.stamp \in Nat
  BY DatagramTypes DEF TypeOK, Replies, Stamps
<1>2. c \in Callers /\ InFlight(c) /\ call[c].id = m.id
  BY <1>1 DEF TypeOK, PendingExact
<1> HIDE DEF c
<1>3. call[c].stamp \in Nat /\ ticket \in Nat
  BY <1>2 DEF TypeOK, Calls, Stamps
<1>4. m.stamp <= call[c].stamp /\ call[c].stamp < ticket
  BY <1>2 DEF StampInv, NoYoungerDatagram, CallStamps
<1>5. m.stamp % NumIDs = call[c].stamp % NumIDs
  BY <1>2 DEF StampInv, NetStamps, CallStamps
<1>6. ticket - m.stamp <= MaxAge
  BY DEF StampInv, NetStamps
<1>7. call[c].stamp - m.stamp < MaxAge
  BY <1>1, <1>3, <1>4, <1>6, ClientAssumption
<1>8. MayAnswer(m.stamp, call[c].stamp)
  BY <1>4, <1>5, <1>7 DEF MayAnswer
<1> QED
  BY <1>2, <1>8 DEF c

\* Steps that deliver no reply and start no call leave replies with their
\* requests, if what they return is no stranger's reply.
LEMMA HandoverFrame ==
  ASSUME HandoverInv, ticket' = ticket, handing' = handing,
         \A c \in Callers : slot'[c] = slot[c],
         \A c \in Callers : InFlight(c)' => InFlight(c),
         \A c \in Callers : /\ call'[c].stamp = call[c].stamp
                            /\ call'[c].svc = call[c].svc
                            /\ call'[c].dev = call[c].dev,
         \A c \in Callers : Replied(c)' => Replied(c) /\ result'[c] = result[c],
         handing \subseteq [to : Callers, stamp : Nat, msg : Replies]
  PROVE  HandoverInv'
<1>2. \A c \in Callers : \A m \in slot[c] :
        Answers(m, call'[c]) <=> Answers(m, call[c])
  BY DEF Answers
<1>3. HandingOwn' /\ HandingPast'
  <2>1. \A h \in handing : Answers(h.msg, call'[h.to]) <=> Answers(h.msg, call[h.to])
    BY DEF Answers
  <2> QED
    BY <2>1 DEF HandoverInv, HandingOwn, HandingPast
<1>4. OwnReply'
  BY <1>2 DEF HandoverInv, OwnReply
<1> QED
  BY <1>3, <1>4 DEF HandoverInv

\* Every step leaves each reply with the request it answers.
LEMMA HandoverStep ==
  TypeOK /\ PendingExact /\ StampInv /\ HandoverInv /\ [Next]_vars
    => HandoverInv'
<1> SUFFICES ASSUME TypeOK, PendingExact, StampInv, HandoverInv,
                    [Next]_vars
             PROVE  HandoverInv'
  OBVIOUS
<1>a. handing \subseteq [to : Callers, stamp : Nat, msg : Replies]
  BY DEF TypeOK
<1>1. ASSUME NEW c \in Callers, NEW d \in Devices, NEW s \in Services,
             Register(c, d, s)
      PROVE  HandoverInv'
  <2>1. PICK t \in Nat :
          /\ ticket <= t
          /\ ticket' = t + 1
          /\ call' = [call EXCEPT ![c] = [dev |-> d, svc |-> s,
                        id |-> t % NumIDs, stamp |-> t, attempt |-> 0]]
    BY <1>1, RegisterDraws
  <2>2. /\ pc' = [pc EXCEPT ![c] = "send"]
        /\ slot' = [slot EXCEPT ![c] = {}]
        /\ result' = result /\ handing' = handing
    BY <1>1 DEF Register
  <2>3. \A x \in Callers : x # c => /\ call'[x] = call[x] /\ pc'[x] = pc[x]
                                    /\ slot'[x] = slot[x]
    BY <2>1, <2>2 DEF TypeOK
  <2>4. call'[c].stamp = t /\ pc'[c] = "send" /\ slot'[c] = {}
    BY <2>1, <2>2 DEF TypeOK
  <2>5. HandingPast'
    BY <2>1, <2>2, <1>a DEF HandoverInv, HandingPast, TypeOK
  <2>6. HandingOwn'
    <3> SUFFICES ASSUME NEW h \in handing
                 PROVE  /\ MayAnswer(h.msg.stamp, h.stamp)
                        /\ call'[h.to].stamp = h.stamp /\ InFlight(h.to)'
                             => Answers(h.msg, call'[h.to])
      BY <2>2 DEF HandingOwn
    <3>1. h.to \in Callers /\ h.stamp \in Nat /\ h.stamp < ticket
      BY <1>a DEF HandoverInv, HandingPast
    <3>2. CASE h.to = c
      <4>1. call'[h.to].stamp # h.stamp
        BY <2>1, <2>4, <3>1, <3>2 DEF TypeOK
      <4> QED
        BY <4>1 DEF HandoverInv, HandingOwn
    <3>3. CASE h.to # c
      BY <2>3, <3>1, <3>3 DEF HandoverInv, HandingOwn, InFlight
    <3> QED
      BY <3>2, <3>3
  <2>7. OwnReply'
    BY <2>2, <2>3, <2>4 DEF HandoverInv, OwnReply, InFlight, Replied
  <2> QED
    BY <2>5, <2>6, <2>7 DEF HandoverInv
<1>2. ASSUME NEW c \in Callers, TooManyOutstanding(c) PROVE HandoverInv'
  BY <1>2, <1>a, HandoverFrame
  DEF TooManyOutstanding, InFlight, Replied, TypeOK
<1>3. ASSUME NEW c \in Callers, Send(c) PROVE HandoverInv'
  BY <1>3, <1>a, HandoverFrame DEF Send, InFlight, Replied, TypeOK
<1>4. ASSUME NEW c \in Callers, SendFails(c) PROVE HandoverInv'
  BY <1>4, <1>a, HandoverFrame DEF SendFails, Return, InFlight, Replied, TypeOK
<1>5. ASSUME NEW c \in Callers, TakeReply(c) PROVE HandoverInv'
  <2>1. PICK m \in slot[c] : Return(c, OutcomeOf(m), m.stamp)
    BY <1>5 DEF TakeReply
  <2>2. /\ pc[c] = "wait"
        /\ slot' = [slot EXCEPT ![c] = {}]
        /\ ticket' = ticket /\ call' = call /\ handing' = handing
    BY <1>5 DEF TakeReply
  <2>3. /\ result' = [result EXCEPT ![c] = [outcome |-> OutcomeOf(m),
                                            stamp |-> m.stamp]]
        /\ pc' = [pc EXCEPT ![c] = "ret"]
    BY <2>1 DEF Return
  <2>4. MayAnswer(m.stamp, call[c].stamp)
    BY <2>1, <2>2 DEF HandoverInv, OwnReply, InFlight
  <2>5. \A x \in Callers : InFlight(x)' => InFlight(x)
    BY <2>2, <2>3 DEF InFlight, TypeOK
  <2>6. HandingOwn' /\ HandingPast'
    BY <2>2, <2>5, <1>a DEF HandoverInv, HandingOwn, HandingPast
  <2>7. OwnReply'
    BY <2>2, <2>3, <2>4, <2>5 DEF HandoverInv, OwnReply, Replied, TypeOK
  <2> QED
    BY <2>6, <2>7 DEF HandoverInv
<1>6. ASSUME NEW c \in Callers, RetryAfterTimeout(c) PROVE HandoverInv'
  BY <1>6, <1>a, HandoverFrame
  DEF RetryAfterTimeout, InFlight, Replied, TypeOK, Calls
<1>7. ASSUME NEW c \in Callers, GiveUp(c) PROVE HandoverInv'
  BY <1>7, <1>a, HandoverFrame DEF GiveUp, Return, InFlight, Replied, TypeOK
<1>8. ASSUME NEW c \in Callers, CtxDone(c) PROVE HandoverInv'
  BY <1>8, <1>a, HandoverFrame DEF CtxDone, Return, InFlight, Replied, TypeOK
<1>9. ASSUME NEW c \in Callers, Finish(c) PROVE HandoverInv'
  BY <1>9, <1>a, HandoverFrame DEF Finish, InFlight, Replied, TypeOK
<1>10. ASSUME NEW m \in net, ReceiveUnsolicited(m) PROVE HandoverInv'
  BY <1>10, <1>a, HandoverFrame DEF ReceiveUnsolicited, InFlight, Replied
<1>11. ASSUME NEW m \in net, ReceiveReply(m) PROVE HandoverInv'
  <2> DEFINE c == pending[m.id]
  <2>1. /\ Answers(m, call[c])
        /\ handing' = {[to |-> c, stamp |-> call[c].stamp, msg |-> m]}
        /\ UNCHANGED <<ticket, pc, call, slot, result>>
    BY <1>11 DEF ReceiveReply
  <2>2. c \in Callers /\ InFlight(c) /\ MayAnswer(m.stamp, call[c].stamp)
    BY <1>11, MatchedMayAnswer DEF ReceiveReply
  <2> HIDE DEF c
  <2>3. call[c].stamp < ticket
    BY <2>2 DEF StampInv, CallStamps
  <2>5. HandingOwn' /\ HandingPast'
    BY <2>1, <2>2, <2>3 DEF HandingOwn, HandingPast
  <2>6. OwnReply'
    BY <2>1 DEF HandoverInv, OwnReply, InFlight, Replied
  <2> QED
    BY <2>5, <2>6 DEF HandoverInv
<1>12. ASSUME HandOver PROVE HandoverInv'
  <2>1. PICK h \in handing :
          slot' = IF /\ call[h.to].stamp = h.stamp
                     /\ pc[h.to] \in {"send", "wait"}
                     /\ slot[h.to] = {}
                    THEN [slot EXCEPT ![h.to] = {h.msg}] ELSE slot
    BY <1>12 DEF HandOver
  <2>2. /\ handing' = {}
        /\ UNCHANGED <<ticket, pc, call, result>>
    BY <1>12 DEF HandOver
  <2>3. /\ MayAnswer(h.msg.stamp, h.stamp)
        /\ call[h.to].stamp = h.stamp /\ InFlight(h.to)
             => Answers(h.msg, call[h.to])
    BY DEF HandoverInv, HandingOwn
  <2>4. \A c \in Callers : \A m \in slot'[c] :
           \/ m \in slot[c]
           \/ MayAnswer(m.stamp, call[c].stamp) /\ Answers(m, call[c])
    BY <2>1, <2>3, <1>a DEF TypeOK, InFlight
  <2>5. OwnReply'
    BY <2>2, <2>4 DEF HandoverInv, OwnReply, InFlight, Replied
  <2> QED
    BY <2>2, <2>5 DEF HandoverInv, HandingOwn, HandingPast
<1>13. ASSUME NEW m \in net, NEW t \in ReplyTypes, DeviceHandle(m, t)
       PROVE  HandoverInv'
  BY <1>13, <1>a, HandoverFrame DEF DeviceHandle, InFlight, Replied
<1>14. ASSUME Close PROVE HandoverInv'
  BY <1>14, <1>a, HandoverFrame DEF Close, InFlight, Replied
<1>15. ASSUME UNCHANGED vars PROVE HandoverInv'
  BY <1>15, <1>a, HandoverFrame DEF vars, InFlight, Replied
<1> QED
  BY <1>1, <1>2, <1>3, <1>4, <1>5, <1>6, <1>7, <1>8, <1>9, <1>10, <1>11,
     <1>12, <1>13, <1>14, <1>15, NextCases

\* Initially there is nothing to match.
LEMMA ReplyInit == Init => PendingExact /\ StampInv /\ HandoverInv
<1> SUFFICES ASSUME Init PROVE PendingExact /\ StampInv /\ HandoverInv
  OBVIOUS
<1>1. /\ \A c \in Callers : pc[c] = "idle" /\ result[c].outcome = "none"
      /\ \A id \in IDs : pending[id] = NoCaller
      /\ net = {} /\ handing = {}
  BY DEF Init
<1> QED
  BY <1>1
  DEF PendingExact, StampInv, CallStamps, NetStamps, NoYoungerDatagram,
      HandoverInv, HandingOwn, HandingPast, OwnReply, InFlight, Replied

\* Every call returns the reply to its own request or to an earlier one with its
\* invoke ID, a whole number of turns of the counter before and within the age
\* of datagrams; doConfirmedRequest and handleIncoming allow no other.
THEOREM ReplyIsOwnOrTurnsOld == Spec => []OwnReply
<1> DEFINE Inv == TypeOK /\ PendingExact /\ StampInv /\ HandoverInv
<1>1. Init => Inv
  BY TypeInit, ReplyInit
<1>2. Inv /\ [Next]_vars => Inv'
  BY TypeStep, PendingStep, StampStep, HandoverStep
<1>3. Inv => OwnReply
  BY DEF HandoverInv
<1> HIDE DEF Inv
<1> QED
  BY <1>1, <1>2, <1>3, PTL DEF Spec

\* If no datagram outlives one turn of the invoke ID counter, every call
\* returns the reply to its own request, as lines 123-125 promise.
THEOREM ReplyIsOwn ==
  LagBound =>
    (Spec => [](\A c \in Callers : Replied(c) => result[c].stamp = call[c].stamp))
<1> SUFFICES ASSUME LagBound
             PROVE  Spec => [](\A c \in Callers :
                                 Replied(c) => result[c].stamp = call[c].stamp)
  OBVIOUS
<1>1. TypeOK /\ OwnReply =>
        (\A c \in Callers : Replied(c) => result[c].stamp = call[c].stamp)
  <2> SUFFICES ASSUME TypeOK, OwnReply, NEW c \in Callers, Replied(c)
               PROVE  result[c].stamp = call[c].stamp
    OBVIOUS
  <2>1. result[c].stamp \in Nat /\ call[c].stamp \in Nat
    BY DEF TypeOK, Calls, Stamps
  <2>2. MayAnswer(result[c].stamp, call[c].stamp)
    BY DEF OwnReply
  <2> QED
    BY <2>1, <2>2, OwnUnderBound
<1> QED
  BY <1>1, TypeCorrect, ReplyIsOwnOrTurnsOld, PTL
-----------------------------------------------------------------------------
(* Acknowledged writes *)

\* Steps that neither send nor deliver a reply, nor start or end a call with
\* success, keep what acknowledgements stand for.
LEMMA WriteFrame ==
  ASSUME WriteInv, handing' = handing, applied' = applied,
         \A m \in net' : m \in net \/ m.kind = "request",
         \A c \in Callers : slot'[c] = slot[c],
         \A c \in Callers : InFlight(c)' => InFlight(c),
         \A c \in Callers : /\ call'[c].stamp = call[c].stamp
                            /\ call'[c].svc = call[c].svc,
         \A c \in Callers : pc'[c] \in {"ret", "idle"} =>
            \/ pc[c] \in {"ret", "idle"} /\ result'[c] = result[c]
            \/ result'[c].outcome # "ok"
  PROVE  WriteInv'
<1>2. AckApplied'
  BY DEF WriteInv, AckApplied, IsWriteAck
<1>3. AckedWriteApplied'
  BY DEF WriteInv, AckedWriteApplied
<1> QED
  BY <1>2, <1>3 DEF WriteInv

\* Every step keeps the link between acknowledgements and applied writes.
LEMMA WriteStep ==
  TypeOK /\ HandoverInv /\ WriteInv /\ [Next]_vars => WriteInv'
<1> SUFFICES ASSUME TypeOK, HandoverInv, WriteInv, [Next]_vars
             PROVE  WriteInv'
  OBVIOUS
<1>1. ASSUME NEW c \in Callers, NEW d \in Devices, NEW s \in Services,
             Register(c, d, s)
      PROVE  WriteInv'
  <2>1. PICK t \in Nat :
          /\ call' = [call EXCEPT ![c] = [dev |-> d, svc |-> s,
                        id |-> t % NumIDs, stamp |-> t, attempt |-> 0]]
          /\ net' = Alive(net, t + 1)
    BY <1>1, RegisterDraws
  <2>2. /\ pc' = [pc EXCEPT ![c] = "send"]
        /\ slot' = [slot EXCEPT ![c] = {}]
        /\ result' = result /\ handing' = handing /\ applied' = applied
    BY <1>1 DEF Register
  <2>3. net' \subseteq net
    BY <2>1 DEF Alive
  <2>4. \A x \in Callers : x # c => /\ call'[x] = call[x] /\ pc'[x] = pc[x]
                                    /\ slot'[x] = slot[x]
    BY <2>1, <2>2 DEF TypeOK
  <2>5. pc'[c] = "send" /\ slot'[c] = {}
    BY <2>2 DEF TypeOK
  <2>7. AckApplied'
    BY <2>2, <2>3, <2>4, <2>5 DEF WriteInv, AckApplied
  <2>8. AckedWriteApplied'
    BY <2>2, <2>4, <2>5 DEF WriteInv, AckedWriteApplied
  <2> QED
    BY <2>7, <2>8 DEF WriteInv
<1>2. ASSUME NEW c \in Callers, TooManyOutstanding(c) PROVE WriteInv'
  BY <1>2, WriteFrame DEF TooManyOutstanding, InFlight, TypeOK
<1>3. ASSUME NEW c \in Callers, Send(c) PROVE WriteInv'
  <2>1. \A m \in net' : m \in net \/ m.kind = "request"
    BY <1>3 DEF Send, Alive, RequestOf
  <2> QED
    BY <1>3, <2>1, WriteFrame DEF Send, InFlight, TypeOK
<1>4. ASSUME NEW c \in Callers, SendFails(c) PROVE WriteInv'
  BY <1>4, WriteFrame DEF SendFails, Return, InFlight, TypeOK
<1>5. ASSUME NEW c \in Callers, TakeReply(c) PROVE WriteInv'
  <2>1. PICK m \in slot[c] : Return(c, OutcomeOf(m), m.stamp)
    BY <1>5 DEF TakeReply
  <2>2. /\ pc[c] = "wait"
        /\ slot' = [slot EXCEPT ![c] = {}]
        /\ call' = call /\ net' = net /\ handing' = handing
        /\ applied' = applied
    BY <1>5 DEF TakeReply
  <2>3. /\ result' = [result EXCEPT ![c] = [outcome |-> OutcomeOf(m),
                                            stamp |-> m.stamp]]
        /\ pc' = [pc EXCEPT ![c] = "ret"]
    BY <2>1 DEF Return
  <2>4. /\ m \in Replies /\ InFlight(c)
        /\ MayAnswer(m.stamp, call[c].stamp) /\ Answers(m, call[c])
    BY <2>1, <2>2 DEF TypeOK, HandoverInv, OwnReply, InFlight
  <2>5. OutcomeOf(m) = "ok" /\ call[c].svc = "WriteProperty" => IsWriteAck(m)
    BY <2>1, <2>4
    DEF OutcomeOf, Replies, AllReplyTypes, IsWriteAck, Answers
  <2>6. AckApplied'
    BY <2>2, <2>3 DEF WriteInv, AckApplied, TypeOK
  <2>7. AckedWriteApplied'
    <3> SUFFICES ASSUME NEW x \in Callers, pc'[x] \in {"ret", "idle"},
                        result'[x].outcome = "ok",
                        call[x].svc = "WriteProperty"
                 PROVE  /\ result'[x].stamp \in applied
                        /\ MayAnswer(result'[x].stamp, call[x].stamp)
      BY <2>2 DEF AckedWriteApplied
    <3>1. CASE x = c
      <4>1. OutcomeOf(m) = "ok" /\ result'[x].stamp = m.stamp
        BY <2>3, <3>1 DEF TypeOK
      <4>2. m.stamp \in applied
        BY <2>1, <2>5, <3>1, <4>1 DEF WriteInv, AckApplied
      <4> QED
        BY <2>4, <3>1, <4>1, <4>2
    <3>2. CASE x # c
      BY <2>3, <3>2 DEF WriteInv, AckedWriteApplied, TypeOK
    <3> QED
      BY <3>1, <3>2
  <2> QED
    BY <2>6, <2>7 DEF WriteInv
<1>6. ASSUME NEW c \in Callers, RetryAfterTimeout(c) PROVE WriteInv'
  BY <1>6, WriteFrame DEF RetryAfterTimeout, InFlight, TypeOK, Calls
<1>7. ASSUME NEW c \in Callers, GiveUp(c) PROVE WriteInv'
  BY <1>7, WriteFrame DEF GiveUp, Return, InFlight, TypeOK
<1>8. ASSUME NEW c \in Callers, CtxDone(c) PROVE WriteInv'
  BY <1>8, WriteFrame DEF CtxDone, Return, InFlight, TypeOK
<1>9. ASSUME NEW c \in Callers, Finish(c) PROVE WriteInv'
  BY <1>9, WriteFrame DEF Finish, InFlight, TypeOK
<1>10. ASSUME NEW m \in net, ReceiveUnsolicited(m) PROVE WriteInv'
  BY <1>10, WriteFrame DEF ReceiveUnsolicited, InFlight
<1>11. ASSUME NEW m \in net, ReceiveReply(m) PROVE WriteInv'
  <2> DEFINE c == pending[m.id]
  <2>1. /\ handing' = {[to |-> c, stamp |-> call[c].stamp, msg |-> m]}
        /\ UNCHANGED <<pc, call, slot, result, net, applied>>
    BY <1>11 DEF ReceiveReply
  <2> HIDE DEF c
  <2>2. AckApplied'
    BY <2>1 DEF WriteInv, AckApplied, IsWriteAck
  <2> QED
    BY <2>1, <2>2 DEF WriteInv, AckedWriteApplied
<1>12. ASSUME HandOver PROVE WriteInv'
  <2>1. PICK h \in handing :
          slot' = IF /\ call[h.to].stamp = h.stamp
                     /\ pc[h.to] \in {"send", "wait"}
                     /\ slot[h.to] = {}
                    THEN [slot EXCEPT ![h.to] = {h.msg}] ELSE slot
    BY <1>12 DEF HandOver
  <2>2. /\ handing' = {}
        /\ UNCHANGED <<pc, call, result, net, applied>>
    BY <1>12 DEF HandOver
  <2>3. h.to \in Callers
    BY DEF TypeOK
  <2>4. \A c \in Callers : \A m \in slot'[c] :
           \/ m \in slot[c]
           \/ /\ m = h.msg /\ c = h.to
              /\ call[c].stamp = h.stamp /\ InFlight(c)
    BY <2>1, <2>3 DEF TypeOK, InFlight
  <2>6. AckApplied'
    BY <2>2, <2>4 DEF WriteInv, AckApplied
  <2> QED
    BY <2>2, <2>6 DEF WriteInv, AckedWriteApplied
<1>13. ASSUME NEW m \in net, NEW t \in ReplyTypes, DeviceHandle(m, t)
       PROVE  WriteInv'
  <2>1. /\ net' = net \cup {ReplyTo(m, t)}
        /\ applied' = IF m.svc = "WriteProperty" /\ t = "ack"
                        THEN applied \cup {m.stamp} ELSE applied
        /\ UNCHANGED <<pc, call, slot, result, handing>>
    BY <1>13 DEF DeviceHandle
  <2>2. IsWriteAck(ReplyTo(m, t)) => ReplyTo(m, t).stamp \in applied'
    BY <2>1 DEF IsWriteAck, ReplyTo
  <2>3. AckApplied'
    BY <2>1, <2>2 DEF WriteInv, AckApplied
  <2> QED
    BY <2>1, <2>3 DEF WriteInv, AckedWriteApplied
<1>14. ASSUME Close PROVE WriteInv'
  BY <1>14, WriteFrame DEF Close, InFlight
<1>15. ASSUME UNCHANGED vars PROVE WriteInv'
  BY <1>15, WriteFrame DEF vars, InFlight
<1> QED
  BY <1>1, <1>2, <1>3, <1>4, <1>5, <1>6, <1>7, <1>8, <1>9, <1>10, <1>11,
     <1>12, <1>13, <1>14, <1>15, NextCases

\* Initially there is no acknowledgement.
LEMMA WriteInit == Init => WriteInv
<1> SUFFICES ASSUME Init PROVE WriteInv
  OBVIOUS
<1>1. /\ \A c \in Callers : slot[c] = {} /\ result[c].outcome = "none"
      /\ net = {} /\ handing = {}
  BY DEF Init
<1> QED
  BY <1>1 DEF WriteInv, AckApplied, AckedWriteApplied

\* The write whose acknowledgement WriteProperty reports has been carried out,
\* and it is the caller's own or a whole number of turns of the ID counter older;
\* no acknowledgement of a read is ever taken for it.
THEOREM AckedWriteIsApplied == Spec => []AckedWriteApplied
<1> DEFINE Inv == TypeOK /\ PendingExact /\ StampInv /\ HandoverInv /\ WriteInv
<1>1. Init => Inv
  BY TypeInit, ReplyInit, WriteInit
<1>2. Inv /\ [Next]_vars => Inv'
  BY TypeStep, PendingStep, StampStep, HandoverStep, WriteStep
<1>3. Inv => AckedWriteApplied
  BY DEF WriteInv
<1> HIDE DEF Inv
<1> QED
  BY <1>1, <1>2, <1>3, PTL DEF Spec
-----------------------------------------------------------------------------
(* The abstract specification                                              *)

\* What ConfirmedService sees of this module's state.
Current == [c \in Callers |->
              [op |-> call[c].stamp, asks |-> << call[c].dev, call[c].svc >>]]
Busy == {c \in Callers : pc[c] \in {"send", "wait"}}
Answer == [c \in Callers |-> [outcome |-> result[c].outcome, op |-> result[c].stamp]]

\* A step that changes nothing the callers can see.
LEMMA UnseenStep ==
  ASSUME ticket' = ticket, applied' = applied, panicked' = panicked,
         \A c \in Callers :
           /\ call'[c].stamp = call[c].stamp
           /\ call'[c].dev = call[c].dev
           /\ call'[c].svc = call[c].svc
           /\ pc'[c] \in {"send", "wait"} <=> pc[c] \in {"send", "wait"}
           /\ result'[c] = result[c]
  PROVE  UNCHANGED Service!vars
<1>1. Current' = Current
  BY DEF Current
<1>2. Busy' = Busy
  BY DEF Busy
<1>3. Answer' = Answer
  BY DEF Answer
<1> QED
  BY <1>1, <1>2, <1>3 DEF Service!vars, Current, Busy, Answer

\* A call that ends with an outcome of its own.
LEMMA ReturnStep ==
  ASSUME TypeOK, ~ panicked, NEW c \in Callers, NEW o \in Outcomes \ {"none", "full"},
         pc[c] \in {"send", "wait"},
         pc' = [pc EXCEPT ![c] = "ret"],
         result' = [result EXCEPT ![c] = [outcome |-> o, stamp |-> call[c].stamp]],
         UNCHANGED << ticket, call, applied, panicked >>,
         o = "ok" /\ call[c].svc = "WriteProperty" => call[c].stamp \in applied
  PROVE  Service!Return(c)
<1>1. Current' = Current
  BY DEF Current
<1>2. c \in Busy /\ Busy' = Busy \ {c}
  BY DEF Busy, TypeOK
<1>3. Answer' = [Answer EXCEPT ![c] = [outcome |-> o, op |-> call[c].stamp]]
  BY DEF Answer, TypeOK
<1>4. Current[c].op = call[c].stamp /\ Current[c].asks = << call[c].dev, call[c].svc >>
  BY DEF Current
<1>5. o = "ok" /\ Current[c].asks \in Devices \X {"WriteProperty"} => Current[c].op \in applied
  BY <1>4
<1>6. o \in (Outcomes \ {"none", "ok", "full"}) \cup {"ok"}
  OBVIOUS
<1> QED
  BY <1>1, <1>2, <1>3, <1>4, <1>5, <1>6 DEF Service!Return, Current, Busy, Answer

\* Every step is one that ConfirmedService allows, or one its callers do not see.
LEMMA ServiceStep ==
  LagBound /\ TypeOK /\ StampInv /\ HandoverInv /\ WriteInv /\ [Next]_vars
    => [Service!Next]_(Service!vars)
<1> SUFFICES ASSUME LagBound, TypeOK, StampInv, HandoverInv, WriteInv, [Next]_vars
             PROVE  Service!Next \/ UNCHANGED Service!vars
  OBVIOUS
<1> DEFINE P == Service!Next \/ UNCHANGED Service!vars
<1>1. ASSUME NEW c \in Callers, NEW d \in Devices, NEW s \in Services, Register(c, d, s)
      PROVE  P
  <2>1. PICK k \in IDs :
          /\ ticket + k < MaxTicket
          /\ ticket' = ticket + k + 1
          /\ call' = [call EXCEPT ![c] = [dev |-> d, svc |-> s,
                        id |-> (ticket + k) % NumIDs, stamp |-> ticket + k,
                        attempt |-> 0]]
    BY <1>1 DEF Register
  <2>2. /\ ~ panicked /\ pc[c] = "idle" /\ pc' = [pc EXCEPT ![c] = "send"]
        /\ UNCHANGED << result, applied, panicked >>
    BY <1>1 DEF Register
  <2> DEFINE n == ticket + k
  <2>3. n \in ticket .. MaxTicket - 1 /\ ticket' = n + 1
    BY <2>1, ClientAssumption DEF TypeOK, IDs
  <2>4. Current' = [Current EXCEPT ![c] = [op |-> n, asks |-> << d, s >>]]
    BY <2>1 DEF Current, TypeOK
  <2>5. c \notin Busy /\ Busy' = Busy \cup {c}
    BY <2>2 DEF Busy, TypeOK
  <2>6. Answer' = Answer
    BY <2>2 DEF Answer
  <2>7. << d, s >> \in Devices \X Services
    OBVIOUS
  <2> HIDE DEF n
  <2>8. Service!Ask(c)
    BY <2>2, <2>3, <2>4, <2>5, <2>6, <2>7 DEF Service!Ask, Current, Busy, Answer
  <2> QED
    BY <2>8 DEF Service!Next
<1>2. ASSUME NEW c \in Callers, TooManyOutstanding(c) PROVE P
  <2>1. /\ ~ panicked /\ pc[c] = "idle"
        /\ result' = [result EXCEPT ![c] = [outcome |-> "full", stamp |-> ticket]]
        /\ UNCHANGED << ticket, pc, call, applied, panicked >>
    BY <1>2 DEF TooManyOutstanding
  <2>2. c \notin Busy /\ Busy' = Busy /\ Current' = Current
    BY <2>1 DEF Busy, Current
  <2>3. Answer' = [Answer EXCEPT ![c] = [outcome |-> "full", op |-> ticket]]
    BY <2>1 DEF Answer, TypeOK
  <2>4. Service!Refuse(c)
    BY <2>1, <2>2, <2>3 DEF Service!Refuse, Current, Busy, Answer
  <2> QED
    BY <2>4 DEF Service!Next
<1>3. ASSUME NEW c \in Callers, Send(c) PROVE P
  BY <1>3, UnseenStep DEF Send, TypeOK
<1>4. ASSUME NEW c \in Callers, SendFails(c) PROVE P
  <2>1. Service!Return(c)
    BY <1>4, ReturnStep DEF SendFails, Return, Outcomes
  <2> QED
    BY <2>1 DEF Service!Next
<1>5. ASSUME NEW c \in Callers, TakeReply(c) PROVE P
  <2>1. PICK m \in slot[c] : Return(c, OutcomeOf(m), m.stamp)
    BY <1>5 DEF TakeReply
  <2>2. /\ ~ panicked /\ pc[c] = "wait"
        /\ UNCHANGED << ticket, call, applied, panicked >>
    BY <1>5 DEF TakeReply
  <2>3. m \in Replies /\ m.stamp = call[c].stamp /\ Answers(m, call[c])
    <3>1. /\ m \in Replies /\ Answers(m, call[c])
          /\ MayAnswer(m.stamp, call[c].stamp)
      BY <2>1, <2>2 DEF TypeOK, HandoverInv, OwnReply, InFlight
    <3>2. m.stamp \in Nat /\ call[c].stamp \in Nat
      BY <3>1 DEF Replies, TypeOK, Calls, Stamps
    <3> QED
      BY <3>1, <3>2, OwnUnderBound
  <2>4. OutcomeOf(m) \in Outcomes \ {"none", "full"}
    BY <2>3 DEF OutcomeOf, Outcomes, Replies, AllReplyTypes
  <2>5. OutcomeOf(m) = "ok" => m.type = "ack"
    BY <2>3 DEF OutcomeOf, Replies, AllReplyTypes
  <2>6. OutcomeOf(m) = "ok" /\ call[c].svc = "WriteProperty" => m.stamp \in applied
    <3> HAVE OutcomeOf(m) = "ok" /\ call[c].svc = "WriteProperty"
    <3>1. m.svc = "WriteProperty"
      BY <2>3, <2>5 DEF Answers
    <3>2. IsWriteAck(m)
      BY <2>3, <2>5, <3>1 DEF IsWriteAck, Replies
    <3> QED
      BY <2>1, <3>2 DEF WriteInv, AckApplied
  <2>7. Service!Return(c)
    BY <2>1, <2>2, <2>3, <2>4, <2>6, ReturnStep DEF Return
  <2> QED
    BY <2>7 DEF Service!Next
<1>6. ASSUME NEW c \in Callers, RetryAfterTimeout(c) PROVE P
  BY <1>6, UnseenStep DEF RetryAfterTimeout, TypeOK, Calls
<1>7. ASSUME NEW c \in Callers, GiveUp(c) PROVE P
  <2>1. Service!Return(c)
    BY <1>7, ReturnStep DEF GiveUp, Return, Outcomes
  <2> QED
    BY <2>1 DEF Service!Next
<1>8. ASSUME NEW c \in Callers, CtxDone(c) PROVE P
  <2>1. Service!Return(c)
    BY <1>8, ReturnStep DEF CtxDone, Return, Outcomes
  <2> QED
    BY <2>1 DEF Service!Next
<1>9. ASSUME NEW c \in Callers, Finish(c) PROVE P
  BY <1>9, UnseenStep DEF Finish, TypeOK
<1>10. ASSUME NEW m \in net, ReceiveUnsolicited(m) PROVE P
  <2>1. /\ ~ panicked
        /\ UNCHANGED << ticket, pc, call, result, applied >>
    BY <1>10 DEF ReceiveUnsolicited
  <2>2. CASE panicked'
    <3>1. Current' = Current /\ Busy' = Busy /\ Answer' = Answer
      BY <2>1 DEF Current, Busy, Answer
    <3>2. Service!Crash
      BY <2>1, <2>2, <3>1 DEF Service!Crash, Current, Busy, Answer
    <3> QED
      BY <3>2 DEF Service!Next
  <2>3. CASE ~ panicked'
    <3>1. panicked' = panicked
      <4>1. panicked \in BOOLEAN /\ panicked' \in BOOLEAN
        BY TypeStep DEF TypeOK
      <4> QED
        BY <2>1, <2>3, <4>1
    <3> QED
      BY <2>1, <3>1, UnseenStep
  <2> QED
    BY <2>2, <2>3
<1>11. ASSUME NEW m \in net, ReceiveReply(m) PROVE P
  BY <1>11, UnseenStep DEF ReceiveReply
<1>12. ASSUME HandOver PROVE P
  BY <1>12, UnseenStep DEF HandOver
<1>13. ASSUME NEW m \in net, NEW t \in ReplyTypes, DeviceHandle(m, t) PROVE P
  <2>1. /\ ~ panicked
        /\ applied' = applied \/ applied' = applied \cup {m.stamp}
        /\ UNCHANGED << ticket, pc, call, result, panicked >>
    BY <1>13 DEF DeviceHandle
  <2>2. CASE applied' = applied
    BY <2>1, <2>2, UnseenStep
  <2>3. CASE applied' = applied \cup {m.stamp}
    <3>1. m.stamp \in 0 .. ticket - 1
      <4>1. m \in Requests \/ m \in Replies
        BY DEF TypeOK
      <4>2. m.stamp \in Nat /\ m.stamp < ticket
        BY <4>1 DEF Requests, Replies, Stamps, StampInv, NetStamps
      <4> QED
        BY <4>2 DEF TypeOK
    <3>2. Current' = Current /\ Busy' = Busy /\ Answer' = Answer
      BY <2>1 DEF Current, Busy, Answer
    <3>3. Service!Carry
      BY <2>1, <2>3, <3>1, <3>2 DEF Service!Carry, Current, Busy, Answer
    <3> QED
      BY <3>3 DEF Service!Next
  <2> QED
    BY <2>1, <2>2, <2>3
<1>14. ASSUME Close PROVE P
  BY <1>14, UnseenStep DEF Close
<1>15. ASSUME UNCHANGED vars PROVE P
  BY <1>15, UnseenStep DEF vars
<1> HIDE DEF P
<1>16. P
  BY <1>1, <1>2, <1>3, <1>4, <1>5, <1>6, <1>7, <1>8, <1>9, <1>10, <1>11,
     <1>12, <1>13, <1>14, <1>15, NextCases
<1> QED
  BY <1>16 DEF P

\* Initially nobody has asked for anything.
LEMMA ServiceInit == Init => Service!Init
<1> SUFFICES ASSUME Init PROVE Service!Init
  OBVIOUS
<1>1. PICK d \in Devices, s \in Services :
        call = [c \in Callers |-> [dev |-> d, svc |-> s, id |-> 0,
                                  stamp |-> 0, attempt |-> 0]]
  BY DEF Init
<1>2. Current = [c \in Callers |-> [op |-> 0, asks |-> << d, s >>]]
  BY <1>1 DEF Current
<1>3. Busy = {}
  BY DEF Init, Busy
<1>4. Answer = [c \in Callers |-> [outcome |-> "none", op |-> 0]]
  BY DEF Init, Answer
<1>5. ticket = 0 /\ applied = {} /\ ~ panicked
  BY DEF Init
<1>6. << d, s >> \in Devices \X Services
  OBVIOUS
<1> QED
  BY <1>2, <1>3, <1>4, <1>5, <1>6 DEF Service!Init, Current, Busy, Answer

\* Under LagBound the client implements the steps of ConfirmedService: what
\* doConfirmedRequest and handleIncoming do with IDs, timers and datagrams adds up,
\* for the callers, to calls that return answers to their own operations and to
\* writes that are carried out before they are reported.
THEOREM ClientIsService ==
  LagBound => (Spec => Service!Init /\ [][Service!Next]_(Service!vars))
<1> SUFFICES ASSUME LagBound
             PROVE  Spec => Service!Init /\ [][Service!Next]_(Service!vars)
  OBVIOUS
<1> DEFINE Inv == TypeOK /\ PendingExact /\ StampInv /\ HandoverInv /\ WriteInv
<1>1. Init => Inv
  BY TypeInit, ReplyInit, WriteInit
<1>2. Inv /\ [Next]_vars => Inv'
  BY TypeStep, PendingStep, StampStep, HandoverStep, WriteStep
<1>3. Inv /\ [Next]_vars => [Service!Next]_(Service!vars)
  BY ServiceStep
<1> HIDE DEF Inv
<1> QED
  BY <1>1, <1>2, <1>3, ServiceInit, PTL DEF Spec
=============================================================================
