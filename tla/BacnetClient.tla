---------------------------- MODULE BacnetClient ----------------------------
(***************************************************************************)
(* Confirmed BACnet requests: Client.doConfirmedRequest, its receive loop  *)
(* and its three callers ReadProperty, ReadPropertyMultiple and            *)
(* WriteProperty (internal/bacnet/client.go).                              *)
(*                                                                         *)
(* Any number of goroutines (Callers) share one UDP socket.  A request     *)
(* draws an invoke ID from a wrapping 8-bit counter, registers itself in   *)
(* the table "pending", transmits up to Retries+1 times and waits for a    *)
(* reply, a timer or its context.  One receive loop matches replies to     *)
(* "pending" by invoke ID, source IP and service.                          *)
(*                                                                         *)
(* The network and the devices are the environment: a datagram stays in    *)
(* "net" once sent, so it can be delivered never, once, or again later, in *)
(* any order.  It is lost for good when more than MaxAge invoke IDs have   *)
(* been drawn since the one it carries.  MaxAge thus limits how long a     *)
(* request, its retransmissions, its device and the network together can   *)
(* take; the properties name it where what the code promises depends on    *)
(* it.                                                                     *)
(***************************************************************************)
EXTENDS Integers, FiniteSets

CONSTANTS
  Callers,      \* goroutines calling the client
  NoCaller,     \* marks a free slot of the pending table
  Devices,      \* device addresses (IP and port)
  IP,           \* IP[d]: the IP of d; several devices may share one
  Services,     \* the confirmed services in use
  ReplyTypes,   \* the kinds of reply the devices give
  NumIDs,       \* size of the invoke ID space: 256, the range of uint8
  Retries,      \* ClientOptions.Retries
  MaxAge,       \* IDs drawn before a request's last datagram is gone
  MaxTicket     \* bound on the number of invoke IDs drawn

AllServices == {"ReadProperty", "ReadPropertyMultiple", "WriteProperty"}
AllReplyTypes == {"ack", "error", "reject", "abort"}

ASSUME ClientAssumption ==
  /\ NoCaller \notin Callers
  /\ Services \subseteq AllServices
  /\ ReplyTypes \subseteq AllReplyTypes
  /\ NumIDs \in Nat \ {0}
  /\ Retries \in Nat
  /\ MaxAge \in Nat
  /\ MaxTicket \in Nat

VARIABLES
  ticket,     \* invoke IDs drawn so far; nextID is its value modulo NumIDs
  pending,    \* Client.pending: which caller's request holds each invoke ID
  pc,         \* where each caller stands in doConfirmedRequest
  call,       \* each caller's current (or, when idle, last) request
  slot,       \* the reply channel of that request, of capacity one
  result,     \* what the last finished call returned
  net,        \* datagrams that can still be delivered
  applied,    \* stamps of the writes some device has carried out
  handing,    \* the reply the receive loop is about to put into a channel
  open,       \* FALSE once Close has closed the socket
  panicked    \* the process died of a panic in the receive loop

vars == <<ticket, pending, pc, call, slot, result, net, applied, handing,
          open, panicked>>
-----------------------------------------------------------------------------
(* Data *)

IDs == 0 .. NumIDs - 1
Stamps == Nat
Outcomes == {"none", "ok", "error", "reject", "abort",
             "timeout", "ctx", "send", "full"}
PCs == {"idle", "send", "wait", "ret"}

\* "stamp", the ticket a request drew, identifies the request for the
\* properties; it is not transmitted and no guard of the client reads it,
\* except to say which of a caller's channels is meant.
Requests == [kind : {"request"}, dev : Devices, svc : AllServices,
             id : IDs, stamp : Stamps]
Replies == [kind : {"reply"}, dev : Devices, svc : AllServices,
            id : IDs, stamp : Stamps, type : AllReplyTypes]
Calls == [dev : Devices, svc : AllServices, id : IDs, stamp : Stamps,
          attempt : Nat]

InFlight(c) == pc[c] # "idle"

RequestOf(k) == [kind |-> "request", dev |-> k.dev, svc |-> k.svc,
                 id |-> k.id, stamp |-> k.stamp]

ReplyTo(m, t) == [kind |-> "reply", dev |-> m.dev, svc |-> m.svc,
                  id |-> m.id, stamp |-> m.stamp, type |-> t]

\* Mutants of OutcomeOf: the reply's kind is passed on as it came, or not
\* looked at.
OutcomeRaw(m) == m.type
OutcomeUnchecked(m) == "ok"

\* What ReadProperty, ReadPropertyMultiple and WriteProperty make of a reply:
\* the acknowledgement of the service (Simple-ACK for a write, Complex-ACK for
\* a read), or the error serviceError builds for the other kinds.  "error" also
\* stands for an acknowledgement of the wrong kind for the service, and for one
\* whose parameters cannot be decoded.
OutcomeOf(m) == IF m.type = "ack" THEN "ok" ELSE m.type

\* Mutant of Answers: any reply from there will do.
AnswersAnyService(m, k) == IP[k.dev] = IP[m.dev]

\* handleIncoming's test that m may answer the pending request k.
Answers(m, k) == /\ IP[k.dev] = IP[m.dev]
                 /\ m.type \in {"reject", "abort"} \/ m.svc = k.svc

\* Mutant of FirstFree: the table is not asked.
FirstDrawn(k) == k = 0

\* The scan for a free invoke ID stops after skipping k used ones.
FirstFree(k) ==
  /\ pending[(ticket + k) % NumIDs] = NoCaller
  /\ \A j \in 0 .. k - 1 : pending[(ticket + j) % NumIDs] # NoCaller

\* Those of the datagrams ms that can be delivered once t invoke IDs have been
\* drawn.
Alive(ms, t) == {m \in ms : t - m.stamp <= MaxAge}
-----------------------------------------------------------------------------
(* Callers: doConfirmedRequest *)

Init ==
  /\ ticket = 0
  /\ pending = [id \in IDs |-> NoCaller]
  /\ pc = [c \in Callers |-> "idle"]
  /\ \E d \in Devices, s \in Services :
        call = [c \in Callers |-> [dev |-> d, svc |-> s, id |-> 0,
                                   stamp |-> 0, attempt |-> 0]]
  /\ slot = [c \in Callers |-> {}]
  /\ result = [c \in Callers |-> [outcome |-> "none", stamp |-> 0]]
  /\ net = {}
  /\ applied = {}
  /\ handing = {}
  /\ open = TRUE
  /\ panicked = FALSE

\* Lines 230-247: under the mutex, draw an invoke ID and register.
Register(c, d, s) ==
  /\ ~ panicked
  /\ pc[c] = "idle"
  /\ \E k \in IDs :
       /\ FirstFree(k)
       /\ ticket + k < MaxTicket
       /\ ticket' = ticket + k + 1
       /\ pending' = [pending EXCEPT ![(ticket + k) % NumIDs] = c]
       /\ call' = [call EXCEPT ![c] = [dev |-> d, svc |-> s,
                     id |-> (ticket + k) % NumIDs, stamp |-> ticket + k,
                     attempt |-> 0]]
       /\ net' = Alive(net, ticket + k + 1)
  /\ slot' = [slot EXCEPT ![c] = {}]
  /\ pc' = [pc EXCEPT ![c] = "send"]
  /\ UNCHANGED <<result, applied, handing, open, panicked>>

\* Lines 241-244: all IDs are taken.  nextID has gone round once, to where it
\* was.
TooManyOutstanding(c) ==
  /\ ~ panicked
  /\ pc[c] = "idle"
  /\ \A id \in IDs : pending[id] # NoCaller
  /\ result' = [result EXCEPT ![c] = [outcome |-> "full", stamp |-> ticket]]
  /\ UNCHANGED <<ticket, pending, pc, call, slot, net, applied, handing,
                 open, panicked>>

\* Line 256: a transmission; the timer of this attempt starts.
Send(c) ==
  /\ ~ panicked
  /\ pc[c] = "send"
  /\ open
  /\ net' = Alive(net \cup {RequestOf(call[c])}, ticket)
  /\ pc' = [pc EXCEPT ![c] = "wait"]
  /\ UNCHANGED <<ticket, pending, call, slot, result, applied, handing,
                 open, panicked>>

\* The call is about to return outcome o; s is the stamp of the request whose
\* reply it returns, or its own.
Return(c, o, s) ==
  /\ result' = [result EXCEPT ![c] = [outcome |-> o, stamp |-> s]]
  /\ pc' = [pc EXCEPT ![c] = "ret"]

\* Lines 256-258: WriteToUDP fails, always once the socket is closed.
SendFails(c) ==
  /\ ~ panicked
  /\ pc[c] = "send"
  /\ Return(c, "send", call[c].stamp)
  /\ UNCHANGED <<ticket, pending, call, slot, net, applied, handing, open,
                 panicked>>

\* Lines 260-261 and the caller's look at the reply.
TakeReply(c) ==
  /\ ~ panicked
  /\ pc[c] = "wait"
  /\ \E m \in slot[c] : Return(c, OutcomeOf(m), m.stamp)
  /\ slot' = [slot EXCEPT ![c] = {}]
  /\ UNCHANGED <<ticket, pending, call, net, applied, handing, open,
                 panicked>>

\* Lines 262-263: the attempt's timer fires and another attempt is left.
RetryAfterTimeout(c) ==
  /\ ~ panicked
  /\ pc[c] = "wait"
  /\ call[c].attempt < Retries
  /\ call' = [call EXCEPT ![c].attempt = @ + 1]
  /\ pc' = [pc EXCEPT ![c] = "send"]
  /\ UNCHANGED <<ticket, pending, slot, result, net, applied, handing, open,
                 panicked>>

\* Mutant of GiveUp: the loop's bound is off by one, and nobody listens to the
\* last attempt's timer.
GiveUpLate(c) ==
  /\ ~ panicked
  /\ pc[c] = "wait"
  /\ call[c].attempt > Retries
  /\ Return(c, "timeout", call[c].stamp)
  /\ UNCHANGED <<ticket, pending, call, slot, net, applied, handing, open,
                 panicked>>

\* Lines 262 and 268: the last attempt's timer fires.
GiveUp(c) ==
  /\ ~ panicked
  /\ pc[c] = "wait"
  /\ call[c].attempt >= Retries
  /\ Return(c, "timeout", call[c].stamp)
  /\ UNCHANGED <<ticket, pending, call, slot, net, applied, handing, open,
                 panicked>>

\* Lines 264-265: the caller's context ends, at any moment.
CtxDone(c) ==
  /\ ~ panicked
  /\ pc[c] = "wait"
  /\ Return(c, "ctx", call[c].stamp)
  /\ UNCHANGED <<ticket, pending, call, slot, net, applied, handing, open,
                 panicked>>

\* Mutant of Finish: the entry is only removed after a reply.
FinishOnReply(c) ==
  /\ ~ panicked
  /\ pc[c] = "ret"
  /\ pending' = IF result[c].outcome \in {"timeout", "ctx", "send"}
                  THEN pending
                  ELSE [pending EXCEPT ![call[c].id] = NoCaller]
  /\ pc' = [pc EXCEPT ![c] = "idle"]
  /\ UNCHANGED <<ticket, call, slot, result, net, applied, handing, open,
                 panicked>>

\* Lines 248-252: the deferred removal from the table.
Finish(c) ==
  /\ ~ panicked
  /\ pc[c] = "ret"
  /\ pending' = [pending EXCEPT ![call[c].id] = NoCaller]
  /\ pc' = [pc EXCEPT ![c] = "idle"]
  /\ UNCHANGED <<ticket, call, slot, result, net, applied, handing, open,
                 panicked>>
-----------------------------------------------------------------------------
(* The receive loop: readLoop and handleIncoming *)

\* Lines 118-120: no request holds the reply's invoke ID.  A Reject or Abort
\* is dropped; for the other kinds line 126 reads req.service through the nil
\* pointer the lookup returned, and the panic ends the process.
ReceiveUnsolicited(m) ==
  /\ ~ panicked
  /\ open
  /\ handing = {}
  /\ m.kind = "reply"
  /\ pending[m.id] = NoCaller
  /\ panicked' = (m.type \notin {"reject", "abort"})
  /\ UNCHANGED <<ticket, pending, pc, call, slot, result, net, applied,
                 handing, open>>

\* Lines 118-127: the request found is taken as the one answered, or not.
ReceiveReply(m) ==
  /\ ~ panicked
  /\ open
  /\ handing = {}
  /\ m.kind = "reply"
  /\ pending[m.id] # NoCaller
  /\ LET c == pending[m.id] IN
       /\ Answers(m, call[c])
       /\ handing' = {[to |-> c, stamp |-> call[c].stamp, msg |-> m]}
  /\ UNCHANGED <<ticket, pending, pc, call, slot, result, net, applied, open,
                 panicked>>

ReceiveMismatch(m) ==
  /\ ~ panicked
  /\ open
  /\ handing = {}
  /\ m.kind = "reply"
  /\ pending[m.id] # NoCaller
  /\ ~ Answers(m, call[pending[m.id]])
  /\ UNCHANGED vars

\* Mutant of HandOver: the channel belongs to the caller rather than to the
\* request, and outlives it.
HandOverToCaller ==
  /\ ~ panicked
  /\ \E h \in handing :
       slot' = IF pc[h.to] \in {"send", "wait"} /\ slot[h.to] = {}
                 THEN [slot EXCEPT ![h.to] = {h.msg}] ELSE slot
  /\ handing' = {}
  /\ UNCHANGED <<ticket, pending, pc, call, result, net, applied, open,
                 panicked>>

\* Lines 128-131: the non-blocking send.  It finds the channel of the request
\* looked up, which may have been given up meanwhile; a full channel drops the
\* reply.
HandOver ==
  /\ ~ panicked
  /\ \E h \in handing :
       LET waiting == /\ call[h.to].stamp = h.stamp
                      /\ pc[h.to] \in {"send", "wait"}
                      /\ slot[h.to] = {}
       IN slot' = IF waiting THEN [slot EXCEPT ![h.to] = {h.msg}] ELSE slot
  /\ handing' = {}
  /\ UNCHANGED <<ticket, pending, pc, call, result, net, applied, open,
                 panicked>>

\* Close: the socket is closed and the receive loop ends.
Close ==
  /\ ~ panicked
  /\ open
  /\ open' = FALSE
  /\ UNCHANGED <<ticket, pending, pc, call, slot, result, net, applied,
                 handing, panicked>>
-----------------------------------------------------------------------------
(* Devices *)

\* A device handles a request it received and replies to the socket it came
\* from; a write it acknowledges has been carried out.
DeviceHandle(m, t) ==
  /\ ~ panicked
  /\ m.kind = "request"
  /\ net' = net \cup {ReplyTo(m, t)}
  /\ applied' = IF m.svc = "WriteProperty" /\ t = "ack"
                  THEN applied \cup {m.stamp} ELSE applied
  /\ UNCHANGED <<ticket, pending, pc, call, slot, result, handing, open,
                 panicked>>
-----------------------------------------------------------------------------
\* The steps a caller is certain to take once it can: the runtime runs it,
\* and time.After's timer fires.
OwnStep(c) ==
  \/ Send(c) \/ SendFails(c) \/ RetryAfterTimeout(c) \/ GiveUp(c) \/ Finish(c)

ReadLoop(m) == ReceiveUnsolicited(m) \/ ReceiveReply(m) \/ ReceiveMismatch(m)

Next ==
  \/ \E c \in Callers : OwnStep(c) \/ TakeReply(c) \/ CtxDone(c)
  \/ \E c \in Callers, d \in Devices, s \in Services : Register(c, d, s)
  \/ \E c \in Callers : TooManyOutstanding(c)
  \/ \E m \in net : ReadLoop(m)
  \/ HandOver
  \/ \E m \in net, t \in ReplyTypes : DeviceHandle(m, t)
  \/ Close

Spec == Init /\ [][Next]_vars

\* Nothing is assumed of the network, the devices, the contexts or Close.
FairSpec ==
  /\ Spec
  /\ \A c \in Callers : WF_vars(OwnStep(c))
-----------------------------------------------------------------------------
(* Properties *)

\* The type of the state.
TypeOK ==
  /\ ticket \in Nat
  /\ pending \in [IDs -> Callers \cup {NoCaller}]
  /\ pc \in [Callers -> PCs]
  /\ call \in [Callers -> Calls]
  /\ slot \in [Callers -> SUBSET Replies]
  /\ result \in [Callers -> [outcome : Outcomes, stamp : Nat]]
  /\ net \subseteq Requests \cup Replies
  /\ applied \subseteq Nat
  /\ handing \subseteq [to : Callers, stamp : Nat, msg : Replies]
  /\ open \in BOOLEAN
  /\ panicked \in BOOLEAN

\* The table holds exactly the requests in flight, each under its own invoke
\* ID: no two concurrent requests share one, whatever the counter's
\* wraparounds, and no path out of doConfirmedRequest leaves an entry behind
\* or removes another request's (the deferred delete, lines 248-252).
PendingExact ==
  /\ \A c \in Callers : InFlight(c) => pending[call[c].id] = c
  /\ \A id \in IDs : pending[id] # NoCaller =>
        InFlight(pending[id]) /\ call[pending[id]].id = id

Replied(c) == /\ pc[c] \in {"ret", "idle"}
              /\ result[c].outcome \in {"ok", "error", "reject", "abort"}

\* The request of stamp s may be the one that a reply taken for the request of
\* stamp t answers: t itself, or an earlier one that drew the same invoke ID,
\* one or more whole turns of the counter before, within the datagrams' age.
\* While MaxAge <= NumIDs, that is t alone.
MayAnswer(s, t) == /\ s <= t
                   /\ t - s < MaxAge
                   /\ s % NumIDs = t % NumIDs

\* "a late reply to an earlier request that reused this invoke ID isn't taken
\* for this one's" (handleIncoming, lines 123-125), with the bound the code
\* needs for it: a reply in a request's channel passes the test of lines
\* 126-127, and it, and the one the call returns, answers that request, or one
\* a whole turn of the counter earlier, which takes a datagram older than a
\* turn (MaxAge > NumIDs) and, but for Reject and Abort, the same service.
OwnReply ==
  \A c \in Callers :
    /\ InFlight(c) => \A m \in slot[c] :
          MayAnswer(m.stamp, call[c].stamp) /\ Answers(m, call[c])
    /\ Replied(c) => MayAnswer(result[c].stamp, call[c].stamp)

\* When WriteProperty returns nil (lines 339-346), the device has carried out a
\* write: the caller's own, or an earlier one within the same bound that drew
\* the same invoke ID.  It is never the acknowledgement of a read, nor any
\* other reply, that the call takes for its success.
AckedWriteApplied ==
  \A c \in Callers :
    /\ pc[c] \in {"ret", "idle"}
    /\ result[c].outcome = "ok"
    /\ call[c].svc = "WriteProperty"
    => /\ result[c].stamp \in applied
       /\ MayAnswer(result[c].stamp, call[c].stamp)

\* The receive loop survives every datagram a device can send, "a duplicate
\* reply to a retransmitted request" (line 130) included.
NoPanic == ~ panicked

\* ConfirmedService, seen in this module's state: a call is over for its
\* caller once it has an outcome, before the deferred removal.
Service == INSTANCE ConfirmedService WITH
  Calls <- Devices \X Services,
  Writes <- Devices \X {"WriteProperty"},
  Failures <- Outcomes \ {"none", "ok", "full"},
  Limit <- MaxTicket,
  issued <- ticket,
  current <- [c \in Callers |->
                [op |-> call[c].stamp, asks |-> << call[c].dev, call[c].svc >>]],
  busy <- {c \in Callers : pc[c] \in {"send", "wait"}},
  answer <- [c \in Callers |->
               [outcome |-> result[c].outcome, op |-> result[c].stamp]],
  carried <- applied,
  up <- ~ panicked

\* The client implements ConfirmedService while no datagram outlives a turn of
\* the counter (MaxAge <= NumIDs): every call returns, with an answer to its
\* own request and to no other, however datagrams are lost, repeated, reordered
\* or late, and a write reported as done is done.
ImplementsService == Service!Spec
=============================================================================
