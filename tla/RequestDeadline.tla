-------------------------- MODULE RequestDeadline --------------------------
(***************************************************************************)
(* Timers: the attempts of a BACnet request (doConfirmedRequest, WhoIs and *)
(* DeviceInstance, internal/bacnet/client.go), the context of its caller,  *)
(* the HTTP status its outcome becomes (internal/api/httperr.go), and the  *)
(* shutdown of the process (cmd/bacnet-ip-rest-proxy/main.go).             *)
(*                                                                         *)
(* The caller is a handler that reads or writes a property under its own   *)
(* context (requestContext, internal/api/handlers.go), a handler that      *)
(* enumerates a device, or the refresher that does (load,                  *)
(* internal/api/varcache.go); an enumeration begins by identifying the     *)
(* device, and no more of it is modelled here.  The refresher may begin at *)
(* any time, also during the shutdown, which other handlers may keep       *)
(* waiting.                                                                *)
(*                                                                         *)
(* BacnetClient lets all timers fire at any moment; here time is counted,  *)
(* and a goroutine that has something to do does it before time goes on.   *)
(***************************************************************************)
EXTENDS Integers, Sequences

CONSTANTS
  Timeout,      \* ClientOptions.Timeout, configured as bacnet.timeout
  Retries,      \* ClientOptions.Retries
  LoadTime,     \* how long the context of an enumeration lasts: five minutes
  Delay,        \* the most that resolving an address can take
  ChanCap,      \* capacity of a subscriber's channel: eight
  Grace,        \* how long Shutdown waits for handlers: ten seconds
  MaxStrangers  \* bound on the I-Ams of other devices

\* Two requests with all their attempts fit into an enumeration's context, and
\* a handler's request into the grace period.
ASSUME DeadlineAssumption ==
  /\ Timeout \in Nat \ {0} /\ Retries \in Nat /\ ChanCap \in Nat /\ MaxStrangers \in Nat
  /\ Delay \in Nat /\ LoadTime \in Nat /\ Grace \in Nat
  /\ 2 * (Delay + (Retries + 1) * Timeout) < LoadTime
  /\ Timeout < Grace /\ Delay < Grace

VARIABLES
  caller,      \* handler, load or refresh: who made the context
  device,      \* silent, lossy (answers now and then) or prompt
  faulty,      \* sending and resolving may fail before the socket is closed
  others,      \* other handlers are under way
  now,         \* time since the context was made, until the request returned
  op,          \* whois or read
  pc,          \* idle, resolve, send, wait or done
  attempt,     \* the loop variable of this request
  sent,        \* transmissions so far, of both requests
  due,         \* when this attempt's timer fires
  chan,        \* WhoIs's channel: of each I-Am, whether the device sent it
  strangers,   \* I-Ams of other devices so far
  replied,     \* a reply is in the confirmed request's channel
  outcome,     \* what the request returned
  main,        \* up, draining, closing, closed or exited
  since        \* time since Shutdown was called, -1 if it was not

world == << caller, device, faulty, others >>
request == << world, now, op, pc, attempt, sent, due, chan, strangers, replied, outcome >>
vars == << request, main, since >>

-----------------------------------------------------------------------------

\* A handler's context lasts as long as one attempt, both being configured as
\* bacnet.timeout.  An enumeration's is derived from the cache's, which
\* Server.Close cancels.
CtxTime == IF caller = "handler" THEN Timeout ELSE LoadTime

\* Mutant of CtxOver: nothing cancels the context of an enumeration.
CtxOverUncancelled == now >= CtxTime

CtxOver == now >= CtxTime \/ (caller # "handler" /\ main \in {"closing", "closed"})

Init ==
  /\ caller \in {"handler", "load", "refresh"}
  /\ device \in {"silent", "lossy", "prompt"}
  /\ faulty \in BOOLEAN
  /\ others \in BOOLEAN
  /\ now = 0
  /\ op = IF caller = "handler" THEN "read" ELSE "whois"
  /\ pc = "resolve" \/ (pc = "idle" /\ caller = "refresh")
  /\ attempt = 0
  /\ sent = 0
  /\ due = Delay
  /\ chan = << >>
  /\ strangers = 0
  /\ replied = FALSE
  /\ outcome = "none"
  /\ main = "up"
  /\ since = -1

Running == main # "exited"
At(where) == Running /\ pc = where

\* The refresher's ticker fires.  After Server.Close the refresher may still
\* take that case rather than the end of its context.
Begin ==
  /\ At("idle") /\ main # "closed"
  /\ pc' = "resolve"
  /\ UNCHANGED << world, now, op, attempt, sent, due, chan, strangers,
                  replied, outcome, main, since >>

\* resolveDeviceAddr; it does not look at the context.
Resolve ==
  /\ At("resolve")
  /\ pc' = "send"
  /\ UNCHANGED << world, now, op, attempt, sent, due, chan, strangers, replied, outcome,
                  main, since >>

\* Transmit, then set the timer (lines 183-186 and 256-259).
Send ==
  /\ At("send") /\ main # "closed"
  /\ sent' = sent + 1
  /\ due' = now + Timeout
  /\ pc' = "wait"
  /\ UNCHANGED << world, now, op, attempt, chan, strangers, replied,
                  outcome, main, since >>

Return(o) ==
  /\ pc' = "done"
  /\ outcome' = o
  /\ UNCHANGED << world, now, op, attempt, sent, due, strangers, replied, main, since >>

\* Mutant of Fail: an error of Who-Is is the end of it.
FailAtOnce(o) == Return(o)

\* The request fails with o.  After Who-Is DeviceInstance goes on to read the
\* wildcard Device object, unless the context is over (lines 212-221).
Fail(o) ==
  IF op = "read" \/ CtxOver THEN Return(o)
  ELSE /\ op' = "read"
       /\ pc' = "resolve"
       /\ attempt' = 0
       /\ due' = now + Delay
       /\ UNCHANGED << world, now, sent, strangers, replied,
                  outcome, main, since >>

\* The address is not resolved, or the write fails: it does on a closed socket.
ResolveFails == At("resolve") /\ faulty /\ Fail("send") /\ UNCHANGED chan

SendFails ==
  At("send") /\ (faulty \/ main = "closed") /\ Fail("send") /\ UNCHANGED chan

TakeReply == At("wait") /\ op = "read" /\ replied /\ Return("reply") /\ UNCHANGED chan

\* The next attempt, if there is one left.
Again(o) ==
  IF attempt < Retries
  THEN /\ attempt' = attempt + 1
       /\ pc' = "send"
       /\ UNCHANGED << world, now, op, sent, due, strangers, replied,
                  outcome, main, since >>
  ELSE Fail(o)

\* The attempt's timer fires.
TimerFires == At("wait") /\ now >= due /\ Again("timeout") /\ UNCHANGED chan

\* Mutant of OtherIAm: an I-Am of another device ends the attempt.
OtherIAmEnds == Again("timeout")

\* An I-Am that is not the device's: keep waiting, for what remains of the
\* attempt (lines 187-197).
OtherIAm ==
  IF now >= due THEN Again("timeout")
  ELSE UNCHANGED << world, now, op, pc, attempt, sent, due, strangers, replied, outcome,
                    main, since >>

TakeIAm ==
  /\ At("wait") /\ op = "whois" /\ chan # << >>
  /\ chan' = Tail(chan)
  /\ IF Head(chan) THEN Return("reply") ELSE OtherIAm

\* Lines 264-265 and 198-199; DeviceInstance does not go on then.
CtxDone == At("wait") /\ CtxOver /\ Return("ctx") /\ UNCHANGED chan

-----------------------------------------------------------------------------
(* The network.                                                            *)

\* handleIncoming offers an I-Am to the subscriber; a full channel drops it.
Subscribed == Running /\ op = "whois" /\ pc \in {"send", "wait"}
Offer(own) == chan' = IF Len(chan) < ChanCap THEN Append(chan, own) ELSE chan

\* The device's I-Am comes back, at most once per transmission, if it does
\* not go to the standard port instead (the comment on DeviceInstance).
IAm ==
  /\ Subscribed /\ device # "silent" /\ sent > 0
  /\ ~ \E k \in DOMAIN chan : chan[k]
  /\ Offer(TRUE)
  /\ UNCHANGED << world, now, op, pc, attempt, sent, due, strangers, replied,
                  outcome, main, since >>

StrangerIAm ==
  /\ Subscribed /\ strangers < MaxStrangers
  /\ Offer(FALSE)
  /\ strangers' = strangers + 1
  /\ UNCHANGED << world, now, op, pc, attempt, sent, due, replied, outcome, main, since >>

\* The answer to the confirmed request arrives.
Reply ==
  /\ Running /\ device # "silent" /\ op = "read" /\ ~replied
  /\ pc = "wait" \/ (pc = "send" /\ attempt > 0)
  /\ replied' = TRUE
  /\ UNCHANGED << world, now, op, pc, attempt, sent, due, chan, strangers, outcome, main, since >>

-----------------------------------------------------------------------------
(* main.                                                                   *)

\* A signal: Shutdown is called with a context of its own.
Signal ==
  /\ main = "up"
  /\ main' = "draining"
  /\ since' = 0
  /\ UNCHANGED request

\* ListenAndServe fails: run returns at once.
ListenError == main = "up" /\ main' = "closing" /\ UNCHANGED << request, since >>

\* Mutant of ShutdownReturns: Shutdown closes the connections.
ShutdownReturnsAtOnce == main = "draining" /\ main' = "closing" /\ UNCHANGED << request, since >>

\* Another handler, perhaps an enumeration of five minutes, may end late or never.
OthersEnd ==
  /\ others /\ others' = FALSE
  /\ UNCHANGED << caller, device, faulty, now, op, pc, attempt, sent, due, chan, strangers,
                  replied, outcome, main, since >>

\* Shutdown waits for handlers, not for the refresher.
Drained == (~others /\ (pc = "done" \/ caller = "refresh")) \/ since >= Grace
ShutdownReturns ==
  main = "draining" /\ Drained /\ main' = "closing" /\ UNCHANGED << request, since >>

\* The deferred Server.Close cancels the cache's context and waits for the
\* refresher, then Client.Close closes the socket.
CacheClosed == caller # "refresh" \/ pc \in {"idle", "done"}
ServerClose ==
  main = "closing" /\ CacheClosed /\ main' = "closed" /\ UNCHANGED << request, since >>
Exit == main = "closed" /\ main' = "exited" /\ UNCHANGED << request, since >>

-----------------------------------------------------------------------------

\* Mutant of Woken: the select lacks its last case.
WokenLate == now >= due \/ (op = "read" /\ replied) \/ (op = "whois" /\ chan # << >>)

\* One of the cases of the select is ready.
Woken == now >= due \/ CtxOver \/ (op = "read" /\ replied) \/ (op = "whois" /\ chan # << >>)

\* A prompt device answers reads within the attempt.
MustReply == device = "prompt" /\ op = "read" /\ pc = "wait" /\ ~replied /\ now + 1 >= due

\* Time passes while the request resolves its address or waits, or main does.
Passing == (pc = "resolve" /\ now < due) \/ (pc = "wait" /\ ~Woken /\ ~MustReply)
Tick ==
  /\ Passing \/ (main = "draining" /\ pc \in {"idle", "done"})
  /\ \/ main = "up"
     \/ main = "draining" /\ ~Drained
     \/ main = "closing" /\ ~CacheClosed
  /\ now' = IF Passing THEN now + 1 ELSE now
  /\ since' = IF since >= 0 THEN since + 1 ELSE since
  /\ UNCHANGED << world, op, pc, attempt, sent, due, chan, strangers,
                  replied, outcome, main >>

Goroutines ==
  \/ Resolve \/ ResolveFails \/ Send \/ SendFails \/ TakeReply \/ TakeIAm \/ TimerFires \/ CtxDone
  \/ ShutdownReturns \/ ServerClose \/ Exit

Next ==
  \/ Goroutines \/ Tick \/ Begin \/ OthersEnd \/ IAm \/ StrangerIAm \/ Reply
  \/ Signal \/ ListenError

\* Goroutines run and time passes, and a prompt device answers; signals, other
\* datagrams and the ends of other handlers may never come.
Spec == Init /\ [][Next]_vars /\ WF_vars(Goroutines \/ Tick \/ (MustReply /\ Reply))

\* Mutant of Status: a timeout is just another error.
StatusBadGateway(o) == IF o = "reply" THEN 200 ELSE 502

\* writeBACnetError: only ErrTimeout becomes 504, also wrapped with another
\* error; the context's error is none of the kinds it knows.
Status(o) == CASE o = "reply"   -> 200
               [] o = "timeout" -> 504
               [] o \in {"ctx", "send"} -> 502

-----------------------------------------------------------------------------
(* Properties.                                                             *)

\* bacnet.retries is "retries per request before giving up", bacnet.timeout
\* the "per-attempt reply timeout" (docs/configuration.md:85-86): while the
\* proxy runs and datagrams can be sent, a request is given up only after all
\* its retransmissions.
Requests == IF caller = "handler" THEN 1 ELSE 2
RetriesBeforeGivingUp ==
  main = "up" /\ ~faulty /\ outcome \in {"timeout", "ctx"} => sent = Requests * (Retries + 1)

\* BACnetTimeout (504), "The device did not respond in time"
\* (internal/api/openapi.yaml:584-585), is the answer when a silent device
\* cannot be enumerated, and only after all retransmissions of Who-Is and of
\* the read after it, as long as names are resolved and datagrams sent.
SilenceIs504 ==
  main = "up" /\ ~faulty /\ caller # "handler" /\ device = "silent" /\ outcome # "none" =>
    Status(outcome) = 504 /\ RetriesBeforeGivingUp

\* No request outlasts its caller's context, whatever its retries, failures to
\* send, other devices' I-Ams and the fallback add up to; only the name
\* resolution can.
EndsWithContext == now <= CtxTime \/ now <= Delay

\* A device that answers reads is identified, although its I-Am may go
\* elsewhere, be lost, or be dropped by a channel full of other devices'
\* (client.go:139-143 and 206-227), as long as names are resolved and
\* datagrams sent.
FallbackIdentifies ==
  main = "up" /\ ~faulty /\ caller # "handler" /\ device = "prompt" /\ outcome # "none" =>
    outcome = "reply"

\* Transmissions are a timeout apart: neither I-Ams of other devices nor the
\* change from Who-Is to the read bring one forward.
Paced == sent <= now \div Timeout + 1

\* A handler's read or write that is under way at a signal ends before the
\* socket is closed and the process exits (main.go:98-101).
DrainedBeforeClose ==
  main \in {"closed", "exited"} /\ since >= 0 /\ caller = "handler" => pc = "done"

\* After a signal, or when listening fails, the process exits.  After a signal
\* it does within the grace period (main.go:99), even if a handler's
\* enumeration uses all of it, and one name resolution more, which the
\* refresher that Server.Close then waits for may be in; whatever else that has
\* left to do, the cancelled context ends at once.
Exits == main # "up" ~> main = "exited" /\ since <= Grace + Delay
=============================================================================
