------------------------ MODULE RequestDeadlineProofs ------------------------
(***************************************************************************)
(* Proofs about timers and status, for any timeout, number of retries,     *)
(* enumeration context, resolver, channel capacity and grace period that   *)
(* satisfy DeadlineAssumption, and any number of I-Ams of other devices.   *)
(*                                                                         *)
(* Time spent is bounded by counting attempts: Span(n) is the time n       *)
(* attempts take.  What the proofs need of the product is in the lemmas    *)
(* about Span; nothing else expands it.                                    *)
(***************************************************************************)
EXTENDS RequestDeadline, TLAPS

Span(n) == n * Timeout

-----------------------------------------------------------------------------
(* The inductive invariant                                                 *)

Types ==
  /\ caller \in {"handler", "load", "refresh"}
  /\ device \in {"silent", "lossy", "prompt"}
  /\ faulty \in BOOLEAN /\ others \in BOOLEAN
  /\ now \in Nat /\ due \in Nat /\ sent \in Nat
  /\ op \in {"whois", "read"}
  /\ op = "whois" => caller # "handler"
  /\ pc \in {"idle", "resolve", "send", "wait", "done"}
  /\ pc = "idle" => caller = "refresh"
  /\ attempt \in 0 .. Retries
  /\ chan \in Seq(BOOLEAN)
  /\ replied \in BOOLEAN
  /\ outcome \in {"none", "reply", "timeout", "ctx", "send"}
  /\ outcome = "none" <=> pc # "done"
  /\ main \in {"up", "draining", "closing", "closed", "exited"}
  /\ since \in Int

\* This request is the read that follows Who-Is.
Second == op = "read" /\ caller # "handler"

\* What the request before this one has cost, at most.
Before == IF Second THEN Delay + Span(Retries + 1) ELSE 0

\* Each attempt ends in its time.
InTime ==
  /\ pc \in {"idle", "resolve"} => attempt = 0 /\ now <= due /\ due <= Before + Delay
  /\ pc = "send" => now <= Before + Delay + Span(attempt)
  /\ pc = "wait" => now <= due /\ due <= Before + Delay + Span(attempt + 1)

\* The attempts so far have taken their time.
Spaced ==
  /\ pc \in {"idle", "resolve", "send"} => Span(sent) <= now
  /\ pc = "wait" => Span(sent) <= due /\ due <= now + Timeout
  /\ Span(sent) <= now + Timeout

\* One transmission per attempt, if none fails.
Counted ==
  ~ faulty =>
    LET before == IF Second THEN Retries + 1 ELSE 0
    IN /\ pc \in {"idle", "resolve", "send"} => sent = before + attempt
       /\ pc = "wait" => sent = before + attempt + 1

\* Nothing comes from a silent device.
AllStrange(s) == \A k \in 1 .. Len(s) : s[k] = FALSE
Quiet == device = "silent" => replied = FALSE /\ AllStrange(chan)

\* A prompt device does not let the timer of a read fire.
Answered == device = "prompt" /\ op = "read" /\ pc = "wait" => now < due

\* What an enumeration can end with while the proxy is up and datagrams are sent.
May(o) ==
  /\ o \in {"reply", "timeout"}
  /\ o = "timeout" => device # "prompt" /\ sent = 2 * (Retries + 1)
  /\ device = "silent" => o = "timeout"
Outcome == main = "up" /\ ~ faulty /\ caller # "handler" /\ pc = "done" => May(outcome)

\* Shutdown: a handler's request that is under way began before the signal.
Shut ==
  /\ since >= 0 /\ caller = "handler" /\ pc # "done" => since <= now
  /\ main = "up" => since = -1
  /\ main = "draining" => since >= 0
  /\ main \in {"closing", "closed", "exited"} /\ since >= 0 /\ caller = "handler"
       => pc = "done"

IInv ==
  /\ Types /\ InTime /\ Spaced /\ Counted /\ Quiet /\ Answered /\ Outcome /\ Shut
  /\ EndsWithContext

-----------------------------------------------------------------------------
(* Arithmetic                                                              *)

\* The constants, as numbers.
LEMMA Constants ==
  /\ Timeout \in Nat /\ Timeout > 0 /\ Retries \in Nat /\ ChanCap \in Nat
  /\ Delay \in Nat /\ LoadTime \in Nat /\ Grace \in Nat
  /\ Timeout < Grace /\ Delay < Grace
BY DeadlineAssumption

\* Attempts take a timeout each.
LEMMA SpanSteps ==
  /\ Span(0) = 0
  /\ \A n \in Nat : Span(n) \in Nat /\ Span(n + 1) = Span(n) + Timeout
<1>1. \A n \in Nat : n * Timeout \in Nat /\ (n + 1) * Timeout = n * Timeout + Timeout
  BY Constants
<1> QED
  BY <1>1, Constants DEF Span

\* More attempts take longer.
LEMMA SpanMonotone == \A m, n \in Nat : m <= n => Span(m) <= Span(n)
<1>1. \A m, d \in Nat : m * Timeout <= (m + d) * Timeout
  <2> SUFFICES ASSUME NEW m \in Nat, NEW d \in Nat
               PROVE  m * Timeout <= (m + d) * Timeout
    OBVIOUS
  <2>1. (m + d) * Timeout = m * Timeout + d * Timeout /\ d * Timeout \in Nat
        /\ m * Timeout \in Nat
    BY Constants
  <2> QED
    BY <2>1
<1> SUFFICES ASSUME NEW m \in Nat, NEW n \in Nat, m <= n
             PROVE  m * Timeout <= n * Timeout
  BY DEF Span
<1>2. n - m \in Nat /\ n = m + (n - m)
  OBVIOUS
<1> QED
  BY <1>1, <1>2

\* An enumeration's two requests, with all their attempts, fit into its context.
LEMMA TwoFit == 2 * Delay + Span(Retries + 1) + Span(Retries + 1) < LoadTime
<1>1. (Retries + 1) * Timeout \in Nat
  BY Constants
<1> QED
  BY <1>1, Constants, DeadlineAssumption DEF Span

\* n units of time have room for n \div Timeout + 1 transmissions.
LEMMA Room ==
  ASSUME NEW m \in Nat, NEW n \in Nat, Span(m) <= n + Timeout
  PROVE  m <= n \div Timeout + 1
<1> DEFINE q == n \div Timeout
<1>1. q \in Nat /\ n < (q + 1) * Timeout
  BY Constants
<1> HIDE DEF q
<1>2. Span(q + 2) = Span(q + 1) + Timeout /\ n < Span(q + 1)
  BY <1>1, SpanSteps DEF Span
<1>3. SUFFICES ASSUME q + 2 <= m
               PROVE  FALSE
  BY <1>1 DEF q
<1>4. Span(q + 2) <= Span(m)
  BY <1>1, <1>3, SpanMonotone
<1> QED
  BY <1>1, <1>2, <1>4, Constants, SpanSteps

\* Taking from a channel and adding to it leave a channel.
LEMMA ChanType ==
  ASSUME NEW s \in Seq(BOOLEAN)
  PROVE  /\ s # << >> => Tail(s) \in Seq(BOOLEAN)
         /\ Append(s, TRUE) \in Seq(BOOLEAN) /\ Append(s, FALSE) \in Seq(BOOLEAN)
OBVIOUS

\* Taking from a channel without the device's I-Am, or adding another's, does not
\* put it there.
LEMMA Strange ==
  ASSUME NEW s \in Seq(BOOLEAN), AllStrange(s)
  PROVE  /\ s # << >> => Tail(s) \in Seq(BOOLEAN) /\ AllStrange(Tail(s)) /\ Head(s) = FALSE
         /\ Append(s, FALSE) \in Seq(BOOLEAN) /\ AllStrange(Append(s, FALSE))
<1>1. ASSUME s # << >>
      PROVE  Tail(s) \in Seq(BOOLEAN) /\ AllStrange(Tail(s)) /\ Head(s) = FALSE
  <2>1. Tail(s) \in Seq(BOOLEAN) /\ Len(Tail(s)) = Len(s) - 1 /\ Len(s) \in Nat
        /\ Len(s) >= 1
    BY <1>1
  <2>2. \A k \in 1 .. Len(Tail(s)) : Tail(s)[k] = s[k + 1]
    BY <1>1
  <2>3. Head(s) = s[1]
    BY <1>1
  <2>4. ASSUME NEW k \in 1 .. Len(Tail(s))
        PROVE  Tail(s)[k] = FALSE
    <3>1. k + 1 \in 1 .. Len(s) /\ Tail(s)[k] = s[k + 1]
      BY <2>1, <2>2
    <3> QED
      BY <3>1 DEF AllStrange
  <2>5. s[1] = FALSE
    BY <2>1 DEF AllStrange
  <2> QED
    BY <2>1, <2>3, <2>4, <2>5 DEF AllStrange
<1>2. Append(s, FALSE) \in Seq(BOOLEAN) /\ AllStrange(Append(s, FALSE))
  <2>1. Append(s, FALSE) \in Seq(BOOLEAN) /\ Len(Append(s, FALSE)) = Len(s) + 1
        /\ Len(s) \in Nat
    OBVIOUS
  <2>2. \A k \in 1 .. Len(s) : Append(s, FALSE)[k] = s[k]
    OBVIOUS
  <2>3. Append(s, FALSE)[Len(s) + 1] = FALSE
    OBVIOUS
  <2> QED
    BY <2>1, <2>2, <2>3 DEF AllStrange
<1> QED
  BY <1>1, <1>2

-----------------------------------------------------------------------------
(* Steps                                                                   *)

\* What no step of the request changes.
USE DEF world

\* Every request begins within the bounds.
LEMMA IInvInit == Init => IInv
<1> SUFFICES ASSUME Init
             PROVE  IInv
  OBVIOUS
<1>1. Types
  <2>1. op \in {"whois", "read"} /\ (op = "whois" => caller # "handler")
    BY DEF Init
  <2>3. chan \in Seq(BOOLEAN)
    BY DEF Init
  <2>4. replied \in BOOLEAN
    BY DEF Init
  <2>2. now \in Nat /\ due \in Nat /\ sent \in Nat /\ attempt \in 0 .. Retries
        /\ since \in Int
    BY Constants DEF Init
  <2> QED
    BY <2>1, <2>2, <2>3, <2>4 DEF Init, Types
<1>2. ~ Second /\ Before = 0
  BY DEF Init, Second, Before
<1>3. InTime /\ Spaced /\ Counted /\ Answered /\ Outcome /\ Shut
  <2>1. pc \in {"idle", "resolve"} /\ now = 0 /\ due = Delay /\ sent = 0 /\ attempt = 0
        /\ main = "up" /\ since = -1
    BY DEF Init
  <2>2. InTime /\ Spaced
    BY <1>2, <2>1, Constants, SpanSteps DEF InTime, Spaced
  <2>3. Counted /\ Answered /\ Outcome
    BY <1>2, <2>1 DEF Counted, Answered, Outcome
  <2>4. Shut
    BY <2>1 DEF Shut
  <2> QED
    BY <2>2, <2>3, <2>4
<1>4. Quiet
  BY DEF Init, Quiet, AllStrange
<1>5. EndsWithContext
  BY Constants DEF Init, EndsWithContext
<1> QED
  BY <1>1, <1>3, <1>4, <1>5 DEF IInv

\* An enumeration that goes on has time left.
LEMMA NotLate ==
  ASSUME IInv, caller # "handler", pc # "done"
  PROVE  now < LoadTime
<1>1. /\ now \in Nat /\ due \in Nat /\ attempt \in 0 .. Retries
      /\ pc \in {"idle", "resolve", "send", "wait"}
  BY DEF IInv, Types
<1>2. /\ Span(attempt) \in Nat /\ Span(attempt + 1) \in Nat /\ Span(Retries + 1) \in Nat
      /\ Span(attempt) <= Span(Retries + 1) /\ Span(attempt + 1) <= Span(Retries + 1)
  <2>1. /\ attempt \in Nat /\ attempt + 1 \in Nat /\ Retries + 1 \in Nat
        /\ attempt <= Retries + 1 /\ attempt + 1 <= Retries + 1
    BY <1>1, Constants
  <2> QED
    BY <2>1, SpanSteps, SpanMonotone
<1>3. Before \in Nat /\ Before <= Delay + Span(Retries + 1)
  BY <1>2, Constants DEF Before
<1>4. now <= Before + Delay + Span(Retries + 1)
  BY <1>1, <1>2, <1>3, Constants DEF IInv, InTime
<1> QED
  BY <1>1, <1>2, <1>3, <1>4, Constants, TwoFit

\* A request that returns what it may return keeps the invariant.
LEMMA ReturnKeeps ==
  ASSUME IInv, NEW o \in {"reply", "timeout", "ctx", "send"}, Return(o),
         chan' \in Seq(BOOLEAN), device = "silent" => AllStrange(chan'),
         main = "up" /\ ~ faulty /\ caller # "handler" => May(o)
  PROVE  IInv'
<1>1. /\ pc' = "done" /\ outcome' = o
      /\ UNCHANGED << world, now, op, attempt, sent, due, strangers,
                      replied, main, since >>
  BY DEF Return
<1>2. Types'
  BY <1>1 DEF IInv, Types
<1>3. InTime' /\ Counted' /\ Answered'
  BY <1>1 DEF InTime, Counted, Answered
<1>4. Spaced' /\ Shut'
  BY <1>1 DEF IInv, Spaced, Shut, Span
<1>5. Quiet'
  BY <1>1 DEF IInv, Quiet, AllStrange
<1>6. Outcome'
  BY <1>1 DEF Outcome, May
<1>7. EndsWithContext'
  BY <1>1 DEF IInv, EndsWithContext, CtxTime
<1> QED
  BY <1>2, <1>3, <1>4, <1>5, <1>6, <1>7 DEF IInv

\* The read that comes after Who-Is begins within the bounds.
LEMMA GoesOn ==
  ASSUME IInv, op = "whois", caller # "handler", pc \in {"resolve", "send", "wait"},
         op' = "read", pc' = "resolve", attempt' = 0, due' = now + Delay,
         UNCHANGED << world, now, sent, strangers, replied, outcome, main, since >>,
         chan' \in Seq(BOOLEAN), device = "silent" => AllStrange(chan'),
         now <= Delay + Span(Retries + 1), Span(sent) <= now,
         ~ faulty => sent = Retries + 1
  PROVE  IInv'
<1>1. /\ Types /\ Quiet /\ Outcome /\ Shut /\ EndsWithContext
      /\ now \in Nat /\ sent \in Nat
  BY DEF IInv, Types
<1>2. Second' /\ Before' = Delay + Span(Retries + 1)
  BY DEF Second, Before, Span
<1>3. Span(Retries + 1) \in Nat
  <2>1. Retries + 1 \in Nat
    BY Constants
  <2> QED
    BY <2>1, SpanSteps
<1>4. Types'
  BY <1>1, Constants DEF Types
<1>5. InTime'
  BY <1>1, <1>2, <1>3, Constants DEF InTime
<1>6. Spaced'
  BY <1>1, Constants DEF Spaced, Span
<1>7. Counted'
  BY <1>1, <1>2, Constants DEF Counted
<1>8. Quiet' /\ Answered' /\ Outcome'
  BY <1>1 DEF Quiet, AllStrange, Answered, Outcome
<1>9. Shut' /\ EndsWithContext'
  BY <1>1 DEF Shut, EndsWithContext, CtxTime
<1> QED
  BY <1>4, <1>5, <1>6, <1>7, <1>8, <1>9 DEF IInv

\* An attempt whose time is over is followed by another, by the read that comes
\* after Who-Is, or by the end of the request; all keep the invariant.
LEMMA AgainKeeps ==
  ASSUME IInv, pc = "wait", now >= due, Again("timeout"),
         chan' \in Seq(BOOLEAN), device = "silent" => AllStrange(chan'),
         ~ (device = "prompt" /\ op = "read")
  PROVE  IInv'
<1>1. /\ Types /\ InTime /\ Spaced /\ Counted /\ Quiet /\ Outcome /\ Shut
      /\ EndsWithContext
  BY DEF IInv
<1>2. /\ now \in Nat /\ due \in Nat /\ sent \in Nat /\ attempt \in 0 .. Retries
      /\ now = due /\ Span(sent) <= now
      /\ Before \in Nat /\ Span(attempt + 1) \in Nat
      /\ now <= Before + Delay + Span(attempt + 1)
  <2>1. now \in Nat /\ due \in Nat /\ sent \in Nat /\ attempt \in 0 .. Retries
    BY <1>1 DEF Types
  <2>2. Span(attempt + 1) \in Nat /\ Span(Retries + 1) \in Nat /\ Span(sent) \in Nat
    <3>1. attempt + 1 \in Nat /\ Retries + 1 \in Nat
      BY <2>1, Constants
    <3> QED
      BY <2>1, <3>1, SpanSteps
  <2>3. Before \in Nat
    BY <2>2, Constants DEF Before
  <2> QED
    BY <1>1, <2>1, <2>2, <2>3 DEF InTime, Spaced
<1>3. CASE attempt < Retries
  <2>1. /\ attempt' = attempt + 1 /\ pc' = "send"
        /\ UNCHANGED << world, now, op, sent, due, strangers, replied,
                        outcome, main, since >>
    BY <1>3 DEF Again
  <2>2. Second' = Second /\ Before' = Before
    BY <2>1 DEF Second, Before, Span
  <2>3. Types'
    BY <1>1, <1>2, <1>3, <2>1, Constants DEF Types
  <2>4. InTime'
    BY <1>2, <2>1, <2>2 DEF InTime, Span
  <2>5. Spaced'
    BY <1>1, <1>2, <2>1 DEF Spaced, Span
  <2>6. Counted'
    BY <1>1, <1>2, <2>1, <2>2, Constants DEF Counted
  <2>7. Quiet' /\ Answered' /\ Outcome'
    BY <1>1, <2>1 DEF Quiet, AllStrange, Answered, Outcome
  <2>8. Shut'
    BY <1>1, <2>1 DEF Shut
  <2>9. EndsWithContext'
    BY <1>1, <2>1 DEF EndsWithContext, CtxTime
  <2> QED
    BY <2>3, <2>4, <2>5, <2>6, <2>7, <2>8, <2>9 DEF IInv
<1>4. CASE attempt = Retries /\ Fail("timeout")
  <2>1. ~ faulty => sent = (IF Second THEN Retries + 1 ELSE 0) + Retries + 1
    BY <1>1, <1>4 DEF Counted
  <2>2. CASE op = "read" \/ CtxOver
    <3>1. Return("timeout")
      BY <1>4, <2>2 DEF Fail
    <3>2. ASSUME main = "up", ~ faulty, caller # "handler"
          PROVE  May("timeout")
      <4>1. now < LoadTime
        BY <3>2, NotLate
      <4>2. op = "read"
        BY <1>2, <2>2, <3>2, <4>1, Constants DEF CtxOver, CtxTime
      <4>3. sent = 2 * (Retries + 1)
        BY <2>1, <3>2, <4>2, Constants DEF Second
      <4> QED
        BY <4>2, <4>3 DEF May
    <3> QED
      BY <3>1, <3>2, ReturnKeeps
  <2>3. CASE ~ (op = "read" \/ CtxOver)
    <3>1. op = "whois" /\ caller # "handler"
      BY <1>1, <2>3 DEF Types
    <3>2. ~ Second /\ Before = 0
      BY <3>1 DEF Second, Before
    <3>3. now <= Delay + Span(Retries + 1) /\ (~ faulty => sent = Retries + 1)
      BY <1>2, <1>4, <2>1, <3>2, Constants
    <3> QED
      BY <1>2, <1>4, <2>3, <3>1, <3>3, GoesOn DEF Fail
  <2> QED
    BY <2>2, <2>3
<1> QED
  BY <1>2, <1>3, <1>4, Constants DEF Again

\* What comes from the network, or from other devices, keeps the invariant.
LEMMA ChanKeeps ==
  ASSUME IInv, chan' \in Seq(BOOLEAN), replied' \in BOOLEAN,
         device = "silent" => replied' = FALSE /\ AllStrange(chan'),
         UNCHANGED << world, now, op, pc, attempt, sent, due, outcome, main,
                      since >>
  PROVE  IInv'
<1>1. Types'
  BY DEF IInv, Types
<1>2. InTime' /\ Spaced'
  BY DEF IInv, InTime, Spaced, Before, Second, Span
<1>3. Counted' /\ Answered' /\ Outcome' /\ Shut'
  BY DEF IInv, Counted, Second, Answered, Outcome, May, Shut
<1>4. Quiet'
  BY DEF Quiet, AllStrange
<1>5. EndsWithContext'
  BY DEF IInv, EndsWithContext, CtxTime
<1> QED
  BY <1>1, <1>2, <1>3, <1>4, <1>5 DEF IInv

\* What main does keeps the invariant: when Shutdown returns, the grace period
\* has outlasted any handler's context and name resolution.
LEMMA MainKeeps ==
  ASSUME IInv, Signal \/ ListenError \/ ShutdownReturns \/ ServerClose \/ Exit
  PROVE  IInv'
<1>1. /\ UNCHANGED << world, now, op, pc, attempt, sent, due, chan, strangers,
                      replied, outcome >>
      /\ main' \in {"draining", "closing", "closed", "exited"}
  BY DEF Signal, ListenError, ShutdownReturns, ServerClose, Exit, request
<1>2. /\ Types /\ InTime /\ Spaced /\ Counted /\ Quiet /\ Answered /\ Shut
      /\ EndsWithContext
  BY DEF IInv
<1>3. since' \in Int
  BY <1>2 DEF Types, Signal, ListenError, ShutdownReturns, ServerClose, Exit
<1>4. Types'
  BY <1>1, <1>2, <1>3 DEF Types
<1>5. InTime' /\ Spaced'
  BY <1>1, <1>2 DEF InTime, Spaced, Before, Second, Span
<1>6. Counted' /\ Answered' /\ Outcome' /\ Quiet'
  BY <1>1, <1>2 DEF Counted, Second, Answered, Outcome, Quiet, AllStrange
<1>7. EndsWithContext'
  BY <1>1, <1>2 DEF EndsWithContext, CtxTime
<1>8. Shut'
  <2>1. now \in Nat /\ since \in Int
    BY <1>2 DEF Types
  <2>2. CASE Signal
    BY <1>1, <2>1, <2>2 DEF Signal, Shut
  <2>3. CASE ListenError
    BY <1>1, <1>2, <2>3 DEF ListenError, Shut
  <2>4. CASE ShutdownReturns
    <3>1. main = "draining" /\ since >= 0 /\ since' = since /\ main' = "closing"
      BY <1>2, <2>4 DEF ShutdownReturns, Shut
    <3>2. ASSUME caller = "handler"
          PROVE  pc = "done"
      <4>1. now < Grace
        BY <1>2, <2>1, <3>2, Constants DEF EndsWithContext, CtxTime
      <4>2. pc # "done" => since < Grace
        BY <1>2, <2>1, <3>1, <3>2, <4>1, Constants DEF Shut
      <4> QED
        BY <2>4, <3>2, <4>2, <2>1, Constants DEF ShutdownReturns, Drained
    <3> QED
      BY <1>1, <3>1, <3>2 DEF Shut
  <2>5. CASE ServerClose \/ Exit
    BY <1>1, <1>2, <2>5 DEF ServerClose, Exit, Shut
  <2> QED
    BY <2>2, <2>3, <2>4, <2>5
<1> QED
  BY <1>4, <1>5, <1>6, <1>7, <1>8 DEF IInv

\* The end of the other handlers keeps the invariant.
LEMMA OthersKeeps ==
  ASSUME IInv, OthersEnd
  PROVE  IInv'
<1>1. /\ UNCHANGED << caller, device, faulty, now, op, pc, attempt, sent, due, chan,
                      strangers, replied, outcome, main, since >>
      /\ others' \in BOOLEAN
  BY DEF OthersEnd
<1>2. Types' /\ InTime' /\ Spaced'
  BY <1>1 DEF IInv, Types, InTime, Spaced, Before, Second, Span
<1>3. Counted' /\ Quiet' /\ Answered' /\ Outcome'
  BY <1>1 DEF IInv, Counted, Second, Quiet, AllStrange, Answered, Outcome, May
<1>4. Shut' /\ EndsWithContext'
  BY <1>1 DEF IInv, Shut, EndsWithContext, CtxTime
<1> QED
  BY <1>2, <1>3, <1>4 DEF IInv

\* Time passes only as far as the timers let it.
LEMMA TickKeeps ==
  ASSUME IInv, Tick
  PROVE  IInv'
<1>1. /\ UNCHANGED << world, op, pc, attempt, sent, due, chan, strangers,
                      replied, outcome, main >>
      /\ since' \in {since, since + 1} /\ (since = -1 => since' = -1)
  BY DEF Tick
<1>2. /\ Types /\ InTime /\ Spaced /\ Counted /\ Quiet /\ Answered /\ Outcome /\ Shut
      /\ EndsWithContext
  BY DEF IInv
<1>3. now \in Nat /\ due \in Nat /\ sent \in Nat /\ attempt \in 0 .. Retries
      /\ since \in Int
  BY <1>2 DEF Types
<1>4. \/ /\ now' = now + 1 /\ now < due
         /\ pc = "resolve" \/ (pc = "wait" /\ ~ CtxOver /\ ~ MustReply)
         /\ pc = "wait" /\ op = "read" => ~ replied
      \/ now' = now /\ pc \in {"idle", "done"} /\ main = "draining"
  BY <1>3 DEF Tick, Passing, Woken
<1>5. Second' = Second /\ Before' = Before
  BY <1>1 DEF Second, Before, Span
<1>6. Types'
  BY <1>1, <1>2, <1>3, <1>4 DEF Types
<1>7. InTime'
  BY <1>1, <1>2, <1>3, <1>4, <1>5 DEF InTime, Span
<1>8. Spaced'
  <2>1. Span(sent) \in Nat
    BY <1>3, SpanSteps
  <2>2. Span(sent)' = Span(sent)
    BY <1>1 DEF Span
  <2> QED
    BY <1>1, <1>2, <1>3, <1>4, <2>1, <2>2, Constants DEF Spaced
<1>9. Counted' /\ Quiet' /\ Outcome' /\ Shut'
  <2>1. Counted' /\ Quiet' /\ Outcome'
    BY <1>1, <1>2, <1>5 DEF Counted, Quiet, AllStrange, Outcome, May
  <2>2. Shut'
    BY <1>1, <1>2, <1>3, <1>4 DEF Shut, Types
  <2> QED
    BY <2>1, <2>2
<1>10. Answered'
  BY <1>1, <1>3, <1>4 DEF Answered, MustReply
<1>11. EndsWithContext'
  <2>1. CtxTime' = CtxTime
    BY <1>1 DEF CtxTime
  <2>2. CASE pc = "wait"
    BY <1>1, <1>3, <1>4, <2>1, <2>2, Constants DEF EndsWithContext, CtxOver, CtxTime
  <2>3. CASE pc = "resolve" /\ ~ Second
    BY <1>1, <1>2, <1>3, <1>4, <2>3, Constants DEF EndsWithContext, InTime, Before
  <2>4. CASE pc = "resolve" /\ Second
    <3>1. now < LoadTime
      BY <2>4, NotLate DEF Second
    <3> QED
      BY <1>3, <1>4, <2>1, <2>4, <3>1, Constants DEF EndsWithContext, CtxTime, Second
  <2>5. CASE now' = now
    BY <1>2, <2>1, <2>5 DEF EndsWithContext
  <2> QED
    BY <1>4, <2>2, <2>3, <2>4, <2>5
<1> QED
  BY <1>6, <1>7, <1>8, <1>9, <1>10, <1>11 DEF IInv

\* Beginning, resolving the address and transmitting keep the invariant.
LEMMA SendKeeps ==
  ASSUME IInv, Begin \/ Resolve \/ Send
  PROVE  IInv'
<1>1. /\ UNCHANGED << world, now, op, attempt, chan, strangers, replied,
                      outcome, main, since >>
      /\ main # "exited"
  BY DEF Begin, Resolve, Send, At, Running
<1>2. /\ Types /\ InTime /\ Spaced /\ Counted /\ Quiet /\ Answered /\ Outcome /\ Shut
      /\ EndsWithContext
  BY DEF IInv
<1>3. now \in Nat /\ due \in Nat /\ sent \in Nat /\ attempt \in Nat
  BY <1>2, Constants DEF Types
<1>4. Second' = Second /\ Before' = Before
  BY <1>1 DEF Second, Before, Span
<1>5. Before \in Nat /\ Span(attempt) \in Nat /\ Span(sent) \in Nat
      /\ Span(sent + 1) = Span(sent) + Timeout /\ Span(attempt + 1) = Span(attempt) + Timeout
      /\ Span(attempt)' = Span(attempt) /\ Span(attempt + 1)' = Span(attempt + 1)
  <2>1. Span(Retries + 1) \in Nat
    <3>1. Retries + 1 \in Nat
      BY Constants
    <3> QED
      BY <3>1, SpanSteps
  <2>2. Before \in Nat
    BY <2>1, Constants DEF Before
  <2>3. Span(attempt)' = Span(attempt) /\ Span(attempt + 1)' = Span(attempt + 1)
    BY <1>1 DEF Span
  <2> QED
    BY <1>3, <2>2, <2>3, SpanSteps
<1>6. Quiet' /\ EndsWithContext'
  BY <1>1, <1>2 DEF Quiet, AllStrange, EndsWithContext, CtxTime
<1>9. CASE Begin
  <2>1. pc = "idle" /\ pc' = "resolve" /\ sent' = sent /\ due' = due
    BY <1>9 DEF Begin, At
  <2>2. Types'
    BY <1>1, <1>2, <2>1 DEF Types
  <2>3. InTime' /\ Spaced'
    BY <1>1, <1>2, <1>4, <2>1 DEF InTime, Spaced, Span
  <2>4. Counted' /\ Answered' /\ Outcome'
    BY <1>1, <1>2, <1>4, <2>1 DEF Counted, Answered, Outcome
  <2>5. Shut'
    BY <1>1, <1>2, <2>1 DEF Shut
  <2> QED
    BY <1>6, <2>2, <2>3, <2>4, <2>5 DEF IInv
<1>7. CASE Resolve
  <2>1. pc = "resolve" /\ pc' = "send" /\ sent' = sent /\ due' = due
    BY <1>7 DEF Resolve, At
  <2>2. Types'
    BY <1>1, <1>2, <2>1 DEF Types
  <2>3. InTime'
    BY <1>1, <1>2, <1>3, <1>4, <1>5, <2>1, Constants DEF InTime
  <2>4. Spaced'
    BY <1>1, <1>2, <2>1 DEF Spaced, Span
  <2>5. Counted' /\ Answered' /\ Outcome' /\ Shut'
    BY <1>1, <1>2, <1>4, <2>1 DEF Counted, Answered, Outcome, Shut
  <2> QED
    BY <1>6, <2>2, <2>3, <2>4, <2>5 DEF IInv
<1>8. CASE Send
  <2>1. pc = "send" /\ pc' = "wait" /\ sent' = sent + 1 /\ due' = now + Timeout
    BY <1>8 DEF Send, At
  <2>2. Types'
    BY <1>1, <1>2, <1>3, <2>1, Constants DEF Types
  <2>3. InTime'
    BY <1>1, <1>2, <1>3, <1>4, <1>5, <2>1, Constants DEF InTime
  <2>4. Spaced'
    <3>1. Span(sent)' = Span(sent) + Timeout
      BY <1>5, <2>1 DEF Span
    <3> QED
      BY <1>1, <1>2, <1>3, <1>5, <2>1, <3>1, Constants DEF Spaced
  <2>5. Counted'
    BY <1>1, <1>2, <1>3, <1>4, <2>1, Constants DEF Counted
  <2>6. Answered' /\ Outcome' /\ Shut'
    BY <1>1, <1>2, <1>3, <2>1, Constants DEF Answered, Outcome, Shut
  <2> QED
    BY <1>6, <2>2, <2>3, <2>4, <2>5, <2>6 DEF IInv
<1> QED
  BY <1>7, <1>8, <1>9

\* Whatever a waiting or failing request does next keeps the invariant.
LEMMA WaitKeeps ==
  ASSUME IInv, ResolveFails \/ SendFails \/ TakeReply \/ TakeIAm \/ TimerFires \/ CtxDone
  PROVE  IInv'
<1>1. /\ Types /\ Quiet /\ Answered
      /\ chan \in Seq(BOOLEAN) /\ (device = "silent" => AllStrange(chan))
      /\ now \in Nat /\ due \in Nat
  BY DEF IInv, Types, Quiet
<1>2. CASE ResolveFails \/ SendFails
  <2>1. /\ pc \in {"resolve", "send"} /\ Fail("send") /\ chan' = chan
        /\ faulty \/ main = "closed"
    BY <1>2 DEF ResolveFails, SendFails, At
  <2>2. CASE op = "read" \/ CtxOver
    <3>1. Return("send")
      BY <2>1, <2>2 DEF Fail
    <3> QED
      BY <1>1, <2>1, <3>1, ReturnKeeps
  <2>3. CASE ~ (op = "read" \/ CtxOver)
    <3>1. op = "whois" /\ caller # "handler" /\ faulty
      BY <1>1, <2>1, <2>3 DEF Types, CtxOver
    <3>2. now <= Delay + Span(Retries + 1)
      <4>1. attempt \in 0 .. Retries /\ ~ Second /\ Before = 0
        BY <3>1 DEF IInv, Types, Second, Before
      <4>2. /\ Span(attempt) \in Nat /\ Span(Retries + 1) \in Nat
            /\ Span(attempt) <= Span(Retries + 1)
        <5>1. attempt \in Nat /\ Retries + 1 \in Nat /\ attempt <= Retries + 1
          BY <4>1, Constants
        <5> QED
          BY <5>1, SpanSteps, SpanMonotone
      <4> QED
        BY <1>1, <2>1, <4>1, <4>2, Constants DEF IInv, InTime
    <3>3. Span(sent) <= now
      BY <2>1 DEF IInv, Spaced
    <3> QED
      BY <1>1, <2>1, <2>3, <3>1, <3>2, <3>3, GoesOn DEF Fail
  <2> QED
    BY <2>2, <2>3
<1>3. CASE TakeReply
  <2>1. device # "silent" /\ Return("reply") /\ chan' = chan
    BY <1>1, <1>3 DEF TakeReply, Quiet
  <2>2. May("reply")
    BY <2>1 DEF May
  <2> QED
    BY <1>1, <2>1, <2>2, ReturnKeeps
<1>4. CASE TimerFires
  <2>1. pc = "wait" /\ now >= due /\ Again("timeout") /\ chan' = chan
    BY <1>4 DEF TimerFires, At
  <2>2. ~ (device = "prompt" /\ op = "read")
    BY <1>1, <2>1 DEF Answered
  <2> QED
    BY <1>1, <2>1, <2>2, AgainKeeps
<1>5. CASE CtxDone
  <2>1. pc = "wait" /\ CtxOver /\ Return("ctx") /\ chan' = chan
    BY <1>5 DEF CtxDone, At
  <2>2. ~ (main = "up" /\ ~ faulty /\ caller # "handler")
    BY <1>1, <2>1, NotLate, Constants DEF CtxOver, CtxTime
  <2> QED
    BY <1>1, <2>1, <2>2, ReturnKeeps
<1>6. CASE TakeIAm
  <2>1. /\ pc = "wait" /\ op = "whois" /\ chan # << >> /\ chan' = Tail(chan)
        /\ IF Head(chan) THEN Return("reply") ELSE OtherIAm
    BY <1>6 DEF TakeIAm, At
  <2>2. /\ chan' \in Seq(BOOLEAN)
        /\ device = "silent" => AllStrange(chan') /\ Head(chan) = FALSE
    <3>1. chan' \in Seq(BOOLEAN)
      BY <1>1, <2>1, ChanType
    <3>2. CASE device = "silent"
      BY <1>1, <2>1, <3>1, <3>2, Strange
    <3> QED
      BY <3>1, <3>2
  <2>3. CASE Head(chan)
    <3>1. device # "silent" /\ Return("reply")
      BY <2>1, <2>2, <2>3
    <3>2. May("reply")
      BY <3>1 DEF May
    <3> QED
      BY <2>2, <3>1, <3>2, ReturnKeeps
  <2>4. CASE ~ Head(chan) /\ now >= due
    <3>1. Again("timeout")
      BY <2>1, <2>4 DEF OtherIAm
    <3> QED
      BY <2>1, <2>2, <2>4, <3>1, AgainKeeps
  <2>5. CASE ~ Head(chan) /\ ~ (now >= due)
    <3>1. UNCHANGED << world, now, op, pc, attempt, sent, due, strangers,
                       replied, outcome, main, since >>
      BY <2>1, <2>5 DEF OtherIAm
    <3>2. replied' \in BOOLEAN /\ (device = "silent" => replied' = FALSE)
      BY <1>1, <3>1 DEF Types, Quiet
    <3> QED
      BY <2>2, <3>1, <3>2, ChanKeeps
  <2> QED
    BY <2>3, <2>4, <2>5
<1> QED
  BY <1>2, <1>3, <1>4, <1>5, <1>6

\* Datagrams keep the invariant: none comes from a silent device.
LEMMA NetworkKeeps ==
  ASSUME IInv, IAm \/ StrangerIAm \/ Reply
  PROVE  IInv'
<1>1. /\ chan \in Seq(BOOLEAN) /\ replied \in BOOLEAN
      /\ device = "silent" => replied = FALSE /\ AllStrange(chan)
  BY DEF IInv, Types, Quiet
<1>2. CASE IAm
  <2>1. device # "silent" /\ chan' \in {chan, Append(chan, TRUE)}
    BY <1>2 DEF IAm, Offer
  <2>3. chan' \in Seq(BOOLEAN)
    BY <1>1, <2>1, ChanType
  <2>2. UNCHANGED << world, now, op, pc, attempt, sent, due, strangers,
                     replied, outcome, main, since >>
    BY <1>2 DEF IAm
  <2> QED
    BY <1>1, <2>1, <2>2, <2>3, ChanKeeps
<1>3. CASE StrangerIAm
  <2>1. chan' = chan \/ chan' = Append(chan, FALSE)
    BY <1>3 DEF StrangerIAm, Offer
  <2>2. chan' \in Seq(BOOLEAN) /\ (device = "silent" => AllStrange(chan'))
    <3>1. chan' \in Seq(BOOLEAN)
      BY <1>1, <2>1, ChanType
    <3>2. CASE device = "silent"
      BY <1>1, <2>1, <3>2, Strange
    <3> QED
      BY <3>1, <3>2
  <2>3. UNCHANGED << world, now, op, pc, attempt, sent, due, replied,
                     outcome, main, since >>
    BY <1>3 DEF StrangerIAm
  <2> QED
    BY <1>1, <2>2, <2>3, ChanKeeps
<1>4. CASE Reply
  <2>1. device # "silent" /\ replied' \in BOOLEAN /\ chan' = chan
    BY <1>4 DEF Reply
  <2>2. UNCHANGED << world, now, op, pc, attempt, sent, due, strangers,
                     outcome, main, since >>
    BY <1>4 DEF Reply
  <2> QED
    BY <1>1, <2>1, <2>2, ChanKeeps
<1> QED
  BY <1>2, <1>3, <1>4

\* Every step of the request, the network, the clock and main keeps the
\* invariant.
LEMMA IInvNext == IInv /\ [Next]_vars => IInv'
<1> SUFFICES ASSUME IInv, [Next]_vars
             PROVE  IInv'
  OBVIOUS
<1>1. CASE UNCHANGED vars
  <2>1. /\ chan \in Seq(BOOLEAN) /\ replied \in BOOLEAN
        /\ device = "silent" => replied = FALSE /\ AllStrange(chan)
    BY DEF IInv, Types, Quiet
  <2>2. UNCHANGED << world, now, op, pc, attempt, sent, due, chan, replied,
                     outcome, main, since >>
    BY <1>1 DEF vars, request
  <2> QED
    BY <2>1, <2>2, ChanKeeps
<1>2. CASE Next
  BY <1>2, SendKeeps, WaitKeeps, NetworkKeeps, MainKeeps, OthersKeeps,
     TickKeeps
  DEF Next, Goroutines
<1> QED
  BY <1>1, <1>2

-----------------------------------------------------------------------------
(* Shutdown in time                                                        *)

\* What is left of a name resolution, and of the time after the signal.
Leaving ==
  /\ pc \in {"idle", "resolve"} => due <= now + Delay
  /\ main = "draining" => since <= Grace
  /\ main = "closing" /\ pc = "idle" => since <= Grace
  /\ main = "closing" /\ pc = "resolve" => since + (due - now) <= Grace + Delay
  /\ since <= Grace + Delay

\* What a waiting or failing request does next begins no name resolution once
\* the cache is closed.
LEMMA LeavingAfter ==
  ASSUME IInv, Leaving, NEW o \in {"reply", "timeout", "ctx", "send"},
         Return(o) \/ Fail(o) \/ Again(o)
  PROVE  Leaving'
<1>1. now \in Nat /\ due \in Nat /\ since \in Int /\ (op = "whois" => caller # "handler")
      /\ op \in {"whois", "read"}
  BY DEF IInv, Types
<1>2. CASE Return(o)
  BY <1>2 DEF Return, Leaving
<1>3. CASE Fail(o)
  <2>1. CASE op = "read" \/ CtxOver
    BY <1>2, <1>3, <2>1 DEF Fail
  <2>2. CASE ~ (op = "read" \/ CtxOver)
    <3>1. main # "closing"
      BY <1>1, <2>2 DEF CtxOver
    <3> QED
      BY <1>1, <1>3, <2>2, <3>1, Constants DEF Fail, Leaving
  <2> QED
    BY <2>1, <2>2
<1>4. CASE Again(o)
  <2>1. CASE attempt < Retries
    BY <1>4, <2>1 DEF Again, Leaving
  <2> QED
    BY <1>3, <1>4, <2>1 DEF Again
<1> QED
  BY <1>2, <1>3, <1>4

\* No step of the caller, of the network or of main lets the exit come later.
LEMMA LeavingStep ==
  ASSUME IInv, Leaving, Next, ~ Tick
  PROVE  Leaving'
<1>1. now \in Nat /\ due \in Nat /\ since \in Int /\ (main = "up" => since = -1)
  BY DEF IInv, Types, Shut
<1>2. CASE Begin \/ Resolve \/ Send
  BY <1>1, <1>2, Constants DEF Begin, Resolve, Send, At, Leaving
<1>3. CASE ResolveFails \/ SendFails \/ TakeReply \/ TimerFires \/ CtxDone
  BY <1>3, LeavingAfter DEF ResolveFails, SendFails, TakeReply, TimerFires, CtxDone
<1>4. CASE TakeIAm
  <2>1. CASE Return("reply") \/ Again("timeout")
    BY <2>1, LeavingAfter
  <2>2. CASE UNCHANGED << now, pc, due, main, since >>
    BY <2>2 DEF Leaving
  <2> QED
    BY <1>4, <2>1, <2>2 DEF TakeIAm, OtherIAm
<1>5. CASE IAm \/ StrangerIAm \/ Reply \/ OthersEnd
  <2>1. UNCHANGED << now, pc, due, main, since >>
    BY <1>5 DEF IAm, StrangerIAm, Reply, OthersEnd
  <2> QED
    BY <2>1 DEF Leaving
<1>6. CASE Signal \/ ListenError \/ ShutdownReturns \/ ServerClose \/ Exit
  <2>1. UNCHANGED << now, pc, due >>
    BY <1>6 DEF Signal, ListenError, ShutdownReturns, ServerClose, Exit, request
  <2>2. /\ since' = since \/ (since' = 0 /\ main' = "draining")
        /\ main' = "closing" => main \in {"up", "draining"} /\ since' = since
        /\ main' = "draining" => since' = 0
    BY <1>6 DEF Signal, ListenError, ShutdownReturns, ServerClose, Exit
  <2> QED
    BY <1>1, <2>1, <2>2, Constants DEF Leaving
<1> QED
  BY <1>2, <1>3, <1>4, <1>5, <1>6 DEF Next, Goroutines

\* Time passes after the signal only up to the grace period, and then only in a
\* name resolution.
LEMMA LeavingTick ==
  ASSUME IInv, Leaving, Tick
  PROVE  Leaving'
<1>1. /\ now \in Nat /\ due \in Nat /\ since \in Int /\ (main = "up" => since = -1)
      /\ op \in {"whois", "read"}
  BY DEF IInv, Types, Shut
<1>2. /\ pc' = pc /\ due' = due /\ main' = main
      /\ now' = now \/ now' = now + 1
      /\ since' = since \/ since' = since + 1
      /\ since = -1 => since' = -1
      /\ main \in {"up", "draining", "closing"}
  BY DEF Tick
<1>3. CASE main = "up"
  BY <1>1, <1>2, <1>3, Constants DEF Leaving
<1>4. CASE main = "draining"
  <2>1. since < Grace
    BY <1>1, <1>4, Constants DEF Tick, Drained
  <2> QED
    BY <1>1, <1>2, <1>4, <2>1, Constants DEF Leaving
<1>5. CASE main = "closing"
  <2>1. caller = "refresh" /\ pc = "resolve" /\ now < due /\ now' = now + 1
    BY <1>5 DEF Tick, CacheClosed, Passing, Woken, CtxOver
  <2> QED
    BY <1>1, <1>2, <1>5, <2>1, Constants DEF Leaving
<1> QED
  BY <1>2, <1>3, <1>4, <1>5

-----------------------------------------------------------------------------
(* What follows                                                            *)

\* Every reachable state satisfies the invariant.
LEMMA Invariance == Spec => []IInv
BY IInvInit, IInvNext, PTL DEF Spec

\* A request ends when its caller's context does, or when the name resolution
\* that does not look at it ends, for any number of retries and I-Ams
\* (doConfirmedRequest, WhoIs, DeviceInstance).
THEOREM RequestEndsWithContext == Spec => []EndsWithContext
<1>1. IInv => EndsWithContext
  BY DEF IInv
<1> QED
  BY <1>1, Invariance, PTL

\* Transmissions are at least a timeout apart, across attempts and from Who-Is to
\* the read after it, whatever arrives meanwhile.
THEOREM TransmissionsPaced == Spec => []Paced
<1>1. IInv => Paced
  <2> SUFFICES ASSUME IInv
               PROVE  Paced
    OBVIOUS
  <2>1. now \in Nat /\ sent \in Nat /\ Span(sent) <= now + Timeout
    BY DEF IInv, Types, Spaced
  <2> QED
    BY <2>1, Room DEF Paced
<1> QED
  BY <1>1, Invariance, PTL

\* While the proxy is up, the enumeration of a silent device is answered with 504,
\* after all retransmissions of Who-Is and of the read (writeBACnetError).
THEOREM SilenceTimesOut == Spec => []SilenceIs504
<1>1. IInv => SilenceIs504
  <2> SUFFICES ASSUME IInv, main = "up", ~ faulty, caller # "handler",
                      device = "silent", outcome # "none"
               PROVE  Status(outcome) = 504 /\ RetriesBeforeGivingUp
    BY DEF SilenceIs504
  <2>1. pc = "done"
    BY DEF IInv, Types
  <2>2. outcome = "timeout" /\ sent = 2 * (Retries + 1)
    BY <2>1 DEF IInv, Outcome, May
  <2>3. Requests = 2
    BY DEF Requests
  <2> QED
    BY <2>2, <2>3 DEF Status, RetriesBeforeGivingUp
<1> QED
  BY <1>1, Invariance, PTL

\* While the proxy is up, a device that answers reads is identified although its
\* I-Am may never come (DeviceInstance's fallback).
THEOREM PromptIdentified == Spec => []FallbackIdentifies
<1>1. IInv => FallbackIdentifies
  BY DEF IInv, Types, Outcome, May, FallbackIdentifies
<1> QED
  BY <1>1, Invariance, PTL

\* After a signal the socket is closed only once a handler's read or write has
\* ended (Shutdown, then the deferred Close calls of main).
THEOREM HandlersDrained == Spec => []DrainedBeforeClose
<1>1. IInv => DrainedBeforeClose
  BY DEF IInv, Shut, DrainedBeforeClose
<1> QED
  BY <1>1, Invariance, PTL

\* After a signal neither handlers, which may use up the grace period, nor the
\* refresher, which may then be resolving a name, keep the process longer than the
\* grace period and that one resolution (Shutdown, varCache.close): time does not
\* go on past their sum, whatever else is under way.
THEOREM ShutdownInTime == Spec => [](since <= Grace + Delay)
<1>1. Init => Leaving
  <2> SUFFICES ASSUME Init
               PROVE  Leaving
    OBVIOUS
  <2>1. now = 0 /\ due = Delay /\ since = -1 /\ main = "up"
    BY DEF Init
  <2> QED
    BY <2>1, Constants DEF Leaving
<1>2. IInv /\ Leaving /\ [Next]_vars => Leaving'
  <2> SUFFICES ASSUME IInv, Leaving, [Next]_vars
               PROVE  Leaving'
    OBVIOUS
  <2>1. CASE UNCHANGED vars
    BY <2>1 DEF vars, request, Leaving
  <2>2. CASE Next /\ ~ Tick
    BY <2>2, LeavingStep
  <2>3. CASE Tick
    BY <2>3, LeavingTick
  <2> QED
    BY <2>1, <2>2, <2>3
<1>3. Leaving => since <= Grace + Delay
  BY DEF Leaving
<1> QED
  BY <1>1, <1>2, <1>3, Invariance, PTL DEF Spec
=============================================================================
