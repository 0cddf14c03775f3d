-------------------------- MODULE ConfirmedService --------------------------
(***************************************************************************)
(* What the callers of a BACnet client may rely on, without sockets,       *)
(* invoke IDs, timers or retransmissions: a call of ReadProperty,          *)
(* ReadPropertyMultiple or WriteProperty (internal/bacnet/client.go)       *)
(* returns, and what it returns is its own.  A write that was given up may *)
(* still be carried out, at any time; one that succeeded has been.         *)
(***************************************************************************)
EXTENDS Naturals

CONSTANTS Callers, Calls, Writes, Failures, Limit

VARIABLES
  issued,     \* operations asked for so far, as a bound of their numbers
  current,    \* each caller's operation: its number and what is asked
  busy,       \* the callers that wait for theirs
  answer,     \* what its last call returned, and of which operation
  carried,    \* the writes carried out
  up          \* the process runs

vars == << issued, current, busy, answer, carried, up >>

Init ==
  /\ issued = 0
  /\ \E k \in Calls : current = [c \in Callers |-> [op |-> 0, asks |-> k]]
  /\ busy = {}
  /\ answer = [c \in Callers |-> [outcome |-> "none", op |-> 0]]
  /\ carried = {}
  /\ up = TRUE

\* Every operation has a number of its own.
Ask(c) ==
  /\ up /\ c \notin busy
  /\ \E n \in issued .. Limit - 1, k \in Calls :
       /\ issued' = n + 1
       /\ current' = [current EXCEPT ![c] = [op |-> n, asks |-> k]]
  /\ busy' = busy \cup {c}
  /\ UNCHANGED << answer, carried, up >>

Refuse(c) ==
  /\ up /\ c \notin busy
  /\ answer' = [answer EXCEPT ![c] = [outcome |-> "full", op |-> issued]]
  /\ UNCHANGED << issued, current, busy, carried, up >>

\* Success is the operation's own, and a successful write is carried out.
Return(c) ==
  /\ up /\ c \in busy
  /\ \E o \in Failures \cup {"ok"} :
       /\ o = "ok" /\ current[c].asks \in Writes => current[c].op \in carried
       /\ answer' = [answer EXCEPT ![c] = [outcome |-> o, op |-> current[c].op]]
  /\ busy' = busy \ {c}
  /\ UNCHANGED << issued, current, carried, up >>

Carry ==
  /\ up
  /\ \E n \in 0 .. issued - 1 : carried' = carried \cup {n}
  /\ UNCHANGED << issued, current, busy, answer, up >>

Crash ==
  /\ up
  /\ up' = FALSE
  /\ UNCHANGED << issued, current, busy, answer, carried >>

Next == (\E c \in Callers : Ask(c) \/ Refuse(c) \/ Return(c)) \/ Carry \/ Crash

Spec == Init /\ [][Next]_vars /\ \A c \in Callers : WF_vars(Return(c))
=============================================================================
