------------------------------ MODULE AuthzEval ------------------------------
(***************************************************************************)
(* The loop of authz.evaluate: one step per rule, from the first to the    *)
(* last or to a decisive one, overwriting a provisional result; and the    *)
(* trace Explain collects for debugging on the way.                        *)
(***************************************************************************)
EXTENDS Authz

CONSTANTS
  RuleLists,   \* configured rule lists to evaluate
  Inputs       \* requests to evaluate them for

ASSUME EvalAssumption ==
  /\ RuleLists \subseteq Seq(Rules)
  /\ Inputs \subseteq Requests

VARIABLES
  rules,    \* the configured rules
  req,      \* the request
  i,        \* the rule looked at next
  result,   \* the provisional result
  trace,    \* for each rule looked at, whether it applied
  running   \* the loop has not ended

vars == <<rules, req, i, result, trace, running>>

Init ==
  /\ rules \in RuleLists
  /\ req \in Inputs
  /\ i = 1
  /\ result = Result(rules, 0)
  /\ trace = << >>
  /\ running = TRUE

\* Lines 76-79: the rule does not apply.
Skip ==
  /\ running
  /\ i <= Len(rules)
  /\ ~ Applies(rules[i], req)
  /\ trace' = Append(trace, FALSE)
  /\ i' = i + 1
  /\ UNCHANGED <<rules, req, result, running>>

\* Mutant of Overwrite: the first rule to deny keeps its verdict.
OverwriteUnlessDenied ==
  /\ running
  /\ i <= Len(rules)
  /\ Applies(rules[i], req)
  /\ result' = IF result.rule # 0 /\ ~ result.allowed THEN result
                                                      ELSE Result(rules, i)
  /\ trace' = Append(trace, TRUE)
  /\ running' = ~ isNow(rules[i].action)
  /\ i' = i + 1
  /\ UNCHANGED <<rules, req>>

\* Mutant of Overwrite: a "-now" rule ends the loop before it is traced.
OverwriteUntraced ==
  /\ running
  /\ i <= Len(rules)
  /\ Applies(rules[i], req)
  /\ result' = Result(rules, i)
  /\ trace' = IF isNow(rules[i].action) THEN trace ELSE Append(trace, TRUE)
  /\ running' = ~ isNow(rules[i].action)
  /\ i' = i + 1
  /\ UNCHANGED <<rules, req>>

\* Lines 80-87: it applies, and ends the loop if its action says "now".
Overwrite ==
  /\ running
  /\ i <= Len(rules)
  /\ Applies(rules[i], req)
  /\ result' = Result(rules, i)
  /\ trace' = Append(trace, TRUE)
  /\ running' = ~ isNow(rules[i].action)
  /\ i' = i + 1
  /\ UNCHANGED <<rules, req>>

\* Line 89: all rules have been looked at.
Finish ==
  /\ running
  /\ i > Len(rules)
  /\ running' = FALSE
  /\ UNCHANGED <<rules, req, i, result, trace>>

Next == Skip \/ Overwrite \/ Finish

Spec == Init /\ [][Next]_vars
-----------------------------------------------------------------------------
(* Properties *)

\* The type of the state.
TypeOK ==
  /\ rules \in Seq(Rules)
  /\ req \in Requests
  /\ i \in 1 .. Len(rules) + 1
  /\ result \in {Result(rules, k) : k \in 0 .. Len(rules)}
  /\ trace \in Seq(BOOLEAN)
  /\ running \in BOOLEAN

\* "an "-now" action stops evaluation immediately; otherwise all rules are
\* checked and the last matching rule's result wins" (Evaluate, lines 39-43):
\* what the loop ends with is what the rules decide by that description.
ComputesEvaluate == ~ running => result = Evaluate(req, rules)

\* Explain returns "a trace of every rule it looked at (rules after a decisive
\* -now rule aren't)" (lines 65-66): the trace is exact, and it shows which
\* rule decided.
TraceExplains ==
  ~ running =>
    /\ Len(trace) = i - 1
    /\ \A k \in 1 .. Len(trace) : trace[k] <=> Applies(rules[k], req)
    /\ result.rule # 0 => trace[result.rule]
    /\ \A k \in 1 .. Len(trace) : trace[k] => k <= result.rule

\* needsObjectName (internal/api/handlers.go:53): without a variable condition
\* the verdict is the same for every object and for none, so nothing need be
\* enumerated to reach it.
NameIrrelevant ==
  ~ UsesCondition(rules, "variable") =>
    \A n \in SUBSET Values :
      Evaluate([req EXCEPT !.object = n], rules) = Evaluate(req, rules)
=============================================================================
