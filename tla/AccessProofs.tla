---------------------------- MODULE AccessProofs ----------------------------
(***************************************************************************)
(* Proofs about authz.evaluate, for rule lists of every length: the loop   *)
(* computes what the rules decide, its trace is exact, and object names    *)
(* matter only to rules with a variable condition.  And about the way from *)
(* any configuration file and any request to a verdict: only those whom    *)
(* the file trusts pass for somebody, headers of others change nothing,    *)
(* and nothing is allowed without a permission.                            *)
(***************************************************************************)
EXTENDS Access, TLAPS

\* Applies is a Boolean, so a trace of it is one too.
LEMMA AppliesBoolean ==
  ASSUME NEW r, NEW q
  PROVE  Applies(r, q) \in BOOLEAN
BY DEF Applies, modeApplies

\* The type of what the loop works on.
LoopTypes ==
  /\ rules \in Seq(Rules)
  /\ i \in 1 .. Len(rules) + 1
  /\ result \in {Result(rules, k) : k \in 0 .. Len(rules)}
  /\ trace \in Seq(BOOLEAN)
  /\ running \in BOOLEAN

\* Both kinds of step of the loop, and its end, keep the state's type.
LEMMA LoopTypesStep == LoopTypes /\ [Next]_vars => LoopTypes'
<1> SUFFICES ASSUME LoopTypes, [Next]_vars
             PROVE  LoopTypes'
  OBVIOUS
<1>1. CASE Skip
  <2>1. i' \in 1 .. Len(rules') + 1
    BY <1>1 DEF Skip, LoopTypes
  <2>2. trace' \in Seq(BOOLEAN)
    BY <1>1 DEF Skip, LoopTypes
  <2> QED
    BY <1>1, <2>1, <2>2 DEF Skip, LoopTypes
<1>2. CASE Overwrite
  <2>1. i \in 0 .. Len(rules) /\ i' \in 1 .. Len(rules') + 1
    BY <1>2 DEF Overwrite, LoopTypes
  <2>2. trace' \in Seq(BOOLEAN)
    BY <1>2 DEF Overwrite, LoopTypes
  <2>3. result' \in {Result(rules', k) : k \in 0 .. Len(rules')}
    BY <1>2, <2>1 DEF Overwrite
  <2>4. running' \in BOOLEAN
    BY <1>2 DEF Overwrite, isNow
  <2> QED
    BY <1>2, <2>1, <2>2, <2>3, <2>4 DEF Overwrite, LoopTypes
<1>3. CASE Finish
  BY <1>3 DEF Finish, LoopTypes
<1>4. CASE UNCHANGED vars
  BY <1>4 DEF vars, LoopTypes
<1> QED
  BY <1>1, <1>2, <1>3, <1>4 DEF Next

\* The loop's part of the state's type.
LEMMA TypeIsLoop == TypeOK => LoopTypes
BY DEF TypeOK, LoopTypes

\* The request is not changed, so the whole state keeps its type.
LEMMA TypeStep == TypeOK /\ [Next]_vars => TypeOK'
<1>1. TypeOK <=> LoopTypes /\ req \in Requests
  BY DEF TypeOK, LoopTypes
<1>2. TypeOK' <=> LoopTypes' /\ req' \in Requests
  BY DEF TypeOK, LoopTypes
<1>3. [Next]_vars => req' = req
  BY DEF Next, Skip, Overwrite, Finish, vars
<1> QED
  BY <1>1, <1>2, <1>3, LoopTypesStep

\* The loop starts in a state of its type.
LEMMA TypeInit == Init => TypeOK
<1> SUFFICES ASSUME Init
             PROVE  TypeOK
  OBVIOUS
<1>1. rules \in Seq(Rules) /\ req \in Requests
  BY EvalAssumption DEF Init
<1>2. Len(rules) \in Nat
  BY <1>1
<1>3. result \in {Result(rules, k) : k \in 0 .. Len(rules)}
  BY <1>2 DEF Init
<1> QED
  BY <1>1, <1>2, <1>3 DEF Init, TypeOK

\* The loop's index stays within the rule list and its result is always that
\* of a configured rule or the implicit default.
THEOREM TypeCorrect == Spec => []TypeOK
BY TypeInit, TypeStep, PTL DEF Spec
-----------------------------------------------------------------------------
(* The loop invariant *)

\* No rule with a "-now" action has applied, and the provisional result is the
\* one the rules looked at so far decide.
Provisional ==
  running =>
    /\ \A j \in 1 .. i - 1 : ~ (Applies(rules[j], req) /\ isNow(rules[j].action))
    /\ \E k \in 0 .. i - 1 : /\ Decides(req, rules, i - 1, k)
                             /\ result = Result(rules, k)

\* After the loop it is the one that all the rules decide.
Final ==
  ~ running =>
    \E k \in 0 .. Len(rules) : /\ Decides(req, rules, Len(rules), k)
                               /\ result = Result(rules, k)

\* No rule list is of two minds: at most one rule decides.
LEMMA OneDecides ==
  ASSUME NEW q, NEW rs, NEW n \in Nat, NEW k \in 0 .. n, NEW m \in 0 .. n,
         Decides(q, rs, n, k), Decides(q, rs, n, m)
  PROVE  k = m
BY DEF Decides

\* A rule that does not apply leaves the decision to the rules before it.
LEMMA SkipDecides ==
  ASSUME NEW q, NEW rs, NEW n \in Nat, NEW k \in 0 .. n,
         Decides(q, rs, n, k), ~ Applies(rs[n + 1], q)
  PROVE  Decides(q, rs, n + 1, k)
<1>1. {j \in 1 .. n + 1 : Applies(rs[j], q)} = {j \in 1 .. n : Applies(rs[j], q)}
  OBVIOUS
<1> QED
  BY <1>1 DEF Decides

\* A rule that applies overrules those before it, unless one said "now".
LEMMA OverwriteDecides ==
  ASSUME NEW q, NEW rs, NEW n \in Nat, Applies(rs[n + 1], q),
         \A j \in 1 .. n : ~ (Applies(rs[j], q) /\ isNow(rs[j].action))
  PROVE  Decides(q, rs, n + 1, n + 1)
BY DEF Decides

\* A "-now" rule that applies first overrules those after it.
LEMMA NowDecides ==
  ASSUME NEW q, NEW rs, NEW n \in Nat, NEW k \in 1 .. n,
         Applies(rs[k], q), isNow(rs[k].action),
         \A j \in 1 .. k - 1 : ~ (Applies(rs[j], q) /\ isNow(rs[j].action))
  PROVE  Decides(q, rs, n, k)
BY DEF Decides

\* Initially no rule has been looked at and nothing is decided.
LEMMA LoopInit == Init => Provisional /\ Final
<1> SUFFICES ASSUME Init
             PROVE  Provisional /\ Final
  OBVIOUS
<1>1. Decides(req, rules, 0, 0)
  BY DEF Decides
<1> QED
  BY <1>1 DEF Init, Provisional, Final

\* A rule looked at is accounted for, and the end of the loop keeps its verdict.
LEMMA LoopStep == LoopTypes /\ Provisional /\ Final /\ [Next]_vars
                    => Provisional' /\ Final'
<1> SUFFICES ASSUME LoopTypes, Provisional, Final, [Next]_vars
             PROVE  Provisional' /\ Final'
  OBVIOUS
<1> DEFINE n == i - 1
<1>0. n \in Nat /\ n + 1 = i /\ Len(rules) \in Nat
  BY DEF LoopTypes
<1>1. CASE Skip
  <2>1. PICK k \in 0 .. n : /\ Decides(req, rules, n, k)
                            /\ result = Result(rules, k)
    BY <1>1 DEF Skip, Provisional
  <2>2. Decides(req, rules, n + 1, k)
    BY <1>0, <1>1, <2>1, SkipDecides DEF Skip
  <2>3. /\ rules' = rules /\ req' = req /\ result' = result
        /\ running' = running /\ running
        /\ i' - 1 = n + 1
    BY <1>0, <1>1 DEF Skip
  <2>4. \A j \in 1 .. n + 1 : ~ (Applies(rules[j], req) /\ isNow(rules[j].action))
    <3>1. \A j \in 1 .. n : ~ (Applies(rules[j], req) /\ isNow(rules[j].action))
      BY <2>3 DEF Provisional
    <3>2. ~ Applies(rules[n + 1], req)
      BY <1>0, <1>1 DEF Skip
    <3>3. \A j \in 1 .. n + 1 : j \in 1 .. n \/ j = n + 1
      BY <1>0
    <3> QED
      BY <3>1, <3>2, <3>3
  <2>5. \E m \in 0 .. i' - 1 : /\ Decides(req', rules', i' - 1, m)
                                /\ result' = Result(rules', m)
    BY <1>0, <2>1, <2>2, <2>3
  <2>6. Provisional'
    BY <2>3, <2>4, <2>5 DEF Provisional
  <2>7. Final'
    BY <2>3 DEF Final
  <2> QED
    BY <2>6, <2>7
<1>2. CASE Overwrite
  <2>1. /\ rules' = rules /\ req' = req /\ result' = Result(rules, i)
        /\ i' - 1 = i /\ i \in 1 .. Len(rules) /\ running
        /\ isNow(rules[i].action) => ~ running'
        /\ ~ isNow(rules[i].action) => running'
    <3>1. /\ rules' = rules /\ req' = req /\ result' = Result(rules, i)
          /\ i' - 1 = i /\ i \in 1 .. Len(rules)
      BY <1>0, <1>2 DEF Overwrite
    <3>2. /\ running
          /\ isNow(rules[i].action) => ~ running'
          /\ ~ isNow(rules[i].action) => running'
      BY <1>2, Zenon DEF Overwrite
    <3> QED
      BY <3>1, <3>2
  <2>2. \A j \in 1 .. n : ~ (Applies(rules[j], req) /\ isNow(rules[j].action))
    BY <2>1 DEF Provisional
  <2>3. Decides(req, rules, i, i)
    BY <1>0, <1>2, <2>2, OverwriteDecides DEF Overwrite
  <2>4. CASE isNow(rules[i].action)
    <3>1. Decides(req, rules, Len(rules), i)
      BY <1>0, <1>2, <2>1, <2>2, <2>4, NowDecides DEF Overwrite
    <3>2. \E k \in 0 .. Len(rules') : /\ Decides(req', rules', Len(rules'), k)
                                       /\ result' = Result(rules', k)
      BY <1>0, <2>1, <3>1
    <3> QED
      BY <2>1, <2>4, <3>2 DEF Provisional, Final
  <2>5. CASE ~ isNow(rules[i].action)
    <3>1. \A j \in 1 .. i : ~ (Applies(rules[j], req) /\ isNow(rules[j].action))
      BY <1>0, <2>2, <2>5
    <3>2. \E k \in 0 .. i' - 1 : /\ Decides(req', rules', i' - 1, k)
                                  /\ result' = Result(rules', k)
      BY <1>0, <2>1, <2>3
    <3> QED
      BY <2>1, <2>5, <3>1, <3>2 DEF Provisional, Final
  <2> QED
    BY <2>4, <2>5
<1>3. CASE Finish
  <2>1. n = Len(rules)
    BY <1>0, <1>3 DEF Finish, LoopTypes
  <2> QED
    BY <1>3, <2>1 DEF Finish, Provisional, Final
<1>4. CASE UNCHANGED vars
  BY <1>4 DEF vars, Provisional, Final
<1> QED
  BY <1>1, <1>2, <1>3, <1>4 DEF Next

\* The decision found by the loop is the one Evaluate describes, because there
\* is only one.
LEMMA FinalIsEvaluate == LoopTypes /\ Final => ComputesEvaluate
<1> SUFFICES ASSUME LoopTypes, Final, ~ running
             PROVE  result = Evaluate(req, rules)
  BY DEF ComputesEvaluate
<1> DEFINE D == {k \in 0 .. Len(rules) : Decides(req, rules, Len(rules), k)}
<1>1. PICK k \in 0 .. Len(rules) : /\ Decides(req, rules, Len(rules), k)
                                   /\ result = Result(rules, k)
  BY DEF Final
<1>2. Len(rules) \in Nat
  BY DEF LoopTypes
<1>3. TheOnly(D) \in D
  BY <1>1 DEF TheOnly
<1>4. TheOnly(D) = k
  BY <1>1, <1>2, <1>3, OneDecides
<1> QED
  BY <1>1, <1>4 DEF Evaluate

\* For every list of rules and every request, the loop ends with the verdict
\* the documentation describes: the first "-now" rule that applies, or else
\* the last rule that applies, or else deny.
THEOREM LoopComputesEvaluate == Spec => []ComputesEvaluate
<1>1. Init => TypeOK /\ Provisional /\ Final
  BY TypeInit, LoopInit
<1>2. TypeOK /\ Provisional /\ Final /\ [Next]_vars
        => (TypeOK /\ Provisional /\ Final)'
  BY TypeStep, LoopStep, TypeIsLoop
<1>3. TypeOK /\ Provisional /\ Final => ComputesEvaluate
  BY FinalIsEvaluate, TypeIsLoop
<1> QED
  BY <1>1, <1>2, <1>3, PTL DEF Spec
-----------------------------------------------------------------------------
(* The trace *)

\* The trace has what each rule looked at so far did, and the provisional result
\* is that of the last of them that applied.
Traced ==
  /\ Len(trace) = i - 1
  /\ \A k \in 1 .. i - 1 : trace[k] <=> Applies(rules[k], req)
  /\ result.rule \in 0 .. i - 1
  /\ result.rule # 0 => Applies(rules[result.rule], req)
  /\ \A k \in 1 .. i - 1 : Applies(rules[k], req) => k <= result.rule

\* The loop begins with an empty trace.
LEMMA TraceInit ==
  ASSUME i = 1, trace = << >>, result = Result(rules, 0)
  PROVE  Traced
<1>1. Len(trace) = 0 /\ result.rule = 0
  BY DEF Result
<1> QED
  BY <1>1 DEF Traced

\* A rule looked at is appended to the trace and nothing before it is changed.
LEMMA TraceAppend ==
  ASSUME NEW t \in Seq(BOOLEAN), NEW b \in BOOLEAN
  PROVE  /\ Len(Append(t, b)) = Len(t) + 1
         /\ Append(t, b)[Len(t) + 1] = b
         /\ \A k \in 1 .. Len(t) : Append(t, b)[k] = t[k]
OBVIOUS

\* Both kinds of step, and the end of the loop, keep the trace exact.
LEMMA TraceStep == LoopTypes /\ Traced /\ [Next]_vars => Traced'
<1> SUFFICES ASSUME LoopTypes, Traced, [Next]_vars
             PROVE  Traced'
  OBVIOUS
<1>1. i \in Nat /\ i >= 1 /\ Len(rules) \in Nat /\ trace \in Seq(BOOLEAN)
  BY DEF LoopTypes
<1>2. ASSUME NEW b \in BOOLEAN, trace' = Append(trace, b), i' = i + 1,
             rules' = rules, req' = req, b <=> Applies(rules[i], req)
      PROVE  /\ Len(trace') = i' - 1
             /\ \A k \in 1 .. i' - 1 : trace'[k] <=> Applies(rules[k], req)
  <2>1. Len(trace) = i - 1 /\ i' - 1 = i /\ Len(trace) + 1 = i
    BY <1>1, <1>2 DEF Traced
  <2>2. Len(trace') = i /\ trace'[i] = b /\ \A k \in 1 .. i - 1 : trace'[k] = trace[k]
    BY <1>1, <1>2, <2>1, TraceAppend
  <2>3. \A k \in 1 .. i : k \in 1 .. i - 1 \/ k = i
    BY <1>1
  <2>4. ASSUME NEW k \in 1 .. i
        PROVE  trace'[k] <=> Applies(rules[k], req)
    <3>1. CASE k = i
      BY <1>2, <2>2, <3>1
    <3>2. CASE k \in 1 .. i - 1
      BY <2>2, <3>2 DEF Traced
    <3> QED
      BY <2>3, <3>1, <3>2
  <2> QED
    BY <2>1, <2>2, <2>4
<1>3. CASE Skip
  <2>1. /\ trace' = Append(trace, FALSE) /\ i' = i + 1 /\ rules' = rules /\ req' = req
        /\ result' = result /\ ~ Applies(rules[i], req)
    BY <1>3 DEF Skip
  <2>2. /\ Len(trace') = i' - 1
        /\ \A k \in 1 .. i' - 1 : trace'[k] <=> Applies(rules[k], req)
    BY <1>2, <2>1
  <2>3. \A k \in 1 .. i' - 1 : k \in 1 .. i - 1 \/ k = i
    BY <1>1, <2>1
  <2>4. \A k \in 1 .. i' - 1 : Applies(rules[k], req) => k <= result.rule
    BY <2>1, <2>3 DEF Traced
  <2>5. result.rule \in 0 .. i' - 1
    BY <1>1, <2>1 DEF Traced
  <2> QED
    BY <2>1, <2>2, <2>4, <2>5 DEF Traced
<1>4. CASE Overwrite
  <2>1. /\ trace' = Append(trace, TRUE) /\ i' = i + 1 /\ rules' = rules /\ req' = req
        /\ result' = Result(rules, i) /\ Applies(rules[i], req)
    BY <1>4 DEF Overwrite
  <2>2. /\ Len(trace') = i' - 1
        /\ \A k \in 1 .. i' - 1 : trace'[k] <=> Applies(rules[k], req)
    BY <1>2, <2>1
  <2>3. result'.rule = i
    BY <1>1, <2>1 DEF Result
  <2>4. i \in 0 .. i' - 1 /\ \A k \in 1 .. i' - 1 : k <= i
    BY <1>1, <2>1
  <2> QED
    BY <2>1, <2>2, <2>3, <2>4 DEF Traced
<1>5. CASE Finish \/ UNCHANGED vars
  BY <1>5 DEF Finish, vars, Traced
<1> QED
  BY <1>3, <1>4, <1>5 DEF Next

\* An exact trace shows which rule decided.
LEMMA TracedExplains == LoopTypes /\ Traced => TraceExplains
<1> SUFFICES ASSUME LoopTypes, Traced
             PROVE  TraceExplains
  OBVIOUS
<1>1. i \in Nat /\ i >= 1
  BY DEF LoopTypes
<1>2. result.rule # 0 => result.rule \in 1 .. i - 1
  BY <1>1 DEF Traced
<1> QED
  BY <1>1, <1>2 DEF Traced, TraceExplains

\* Explain's trace has an entry for each rule up to the decisive one, says of
\* each whether it applied, and the last that did is the one that decided.
THEOREM LoopTraced == Spec => []TraceExplains
<1>1. Init => TypeOK /\ Traced
  BY TypeInit, TraceInit DEF Init
<1>2. TypeOK /\ Traced /\ [Next]_vars => (TypeOK /\ Traced)'
  BY TypeStep, TraceStep, TypeIsLoop
<1>3. TypeOK /\ Traced => TraceExplains
  BY TracedExplains, TypeIsLoop
<1> QED
  BY <1>1, <1>2, <1>3, PTL DEF Spec
-----------------------------------------------------------------------------
(* Names *)

\* Requests that differ in their object at most.
Alike(p, q) ==
  /\ p.device = q.device /\ p.ip = q.ip /\ p.claims = q.claims
  /\ p.operation = q.operation /\ p.token = q.token

\* A rule without a variable condition applies to all objects alike.
LEMMA AppliesUnnamed ==
  ASSUME NEW r \in Rules, NEW q, NEW p, Alike(p, q),
         \A j \in DOMAIN r.conditions : r.conditions[j].type # "variable"
  PROVE  Applies(r, p) <=> Applies(r, q)
<1>1. ASSUME NEW j \in DOMAIN r.conditions
      PROVE  matchCondition(r.conditions[j], p) <=> matchCondition(r.conditions[j], q)
  <2>1. r.conditions[j] \in Conditions
    BY DEF Rules
  <2>2. actualValue(r.conditions[j], p) = actualValue(r.conditions[j], q)
    BY <2>1 DEF actualValue, Conditions, ConditionTypes, Alike
  <2> QED
    BY <2>2 DEF matchCondition
<1>2. {k \in DOMAIN r.conditions : matchCondition(r.conditions[k], p)}
        = {k \in DOMAIN r.conditions : matchCondition(r.conditions[k], q)}
  BY <1>1
<1> QED
  BY <1>2 DEF Applies

\* Rules without a variable condition give all objects the same verdict.
LEMMA VerdictUnnamed ==
  ASSUME rules \in Seq(Rules),
         \A n \in SUBSET Values : Alike([req EXCEPT !.object = n], req)
  PROVE  NameIrrelevant
<1> SUFFICES ASSUME ~ UsesCondition(rules, "variable"), NEW n \in SUBSET Values
             PROVE  Evaluate([req EXCEPT !.object = n], rules) = Evaluate(req, rules)
  BY DEF NameIrrelevant
<1> DEFINE p == [req EXCEPT !.object = n]
           N == Len(rules)
           applying(q) == {j \in 1 .. N : Applies(rules[j], q)}
<1>1. Alike(p, req)
  OBVIOUS
<1> HIDE DEF p
<1>2. ASSUME NEW j \in 1 .. N
      PROVE  Applies(rules[j], p) <=> Applies(rules[j], req)
  <2>1. rules[j] \in Rules /\ j \in DOMAIN rules
    OBVIOUS
  <2>2. \A k \in DOMAIN rules[j].conditions : rules[j].conditions[k].type # "variable"
    BY <2>1 DEF UsesCondition
  <2> QED
    BY <1>1, <2>1, <2>2, AppliesUnnamed
<1>3. applying(p) = applying(req)
  BY <1>2
<1>4. \A k : Decides(p, rules, N, k) <=> Decides(req, rules, N, k)
  BY <1>3 DEF Decides
<1>5. {k \in 0 .. N : Decides(p, rules, N, k)}
        = {k \in 0 .. N : Decides(req, rules, N, k)}
  BY <1>4
<1>6. Evaluate(p, rules) = Evaluate(req, rules)
  BY <1>5 DEF Evaluate
<1> QED
  BY <1>6 DEF p

\* Whatever the rules, if none has a variable condition the verdict does not
\* depend on the object: skipping the enumeration (needsObjectName) is sound.
THEOREM NamesMatterOnlyToRules == Spec => []NameIrrelevant
<1>1. TypeOK => NameIrrelevant
  <2> SUFFICES ASSUME TypeOK
               PROVE  NameIrrelevant
    OBVIOUS
  <2>1. \A n \in SUBSET Values : Alike([req EXCEPT !.object = n], req)
    BY DEF TypeOK, Requests, Alike
  <2> QED
    BY <2>1, VerdictUnnamed DEF TypeOK
<1> QED
  BY <1>1, TypeCorrect, PTL
-----------------------------------------------------------------------------
(* Accepted files *)

\* Filling in defaults leaves the settings that are not durations or addresses.
LEMMA DefaultsKeep ==
  ASSUME NEW f \in FileType
  PROVE  LET g == applyDefaults(f)
         IN g.rules = f.rules /\ g.oidc = f.oidc
BY DEF applyDefaults, FileType

\* What an accepted file has been checked for: every issuer has an audience, and
\* every rule is one that the engine knows, an allow rule with a permission.
LEMMA LoadChecks ==
  ASSUME NEW f \in FileType, Load(f)
  PROVE  /\ \A k \in DOMAIN f.oidc : f.oidc[k].audience # ""
         /\ \A k \in DOMAIN f.rules : /\ f.rules[k].match \in MatchModes
                                      /\ f.rules[k].action \in Actions
                                      /\ PermissionOk(f.rules[k])
                                      /\ \A j \in DOMAIN f.rules[k].conditions :
                                           f.rules[k].conditions[j].type \in ConditionTypes
<1> DEFINE g == applyDefaults(f)
<1>1. g.rules = f.rules /\ g.oidc = f.oidc
  BY DefaultsKeep
<1>2. Validate(g) = {}
  BY DEF Load
<1> HIDE DEF g
<1>3. ASSUME NEW k \in DOMAIN g.oidc
      PROVE  validateIssuer(g.oidc, k) = {}
  BY <1>2 DEF Validate, Each
<1>4. ASSUME NEW k \in DOMAIN g.rules
      PROVE  validateRule(g.rules, k) = {}
  BY <1>2 DEF Validate, Each
<1>5. ASSUME NEW k \in DOMAIN g.oidc
      PROVE  g.oidc[k].audience # ""
  BY <1>3 DEF validateIssuer, If
<1>6. ASSUME NEW k \in DOMAIN g.rules
      PROVE  /\ g.rules[k].match \in MatchModes /\ g.rules[k].action \in Actions
             /\ PermissionOk(g.rules[k])
  BY <1>4 DEF validateRule, If
<1>7. ASSUME NEW k \in DOMAIN g.rules, NEW j \in DOMAIN g.rules[k].conditions
      PROVE  g.rules[k].conditions[j].type \in ConditionTypes
  <2>1. {<< "rules", k, "conditions", j, p >> : p \in validateCondition(g.rules[k].conditions[j])} = {}
    <3>1. Each(g.rules[k].conditions,
               LAMBDA m : {<< "rules", k, "conditions", m, p >> :
                             p \in validateCondition(g.rules[k].conditions[m])}) = {}
      BY <1>4 DEF validateRule
    <3>2. UNION {{<< "rules", k, "conditions", m, p >> :
                    p \in validateCondition(g.rules[k].conditions[m])} :
                 m \in DOMAIN g.rules[k].conditions} = {}
      BY <3>1 DEF Each
    <3>3. ASSUME NEW p \in validateCondition(g.rules[k].conditions[j])
          PROVE  FALSE
      <4> DEFINE Of(m) == {<< "rules", k, "conditions", m, q >> :
                             q \in validateCondition(g.rules[k].conditions[m])}
      <4>1. << "rules", k, "conditions", j, p >> \in Of(j)
        BY <3>3, Zenon
      <4>2. UNION {Of(m) : m \in DOMAIN g.rules[k].conditions} = {}
        BY <3>2
      <4> HIDE DEF Of
      <4> QED
        BY <4>1, <4>2, <1>7, Zenon
    <3> QED
      BY <3>3
  <2>2. validateCondition(g.rules[k].conditions[j]) = {}
    BY <2>1
  <2> QED
    BY <2>2 DEF validateCondition, If
<1> QED
  BY <1>1, <1>5, <1>6, <1>7

\* The elements of a sequence, and a sequence of other elements.
LEMMA Elements ==
  ASSUME NEW S, NEW T, NEW s \in Seq(S)
  PROVE  /\ \A k \in DOMAIN s : s[k] \in S
         /\ (\A k \in DOMAIN s : s[k] \in T) => s \in Seq(T)
OBVIOUS

\* The rules of an accepted file are rules the engine knows.
LEMMA LoadedRules ==
  ASSUME NEW f \in FileType, Load(f)
  PROVE  AuthzRules(f) \in Seq(Rules)
<1> DEFINE C == [type : STRING, field : Fields, pattern : SUBSET (Values \cup Operations)]
           R == [conditions : Seq(C), match : STRING, permission : STRING, action : STRING]
<1>1. f.rules \in Seq(R)
  BY DEF FileType
<1>2. ASSUME NEW k \in DOMAIN f.rules
      PROVE  f.rules[k] \in Rules
  <2>1. f.rules[k] \in R
    <3> HIDE DEF R
    <3> QED
      BY <1>1, Elements
  <2>2. PICK r : r = f.rules[k]
    OBVIOUS
  <2>3. /\ r \in R /\ r.match \in MatchModes /\ r.action \in Actions
        /\ \A j \in DOMAIN r.conditions : r.conditions[j].type \in ConditionTypes
    BY <2>1, <2>2, LoadChecks, Zenon
  <2>4. r.conditions \in Seq(C)
    BY <2>3
  <2>5. PICK c : c = r.conditions
    OBVIOUS
  <2>6. c \in Seq(C) /\ \A j \in DOMAIN c : c[j].type \in ConditionTypes
    BY <2>3, <2>4, <2>5, Zenon
  <2>7. ASSUME NEW j \in DOMAIN c
        PROVE  c[j] \in Conditions
    <3>1. c[j] \in C
      <4> HIDE DEF C
      <4> QED
        BY <2>6, Elements
    <3>2. c[j].type \in ConditionTypes
      BY <2>6
    <3> QED
      BY <3>1, <3>2 DEF Conditions
  <2>8. c \in Seq(Conditions)
    BY <2>6, <2>7, Elements, Zenon
  <2>9. r \in Rules
    BY <2>3, <2>5, <2>8 DEF Rules, RulePermissions
  <2> QED
    BY <2>2, <2>9
<1> HIDE DEF R
<1>3. f.rules \in Seq(Rules)
  BY <1>1, <1>2, Elements
<1> QED
  BY <1>3 DEF AuthzRules

-----------------------------------------------------------------------------
(* Callers *)

\* A token's value is looked up among the configured ones.
LEMMA TokenConfigured ==
  ASSUME NEW f, NEW v \in DOMAIN tokensByValue(AuthTokens(f))
  PROVE  \E k \in DOMAIN f.tokens : f.tokens[k].token = v
BY DEF tokensByValue, AuthTokens

\* Whoever passes for somebody has shown a configured token, a JWT made with the
\* shared secret, or one its issuer signed for the proxy.
Identified(f, b, who) ==
  \/ /\ \E k \in DOMAIN f.tokens : f.tokens[k].token = b.text
     /\ who.token # {} /\ who.claims = NoClaims
  \/ /\ b.alg \in HMACs /\ f.jwtSecret # "" /\ b.key = f.jwtSecret
     /\ who.token = {} /\ who.claims = b.claims
  \/ /\ b.alg \in asymmetricAlgs /\ b.iss = b.key
     /\ \E k \in DOMAIN f.oidc : b.key = f.oidc[k].issuer /\ f.oidc[k].audience \in b.aud \cup {""}
     /\ who.token = {} /\ who.claims = b.claims

\* Authenticate tells of nobody, or of somebody who has shown a credential.
LEMMA AuthenticateIdentifies ==
  ASSUME NEW f, NEW b, NEW known, NEW who, who = Authenticate(f, b, known)
  PROVE  who = Nobody \/ Identified(f, b, who)
<1> DEFINE names == tokensByValue(AuthTokens(f))
           oidc == AuthIssuers(f)
           named == {k \in DOMAIN oidc : oidc[k].issuer = b.iss}
<1>1. CASE b.text \in DOMAIN names
  <2>1. \E k \in DOMAIN f.tokens : f.tokens[k].token = b.text
    BY <1>1, TokenConfigured
  <2>2. who = Nobody \/ who = [token |-> {names[b.text]}, claims |-> NoClaims]
    BY <1>1 DEF Authenticate
  <2> HIDE DEF names
  <2>3. who = Nobody \/ (who.token # {} /\ who.claims = NoClaims)
    BY <2>2
  <2> QED
    BY <2>1, <2>3, Zenon DEF Identified
<1>2. CASE b.text \notin DOMAIN names /\ b.alg \in HMACs
  <2>1. who = Nobody \/ who = verifyHMAC(f, b)
    BY <1>2 DEF Authenticate
  <2>2. \/ who = Nobody
        \/ /\ f.jwtSecret # "" /\ b.key = f.jwtSecret
           /\ who = [token |-> {}, claims |-> b.claims]
    BY <2>1, Zenon DEF verifyHMAC
  <2>3. who = [token |-> {}, claims |-> b.claims] => who.token = {} /\ who.claims = b.claims
    OBVIOUS
  <2> QED
    BY <1>2, <2>2, <2>3, Zenon DEF Identified
<1>3. CASE b.text \notin DOMAIN names /\ b.alg \notin HMACs
  <2>1. \/ who = Nobody
        \/ /\ \E k \in named : verify(oidc[k], b, known)
           /\ who = [token |-> {}, claims |-> b.claims]
    BY <1>3 DEF Authenticate
  <2>2. ASSUME NEW k \in named, verify(oidc[k], b, known)
        PROVE  /\ b.alg \in asymmetricAlgs /\ b.iss = b.key
               /\ k \in DOMAIN f.oidc /\ b.key = f.oidc[k].issuer
               /\ f.oidc[k].audience \in b.aud \cup {""}
    BY <2>2 DEF verify, AuthIssuers
  <2>3. CASE \E k \in named : verify(oidc[k], b, known)
    <3>1. PICK k \in named : verify(oidc[k], b, known)
      BY <2>3
    <3>2. b.alg \in asymmetricAlgs /\ b.iss = b.key /\ k \in DOMAIN f.oidc
          /\ b.key = f.oidc[k].issuer /\ f.oidc[k].audience \in b.aud \cup {""}
      BY <2>2, <3>1
    <3>3. who = Nobody \/ (who.token = {} /\ who.claims = b.claims)
      BY <2>1
    <3> HIDE DEF named, oidc, names
    <3> QED
      BY <3>2, <3>3 DEF Identified
  <2> QED
    BY <2>1, <2>3
<1> QED
  BY <1>1, <1>2, <1>3

\* The address of a caller that is no trusted proxy is its peer's, whatever the
\* headers say.
LEMMA PeerIsClient ==
  ASSUME NEW f, NEW c, c.peer \cap TrustedProxyNets(f) = {}
  PROVE  clientIP(f, c) = c.peer
<1>1. ~ isTrustedProxy(f, c.peer)
  BY DEF isTrustedProxy
<1> QED
  BY <1>1 DEF clientIP
-----------------------------------------------------------------------------
(* The composition *)

\* The rules and the caller stay those of the file and the request; the server
\* serves only with a file that was accepted, and its verdict is that of the
\* result the loop ended with.
Verdict ==
  /\ result.allowed
  /\ \/ RequiredPermission(req.operation) # "readwrite"
     \/ result.permission = "readwrite"
Bound ==
  /\ file \in FileType
  /\ contact \in ContactType
  /\ stage \in {"loading", "refused", "serving", "allowed", "denied"}
  /\ rules = IF Load(file) THEN AuthzRules(file) ELSE << >>
  /\ req = newCaller(file, contact)
  /\ stage \in {"serving", "allowed", "denied"} => Load(file)
  /\ stage \in {"allowed", "denied"} => ~ running /\ (stage = "allowed" <=> Verdict)

AccessInv == LoopTypes /\ Provisional /\ Final /\ Traced /\ Bound

\* An evaluation begins with the rules of an accepted file, or none.
LEMMA AccessInvInit == AccessInit => AccessInv
<1> SUFFICES ASSUME AccessInit
             PROVE  AccessInv
  OBVIOUS
<1>1. file \in FileType /\ contact \in ContactType
  BY AccessAssumption DEF AccessInit
<1>2. rules \in Seq(Rules)
  BY <1>1, LoadedRules DEF AccessInit
<1>3. Len(rules) \in Nat
  BY <1>2
<1>4. /\ i = 1 /\ result = Result(rules, 0) /\ trace = << >> /\ running = TRUE
  BY DEF AccessInit
<1>5. LoopTypes
  <2>1. result \in {Result(rules, k) : k \in 0 .. Len(rules)}
    BY <1>3, <1>4
  <2>2. trace \in Seq(BOOLEAN) /\ i \in 1 .. Len(rules) + 1
    BY <1>3, <1>4
  <2> QED
    BY <1>2, <1>4, <2>1, <2>2 DEF LoopTypes
<1>6. Provisional /\ Final
  <2>1. Decides(req, rules, 0, 0)
    BY DEF Decides
  <2> QED
    BY <1>4, <2>1 DEF Provisional, Final
<1>7. Traced
  BY <1>4, TraceInit
<1>8. Bound
  BY <1>1 DEF AccessInit, Bound
<1> QED
  BY <1>5, <1>6, <1>7, <1>8 DEF AccessInv

\* Loading, evaluating and deciding keep them so.
LEMMA AccessInvNext == AccessInv /\ [AccessNext]_<< vars, accessVars >> => AccessInv'
<1> SUFFICES ASSUME AccessInv, [AccessNext]_<< vars, accessVars >>
             PROVE  AccessInv'
  OBVIOUS
<1>1. [Next]_vars
  BY DEF AccessNext, Start, evaluate, allowed
<1>2. (LoopTypes /\ Provisional /\ Final /\ Traced)'
  BY <1>1, LoopTypesStep, LoopStep, TraceStep DEF AccessInv
<1>3. Bound
  BY DEF AccessInv
<1>4. CASE Start
  <2>1. /\ stage = "loading" /\ stage' = IF Load(file) THEN "serving" ELSE "refused"
        /\ file' = file /\ contact' = contact /\ rules' = rules /\ req' = req
    BY <1>4 DEF Start, vars
  <2> QED
    BY <1>2, <1>3, <2>1 DEF Bound, AccessInv
<1>5. CASE evaluate
  <2>1. stage = "serving" /\ stage' = stage /\ file' = file /\ contact' = contact
    BY <1>5 DEF evaluate, accessVars
  <2>2. rules' = rules /\ req' = req
    BY <1>5 DEF evaluate, Next, Skip, Overwrite, Finish
  <2> QED
    BY <1>2, <1>3, <2>1, <2>2 DEF Bound, AccessInv
<1>6. CASE allowed
  <2>1. /\ stage = "serving" /\ ~ running /\ stage' = IF Verdict THEN "allowed" ELSE "denied"
        /\ file' = file /\ contact' = contact
    BY <1>6 DEF allowed, Verdict
  <2>2. rules' = rules /\ req' = req /\ result' = result /\ running' = running
    BY <1>6 DEF allowed, vars
  <2>3. Verdict' <=> Verdict
    BY <2>2 DEF Verdict
  <2> QED
    BY <1>2, <1>3, <2>1, <2>2, <2>3 DEF Bound, AccessInv
<1>7. CASE UNCHANGED << vars, accessVars >>
  <2>1. /\ file' = file /\ contact' = contact /\ stage' = stage
        /\ rules' = rules /\ req' = req /\ result' = result /\ running' = running
    BY <1>7 DEF vars, accessVars
  <2>2. Verdict' <=> Verdict
    BY <2>1 DEF Verdict
  <2> QED
    BY <1>2, <1>3, <2>1, <2>2 DEF Bound, AccessInv
<1> QED
  BY <1>4, <1>5, <1>6, <1>7 DEF AccessNext

\* They hold from the start of the server to the verdict.
LEMMA AccessInvariance == AccessSpec => []AccessInv
BY AccessInvInit, AccessInvNext, PTL DEF AccessSpec

\* Whatever the configuration file and the request, if Load accepts the file,
\* whoever passes for somebody has been vouched for by somebody the file trusts,
\* and the issuer that rules see is the one whose key signed the token.
THEOREM OnlyVouched == AccessSpec => []IdentityVouched
<1>1. ASSUME AccessInv
      PROVE  IdentityVouched
  <2> SUFFICES ASSUME stage # "loading", stage # "refused",
                      req.token \cup UNION {req.claims[f] : f \in Fields} # {}
               PROVE  /\ Vouched(contact.bearer)
                      /\ contact.bearer.alg \in asymmetricAlgs /\ req.token = {}
                           => contact.bearer.iss = contact.bearer.key
    BY DEF IdentityVouched
  <2>1. file \in FileType /\ Load(file) /\ req = newCaller(file, contact)
    BY <1>1 DEF AccessInv, Bound
  <2>2. PICK who : who = Authenticate(file, contact.bearer, contact.known)
    OBVIOUS
  <2>3. req.token = who.token /\ req.claims = who.claims
    BY <2>1, <2>2 DEF newCaller
  <2>4. who # Nobody
    <3> SUFFICES ASSUME who = Nobody
                 PROVE  FALSE
      OBVIOUS
    <3>1. req.token = {} /\ \A f \in Fields : req.claims[f] = {}
      BY <2>3 DEF Nobody, NoClaims
    <3> QED
      BY <3>1
  <2>5. Identified(file, contact.bearer, who)
    BY <2>2, <2>4, AuthenticateIdentifies
  <2>6. \A k \in DOMAIN file.oidc : file.oidc[k].audience # ""
    BY <2>1, LoadChecks
  <2>7. Vouched(contact.bearer)
    BY <2>5, <2>6 DEF Identified, Vouched
  <2>8. \A a \in HMACs : a \notin asymmetricAlgs
    BY DEF HMACs, asymmetricAlgs
  <2>9. contact.bearer.alg \in asymmetricAlgs /\ who.token = {}
          => contact.bearer.iss = contact.bearer.key
    BY <2>5, <2>8 DEF Identified
  <2> QED
    BY <2>3, <2>7, <2>9
<1> QED
  BY <1>1, AccessInvariance, PTL

\* For every list of rules and set of trusted proxies: the verdict on a caller
\* that is no trusted proxy is that of the rules for the peer's own address.
THEOREM HeadersIgnored == AccessSpec => []HeadersPowerless
<1>1. ASSUME AccessInv
      PROVE  HeadersPowerless
  <2> SUFFICES ASSUME stage \in {"allowed", "denied"},
                      contact.peer \cap TrustedProxyNets(file) = {}
               PROVE  (stage = "allowed")
                        = Allowed([req EXCEPT !.ip = contact.peer], AuthzRules(file))
    BY DEF HeadersPowerless
  <2>1. /\ rules = AuthzRules(file) /\ req = newCaller(file, contact)
        /\ ~ running /\ (stage = "allowed" <=> Verdict)
    BY <1>1 DEF AccessInv, Bound
  <2>2. [req EXCEPT !.ip = contact.peer] = req
    <3>1. clientIP(file, contact) = contact.peer
      BY PeerIsClient
    <3> QED
      BY <2>1, <3>1 DEF newCaller
  <2>3. result = Evaluate(req, rules)
    BY <1>1, <2>1, FinalIsEvaluate DEF AccessInv, ComputesEvaluate
  <2>4. Allowed(req, rules) <=> Verdict
    BY <2>3 DEF Allowed, Verdict
  <2>5. Allowed(req, rules) \in BOOLEAN
    BY DEF Allowed
  <2> QED
    BY <2>1, <2>2, <2>4, <2>5
<1> QED
  BY <1>1, AccessInvariance, PTL

\* Whatever the file, if Load accepts it, a request is allowed only by a rule
\* that says readonly or readwrite, and a write only by one that says readwrite.
THEOREM PermissionNeeded == AccessSpec => []AllowedWithPermission
<1>1. ASSUME AccessInv
      PROVE  AllowedWithPermission
  <2> SUFFICES ASSUME stage = "allowed"
               PROVE  /\ result.permission \in Permissions
                      /\ req.operation = "write-property" => result.permission = "readwrite"
    BY DEF AllowedWithPermission
  <2>1. file \in FileType /\ Load(file) /\ rules = file.rules /\ Verdict
    BY <1>1 DEF AccessInv, Bound, AuthzRules
  <2>2. PICK k \in 0 .. Len(rules) : result = Result(rules, k)
    BY <1>1 DEF AccessInv, LoopTypes
  <2>3. k # 0 /\ isAllow(rules[k].action) /\ result.permission = rules[k].permission
    BY <2>1, <2>2 DEF Verdict, Result
  <2>4. k \in DOMAIN rules
    BY <1>1, <2>2, <2>3 DEF AccessInv, LoopTypes
  <2>5. PermissionOk(rules[k])
    BY <2>1, <2>4, LoadChecks
  <2> QED
    BY <2>1, <2>3, <2>5 DEF PermissionOk, Verdict, RequiredPermission
<1> QED
  BY <1>1, AccessInvariance, PTL

\* What holds of the loop for every list of rules holds of it for the rules of
\* every file that Load accepts and the caller that newCaller makes.
THEOREM LoadedLoop ==
  AccessSpec => [](ComputesEvaluate /\ TraceExplains /\ NameIrrelevant)
<1>1. ASSUME AccessInv
      PROVE  ComputesEvaluate /\ TraceExplains /\ NameIrrelevant
  <2>1. LoopTypes /\ Final /\ Traced /\ rules \in Seq(Rules) /\ req = newCaller(file, contact)
    BY <1>1 DEF AccessInv, LoopTypes, Bound
  <2>2. \A n \in SUBSET Values : Alike([req EXCEPT !.object = n], req)
    BY <2>1 DEF newCaller, Alike
  <2> QED
    BY <2>1, <2>2, FinalIsEvaluate, TracedExplains, VerdictUnnamed
<1> QED
  BY <1>1, AccessInvariance, PTL
=============================================================================
