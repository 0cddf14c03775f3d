-------------------------------- MODULE Authz --------------------------------
(***************************************************************************)
(* The vocabulary of the authorization engine (internal/authz): requests,  *)
(* conditions and rules, when a rule applies to a request, and what a list *)
(* of rules decides.                                                       *)
(*                                                                         *)
(* A pattern (wildcard, glob, CIDR block or literal) is represented by the *)
(* set of the values it matches, so what path.Match and net.ParseCIDR do   *)
(* to strings is left out.  A part of a request that may be missing (the   *)
(* client's IP, the token's name, a claim, the object's name) is the set   *)
(* of its values: empty when it is missing, and for a claim holding an     *)
(* array one value per string in it.                                       *)
(***************************************************************************)
EXTENDS Integers, Sequences, FiniteSets

CONSTANTS
  Values,    \* the strings requests and patterns are about
  Fields     \* JWT claim names

ConditionTypes == {"device", "ip", "jwt", "operation", "token", "variable"}
MatchModes == {"none", "not-all", "any", "all"}
Actions == {"allow-now", "deny-now", "allow", "deny"}
Permissions == {"readonly", "readwrite"}
Operations == {"who-is", "read-property", "read-property-multiple",
               "write-property", "list-devices"}

Requests == [device : Values, ip : SUBSET Values, operation : Operations,
             token : SUBSET Values, claims : [Fields -> SUBSET Values],
             object : SUBSET Values]
Conditions == [type : ConditionTypes, field : Fields,
               pattern : SUBSET (Values \cup Operations)]
RulePermissions == STRING     \* a deny rule's is not looked at
Rules == [conditions : Seq(Conditions), match : MatchModes,
          permission : RulePermissions, action : Actions]

isAllow(a) == a \in {"allow", "allow-now"}
isNow(a) == a \in {"allow-now", "deny-now"}

RequiredPermission(op) ==
  IF op = "write-property" THEN "readwrite" ELSE "readonly"

\* The values of req that condition c is compared with.
actualValue(c, req) ==
  CASE c.type = "device"    -> {req.device}
    [] c.type = "ip"        -> req.ip
    [] c.type = "jwt"       -> req.claims[c.field]
    [] c.type = "operation" -> {req.operation}
    [] c.type = "token"     -> req.token
    [] c.type = "variable"  -> req.object

matchCondition(c, req) == actualValue(c, req) \cap c.pattern # {}

modeApplies(mode, matched, total) ==
  \/ mode = "all"     /\ matched = total
  \/ mode = "any"     /\ matched > 0
  \/ mode = "none"    /\ matched = 0
  \/ mode = "not-all" /\ matched < total

\* evaluateConditions: does the rule apply to the request?
Applies(rule, req) ==
  modeApplies(rule.match,
    Cardinality({k \in DOMAIN rule.conditions :
                   matchCondition(rule.conditions[k], req)}),
    Len(rule.conditions))

\* Mutant of UsesCondition: only a rule's first condition is looked at.
UsesFirstCondition(rules, t) ==
  \E k \in DOMAIN rules :
    /\ rules[k].conditions # << >>
    /\ rules[k].conditions[1].type = t

UsesCondition(rules, t) ==
  \E k \in DOMAIN rules : \E j \in DOMAIN rules[k].conditions :
    rules[k].conditions[j].type = t
-----------------------------------------------------------------------------
(* What the rules decide.  AuthzEval models the loop that computes it. *)

\* The result of a decision by rule k; rule 0 is the implicit default.
Result(rules, k) ==
  IF k = 0
    THEN [allowed |-> FALSE, permission |-> "", rule |-> 0]
    ELSE [allowed |-> isAllow(rules[k].action),
          permission |-> rules[k].permission, rule |-> k]

\* Rule k decides among the first n rules: the first rule that applies and has
\* a "-now" action, or, if there is none, the last rule that applies.
Decides(req, rules, n, k) ==
  LET applying == {j \in 1 .. n : Applies(rules[j], req)}
      now == {j \in applying : isNow(rules[j].action)}
  IN \/ applying = {} /\ k = 0
     \/ k \in now /\ \A j \in now : k <= j
     \/ now = {} /\ k \in applying /\ \A j \in applying : j <= k

TheOnly(S) == CHOOSE x \in S : TRUE

\* Evaluate.
Evaluate(req, rules) ==
  Result(rules, TheOnly({k \in 0 .. Len(rules) :
                           Decides(req, rules, Len(rules), k)}))

\* Server.allowed (internal/api/middleware.go): the rules allow it, and a write
\* comes with readwrite permission.
Allowed(req, rules) ==
  LET result == Evaluate(req, rules)
  IN /\ result.allowed
     /\ \/ RequiredPermission(req.operation) # "readwrite"
        \/ result.permission = "readwrite"
=============================================================================
