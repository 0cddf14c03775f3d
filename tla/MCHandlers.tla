----------------------------- MODULE MCHandlers -----------------------------
(* Instances of Handlers for TLC. *)
EXTENDS Handlers, TLC

\* Nobody in particular, the holder of a bearer the proxy does not recognize,
\* and the holder of the token named "ops".
MCCredentials ==
  [p \in People |->
     [bearer |-> p # "anonymous", known |-> p = "operator",
      token |-> IF p = "operator" THEN {"ops"} ELSE {}]]

MCNames == {{"plain"}, {"secret"}}

Cond(t, pattern) == [type |-> t, field |-> "iss", pattern |-> pattern]
Rule(conds, mode, perm, act) ==
  [conditions |-> conds, match |-> mode, permission |-> perm, action |-> act]

\* Everybody may read and the operator may write, except what is called
\* "secret".
ByName == <<Rule(<< >>, "all", "readonly", "allow"),
            Rule(<<Cond("token", {"ops"})>>, "all", "readwrite", "allow"),
            Rule(<<Cond("variable", {"secret"})>>, "all", "readonly", "deny-now")>>

\* Only the operator may do anything, and no rule looks at names.
ByToken == <<Rule(<<Cond("token", {"ops"})>>, "none", "readonly", "deny-now"),
             Rule(<<Cond("operation", {"write-property"})>>, "any", "readwrite",
                  "allow"),
             Rule(<<Cond("operation", {"write-property"})>>, "none", "readonly",
                  "allow")>>

\* Everybody may get whole objects but no property; the operator may do
\* everything to what is called "plain".
Whole == <<Rule(<<Cond("operation", {"read-property-multiple"})>>, "all", "readonly",
                "allow"),
           Rule(<<Cond("token", {"ops"}), Cond("variable", {"plain"})>>,
                "all", "readwrite", "allow")>>

MCRuleLists == {ByName, ByToken, Whole}
=============================================================================
