------------------------------ MODULE MCAccess ------------------------------
(* An instance of Access for TLC.                                          *)
EXTENDS Access

Token == [type |-> "token", field |-> "", pattern |-> {"a", "b"}]
NamedA == [type |-> "variable", field |-> "", pattern |-> {"a"}]
FromA == [type |-> "ip", field |-> "", pattern |-> {"a"}]
IssuedByA == [type |-> "jwt", field |-> "iss", pattern |-> {"a"}]

\* Rule lists for the loop: all of up to two rules, and of three with two
\* conditions each.
LoopRules == [conditions : {<<Token>>, <<Token, NamedA>>}, match : MatchModes,
              permission : {"readwrite"}, action : Actions]
LoopLists == UNION {[1 .. n -> LoopRules] : n \in 0 .. 2}
             \cup [1 .. 3 -> {r \in LoopRules : /\ r.match \in {"all", "not-all"}
                                                /\ Len(r.conditions) = 2}]

\* Rule lists for the rest: with and without a permission, some invalid.
Rule(c, match, permission, action) ==
  [conditions |-> c, match |-> match, permission |-> permission, action |-> action]
FewLists ==
  { << Rule(<<c>>, "all", p, "allow") >> : c \in {Token, FromA, IssuedByA}, p \in Permissions \cup {""} }
    \cup { << Rule(<< >>, "all", "readonly", "allow"), Rule(<<FromA>>, "all", "", "deny-now") >>,
           << Rule(<< >>, "every", "readonly", "allow") >>, << Rule(<< >>, "all", "readonly", "permit") >>,
           << Rule(<<[IssuedByA EXCEPT !.field = ""]>>, "all", "readonly", "allow") >>,
           << Rule(<<[Token EXCEPT !.type = "user"]>>, "all", "readonly", "allow") >> }

Plain ==
  [tls |-> [enabled |-> FALSE, certFile |-> "", keyFile |-> ""], address |-> "",
   timeout |-> 0, retries |-> 0, cacheRefresh |-> 0, proxies |-> << >>,
   tokens |-> << [name |-> "a", token |-> "opaque"] >>, jwtSecret |-> "",
   oidc |-> << >>, rules |-> << >>]
IssuerA == [issuer |-> "a", audience |-> "proxy"]
Settings ==
  { Plain,
    [Plain EXCEPT !.tls.enabled = TRUE],
    [Plain EXCEPT !.cacheRefresh = -1],
    [Plain EXCEPT !.proxies = << {"d"} >>],
    [Plain EXCEPT !.proxies = << {"d"}, {} >>],
    [Plain EXCEPT !.tokens = @ \o << [name |-> "b", token |-> "opaque"] >>],
    [Plain EXCEPT !.tokens = @ \o @],
    [Plain EXCEPT !.jwtSecret = "secret"],
    [Plain EXCEPT !.oidc = << IssuerA >>],
    [Plain EXCEPT !.oidc = << IssuerA, [issuer |-> "b", audience |-> "other"] >>],
    [Plain EXCEPT !.oidc = << IssuerA, IssuerA >>],
    [Plain EXCEPT !.oidc = << [IssuerA EXCEPT !.issuer = "d"] >>],
    [Plain EXCEPT !.oidc = << [IssuerA EXCEPT !.audience = ""] >>],
    [Plain EXCEPT !.oidc = << IssuerA >>, !.jwtSecret = "secret"] }

MCFiles == { [Plain EXCEPT !.rules = l] : l \in LoopLists }
           \cup { [s EXCEPT !.rules = l] : s \in Settings, l \in FewLists }

\* Credentials: none, the token, and JWTs of every maker.
JWT(alg, key, iss, aud) ==
  [text |-> "jwt", alg |-> alg, key |-> key, iss |-> iss, aud |-> aud, exp |-> "future",
   nbf |-> "absent", iat |-> "past", claims |-> [f \in Fields |-> IF f = "iss" THEN {iss} ELSE {}]]
Opaque(text) == [JWT("", "", "", {}) EXCEPT !.text = text, !.claims = NoClaims]
Good == JWT("RS256", "a", "a", {"proxy", "other"})
Bearers == { Good, JWT("RS256", "b", "a", {"proxy"}), JWT("RS256", "b", "b", {"other"}),
             JWT("RS256", "a", "a", {"other"}), JWT("HS256", "a", "a", {"proxy"}),
             JWT("HS256", "secret", "a", {}), JWT("HS256", "", "a", {}), JWT("none", "", "a", {"proxy"}),
             [Good EXCEPT !.exp = "absent"], [Good EXCEPT !.exp = "past"],
             [Good EXCEPT !.nbf = "future"], [Good EXCEPT !.iat = "future"] }

Contact(bearer, object, operation) ==
  [peer |-> {"b"}, xff |-> << >>, xrip |-> << >>, bearer |-> bearer, known |-> {"a", "b"},
   device |-> "d", object |-> object, operation |-> operation]
Unnamed == Contact(Opaque("opaque"), {}, "read-property")
MCContacts ==
  { Contact(Opaque(t), o, "read-property") : t \in {"", "opaque"}, o \in {{}, {"a"}, {"b"}} }
    \cup { Contact(b, {}, "read-property") : b \in Bearers }
    \cup { Contact(Opaque("opaque"), {}, "write-property"), [Contact(Good, {}, "who-is") EXCEPT !.known = {}] }
    \cup { [Unnamed EXCEPT !.peer = p, !.xff = x, !.xrip = << {"a"} >>] :
             p \in {{}, {"b"}, {"d"}}, x \in { << >>, << {} >>, << {"a"}, {"d"} >>, << {"d"} >> } }

\* What the loop gets to see.
MCRuleLists == {AuthzRules(f) : f \in {g \in MCFiles : Load(g)}} \cup { << >> }
MCInputs == {newCaller(f, c) : f \in MCFiles, c \in MCContacts}
=============================================================================
