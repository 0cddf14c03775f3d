------------------------------- MODULE Config -------------------------------
(***************************************************************************)
(* The configuration file once it is parsed (internal/config/config.go):   *)
(* defaults, validation, and its translation for the other packages.       *)
(*                                                                         *)
(* A file is a record.  A setting that is missing is "", 0 or << >>, which *)
(* the code cannot tell from one that is written so.  A list of trusted    *)
(* proxies has for each entry the set of addresses it covers, {} if it     *)
(* does not parse; a condition's pattern is a set as in Authz.             *)
(***************************************************************************)
EXTENDS Authz

CONSTANT FetchURLs     \* URLs that CheckFetchURL accepts

\* Duration settings are counted in seconds.
applyDefaults(file) ==
  LET Default(v, d) == IF v = 0 THEN d ELSE v
  IN  [file EXCEPT !.address = IF @ = "" THEN ":8443" ELSE @,
                   !.timeout = Default(@, 3),
                   !.retries = Default(@, 3),
                   !.cacheRefresh = Default(@, 60)]

-----------------------------------------------------------------------------
(* Validate returns the set of the problems it finds, each with the path   *)
(* of the setting.                                                         *)

If(problem, path) == IF problem THEN {path} ELSE {}
Each(list, Problems(_)) == UNION {Problems(k) : k \in DOMAIN list}

\* The setting of entry k is the same as that of an entry before it.
Repeated(list, k, Of(_)) == \E j \in 1 .. k - 1 : Of(list[j]) = Of(list[k])

validateTLS(tls) ==
  If(tls.enabled /\ tls.certFile = "", << "listen.tls.certFile" >>)
    \cup If(tls.enabled /\ tls.keyFile = "", << "listen.tls.keyFile" >>)

validateToken(tokens, k) ==
  LET Name(t) == t.name
  IN  If(tokens[k].name = "", << "tokens", k, "name required" >>)
        \cup If(tokens[k].token = "", << "tokens", k, "token required" >>)
        \cup If(tokens[k].name # "" /\ Repeated(tokens, k, Name), << "tokens", k, "name duplicate" >>)

\* Mutant of validateIssuer: the audience may be left out.
validateIssuerAlone(oidc, k) ==
  If(oidc[k].issuer \notin FetchURLs, << "oidc", k, "issuer" >>)

validateIssuer(oidc, k) ==
  LET URL(o) == o.issuer
  IN  If(oidc[k].issuer = "" \/ oidc[k].issuer \notin FetchURLs \/ Repeated(oidc, k, URL),
         << "oidc", k, "issuer" >>)
        \cup If(oidc[k].audience = "", << "oidc", k, "audience" >>)

validateCondition(c) ==
  If(c.type \notin ConditionTypes, "type") \cup If(c.type = "jwt" /\ c.field = "", "field")

\* Mutant of PermissionOk: the permission is checked only if there is one.
PermissionOkIfAny(r) == r.permission \in Permissions \cup {""}

PermissionOk(r) == isAllow(r.action) => r.permission \in Permissions

validateRule(rules, k) ==
  LET r == rules[k]
  IN  If(r.match \notin MatchModes, << "rules", k, "match" >>)
        \cup If(r.action \notin Actions, << "rules", k, "action" >>)
        \cup If(~PermissionOk(r), << "rules", k, "permission" >>)
        \cup Each(r.conditions, LAMBDA j : {<< "rules", k, "conditions", j, p >> :
                                              p \in validateCondition(r.conditions[j])})

Validate(file) ==
  validateTLS(file.tls)
    \cup If(file.cacheRefresh < 0, << "bacnet.cacheRefresh" >>)
    \cup Each(file.proxies, LAMBDA k : If(file.proxies[k] = {}, << "listen.trustedProxies", k >>))
    \cup Each(file.tokens, LAMBDA k : validateToken(file.tokens, k))
    \cup Each(file.oidc, LAMBDA k : validateIssuer(file.oidc, k))
    \cup Each(file.rules, LAMBDA k : validateRule(file.rules, k))

Load(file) == Validate(applyDefaults(file)) = {}

-----------------------------------------------------------------------------

AuthTokens(file) == file.tokens
AuthIssuers(file) == file.oidc
AuthzRules(file) == file.rules
TrustedProxyNets(file) == Each(file.proxies, LAMBDA k : file.proxies[k])
=============================================================================
