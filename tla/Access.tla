------------------------------- MODULE Access -------------------------------
(***************************************************************************)
(* From the configuration file and an HTTP request to a verdict: Load      *)
(* (internal/config), newCaller and allowed (internal/api/middleware.go)   *)
(* around the rule loop of AuthzEval.  The rules and the caller are        *)
(* functions of the file and the request, so they are fixed from the       *)
(* start; a file that is refused has no rules.                             *)
(***************************************************************************)
EXTENDS AuthzEval, Authenticator

CONSTANTS
  Files,      \* parsed configuration files
  Contacts    \* HTTP requests, see newCaller

VARIABLES
  file, contact,
  stage       \* loading, refused, serving, allowed or denied

accessVars == << file, contact, stage >>

-----------------------------------------------------------------------------
(* A contact has the TCP peer, a set that is empty if it has no IP; the    *)
(* entries of X-Forwarded-For and X-Real-IP, sequences of such sets; the   *)
(* bearer; the issuers whose keys are known; and what it asks for.         *)

FileType ==
  [tls : [enabled : BOOLEAN, certFile : STRING, keyFile : STRING], address : STRING,
   timeout : Int, retries : Int, cacheRefresh : Int, proxies : Seq(SUBSET Values),
   tokens : Seq([name : Values, token : STRING]), jwtSecret : STRING,
   oidc : Seq([issuer : STRING, audience : STRING]),
   rules : Seq([conditions : Seq([type : STRING, field : Fields,
                                  pattern : SUBSET (Values \cup Operations)]),
                match : STRING, permission : STRING, action : STRING])]

Times == {"absent", "past", "future"}
BearerType ==
  [text : STRING, alg : STRING, key : STRING, iss : STRING, aud : SUBSET STRING,
   exp : Times, nbf : Times, iat : Times, claims : [Fields -> SUBSET Values]]
ContactType ==
  [peer : SUBSET Values, xff : Seq(SUBSET Values), xrip : Seq(SUBSET Values),
   bearer : BearerType, known : SUBSET STRING, device : Values, object : SUBSET Values,
   operation : Operations]

\* The values of a file are not restricted to those that Validate accepts, nor
\* the bearer to one that somebody signed.
ASSUME AccessAssumption ==
  /\ Files \subseteq FileType
  /\ Contacts \subseteq ContactType

isTrustedProxy(f, ip) == ip # {} /\ ip \subseteq TrustedProxyNets(f)

\* Mutant of clientIP: X-Real-IP is taken from everybody.
clientIPReal(f, c) ==
  LET Parsed(header) == IF header = << >> THEN {} ELSE header[1]
  IN  IF Parsed(c.xrip) # {} THEN Parsed(c.xrip) ELSE c.peer

clientIP(f, c) ==
  LET Parsed(header) == IF header = << >> THEN {} ELSE header[1]
  IN  CASE isTrustedProxy(f, c.peer) /\ Parsed(c.xff) # {} -> Parsed(c.xff)
        [] isTrustedProxy(f, c.peer) /\ Parsed(c.xff) = {} /\ Parsed(c.xrip) # {} -> Parsed(c.xrip)
        [] OTHER -> c.peer

newCaller(f, c) ==
  LET who == Authenticate(f, c.bearer, c.known)
  IN  [device |-> c.device, ip |-> clientIP(f, c), operation |-> c.operation,
       token |-> who.token, claims |-> who.claims, object |-> c.object]

AccessInit ==
  /\ file \in Files
  /\ contact \in Contacts
  /\ stage = "loading"
  /\ rules = IF Load(file) THEN AuthzRules(file) ELSE << >>
  /\ req = newCaller(file, contact)
  /\ i = 1
  /\ result = Result(rules, 0)
  /\ trace = << >>
  /\ running = TRUE

Start ==
  /\ stage = "loading"
  /\ stage' = IF Load(file) THEN "serving" ELSE "refused"
  /\ UNCHANGED << vars, file, contact >>

evaluate == stage = "serving" /\ Next /\ UNCHANGED accessVars

\* Server.allowed.
allowed ==
  /\ stage = "serving"
  /\ ~running
  /\ stage' = IF /\ result.allowed
                 /\ \/ RequiredPermission(req.operation) # "readwrite"
                    \/ result.permission = "readwrite"
              THEN "allowed" ELSE "denied"
  /\ UNCHANGED << vars, file, contact >>

AccessNext == Start \/ evaluate \/ allowed

AccessSpec == AccessInit /\ [][AccessNext]_<< vars, accessVars >>

-----------------------------------------------------------------------------
(* Properties.                                                             *)

\* Somebody whom the configuration trusts made the credential: it is a
\* configured token; or signed with the shared secret, if there is one; or with
\* the private key of a configured issuer, for the proxy's audience.
Vouched(b) ==
  \/ \E k \in DOMAIN file.tokens : file.tokens[k].token = b.text
  \/ b.alg \in HMACs /\ file.jwtSecret # "" /\ b.key = file.jwtSecret
  \/ b.alg \in asymmetricAlgs
       /\ \E k \in DOMAIN file.oidc : b.key = file.oidc[k].issuer /\ file.oidc[k].audience \in b.aud

\* "an issuer's keys are public, so accepting HS256 "signed" with one would
\* let anyone forge tokens" (oidc.go:52-55), and "access tokens the issuer
\* made for any other application" are not accepted (config.go:214): whatever
\* the file, once it is accepted, nobody passes for somebody else, and the
\* issuer of a token that rules can look at is the one that signed it.
IdentityVouched ==
  /\ stage # "loading" /\ stage # "refused"
  /\ req.token \cup UNION {req.claims[f] : f \in Fields} # {}
  => /\ Vouched(contact.bearer)
     /\ contact.bearer.alg \in asymmetricAlgs /\ req.token = {}
          => contact.bearer.iss = contact.bearer.key

\* "a client can't spoof its way past an ip authorization condition"
\* (config.go:53-57): unless the peer is a trusted proxy, the verdict does not
\* depend on the headers it sends.
HeadersPowerless ==
  stage \in {"allowed", "denied"} /\ contact.peer \cap TrustedProxyNets(file) = {} =>
    (stage = "allowed")
      = Allowed([req EXCEPT !.ip = contact.peer], AuthzRules(file))

\* A request is allowed only with a permission, readonly or readwrite, that a
\* rule of the file grants in so many words: no file that Load accepts lets
\* an allow rule through without one (config.go:243-252).
AllowedWithPermission ==
  stage = "allowed" =>
    /\ result.permission \in Permissions
    /\ req.operation = "write-property" => result.permission = "readwrite"
=============================================================================
