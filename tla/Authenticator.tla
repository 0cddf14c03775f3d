---------------------------- MODULE Authenticator ----------------------------
(***************************************************************************)
(* Who the bearer of a credential is (internal/auth/auth.go, and verify in *)
(* internal/auth/oidc.go).                                                 *)
(*                                                                         *)
(* A bearer is a record: text, the credential as it stands, "" if there is *)
(* none; and, if it parses as a JWT, its algorithm alg, the key it was     *)
(* signed with, the claims iss, aud (a set) and claims, and for exp, nbf   *)
(* and iat whether the time is "absent", "past" or "future", beyond the    *)
(* leeway.  alg is "" if it is no JWT.  An issuer's private key is named   *)
(* like the issuer; an HMAC with that name is one made with the public     *)
(* key, which everybody knows.                                             *)
(***************************************************************************)
EXTENDS Config

HMACs == {"HS256", "HS384", "HS512"}
asymmetricAlgs == {"RS256", "RS384", "RS512", "PS256", "PS384", "PS512",
                   "ES256", "ES384", "ES512", "EdDSA"}

NoClaims == [f \in Fields |-> {}]
Nobody == [token |-> {}, claims |-> NoClaims]

\* The map tokensByValue: of entries with the same value the last one stays.
tokensByValue(tokens) ==
  LET Last(v) == CHOOSE k \in DOMAIN tokens :
                   /\ tokens[k].token = v
                   /\ \A j \in DOMAIN tokens : tokens[j].token = v => j <= k
  IN  [v \in {tokens[k].token : k \in DOMAIN tokens} |-> tokens[Last(v)].name]

\* What the JWT library checks of the times unless told to check more.
Timely(b) == b.exp # "past" /\ b.nbf # "future"

verifyHMAC(file, b) ==
  IF file.jwtSecret # "" /\ b.alg \in HMACs /\ b.key = file.jwtSecret /\ Timely(b)
  THEN [token |-> {}, claims |-> b.claims] ELSE Nobody

\* known: the issuers whose signing keys have been fetched (OidcKeys).  The
\* library checks the audience only against one that is not empty.
verify(o, b, known) ==
  /\ b.alg \in asymmetricAlgs
  /\ b.key = o.issuer /\ o.issuer \in known
  /\ b.iss = o.issuer /\ o.audience \in b.aud \cup {""}
  /\ b.exp # "absent" /\ b.iat # "future" /\ Timely(b)

Authenticate(file, b, known) ==
  LET names == tokensByValue(AuthTokens(file))
      oidc  == AuthIssuers(file)
      named == {k \in DOMAIN oidc : oidc[k].issuer = b.iss}
  IN  IF b.text = "" THEN Nobody
      ELSE IF b.text \in DOMAIN names THEN [token |-> {names[b.text]}, claims |-> NoClaims]
      ELSE IF b.alg = "" THEN Nobody
      ELSE IF b.alg \in HMACs THEN verifyHMAC(file, b)
      ELSE IF \E k \in named : verify(oidc[k], b, known)
      THEN [token |-> {}, claims |-> b.claims] ELSE Nobody
=============================================================================
