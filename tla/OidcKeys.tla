------------------------------ MODULE OidcKeys ------------------------------
(***************************************************************************)
(* The signing keys of one OpenID Connect issuer: oidcVerifier.key,        *)
(* startFetchLocked, prefetch and the fetch goroutine                      *)
(* (internal/auth/oidc.go), with requests whose tokens name a key ID, and  *)
(* an issuer that rotates its keys.                                        *)
(*                                                                         *)
(* The issuer's key set is represented by its version: version n publishes *)
(* the key introduced with n and, for the overlap, the one before.  The    *)
(* whole of fetchKeys is one read of that version, at some moment between  *)
(* the fetch's start and its end, or a failure.  Elapsed times are         *)
(* counters that stop at the first value no guard can tell from larger     *)
(* ones, so time itself is not bounded.                                    *)
(***************************************************************************)
EXTENDS Integers, FiniteSets

CONSTANTS
  Callers,     \* request goroutines verifying a token
  Fetchers,    \* fetch goroutines
  MinRefresh,  \* minRefreshInterval: one minute
  MaxKeyAge,   \* keysMaxAge: one hour
  FetchTime,   \* fetchTimeout: ten seconds
  MaxVersion   \* bound on the issuer's rotations

ASSUME OidcAssumption ==
  /\ MinRefresh \in Nat /\ MaxKeyAge \in Nat /\ FetchTime \in Nat
  /\ FetchTime < MinRefresh
  /\ MaxVersion \in Nat \ {0}

VARIABLES
  issuer,      \* version the issuer publishes now
  published,   \* time since it was published
  keys,        \* oidcVerifier.keys: the version held, 0 for nil
  keysAge,     \* time since oidcVerifier.fetched
  sinceStart,  \* time since oidcVerifier.lastAttempt
  inflight,    \* oidcVerifier.inflight is not nil
  fetching,    \* per fetch goroutine, the version published when it began,
               \* or 0 when it is not running
  lastFailed,  \* the last fetch to end failed
  pc,          \* where each caller stands in key
  kid,         \* the key ID its token names; 0 is one nobody published
  settled      \* that key had been published for MinRefresh when it called

vars == <<issuer, published, keys, keysAge, sinceStart, inflight, fetching,
          lastFailed, pc, kid, settled>>
-----------------------------------------------------------------------------
\* The key IDs in version n of the issuer's key set.
JWKS(n) == {k \in {n - 1, n} : k >= 1}

\* Time, as far as it matters: up to limit.
Later(t, limit) == IF t < limit THEN t + 1 ELSE t

Running == {f \in Fetchers : fetching[f] # 0}

\* NewAuthenticator has called prefetch.
Init ==
  /\ issuer = 1
  /\ published = MinRefresh
  /\ keys = 0
  /\ keysAge = 0
  /\ sinceStart = 0
  /\ inflight = TRUE
  /\ \E f \in Fetchers : fetching = [g \in Fetchers |-> IF g = f THEN 1 ELSE 0]
  /\ lastFailed = FALSE
  /\ pc = [c \in Callers |-> "idle"]
  /\ kid = [c \in Callers |-> 0]
  /\ settled = [c \in Callers |-> FALSE]
-----------------------------------------------------------------------------
(* startFetchLocked *)

\* Line 135.
MayFetch == ~ inflight /\ sinceStart >= MinRefresh

\* Mutant of StartFetch: inflight is not set.
StartUnmarked ==
  /\ sinceStart' = 0
  /\ inflight' = inflight
  /\ \E f \in Fetchers \ Running :
       fetching' = [fetching EXCEPT ![f] = issuer]

\* Lines 138-142.
StartFetch ==
  /\ sinceStart' = 0
  /\ inflight' = TRUE
  /\ \E f \in Fetchers \ Running :
       fetching' = [fetching EXCEPT ![f] = issuer]

\* Mutant of NoFetch: a refused attempt counts as one.
NoFetchCounts == sinceStart' = 0 /\ UNCHANGED <<inflight, fetching>>

\* Lines 135-137: a fetch is running, or the last one is too recent.
NoFetch == UNCHANGED <<sinceStart, inflight, fetching>>

\* Mutant of FetchEnds: its channel is not closed.
FetchEndsSilently(f) ==
  /\ fetching' = [fetching EXCEPT ![f] = 0]
  /\ inflight' = FALSE
  /\ UNCHANGED <<issuer, published, sinceStart, pc, kid, settled>>

\* Lines 143 and 154-155: the fetch ends; closing its channel wakes everybody
\* who waits for it.
FetchEnds(f) ==
  /\ fetching' = [fetching EXCEPT ![f] = 0]
  /\ inflight' = FALSE
  /\ pc' = [c \in Callers |-> IF pc[c] = "wait" THEN "recheck" ELSE pc[c]]
  /\ UNCHANGED <<issuer, published, sinceStart, kid, settled>>

\* Lines 148-152.
FetchOk(f) ==
  /\ f \in Running
  /\ keys' \in fetching[f] .. issuer
  /\ keysAge' = 0
  /\ lastFailed' = FALSE
  /\ FetchEnds(f)

\* Mutant of FetchFail: the keys are replaced by an empty set.
FetchFailClears(f) ==
  /\ f \in Running
  /\ keys' = 0
  /\ keysAge' = 0
  /\ lastFailed' = TRUE
  /\ FetchEnds(f)

\* Lines 145-146: the previous keys stay.
FetchFail(f) ==
  /\ f \in Running
  /\ lastFailed' = TRUE
  /\ FetchEnds(f)
  /\ UNCHANGED <<keys, keysAge>>
-----------------------------------------------------------------------------
(* key *)

\* Lines 102-109: a known key is returned at once, outdated or not.
KeyKnown(c, k) ==
  /\ pc[c] = "idle"
  /\ k \in JWKS(keys)
  /\ IF keysAge > MaxKeyAge /\ MayFetch THEN StartFetch ELSE NoFetch
  /\ UNCHANGED <<issuer, published, keys, keysAge, lastFailed, pc, kid,
                 settled>>

\* Mutant of KeyUnknown: the caller starts a fetch and does not wait for it.
KeyUnknownHasty(c, k) ==
  /\ pc[c] = "idle"
  /\ k \notin JWKS(keys)
  /\ IF MayFetch THEN StartFetch ELSE NoFetch
  /\ pc' = [pc EXCEPT ![c] = "recheck"]
  /\ kid' = [kid EXCEPT ![c] = k]
  /\ settled' = [settled EXCEPT ![c] = /\ published >= MinRefresh
                                       /\ k \in JWKS(issuer)]
  /\ UNCHANGED <<issuer, published, keys, keysAge, lastFailed>>

\* Lines 110-122: an unknown one waits for the running fetch, or a new one;
\* if neither is to be had it goes on to look again.
KeyUnknown(c, k) ==
  /\ pc[c] = "idle"
  /\ k \notin JWKS(keys)
  /\ IF MayFetch THEN StartFetch ELSE NoFetch
  /\ pc' = [pc EXCEPT ![c] = IF inflight' THEN "wait" ELSE "recheck"]
  /\ kid' = [kid EXCEPT ![c] = k]
  /\ settled' = [settled EXCEPT ![c] = /\ published >= MinRefresh
                                       /\ k \in JWKS(issuer)]
  /\ UNCHANGED <<issuer, published, keys, keysAge, lastFailed>>

\* Lines 119-120.
CtxDone(c) ==
  /\ pc[c] = "wait"
  /\ pc' = [pc EXCEPT ![c] = "idle"]
  /\ UNCHANGED <<issuer, published, keys, keysAge, sinceStart, inflight,
                 fetching, lastFailed, kid, settled>>

\* Lines 123-128: the key is there now, or the token is refused.
Recheck(c) ==
  /\ pc[c] = "recheck"
  /\ pc' = [pc EXCEPT ![c] = "idle"]
  /\ UNCHANGED <<issuer, published, keys, keysAge, sinceStart, inflight,
                 fetching, lastFailed, kid, settled>>
-----------------------------------------------------------------------------
(* Environment *)

Rotate ==
  /\ issuer < MaxVersion
  /\ issuer' = issuer + 1
  /\ published' = 0
  /\ UNCHANGED <<keys, keysAge, sinceStart, inflight, fetching, lastFailed,
                 pc, kid, settled>>

\* Time passes; no fetch runs longer than fetchTimeout.
Tick ==
  /\ Running # {} => sinceStart < FetchTime
  /\ published' = Later(published, MinRefresh)
  /\ sinceStart' = Later(sinceStart, MinRefresh)
  /\ keysAge' = Later(keysAge, MaxKeyAge + 1)
  /\ UNCHANGED <<issuer, keys, inflight, fetching, lastFailed, pc, kid,
                 settled>>

\* The tokens that arrive name keys the issuer has published at some time, or
\* one it has not.
KeyCall(c) ==
  \E k \in 0 .. issuer : KeyKnown(c, k) \/ KeyUnknown(c, k)

Next ==
  \/ \E c \in Callers : KeyCall(c) \/ CtxDone(c) \/ Recheck(c)
  \/ \E f \in Fetchers : FetchOk(f) \/ FetchFail(f)
  \/ Rotate
  \/ Tick

Spec == Init /\ [][Next]_vars

\* Goroutines run, time passes and fetches end.  For the rotation to be
\* noticed, tokens signed with the newest key must keep arriving, and not all
\* fetches may fail.
FairSpec ==
  /\ Spec
  /\ WF_vars(Tick)
  /\ \A c \in Callers : WF_vars(Recheck(c)) /\ WF_vars(KeyUnknown(c, issuer))
  /\ \A f \in Fetchers : /\ WF_vars(FetchOk(f) \/ FetchFail(f))
                         /\ SF_vars(FetchOk(f))
-----------------------------------------------------------------------------
(* Properties *)

\* The type of the state.
TypeOK ==
  /\ issuer \in 1 .. MaxVersion
  /\ published \in 0 .. MinRefresh
  /\ keys \in 0 .. MaxVersion
  /\ keysAge \in 0 .. MaxKeyAge + 1
  /\ sinceStart \in 0 .. MinRefresh
  /\ inflight \in BOOLEAN
  /\ fetching \in [Fetchers -> 0 .. MaxVersion]
  /\ lastFailed \in BOOLEAN
  /\ pc \in [Callers -> {"idle", "wait", "recheck"}]
  /\ kid \in [Callers -> 0 .. MaxVersion]
  /\ settled \in [Callers -> BOOLEAN]

\* "concurrent callers share it" (line 100): one fetch runs at a time, and
\* inflight says so; nobody waits for a fetch that is not running.
SingleFetch ==
  /\ Cardinality(Running) <= 1
  /\ inflight <=> Running # {}
  /\ \A c \in Callers : pc[c] = "wait" => inflight

\* The keys never go back to a version the issuer had replaced when they were
\* fetched: a withdrawn key that a fetch removed is not accepted again.
KeysMonotone == [][keys' >= keys]_vars

\* Rotation "is picked up automatically" (docs/configuration.md:125-128): a
\* token whose key was published at least minRefreshInterval before the call
\* is refused only if the last fetch failed or the key was withdrawn since,
\* whatever fetches, rate limits and earlier tokens with made-up key IDs it
\* runs into.
SettledKeyFound ==
  \A c \in Callers :
    /\ pc[c] = "recheck"
    /\ settled[c]
    /\ kid[c] \in JWKS(issuer)
    /\ ~ lastFailed
    => kid[c] \in JWKS(keys)

\* Nobody waits for ever: the fetch ends and wakes its waiters.
KeyReturns == \A c \in Callers : pc[c] # "idle" ~> pc[c] = "idle"

\* The newest keys are always fetched in the end.
RotationNoticed == []<>(keys = issuer)
=============================================================================
