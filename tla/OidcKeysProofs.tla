--------------------------- MODULE OidcKeysProofs ---------------------------
(***************************************************************************)
(* Proofs about the signing keys of an issuer, for any number of callers,  *)
(* any refresh interval, key age and fetch timeout, and any number of      *)
(* rotations: one fetch at a time, keys that never go back, and no token   *)
(* refused for a key that could have been known.                           *)
(***************************************************************************)
EXTENDS OidcKeys, FiniteSetTheorems, TLAPS

-----------------------------------------------------------------------------
(* The inductive invariant                                                 *)

Runs(f) == fetching[f] # 0
NoneRuns == \A f \in Fetchers : ~ Runs(f)

\* inflight is the one fetch that runs.
OneRuns ==
  /\ \A f, g \in Fetchers : Runs(f) /\ Runs(g) => f = g
  /\ inflight <=> ~ NoneRuns

\* Nobody waits for a fetch that does not run.
Awaited == \A c \in Callers : pc[c] = "wait" => inflight

\* What is held is no newer than what a running fetch will bring.
Versions ==
  /\ keys <= issuer
  /\ \A f \in Fetchers : Runs(f) => keys <= fetching[f] /\ fetching[f] <= issuer

\* A fetch runs no longer than its timeout.
Prompt == ~ NoneRuns => sinceStart <= FetchTime

\* A fetch that began after the issuer's keys were published reads them.
Current ==
  sinceStart < published =>
    /\ \A f \in Fetchers : Runs(f) => fetching[f] = issuer
    /\ NoneRuns => lastFailed \/ keys = issuer

\* The caller asked for a key the issuer had long published, and has not
\* returned.
Asks(c) == pc[c] \in {"wait", "recheck"} /\ settled[c]

\* Every fetch that runs while such a caller is there brings its key, and when
\* it looks again the key has come unless the fetch failed.
Served(c) ==
  /\ kid[c] <= issuer
  /\ \A f \in Fetchers : Runs(f) => kid[c] <= fetching[f]
  /\ pc[c] = "recheck" => lastFailed \/ kid[c] <= keys
AllServed == \A c \in Callers : Asks(c) => Served(c)

\* The part that is about fetches, and the whole.
Fetches == OneRuns /\ Versions /\ Prompt /\ Current
IInv == TypeOK /\ Fetches /\ Awaited /\ AllServed

-----------------------------------------------------------------------------
(* Steps                                                                   *)

\* The proxy starts with one fetch of the keys the issuer publishes.
LEMMA IInvInit == Init => IInv
<1> SUFFICES ASSUME Init
             PROVE  IInv
  OBVIOUS
<1>1. PICK f \in Fetchers : fetching = [g \in Fetchers |-> IF g = f THEN 1 ELSE 0]
  BY DEF Init
<1>2. MinRefresh \in Nat /\ MaxKeyAge \in Nat /\ FetchTime \in Nat
      /\ MaxVersion \in Nat /\ MaxVersion >= 1
  BY OidcAssumption
<1>3. TypeOK
  <2>1. fetching \in [Fetchers -> 0 .. MaxVersion]
    BY <1>1, <1>2
  <2>2. pc \in [Callers -> {"idle", "wait", "recheck"}]
    BY DEF Init
  <2>3. kid \in [Callers -> 0 .. MaxVersion] /\ settled \in [Callers -> BOOLEAN]
    BY <1>2 DEF Init
  <2>4. inflight \in BOOLEAN /\ lastFailed \in BOOLEAN
    BY DEF Init
  <2>5. /\ issuer \in 1 .. MaxVersion /\ published \in 0 .. MinRefresh
        /\ keys \in 0 .. MaxVersion /\ keysAge \in 0 .. MaxKeyAge + 1
        /\ sinceStart \in 0 .. MinRefresh
    BY <1>2 DEF Init
  <2> QED
    BY <2>1, <2>2, <2>3, <2>4, <2>5 DEF TypeOK
<1>4. Fetches
  BY <1>1, <1>2 DEF Init, Fetches, OneRuns, Versions, Prompt, Current, Runs, NoneRuns
<1>5. Awaited /\ AllServed
  BY DEF Init, Awaited, AllServed, Asks
<1> QED
  BY <1>3, <1>4, <1>5 DEF IInv

\* startFetchLocked, whether it starts a fetch or not: a fetch it starts is the
\* only one, and reads what is published now.
LEMMA StartOrNot ==
  ASSUME IInv, IF MayFetch THEN StartFetch ELSE NoFetch,
         UNCHANGED <<issuer, published, keys, lastFailed>>
  PROVE  /\ Fetches'
         /\ sinceStart' \in 0 .. MinRefresh
         /\ inflight' \in BOOLEAN
         /\ fetching' \in [Fetchers -> 0 .. MaxVersion]
         /\ inflight => inflight'
         /\ \A f \in Fetchers : Runs(f)' => \/ fetching'[f] = issuer
                                           \/ (Runs(f) /\ fetching'[f] = fetching[f])
<1>1. /\ MinRefresh \in Nat /\ FetchTime \in Nat /\ MaxVersion \in Nat
      /\ issuer \in 1 .. MaxVersion /\ keys \in 0 .. MaxVersion
      /\ sinceStart \in 0 .. MinRefresh /\ published \in 0 .. MinRefresh
      /\ inflight \in BOOLEAN /\ fetching \in [Fetchers -> 0 .. MaxVersion]
  BY OidcAssumption DEF IInv, TypeOK
<1>2. OneRuns /\ Versions /\ Prompt /\ Current
  BY DEF IInv, Fetches
<1>3. CASE MayFetch /\ StartFetch
  <2>1. NoneRuns /\ sinceStart' = 0 /\ inflight' = TRUE
    BY <1>2, <1>3 DEF OneRuns, MayFetch, StartFetch
  <2>2. PICK f \in Fetchers : fetching' = [fetching EXCEPT ![f] = issuer]
    BY <1>3 DEF StartFetch
  <2>3. \A g \in Fetchers : Runs(g)' <=> g = f
    BY <1>1, <2>1, <2>2 DEF NoneRuns, Runs
  <2>4. fetching'[f] = issuer
    BY <1>1, <2>2
  <2>5. OneRuns'
    BY <2>1, <2>3 DEF OneRuns, NoneRuns
  <2>6. Versions'
    BY <1>1, <1>2, <2>3, <2>4 DEF Versions
  <2>7. Prompt' /\ Current'
    BY <1>1, <2>1, <2>3, <2>4 DEF Prompt, Current, NoneRuns
  <2>8. fetching' \in [Fetchers -> 0 .. MaxVersion] /\ sinceStart' \in 0 .. MinRefresh
    BY <1>1, <2>1, <2>2
  <2>9. inflight' \in BOOLEAN /\ (inflight => inflight')
    BY <2>1
  <2>10. Fetches'
    BY <2>5, <2>6, <2>7 DEF Fetches
  <2>11. \A g \in Fetchers : Runs(g)' => fetching'[g] = issuer
    BY <2>3, <2>4
  <2> QED
    BY <2>8, <2>9, <2>10, <2>11
<1>4. CASE NoFetch
  <2>1. UNCHANGED <<sinceStart, inflight, fetching>>
    BY <1>4 DEF NoFetch
  <2> QED
    BY <1>1, <1>2, <2>1
    DEF Fetches, OneRuns, Versions, Prompt, Current, Runs, NoneRuns
<1> QED
  BY <1>3, <1>4

\* A caller that is there stays served when a fetch starts or not.
LEMMA ServedOn ==
  ASSUME IInv, NEW c \in Callers, Asks(c), IF MayFetch THEN StartFetch ELSE NoFetch,
         UNCHANGED <<issuer, published, keys, lastFailed>>,
         pc'[c] = pc[c], kid'[c] = kid[c]
  PROVE  Served(c)'
<1>1. Served(c)
  BY DEF IInv, AllServed
<1>2. \A f \in Fetchers : Runs(f)' => \/ fetching'[f] = issuer
                                      \/ (Runs(f) /\ fetching'[f] = fetching[f])
  BY StartOrNot
<1> QED
  BY <1>1, <1>2 DEF Served

\* A caller whose key is known keeps the invariant.
LEMMA KeyKnownKeeps ==
  ASSUME IInv, NEW c \in Callers, NEW k \in 0 .. issuer, KeyKnown(c, k)
  PROVE  IInv'
<1>1. /\ NoFetch \/ IF MayFetch THEN StartFetch ELSE NoFetch
      /\ UNCHANGED <<issuer, published, keys, keysAge, lastFailed, pc, kid, settled>>
  BY DEF KeyKnown
<1>2. CASE NoFetch
  BY <1>1, <1>2 DEF IInv, TypeOK, NoFetch, Fetches, OneRuns, Versions, Prompt,
     Current, Runs, NoneRuns, Awaited, AllServed, Asks, Served
<1>3. CASE IF MayFetch THEN StartFetch ELSE NoFetch
  <2>1. UNCHANGED <<issuer, published, keys, keysAge, lastFailed, pc, kid, settled>>
    BY <1>1
  <2>2. TypeOK' /\ Fetches' /\ Awaited'
    BY <1>3, <2>1, StartOrNot DEF IInv, TypeOK, Awaited
  <2>3. AllServed'
    BY <1>3, <2>1, ServedOn DEF AllServed, Asks
  <2> QED
    BY <2>2, <2>3 DEF IInv
<1> QED
  BY <1>1, <1>2, <1>3

\* A caller whose key is unknown keeps the invariant: if the issuer published it
\* long ago then the fetch the caller waits for brings it, or the last one failed.
LEMMA KeyUnknownKeeps ==
  ASSUME IInv, NEW c \in Callers, NEW k \in 0 .. issuer, KeyUnknown(c, k)
  PROVE  IInv'
<1>1. /\ IF MayFetch THEN StartFetch ELSE NoFetch
      /\ UNCHANGED <<issuer, published, keys, keysAge, lastFailed>>
      /\ pc' = [pc EXCEPT ![c] = IF inflight' THEN "wait" ELSE "recheck"]
      /\ kid' = [kid EXCEPT ![c] = k]
      /\ settled' = [settled EXCEPT ![c] = /\ published >= MinRefresh
                                           /\ k \in JWKS(issuer)]
  BY DEF KeyUnknown
<1>2. /\ MinRefresh \in Nat /\ FetchTime \in Nat /\ MaxVersion \in Nat
      /\ FetchTime < MinRefresh
      /\ issuer \in 1 .. MaxVersion /\ keys \in 0 .. MaxVersion
      /\ sinceStart \in 0 .. MinRefresh /\ published \in 0 .. MinRefresh
      /\ pc \in [Callers -> {"idle", "wait", "recheck"}]
      /\ kid \in [Callers -> 0 .. MaxVersion] /\ settled \in [Callers -> BOOLEAN]
  BY OidcAssumption DEF IInv, TypeOK
<1>3. /\ Fetches' /\ (inflight => inflight')
      /\ sinceStart' \in 0 .. MinRefresh /\ inflight' \in BOOLEAN
      /\ fetching' \in [Fetchers -> 0 .. MaxVersion]
  BY <1>1, StartOrNot
<1>4. TypeOK'
  <2>1. /\ pc' \in [Callers -> {"idle", "wait", "recheck"}]
        /\ kid' \in [Callers -> 0 .. MaxVersion]
    BY <1>1, <1>2
  <2>2. settled' \in [Callers -> BOOLEAN]
    BY <1>1, <1>2
  <2> QED
    BY <1>1, <1>3, <2>1, <2>2 DEF IInv, TypeOK
<1>5. Awaited'
  BY <1>1, <1>2, <1>3 DEF IInv, Awaited
<1>6. ASSUME NEW d \in Callers, d # c, Asks(d)'
      PROVE  Served(d)'
  <2>1. pc'[d] = pc[d] /\ kid'[d] = kid[d] /\ settled'[d] = settled[d]
    BY <1>1, <1>2, <1>6
  <2> QED
    BY <1>1, <1>6, <2>1, ServedOn DEF Asks
<1>7. ASSUME Asks(c)'
      PROVE  Served(c)'
  <2>1. kid'[c] = k /\ settled'[c] /\ pc'[c] = IF inflight' THEN "wait" ELSE "recheck"
    BY <1>1, <1>2, <1>7 DEF Asks
  <2>2. published >= MinRefresh
    BY <1>1, <1>2, <2>1
  <2>3. OneRuns /\ Versions /\ Prompt /\ Current
    BY DEF IInv, Fetches
  <2>4. ASSUME NEW f \in Fetchers, Runs(f)
        PROVE  fetching[f] = issuer
    BY <1>2, <2>2, <2>3, <2>4 DEF Prompt, Current, NoneRuns
  <2>5. \A f \in Fetchers : Runs(f)' => k <= fetching'[f]
    BY <1>1, <1>2, <2>4, StartOrNot
  <2>6. ASSUME ~ inflight'
        PROVE  lastFailed \/ keys = issuer
    <3>1. ~ inflight /\ ~ MayFetch
      BY <1>1, <1>3, <2>6 DEF StartFetch
    <3>2. sinceStart < published
      BY <1>2, <2>2, <3>1 DEF MayFetch
    <3> QED
      BY <2>3, <3>1, <3>2 DEF OneRuns, Current
  <2> QED
    BY <1>1, <1>2, <2>1, <2>5, <2>6 DEF Served
<1> QED
  BY <1>3, <1>4, <1>5, <1>6, <1>7 DEF IInv, AllServed

\* The end of a fetch keeps the invariant: it brings keys at least as new as what
\* was published when it began, or it failed.
LEMMA FetchKeeps ==
  ASSUME IInv, NEW f \in Fetchers, FetchOk(f) \/ FetchFail(f)
  PROVE  IInv'
<1>1. /\ FetchEnds(f) /\ Runs(f)
      /\ \/ keys' \in fetching[f] .. issuer /\ keysAge' = 0 /\ lastFailed' = FALSE
         \/ lastFailed' = TRUE /\ UNCHANGED <<keys, keysAge>>
  BY DEF FetchOk, FetchFail, Running, Runs
<1>2. /\ issuer' = issuer /\ published' = published /\ sinceStart' = sinceStart
      /\ kid' = kid /\ settled' = settled /\ inflight' = FALSE
      /\ fetching' = [fetching EXCEPT ![f] = 0]
      /\ pc' = [c \in Callers |-> IF pc[c] = "wait" THEN "recheck" ELSE pc[c]]
  BY <1>1 DEF FetchEnds
<1>3. /\ MinRefresh \in Nat /\ MaxVersion \in Nat /\ MaxKeyAge \in Nat
      /\ issuer \in 1 .. MaxVersion /\ keys \in 0 .. MaxVersion
      /\ fetching \in [Fetchers -> 0 .. MaxVersion]
      /\ pc \in [Callers -> {"idle", "wait", "recheck"}]
      /\ kid \in [Callers -> 0 .. MaxVersion]
  BY OidcAssumption DEF IInv, TypeOK
<1>4. OneRuns /\ Versions /\ Prompt /\ Current
  BY DEF IInv, Fetches
<1>5. NoneRuns'
  BY <1>1, <1>2, <1>3, <1>4 DEF OneRuns, NoneRuns, Runs
<1>6. keys' \in 0 .. issuer /\ keys <= keys'
  BY <1>1, <1>3, <1>4 DEF Versions
<1>7. lastFailed' \/ keys' >= fetching[f]
  BY <1>1, <1>3
<1>8. TypeOK'
  <2>1. keysAge' \in 0 .. MaxKeyAge + 1
    BY <1>1, <1>3 DEF IInv, TypeOK
  <2>4. lastFailed' \in BOOLEAN
    BY <1>1
  <2>2. keys' \in 0 .. MaxVersion
    BY <1>3, <1>6
  <2>3. /\ fetching' \in [Fetchers -> 0 .. MaxVersion]
        /\ pc' \in [Callers -> {"idle", "wait", "recheck"}]
    BY <1>2, <1>3
  <2> QED
    BY <1>2, <2>1, <2>2, <2>3, <2>4 DEF IInv, TypeOK
<1>9. Fetches'
  <2>1. OneRuns' /\ Versions' /\ Prompt'
    BY <1>2, <1>3, <1>5, <1>6 DEF OneRuns, Versions, Prompt, NoneRuns
  <2>2. Current'
    BY <1>1, <1>2, <1>3, <1>4, <1>5, <1>6, <1>7 DEF Current, NoneRuns
  <2> QED
    BY <2>1, <2>2 DEF Fetches
<1>10. Awaited'
  BY <1>2, <1>3 DEF Awaited
<1>11. ASSUME NEW c \in Callers, Asks(c)'
       PROVE  Served(c)'
  <2>1. Asks(c)
    BY <1>2, <1>3, <1>11 DEF Asks
  <2>2. kid[c] <= issuer /\ kid[c] <= fetching[f]
    BY <1>1, <2>1 DEF IInv, AllServed, Served
  <2>3. lastFailed' \/ kid[c] <= keys'
    BY <1>3, <1>6, <1>7, <2>2
  <2> QED
    BY <1>2, <1>5, <2>2, <2>3 DEF Served, NoneRuns
<1> QED
  BY <1>8, <1>9, <1>10, <1>11 DEF IInv, AllServed

\* A caller that returns keeps the invariant.
LEMMA ReturnKeeps ==
  ASSUME IInv, NEW c \in Callers, CtxDone(c) \/ Recheck(c)
  PROVE  IInv'
<1>1. /\ pc' = [pc EXCEPT ![c] = "idle"]
      /\ UNCHANGED <<issuer, published, keys, keysAge, sinceStart, inflight,
                     fetching, lastFailed, kid, settled>>
  BY DEF CtxDone, Recheck
<1>2. pc \in [Callers -> {"idle", "wait", "recheck"}]
  BY DEF IInv, TypeOK
<1>3. /\ pc' \in [Callers -> {"idle", "wait", "recheck"}]
      /\ \A d \in Callers : pc'[d] \in {"idle", pc[d]}
  BY <1>1, <1>2
<1>4. TypeOK'
  BY <1>1, <1>3 DEF IInv, TypeOK
<1>5. Fetches'
  BY <1>1 DEF IInv, Fetches, OneRuns, Versions, Prompt, Current, Runs, NoneRuns
<1>6. Awaited' /\ AllServed'
  BY <1>1, <1>3 DEF IInv, Awaited, AllServed, Asks, Served, Runs
<1> QED
  BY <1>4, <1>5, <1>6 DEF IInv

\* A rotation keeps the invariant: it is the latest moment of all.
LEMMA RotateKeeps == IInv /\ Rotate => IInv'
<1> SUFFICES ASSUME IInv, Rotate
             PROVE  IInv'
  OBVIOUS
<1>1. /\ issuer' = issuer + 1 /\ published' = 0 /\ issuer < MaxVersion
      /\ UNCHANGED <<keys, keysAge, sinceStart, inflight, fetching, lastFailed,
                     pc, kid, settled>>
  BY DEF Rotate
<1>2. /\ MinRefresh \in Nat /\ MaxVersion \in Nat /\ issuer \in 1 .. MaxVersion
      /\ keys \in 0 .. MaxVersion /\ sinceStart \in 0 .. MinRefresh
      /\ fetching \in [Fetchers -> 0 .. MaxVersion]
      /\ kid \in [Callers -> 0 .. MaxVersion]
  BY OidcAssumption DEF IInv, TypeOK
<1>3. TypeOK'
  <2>1. issuer' \in 1 .. MaxVersion /\ published' \in 0 .. MinRefresh
    BY <1>1, <1>2
  <2> QED
    BY <1>1, <2>1 DEF IInv, TypeOK
<1>4. OneRuns' /\ Prompt' /\ Awaited'
  BY <1>1 DEF IInv, Fetches, OneRuns, Prompt, Awaited, Runs, NoneRuns
<1>5. Versions'
  BY <1>1, <1>2 DEF IInv, Fetches, Versions, Runs
<1>6. Current'
  BY <1>1, <1>2 DEF Current
<1>7. AllServed'
  BY <1>1, <1>2 DEF IInv, AllServed, Asks, Served, Runs
<1> QED
  BY <1>3, <1>4, <1>5, <1>6, <1>7 DEF IInv, Fetches

\* The passing of time keeps the invariant: of two moments the later one stays
\* the later.
LEMMA TickKeeps == IInv /\ Tick => IInv'
<1> SUFFICES ASSUME IInv, Tick
             PROVE  IInv'
  OBVIOUS
<1>1. /\ published' = Later(published, MinRefresh)
      /\ sinceStart' = Later(sinceStart, MinRefresh)
      /\ keysAge' = Later(keysAge, MaxKeyAge + 1)
      /\ UNCHANGED <<issuer, keys, inflight, fetching, lastFailed, pc, kid, settled>>
  BY DEF Tick
<1>2. /\ MinRefresh \in Nat /\ MaxKeyAge \in Nat /\ FetchTime \in Nat
      /\ FetchTime < MinRefresh
      /\ published \in 0 .. MinRefresh /\ sinceStart \in 0 .. MinRefresh
      /\ keysAge \in 0 .. MaxKeyAge + 1
  BY OidcAssumption DEF IInv, TypeOK
<1>3. TypeOK'
  <2>1. /\ published' \in 0 .. MinRefresh /\ sinceStart' \in 0 .. MinRefresh
        /\ keysAge' \in 0 .. MaxKeyAge + 1
    BY <1>1, <1>2 DEF Later
  <2> QED
    BY <1>1, <2>1 DEF IInv, TypeOK
<1>4. OneRuns' /\ Versions' /\ Awaited' /\ AllServed'
  BY <1>1 DEF IInv, Fetches, OneRuns, Versions, Awaited, AllServed, Asks, Served,
              Runs, NoneRuns
<1>5. Prompt'
  <2>1. ~ NoneRuns => sinceStart < FetchTime
    BY DEF Tick, Running, NoneRuns, Runs
  <2>2. NoneRuns' <=> NoneRuns
    BY <1>1 DEF NoneRuns, Runs
  <2> QED
    BY <1>1, <1>2, <2>1, <2>2 DEF Prompt, Later
<1>6. Current'
  <2>1. sinceStart' < published' => sinceStart < published
    BY <1>1, <1>2 DEF Later
  <2> QED
    BY <1>1, <2>1 DEF IInv, Fetches, Current, Runs, NoneRuns
<1> QED
  BY <1>3, <1>4, <1>5, <1>6 DEF IInv, Fetches

\* Every step of the verifier, the issuer and the clock keeps the invariant.
LEMMA IInvNext == IInv /\ [Next]_vars => IInv'
<1> SUFFICES ASSUME IInv, [Next]_vars
             PROVE  IInv'
  OBVIOUS
<1>1. CASE \E c \in Callers : KeyCall(c)
  BY <1>1, KeyKnownKeeps, KeyUnknownKeeps DEF KeyCall
<1>2. CASE \E c \in Callers : CtxDone(c) \/ Recheck(c)
  BY <1>2, ReturnKeeps
<1>3. CASE \E f \in Fetchers : FetchOk(f) \/ FetchFail(f)
  BY <1>3, FetchKeeps
<1>4. CASE Rotate
  BY <1>4, RotateKeeps
<1>5. CASE Tick
  BY <1>5, TickKeeps
<1>6. CASE UNCHANGED vars
  BY <1>6 DEF IInv, TypeOK, Fetches, OneRuns, Versions, Prompt, Current, Runs,
              NoneRuns, Awaited, AllServed, Asks, Served, vars
<1> QED
  BY <1>1, <1>2, <1>3, <1>4, <1>5, <1>6 DEF Next

-----------------------------------------------------------------------------
(* What follows                                                            *)

\* The state of the verifier stays well-typed: in particular no version of the
\* keys is held or fetched that the issuer has not published.
THEOREM TypeCorrect == Spec => []TypeOK
<1>1. Spec => []IInv
  BY IInvInit, IInvNext, PTL DEF Spec
<1>2. IInv => TypeOK
  BY DEF IInv
<1> QED
  BY <1>1, <1>2, PTL

\* At most one fetch of the issuer's keys runs, inflight says whether one does,
\* and nobody waits for a channel that no fetch will close (startFetchLocked).
THEOREM OneFetch == Spec => []SingleFetch
<1>1. Spec => []IInv
  BY IInvInit, IInvNext, PTL DEF Spec
<1>2. IInv => SingleFetch
  <2> SUFFICES ASSUME IInv
               PROVE  SingleFetch
    OBVIOUS
  <2>1. OneRuns /\ Awaited
    BY DEF IInv, Fetches
  <2>2. inflight <=> Running # {}
    BY <2>1 DEF OneRuns, NoneRuns, Running, Runs
  <2>3. Running = {} \/ \E f : Running = {f}
    BY <2>1 DEF OneRuns, Running, Runs
  <2>4. Cardinality(Running) \in {0, 1}
    BY <2>3, FS_EmptySet, FS_Singleton, Zenon
  <2> QED
    BY <2>1, <2>2, <2>4 DEF SingleFetch, Awaited
<1> QED
  BY <1>1, <1>2, PTL

\* A caller whose token names a key published minRefreshInterval before is not
\* refused unless the last fetch failed or the key was withdrawn since (key).
THEOREM SettledKeyIsFound == Spec => []SettledKeyFound
<1>1. Spec => []IInv
  BY IInvInit, IInvNext, PTL DEF Spec
<1>2. IInv => SettledKeyFound
  <2> SUFFICES ASSUME IInv, NEW c \in Callers, pc[c] = "recheck", settled[c],
                      kid[c] \in JWKS(issuer), ~ lastFailed
               PROVE  kid[c] \in JWKS(keys)
    BY DEF SettledKeyFound
  <2>1. kid[c] <= keys
    BY DEF IInv, AllServed, Asks, Served
  <2>2. keys <= issuer
    BY DEF IInv, Fetches, Versions
  <2>3. keys \in Int /\ issuer \in Int /\ kid[c] \in Int
    BY OidcAssumption DEF IInv, TypeOK
  <2> QED
    BY <2>1, <2>2, <2>3 DEF JWKS
<1> QED
  BY <1>1, <1>2, PTL

\* The keys held never go back to a version that was replaced before they were
\* fetched (the fetch goroutine of startFetchLocked).
THEOREM KeysNeverGoBack == Spec => KeysMonotone
<1>1. Spec => []IInv
  BY IInvInit, IInvNext, PTL DEF Spec
<1>2. IInv /\ [Next]_vars => [keys' >= keys]_vars
  <2> SUFFICES ASSUME IInv, [Next]_vars
               PROVE  keys' >= keys
    OBVIOUS
  <2>1. keys \in Int /\ issuer \in Int /\ fetching \in [Fetchers -> Int]
    BY OidcAssumption DEF IInv, TypeOK
  <2>2. CASE keys' = keys
    BY <2>1, <2>2
  <2>3. ASSUME NEW f \in Fetchers, FetchOk(f)
        PROVE  keys' >= keys
    BY <2>1, <2>3 DEF IInv, Fetches, Versions, FetchOk, Running, Runs
  <2> QED
    BY <2>2, <2>3 DEF Next, vars, KeyCall, KeyKnown, KeyUnknown, CtxDone, Recheck,
                      FetchFail, Rotate, Tick
<1> QED
  BY <1>1, <1>2, PTL DEF Spec, KeysMonotone
=============================================================================
