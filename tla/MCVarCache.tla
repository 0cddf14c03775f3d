----------------------------- MODULE MCVarCache -----------------------------
(* Instances of VarCache for TLC. *)
EXTENDS VarCache, TLC

CONSTANTS g1, g2, h1, h2, e1, e2, e3

\* Two requests for one device meet, or one asks for two devices in turn.
TogetherOrInTurn == {g1 :> {h1} @@ g2 :> {h1}, g1 :> {} @@ g2 :> {h1, h2}}

\* The first device has an entry that can be made while an evicted one is in
\* use, and changes once.
TwoAndOne == e1 :> h1 @@ e2 :> h1 @@ e3 :> h2
FirstChanges == h1 :> 2 @@ h2 :> 1
=============================================================================
