----------------------------- MODULE MCOidcKeys -----------------------------
(* Instances of OidcKeys for TLC. *)
EXTENDS OidcKeys, TLC

Symmetry == Permutations(Callers) \cup Permutations(Fetchers)
=============================================================================
