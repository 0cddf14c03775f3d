------------------------------ MODULE MCLoader ------------------------------
(* An instance of Loader for TLC. *)
EXTENDS Loader

\* All objects have names, or the second has not.
MCNameless == {{}, {2}}
=============================================================================
