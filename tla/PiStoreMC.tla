------------------------------ MODULE PiStoreMC ------------------------------
(* Instances of PiStore for TLC. *)
EXTENDS PiStore, TLC

\* Identities are compared and nothing else, and no scope is special.
Interchangeable == Permutations(Ids) \cup Permutations(Scopes)
=============================================================================
