----------------------------- MODULE RuntimeMC -----------------------------
(* Instances of Runtime for TLC. *)
EXTENDS Runtime, TLC

\* The IDs are interchangeable: nothing compares or orders them.
Interchangeable ==
  Permutations(Sessions) \cup Permutations(Turns) \cup Permutations(Requests)
=============================================================================
