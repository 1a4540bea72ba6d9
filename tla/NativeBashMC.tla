---------------------------- MODULE NativeBashMC ----------------------------
(* Instances of NativeBash for TLC. *)
EXTENDS NativeBash, TLC

Interchangeable == Permutations(Tools)
=============================================================================
