---------------------------- MODULE LegacyLoopMC ----------------------------
(* Instances of LegacyLoop for TLC. *)
EXTENDS LegacyLoop, TLC

Interchangeable == Permutations(Tools)
=============================================================================
