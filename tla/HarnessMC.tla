------------------------------ MODULE HarnessMC ------------------------------
(* Instances of Harness for TLC. *)
EXTENDS Harness, TLC

\* Nothing compares or orders tool calls; inputs are too few to gain by it.
Interchangeable == Permutations(Tools)
=============================================================================
