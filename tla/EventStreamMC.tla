--------------------------- MODULE EventStreamMC ---------------------------
(* Instances of EventStream for TLC. *)
EXTENDS EventStream, TLC

Interchangeable == Permutations(Readers)
=============================================================================
