-------------------------- MODULE PiProjectionMC ---------------------------
(* Instances of PiProjection for TLC. *)
EXTENDS PiProjection
=============================================================================
