----------------------------- MODULE TerminalMC -----------------------------
(* Instances of Terminal for TLC. *)
EXTENDS Terminal
=============================================================================
