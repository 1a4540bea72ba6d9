---------------------------- MODULE ExtensionsMC ----------------------------
(* Instances of Extensions for TLC. *)
EXTENDS Extensions
=============================================================================
