------------------------------- MODULE MCLog --------------------------------
(* Instances of the logger for TLC. *)
EXTENDS LogProperties
=============================================================================
