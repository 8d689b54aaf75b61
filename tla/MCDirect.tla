------------------------------- MODULE MCDirect -------------------------------
(* One setting, and a datalogger that connects twice. *)
EXTENDS DirectControls
Always == [p \in Profiles |-> Settings]
=============================================================================
