------------------------------ MODULE MCAgent ------------------------------
(* Instances of Agent for TLC: the users that the relay announces. *)
EXTENDS Agent

OneUser == {"u1"}
TwoUsers == {"u1", "u2"}

AllInputs == {"DATA", "DISCONNECT", "recv", "timeout"}
RelayDisconnect == {"DISCONNECT"}
=============================================================================
