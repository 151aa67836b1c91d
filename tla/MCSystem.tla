------------------------------ MODULE MCSystem ------------------------------
(* Instances of System for TLC: who may leave. *)
EXTENDS System

Anyone == {"user", "service"}
Nobody == {}
=============================================================================
