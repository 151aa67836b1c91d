-------------------------- MODULE MCTcpConnection --------------------------
(* The instance of TcpConnection for TLC: every kind, and sizes of buffers. *)
EXTENDS TcpConnection

AllKinds == {"raw", "framed", "defragmented"}
EmptyOrTwo == {0, 2}
=============================================================================
