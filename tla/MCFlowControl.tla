--------------------------- MODULE MCFlowControl ---------------------------
(* Instances of FlowControl for TLC: the programs, and how much they pass on. *)
EXTENDS FlowControl

BothSides == {"relay", "agent"}
RelaySide == {"relay"}
MostlyOneWay == {[user |-> 5, tunnel |-> 1], [user |-> 1, tunnel |-> 5], [user |-> 2, tunnel |-> 2]}
MostlyFromUser == {[user |-> 4, tunnel |-> 1]}
=============================================================================
