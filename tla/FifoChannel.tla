---------------------------- MODULE FifoChannel ----------------------------
(* What a connection promises to the program: what arrives at one end is a  *)
(* prefix of what was sent at the other, in order, nothing twice.           *)
EXTENDS Integers, Sequences

VARIABLES sent, got

Init == sent = << >> /\ got = << >>

(* Something is sent: a message of a framed connection, bytes of a raw one. *)
Send == /\ Len(sent') >= Len(sent) /\ SubSeq(sent', 1, Len(sent)) = sent
        /\ UNCHANGED got

(* The next part of what was sent arrives. *)
Deliver == /\ \E k \in Len(got) + 1 .. Len(sent) : got' = SubSeq(sent, 1, k)
           /\ UNCHANGED sent

Next == Send \/ Deliver
Spec == Init /\ [][Next]_<<sent, got>>
=============================================================================
