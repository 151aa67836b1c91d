---------------------------- MODULE FlowControl ----------------------------
(***************************************************************************)
(* queue_limit: the traffic counters and corked flags of one Session, in   *)
(* the relay (r-nat-s/app1/tunnel.cpp, user.cpp) and in the agent          *)
(* (r-nat-c/app1/tunnel.cpp, session_tunnel.cpp, user.cpp).                *)
(*                                                                         *)
(* Data flows in two directions, each from a source connection to a sink   *)
(* connection.  The handler of a direction, on the main thread, counts a   *)
(* message and stops the source above the limit; the send callback, on the *)
(* pool thread of the sink, discounts it and resumes the source at half.   *)
(* The two share the atomic counter and the plain flag, so their steps are *)
(* single accesses here.  The relay's servers post BlockRecv and Send to   *)
(* their strand; the agent's clients act on the connection at once.        *)
(***************************************************************************)
EXTENDS Integers, Sequences, FiniteSets

CONSTANTS
    Sides,      \* the programs of this instance: "relay", "agent"
    Limit,      \* queue_limit_, 0 for none
    Loads,      \* bound: how many messages arrive in each direction
    MaxPosted   \* bound: data is posted to a strand with less work than this

ASSUME ConstantsAssumption ==
    /\ Sides \subseteq {"relay", "agent"}
    /\ Limit \in Nat /\ Loads \subseteq [{"user", "tunnel"} -> Nat] /\ MaxPosted \in Nat \ {0}

VARIABLES
    side,       \* which of Sides this is; never changes
    left,       \* by direction: messages that the peer has still to send
    reading,    \* by direction: the source has a read outstanding
    blocking,   \* by direction: blocking_recv_ of the source
    wake,       \* by direction: BlockRecv(false) has posted __DoRecv
    strand,     \* work posted to the main thread, by strand: <<what, direction>>
    main,       \* the main thread: <<step, direction>>, or Idle
    sink,       \* by direction: messages at the sink whose callback is to come
    pool,       \* by direction: step of the callback that runs on the sink's thread
    traffic,    \* user_traffic_, tunnel_traffic_
    corked,     \* user_corked_, tunnel_corked_
    failed      \* directions whose sink has failed: callbacks may never come

vars == <<side, left, reading, blocking, wake, strand, main, sink, pool, traffic, corked, failed>>
source == <<left, reading, blocking, wake>>

----------------------------------------------------------------------------
(* "user": from the user (relay) or the service (agent) to the tunnel;       *)
(* "tunnel": from the tunnel, or session connection, to the user or service.  *)
Dirs == {"user", "tunnel"}
Other(d) == IF d = "user" THEN "tunnel" ELSE "user"

(* The strand on which the source of d is read: one for each of the relay's   *)
(* two servers, strand_ of AppLogic1 for all of the agent's clients.          *)
StrandOf(d) == IF side = "relay" THEN d ELSE "user"
Posted(d, w) == [strand EXCEPT ![StrandOf(d)] = Append(@, w)]
Idle == << >>
HandlerSteps == {"test", "cork", "block", "send"}

Init ==
    /\ side \in Sides
    /\ left \in Loads
    /\ reading = [d \in Dirs |-> TRUE]
    /\ blocking = [d \in Dirs |-> FALSE] /\ wake = [d \in Dirs |-> FALSE]
    /\ strand = [d \in Dirs |-> << >>] /\ main = Idle
    /\ sink = [d \in Dirs |-> 0] /\ pool = [d \in Dirs |-> "idle"]
    /\ traffic = [d \in Dirs |-> 0] /\ corked = [d \in Dirs |-> FALSE]
    /\ failed = {}

----------------------------------------------------------------------------
(* The source connection. *)

(* __OnRecvCallback: on_recv is posted, and the next read started.  The read *)
(* that was outstanding when BlockRecv(true) came is still delivered.        *)
Arrives(d) ==
    /\ reading[d] /\ left[d] > 0 /\ Len(strand[StrandOf(d)]) < MaxPosted
    /\ left' = [left EXCEPT ![d] = @ - 1]
    /\ strand' = Posted(d, <<"recv", d>>)
    /\ reading' = [reading EXCEPT ![d] = ~blocking[d]]
    /\ UNCHANGED <<side, blocking, wake, main, sink, pool, traffic, corked, failed>>

(* The agent's data for a service may also come over the tunnel, before or    *)
(* after the session connection is in use: it is counted with the rest, but   *)
(* BlockRecv acts on the session connection, and nothing stops the tunnel.    *)
ArrivesOverTunnel ==
    /\ side = "agent" /\ left["tunnel"] > 0 /\ Len(strand[StrandOf("tunnel")]) < MaxPosted
    /\ left' = [left EXCEPT !["tunnel"] = @ - 1]
    /\ strand' = Posted("tunnel", <<"recv", "tunnel">>)
    /\ UNCHANGED <<side, reading, blocking, wake, main, sink, pool, traffic, corked, failed>>

(* The __DoRecv that BlockRecv(false) posted. *)
Wake(d) ==
    /\ wake[d] /\ wake' = [wake EXCEPT ![d] = FALSE]
    /\ reading' = [reading EXCEPT ![d] = @ \/ ~blocking[d]]
    /\ UNCHANGED <<side, left, blocking, strand, main, sink, pool, traffic, corked, failed>>

(* TCPConnection::BlockRecv(b). *)
ConnBlockRecv(d, b) ==
    /\ blocking' = [blocking EXCEPT ![d] = b]
    /\ wake' = [wake EXCEPT ![d] = @ \/ ~b]

(* BlockRecv(b) as the application calls it: TcpServer and RawTcpServer post  *)
(* it to their strand, TcpClient and RawTcpClient pass it on.                 *)
BlockRecv(d, b) ==
    IF side = "relay"
    THEN strand' = Posted(d, <<IF b THEN "block" ELSE "resume", d>>) /\ UNCHANGED <<blocking, wake>>
    ELSE ConnBlockRecv(d, b) /\ UNCHANGED strand

----------------------------------------------------------------------------
(* The main thread. *)

NextWork(k) == strand[k][1]
Popped(k) == [strand EXCEPT ![k] = Tail(@)]
CanRun(k, what) == main = Idle /\ strand[k] # << >> /\ NextWork(k)[1] \in what

(* The servers' posted __BlockRecv and __Send. *)
RunPosted(k) ==
    LET d == NextWork(k)[2] IN
    /\ CanRun(k, {"block", "resume", "send"})
    /\ strand' = Popped(k)
    /\ IF NextWork(k)[1] = "send"
       THEN sink' = [sink EXCEPT ![d] = @ + 1] /\ UNCHANGED <<blocking, wake>>
       ELSE ConnBlockRecv(d, NextWork(k)[1] = "block") /\ UNCHANGED sink
    /\ UNCHANGED <<side, left, reading, main, pool, traffic, corked, failed>>

(* The handler of data: the message is counted, ... *)
CountUnlessCorked(k) ==
    LET d == NextWork(k)[2] IN
    /\ CanRun(k, {"recv"})
    /\ strand' = Popped(k)
    /\ traffic' = IF corked[d] THEN traffic ELSE [traffic EXCEPT ![d] = @ + 1]
    /\ main' = <<"test", d>>
    /\ UNCHANGED <<side, source, sink, pool, corked, failed>>
Count(k) ==
    LET d == NextWork(k)[2] IN
    /\ CanRun(k, {"recv"})
    /\ strand' = Popped(k)
    /\ traffic' = [traffic EXCEPT ![d] = @ + 1]
    /\ main' = <<"test", d>>
    /\ UNCHANGED <<side, source, sink, pool, corked, failed>>

(* ... the limit is tested, ... *)
OverLimit(d) == Limit > 0 /\ ~corked[d] /\ traffic[d] > Limit
TestLimit(d) ==
    /\ main = <<"test", d>>
    /\ main' = <<IF OverLimit(d) THEN "cork" ELSE "send", d>>
    /\ UNCHANGED <<side, source, strand, sink, pool, traffic, corked, failed>>

(* ... above it the flag is set and the source stopped, in this order, ... *)
Cork(d) ==
    /\ main = <<"cork", d>> /\ main' = <<"block", d>>
    /\ corked' = [corked EXCEPT ![d] = TRUE]
    /\ UNCHANGED <<side, source, strand, sink, pool, traffic, failed>>
Block(d) ==
    /\ main = <<"block", d>> /\ main' = <<"send", d>>
    /\ BlockRecv(d, TRUE)
    /\ UNCHANGED <<side, left, reading, sink, pool, traffic, corked, failed>>

(* ... and the message is sent: the relay posts it to the server of the sink. *)
Forward(d) ==
    /\ main = <<"send", d>> /\ main' = Idle
    /\ IF side = "relay"
       THEN strand' = Posted(Other(d), <<"send", d>>) /\ UNCHANGED sink
       ELSE sink' = [sink EXCEPT ![d] = @ + 1] /\ UNCHANGED strand
    /\ UNCHANGED <<side, source, pool, traffic, corked, failed>>

----------------------------------------------------------------------------
(* The send callback, on the thread of the sink: the counter, the test, the  *)
(* flag and BlockRecv(false).  Both of the relay's callbacks test             *)
(* tunnel_traffic_.                                                           *)
Discount(d) ==
    /\ pool[d] = "idle" /\ sink[d] > 0
    /\ sink' = [sink EXCEPT ![d] = @ - 1]
    /\ traffic' = [traffic EXCEPT ![d] = @ - 1]
    /\ pool' = [pool EXCEPT ![d] = "test"]
    /\ UNCHANGED <<side, source, strand, main, corked, failed>>

Tested(d) == IF side = "relay" THEN "tunnel" ELSE d
MayResumeAtHalf(d) == Limit > 0 /\ corked[d] /\ traffic[Tested(d)] = Limit \div 2
MayResume(d) == Limit > 0 /\ corked[d] /\ traffic[Tested(d)] <= Limit \div 2
TestResume(d) ==
    /\ pool[d] = "test"
    /\ pool' = [pool EXCEPT ![d] = IF MayResume(d) THEN "uncork" ELSE "idle"]
    /\ UNCHANGED <<side, source, strand, main, sink, traffic, corked, failed>>

UncorkWithoutResume(d) ==
    /\ pool[d] = "uncork" /\ pool' = [pool EXCEPT ![d] = "idle"]
    /\ corked' = [corked EXCEPT ![d] = FALSE]
    /\ UNCHANGED <<side, source, strand, main, sink, traffic, failed>>
Uncork(d) ==
    /\ pool[d] = "uncork" /\ pool' = [pool EXCEPT ![d] = "resume"]
    /\ corked' = [corked EXCEPT ![d] = FALSE]
    /\ UNCHANGED <<side, source, strand, main, sink, traffic, failed>>

Resume(d) ==
    /\ pool[d] = "resume" /\ pool' = [pool EXCEPT ![d] = "idle"]
    /\ BlockRecv(d, FALSE)
    /\ UNCHANGED <<side, left, reading, main, sink, traffic, corked, failed>>

(* The sink's connection fails: what is in its queue stays there for ever. *)
SinkFails(d) ==
    /\ d \notin failed /\ failed' = failed \cup {d}
    /\ UNCHANGED <<side, source, strand, main, sink, pool, traffic, corked>>

----------------------------------------------------------------------------
Handler(d) == TestLimit(d) \/ Cork(d) \/ Block(d) \/ Forward(d)
RunMain == \E d \in Dirs : RunPosted(d) \/ Count(d) \/ Handler(d)
Callback(d) == TestResume(d) \/ Uncork(d) \/ Resume(d)
Next == \/ RunMain \/ ArrivesOverTunnel
        \/ \E d \in Dirs : Arrives(d) \/ Wake(d) \/ Discount(d) \/ Callback(d) \/ SinkFails(d)
Spec == Init /\ [][Next]_vars

(* Fairness: the threads run; a peer that has something to send sends it, and *)
(* a sink that has not failed takes what it is given.  The io_service of the  *)
(* main thread runs the handlers of all its strands in order of posting.      *)
Fairness ==
    /\ \A d \in Dirs : WF_vars(RunPosted(d)) /\ WF_vars(Count(d)) /\ WF_vars(Handler(d))
    /\ \A d \in Dirs : /\ WF_vars(Arrives(d)) /\ WF_vars(Wake(d)) /\ WF_vars(Callback(d))
                       /\ WF_vars(d \notin failed /\ Discount(d))
FairSpec == Spec /\ Fairness

----------------------------------------------------------------------------
(* The shape of the state.  The counters are unsigned in the code: a          *)
(* callback that came before its message was counted would wrap them.         *)
TypeOK ==
    /\ side \in Sides
    /\ left \in [Dirs -> Nat] /\ reading \in [Dirs -> BOOLEAN]
    /\ blocking \in [Dirs -> BOOLEAN] /\ wake \in [Dirs -> BOOLEAN]
    /\ strand \in [Dirs -> Seq({"recv", "block", "resume", "send"} \X Dirs)]
    /\ main \in {Idle} \cup (HandlerSteps \X Dirs)
    /\ sink \in [Dirs -> Nat] /\ pool \in [Dirs -> {"idle", "test", "uncork", "resume"}]
    /\ traffic \in [Dirs -> Nat] /\ corked \in [Dirs -> BOOLEAN]
    /\ failed \subseteq Dirs

(* The directions that the callback resumes by the counter that stopped them. *)
OwnCounter(d) == Tested(d) = d

(* A source whose flag is set has a message on its way whose callback will    *)
(* see the flag and clear it: between the strand and the pool threads, the last  *)
(* callback is never over before the flag is set.                             *)
StoppedSourceIsResumed ==
    \A d \in Dirs : OwnCounter(d) /\ corked[d] => traffic[d] > 0 \/ pool[d] \in {"test", "uncork"}

(* A source that is stopped while its flag is set is started again, unless    *)
(* the sink fails and keeps what it was given: the callback that clears the   *)
(* flag calls BlockRecv(false), and that call is not overtaken for good by a  *)
(* later BlockRecv(true).  (A source that is stopped when its flag has been   *)
(* cleared already, by callbacks between the two statements of the handler,   *)
(* is not meant: nobody starts it again.)                                     *)
StopIsLifted ==
    \A d \in Dirs : OwnCounter(d) /\ corked[d] /\ blocking[d] ~> ~blocking[d] \/ d \in failed

(* What the user sends is relayed to the end, unless the sink fails.          *)
Served(d) == left[d] = 0 \/ d \in failed
UserServedToTheEnd == <>Served("user")
=============================================================================
