--------------------------- MODULE TcpConnection ---------------------------
(***************************************************************************)
(* TCPConnection and RawTCPConnection (network/tcpconnection.hpp and       *)
(* network/rawtcpconnection.hpp, the same in both programs): one direction *)
(* of a connection, from Send at one end to on_recv at the other.          *)
(*                                                                         *)
(* The I/O thread of each end runs its handlers one at a time.  Send and   *)
(* SendV are posted to it; BlockRecv and Close are called by other threads *)
(* and take effect at once.  A byte is a triple <<message, buffer, position>>, *)
(* and the four bytes of a length header are one item; the asio socket     *)
(* moves any number of items at a time.                                    *)
(***************************************************************************)
EXTENDS Integers, Sequences, SequencesExt

CONSTANTS
    Kinds,          \* the connections of this instance: "raw" (RawTCPConnection),
                    \* "framed" (TCPConnection, length headers) or "defragmented"
                    \* (TCPConnection that copies a message into one packet)
    NoDelay,        \* nodelay_ of the receiving end, which the relay's servers set
    MaxPacket,      \* max_packet_length_, 0 for no limit
    RecvBuf,        \* recv_buf_length_: most that a raw read returns
    Sizes,          \* sizes of the buffers given to Send and SendV
    MaxMessages,    \* bound: messages sent
    MaxParts,       \* bound: buffers in one SendV
    MaxWakes        \* bound: __DoRecv posted and not yet run

ASSUME ConstantsAssumption ==
    /\ Kinds \subseteq {"raw", "framed", "defragmented"} /\ NoDelay \in BOOLEAN
    /\ MaxPacket \in Nat /\ RecvBuf \in Nat \ {0} /\ Sizes \subseteq Nat
    /\ MaxMessages \in Nat /\ MaxParts \in Nat \ {0} /\ MaxWakes \in Nat \ {0}

VARIABLES
    kind,       \* which of Kinds this connection is; never changes
    posted,     \* messages given to Send or SendV, in order
    taken,      \* how many of them __Send or __SendV has run for
    queue,      \* outgoing_queue_: packets [data, pfn]
    sending,    \* <<what is left of sending_pkt_>>, or NoPacket
    called,     \* how many send callbacks have been posted
    net,        \* items between the sockets
    alive,      \* the TCP connection has not failed
    started,    \* the posted __Start has run
    reading,    \* the outstanding read: "no", "head", "body", "some"; or "dead"
    need,       \* packet_length of the body being read
    blocking,   \* blocking_recv_
    wakes,      \* __DoRecv posted by BlockRecv(false)
    got,        \* what on_recv was given: messages, or bytes if raw
    since,      \* reads delivered while blocking_recv_ was set
    closed,     \* ends that called Close(): on_recv is cleared, and so is
                \* on_allocbuf of a TCPConnection
    crashed     \* why a process terminated ("no": none did)

vars == <<kind, posted, taken, queue, sending, called, net, alive, started, reading,
          need, blocking, wakes, got, since, closed, crashed>>
sender == <<kind, posted, taken, queue, sending, called>>
receiver == <<started, reading, need, blocking, wakes, got, since>>
Running == crashed = "no"
Framed == kind # "raw"

NoPacket == << >>
Header(n) == <<"length", n>>
Body(m) == FlattenSeq(m)

(* The buffers of message i, given their sizes: its bytes are numbered. *)
Message(i, sizes) ==
    [k \in 1..Len(sizes) |-> [j \in 1..sizes[k] |-> <<i, k, j>>]]

(* The packets that __Send and __SendV push: header and buffers, or one copy  *)
(* of them; only the last packet carries the callback.                        *)
PacketsLastFirst(m) ==
    LET data == IF Framed THEN << <<Header(Len(Body(m)))>> >> \o Reverse(m) ELSE Reverse(m)
    IN  [k \in 1..Len(data) |-> [data |-> data[k], pfn |-> k = Len(data)]]
PacketsEagerCallback(m) ==
    LET data == IF Framed THEN << <<Header(Len(Body(m)))>> >> \o m ELSE m
    IN  [k \in 1..Len(data) |-> [data |-> data[k], pfn |-> TRUE]]
Packets(m) ==
    LET data == IF ~Framed THEN m
                ELSE IF kind = "defragmented" THEN << <<Header(Len(Body(m)))>> \o Body(m) >>
                ELSE << <<Header(Len(Body(m)))>> >> \o m
    IN  [k \in 1..Len(data) |-> [data |-> data[k], pfn |-> k = Len(data)]]

(* The connection has been accepted and Start() has posted __Start. *)
Init ==
    /\ kind \in Kinds
    /\ posted = << >> /\ taken = 0 /\ queue = << >> /\ sending = NoPacket /\ called = 0
    /\ net = << >> /\ alive = TRUE
    /\ started = FALSE /\ reading = "no" /\ need = 0 /\ blocking = FALSE /\ wakes = 0
    /\ got = << >> /\ since = 0
    /\ closed = {} /\ crashed = "no"

----------------------------------------------------------------------------
(* The sending end. *)

(* Send (one buffer) or SendV, called by any thread: posted to io_service_. *)
Send(sizes) ==
    /\ Running /\ Len(posted) < MaxMessages
    /\ posted' = Append(posted, Message(Len(posted) + 1, sizes))
    /\ UNCHANGED <<kind, taken, queue, sending, called, net, alive, receiver, closed, crashed>>

(* __DoSend with queue Q and packet S in flight: one packet at a time.  The   *)
(* callback of a packet is posted when the packet is taken from the queue.    *)
DoSendUnguarded(Q, S) ==
    IF Q = << >>
    THEN queue' = Q /\ sending' = S /\ UNCHANGED called
    ELSE /\ queue' = Tail(Q) /\ sending' = <<Head(Q).data>>
         /\ called' = IF Head(Q).pfn THEN called + 1 ELSE called
DoSend(Q, S) ==
    IF S # NoPacket \/ Q = << >>
    THEN queue' = Q /\ sending' = S /\ UNCHANGED called
    ELSE /\ queue' = Tail(Q) /\ sending' = <<Head(Q).data>>
         /\ called' = IF Head(Q).pfn THEN called + 1 ELSE called

(* __Send (one buffer), __SendV (several).  After Close() the framed __Send    *)
(* returns; the framed __SendV calls the empty on_allocbuf, and               *)
(* std::bad_function_call ends the process.                                   *)
RunSend ==
    LET m == posted[taken + 1] IN
    /\ Running /\ taken < Len(posted)
    /\ taken' = taken + 1
    /\ IF Framed /\ "sender" \in closed
       THEN /\ crashed' = IF Len(m) = 1 THEN "no" ELSE "sendv"
            /\ UNCHANGED <<queue, sending, called>>
       ELSE DoSend(queue \o Packets(m), sending) /\ UNCHANGED crashed
    /\ UNCHANGED <<kind, posted, net, alive, receiver, closed>>

(* async_write moves some of the packet into the socket. *)
WriteSome ==
    /\ Running /\ alive /\ sending # NoPacket
    /\ \E k \in 1..Len(sending[1]) :
          /\ net' = net \o SubSeq(sending[1], 1, k)
          /\ sending' = <<SubSeq(sending[1], k + 1, Len(sending[1]))>>
    /\ UNCHANGED <<kind, posted, taken, queue, called, alive, receiver, closed, crashed>>

(* __OnSendCallback without an error.  After an error sending_pkt_ stays set *)
(* and nothing more is written.                                               *)
OnSendCallback ==
    /\ Running /\ alive /\ sending = << << >> >>
    /\ DoSend(queue, NoPacket)
    /\ UNCHANGED <<kind, posted, taken, net, alive, receiver, closed, crashed>>

----------------------------------------------------------------------------
(* The receiving end. *)

(* __DoRecv, when R is the outstanding read: at most one read at a time.      *)
(* After Close() a TCPConnection calls the empty on_allocbuf, which ends the  *)
(* process; RawTCPConnection::Close() keeps it, and the read fails.           *)
StartRead == IF Framed THEN "head" ELSE "some"
Allocated == IF Framed /\ "receiver" \in closed
             THEN reading' = "dead" /\ crashed' = "read"
             ELSE reading' = StartRead /\ UNCHANGED crashed
DoRecvStill(R) ==
    IF R # "no" THEN reading' = R /\ UNCHANGED crashed ELSE Allocated
DoRecv(R) ==
    IF R # "no" \/ blocking THEN reading' = R /\ UNCHANGED crashed ELSE Allocated

(* BlockRecv(b), called by any thread. *)
BlockRecvNoWake(b) ==
    /\ Running /\ blocking' = b
    /\ since' = IF b THEN since ELSE 0
    /\ UNCHANGED <<sender, net, alive, started, reading, need, wakes, got, closed, crashed>>
BlockRecv(b) ==
    /\ Running /\ blocking' = b
    /\ since' = IF b THEN since ELSE 0
    /\ b \/ wakes < MaxWakes
    /\ wakes' = IF b THEN wakes ELSE wakes + 1
    /\ UNCHANGED <<sender, net, alive, started, reading, need, got, closed, crashed>>

(* __Start: __SetOpt, then __DoRecv (__DoSend has nothing to send yet).        *)
(* set_option(no_delay) throws on a socket that Close() has closed.           *)
Start ==
    /\ Running /\ ~started /\ started' = TRUE
    /\ IF NoDelay /\ "receiver" \in closed
       THEN crashed' = "option" /\ UNCHANGED reading
       ELSE DoRecv(reading)
    /\ UNCHANGED <<sender, net, alive, need, blocking, wakes, got, since, closed>>

(* The __DoRecv that BlockRecv(false) posted, behind __Start. *)
RunDoRecv ==
    /\ Running /\ started /\ wakes > 0
    /\ wakes' = wakes - 1
    /\ DoRecv(reading)
    /\ UNCHANGED <<sender, net, alive, started, need, blocking, got, since, closed>>

(* __OnHeadRecvCallback: a packet that is too long ends the connection; after *)
(* Close() the read of a body fails, unless there is nothing to read.         *)
OnHeadRecvCallback ==
    /\ Running /\ reading = "head" /\ net # << >>
    /\ net' = Tail(net)
    /\ need' = Head(net)[2]
    /\ \/ /\ MaxPacket > 0 /\ need' > MaxPacket
          /\ reading' = "dead" /\ alive' = FALSE
       \/ /\ MaxPacket = 0 \/ need' <= MaxPacket
          /\ reading' = IF "receiver" \in closed /\ need' > 0 THEN "dead" ELSE "body"
          /\ UNCHANGED alive
    /\ UNCHANGED <<sender, started, blocking, wakes, got, since, closed, crashed>>

(* on_recv, if it is still set, with what arrived, then __DoRecv. *)
Received(given) ==
    /\ IF "receiver" \in closed
       THEN UNCHANGED <<got, since>>
       ELSE got' = given /\ since' = IF blocking THEN since + 1 ELSE 0
    /\ DoRecv("no")

(* TCPConnection::__OnRecvCallback. *)
OnRecvCallback ==
    /\ Running /\ reading = "body" /\ Len(net) >= need
    /\ net' = SubSeq(net, need + 1, Len(net))
    /\ need' = 0
    /\ Received(Append(got, SubSeq(net, 1, need)))
    /\ UNCHANGED <<sender, alive, started, blocking, wakes, closed>>

(* RawTCPConnection::__OnRecvCallback: whatever async_read_some found. *)
OnRecvSomeCallback ==
    /\ Running /\ reading = "some"
    /\ \E k \in 1..RecvBuf :
          /\ k <= Len(net)
          /\ net' = SubSeq(net, k + 1, Len(net))
          /\ Received(got \o SubSeq(net, 1, k))
    /\ UNCHANGED <<sender, alive, started, need, blocking, wakes, closed>>

(* The TCP connection fails, or one end calls Close(), which shuts the socket *)
(* at once; what is on its way may be lost from some point.                   *)
Fails ==
    /\ Running /\ alive /\ alive' = FALSE
    /\ \E k \in 0..Len(net) : net' = SubSeq(net, 1, k)
    /\ UNCHANGED <<sender, receiver, closed, crashed>>
Close(end) ==
    /\ Running /\ closed' = closed \cup {end}
    /\ alive' = FALSE
    /\ \E k \in 0..Len(net) : net' = SubSeq(net, 1, k)
    /\ UNCHANGED <<sender, receiver, crashed>>

(* A read that cannot be satisfied any more, or was cut off by Close():       *)
(* __Shutdown; recving_pkt_ stays set and no read follows.                    *)
ReadFails ==
    /\ Running /\ ~alive /\ reading \in {"head", "body", "some"}
    /\ \/ "receiver" \in closed
       \/ IF reading = "body" THEN Len(net) < need ELSE net = << >>
    /\ reading' = "dead"
    /\ UNCHANGED <<sender, net, alive, started, need, blocking, wakes, got, since, closed, crashed>>

----------------------------------------------------------------------------
SendStep == \E n \in 1..MaxParts : \E sizes \in [1..n -> Sizes] : Send(sizes)
Next == \/ SendStep \/ RunSend \/ WriteSome \/ OnSendCallback
        \/ Start \/ RunDoRecv \/ OnHeadRecvCallback \/ OnRecvCallback \/ OnRecvSomeCallback
        \/ ReadFails
        \/ \E b \in BOOLEAN : BlockRecv(b)
        \/ Fails \/ \E end \in {"sender", "receiver"} : Close(end)
Spec == Init /\ [][Next]_vars

(* Fairness: the I/O threads run what is posted to them in order, and the     *)
(* sockets make progress.  Nobody is obliged to call Send or BlockRecv.       *)
Fairness ==
    /\ WF_vars(RunSend) /\ WF_vars(WriteSome) /\ WF_vars(OnSendCallback)
    /\ WF_vars(Start) /\ WF_vars(RunDoRecv) /\ WF_vars(OnHeadRecvCallback)
    /\ WF_vars(OnRecvCallback) /\ WF_vars(OnRecvSomeCallback)
FairSpec == Spec /\ Fairness

----------------------------------------------------------------------------
(* The shape of the connection's state. *)
Byte == (1..MaxMessages) \X (1..MaxParts) \X Nat
Item == Byte \cup ({"length"} \X Nat)
TypeOK ==
    /\ kind \in Kinds /\ started \in BOOLEAN
    /\ posted \in Seq(Seq(Seq(Byte))) /\ taken \in 0..Len(posted)
    /\ queue \in Seq([data : Seq(Item), pfn : BOOLEAN])
    /\ sending \in Seq(Seq(Item)) /\ Len(sending) <= 1
    /\ called \in 0..MaxMessages
    /\ net \in Seq(Item) /\ alive \in BOOLEAN
    /\ reading \in {"no", "head", "body", "some", "dead"}
    /\ need \in Nat /\ blocking \in BOOLEAN /\ wakes \in 0..MaxWakes
    /\ since \in Nat /\ closed \subseteq {"sender", "receiver"}
    /\ crashed \in {"no", "sendv", "read", "option"}
    /\ got \in IF Framed THEN Seq(Seq(Byte)) ELSE Seq(Byte)

(* The program at the other end gets exactly what was sent: whole messages   *)
(* in order on a framed connection, the bytes in order on a raw one, however *)
(* packets are split, reads are blocked and resumed, or the connection fails. *)
Channel == INSTANCE FifoChannel WITH
    sent <- IF Framed THEN [i \in 1..Len(posted) |-> Body(posted[i])]
            ELSE Body([i \in 1..Len(posted) |-> Body(posted[i])])
DeliversInOrder == Channel!Spec

(* BlockRecv(true) stops the connection: at most the one read that was        *)
(* already outstanding is still given to on_recv, whatever __Start and         *)
(* __DoRecv are still posted.  (What was read before that and is posted to     *)
(* the application's strand is handled all the same: it is not counted here.)  *)
BlockedReadsAtMostOne == blocking => since <= 1

(* A send callback means that the message has left the queue and everything  *)
(* before it is in the socket: the traffic counters count what is still here. *)
IsHeader(item) == Len(item) = 2
Waiting == Body([k \in 1..Len(queue) |-> queue[k].data]) \o Body(sending)
CallbacksFollowTheQueue ==
    /\ called <= taken
    /\ \A k \in 1..Len(Waiting) : IsHeader(Waiting[k]) \/ Waiting[k][1] >= called
    /\ sending = NoPacket /\ queue = << >> /\ "sender" \notin closed => called = taken

(* BlockRecv(false) is never lost: whatever has been sent arrives, unless     *)
(* reading is blocked again or the connection fails.                          *)
Arrived(n) ==
    /\ n <= Len(posted)
    /\ Len(got) >= IF Framed THEN n ELSE Len(Body(Body(SubSeq(posted, 1, n))))
NothingStuck ==
    \A n \in 1..MaxMessages :
        Len(posted) >= n ~> blocking \/ ~alive \/ Arrived(n)
=============================================================================
