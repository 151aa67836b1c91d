------------------------- MODULE FlowControlProofs -------------------------
(* Proofs about FlowControl, for every limit and every load. *)
EXTENDS FlowControl, FunctionTheorems, FiniteSetTheorems, TLAPS

----------------------------------------------------------------------------
(* Where a message of direction d may be between the handler that counts it   *)
(* and the callback that discounts it: with the handler, posted to the strand *)
(* of the sink, or at the sink.                                               *)
PositionsOf(q, w) == {i \in 1..Len(q) : q[i] = w}
Occurs(q, w) == Cardinality(PositionsOf(q, w))
Handled(d) == IF main # Idle /\ main[2] = d THEN 1 ELSE 0
InStrands(s, w) == Occurs(s["user"], w) + Occurs(s["tunnel"], w)
Queued(d) == InStrands(strand, <<"send", d>>)
OnTheWay(d) == Queued(d) + sink[d] + Handled(d)

(* The counter is the number of messages on the way. *)
CountersExact == \A d \in Dirs : traffic[d] = OnTheWay(d)

(* Nothing is corked without a limit. *)
CorkedNeedsLimit ==
    /\ \A d \in Dirs : corked[d] => Limit > 0
    /\ main # Idle /\ main[1] = "cork" => Limit > 0

Work == {"recv", "block", "resume", "send"} \X Dirs
Shape ==
    /\ side \in Sides
    /\ left \in [Dirs -> Nat] /\ reading \in [Dirs -> BOOLEAN]
    /\ blocking \in [Dirs -> BOOLEAN] /\ wake \in [Dirs -> BOOLEAN]
    /\ strand \in [Dirs -> Seq(Work)]
    /\ main \in {Idle} \cup (HandlerSteps \X Dirs)
    /\ sink \in [Dirs -> Nat] /\ pool \in [Dirs -> {"idle", "test", "uncork", "resume"}]
    /\ traffic \in [Dirs -> Int] /\ corked \in [Dirs -> BOOLEAN]
    /\ failed \subseteq Dirs
FlowIInv == Shape /\ CountersExact /\ CorkedNeedsLimit /\ StoppedSourceIsResumed

----------------------------------------------------------------------------
(* How often a piece of work is in a strand: a natural number, ... *)
LEMMA OccursType ==
    ASSUME NEW q \in Seq(Work), NEW w
    PROVE  IsFiniteSet(PositionsOf(q, w)) /\ Occurs(q, w) \in Nat
<1>1. IsFiniteSet(1..Len(q))
  BY FS_Interval
<1>2. IsFiniteSet(PositionsOf(q, w))
  BY <1>1, FS_Subset DEF PositionsOf
<1>3. QED
  BY <1>2, FS_CardinalityType DEF Occurs

(* ... 0 if the strand is empty, ... *)
LEMMA OccursEmpty ==
    ASSUME NEW w
    PROVE  Occurs(<< >>, w) = 0
<1>1. PositionsOf(<< >>, w) = {}
  BY DEF PositionsOf
<1>2. QED
  BY <1>1, FS_EmptySet DEF Occurs

(* ... one more when it is posted, no more when something else is, ... *)
LEMMA OccursAppend ==
    ASSUME NEW q \in Seq(Work), NEW w \in Work, NEW v
    PROVE  /\ v = w => Occurs(Append(q, v), w) = Occurs(q, w) + 1
           /\ v # w => Occurs(Append(q, v), w) = Occurs(q, w)
<1>1. /\ Len(Append(q, v)) = Len(q) + 1 /\ Append(q, v)[Len(q) + 1] = v
      /\ \A i \in 1..Len(q) : Append(q, v)[i] = q[i]
  OBVIOUS
<1>2. \A i : i \in 1..Len(q) + 1 <=> i \in 1..Len(q) \/ i = Len(q) + 1
  OBVIOUS
<1>3. CASE v = w
  <2>1. PositionsOf(Append(q, v), w) = PositionsOf(q, w) \cup {Len(q) + 1}
    BY <1>1, <1>2, <1>3 DEF PositionsOf
  <2>2. Len(q) + 1 \notin PositionsOf(q, w)
    BY DEF PositionsOf
  <2>3. QED
    BY <1>3, <2>1, <2>2, OccursType, FS_AddElement DEF Occurs
<1>4. CASE v # w
  <2>1. PositionsOf(Append(q, v), w) = PositionsOf(q, w)
    BY <1>1, <1>2, <1>4 DEF PositionsOf
  <2>2. QED
    BY <1>4, <2>1 DEF Occurs
<1>5. QED
  BY <1>3, <1>4

(* ... and one less when it has been taken. *)
LEMMA OccursTail ==
    ASSUME NEW q \in Seq(Work), q # << >>, NEW w
    PROVE  /\ q[1] = w => Occurs(Tail(q), w) = Occurs(q, w) - 1
           /\ q[1] # w => Occurs(Tail(q), w) = Occurs(q, w)
<1> DEFINE T == PositionsOf(Tail(q), w)
           S == PositionsOf(q, w) \ {1}
           shift == [i \in T |-> i + 1]
<1>1. /\ Tail(q) \in Seq(Work) /\ Len(q) \in Nat /\ Len(q) > 0 /\ Len(Tail(q)) = Len(q) - 1
      /\ \A i \in 1..Len(Tail(q)) : Tail(q)[i] = q[i + 1]
  OBVIOUS
<1>2. shift \in Bijection(T, S)
  <2>1. \A i \in T : shift[i] \in S
    BY <1>1 DEF PositionsOf
  <2>2. \A i, j \in T : shift[i] = shift[j] => i = j
    BY <1>1 DEF PositionsOf
  <2>3. \A j \in S : \E i \in T : shift[i] = j
    <3>1. TAKE j \in S
    <3>2. j - 1 \in T /\ shift[j - 1] = j
      BY <1>1 DEF PositionsOf
    <3>3. QED
      BY <3>2
  <2>4. QED
    BY <2>1, <2>2, <2>3, Fun_IsBij
<1>3. Cardinality(T) = Cardinality(S)
  <2>1. IsFiniteSet(T)
    BY <1>1, OccursType
  <2>2. QED
    BY <1>2, <2>1, FS_Bijection DEF ExistsBijection
<1>4. CASE q[1] = w
  <2>1. 1 \in PositionsOf(q, w)
    BY <1>1, <1>4 DEF PositionsOf
  <2>2. Cardinality(S) = Occurs(q, w) - 1
    BY <2>1, OccursType, FS_RemoveElement DEF Occurs
  <2>3. QED
    BY <1>3, <1>4, <2>2 DEF Occurs
<1>5. CASE q[1] # w
  <2>1. S = PositionsOf(q, w)
    BY <1>5 DEF PositionsOf
  <2>2. QED
    BY <1>3, <1>5, <2>1 DEF Occurs
<1>6. QED
  BY <1>4, <1>5

----------------------------------------------------------------------------
(* One strand changes, the other one stays. *)
Becomes(s, t, k, q) == t = [s EXCEPT ![k] = q]

(* How often the two strands together hold a piece of work is a natural number. *)
LEMMA InStrandsType ==
    ASSUME NEW s \in [Dirs -> Seq(Work)], NEW w
    PROVE  InStrands(s, w) \in Nat
<1>1. s["user"] \in Seq(Work) /\ s["tunnel"] \in Seq(Work)
  BY DEF Dirs
<1>2. QED
  BY <1>1, OccursType DEF InStrands

(* ... when it is posted to one of them, ... *)
LEMMA PostSame ==
    ASSUME NEW s \in [Dirs -> Seq(Work)], NEW k \in Dirs, NEW w \in Work,
           NEW t, Becomes(s, t, k, Append(s[k], w))
    PROVE  t \in [Dirs -> Seq(Work)] /\ InStrands(t, w) = InStrands(s, w) + 1
<1>1. s["user"] \in Seq(Work) /\ s["tunnel"] \in Seq(Work) /\ t \in [Dirs -> Seq(Work)]
  BY DEF Dirs, Becomes
<1>2. Occurs(s["user"], w) \in Nat /\ Occurs(s["tunnel"], w) \in Nat
  BY <1>1, OccursType
<1>3. CASE k = "user"
  <2>1. t["user"] = Append(s["user"], w) /\ t["tunnel"] = s["tunnel"]
    BY <1>3 DEF Dirs, Becomes
  <2>2. Occurs(t["user"], w) = Occurs(s["user"], w) + 1
    BY <1>1, <1>3, <2>1, OccursAppend
  <2> DEFINE x == Occurs(s["user"], w)
             y == Occurs(s["tunnel"], w)
  <2>3. InStrands(t, w) = x + 1 + y /\ InStrands(s, w) = x + y
    BY <2>1, <2>2 DEF InStrands
  <2>4. x \in Nat /\ y \in Nat
    BY <1>2
  <2> HIDE DEF x, y
  <2>5. QED
    BY <1>1, <2>3, <2>4
<1>4. CASE k = "tunnel"
  <2>1. t["tunnel"] = Append(s["tunnel"], w) /\ t["user"] = s["user"]
    BY <1>4 DEF Dirs, Becomes
  <2>2. Occurs(t["tunnel"], w) = Occurs(s["tunnel"], w) + 1
    BY <1>1, <1>4, <2>1, OccursAppend
  <2> DEFINE x == Occurs(s["user"], w)
             y == Occurs(s["tunnel"], w)
  <2>3. InStrands(t, w) = x + (y + 1) /\ InStrands(s, w) = x + y
    BY <2>1, <2>2 DEF InStrands
  <2>4. x \in Nat /\ y \in Nat
    BY <1>2
  <2> HIDE DEF x, y
  <2>5. QED
    BY <1>1, <2>3, <2>4
<1>5. QED
  BY <1>3, <1>4 DEF Dirs

(* ... when something else is posted, ... *)
LEMMA PostOther ==
    ASSUME NEW s \in [Dirs -> Seq(Work)], NEW k \in Dirs, NEW w \in Work,
           NEW v \in Work, v # w,
           NEW t, Becomes(s, t, k, Append(s[k], v))
    PROVE  t \in [Dirs -> Seq(Work)] /\ InStrands(t, w) = InStrands(s, w)
<1>1. s["user"] \in Seq(Work) /\ s["tunnel"] \in Seq(Work) /\ t \in [Dirs -> Seq(Work)]
  BY DEF Dirs, Becomes
<1>2. Occurs(s["user"], w) \in Nat /\ Occurs(s["tunnel"], w) \in Nat
  BY <1>1, OccursType
<1>3. CASE k = "user"
  <2>1. t["user"] = Append(s["user"], v) /\ t["tunnel"] = s["tunnel"]
    BY <1>3 DEF Dirs, Becomes
  <2>2. Occurs(t["user"], w) = Occurs(s["user"], w)
    BY <1>1, <1>3, <2>1, OccursAppend
  <2>3. QED
    BY <1>1, <1>2, <2>1, <2>2 DEF InStrands
<1>4. CASE k = "tunnel"
  <2>1. t["tunnel"] = Append(s["tunnel"], v) /\ t["user"] = s["user"]
    BY <1>4 DEF Dirs, Becomes
  <2>2. Occurs(t["tunnel"], w) = Occurs(s["tunnel"], w)
    BY <1>1, <1>4, <2>1, OccursAppend
  <2>3. QED
    BY <1>1, <1>2, <2>1, <2>2 DEF InStrands
<1>5. QED
  BY <1>3, <1>4 DEF Dirs

(* ... when it is taken, ... *)
LEMMA TakeSame ==
    ASSUME NEW s \in [Dirs -> Seq(Work)], NEW k \in Dirs, NEW w \in Work,
           s[k] # << >>, s[k][1] = w,
           NEW t, Becomes(s, t, k, Tail(s[k]))
    PROVE  t \in [Dirs -> Seq(Work)] /\ InStrands(t, w) = InStrands(s, w) - 1
<1>1. s["user"] \in Seq(Work) /\ s["tunnel"] \in Seq(Work) /\ t \in [Dirs -> Seq(Work)]
  BY DEF Dirs, Becomes
<1>2. Occurs(s["user"], w) \in Nat /\ Occurs(s["tunnel"], w) \in Nat
  BY <1>1, OccursType
<1>3. CASE k = "user"
  <2>1. t["user"] = Tail(s["user"]) /\ t["tunnel"] = s["tunnel"]
    BY <1>3 DEF Dirs, Becomes
  <2>2. Occurs(t["user"], w) = Occurs(s["user"], w) - 1
    BY <1>1, <1>3, <2>1, OccursTail
  <2> DEFINE x == Occurs(s["user"], w)
             y == Occurs(s["tunnel"], w)
  <2>3. InStrands(t, w) = x - 1 + y /\ InStrands(s, w) = x + y
    BY <2>1, <2>2 DEF InStrands
  <2>4. x \in Nat /\ y \in Nat
    BY <1>2
  <2> HIDE DEF x, y
  <2>5. QED
    BY <1>1, <2>3, <2>4
<1>4. CASE k = "tunnel"
  <2>1. t["tunnel"] = Tail(s["tunnel"]) /\ t["user"] = s["user"]
    BY <1>4 DEF Dirs, Becomes
  <2>2. Occurs(t["tunnel"], w) = Occurs(s["tunnel"], w) - 1
    BY <1>1, <1>4, <2>1, OccursTail
  <2> DEFINE x == Occurs(s["user"], w)
             y == Occurs(s["tunnel"], w)
  <2>3. InStrands(t, w) = x + (y - 1) /\ InStrands(s, w) = x + y
    BY <2>1, <2>2 DEF InStrands
  <2>4. x \in Nat /\ y \in Nat
    BY <1>2
  <2> HIDE DEF x, y
  <2>5. QED
    BY <1>1, <2>3, <2>4
<1>5. QED
  BY <1>3, <1>4 DEF Dirs

(* ... and when something else is taken. *)
LEMMA TakeOther ==
    ASSUME NEW s \in [Dirs -> Seq(Work)], NEW k \in Dirs, NEW w \in Work,
           s[k] # << >>, s[k][1] # w,
           NEW t, Becomes(s, t, k, Tail(s[k]))
    PROVE  t \in [Dirs -> Seq(Work)] /\ InStrands(t, w) = InStrands(s, w)
<1>1. s["user"] \in Seq(Work) /\ s["tunnel"] \in Seq(Work) /\ t \in [Dirs -> Seq(Work)]
  BY DEF Dirs, Becomes
<1>2. Occurs(s["user"], w) \in Nat /\ Occurs(s["tunnel"], w) \in Nat
  BY <1>1, OccursType
<1>3. CASE k = "user"
  <2>1. t["user"] = Tail(s["user"]) /\ t["tunnel"] = s["tunnel"]
    BY <1>3 DEF Dirs, Becomes
  <2>2. Occurs(t["user"], w) = Occurs(s["user"], w)
    BY <1>1, <1>3, <2>1, OccursTail
  <2>3. QED
    BY <1>1, <1>2, <2>1, <2>2 DEF InStrands
<1>4. CASE k = "tunnel"
  <2>1. t["tunnel"] = Tail(s["tunnel"]) /\ t["user"] = s["user"]
    BY <1>4 DEF Dirs, Becomes
  <2>2. Occurs(t["tunnel"], w) = Occurs(s["tunnel"], w)
    BY <1>1, <1>4, <2>1, OccursTail
  <2>3. QED
    BY <1>1, <1>2, <2>1, <2>2 DEF InStrands
<1>5. QED
  BY <1>3, <1>4 DEF Dirs

----------------------------------------------------------------------------
(* The same of the strands as they are before and after a step. *)
LEMMA QueuedType ==
    ASSUME Shape, NEW d \in Dirs
    PROVE  Queued(d) \in Nat /\ Handled(d) \in Nat
BY InStrandsType DEF Shape, Queued, Handled

(* A posted send is one more in the queue, *)
LEMMA PostedSend ==
    ASSUME Shape, NEW k \in Dirs, NEW d \in Dirs,
           strand' = [strand EXCEPT ![k] = Append(@, <<"send", d>>)]
    PROVE  strand' \in [Dirs -> Seq(Work)] /\ Queued(d)' = Queued(d) + 1
<1> DEFINE w == <<"send", d>>
<1>1. w \in Work /\ strand \in [Dirs -> Seq(Work)]
  BY DEF Shape, Work
<1>2. Becomes(strand, strand', k, Append(strand[k], w))
  BY DEF Becomes
<1> HIDE DEF w
<1>3. InStrands(strand', w) = InStrands(strand, w) + 1
  BY <1>1, <1>2, PostSame
<1>4. strand' \in [Dirs -> Seq(Work)]
  BY <1>1, <1>2, PostSame
<1>5. QED
  BY <1>3, <1>4 DEF Queued, w

(* anything else posted is not; *)
LEMMA PostedOther ==
    ASSUME Shape, NEW k \in Dirs, NEW v \in Work,
           strand' = [strand EXCEPT ![k] = Append(@, v)], NEW d \in Dirs, v # <<"send", d>>
    PROVE  strand' \in [Dirs -> Seq(Work)] /\ Queued(d)' = Queued(d)
<1> DEFINE w == <<"send", d>>
<1>1. w \in Work /\ v # w /\ strand \in [Dirs -> Seq(Work)]
  BY DEF Shape, Work
<1>2. Becomes(strand, strand', k, Append(strand[k], v))
  BY DEF Becomes
<1> HIDE DEF w
<1>3. InStrands(strand', w) = InStrands(strand, w)
  BY <1>1, <1>2, PostOther
<1>4. strand' \in [Dirs -> Seq(Work)]
  BY <1>1, <1>2 DEF Becomes
<1>5. QED
  BY <1>3, <1>4 DEF Queued, w

(* a send that is taken is one less, *)
LEMMA TakenSend ==
    ASSUME Shape, NEW k \in Dirs, strand[k] # << >>, strand' = Popped(k),
           NEW d \in Dirs, strand[k][1] = <<"send", d>>
    PROVE  strand' \in [Dirs -> Seq(Work)] /\ Queued(d)' = Queued(d) - 1
<1> DEFINE w == <<"send", d>>
<1>1. w \in Work /\ strand[k][1] = w /\ strand \in [Dirs -> Seq(Work)]
  BY DEF Shape, Work
<1>2. Becomes(strand, strand', k, Tail(strand[k]))
  BY DEF Becomes, Popped
<1> HIDE DEF w
<1>3. InStrands(strand', w) = InStrands(strand, w) - 1
  BY <1>1, <1>2, TakeSame
<1>4. strand' \in [Dirs -> Seq(Work)]
  <2>1. Tail(strand[k]) \in Seq(Work)
    BY <1>1
  <2>2. QED
    BY <1>1, <1>2, <2>1 DEF Becomes
<1>5. QED
  BY <1>3, <1>4 DEF Queued, w

(* anything else taken is not. *)
LEMMA TakenOther ==
    ASSUME Shape, NEW k \in Dirs, strand[k] # << >>, strand' = Popped(k),
           NEW d \in Dirs, strand[k][1] # <<"send", d>>
    PROVE  strand' \in [Dirs -> Seq(Work)] /\ Queued(d)' = Queued(d)
<1> DEFINE w == <<"send", d>>
<1>1. w \in Work /\ strand[k][1] # w /\ strand \in [Dirs -> Seq(Work)]
  BY DEF Shape, Work
<1>2. Becomes(strand, strand', k, Tail(strand[k]))
  BY DEF Becomes, Popped
<1> HIDE DEF w
<1>3. InStrands(strand', w) = InStrands(strand, w)
  BY <1>1, <1>2, TakeOther
<1>4. strand' \in [Dirs -> Seq(Work)]
  <2>1. Tail(strand[k]) \in Seq(Work)
    BY <1>1
  <2>2. QED
    BY <1>1, <1>2, <2>1 DEF Becomes
<1>5. QED
  BY <1>3, <1>4 DEF Queued, w

----------------------------------------------------------------------------
(* The inductive invariant: it holds when a session begins, ... *)
LEMMA FlowInit == Init => FlowIInv
<1> SUFFICES ASSUME Init PROVE FlowIInv
  OBVIOUS
<1> USE ConstantsAssumption
<1>1. Shape
  BY DEF Init, Shape, Dirs, Idle
<1>2. \A d \in Dirs : Queued(d) = 0
  BY OccursEmpty DEF Init, InStrands, Queued, Dirs
<1>3. CountersExact
  <2>1. \A d \in Dirs : traffic[d] = 0 /\ sink[d] = 0 /\ Handled(d) = 0
    BY DEF Init, Handled
  <2>2. \A d \in Dirs : OnTheWay(d) = 0 + 0 + 0
    BY <1>2, <2>1, Zenon DEF OnTheWay
  <2>3. QED
    BY <2>1, <2>2 DEF CountersExact
<1>4. CorkedNeedsLimit /\ StoppedSourceIsResumed
  BY DEF Init, CorkedNeedsLimit, StoppedSourceIsResumed
<1>5. QED
  BY <1>1, <1>3, <1>4 DEF FlowIInv

(* ... and every step keeps it.  A step that leaves the messages, the handler *)
(* and the flags alone keeps all but the shape.                               *)
LEMMA CountersKept ==
    ASSUME FlowIInv, Shape', \A d \in Dirs : Queued(d)' = Queued(d),
           UNCHANGED <<side, main, sink, pool, traffic, corked>>
    PROVE  FlowIInv'
<1>1. CountersExact'
  BY DEF FlowIInv, CountersExact, OnTheWay, Handled
<1>2. CorkedNeedsLimit' /\ StoppedSourceIsResumed'
  BY DEF FlowIInv, CorkedNeedsLimit, StoppedSourceIsResumed, OwnCounter, Tested
<1>3. QED
  BY <1>1, <1>2 DEF FlowIInv

(* BlockRecv keeps the shape and posts no send. *)
LEMMA BlockRecvKeeps ==
    ASSUME Shape, NEW d \in Dirs, NEW b \in BOOLEAN, BlockRecv(d, b)
    PROVE  /\ strand' \in [Dirs -> Seq(Work)]
           /\ blocking' \in [Dirs -> BOOLEAN] /\ wake' \in [Dirs -> BOOLEAN]
           /\ \A e \in Dirs : Queued(e)' = Queued(e)
<1>1. CASE side = "relay"
  <2> DEFINE v == <<IF b THEN "block" ELSE "resume", d>>
  <2>1. v \in Work /\ \A e \in Dirs : v # <<"send", e>>
    BY DEF Work
  <2>2. strand' = [strand EXCEPT ![d] = Append(@, v)]
    BY <1>1 DEF BlockRecv, Posted, StrandOf
  <2> HIDE DEF v
  <2>3. \A e \in Dirs : strand' \in [Dirs -> Seq(Work)] /\ Queued(e)' = Queued(e)
    BY <2>1, <2>2, PostedOther
  <2>4. QED
    BY <1>1, <2>3 DEF BlockRecv, Shape
<1>2. CASE side # "relay"
  BY <1>2 DEF BlockRecv, ConnBlockRecv, Shape, Queued
<1>3. QED
  BY <1>1, <1>2

(* A message that arrives is work for its handler, which is to count it. *)
LEMMA PostedRecvKeeps ==
    ASSUME FlowIInv, NEW d \in Dirs, strand' = Posted(d, <<"recv", d>>),
           left' \in [Dirs -> Nat], reading' \in [Dirs -> BOOLEAN],
           UNCHANGED <<side, blocking, wake, main, sink, pool, traffic, corked, failed>>
    PROVE  FlowIInv'
<1> DEFINE k == StrandOf(d)
           v == <<"recv", d>>
<1>1. k \in Dirs /\ v \in Work /\ \A e \in Dirs : v # <<"send", e>>
  BY DEF StrandOf, Dirs, Work
<1>2. strand' = [strand EXCEPT ![k] = Append(@, v)] /\ Shape
  BY DEF Posted, FlowIInv
<1>3. \A e \in Dirs : strand' \in [Dirs -> Seq(Work)] /\ Queued(e)' = Queued(e)
  <2> HIDE DEF k, v
  <2>1. QED
    BY <1>1, <1>2, PostedOther
<1>4. Shape'
  BY <1>1, <1>2, <1>3 DEF Shape
<1>5. QED
  BY <1>3, <1>4, CountersKept

(* It comes from the source of its direction, ... *)
LEMMA ArrivesKeeps ==
    ASSUME FlowIInv, NEW d \in Dirs, Arrives(d)
    PROVE  FlowIInv'
<1>1. left' \in [Dirs -> Nat]
  BY DEF FlowIInv, Shape, Arrives
<1>2. reading' \in [Dirs -> BOOLEAN]
  BY DEF FlowIInv, Shape, Arrives
<1>3. QED
  BY <1>1, <1>2, PostedRecvKeeps DEF Arrives

(* ... or over the agent's tunnel. *)
LEMMA ArrivesOverTunnelKeeps ==
    ASSUME FlowIInv, ArrivesOverTunnel
    PROVE  FlowIInv'
<1>1. left' \in [Dirs -> Nat] /\ reading' \in [Dirs -> BOOLEAN] /\ "tunnel" \in Dirs
  BY DEF FlowIInv, Shape, ArrivesOverTunnel, Dirs
<1>2. QED
  BY <1>1, PostedRecvKeeps DEF ArrivesOverTunnel

(* A posted __DoRecv runs. *)
LEMMA WakeKeeps ==
    ASSUME FlowIInv, NEW d \in Dirs, Wake(d)
    PROVE  FlowIInv'
<1>1. Shape'
  BY DEF FlowIInv, Shape, Wake
<1>2. QED
  BY <1>1, CountersKept DEF Wake, Queued

(* The sink fails: what is posted for it stays posted. *)
LEMMA SinkFailsKeeps ==
    ASSUME FlowIInv, NEW d \in Dirs, SinkFails(d)
    PROVE  FlowIInv'
<1>1. Shape'
  BY DEF FlowIInv, Shape, SinkFails, source
<1>2. QED
  BY <1>1, CountersKept DEF SinkFails, Queued

(* A posted send moves from the strand to the sink. *)
LEMMA RunPostedKeeps ==
    ASSUME FlowIInv, NEW k \in Dirs, RunPosted(k)
    PROVE  FlowIInv'
<1>1. Shape /\ strand[k] # << >> /\ strand' = Popped(k)
  BY DEF RunPosted, CanRun, FlowIInv
<1>0. strand[k][1] \in Work
  BY <1>1 DEF Shape
<1> PICK what \in {"recv", "block", "resume", "send"}, d \in Dirs : strand[k][1] = <<what, d>>
  BY <1>0 DEF Work
<1>2. CASE what = "send"
  <2>1. strand[k][1] = <<"send", d>>
    BY <1>2
  <2>2. sink' = [sink EXCEPT ![d] = @ + 1] /\ UNCHANGED <<side, left, reading, main, pool, traffic, corked, failed, blocking, wake>>
    BY <1>2 DEF RunPosted, NextWork
  <2>3. strand' \in [Dirs -> Seq(Work)] /\ Queued(d)' = Queued(d) - 1
    BY <1>1, <2>1, TakenSend
  <2>4. Shape'
    <3>1. sink' \in [Dirs -> Nat]
      BY <1>1, <2>2 DEF Shape
    <3>2. QED
      BY <1>1, <2>2, <2>3, <3>1 DEF Shape
  <2>5. CountersExact'
    <3>1. SUFFICES ASSUME NEW e \in Dirs PROVE traffic'[e] = OnTheWay(e)'
      BY DEF CountersExact
    <3>2. traffic[e] = Queued(e) + sink[e] + Handled(e) /\ Handled(e)' = Handled(e)
      BY <2>2 DEF FlowIInv, CountersExact, OnTheWay, Handled
    <3>3. Queued(e) \in Nat /\ Handled(e) \in Nat /\ sink[e] \in Nat
      BY <1>1, QueuedType DEF Shape
    <3>4. CASE e = d
      <4>1. sink'[e] = sink[e] + 1 /\ Queued(e)' = Queued(e) - 1
        BY <2>2, <2>3, <3>4 DEF FlowIInv, Shape
      <4>2. QED
        BY <2>2, <3>2, <3>3, <4>1 DEF OnTheWay
    <3>5. CASE e # d
      <4>1. strand[k][1] # <<"send", e>>
        BY <2>1, <3>5
      <4>2. Queued(e)' = Queued(e)
        BY <1>1, <4>1, TakenOther
      <4>3. sink'[e] = sink[e]
        BY <1>1, <2>2, <3>5 DEF Shape
      <4>4. QED
        BY <2>2, <3>2, <4>2, <4>3 DEF OnTheWay
    <3>6. QED
      BY <3>4, <3>5
  <2>6. CorkedNeedsLimit' /\ StoppedSourceIsResumed'
    BY <2>2 DEF FlowIInv, CorkedNeedsLimit, StoppedSourceIsResumed, OwnCounter, Tested
  <2>7. QED
    BY <2>4, <2>5, <2>6 DEF FlowIInv
<1>3. CASE what # "send"
  <2>1. \A e \in Dirs : strand[k][1] # <<"send", e>>
    BY <1>3
  <2>2. /\ ConnBlockRecv(d, what = "block")
        /\ UNCHANGED <<side, left, reading, main, sink, pool, traffic, corked, failed>>
    BY <1>3 DEF RunPosted, NextWork
  <2>3. \A e \in Dirs : strand' \in [Dirs -> Seq(Work)] /\ Queued(e)' = Queued(e)
    BY <1>1, <2>1, TakenOther
  <2>4. blocking' \in [Dirs -> BOOLEAN] /\ wake' \in [Dirs -> BOOLEAN]
    BY <1>1, <2>2 DEF ConnBlockRecv, Shape
  <2>5. Shape'
    BY <1>1, <2>2, <2>3, <2>4 DEF Shape
  <2>6. QED
    BY <2>2, <2>3, <2>5, CountersKept
<1>4. QED
  BY <1>2, <1>3

(* The handler counts the message that it has taken from the strand. *)
LEMMA CountKeeps ==
    ASSUME FlowIInv, NEW k \in Dirs, Count(k)
    PROVE  FlowIInv'
<1>1. Shape /\ strand[k] # << >> /\ strand' = Popped(k)
  BY DEF Count, CanRun, FlowIInv
<1>0. strand[k][1] \in Work
  BY <1>1 DEF Shape
<1> PICK what \in {"recv", "block", "resume", "send"}, d \in Dirs : strand[k][1] = <<what, d>>
  BY <1>0 DEF Work
<1>2. /\ main = Idle /\ main' = <<"test", d>> /\ traffic' = [traffic EXCEPT ![d] = @ + 1]
      /\ UNCHANGED <<side, source, sink, pool, corked, failed>>
  BY DEF Count, CanRun, NextWork
<1>3. \A e \in Dirs : strand[k][1] # <<"send", e>>
  BY DEF Count, CanRun, NextWork
<1>4. \A e \in Dirs : strand' \in [Dirs -> Seq(Work)] /\ Queued(e)' = Queued(e)
  BY <1>1, <1>3, TakenOther
<1>5. Shape'
  <2>1. main' \in HandlerSteps \X Dirs
    BY <1>1, <1>2 DEF HandlerSteps
  <2>2. traffic' \in [Dirs -> Int]
    BY <1>1, <1>2 DEF Shape
  <2>3. QED
    BY <1>1, <1>2, <1>4, <2>1, <2>2 DEF Shape, source
<1>6. ASSUME NEW e \in Dirs
      PROVE  /\ traffic'[e] = OnTheWay(e)'
             /\ traffic'[e] >= traffic[e]
  <2>1. traffic[e] = Queued(e) + sink[e] + Handled(e) /\ Handled(e) = 0 /\ sink'[e] = sink[e]
    BY <1>2 DEF FlowIInv, CountersExact, OnTheWay, Handled
  <2>2. Queued(e) \in Nat /\ sink[e] \in Nat /\ traffic[e] \in Int
    BY <1>1, QueuedType DEF Shape
  <2>3. CASE e = d
    <3>1. traffic'[e] = traffic[e] + 1 /\ Handled(e)' = 1
      BY <1>1, <1>2, <2>3 DEF Shape, Handled, Idle
    <3>2. QED
      BY <1>4, <2>1, <2>2, <3>1 DEF OnTheWay
  <2>4. CASE e # d
    <3>1. traffic'[e] = traffic[e] /\ Handled(e)' = 0
      BY <1>1, <1>2, <2>4 DEF Shape, Handled
    <3>2. QED
      BY <1>4, <2>1, <2>2, <3>1 DEF OnTheWay
  <2>5. QED
    BY <2>3, <2>4
<1>7. StoppedSourceIsResumed'
  <2>1. SUFFICES ASSUME NEW e \in Dirs, OwnCounter(e)', corked'[e]
                 PROVE  traffic'[e] > 0 \/ pool'[e] \in {"test", "uncork"}
    BY DEF StoppedSourceIsResumed
  <2>2. traffic[e] > 0 \/ pool[e] \in {"test", "uncork"}
    BY <1>2, <2>1 DEF FlowIInv, StoppedSourceIsResumed, OwnCounter, Tested
  <2>3. traffic[e] \in Int /\ traffic'[e] \in Int
    BY <1>1, <1>5 DEF Shape
  <2>4. QED
    BY <1>2, <1>6, <2>2, <2>3
<1>8. CorkedNeedsLimit'
  BY <1>2 DEF FlowIInv, CorkedNeedsLimit
<1>9. QED
  BY <1>5, <1>6, <1>7, <1>8 DEF FlowIInv, CountersExact

(* Testing the limit and setting the flag leave the message with its handler. *)
LEMMA TestLimitKeeps ==
    ASSUME FlowIInv, NEW d \in Dirs, TestLimit(d)
    PROVE  FlowIInv'
<1>1. Shape /\ UNCHANGED <<side, source, strand, sink, pool, traffic, corked, failed>>
  BY DEF TestLimit, FlowIInv
<1>2. main' \in HandlerSteps \X Dirs /\ main'[2] = d /\ main[2] = d /\ main # Idle /\ main' # Idle
  BY DEF TestLimit, HandlerSteps, Idle
<1>3. Shape'
  BY <1>1, <1>2 DEF Shape, source
<1>4. CountersExact'
  <2>1. \A e \in Dirs : Handled(e)' = Handled(e) /\ Queued(e)' = Queued(e)
    BY <1>1, <1>2 DEF Handled, Queued
  <2>2. QED
    BY <1>1, <2>1 DEF FlowIInv, CountersExact, OnTheWay
<1>5. CorkedNeedsLimit'
  BY <1>1 DEF TestLimit, OverLimit, FlowIInv, CorkedNeedsLimit
<1>6. StoppedSourceIsResumed'
  BY <1>1 DEF FlowIInv, StoppedSourceIsResumed, OwnCounter, Tested
<1>7. QED
  BY <1>3, <1>4, <1>5, <1>6 DEF FlowIInv

(* A message with the handler of d is counted. *)
LEMMA HandledCounts ==
    ASSUME FlowIInv, NEW d \in Dirs, main # Idle, main[2] = d
    PROVE  traffic[d] > 0
<1>1. traffic[d] = Queued(d) + sink[d] + Handled(d) /\ Handled(d) = 1
  BY DEF FlowIInv, CountersExact, OnTheWay, Handled
<1>2. Queued(d) \in Nat /\ sink[d] \in Nat
  BY QueuedType DEF FlowIInv, Shape
<1>3. QED
  BY <1>1, <1>2

(* The source is corked when the counter passes the limit. *)
LEMMA CorkKeeps ==
    ASSUME FlowIInv, NEW d \in Dirs, Cork(d)
    PROVE  FlowIInv'
<1>1. /\ Shape /\ UNCHANGED <<side, source, strand, sink, pool, traffic, failed>>
      /\ corked' = [corked EXCEPT ![d] = TRUE]
  BY DEF Cork, FlowIInv
<1>2. /\ main = <<"cork", d>> /\ main' = <<"block", d>>
      /\ main[2] = d /\ main'[2] = d /\ main # Idle /\ main' # Idle
  BY DEF Cork, Idle
<1>3. Shape'
  <2>1. main' \in HandlerSteps \X Dirs
    BY <1>2 DEF HandlerSteps
  <2>2. QED
    BY <1>1, <2>1 DEF Shape, source
<1>4. CountersExact'
  <2>1. \A e \in Dirs : Handled(e)' = Handled(e) /\ Queued(e)' = Queued(e)
    BY <1>1, <1>2 DEF Handled, Queued
  <2>2. QED
    BY <1>1, <2>1 DEF FlowIInv, CountersExact, OnTheWay
<1>5. CorkedNeedsLimit'
  <2>1. Limit > 0
    BY <1>2 DEF FlowIInv, CorkedNeedsLimit
  <2>2. QED
    BY <2>1 DEF CorkedNeedsLimit
<1>6. StoppedSourceIsResumed'
  <2>1. traffic[d] > 0
    BY <1>2, HandledCounts
  <2>2. \A e \in Dirs : e # d => corked'[e] = corked[e]
    BY <1>1 DEF Shape
  <2>3. QED
    BY <1>1, <2>1, <2>2 DEF FlowIInv, StoppedSourceIsResumed, OwnCounter, Tested
<1>7. QED
  BY <1>3, <1>4, <1>5, <1>6 DEF FlowIInv

(* The corked source is blocked. *)
LEMMA BlockKeeps ==
    ASSUME FlowIInv, NEW d \in Dirs, Block(d)
    PROVE  FlowIInv'
<1>1. /\ Shape /\ BlockRecv(d, TRUE)
      /\ UNCHANGED <<side, left, reading, sink, pool, traffic, corked, failed>>
  BY DEF Block, FlowIInv
<1>2. /\ main' = <<"send", d>> /\ main[2] = d /\ main'[2] = d /\ main # Idle /\ main' # Idle
  BY DEF Block, Idle
<1>3. /\ strand' \in [Dirs -> Seq(Work)]
      /\ blocking' \in [Dirs -> BOOLEAN] /\ wake' \in [Dirs -> BOOLEAN]
      /\ \A e \in Dirs : Queued(e)' = Queued(e)
  BY <1>1, BlockRecvKeeps
<1>4. Shape'
  <2>1. main' \in HandlerSteps \X Dirs
    BY <1>2 DEF HandlerSteps
  <2>2. QED
    BY <1>1, <1>3, <2>1 DEF Shape
<1>5. CountersExact'
  <2>1. \A e \in Dirs : Handled(e)' = Handled(e)
    BY <1>2 DEF Handled
  <2>2. QED
    BY <1>1, <1>3, <2>1 DEF FlowIInv, CountersExact, OnTheWay
<1>6. CorkedNeedsLimit' /\ StoppedSourceIsResumed'
  BY <1>1, <1>2 DEF FlowIInv, CorkedNeedsLimit, StoppedSourceIsResumed, OwnCounter, Tested
<1>7. QED
  BY <1>4, <1>5, <1>6 DEF FlowIInv

(* The message leaves its handler for the strand of the sink, or the sink. *)
LEMMA ForwardKeeps ==
    ASSUME FlowIInv, NEW d \in Dirs, Forward(d)
    PROVE  FlowIInv'
<1> DEFINE v == <<"send", d>>
<1>1. Shape /\ UNCHANGED <<side, source, pool, traffic, corked, failed>>
  BY DEF Forward, FlowIInv
<1>2. main[2] = d /\ main # Idle /\ main' = Idle
  BY DEF Forward, Idle
<1>3. /\ strand' \in [Dirs -> Seq(Work)] /\ sink' \in [Dirs -> Nat]
      /\ \/ Queued(d)' = Queued(d) + 1 /\ sink'[d] = sink[d]
         \/ Queued(d)' = Queued(d) /\ sink'[d] = sink[d] + 1
      /\ \A e \in Dirs : e # d => Queued(e)' = Queued(e) /\ sink'[e] = sink[e]
  <2>1. CASE side = "relay"
    <3> DEFINE k == StrandOf(Other(d))
    <3>1. k \in Dirs /\ v \in Work /\ \A e \in Dirs : e # d => v # <<"send", e>>
      BY DEF StrandOf, Other, Dirs, Work
    <3>2. strand' = [strand EXCEPT ![k] = Append(@, v)] /\ UNCHANGED sink
      BY <2>1 DEF Forward, Posted
    <3> HIDE DEF k
    <3>3. strand' \in [Dirs -> Seq(Work)] /\ Queued(d)' = Queued(d) + 1
      BY <1>1, <3>1, <3>2, PostedSend
    <3> HIDE DEF v
    <3>4. \A e \in Dirs : e # d => Queued(e)' = Queued(e)
      BY <1>1, <3>1, <3>2, PostedOther
    <3>5. QED
      BY <1>1, <3>2, <3>3, <3>4 DEF Shape
  <2>2. CASE side # "relay"
    <3>1. sink' = [sink EXCEPT ![d] = @ + 1] /\ strand' = strand
      BY <2>2 DEF Forward
    <3>2. \A e \in Dirs : Queued(e)' = Queued(e)
      BY <3>1 DEF Queued
    <3>3. /\ sink' \in [Dirs -> Nat] /\ sink'[d] = sink[d] + 1
          /\ \A e \in Dirs : e # d => sink'[e] = sink[e]
      BY <1>1, <3>1 DEF Shape
    <3>4. QED
      BY <1>1, <3>1, <3>2, <3>3 DEF Shape
  <2>3. QED
    BY <2>1, <2>2
<1>4. Shape'
  BY <1>1, <1>2, <1>3 DEF Shape, source
<1>5. CountersExact'
  <2>1. SUFFICES ASSUME NEW e \in Dirs PROVE traffic'[e] = OnTheWay(e)'
    BY DEF CountersExact
  <2>2. traffic[e] = Queued(e) + sink[e] + Handled(e) /\ traffic' = traffic
    BY <1>1 DEF FlowIInv, CountersExact, OnTheWay
  <2>3. Queued(e) \in Nat /\ sink[e] \in Nat
    BY <1>1, QueuedType DEF Shape
  <2>4. Handled(e)' = 0
    BY <1>2 DEF Handled
  <2>5. CASE e = d
    <3>1. Handled(e) = 1
      BY <1>2, <2>5 DEF Handled
    <3>2. QED
      BY <1>3, <2>2, <2>3, <2>4, <2>5, <3>1 DEF OnTheWay
  <2>6. CASE e # d
    <3>1. Handled(e) = 0
      BY <1>2, <2>6 DEF Handled
    <3>2. QED
      BY <1>3, <2>2, <2>3, <2>4, <2>6, <3>1 DEF OnTheWay
  <2>7. QED
    BY <2>5, <2>6
<1>6. CorkedNeedsLimit' /\ StoppedSourceIsResumed'
  BY <1>1, <1>2 DEF FlowIInv, CorkedNeedsLimit, StoppedSourceIsResumed, OwnCounter, Tested
<1>7. QED
  BY <1>4, <1>5, <1>6 DEF FlowIInv

(* The callback discounts a message of the sink, and will test the counter. *)
LEMMA DiscountKeeps ==
    ASSUME FlowIInv, NEW d \in Dirs, Discount(d)
    PROVE  FlowIInv'
<1>1. /\ Shape /\ UNCHANGED <<side, source, strand, main, corked, failed>>
      /\ sink[d] > 0 /\ sink' = [sink EXCEPT ![d] = @ - 1]
      /\ traffic' = [traffic EXCEPT ![d] = @ - 1]
      /\ pool' = [pool EXCEPT ![d] = "test"]
  BY DEF Discount, FlowIInv
<1>2. /\ sink' \in [Dirs -> Nat] /\ traffic' \in [Dirs -> Int]
      /\ sink'[d] = sink[d] - 1 /\ traffic'[d] = traffic[d] - 1 /\ pool'[d] = "test"
      /\ \A e \in Dirs : e # d => sink'[e] = sink[e] /\ traffic'[e] = traffic[e] /\ pool'[e] = pool[e]
  BY <1>1 DEF Shape
<1>3. Shape'
  BY <1>1, <1>2 DEF Shape, source
<1>4. CountersExact'
  <2>1. SUFFICES ASSUME NEW e \in Dirs PROVE traffic'[e] = OnTheWay(e)'
    BY DEF CountersExact
  <2>2. /\ traffic[e] = Queued(e) + sink[e] + Handled(e)
        /\ Queued(e)' = Queued(e) /\ Handled(e)' = Handled(e)
    BY <1>1 DEF FlowIInv, CountersExact, OnTheWay, Queued, Handled
  <2>3. Queued(e) \in Nat /\ sink[e] \in Nat /\ Handled(e) \in Nat
    BY <1>1, QueuedType DEF Shape
  <2>4. CASE e = d
    BY <1>2, <2>2, <2>3, <2>4 DEF OnTheWay
  <2>5. CASE e # d
    BY <1>2, <2>2, <2>5 DEF OnTheWay
  <2>6. QED
    BY <2>4, <2>5
<1>5. CorkedNeedsLimit' /\ StoppedSourceIsResumed'
  BY <1>1, <1>2 DEF FlowIInv, CorkedNeedsLimit, StoppedSourceIsResumed, OwnCounter, Tested
<1>6. QED
  BY <1>3, <1>4, <1>5 DEF FlowIInv

(* A step of the callback that leaves the counters and the messages alone. *)
LEMMA CallbackKeepsCounters ==
    ASSUME FlowIInv, \A e \in Dirs : Queued(e)' = Queued(e), UNCHANGED <<main, sink, traffic>>
    PROVE  CountersExact'
<1>1. \A e \in Dirs : Handled(e)' = Handled(e)
  BY DEF Handled
<1>2. QED
  BY <1>1 DEF FlowIInv, CountersExact, OnTheWay

(* The callback passes over a stopped source only if another callback is to   *)
(* come: a counter at 0 is at most half of any limit.                         *)
LEMMA TestResumeKeeps ==
    ASSUME FlowIInv, NEW d \in Dirs, TestResume(d)
    PROVE  FlowIInv'
<1>1. /\ Shape /\ UNCHANGED <<side, source, strand, main, sink, traffic, corked, failed>>
      /\ pool' = [pool EXCEPT ![d] = IF MayResume(d) THEN "uncork" ELSE "idle"]
  BY DEF TestResume, FlowIInv
<1>2. Shape'
  BY <1>1 DEF Shape, source
<1>3. CountersExact'
  BY <1>1, CallbackKeepsCounters DEF Queued
<1>4. CorkedNeedsLimit'
  BY <1>1 DEF FlowIInv, CorkedNeedsLimit
<1>5. StoppedSourceIsResumed'
  <2>1. SUFFICES ASSUME NEW e \in Dirs, OwnCounter(e), corked[e]
                 PROVE  traffic[e] > 0 \/ pool'[e] \in {"test", "uncork"}
    BY <1>1 DEF StoppedSourceIsResumed, OwnCounter, Tested
  <2>2. CASE e # d
    <3>1. pool'[e] = pool[e]
      BY <1>1, <2>2 DEF Shape
    <3>2. QED
      BY <2>1, <3>1 DEF FlowIInv, StoppedSourceIsResumed
  <2>3. CASE e = d /\ ~(traffic[d] > 0)
    <3>1. Limit \in Nat /\ Limit > 0
      BY <2>1, ConstantsAssumption DEF FlowIInv, CorkedNeedsLimit
    <3>2. traffic[d] <= Limit \div 2
      <4>1. traffic[d] \in Int /\ traffic[d] <= 0
        BY <1>1, <2>3 DEF Shape
      <4>2. 0 <= Limit \div 2 /\ Limit \div 2 \in Int
        BY <3>1
      <4>3. QED
        BY <4>1, <4>2
    <3>3. MayResume(d)
      BY <2>1, <2>3, <3>1, <3>2 DEF MayResume, OwnCounter
    <3>4. QED
      BY <1>1, <2>3, <3>3 DEF Shape
  <2>4. QED
    BY <2>2, <2>3
<1>6. QED
  BY <1>2, <1>3, <1>4, <1>5 DEF FlowIInv

(* The source is uncorked when the counter is back below the limit. *)
LEMMA UncorkKeeps ==
    ASSUME FlowIInv, NEW d \in Dirs, Uncork(d)
    PROVE  FlowIInv'
<1>1. /\ Shape /\ UNCHANGED <<side, source, strand, main, sink, traffic, failed>>
      /\ pool' = [pool EXCEPT ![d] = "resume"] /\ corked' = [corked EXCEPT ![d] = FALSE]
  BY DEF Uncork, FlowIInv
<1>2. Shape'
  BY <1>1 DEF Shape, source
<1>3. CountersExact'
  BY <1>1, CallbackKeepsCounters DEF Queued
<1>4. /\ corked'[d] = FALSE
      /\ \A e \in Dirs : e # d => pool'[e] = pool[e] /\ corked'[e] = corked[e]
  BY <1>1 DEF Shape
<1>5. CorkedNeedsLimit' /\ StoppedSourceIsResumed'
  BY <1>1, <1>4 DEF FlowIInv, CorkedNeedsLimit, StoppedSourceIsResumed, OwnCounter, Tested
<1>6. QED
  BY <1>2, <1>3, <1>5 DEF FlowIInv

(* The uncorked source is resumed. *)
LEMMA ResumeKeeps ==
    ASSUME FlowIInv, NEW d \in Dirs, Resume(d)
    PROVE  FlowIInv'
<1>1. /\ Shape /\ UNCHANGED <<side, left, reading, main, sink, traffic, corked, failed>>
      /\ pool[d] = "resume" /\ pool' = [pool EXCEPT ![d] = "idle"] /\ BlockRecv(d, FALSE)
  BY DEF Resume, FlowIInv
<1>2. /\ strand' \in [Dirs -> Seq(Work)]
      /\ blocking' \in [Dirs -> BOOLEAN] /\ wake' \in [Dirs -> BOOLEAN]
      /\ \A e \in Dirs : Queued(e)' = Queued(e)
  BY <1>1, BlockRecvKeeps
<1>3. Shape'
  BY <1>1, <1>2 DEF Shape
<1>4. CountersExact'
  BY <1>1, <1>2, CallbackKeepsCounters
<1>5. \A e \in Dirs : pool[e] \in {"test", "uncork"} => pool'[e] = pool[e]
  BY <1>1 DEF Shape
<1>6. CorkedNeedsLimit' /\ StoppedSourceIsResumed'
  BY <1>1, <1>5 DEF FlowIInv, CorkedNeedsLimit, StoppedSourceIsResumed, OwnCounter, Tested
<1>7. QED
  BY <1>3, <1>4, <1>6 DEF FlowIInv

----------------------------------------------------------------------------
(* Every step of the session keeps the inductive invariant. *)
LEMMA FlowStep == FlowIInv /\ [Next]_vars => FlowIInv'
<1> SUFFICES ASSUME FlowIInv, [Next]_vars PROVE FlowIInv'
  OBVIOUS
<1>1. CASE RunMain
  BY <1>1, RunPostedKeeps, CountKeeps, TestLimitKeeps, CorkKeeps, BlockKeeps, ForwardKeeps
     DEF RunMain, Handler
<1>2. CASE \E d \in Dirs : Arrives(d) \/ Wake(d) \/ Discount(d) \/ Callback(d) \/ SinkFails(d)
  BY <1>2, ArrivesKeeps, WakeKeeps, DiscountKeeps, TestResumeKeeps, UncorkKeeps, ResumeKeeps,
     SinkFailsKeeps DEF Callback
<1>3. CASE ArrivesOverTunnel
  BY <1>3, ArrivesOverTunnelKeeps
<1>4. CASE UNCHANGED vars
  <2>1. Shape' /\ UNCHANGED <<side, strand, main, sink, pool, traffic, corked>>
    BY <1>4 DEF FlowIInv, Shape, vars
  <2>2. QED
    BY <2>1, CountersKept DEF Queued
<1>5. QED
  BY <1>1, <1>2, <1>3, <1>4 DEF Next

(* user_traffic_ and tunnel_traffic_ are, at every moment, the number of      *)
(* messages of their direction between the handler that counted them and the  *)
(* callback that discounts them, whatever the two threads do in between.      *)
THEOREM CountersCountMessages == Spec => []CountersExact
<1>1. FlowIInv => CountersExact
  BY DEF FlowIInv
<1>2. QED
  BY <1>1, FlowInit, FlowStep, PTL DEF Spec

(* The unsigned counters of a session never wrap below 0, and its state keeps *)
(* its shape, for every limit and every load.                                 *)
THEOREM FlowTypeCorrect == Spec => []TypeOK
<1>1. FlowIInv => TypeOK
  <2> SUFFICES ASSUME FlowIInv PROVE TypeOK
    OBVIOUS
  <2>1. traffic \in [Dirs -> Nat]
    <3>1. \A d \in Dirs : traffic[d] \in Nat
      <4>1. TAKE d \in Dirs
      <4>2. traffic[d] = Queued(d) + sink[d] + Handled(d)
        BY DEF FlowIInv, CountersExact, OnTheWay
      <4>3. Queued(d) \in Nat /\ Handled(d) \in Nat /\ sink[d] \in Nat
        BY QueuedType DEF FlowIInv, Shape
      <4>4. QED
        BY <4>2, <4>3
    <3>2. QED
      BY <3>1 DEF FlowIInv, Shape
  <2>2. QED
    BY <2>1 DEF FlowIInv, Shape, Work, TypeOK
<1>2. QED
  BY <1>1, FlowInit, FlowStep, PTL DEF Spec

(* A source that queue_limit has stopped always has a message on its way, or  *)
(* a callback running, that will find the flag and resume it: stopping on the *)
(* main thread and resuming on a pool thread never miss each other, for every *)
(* limit and every load.                                                      *)
THEOREM StoppedIsResumed == Spec => []StoppedSourceIsResumed
<1>1. FlowIInv => StoppedSourceIsResumed
  BY DEF FlowIInv
<1>2. QED
  BY <1>1, FlowInit, FlowStep, PTL DEF Spec
=============================================================================
