------------------------ MODULE TcpConnectionProofs ------------------------
(***************************************************************************)
(* Proofs about the two ends of TcpConnection taken apart: what BlockRecv  *)
(* lets through at the receiving end, and how the send callbacks follow    *)
(* the outgoing queue at the sending end.  TcpFramingProofs adds the       *)
(* stream between them.  First come the facts about flattened sequences    *)
(* that both need.                                                         *)
(***************************************************************************)
EXTENDS TcpConnection, SequenceTheorems, WellFoundedInduction, TLAPS

----------------------------------------------------------------------------
(* What FlattenSeq does to every sequence of sequences.  The bytes of a      *)
(* message, of the outgoing queue and of the stream between two sockets are  *)
(* flattened sequences, so every fact about framing rests on these.  Each    *)
(* induction is a smallest counterexample: a non-empty set of lengths has a  *)
(* least element (NatMin).                                                   *)

(* A non-empty set of natural numbers has a least element. *)
LEMMA NatMin ==
    ASSUME NEW T, T \subseteq Nat, T # {}
    PROVE  \E x \in T : \A y \in T : x <= y
<1> DEFINE R == OpToRel(<, Nat)
<1>1. IsWellFoundedOn(R, Nat)
  BY NatLessThanWellFounded
<1>2. \A x, y \in Nat : y < x => <<y, x>> \in R
  BY DEF OpToRel
<1> HIDE DEF R
<1>3. PICK x \in T : \A y \in T : ~ (<<y, x>> \in R)
  BY <1>1, WFMin
<1>4. \A y \in T : ~(y < x)
  BY <1>2, <1>3
<1>5. QED
  BY <1>4

(* Concatenation is associative. *)
Joins(S) == \A a, b, c \in Seq(S) : (a \o b) \o c = a \o (b \o c)
LEMMA Associative ==
    \A S : Joins(S)
BY ConcatAssociative DEF Joins

----------------------------------------------------------------------------
(* The recursion inside FlattenSeq: f holds the flattened prefixes of q. *)
FlatPrefixes(f, q, n) == f = [i \in 1..n |-> IF i = 1 THEN q[i] ELSE f[i-1] \o q[i]]

(* The recursion has a solution for every length. *)
LEMMA PrefixesExist ==
    ASSUME NEW q
    PROVE  \A n \in Nat : \E f : FlatPrefixes(f, q, n)
<1> DEFINE T == {n \in Nat : ~ \E f : FlatPrefixes(f, q, n)}
<1> SUFFICES ASSUME T # {} PROVE FALSE
  OBVIOUS
<1>1. PICK n \in T : \A y \in T : n <= y
  BY NatMin
<1>2. n \in Nat /\ ~ \E f : FlatPrefixes(f, q, n)
  OBVIOUS
<1>3. n # 0
  <2>1. FlatPrefixes([i \in 1..0 |-> 0], q, 0)
    BY DEF FlatPrefixes
  <2>2. QED
    BY <2>1, <1>2
<1>4. PICK f : FlatPrefixes(f, q, n - 1)
  <2>1. n - 1 \in Nat /\ ~(n <= n - 1)
    BY <1>2, <1>3
  <2>2. QED
    BY <2>1, <1>1
<1> DEFINE g == [i \in 1..n |-> IF i = n THEN (IF i = 1 THEN q[i] ELSE f[i-1] \o q[i]) ELSE f[i]]
<1>5. FlatPrefixes(g, q, n)
  <2>1. \A i \in 1..n : g[i] = IF i = 1 THEN q[i] ELSE g[i-1] \o q[i]
    <3> TAKE i \in 1..n
    <3>1. CASE i = n /\ i = 1
      BY <3>1
    <3>2. CASE i = n /\ i # 1
      <4>1. i - 1 \in 1..n /\ i - 1 # n
        BY <3>2, <1>2
      <4>2. g[i-1] = f[i-1] /\ g[i] = f[i-1] \o q[i]
        BY <4>1, <3>2
      <4>3. QED
        BY <4>2, <3>2
    <3>3. CASE i # n /\ i = 1
      <4>1. i \in 1..(n-1)
        BY <3>3, <1>2
      <4>2. f[i] = q[i]
        BY <4>1, <3>3, <1>4 DEF FlatPrefixes
      <4>3. QED
        BY <4>2, <3>3
    <3>4. CASE i # n /\ i # 1
      <4>1. i \in 1..(n-1) /\ i - 1 \in 1..n /\ i - 1 # n
        BY <3>4, <1>2
      <4>2. f[i] = f[i-1] \o q[i]
        BY <4>1, <3>4, <1>4 DEF FlatPrefixes
      <4>3. g[i-1] = f[i-1] /\ g[i] = f[i]
        BY <4>1, <3>4
      <4>4. QED
        BY <4>2, <4>3, <3>4
    <3>5. QED
      BY <3>1, <3>2, <3>3, <3>4
  <2>2. g = [i \in 1..n |-> g[i]]
    OBVIOUS
  <2> HIDE DEF g
  <2>3. QED
    BY <2>1, <2>2 DEF FlatPrefixes
<1>6. QED
  BY <1>5, <1>2

(* FlattenSeq is the last of the flattened prefixes. *)
LEMMA FlattenIsLast ==
    ASSUME NEW q, Len(q) \in Nat \ {0}
    PROVE  \E f : FlatPrefixes(f, q, Len(q)) /\ FlattenSeq(q) = f[Len(q)]
<1> DEFINE f == CHOOSE f : f = [i \in 1..Len(q) |-> IF i = 1 THEN q[i] ELSE f[i-1] \o q[i]]
<1>1. FlattenSeq(q) = f[Len(q)]
  BY DEF FlattenSeq
<1>2. \E h : h = [i \in 1..Len(q) |-> IF i = 1 THEN q[i] ELSE h[i-1] \o q[i]]
  BY PrefixesExist DEF FlatPrefixes
<1>3. f = [i \in 1..Len(q) |-> IF i = 1 THEN q[i] ELSE f[i-1] \o q[i]]
  BY <1>2
<1> HIDE DEF f
<1>4. QED
  BY <1>1, <1>3 DEF FlatPrefixes

----------------------------------------------------------------------------
(* Nothing, flattened, is nothing. *)
LEMMA FlattenEmpty ==
    FlattenSeq(<< >>) = << >>
BY DEF FlattenSeq

(* One sequence, flattened, is itself. *)
LEMMA FlattenOne ==
    ASSUME NEW x
    PROVE  FlattenSeq(<<x>>) = x
<1>1. Len(<<x>>) = 1 /\ <<x>>[1] = x
  OBVIOUS
<1>2. PICK f : FlatPrefixes(f, <<x>>, 1) /\ FlattenSeq(<<x>>) = f[1]
  <2> DEFINE w == <<x>>
  <2>1. Len(w) = 1 /\ Len(w) \in Nat \ {0}
    OBVIOUS
  <2> HIDE DEF w
  <2>2. \E f : FlatPrefixes(f, w, Len(w)) /\ FlattenSeq(w) = f[Len(w)]
    BY <2>1, FlattenIsLast
  <2>3. QED
    BY <2>1, <2>2 DEF w
<1>3. f[1] = <<x>>[1]
  BY <1>2 DEF FlatPrefixes
<1>4. QED
  BY <1>1, <1>2, <1>3

(* One more sequence adds its elements at the end. *)
LEMMA FlattenLonger ==
    ASSUME NEW q, NEW a, Len(q) \in Nat \ {0}, Len(a) = Len(q) + 1,
           \A i \in 1..Len(q) : q[i] = a[i]
    PROVE  FlattenSeq(a) = FlattenSeq(q) \o a[Len(a)]
<1> DEFINE m == Len(q)  n == Len(a)
<1>1. m \in Nat /\ n \in Nat /\ m <= n /\ n \in Nat \ {0}
  OBVIOUS
<1>2. PICK f : FlatPrefixes(f, q, m) /\ FlattenSeq(q) = f[m]
  BY FlattenIsLast
<1>3. PICK g : FlatPrefixes(g, a, n) /\ FlattenSeq(a) = g[n]
  BY <1>1, FlattenIsLast
<1>4. m \in 1..m /\ n \in 1..n /\ n # 1 /\ n - 1 = m
  OBVIOUS
<1>5. \A i \in 1..m : q[i] = a[i]
  OBVIOUS
<1> HIDE DEF m, n
<1>6. \A i \in 1..m : f[i] = g[i]
  <2> DEFINE T == {i \in 1..m : f[i] # g[i]}
  <2> SUFFICES ASSUME T # {} PROVE FALSE
    OBVIOUS
  <2>1. T \subseteq Nat
    BY <1>1
  <2>2. PICK i \in T : \A y \in T : i <= y
    BY <2>1, NatMin
  <2>3. i \in 1..m /\ f[i] # g[i] /\ i \in 1..n
    BY <1>1
  <2>4. i # 1
    BY <2>3, <1>2, <1>3, <1>5 DEF FlatPrefixes
  <2>5. i - 1 \in 1..m /\ ~(i <= i - 1)
    BY <2>3, <2>4, <1>1
  <2>6. f[i-1] = g[i-1]
    BY <2>2, <2>5
  <2>7. f[i] = f[i-1] \o q[i]
    BY <2>3, <2>4, <1>2 DEF FlatPrefixes
  <2>8. g[i] = g[i-1] \o a[i]
    BY <2>3, <2>4, <1>3 DEF FlatPrefixes
  <2>9. QED
    BY <2>3, <2>6, <2>7, <2>8, <1>5
<1>7. g[n] = g[n - 1] \o a[n]
  BY <1>3, <1>4 DEF FlatPrefixes
<1>8. f[m] = g[n - 1]
  BY <1>4, <1>6
<1>9. QED
  BY <1>2, <1>3, <1>7, <1>8 DEF n

(* A sequence appended adds its elements at the end. *)
LEMMA FlattenAppend ==
    ASSUME NEW S, NEW q \in Seq(Seq(S)), NEW x \in Seq(S)
    PROVE  FlattenSeq(Append(q, x)) = FlattenSeq(q) \o x
<1> DEFINE a == Append(q, x)
<1>1. Len(q) \in Nat /\ Len(a) = Len(q) + 1 /\ a[Len(a)] = x /\ \A i \in 1..Len(q) : q[i] = a[i]
  BY AppendProperties
<1>2. CASE q = << >>
  <2>1. a = <<x>> /\ << >> \o x = x
    BY <1>2, ConcatEmptySeq
  <2>2. QED
    BY <1>2, <2>1, FlattenEmpty, FlattenOne
<1>3. CASE q # << >>
  <2>1. Len(q) \in Nat \ {0}
    BY <1>3, EmptySeq
  <2> HIDE DEF a
  <2>2. FlattenSeq(a) = FlattenSeq(q) \o a[Len(a)]
    BY <1>1, <2>1, FlattenLonger
  <2>3. QED
    BY <1>1, <2>2 DEF a
<1>4. QED
  BY <1>2, <1>3

(* The elements of the flattened sequence are elements of its sequences. *)
LEMMA FlattenType ==
    ASSUME NEW S, NEW q \in Seq(Seq(S))
    PROVE  FlattenSeq(q) \in Seq(S)
<1> DEFINE T == {n \in Nat : \E p \in Seq(Seq(S)) : Len(p) = n /\ FlattenSeq(p) \notin Seq(S)}
<1> SUFFICES ASSUME T # {} PROVE FALSE
  BY LenProperties
<1>1. PICK n \in T : \A y \in T : n <= y
  BY NatMin
<1>2. PICK p \in Seq(Seq(S)) : Len(p) = n /\ FlattenSeq(p) \notin Seq(S)
  OBVIOUS
<1>3. p # << >>
  BY <1>2, FlattenEmpty, EmptySeq
<1>4. PICK s \in Seq(Seq(S)), x \in Seq(S) : p = Append(s, x)
  BY <1>3, SequenceEmptyOrAppend
<1>5. Len(s) \in Nat /\ n = Len(s) + 1
  BY <1>2, <1>4, AppendProperties, LenProperties
<1>6. FlattenSeq(s) \in Seq(S)
  <2>1. ~(n <= Len(s))
    BY <1>5
  <2>2. Len(s) \notin T
    BY <1>1, <2>1
  <2>3. QED
    BY <1>5, <2>2
<1>7. FlattenSeq(p) = FlattenSeq(s) \o x
  BY <1>4, FlattenAppend
<1>8. QED
  BY <1>2, <1>6, <1>7, ConcatProperties

(* Appending to the second part appends to the whole. *)
LEMMA AppendedLast ==
    ASSUME NEW S, NEW p \in Seq(S), NEW s \in Seq(S), NEW x \in S
    PROVE  p \o Append(s, x) = Append(p \o s, x)
OBVIOUS

(* Flattening takes concatenation to concatenation. *)
LEMMA FlattenConcat ==
    ASSUME NEW S, NEW p \in Seq(Seq(S)), NEW q \in Seq(Seq(S))
    PROVE  FlattenSeq(p \o q) = FlattenSeq(p) \o FlattenSeq(q)
<1> DEFINE T == {n \in Nat : \E u \in Seq(Seq(S)) :
                    Len(u) = n /\ FlattenSeq(p \o u) # FlattenSeq(p) \o FlattenSeq(u)}
<1> SUFFICES ASSUME T # {} PROVE FALSE
  BY LenProperties
<1>1. PICK n \in T : \A y \in T : n <= y
  BY NatMin
<1>2. PICK u \in Seq(Seq(S)) : Len(u) = n /\ FlattenSeq(p \o u) # FlattenSeq(p) \o FlattenSeq(u)
  OBVIOUS
<1> HIDE DEF T
<1>3. u # << >>
  <2>1. p \o << >> = p /\ FlattenSeq(p) \o << >> = FlattenSeq(p)
    BY ConcatEmptySeq, FlattenType
  <2>2. QED
    BY <1>2, <2>1, FlattenEmpty
<1>4. PICK s \in Seq(Seq(S)), x \in Seq(S) : u = Append(s, x)
  BY <1>3, SequenceEmptyOrAppend
<1>5. Len(s) \in Nat /\ n = Len(s) + 1
  BY <1>2, <1>4, AppendProperties, LenProperties
<1>6. FlattenSeq(p \o s) = FlattenSeq(p) \o FlattenSeq(s)
  <2>1. ~(n <= Len(s))
    BY <1>5
  <2>2. Len(s) \notin T
    BY <1>1, <2>1
  <2>3. QED
    BY <1>5, <2>2 DEF T
<1>7. FlattenSeq(u) = FlattenSeq(s) \o x
  BY <1>4, FlattenAppend
<1>8. p \o u = Append(p \o s, x)
  BY <1>4, AppendedLast
<1>9. FlattenSeq(p \o u) = FlattenSeq(p \o s) \o x
  <2>1. p \o s \in Seq(Seq(S))
    BY ConcatProperties
  <2>2. QED
    BY <1>8, <2>1, FlattenAppend
<1>10. (FlattenSeq(p) \o FlattenSeq(s)) \o x = FlattenSeq(p) \o (FlattenSeq(s) \o x)
  <2>1. FlattenSeq(p) \in Seq(S) /\ FlattenSeq(s) \in Seq(S)
    BY FlattenType
  <2>2. Joins(S)
    BY Associative
  <2>3. QED
    BY <1>4, <2>1, <2>2 DEF Joins
<1>11. QED
  BY <1>2, <1>6, <1>7, <1>9, <1>10

(* The first sequence comes first. *)
LEMMA FlattenHead ==
    ASSUME NEW S, NEW q \in Seq(Seq(S)), q # << >>
    PROVE  FlattenSeq(q) = Head(q) \o FlattenSeq(Tail(q))
<1>1. Head(q) \in Seq(S) /\ Tail(q) \in Seq(Seq(S)) /\ q = <<Head(q)>> \o Tail(q)
  OBVIOUS
<1> DEFINE h == Head(q)  r == Tail(q)
<1> HIDE DEF h, r
<1>2. <<h>> \in Seq(Seq(S)) /\ r \in Seq(Seq(S)) /\ q = <<h>> \o r
  BY <1>1 DEF h, r
<1>3. FlattenSeq(<<h>> \o r) = FlattenSeq(<<h>>) \o FlattenSeq(r)
  BY <1>2, FlattenConcat
<1>4. QED
  BY <1>2, <1>3, FlattenOne DEF h, r

----------------------------------------------------------------------------
(* The receiving end: a read that was outstanding when BlockRecv(true) was   *)
(* called is delivered, and no other read is started until blocking_recv_    *)
(* is cleared.                                                               *)
BlockIInv ==
    /\ blocking \in BOOLEAN /\ since \in {0, 1}
    /\ ~blocking => since = 0
    /\ blocking /\ since = 1 => reading \in {"no", "dead"}

(* What __DoRecv makes of the outstanding read. *)
LEMMA DoRecvReads ==
    ASSUME NEW R, DoRecv(R)
    PROVE  /\ R # "no" => reading' = R
           /\ blocking => reading' = R
           /\ reading' \in {R, "dead", "head", "some"}
BY DEF DoRecv, Allocated, StartRead

(* Every step keeps it. *)
LEMMA BlockStep ==
    ASSUME BlockIInv, [Next]_vars
    PROVE  BlockIInv'
<1>1. CASE UNCHANGED <<blocking, since, reading>>
  BY <1>1 DEF BlockIInv
<1>2. CASE Start
  <2>1. UNCHANGED <<blocking, since>>
    BY <1>2 DEF Start
  <2>2. blocking => reading' = reading
    BY <1>2, DoRecvReads DEF Start
  <2>3. QED
    BY <2>1, <2>2 DEF BlockIInv
<1>3. CASE RunDoRecv
  <2>1. UNCHANGED <<blocking, since>>
    BY <1>3 DEF RunDoRecv
  <2>2. blocking => reading' = reading
    BY <1>3, DoRecvReads DEF RunDoRecv
  <2>3. QED
    BY <2>1, <2>2 DEF BlockIInv
<1>4. CASE OnHeadRecvCallback
  BY <1>4 DEF OnHeadRecvCallback, BlockIInv
<1>5. ASSUME NEW given, Received(given), reading \notin {"no", "dead"}, UNCHANGED blocking
      PROVE  BlockIInv'
  <2>1. blocking => reading' = "no"
    BY <1>5, DoRecvReads DEF Received
  <2>2. blocking => since = 0
    BY <1>5 DEF BlockIInv
  <2>3. UNCHANGED since \/ since' = IF blocking THEN since + 1 ELSE 0
    BY <1>5 DEF Received
  <2>4. QED
    BY <1>5, <2>1, <2>2, <2>3 DEF BlockIInv
<1>6. CASE OnRecvCallback
  BY <1>5, <1>6 DEF OnRecvCallback
<1>7. CASE OnRecvSomeCallback
  BY <1>5, <1>7 DEF OnRecvSomeCallback
<1>8. CASE ReadFails
  BY <1>8 DEF ReadFails, BlockIInv
<1>9. ASSUME NEW b \in BOOLEAN, BlockRecv(b)
      PROVE  BlockIInv'
  BY <1>9 DEF BlockRecv, BlockIInv
<1>10. CASE SendStep \/ RunSend \/ WriteSome \/ OnSendCallback \/ Fails
            \/ (\E end \in {"sender", "receiver"} : Close(end)) \/ UNCHANGED vars
  <2>1. UNCHANGED <<blocking, since, reading>>
    BY <1>10 DEF SendStep, Send, RunSend, WriteSome, OnSendCallback, Fails, Close, vars, receiver
  <2>2. QED
    BY <2>1, <1>1
<1>11. QED
  BY <1>2, <1>3, <1>4, <1>6, <1>7, <1>8, <1>9, <1>10 DEF Next

(* BlockRecv(true) lets at most the outstanding read through (tcpconnection.hpp *)
(* and rawtcpconnection.hpp, BlockRecv and __DoRecv), whatever the buffers, the *)
(* messages and the order of the calls.                                         *)
THEOREM BlockedReadsOnce ==
    Spec => []BlockedReadsAtMostOne
<1>1. Init => BlockIInv
  BY DEF Init, BlockIInv
<1>2. BlockIInv /\ [Next]_vars => BlockIInv'
  BY BlockStep
<1>3. BlockIInv => BlockedReadsAtMostOne
  BY DEF BlockIInv, BlockedReadsAtMostOne
<1>4. QED
  BY <1>1, <1>2, <1>3, PTL DEF Spec
----------------------------------------------------------------------------
(* The sending end.  The packets of the queue belong to the messages after    *)
(* the last called one: f numbers the message of each packet, and f[Len(Q)+1] *)
(* is the next message that __Send will be run for.                           *)
Packet == [data : Seq(Item), pfn : BOOLEAN]
Of(i) == {b \in Byte : b[1] = i}
From(n) == {x \in Item : IsHeader(x) \/ x[1] >= n}

Numbers(f, Q, c, top) ==
    /\ f \in [1..Len(Q) + 1 -> Nat]
    /\ f[1] = c + 1 /\ f[Len(Q) + 1] = top
    /\ \A k \in 1..Len(Q) : /\ f[k + 1] = IF Q[k].pfn THEN f[k] + 1 ELSE f[k]
                            /\ Q[k].data \in Seq(From(f[k]))
    /\ \A i, j \in 1..Len(Q) + 1 : i <= j => f[i] <= f[j]

Posts ==
    /\ posted \in Seq(Seq(Seq(Byte))) /\ Len(posted) <= MaxMessages
    /\ \A i \in 1..Len(posted) : posted[i] \in Seq(Seq(Of(i))) /\ posted[i] # << >>
    /\ taken \in 0..Len(posted)

Ends ==
    /\ kind \in Kinds /\ alive \in BOOLEAN /\ closed \subseteq {"sender", "receiver"}
    /\ closed # {} => ~alive

Sends ==
    /\ queue \in Seq(Packet) /\ called \in Nat
    /\ sending \in Seq(Seq(From(called))) /\ Len(sending) <= 1
    /\ \E f, top :
          /\ Numbers(f, queue, called, top) /\ top <= taken + 1
          /\ ("sender" \in closed /\ Framed) \/ top = taken + 1

SenderIInv == Posts /\ Ends /\ Sends

(* Items of later messages are items of earlier ones and later. *)
LEMMA FromMonotonic ==
    ASSUME NEW m \in Nat, NEW n \in Nat, m <= n
    PROVE  From(n) \subseteq From(m)
<1> SUFFICES ASSUME NEW x \in From(n)
             PROVE  x \in From(m)
  OBVIOUS
<1>1. CASE x \in Byte
  <2>1. x[1] \in Nat /\ (IsHeader(x) \/ x[1] >= n)
    BY <1>1, ConstantsAssumption DEF From, Byte
  <2>2. QED
    BY <2>1 DEF From
<1>2. CASE x \in {"length"} \X Nat
  <2>1. IsHeader(x)
    BY <1>2 DEF IsHeader
  <2>2. QED
    BY <2>1 DEF From
<1>3. QED
  BY <1>1, <1>2 DEF From, Item

(* A header may wait at any point of the queue. *)
LEMMA HeaderFrom ==
    ASSUME NEW n \in Nat, NEW k \in Nat
    PROVE  <<Header(k)>> \in Seq(From(n))
<1>1. Header(k) \in Item /\ IsHeader(Header(k))
  BY DEF Header, Item, IsHeader
<1>2. QED
  BY <1>1 DEF From

(* The bytes of message i are items, and items of i and later. *)
LEMMA BytesFrom ==
    ASSUME NEW i \in Nat
    PROVE  Of(i) \subseteq From(i) /\ Of(i) \subseteq Byte /\ Byte \subseteq Item /\ From(i) \subseteq Item
BY ConstantsAssumption DEF Of, From, Item, Byte

(* Taking the first packet: its callback, if it has one, is called. *)
LEMMA NumbersTail ==
    ASSUME NEW Q \in Seq(Packet), Q # << >>, NEW c \in Nat, NEW f, NEW top, Numbers(f, Q, c, top)
    PROVE  /\ Head(Q).data \in Seq(From(c + 1))
           /\ \E g : Numbers(g, Tail(Q), IF Head(Q).pfn THEN c + 1 ELSE c, top)
<1> DEFINE n == Len(Q)  T == Tail(Q)
           g == [k \in 1..n |-> f[k + 1]]
<1>1. n \in Nat \ {0} /\ Head(Q) = Q[1] /\ T \in Seq(Packet) /\ Len(T) = n - 1
      /\ \A k \in 1..(n - 1) : T[k] = Q[k + 1]
  BY HeadTailProperties
<1>2. /\ f \in [1..n + 1 -> Nat]
      /\ f[1] = c + 1 /\ f[n + 1] = top
      /\ \A k \in 1..n : /\ f[k + 1] = IF Q[k].pfn THEN f[k] + 1 ELSE f[k]
                         /\ Q[k].data \in Seq(From(f[k]))
      /\ \A i, j \in 1..n + 1 : i <= j => f[i] <= f[j]
  BY DEF Numbers
<1>3. 1 \in 1..n /\ (n - 1) + 1 = n
  BY <1>1
<1> HIDE DEF n, T
<1>4. Q[1].data \in Seq(From(c + 1)) /\ f[2] = (IF Q[1].pfn THEN c + 1 ELSE c) + 1
  BY <1>2, <1>3
<1>5. g \in [1..n -> Nat] /\ g[1] = f[2] /\ g[n] = f[n + 1]
  BY <1>1, <1>2, <1>3
<1>6. \A k \in 1..(n - 1) : /\ g[k + 1] = IF T[k].pfn THEN g[k] + 1 ELSE g[k]
                            /\ T[k].data \in Seq(From(g[k]))
  <2> TAKE k \in 1..(n - 1)
  <2>1. k + 1 \in 1..n /\ k \in 1..n /\ T[k] = Q[k + 1]
    BY <1>1
  <2>2. g[k] = f[k + 1] /\ g[k + 1] = f[(k + 1) + 1]
    BY <2>1
  <2> HIDE DEF g
  <2>3. QED
    BY <1>2, <2>1, <2>2
<1>7. \A i, j \in 1..n : i <= j => g[i] <= g[j]
  <2> TAKE i, j \in 1..n
  <2>1. i + 1 \in 1..n + 1 /\ j + 1 \in 1..n + 1 /\ (i <= j => i + 1 <= j + 1)
    BY <1>1
  <2>2. g[i] = f[i + 1] /\ g[j] = f[j + 1]
    OBVIOUS
  <2> HIDE DEF g
  <2>3. QED
    BY <1>2, <2>1, <2>2
<1> HIDE DEF g
<1>8. Numbers(g, T, IF Q[1].pfn THEN c + 1 ELSE c, top)
  BY <1>1, <1>2, <1>3, <1>4, <1>5, <1>6, <1>7 DEF Numbers
<1>9. QED
  BY <1>1, <1>4, <1>8 DEF T
(* The packets of the next message go behind the others. *)
LEMMA NumbersMore ==
    ASSUME NEW Q \in Seq(Packet), NEW P \in Seq(Packet), P # << >>, NEW c \in Nat,
           NEW f, NEW top \in Nat, Numbers(f, Q, c, top),
           \A k \in 1..Len(P) : P[k].data \in Seq(From(top)) /\ (P[k].pfn <=> k = Len(P))
    PROVE  \E g : Numbers(g, Q \o P, c, top + 1)
<1> DEFINE n == Len(Q)  p == Len(P)  W == Q \o P
           g == [k \in 1..(n + p) + 1 |->
                   IF k <= n THEN f[k] ELSE IF k = (n + p) + 1 THEN top + 1 ELSE top]
<1>1. n \in Nat /\ p \in Nat \ {0} /\ Len(W) = n + p /\ W \in Seq(Packet)
      /\ (\A k \in 1..(n + p) : W[k] = IF k <= n THEN Q[k] ELSE P[k - n])
  BY ConcatProperties, EmptySeq
<1>2. /\ f \in [1..n + 1 -> Nat]
      /\ f[1] = c + 1 /\ f[n + 1] = top
      /\ \A k \in 1..n : /\ f[k + 1] = IF Q[k].pfn THEN f[k] + 1 ELSE f[k]
                         /\ Q[k].data \in Seq(From(f[k]))
      /\ \A i, j \in 1..n + 1 : i <= j => f[i] <= f[j]
  BY DEF Numbers
<1>3. \A k \in 1..p : P[k].data \in Seq(From(top)) /\ (P[k].pfn <=> k = p)
  OBVIOUS
<1> HIDE DEF n, p, W
<1>4. g \in [1..(n + p) + 1 -> Nat]
  <2> SUFFICES ASSUME NEW k \in 1..(n + p) + 1 PROVE g[k] \in Nat
    OBVIOUS
  <2>1. k <= n => f[k] \in Nat
    BY <1>1, <1>2
  <2>2. QED
    BY <2>1
<1>5. g[1] = c + 1 /\ g[(n + p) + 1] = top + 1
  <2>1. 1 \in 1..(n + p) + 1 /\ (n + p) + 1 \in 1..(n + p) + 1 /\ ~((n + p) + 1 <= n) /\ 1 # (n + p) + 1
    BY <1>1
  <2>2. ~(1 <= n) => top = c + 1
    BY <1>1, <1>2
  <2>3. QED
    BY <1>2, <2>1, <2>2
<1>6. ASSUME NEW k \in 1..(n + p)
      PROVE  /\ g[k + 1] = IF W[k].pfn THEN g[k] + 1 ELSE g[k]
             /\ W[k].data \in Seq(From(g[k]))
  <2>1. k \in 1..(n + p) + 1 /\ k + 1 \in 1..(n + p) + 1 /\ k # (n + p) + 1
    BY <1>1
  <2>2. CASE k < n
    <3>1. k \in 1..n /\ k + 1 <= n /\ k <= n
      BY <2>2, <1>1
    <3>2. g[k] = f[k] /\ g[k + 1] = f[k + 1] /\ W[k] = Q[k]
      BY <1>1, <2>1, <3>1
    <3> HIDE DEF g
    <3>3. QED
      BY <1>2, <3>1, <3>2
  <2>3. CASE k = n
    <3>1. k \in 1..n /\ ~(k + 1 <= n) /\ k <= n /\ k + 1 # (n + p) + 1
      BY <2>3, <1>1
    <3>2. g[k] = f[k] /\ g[k + 1] = top /\ W[k] = Q[k]
      BY <1>1, <2>1, <3>1
    <3> HIDE DEF g
    <3>3. f[k + 1] = top
      BY <1>2, <2>3
    <3>4. f[k + 1] = (IF Q[k].pfn THEN f[k] + 1 ELSE f[k]) /\ Q[k].data \in Seq(From(f[k]))
      BY <1>2, <3>1
    <3>5. W[k].data \in Seq(From(g[k]))
      BY <3>2, <3>4
    <3>6. g[k + 1] = IF W[k].pfn THEN g[k] + 1 ELSE g[k]
      BY <3>2, <3>3, <3>4
    <3>7. QED
      BY <3>5, <3>6
  <2>4. CASE k > n
    <3>1. k - n \in 1..p /\ ~(k <= n) /\ ~(k + 1 <= n) /\ (k - n = p <=> k + 1 = (n + p) + 1)
      BY <2>4, <1>1
    <3>2. g[k] = top /\ g[k + 1] = (IF k - n = p THEN top + 1 ELSE top) /\ W[k] = P[k - n]
      BY <1>1, <2>1, <3>1
    <3> HIDE DEF g
    <3>3. P[k - n].data \in Seq(From(top)) /\ (P[k - n].pfn <=> k - n = p)
      BY <1>3, <3>1
    <3>4. P[k - n].data \in Seq(From(g[k]))
      BY <3>2, <3>3
    <3>5. g[k + 1] = IF P[k - n].pfn THEN g[k] + 1 ELSE g[k]
      BY <3>2, <3>3
    <3>6. QED
      BY <3>2, <3>4, <3>5
  <2>5. QED
    BY <1>1, <2>2, <2>3, <2>4
<1>7. ASSUME NEW i \in 1..(n + p) + 1, NEW j \in 1..(n + p) + 1, i <= j
      PROVE  g[i] <= g[j]
  <2>1. \A k \in 1..(n + p) + 1 : k <= n => g[k] = f[k] /\ f[k] <= top /\ f[k] \in Nat
    <3> TAKE k \in 1..(n + p) + 1
    <3> HAVE k <= n
    <3>1. k \in 1..n + 1 /\ n + 1 \in 1..n + 1 /\ k <= n + 1
      BY <1>1
    <3>2. g[k] = f[k]
      OBVIOUS
    <3> HIDE DEF g
    <3>3. QED
      BY <1>2, <3>1, <3>2
  <2>2. \A k \in 1..(n + p) + 1 : ~(k <= n) => g[k] = IF k = (n + p) + 1 THEN top + 1 ELSE top
    OBVIOUS
  <2>3. (i <= n /\ j <= n) => f[i] <= f[j]
    <3>1. (i <= n /\ j <= n) => i \in 1..n + 1 /\ j \in 1..n + 1
      BY <1>1
    <3>2. QED
      BY <3>1, <1>2, <1>7
  <2> HIDE DEF g
  <2>4. CASE i <= n /\ j <= n
    BY <2>1, <2>3, <2>4
  <2>5. CASE i <= n /\ ~(j <= n)
    BY <2>1, <2>2, <2>5
  <2>6. CASE ~(i <= n)
    <3>1. ~(j <= n) /\ (i = (n + p) + 1 => j = (n + p) + 1)
      BY <2>6, <1>7, <1>1
    <3>2. QED
      BY <2>2, <2>6, <3>1
  <2>7. QED
    BY <2>4, <2>5, <2>6
<1> HIDE DEF g
<1>8. Numbers(g, W, c, top + 1)
  BY <1>1, <1>4, <1>5, <1>6, <1>7 DEF Numbers
<1>9. QED
  BY <1>8 DEF W

(* The packets of a message: its own items, and one callback, on the last. *)
LEMMA PacketsOk ==
    ASSUME NEW i \in Nat, NEW m \in Seq(Seq(Of(i))), m # << >>
    PROVE  /\ Packets(m) \in Seq(Packet) /\ Packets(m) # << >>
           /\ \A k \in 1..Len(Packets(m)) :
                 /\ Packets(m)[k].data \in Seq(From(i))
                 /\ Packets(m)[k].pfn <=> k = Len(Packets(m))
<1> DEFINE F == From(i)
           data == IF ~Framed THEN m
                   ELSE IF kind = "defragmented" THEN << <<Header(Len(Body(m)))>> \o Body(m) >>
                   ELSE << <<Header(Len(Body(m)))>> >> \o m
           P == [k \in 1..Len(data) |-> [data |-> data[k], pfn |-> k = Len(data)]]
<1>1. F \subseteq Item /\ Of(i) \subseteq F
  BY BytesFrom
<1>2. Body(m) \in Seq(Of(i)) /\ Len(Body(m)) \in Nat
  BY FlattenType DEF Body
<1>3. m \in Seq(Seq(F)) /\ Body(m) \in Seq(F)
  <2>1. Seq(Of(i)) \subseteq Seq(F)
    BY <1>1, SeqMonotonic
  <2>2. QED
    BY <2>1, <1>2, SeqMonotonic
<1>4. <<Header(Len(Body(m)))>> \in Seq(F)
  BY <1>2, HeaderFrom
<1> HIDE DEF F
<1>5. data \in Seq(Seq(F)) /\ data # << >>
  <2> DEFINE h == <<Header(Len(Body(m)))>>  b == Body(m)
  <2>1. h \in Seq(F) /\ b \in Seq(F)
    BY <1>3, <1>4
  <2>2. data = IF ~Framed THEN m ELSE IF kind = "defragmented" THEN <<h \o b>> ELSE <<h>> \o m
    OBVIOUS
  <2> HIDE DEF h, b, data
  <2>3. h \o b \in Seq(F) /\ <<h>> \in Seq(Seq(F))
    BY <2>1
  <2>4. <<h>> \o m \in Seq(Seq(F)) /\ <<h>> \o m # << >>
    BY <1>3, <2>3
  <2>5. QED
    BY <1>3, <2>2, <2>3, <2>4
<1>6. Packets(m) = P
  BY DEF Packets
<1> HIDE DEF data
<1>7. Len(data) \in Nat \ {0} /\ \A k \in 1..Len(data) : data[k] \in Seq(F)
  BY <1>5, EmptySeq, ElementOfSeq
<1>8. \A k \in 1..Len(data) : data[k] \in Seq(Item)
  BY <1>7, <1>1, SeqMonotonic
<1>9. \A k \in 1..Len(data) : [data |-> data[k], pfn |-> k = Len(data)] \in Packet
  BY <1>8 DEF Packet
<1>10. P \in Seq(Packet) /\ Len(P) = Len(data)
       /\ \A k \in 1..Len(P) : P[k] = [data |-> data[k], pfn |-> k = Len(data)]
  BY <1>7, <1>9
<1> HIDE DEF P
<1>11. P # << >>
  BY <1>7, <1>10
<1>12. \A k \in 1..Len(P) : P[k].data \in Seq(F) /\ (P[k].pfn <=> k = Len(P))
  <2> TAKE k \in 1..Len(P)
  <2>1. k \in 1..Len(data) /\ P[k] = [data |-> data[k], pfn |-> k = Len(data)]
    BY <1>10
  <2>2. P[k].data = data[k]
    BY <2>1
  <2>3. P[k].pfn = (k = Len(P))
    BY <2>1, <1>10
  <2>4. QED
    BY <2>1, <2>2, <2>3, <1>7
<1>13. QED
  BY <1>6, <1>10, <1>11, <1>12 DEF F
(* __DoSend keeps the numbering, and sends nothing of a message called before. *)
LEMMA DoSendNumbers ==
    ASSUME NEW Q \in Seq(Packet), NEW S, called \in Nat, S \in Seq(Seq(From(called))), Len(S) <= 1,
           NEW f, NEW top, Numbers(f, Q, called, top), DoSend(Q, S)
    PROVE  /\ queue' \in Seq(Packet) /\ called' \in Nat
           /\ sending' \in Seq(Seq(From(called'))) /\ Len(sending') <= 1
           /\ \E g : Numbers(g, queue', called', top)
<1>1. CASE S # NoPacket \/ Q = << >>
  <2>1. queue' = Q /\ sending' = S /\ called' = called
    BY <1>1 DEF DoSend
  <2>2. QED
    BY <2>1
<1>2. CASE ~(S # NoPacket \/ Q = << >>)
  <2>1. /\ queue' = Tail(Q) /\ sending' = <<Head(Q).data>>
        /\ called' = IF Head(Q).pfn THEN called + 1 ELSE called
    BY <1>2 DEF DoSend
  <2>2. Head(Q).data \in Seq(From(called + 1)) /\ \E g : Numbers(g, Tail(Q), called', top)
    BY <1>2, <2>1, NumbersTail
  <2>3. called' \in Nat /\ called' <= called + 1 /\ called + 1 \in Nat
    BY <2>1
  <2>4. From(called + 1) \subseteq From(called')
    BY <2>3, FromMonotonic
  <2>5. Head(Q).data \in Seq(From(called'))
    BY <2>2, <2>4, SeqMonotonic
  <2>6. Tail(Q) \in Seq(Packet)
    BY <1>2, HeadTailProperties
  <2>7. sending' \in Seq(Seq(From(called'))) /\ Len(sending') <= 1
    <3> DEFINE d == Head(Q).data  X == Seq(From(called'))
    <3>1. d \in X /\ sending' = <<d>>
      BY <2>1, <2>5
    <3> HIDE DEF d, X
    <3>2. sending' \in Seq(X) /\ Len(sending') <= 1
      BY <3>1
    <3>3. QED
      BY <3>2 DEF X
  <2>8. QED
    BY <2>1, <2>2, <2>3, <2>6, <2>7
<1>3. QED
  BY <1>1, <1>2

(* A posted message is a sequence of buffers of its own bytes. *)
LEMMA MessageOf ==
    ASSUME NEW i \in 1..MaxMessages, NEW n \in 1..MaxParts, NEW sizes \in [1..n -> Sizes]
    PROVE  Message(i, sizes) \in Seq(Seq(Of(i))) /\ Message(i, sizes) # << >>
<1>1. sizes \in Seq(Sizes) /\ Len(sizes) = n
  BY ConstantsAssumption
<1>2. ASSUME NEW k \in 1..n
      PROVE  [j \in 1..sizes[k] |-> <<i, k, j>>] \in Seq(Of(i))
  <2>1. sizes[k] \in Nat
    BY ConstantsAssumption
  <2>2. k \in 1..MaxParts
    BY ConstantsAssumption
  <2>3. \A j \in 1..sizes[k] : <<i, k, j>> \in Of(i)
    BY <2>1, <2>2 DEF Of, Byte
  <2>4. QED
    BY <2>1, <2>3
<1> DEFINE M == [k \in 1..n |-> [j \in 1..sizes[k] |-> <<i, k, j>>]]
<1>3. M \in [1..n -> Seq(Of(i))]
  BY <1>2
<1>4. Message(i, sizes) = M
  BY <1>1 DEF Message
<1> HIDE DEF M
<1>5. n \in Nat /\ n # 0
  BY ConstantsAssumption
<1>6. M \in Seq(Seq(Of(i))) /\ Len(M) = n
  BY <1>3, <1>5
<1>7. QED
  BY <1>4, <1>5, <1>6
(* Every step keeps the messages, the ends and the numbering of the queue. *)
LEMMA SenderStep ==
    ASSUME SenderIInv, [Next]_vars
    PROVE  SenderIInv'
<1> USE DEF SenderIInv
<1>1. ASSUME NEW n \in 1..MaxParts, NEW sizes \in [1..n -> Sizes], Send(sizes)
      PROVE  SenderIInv'
  <2> DEFINE m == Message(Len(posted) + 1, sizes)  l == Len(posted)
  <2>1. l \in Nat /\ l + 1 \in 1..MaxMessages
    BY <1>1, ConstantsAssumption DEF Send, Posts
  <2>2. m \in Seq(Seq(Of(l + 1))) /\ m # << >>
    BY <2>1, MessageOf
  <2>3. m \in Seq(Seq(Byte))
    <3>1. Seq(Of(l + 1)) \subseteq Seq(Byte)
      BY <2>1, BytesFrom, SeqMonotonic
    <3>2. QED
      BY <2>2, <3>1, SeqMonotonic
  <2>4. posted' = Append(posted, m)
    BY <1>1 DEF Send
  <2>5. UNCHANGED <<kind, taken, queue, sending, called, alive, closed>>
    BY <1>1 DEF Send
  <2> HIDE DEF m
  <2>6. posted' \in Seq(Seq(Seq(Byte))) /\ Len(posted') = l + 1 /\ posted'[l + 1] = m
        /\ \A i \in 1..l : posted'[i] = posted[i]
    BY <2>3, <2>4, AppendProperties DEF Posts
  <2>7. \A i \in 1..Len(posted') : posted'[i] \in Seq(Seq(Of(i))) /\ posted'[i] # << >>
    <3> TAKE i \in 1..Len(posted')
    <3>1. CASE i = l + 1
      BY <3>1, <2>2, <2>6
    <3>2. CASE i # l + 1
      <4>1. i \in 1..l
        BY <3>2, <2>6, <2>1
      <4>2. QED
        BY <4>1, <2>6 DEF Posts
    <3>3. QED
      BY <3>1, <3>2
  <2>8. Posts'
    BY <2>1, <2>5, <2>6, <2>7 DEF Posts
  <2>9. Ends' /\ Sends'
    BY <2>5 DEF Ends, Sends, Framed
  <2>10. QED
    BY <2>8, <2>9
<1>2. ASSUME NEW S, NEW top, NEW f, S \in Seq(Seq(From(called))), Len(S) <= 1,
             NEW Q \in Seq(Packet), Numbers(f, Q, called, top), DoSend(Q, S),
             top <= taken' + 1, ("sender" \in closed' /\ Framed') \/ top = taken' + 1
      PROVE  Sends'
  <2>1. /\ queue' \in Seq(Packet) /\ called' \in Nat
        /\ sending' \in Seq(Seq(From(called'))) /\ Len(sending') <= 1
        /\ \E g : Numbers(g, queue', called', top)
    BY <1>2, DoSendNumbers DEF Sends
  <2>2. QED
    BY <1>2, <2>1 DEF Sends
<1>3. CASE RunSend
  <2> DEFINE m == posted[taken + 1]  i == taken + 1
  <2>1. i \in 1..Len(posted) /\ i \in Nat /\ taken' = i /\ taken \in Nat
    BY <1>3 DEF RunSend, Posts
  <2>2. UNCHANGED <<kind, posted, alive, closed>>
    BY <1>3 DEF RunSend, receiver
  <2>3. Posts' /\ Ends'
    BY <2>1, <2>2 DEF Posts, Ends
  <2>4. PICK f, top : /\ Numbers(f, queue, called, top) /\ top <= taken + 1
                      /\ ("sender" \in closed /\ Framed) \/ top = taken + 1
    BY DEF Sends
  <2>5. top \in Nat
    <3>1. Len(queue) \in Nat
      BY DEF Sends
    <3>2. QED
      BY <2>4, <3>1 DEF Numbers
  <2>6. CASE Framed /\ "sender" \in closed
    <3>1. UNCHANGED <<queue, sending, called>>
      BY <1>3, <2>6 DEF RunSend
    <3>2. top <= taken' + 1
      BY <2>1, <2>4, <2>5
    <3>3. Sends'
      BY <2>2, <2>4, <2>6, <3>1, <3>2 DEF Sends, Framed
    <3>4. QED
      BY <2>3, <3>3
  <2>7. CASE ~(Framed /\ "sender" \in closed)
    <3>1. DoSend(queue \o Packets(m), sending)
      BY <1>3, <2>7 DEF RunSend
    <3>2. m \in Seq(Seq(Of(i))) /\ m # << >>
      BY <2>1 DEF Posts
    <3> DEFINE P == Packets(m)  Q == queue \o P
    <3>3. /\ P \in Seq(Packet) /\ P # << >>
          /\ \A k \in 1..Len(P) : P[k].data \in Seq(From(i)) /\ (P[k].pfn <=> k = Len(P))
      BY <2>1, <3>2, PacketsOk
    <3> HIDE DEF P, m
    <3>4. top = i /\ queue \in Seq(Packet) /\ called \in Nat
      BY <2>4, <2>7 DEF Sends
    <3> HIDE DEF i
    <3>5. PICK g : Numbers(g, Q, called, top + 1)
      BY <2>4, <2>5, <3>3, <3>4, NumbersMore
    <3>6. Q \in Seq(Packet)
      BY <3>3, <3>4, ConcatProperties
    <3>7. DoSend(Q, sending)
      BY <3>1 DEF P
    <3>8. top + 1 = taken' + 1
      BY <2>1, <3>4
    <3> HIDE DEF Q
    <3>9. sending \in Seq(Seq(From(called))) /\ Len(sending) <= 1
      BY DEF Sends
    <3>10. top + 1 <= taken' + 1
      BY <3>8, <2>1 DEF i
    <3>11. Sends'
      BY <3>5, <3>6, <3>7, <3>8, <3>9, <3>10, <1>2
    <3>12. QED
      BY <2>3, <3>11
  <2>8. QED
    BY <2>6, <2>7
<1>4. CASE WriteSome
  <2>1. UNCHANGED <<kind, posted, taken, queue, called, alive, closed>>
    BY <1>4 DEF WriteSome
  <2>2. PICK k \in 1..Len(sending[1]) : sending' = <<SubSeq(sending[1], k + 1, Len(sending[1]))>>
    BY <1>4 DEF WriteSome
  <2> DEFINE F == From(called)  s == sending[1]
  <2>3. sending # << >> /\ sending \in Seq(Seq(F))
    BY <1>4 DEF WriteSome, NoPacket, Sends
  <2> HIDE DEF F
  <2>4. s \in Seq(F)
    BY <2>3
  <2>5. sending' = <<SubSeq(s, k + 1, Len(s))>> /\ k \in 1..Len(s)
    BY <2>2
  <2> HIDE DEF s
  <2>6. SubSeq(s, k + 1, Len(s)) \in Seq(F)
    BY <2>4, <2>5
  <2>7. sending' \in Seq(Seq(F)) /\ Len(sending') <= 1
    BY <2>5, <2>6
  <2>8. QED
    BY <2>1, <2>7 DEF F, Posts, Ends, Sends, Framed
<1>5. CASE OnSendCallback
  <2>1. UNCHANGED <<kind, posted, taken, alive, closed>> /\ DoSend(queue, NoPacket)
    BY <1>5 DEF OnSendCallback
  <2>2. PICK f, top : /\ Numbers(f, queue, called, top) /\ top <= taken + 1
                      /\ ("sender" \in closed /\ Framed) \/ top = taken + 1
    BY DEF Sends
  <2>3. NoPacket \in Seq(Seq(From(called))) /\ Len(NoPacket) <= 1 /\ queue \in Seq(Packet)
    BY DEF NoPacket, Sends
  <2>4. top <= taken' + 1 /\ (("sender" \in closed' /\ Framed') \/ top = taken' + 1)
    BY <2>1, <2>2 DEF Framed
  <2>5. Sends'
    BY <2>1, <2>2, <2>3, <2>4, <1>2
  <2>6. QED
    BY <2>1, <2>5 DEF Posts, Ends
<1>6. CASE Fails
  BY <1>6 DEF Fails, sender, Posts, Ends, Sends, Framed
<1>7. ASSUME NEW end \in {"sender", "receiver"}, Close(end)
      PROVE  SenderIInv'
  <2>1. UNCHANGED <<kind, posted, taken, queue, sending, called>> /\ ~alive' /\ alive' \in BOOLEAN
        /\ closed' = closed \cup {end}
    BY <1>7 DEF Close, sender
  <2>2. Posts' /\ Ends'
    BY <2>1 DEF Posts, Ends
  <2>3. PICK f, top : /\ Numbers(f, queue, called, top) /\ top <= taken + 1
                      /\ ("sender" \in closed /\ Framed) \/ top = taken + 1
    BY DEF Sends
  <2>4. ("sender" \in closed' /\ Framed') \/ top = taken + 1
    BY <2>1, <2>3 DEF Framed
  <2>5. Sends'
    BY <2>1, <2>3, <2>4 DEF Sends
  <2>6. QED
    BY <2>2, <2>5
<1>8. CASE OnHeadRecvCallback
  <2>1. UNCHANGED <<kind, posted, taken, queue, sending, called, closed>>
    BY <1>8 DEF OnHeadRecvCallback, sender
  <2>2. alive' = FALSE \/ alive' = alive
    BY <1>8 DEF OnHeadRecvCallback
  <2>3. Posts'
    BY <2>1 DEF Posts
  <2>4. Ends'
    <3>1. CASE alive' = FALSE
      BY <2>1, <3>1 DEF Ends
    <3>2. CASE alive' = alive
      BY <2>1, <3>2 DEF Ends
    <3>3. QED
      BY <2>2, <3>1, <3>2
  <2>4a. Sends'
    BY <2>1 DEF Sends, Framed
  <2>5. QED
    BY <2>3, <2>4, <2>4a
<1>9. CASE \/ Start \/ RunDoRecv \/ OnRecvCallback \/ OnRecvSomeCallback \/ ReadFails
           \/ (\E b \in BOOLEAN : BlockRecv(b)) \/ UNCHANGED vars
  <2>1. UNCHANGED <<kind, posted, taken, queue, sending, called, alive, closed>>
    BY <1>9 DEF Start, RunDoRecv, OnRecvCallback, OnRecvSomeCallback, ReadFails, BlockRecv, vars, sender
  <2>2. QED
    BY <2>1 DEF Posts, Ends, Sends, Framed
<1>10. QED
  BY <1>1, <1>3, <1>4, <1>5, <1>6, <1>7, <1>8, <1>9 DEF Next, SendStep

(* The sending end starts with an empty queue. *)
LEMMA SenderInit ==
    ASSUME Init
    PROVE  SenderIInv
<1>1. Posts
  BY ConstantsAssumption DEF Init, Posts
<1>2. Ends
  BY DEF Init, Ends
<1>3. Numbers([k \in 1..1 |-> 1], << >>, 0, 1)
  BY DEF Numbers
<1>4. Sends
  BY <1>3 DEF Init, Sends, NoPacket
<1>5. QED
  BY <1>1, <1>2, <1>4 DEF SenderIInv

(* The items that wait in the queue belong to messages not yet called. *)
LEMMA WaitingFrom ==
    ASSUME SenderIInv
    PROVE  Waiting \in Seq(From(called)) /\ called <= taken /\ Len(queue) \in Nat
<1> DEFINE F == From(called)  D == [k \in 1..Len(queue) |-> queue[k].data]
<1>1. PICK f, top : /\ Numbers(f, queue, called, top) /\ top <= taken + 1
                    /\ ("sender" \in closed /\ Framed) \/ top = taken + 1
  BY DEF SenderIInv, Sends
<1>2. queue \in Seq(Packet) /\ called \in Nat /\ sending \in Seq(Seq(F)) /\ taken \in Nat
  BY DEF SenderIInv, Sends, Posts
<1>3. Len(queue) \in Nat
  BY <1>2
<1>4. ASSUME NEW k \in 1..Len(queue) + 1
      PROVE  f[k] \in Nat /\ called + 1 <= f[k] /\ f[k] <= top
  <2>1. 1 \in 1..Len(queue) + 1 /\ Len(queue) + 1 \in 1..Len(queue) + 1 /\ 1 <= k /\ k <= Len(queue) + 1
    BY <1>3
  <2>2. f[1] <= f[k] /\ f[k] <= f[Len(queue) + 1] /\ f[1] = called + 1 /\ f[Len(queue) + 1] = top
    BY <1>1, <2>1 DEF Numbers
  <2>3. f[k] \in Nat
    BY <1>1 DEF Numbers
  <2>4. QED
    BY <2>2, <2>3
<1>5. ASSUME NEW k \in 1..Len(queue)
      PROVE  queue[k].data \in Seq(F)
  <2>1. k \in 1..Len(queue) + 1
    BY <1>3
  <2>2. queue[k].data \in Seq(From(f[k]))
    BY <1>1 DEF Numbers
  <2>3. f[k] \in Nat /\ called <= f[k]
    BY <1>2, <1>4, <2>1
  <2>4. From(f[k]) \subseteq F
    BY <1>2, <2>3, FromMonotonic
  <2> HIDE DEF F
  <2>5. QED
    BY <2>2, <2>4, SeqMonotonic
<1> HIDE DEF F
<1>6. D \in Seq(Seq(F))
  BY <1>3, <1>5
<1>7. Body(D) \in Seq(F) /\ Body(sending) \in Seq(F)
  BY <1>2, <1>6, FlattenType DEF Body
<1>8. Waiting = Body(D) \o Body(sending)
  BY DEF Waiting
<1> HIDE DEF D
<1>9. Waiting \in Seq(F)
  BY <1>7, <1>8, ConcatProperties
<1>10. called <= taken
  <2>1. f[1] = called + 1 /\ f[1] <= top /\ top <= taken + 1
    <3>1. 1 \in 1..Len(queue) + 1
      BY <1>3
    <3>2. QED
      BY <1>1, <1>4, <3>1 DEF Numbers
  <2>2. f[1] \in Nat /\ top \in Nat
    <3>1. 1 \in 1..Len(queue) + 1 /\ Len(queue) + 1 \in 1..Len(queue) + 1
      BY <1>3
    <3>2. QED
      BY <1>1, <1>4, <3>1 DEF Numbers
  <2>3. QED
    BY <1>2, <2>1, <2>2
<1>11. QED
  BY <1>3, <1>9, <1>10 DEF F

(* The callback of a message is posted after everything of the earlier ones *)
(* has left the queue for the socket, and every message taken by __Send is  *)
(* called once the queue is empty (tcpconnection.hpp, __DoSend).            *)
THEOREM CallbacksFollow ==
    Spec => []CallbacksFollowTheQueue
<1>1. Init => SenderIInv
  BY SenderInit
<1>2. SenderIInv /\ [Next]_vars => SenderIInv'
  BY SenderStep
<1>3. SenderIInv => CallbacksFollowTheQueue
  <2> SUFFICES ASSUME SenderIInv
               PROVE  CallbacksFollowTheQueue
    OBVIOUS
  <2>1. called <= taken /\ Waiting \in Seq(From(called))
    BY WaitingFrom
  <2>2. \A k \in 1..Len(Waiting) : IsHeader(Waiting[k]) \/ Waiting[k][1] >= called
    <3> DEFINE W == Waiting
    <3>1. W \in Seq(From(called))
      BY <2>1
    <3> HIDE DEF W
    <3>2. \A k \in 1..Len(W) : W[k] \in From(called)
      BY <3>1, ElementOfSeq
    <3>3. \A k \in 1..Len(W) : IsHeader(W[k]) \/ W[k][1] >= called
      BY <3>2 DEF From
    <3>4. QED
      BY <3>3 DEF W
  <2>3. ASSUME queue = << >>, "sender" \notin closed
        PROVE  called = taken
    <3>1. PICK f, top : /\ Numbers(f, queue, called, top) /\ top = taken + 1
      BY <2>3 DEF SenderIInv, Sends
    <3>2. Len(queue) = 0
      BY <2>3
    <3>3. f[1] = called + 1 /\ f[1] = taken + 1
      BY <3>1, <3>2 DEF Numbers
    <3>4. called \in Nat /\ taken \in Nat
      BY DEF SenderIInv, Sends, Posts
    <3>5. QED
      BY <3>3, <3>4
  <2>4. QED
    BY <2>1, <2>2, <2>3 DEF CallbacksFollowTheQueue
<1>4. QED
  BY <1>1, <1>2, <1>3, PTL DEF Spec
=============================================================================
