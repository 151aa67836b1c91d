------------------------- MODULE TcpFramingProofs -------------------------
(***************************************************************************)
(* Proofs about the stream of TcpConnection: what is in the queue, in      *)
(* flight and not yet taken follows what the receiving end has been given, *)
(* so every length header is read where a header was written, and the      *)
(* connection is a FIFO channel of messages (framed) or of bytes (raw).    *)
(***************************************************************************)
EXTENDS TcpConnectionProofs

(* What a message is on the wire, what messages are, and what packets hold. *)
Wire(m) == IF Framed THEN <<Header(Len(Body(m)))>> \o Body(m) ELSE Body(m)
WireOf(p) == [i \in 1..Len(p) |-> Wire(p[i])]
Wires(p) == Body(WireOf(p))
Rest(n) == Wires(SubSeq(posted, n + 1, Len(posted)))
Data(Q) == [k \in 1..Len(Q) |-> Q[k].data]

Messages == Seq(Seq(Seq(Byte)))

(* What is still to be written: of sending_pkt_, of outgoing_queue_ and of  *)
(* the messages __Send has not been run for.                                *)
Out == (Body(sending) \o Body(Data(queue))) \o Rest(taken)

(* a, then o if the connection is alive (part of o otherwise), make up R. *)
FollowedBy(a, R, live, o) == \E z \in Seq(Item) : a \o z = R /\ (live => z = o)

----------------------------------------------------------------------------
(* Sequences. *)

(* Two ways to split a sequence: the shorter first part is cut off the longer. *)
LEMMA CutPrefix ==
    ASSUME NEW S, NEW a \in Seq(S), NEW z \in Seq(S), NEW b \in Seq(S), NEW c \in Seq(S),
           a \o z = b \o c, Len(b) <= Len(a)
    PROVE  /\ SubSeq(a, 1, Len(b)) = b
           /\ SubSeq(a, Len(b) + 1, Len(a)) \o z = c
<1> DEFINE la == Len(a)  lb == Len(b)  lz == Len(z)  lc == Len(c)
           d == SubSeq(a, lb + 1, la)  e == SubSeq(a, 1, lb)  w == a \o z
<1>1. la \in Nat /\ lb \in Nat /\ lz \in Nat /\ lc \in Nat /\ lb <= la
  BY LenProperties
<1>2. /\ Len(w) = la + lz /\ Len(w) = lb + lc
      /\ \A i \in 1..la + lz : w[i] = IF i <= la THEN a[i] ELSE z[i - la]
      /\ \A i \in 1..lb + lc : w[i] = IF i <= lb THEN b[i] ELSE c[i - lb]
  BY ConcatProperties
<1>3. /\ e \in Seq(S) /\ Len(e) = lb /\ \A i \in 1..lb : e[i] = a[i]
      /\ d \in Seq(S) /\ Len(d) = la - lb /\ \A i \in 1..la - lb : d[i] = a[lb + i]
  BY <1>1
<1> HIDE DEF la, lb, lz, lc, d, e, w
<1>4. e = b
  <2>1. \A i \in 1..lb : e[i] = b[i]
    <3> TAKE i \in 1..lb
    <3>1. i \in 1..la + lz /\ i \in 1..lb + lc /\ i <= la /\ i <= lb
      BY <1>1
    <3>2. QED
      BY <1>2, <1>3, <3>1
  <2>2. QED
    BY <1>3, <2>1, SeqEqual DEF lb
<1> DEFINE v == d \o z
<1>5. v \in Seq(S) /\ Len(v) = (la - lb) + lz
      /\ \A i \in 1..(la - lb) + lz : v[i] = IF i <= la - lb THEN d[i] ELSE z[i - (la - lb)]
  <2>1. v \in Seq(S) /\ Len(v) = Len(d) + Len(z)
        /\ \A i \in 1..Len(d) + Len(z) : v[i] = IF i <= Len(d) THEN d[i] ELSE z[i - Len(d)]
    BY <1>3, ConcatProperties
  <2>2. Len(d) = la - lb /\ Len(z) = lz
    BY <1>3 DEF lz
  <2> HIDE DEF v
  <2>3. QED
    BY <2>1, <2>2
<1> HIDE DEF v
<1>6. Len(v) = lc
  BY <1>1, <1>2, <1>5
<1>7. \A i \in 1..lc : v[i] = c[i]
  <2> TAKE i \in 1..lc
  <2>1. lb + i \in 1..lb + lc /\ ~(lb + i <= lb) /\ (lb + i) - lb = i
    BY <1>1
  <2>2. w[lb + i] = c[i]
    BY <1>2, <2>1
  <2>3. lb + i \in 1..la + lz /\ i \in 1..(la - lb) + lz
    BY <1>1, <1>2
  <2>4. CASE i <= la - lb
    <3>1. lb + i <= la /\ i \in 1..la - lb
      BY <1>1, <2>4
    <3>2. QED
      BY <1>2, <1>3, <1>5, <2>2, <2>3, <2>4, <3>1
  <2>5. CASE ~(i <= la - lb)
    <3>1. ~(lb + i <= la) /\ (lb + i) - la = i - (la - lb)
      BY <1>1, <2>5
    <3>2. w[lb + i] = z[(lb + i) - la] /\ v[i] = z[i - (la - lb)]
      BY <1>2, <1>5, <2>3, <2>5, <3>1
    <3>3. QED
      BY <2>2, <3>1, <3>2
  <2>6. QED
    BY <2>4, <2>5
<1>8. v = c
  BY <1>5, <1>6, <1>7, SeqEqual DEF lc
<1>9. QED
  BY <1>4, <1>8 DEF d, e, v, la, lb

(* A sequence is its first k elements and the others. *)
LEMMA SplitAt ==
    ASSUME NEW S, NEW a \in Seq(S), NEW k \in 0..Len(a)
    PROVE  /\ SubSeq(a, 1, k) \in Seq(S) /\ SubSeq(a, k + 1, Len(a)) \in Seq(S)
           /\ Len(SubSeq(a, 1, k)) = k
           /\ SubSeq(a, 1, k) \o SubSeq(a, k + 1, Len(a)) = a
<1>1. Len(a) \in Nat
  OBVIOUS
<1>2. SubSeq(a, 1, k) \in Seq(S) /\ SubSeq(a, k + 1, Len(a)) \in Seq(S) /\ Len(SubSeq(a, 1, k)) = k
  BY <1>1
<1>3. SubSeq(a, 1, k) \o SubSeq(a, k + 1, Len(a)) = SubSeq(a, 1, Len(a))
  <2> DEFINE n == Len(a)  x == SubSeq(a, 1, k)  y == SubSeq(a, k + 1, n)  t == SubSeq(a, 1, n)
  <2>1. x \in Seq(S) /\ Len(x) = k /\ \A i \in 1..k : x[i] = a[i]
    BY <1>1
  <2>2. y \in Seq(S) /\ Len(y) = n - k /\ \A i \in 1..n - k : y[i] = a[k + i]
    BY <1>1
  <2>3. t \in Seq(S) /\ Len(t) = n /\ \A i \in 1..n : t[i] = a[i]
    BY <1>1
  <2> DEFINE w == x \o y
  <2> HIDE DEF x, y, t, n
  <2>4. w \in Seq(S) /\ Len(w) = Len(x) + Len(y)
        /\ \A i \in 1..Len(x) + Len(y) : w[i] = IF i <= Len(x) THEN x[i] ELSE y[i - Len(x)]
    BY <2>1, <2>2, ConcatProperties
  <2>5. n \in Nat /\ k \in 0..n
    BY <1>1 DEF n
  <2> HIDE DEF w
  <2>6. Len(w) = n /\ \A i \in 1..n : w[i] = IF i <= k THEN x[i] ELSE y[i - k]
    BY <2>1, <2>2, <2>4, <2>5
  <2>7. \A i \in 1..n : w[i] = t[i]
    <3> TAKE i \in 1..n
    <3>1. CASE i <= k
      BY <2>1, <2>3, <2>5, <2>6, <3>1
    <3>2. CASE ~(i <= k)
      <4>1. i - k \in 1..n - k /\ k + (i - k) = i
        BY <2>5, <3>2
      <4>2. w[i] = y[i - k] /\ y[i - k] = a[k + (i - k)]
        BY <2>2, <2>6, <3>2, <4>1
      <4>3. QED
        BY <2>3, <4>1, <4>2
    <3>3. QED
      BY <3>1, <3>2
  <2>8. w = t
    BY <2>3, <2>4, <2>6, <2>7, SeqEqual
  <2>9. QED
    BY <2>8 DEF w, x, y, t, n
<1>4. SubSeq(a, 1, Len(a)) = a
  BY SubSeqFull
<1>5. QED
  BY <1>2, <1>3, <1>4

(* A sequence without its first n elements. *)
LEMMA SubSeqFrom ==
    ASSUME NEW S, NEW a \in Seq(S), NEW l, l = Len(a), NEW n \in 0..l
    PROVE  /\ SubSeq(a, n + 1, l) \in Seq(S) /\ Len(SubSeq(a, n + 1, l)) = l - n
           /\ \A i \in 1..l - n : SubSeq(a, n + 1, l)[i] = a[n + i]
<1>1. l \in Nat
  OBVIOUS
<1>2. QED
  BY <1>1

(* A sequence that something follows to make up a sequence of bytes is one of bytes. *)
LEMMA PrefixType ==
    ASSUME NEW S, NEW T, NEW a \in Seq(T), NEW z \in Seq(T), a \o z \in Seq(S)
    PROVE  a \in Seq(S)
<1> DEFINE w == a \o z
<1>1. Len(a) \in Nat /\ Len(z) \in Nat /\ Len(w) = Len(a) + Len(z) /\ \A i \in 1..Len(a) : w[i] = a[i]
  BY ConcatProperties
<1>2. w \in Seq(S)
  OBVIOUS
<1> HIDE DEF w
<1>3. \A i \in 1..Len(w) : w[i] \in S
  BY <1>2, ElementOfSeq
<1>4. \A i \in 1..Len(a) : i \in 1..Len(w)
  BY <1>1
<1>5. \A i \in 1..Len(a) : a[i] \in S
  BY <1>1, <1>3, <1>4
<1>6. a = [i \in 1..Len(a) |-> a[i]]
  OBVIOUS
<1>7. QED
  BY <1>1, <1>5, <1>6
----------------------------------------------------------------------------
(* Concatenation of items is associative. *)
LEMMA JoinItems ==
    \A a, b, c \in Seq(Item) : (a \o b) \o c = a \o (b \o c)
OBVIOUS

(* FollowedBy, as the stream grows at its end and is read at its beginning. *)

(* Items added at the end of the stream follow what is there. *)
LEMMA FollowedMore ==
    ASSUME NEW a \in Seq(Item), NEW R, NEW o, NEW w \in Seq(Item), NEW l,
           FollowedBy(a, R, l, o)
    PROVE  FollowedBy(a, R \o w, l, o \o w)
<1>1. PICK z \in Seq(Item) : a \o z = R /\ (l => z = o)
  BY DEF FollowedBy
<1>2. (a \o z) \o w = a \o (z \o w)
  BY JoinItems
<1>3. z \o w \in Seq(Item)
  BY ConcatProperties
<1> DEFINE y == z \o w
<1>4. a \o y = R \o w /\ (l => y = o \o w)
  BY <1>1, <1>2
<1> HIDE DEF y
<1>5. y \in Seq(Item)
  BY <1>3 DEF y
<1>6. QED
  BY <1>4, <1>5 DEF FollowedBy

(* What is written moves from what follows to what is there. *)
LEMMA FollowedWrite ==
    ASSUME NEW a \in Seq(Item), NEW R, NEW o \in Seq(Item), NEW w \in Seq(Item),
           FollowedBy(a, R, TRUE, w \o o)
    PROVE  FollowedBy(a \o w, R, TRUE, o)
<1>1. a \o (w \o o) = R
  BY DEF FollowedBy
<1>2. (a \o w) \o o = a \o (w \o o)
  BY JoinItems
<1>3. QED
  BY <1>1, <1>2 DEF FollowedBy

(* What is lost from some point is no longer followed by anything certain. *)
LEMMA FollowedCut ==
    ASSUME NEW a \in Seq(Item), NEW b \in Seq(Item), NEW R, NEW l, NEW o, NEW u,
           FollowedBy(a \o b, R, l, o)
    PROVE  FollowedBy(a, R, FALSE, u)
<1>1. PICK z \in Seq(Item) : (a \o b) \o z = R
  BY DEF FollowedBy
<1>2. (a \o b) \o z = a \o (b \o z)
  BY JoinItems
<1>3. b \o z \in Seq(Item)
  BY ConcatProperties
<1>4. QED
  BY <1>1, <1>2, <1>3 DEF FollowedBy

(* A connection that has failed promises less. *)
LEMMA FollowedWeaker ==
    ASSUME NEW a, NEW R, NEW l, NEW m, NEW o, NEW u, FollowedBy(a, R, l, o), m => l /\ u = o
    PROVE  FollowedBy(a, R, m, u)
BY DEF FollowedBy

(* The first part of the stream is read off. *)
LEMMA FollowedRead ==
    ASSUME NEW a \in Seq(Item), NEW b \in Seq(Item), NEW R \in Seq(Item), NEW l, NEW o,
           FollowedBy(a, b \o R, l, o), Len(b) <= Len(a)
    PROVE  /\ SubSeq(a, 1, Len(b)) = b
           /\ FollowedBy(SubSeq(a, Len(b) + 1, Len(a)), R, l, o)
<1>1. PICK z \in Seq(Item) : a \o z = b \o R /\ (l => z = o)
  BY DEF FollowedBy
<1>2. SubSeq(a, 1, Len(b)) = b /\ SubSeq(a, Len(b) + 1, Len(a)) \o z = R
  BY <1>1, CutPrefix
<1>3. QED
  BY <1>1, <1>2 DEF FollowedBy

----------------------------------------------------------------------------
(* Messages on the wire. *)

(* A message on the wire is a sequence of items. *)
LEMMA WireType ==
    ASSUME NEW m \in Seq(Seq(Byte))
    PROVE  /\ Body(m) \in Seq(Byte) /\ Body(m) \in Seq(Item) /\ Len(Body(m)) \in Nat
           /\ <<Header(Len(Body(m)))>> \in Seq(Item)
           /\ Wire(m) \in Seq(Item)
           /\ ~Framed => Wire(m) = Body(m)
<1>1. Body(m) \in Seq(Byte) /\ Len(Body(m)) \in Nat
  BY FlattenType DEF Body
<1>2. Body(m) \in Seq(Item)
  <2>1. Byte \subseteq Item
    BY DEF Item
  <2>2. QED
    BY <1>1, <2>1, SeqMonotonic
<1>3. <<Header(Len(Body(m)))>> \in Seq(Item)
  BY <1>1 DEF Header, Item
<1> DEFINE h == <<Header(Len(Body(m)))>>  b == Body(m)
<1> HIDE DEF h, b
<1>4. h \o b \in Seq(Item)
  BY <1>2, <1>3, ConcatProperties DEF h, b
<1>5. Wire(m) = IF Framed THEN h \o b ELSE b
  BY DEF Wire, h, b
<1>6. QED
  BY <1>1, <1>2, <1>3, <1>4, <1>5 DEF b

(* So are several. *)
LEMMA WireOfType ==
    ASSUME NEW p \in Messages
    PROVE  /\ WireOf(p) \in Seq(Seq(Item)) /\ Len(WireOf(p)) = Len(p)
           /\ \A i \in 1..Len(p) : WireOf(p)[i] = Wire(p[i])
           /\ Wires(p) \in Seq(Item)
<1>1. \A i \in 1..Len(p) : Wire(p[i]) \in Seq(Item)
  BY WireType, ElementOfSeq DEF Messages
<1>2. Len(p) \in Nat
  BY DEF Messages
<1>3. WireOf(p) \in Seq(Seq(Item)) /\ Len(WireOf(p)) = Len(p) /\ \A i \in 1..Len(p) : WireOf(p)[i] = Wire(p[i])
  BY <1>1, <1>2 DEF WireOf
<1>4. Wires(p) \in Seq(Item)
  BY <1>3, FlattenType DEF Wires, Body
<1>5. QED
  BY <1>3, <1>4

(* One more message goes behind the others, *)
LEMMA WiresAppend ==
    ASSUME NEW p \in Messages, NEW m \in Seq(Seq(Byte))
    PROVE  Wires(Append(p, m)) = Wires(p) \o Wire(m)
<1> DEFINE a == Append(p, m)
<1>1. a \in Messages /\ Len(a) = Len(p) + 1 /\ a[Len(p) + 1] = m /\ \A i \in 1..Len(p) : a[i] = p[i]
  BY AppendProperties DEF Messages
<1> HIDE DEF a
<1> DEFINE w == WireOf(p)  v == WireOf(a)  x == Wire(m)
<1>2. w \in Seq(Seq(Item)) /\ Len(w) = Len(p) /\ \A i \in 1..Len(p) : w[i] = Wire(p[i])
  BY WireOfType
<1>3. v \in Seq(Seq(Item)) /\ Len(v) = Len(p) + 1 /\ \A i \in 1..Len(p) + 1 : v[i] = Wire(a[i])
  BY <1>1, WireOfType
<1>4. x \in Seq(Item)
  BY WireType
<1>5. Len(p) \in Nat
  BY DEF Messages
<1>6. \A i \in 1..Len(p) : v[i] = w[i]
  <2> TAKE i \in 1..Len(p)
  <2>1. i \in 1..Len(p) + 1
    BY <1>5
  <2>2. QED
    BY <2>1, <1>1, <1>2, <1>3
<1>7. v[Len(p) + 1] = x
  <2>1. Len(p) + 1 \in 1..Len(p) + 1
    BY <1>5
  <2>2. QED
    BY <2>1, <1>1, <1>3
<1> DEFINE n == Len(p)  u == Append(w, x)
<1> HIDE DEF w, v, x, n
<1>8. u \in Seq(Seq(Item)) /\ Len(u) = n + 1 /\ u[n + 1] = x /\ \A i \in 1..n : u[i] = w[i]
  BY <1>2, <1>4, AppendProperties DEF n
<1> HIDE DEF u
<1>9. \A i \in 1..Len(v) : v[i] = u[i]
  <2> TAKE i \in 1..Len(v)
  <2>1. i \in 1..n \/ i = n + 1
    BY <1>3, <1>5 DEF n
  <2>2. QED
    BY <2>1, <1>6, <1>7, <1>8 DEF n
<1>10. v = u
  BY <1>3, <1>8, <1>9, SeqEqual DEF n
<1>11. FlattenSeq(u) = FlattenSeq(w) \o x
  BY <1>2, <1>4, FlattenAppend DEF u
<1>12. QED
  BY <1>10, <1>11 DEF v, w, x, a, Wires, Body

(* and the first message comes first. *)
LEMMA WiresHead ==
    ASSUME NEW p \in Messages, p # << >>
    PROVE  Wires(p) = Wire(Head(p)) \o Wires(Tail(p))
<1> DEFINE t == Tail(p)  n == Len(p)  h == Head(p)
<1>1. t \in Messages /\ n \in Nat \ {0} /\ Len(t) = n - 1 /\ h = p[1] /\ \A i \in 1..n - 1 : t[i] = p[i + 1]
  BY HeadTailProperties DEF Messages
<1> HIDE DEF t, h
<1> DEFINE w == WireOf(p)  v == WireOf(t)
<1>2. w \in Seq(Seq(Item)) /\ Len(w) = n /\ \A i \in 1..n : w[i] = Wire(p[i])
  BY WireOfType
<1>3. v \in Seq(Seq(Item)) /\ Len(v) = n - 1 /\ \A i \in 1..n - 1 : v[i] = Wire(t[i])
  BY <1>1, WireOfType
<1> HIDE DEF w, v, n
<1>4. w # << >>
  BY <1>1, <1>2
<1> DEFINE u == Tail(w)
<1>5. Head(w) = w[1] /\ u \in Seq(Seq(Item)) /\ Len(u) = n - 1 /\ \A i \in 1..n - 1 : u[i] = w[i + 1]
  BY <1>2, <1>4, HeadTailProperties
<1> HIDE DEF u
<1>6. \A i \in 1..n - 1 : u[i] = v[i]
  <2> TAKE i \in 1..n - 1
  <2>1. i + 1 \in 1..n
    BY <1>1
  <2>2. w[i + 1] = Wire(p[i + 1]) /\ v[i] = Wire(t[i]) /\ t[i] = p[i + 1]
    BY <1>1, <1>2, <1>3, <2>1
  <2>3. QED
    BY <1>5, <2>2
<1>7. u = v
  BY <1>3, <1>5, <1>6, SeqEqual
<1>8. w[1] = Wire(h)
  BY <1>1, <1>2
<1>9. FlattenSeq(w) = Head(w) \o FlattenSeq(u)
  BY <1>2, <1>4, FlattenHead DEF u
<1>10. QED
  BY <1>5, <1>7, <1>8, <1>9 DEF w, v, t, h, Wires, Body
(* The stream from message n on. *)
LEMMA RestType ==
    ASSUME posted \in Messages, NEW n \in 0..Len(posted)
    PROVE  SubSeq(posted, n + 1, Len(posted)) \in Messages /\ Rest(n) \in Seq(Item)
<1>1. SubSeq(posted, n + 1, Len(posted)) \in Messages
  BY SplitAt DEF Messages
<1>2. QED
  BY <1>1, WireOfType DEF Rest

(* The stream from message n on begins with message n + 1, *)
LEMMA RestNext ==
    ASSUME posted \in Messages, NEW n \in 0..Len(posted), n # Len(posted)
    PROVE  Rest(n) = Wire(posted[n + 1]) \o Rest(n + 1)
<1> DEFINE l == Len(posted)  s == SubSeq(posted, n + 1, l)
<1>1. l \in Nat /\ n + 1 \in 1..l /\ l \in (n + 1)..l
  BY DEF Messages
<1>2. s \in Messages
  BY RestType
<1>3. Head(s) = posted[n + 1] /\ Tail(s) = SubSeq(posted, (n + 1) + 1, l)
  BY <1>1, HeadTailOfSubSeq DEF Messages
<1>4. s # << >>
  <2>1. Len(s) = l - n
    BY <1>1 DEF Messages
  <2> HIDE DEF s
  <2>2. QED
    BY <1>1, <2>1
<1> HIDE DEF s
<1>5. Wires(s) = Wire(Head(s)) \o Wires(Tail(s))
  BY <1>2, <1>4, WiresHead
<1>6. QED
  BY <1>3, <1>5 DEF Rest, s, l

(* ends with the last message, and is everything from message 0 on. *)
LEMMA RestEnd ==
    ASSUME posted \in Messages
    PROVE  Rest(Len(posted)) = << >> /\ Rest(0) = Wires(posted)
<1>1. Len(posted) \in Nat
  BY DEF Messages
<1>2. SubSeq(posted, Len(posted) + 1, Len(posted)) = << >>
  BY <1>1, SubSeqEmpty
<1>3. Wires(<< >>) = << >>
  BY FlattenEmpty DEF Wires, WireOf, Body
<1>4. SubSeq(posted, 0 + 1, Len(posted)) = posted
  BY SubSeqFull DEF Messages
<1>5. QED
  BY <1>2, <1>3, <1>4 DEF Rest

(* Send adds the message to the end of what is left. *)
LEMMA RestMore ==
    ASSUME posted \in Messages, NEW m \in Seq(Seq(Byte)), posted' = Append(posted, m), kind' = kind,
           NEW n \in 0..Len(posted)
    PROVE  Rest(n)' = Rest(n) \o Wire(m)
<1> DEFINE l == Len(posted)  s == SubSeq(posted, n + 1, l)  u == SubSeq(posted', n + 1, l + 1)
<1>1. l \in Nat /\ Len(posted') = l + 1 /\ posted' \in Messages /\ posted'[l + 1] = m
      /\ \A i \in 1..l : posted'[i] = posted[i]
  BY AppendProperties DEF Messages
<1>2. s \in Messages /\ Len(s) = l - n /\ \A i \in 1..l - n : s[i] = posted[n + i]
  BY <1>1 DEF Messages
<1>3. u \in Messages /\ Len(u) = (l - n) + 1 /\ \A i \in 1..(l - n) + 1 : u[i] = posted'[n + i]
  <2> DEFINE v == posted'  k == l + 1
  <2>1. v \in Messages /\ k = Len(v) /\ n \in 0..k /\ k - n = (l - n) + 1
    BY <1>1
  <2>2. u = SubSeq(v, n + 1, k)
    OBVIOUS
  <2> HIDE DEF v, k, u
  <2>3. u \in Messages /\ Len(u) = k - n /\ \A i \in 1..k - n : u[i] = v[n + i]
    BY <2>1, <2>2, SubSeqFrom DEF Messages
  <2>4. QED
    BY <2>1, <2>3 DEF v
<1> DEFINE a == Append(s, m)
<1> HIDE DEF s, u, l
<1>4. a \in Messages /\ Len(a) = (l - n) + 1 /\ a[(l - n) + 1] = m /\ \A i \in 1..l - n : a[i] = s[i]
  BY <1>2, AppendProperties DEF Messages
<1> HIDE DEF a
<1>5. \A i \in 1..(l - n) + 1 : u[i] = a[i]
  <2> TAKE i \in 1..(l - n) + 1
  <2>0. n \in 0..l
    BY DEF l
  <2>1. CASE i = (l - n) + 1
    <3>1. n + i = l + 1
      BY <1>1, <2>0, <2>1
    <3>2. QED
      BY <1>1, <1>3, <1>4, <2>1, <3>1
  <2>2. CASE i # (l - n) + 1
    <3>1. i \in 1..l - n /\ n + i \in 1..l
      BY <1>1, <2>0, <2>2
    <3>2. u[i] = posted'[n + i] /\ posted'[n + i] = posted[n + i]
      BY <1>1, <1>3, <3>1
    <3>3. a[i] = s[i] /\ s[i] = posted[n + i]
      BY <1>2, <1>4, <3>1
    <3>4. QED
      BY <3>2, <3>3
  <2>3. QED
    BY <2>1, <2>2
<1>6. u = a
  <2>1. Len(u) = Len(a) /\ \A i \in 1..Len(u) : u[i] = a[i]
    BY <1>3, <1>4, <1>5
  <2>2. QED
    BY <2>1, <1>3, <1>4, SeqEqual DEF Messages
<1>7. Wires(a) = Wires(s) \o Wire(m)
  BY <1>2, WiresAppend DEF a
<1>8. \A x : Wire(x)' = Wire(x)
  BY DEF Wire, Framed
<1>9. Rest(n)' = Body([i \in 1..Len(u) |-> Wire(u[i])])
  <2>1. Rest(n)' = Body([i \in 1..Len(u) |-> IF Framed' THEN <<Header(Len(Body(u[i])))>> \o Body(u[i]) ELSE Body(u[i])])
    BY <1>1 DEF Rest, Wires, WireOf, Wire, u, l
  <2>2. Framed' = Framed
    BY DEF Framed
  <2>3. QED
    BY <2>1, <2>2 DEF Wire
<1>10. Rest(n)' = Wires(u)
  BY <1>9 DEF Wires, WireOf
<1>11. QED
  BY <1>6, <1>7, <1>10 DEF Rest, s, l

(* Nothing but Send changes the messages, so the stream from n on stays. *)
LEMMA RestSame ==
    ASSUME UNCHANGED <<kind, posted>>, NEW n
    PROVE  Rest(n)' = Rest(n)
BY DEF Rest, Wires, WireOf, Wire, Framed

----------------------------------------------------------------------------
(* Packets and what they hold. *)

(* Packets hold items. *)
LEMMA DataType ==
    ASSUME NEW Q \in Seq(Packet)
    PROVE  /\ Data(Q) \in Seq(Seq(Item)) /\ Len(Data(Q)) = Len(Q)
           /\ \A k \in 1..Len(Q) : Data(Q)[k] = Q[k].data
           /\ Body(Data(Q)) \in Seq(Item)
<1>1. \A k \in 1..Len(Q) : Q[k].data \in Seq(Item)
  <2>1. \A k \in 1..Len(Q) : Q[k] \in Packet
    BY ElementOfSeq
  <2>2. QED
    BY <2>1 DEF Packet
<1>2. Len(Q) \in Nat
  OBVIOUS
<1>3. Data(Q) \in Seq(Seq(Item)) /\ Len(Data(Q)) = Len(Q) /\ \A k \in 1..Len(Q) : Data(Q)[k] = Q[k].data
  BY <1>1, <1>2 DEF Data
<1>4. QED
  BY <1>3, FlattenType DEF Body

(* The items of two queues are those of the first, then those of the second. *)
LEMMA DataConcat ==
    ASSUME NEW Q \in Seq(Packet), NEW P \in Seq(Packet)
    PROVE  Body(Data(Q \o P)) = Body(Data(Q)) \o Body(Data(P))
<1> DEFINE W == Q \o P  n == Len(Q)  p == Len(P)
<1>1. n \in Nat /\ p \in Nat /\ W \in Seq(Packet) /\ Len(W) = n + p
      /\ \A i \in 1..n + p : W[i] = IF i <= n THEN Q[i] ELSE P[i - n]
  BY ConcatProperties
<1> HIDE DEF W
<1> DEFINE a == Data(Q)  b == Data(P)  c == Data(W)  d == a \o b
<1>2. a \in Seq(Seq(Item)) /\ Len(a) = n /\ \A k \in 1..n : a[k] = Q[k].data
  BY DataType
<1>3. b \in Seq(Seq(Item)) /\ Len(b) = p /\ \A k \in 1..p : b[k] = P[k].data
  BY DataType
<1>4. c \in Seq(Seq(Item)) /\ Len(c) = n + p /\ \A k \in 1..n + p : c[k] = W[k].data
  BY <1>1, DataType
<1> HIDE DEF a, b, c, n, p
<1>5. d \in Seq(Seq(Item)) /\ Len(d) = n + p /\ \A i \in 1..n + p : d[i] = IF i <= n THEN a[i] ELSE b[i - n]
  <2>1. d \in Seq(Seq(Item)) /\ Len(d) = Len(a) + Len(b)
        /\ \A i \in 1..Len(a) + Len(b) : d[i] = IF i <= Len(a) THEN a[i] ELSE b[i - Len(a)]
    BY <1>2, <1>3, ConcatProperties
  <2> HIDE DEF d
  <2>2. QED
    BY <2>1, <1>2, <1>3
<1> HIDE DEF d
<1>6. \A i \in 1..n + p : c[i] = d[i]
  <2> TAKE i \in 1..n + p
  <2>1. CASE i <= n
    <3>1. i \in 1..n
      BY <1>1, <2>1
    <3>2. QED
      BY <1>1, <1>2, <1>4, <1>5, <2>1, <3>1
  <2>2. CASE ~(i <= n)
    <3>1. i - n \in 1..p
      BY <1>1, <2>2
    <3>2. c[i] = W[i].data /\ W[i] = P[i - n] /\ d[i] = b[i - n] /\ b[i - n] = P[i - n].data
      BY <1>1, <1>3, <1>4, <1>5, <2>2, <3>1
    <3>3. QED
      BY <3>2
  <2>3. QED
    BY <2>1, <2>2
<1>7. c = d
  BY <1>4, <1>5, <1>6, SeqEqual
<1>8. FlattenSeq(d) = FlattenSeq(a) \o FlattenSeq(b)
  BY <1>2, <1>3, FlattenConcat DEF d
<1>9. QED
  BY <1>7, <1>8 DEF a, b, c, W, Body

(* The first packet comes first. *)
LEMMA DataHead ==
    ASSUME NEW Q \in Seq(Packet), Q # << >>
    PROVE  Body(Data(Q)) = Head(Q).data \o Body(Data(Tail(Q)))
<1> DEFINE h == Head(Q)  r == Tail(Q)
<1>1. h \in Packet /\ r \in Seq(Packet) /\ Q = <<h>> \o r
  BY HeadTailProperties
<1> HIDE DEF h, r
<1>2. <<h>> \in Seq(Packet) /\ h.data \in Seq(Item)
  BY <1>1 DEF Packet
<1>3. Body(Data(Q)) = Body(Data(<<h>>)) \o Body(Data(r))
  BY <1>1, <1>2, DataConcat
<1>4. Data(<<h>>) = <<h.data>>
  BY DEF Data
<1>5. Body(Data(<<h>>)) = h.data
  BY <1>4, FlattenOne DEF Body
<1>6. QED
  BY <1>3, <1>5 DEF h, r
(* The packets of a message hold the message as it goes on the wire, however  *)
(* it is divided.                                                             *)
LEMMA PacketsWire ==
    ASSUME NEW m \in Seq(Seq(Byte))
    PROVE  Body(Data(Packets(m))) = Wire(m)
<1> DEFINE data == IF ~Framed THEN m
                   ELSE IF kind = "defragmented" THEN << <<Header(Len(Body(m)))>> \o Body(m) >>
                   ELSE << <<Header(Len(Body(m)))>> >> \o m
           P == [k \in 1..Len(data) |-> [data |-> data[k], pfn |-> k = Len(data)]]
           h == <<Header(Len(Body(m)))>>  b == Body(m)
<1>1. Packets(m) = P
  BY DEF Packets
<1>2. h \in Seq(Item) /\ b \in Seq(Item)
  BY WireType
<1>3. m \in Seq(Seq(Item))
  <2>1. Seq(Byte) \subseteq Seq(Item)
    BY SeqMonotonic DEF Item
  <2>2. QED
    BY <2>1, SeqMonotonic
<1>4. data = IF ~Framed THEN m ELSE IF kind = "defragmented" THEN <<h \o b>> ELSE <<h>> \o m
  OBVIOUS
<1>5. Wire(m) = IF Framed THEN h \o b ELSE b
  BY DEF Wire
<1> HIDE DEF h, data
<1>6. h \o b \in Seq(Item) /\ <<h>> \in Seq(Seq(Item))
  <2> HIDE DEF b
  <2>1. QED
    BY <1>2
<1>7. data \in Seq(Seq(Item))
  <2> DEFINE x == h \o b
  <2>1. x \in Seq(Item)
    BY <1>6
  <2> HIDE DEF x
  <2>2. <<x>> \in Seq(Seq(Item)) /\ <<h>> \o m \in Seq(Seq(Item))
    BY <2>1, <1>3, <1>6
  <2>3. QED
    BY <1>3, <1>4, <2>2 DEF x
<1>8. Len(data) \in Nat /\ data = [k \in 1..Len(data) |-> data[k]]
  BY <1>7
<1>9. Data(P) = data
  <2>1. Len(P) = Len(data)
    BY <1>8
  <2>2. \A k \in 1..Len(data) : P[k].data = data[k]
    OBVIOUS
  <2>3. Data(P) = [k \in 1..Len(data) |-> P[k].data]
    BY <2>1 DEF Data
  <2> HIDE DEF P
  <2>4. Data(P) = [k \in 1..Len(data) |-> data[k]]
    BY <2>2, <2>3
  <2>5. QED
    BY <2>4, <1>8
<1>10. Body(data) = Wire(m)
  <2>1. CASE ~Framed
    BY <2>1, <1>4, <1>5
  <2>2. CASE Framed /\ kind = "defragmented"
    BY <2>2, <1>4, <1>5, FlattenOne DEF Body
  <2>3. CASE Framed /\ kind # "defragmented"
    <3>1. FlattenSeq(<<h>> \o m) = FlattenSeq(<<h>>) \o FlattenSeq(m)
      BY <1>3, <1>6, FlattenConcat
    <3>2. QED
      BY <2>3, <3>1, <1>4, <1>5, FlattenOne DEF Body
  <2>4. QED
    BY <2>1, <2>2, <2>3
<1>11. QED
  BY <1>1, <1>9, <1>10

(* __DoSend moves a packet from the queue to the socket's end of it. *)
LEMMA DoSendKeeps ==
    ASSUME NEW Q \in Seq(Packet), NEW S \in Seq(Seq(Item)), DoSend(Q, S)
    PROVE  Body(sending') \o Body(Data(queue')) = Body(S) \o Body(Data(Q))
<1>1. CASE S # NoPacket \/ Q = << >>
  <2>1. queue' = Q /\ sending' = S
    BY <1>1 DEF DoSend
  <2>2. QED
    BY <2>1
<1>2. CASE ~(S # NoPacket \/ Q = << >>)
  <2>1. queue' = Tail(Q) /\ sending' = <<Head(Q).data>> /\ S = << >>
    BY <1>2 DEF DoSend, NoPacket
  <2>2. Body(sending') = Head(Q).data /\ Body(S) = << >>
    BY <2>1, FlattenOne, FlattenEmpty DEF Body
  <2>3. Body(Data(Q)) = Head(Q).data \o Body(Data(Tail(Q)))
    BY <1>2, DataHead
  <2>4. << >> \o Body(Data(Q)) = Body(Data(Q))
    BY DataType, ConcatEmptySeq
  <2>5. QED
    BY <2>1, <2>2, <2>3, <2>4
<1>3. QED
  BY <1>1, <1>2

----------------------------------------------------------------------------
(* What is left to write, under the sending end's invariant. *)
LEMMA OutType ==
    ASSUME SenderIInv
    PROVE  /\ posted \in Messages /\ taken \in 0..Len(posted)
           /\ queue \in Seq(Packet) /\ sending \in Seq(Seq(Item))
           /\ Body(sending) \in Seq(Item) /\ Body(Data(queue)) \in Seq(Item) /\ Rest(taken) \in Seq(Item)
           /\ Out \in Seq(Item)
<1>1. posted \in Messages /\ taken \in 0..Len(posted) /\ queue \in Seq(Packet)
  BY DEF SenderIInv, Posts, Sends, Messages
<1>2. sending \in Seq(Seq(Item))
  <2> DEFINE F == From(called)
  <2>1. sending \in Seq(Seq(F)) /\ F \subseteq Item
    BY DEF SenderIInv, Sends, From
  <2> HIDE DEF F
  <2>2. Seq(F) \subseteq Seq(Item)
    BY <2>1, SeqMonotonic
  <2>3. QED
    BY <2>1, <2>2, SeqMonotonic
<1>3. Body(sending) \in Seq(Item)
  BY <1>2, FlattenType DEF Body
<1>4. Body(Data(queue)) \in Seq(Item)
  BY <1>1, DataType
<1>5. Rest(taken) \in Seq(Item)
  BY <1>1, RestType
<1> DEFINE x == Body(sending)  y == Body(Data(queue))  r == Rest(taken)
<1>6. Out = (x \o y) \o r
  BY DEF Out
<1>7. x \in Seq(Item) /\ y \in Seq(Item) /\ r \in Seq(Item)
  BY <1>3, <1>4, <1>5
<1> HIDE DEF x, y, r
<1>8. (x \o y) \o r \in Seq(Item)
  BY <1>7
<1>9. QED
  BY <1>1, <1>2, <1>3, <1>4, <1>5, <1>6, <1>8

(* Send adds its message at the end. *)
LEMMA OutSend ==
    ASSUME SenderIInv, NEW m \in Seq(Seq(Byte)), posted' = Append(posted, m),
           UNCHANGED <<kind, taken, queue, sending>>
    PROVE  Out' = Out \o Wire(m)
<1> DEFINE x == Body(sending)  y == Body(Data(queue))  r == Rest(taken)  w == Wire(m)
<1>1. x \in Seq(Item) /\ y \in Seq(Item) /\ r \in Seq(Item) /\ w \in Seq(Item)
  BY OutType, WireType
<1>2. Rest(taken)' = Rest(taken) \o Wire(m)
  <2>1. posted \in Messages /\ taken \in 0..Len(posted)
    BY OutType
  <2> DEFINE n == taken
  <2> HIDE DEF n
  <2>2. Rest(n)' = Rest(n) \o Wire(m)
    BY <2>1, RestMore DEF n
  <2>3. QED
    BY <2>2 DEF n
<1>3. Out' = (x \o y) \o (r \o w) /\ Out = (x \o y) \o r
  BY <1>2 DEF Out, Data
<1> HIDE DEF x, y, r, w
<1>4. (x \o y) \in Seq(Item)
  BY <1>1
<1> DEFINE q == x \o y
<1> HIDE DEF q
<1>5. q \o (r \o w) = (q \o r) \o w
  <2>1. q \in Seq(Item) /\ r \in Seq(Item) /\ w \in Seq(Item)
    BY <1>1, <1>4 DEF q
  <2>2. QED
    BY <2>1, JoinItems
<1>6. QED
  BY <1>3, <1>5 DEF q, w
(* __Send and __SendV turn the next message into packets: nothing is added. *)
LEMMA OutRunSend ==
    ASSUME SenderIInv, RunSend, "sender" \notin closed
    PROVE  Out' = Out
<1> DEFINE m == posted[taken + 1]  P == Packets(m)  i == taken + 1
<1>1. posted \in Messages /\ taken \in 0..Len(posted) /\ taken # Len(posted) /\ taken' = i
      /\ i \in 1..Len(posted) /\ queue \in Seq(Packet) /\ sending \in Seq(Seq(Item))
  BY OutType DEF RunSend
<1>2. m \in Seq(Seq(Byte)) /\ m \in Seq(Seq(Of(i))) /\ m # << >> /\ i \in Nat
  BY <1>1, ElementOfSeq DEF Messages, SenderIInv, Posts
<1>3. P \in Seq(Packet)
  BY <1>2, PacketsOk
<1>4. DoSend(queue \o P, sending) /\ UNCHANGED <<kind, posted>>
  BY DEF RunSend
<1> DEFINE x == Body(sending)  y == Body(Data(queue))  w == Wire(m)  r == Rest(i)
<1>5. Body(Data(queue \o P)) = y \o w
  <2>1. Body(Data(P)) = w
    BY <1>2, PacketsWire
  <2> HIDE DEF P, w
  <2>2. QED
    BY <1>1, <1>3, <2>1, DataConcat
<1>6. queue \o P \in Seq(Packet)
  <2> HIDE DEF P
  <2>1. QED
    BY <1>1, <1>3, ConcatProperties
<1>7. Body(sending') \o Body(Data(queue')) = x \o (y \o w)
  <2> DEFINE Q == queue \o P
  <2>1. Q \in Seq(Packet) /\ DoSend(Q, sending) /\ Body(Data(Q)) = y \o w
    BY <1>4, <1>5, <1>6
  <2> HIDE DEF Q
  <2>2. Body(sending') \o Body(Data(queue')) = Body(sending) \o Body(Data(Q))
    BY <2>1, <1>1, DoSendKeeps
  <2>3. QED
    BY <2>1, <2>2
<1>8. Rest(taken) = w \o r
  BY <1>1, RestNext
<1>9. x \in Seq(Item) /\ y \in Seq(Item) /\ w \in Seq(Item) /\ r \in Seq(Item)
  <2>1. i \in 0..Len(posted)
    BY <1>1
  <2>2. r \in Seq(Item)
    BY <1>1, <2>1, RestType
  <2>3. QED
    BY <1>2, <2>2, OutType, WireType
<1>10. Rest(taken)' = r
  BY <1>1, <1>4 DEF Rest, Wires, WireOf, Wire, Framed
<1>11. Out' = (x \o (y \o w)) \o r
  <2>1. Out' = (Body(sending') \o Body(Data(queue'))) \o Rest(taken)'
    BY DEF Out, Data
  <2>2. QED
    BY <1>7, <1>10, <2>1
<1>12. Out = (x \o y) \o (w \o r)
  BY <1>8 DEF Out
<1> HIDE DEF x, y, w, r
<1>13. (x \o (y \o w)) \o r = (x \o y) \o (w \o r)
  <2>1. x \o (y \o w) = (x \o y) \o w
    BY <1>9
  <2> DEFINE q == x \o y
  <2>2. q \in Seq(Item)
    BY <1>9
  <2> HIDE DEF q
  <2>3. (q \o w) \o r = q \o (w \o r)
    BY <1>9, <2>2
  <2>4. QED
    BY <2>1, <2>3 DEF q
<1>14. QED
  BY <1>11, <1>12, <1>13

(* __OnSendCallback takes the next packet. *)
LEMMA OutCallback ==
    ASSUME SenderIInv, OnSendCallback
    PROVE  Out' = Out
<1>1. queue \in Seq(Packet) /\ NoPacket \in Seq(Seq(Item)) /\ DoSend(queue, NoPacket)
      /\ sending = << << >> >> /\ UNCHANGED <<kind, posted, taken>>
  BY OutType DEF OnSendCallback, NoPacket
<1>2. Body(sending') \o Body(Data(queue')) = Body(NoPacket) \o Body(Data(queue))
  BY <1>1, DoSendKeeps
<1>3. Body(NoPacket) = << >> /\ Body(sending) = << >>
  BY <1>1, FlattenEmpty, FlattenOne DEF Body, NoPacket
<1>4. Rest(taken)' = Rest(taken)
  BY <1>1 DEF Rest, Wires, WireOf, Wire, Framed
<1>5. Out' = (Body(sending') \o Body(Data(queue'))) \o Rest(taken)'
  BY DEF Out, Data
<1>6. QED
  BY <1>2, <1>3, <1>4, <1>5 DEF Out

(* async_write moves the first part of what is left into the socket. *)
LEMMA OutWriteSome ==
    ASSUME SenderIInv, WriteSome
    PROVE  \E w \in Seq(Item) : net' = net \o w /\ Out = w \o Out' /\ Out' \in Seq(Item)
<1>1. PICK k \in 1..Len(sending[1]) : /\ net' = net \o SubSeq(sending[1], 1, k)
                                      /\ sending' = <<SubSeq(sending[1], k + 1, Len(sending[1]))>>
  BY DEF WriteSome
<1> DEFINE s == sending[1]  w == SubSeq(s, 1, k)  u == SubSeq(s, k + 1, Len(s))
           y == Body(Data(queue))  r == Rest(taken)
<1>2. sending = <<s>> /\ s \in Seq(Item)
  <2>1. sending \in Seq(Seq(Item)) /\ Len(sending) <= 1 /\ sending # << >>
    BY OutType DEF SenderIInv, Sends, WriteSome, NoPacket
  <2>2. Len(sending) = 1
    <3> DEFINE n == Len(sending)
    <3>1. n \in Nat /\ n # 0 /\ n <= 1
      BY <2>1
    <3> HIDE DEF n
    <3>2. n = 1
      BY <3>1
    <3>3. QED
      BY <3>2 DEF n
  <2>3. s \in Seq(Item)
    BY <2>1, <2>2
  <2>4. sending = <<s>>
    <3> DEFINE t == <<s>>
    <3>1. t \in Seq(Seq(Item)) /\ Len(t) = 1 /\ t[1] = s
      BY <2>3
    <3>2. sending[1] = s
      OBVIOUS
    <3> HIDE DEF t, s
    <3>3. \A i \in 1..Len(sending) : sending[i] = t[i]
      BY <2>2, <3>1, <3>2
    <3>4. sending = t
      BY <2>1, <2>2, <3>1, <3>3, SeqEqual
    <3>5. QED
      BY <3>4 DEF t
  <2>5. QED
    BY <2>3, <2>4
<1>3. y \in Seq(Item) /\ r \in Seq(Item)
  BY OutType
<1>4. w \in Seq(Item) /\ u \in Seq(Item) /\ w \o u = s
  <2> HIDE DEF s
  <2>1. k \in 0..Len(s)
    BY <1>1 DEF s
  <2>2. QED
    BY <1>2, <2>1, SplitAt
<1>5. Body(sending) = s /\ Body(sending') = u
  BY <1>1, <1>2, FlattenOne DEF Body
<1>6. Rest(taken)' = Rest(taken) /\ Data(queue)' = Data(queue)
  BY DEF WriteSome, Rest, Wires, WireOf, Wire, Framed, Data
<1>7. Out = (s \o y) \o r /\ Out' = (u \o y) \o r
  <2>1. Out' = (Body(sending') \o Body(Data(queue)')) \o Rest(taken)'
    BY DEF Out
  <2>2. QED
    BY <1>5, <1>6, <2>1 DEF Out
<1>8. net' = net \o w
  BY <1>1
<1> HIDE DEF s, w, u, y, r
<1>9. u \o y \in Seq(Item) /\ (u \o y) \o r \in Seq(Item)
  BY <1>3, <1>4
<1>10. ((w \o u) \o y) \o r = w \o ((u \o y) \o r)
  <2>0. w \in Seq(Item) /\ u \in Seq(Item) /\ y \in Seq(Item)
    BY <1>3, <1>4
  <2>1. (w \o u) \o y = w \o (u \o y)
    BY <2>0
  <2> DEFINE q == u \o y
  <2>2. q \in Seq(Item)
    BY <1>9
  <2> HIDE DEF q
  <2>3. (w \o q) \o r = w \o (q \o r)
    <3>1. w \in Seq(Item) /\ r \in Seq(Item)
      BY <1>3, <1>4
    <3>2. QED
      BY <2>2, <3>1, JoinItems
  <2>4. QED
    BY <2>1, <2>3 DEF q
<1>11. Out = w \o Out' /\ Out' \in Seq(Item)
  BY <1>4, <1>7, <1>9, <1>10
<1>12. QED
  BY <1>4, <1>8, <1>11
----------------------------------------------------------------------------
(* The invariant of the stream.  Reads: the next item that is read is looked *)
(* at as the continuation of what on_recv was given.  A TCPConnection whose  *)
(* receiving end is closed starts no further read; a RawTCPConnection goes   *)
(* on reading but gives nothing to on_recv.                                  *)
Reads ==
    IF Framed THEN reading \in {"head", "body"} \/ (reading = "no" /\ "receiver" \notin closed)
    ELSE "receiver" \notin closed

(* What has arrived of the stream, and the whole of it from the same point. *)
Here == IF Framed THEN net ELSE got \o net
Ahead ==
    IF ~Framed THEN Rest(0)
    ELSE IF reading = "body" THEN Body(posted[Len(got) + 1]) \o Rest(Len(got) + 1)
    ELSE Rest(Len(got))
Stream == Reads => FollowedBy(Here, Ahead, alive, Out)

Delivered ==
    /\ Framed => /\ got \in Seq(Seq(Byte)) /\ Len(got) <= Len(posted)
                 /\ \A i \in 1..Len(got) : got[i] = Body(posted[i])
    /\ ~Framed => got \in Seq(Byte) /\ FollowedBy(got, Rest(0), FALSE, << >>)

Reading ==
    /\ net \in Seq(Item) /\ need \in Nat
    /\ Framed => /\ reading \in {"no", "head", "body", "dead"}
                 /\ reading = "body" => /\ Len(got) # Len(posted)
                                        /\ need = Len(Body(posted[Len(got) + 1]))
    /\ ~Framed => reading \in {"no", "some", "dead"}

Control == started \in BOOLEAN /\ wakes \in 0..MaxWakes /\ crashed \in {"no", "sendv", "read", "option"}

StreamIInv == SenderIInv /\ Delivered /\ Reading /\ Stream

(* The values of the stream's parts. *)
LEMMA StreamType ==
    ASSUME StreamIInv
    PROVE  /\ posted \in Messages /\ Len(posted) \in Nat
           /\ Here \in Seq(Item) /\ (Reads => Ahead \in Seq(Item)) /\ Out \in Seq(Item)
           /\ Framed => Len(got) \in 0..Len(posted)
           /\ ~Framed => got \in Seq(Item)
<1>1. posted \in Messages /\ Len(posted) \in Nat /\ Out \in Seq(Item)
  BY OutType DEF StreamIInv, Messages
<1>2. net \in Seq(Item)
  BY DEF StreamIInv, Reading
<1>3. CASE Framed
  <2>1. got \in Seq(Seq(Byte)) /\ Len(got) <= Len(posted)
    BY <1>3 DEF StreamIInv, Delivered
  <2>2. Len(got) \in Nat
    BY <2>1
  <2>3. Len(got) \in 0..Len(posted)
    BY <1>1, <2>1, <2>2
  <2>4. PICK n \in 0..Len(posted) : n = Len(got)
    BY <2>3
  <2>5. Rest(n) \in Seq(Item)
    BY <1>1, RestType
  <2>6. CASE reading = "body"
    <3>1. n + 1 \in 1..Len(posted) /\ n + 1 \in 0..Len(posted)
      BY <1>1, <1>3, <2>4, <2>6 DEF StreamIInv, Reading
    <3>2. posted[n + 1] \in Seq(Seq(Byte))
      BY <1>1, <3>1, ElementOfSeq DEF Messages
    <3>3. Body(posted[n + 1]) \in Seq(Item) /\ Rest(n + 1) \in Seq(Item)
      BY <1>1, <3>1, <3>2, RestType, WireType
    <3> DEFINE b == Body(posted[n + 1])  r == Rest(n + 1)
    <3> HIDE DEF b, r
    <3>4. b \o r \in Seq(Item)
      BY <3>3, ConcatProperties DEF b, r
    <3>5. Ahead = b \o r
      BY <1>3, <2>4, <2>6 DEF Ahead, b, r
    <3>6. QED
      BY <1>1, <1>2, <1>3, <2>3, <3>4, <3>5 DEF Here
  <2>7. CASE reading # "body"
    BY <1>1, <1>2, <1>3, <2>3, <2>4, <2>5, <2>7 DEF Ahead, Here
  <2>8. QED
    BY <2>6, <2>7
<1>4. CASE ~Framed
  <2>1. got \in Seq(Byte) /\ Byte \subseteq Item
    BY <1>4 DEF StreamIInv, Delivered, Item
  <2>2. got \in Seq(Item)
    BY <2>1, SeqMonotonic
  <2>3. Rest(0) \in Seq(Item)
    BY <1>1, RestType
  <2>4. got \o net \in Seq(Item)
    BY <1>2, <2>2, ConcatProperties
  <2>5. QED
    BY <1>1, <1>4, <2>2, <2>3, <2>4 DEF Here, Ahead
<1>5. QED
  BY <1>3, <1>4

(* The stream of the next state, from its parts. *)
LEMMA StreamNext ==
    ASSUME Reads' => FollowedBy(Here', Ahead', alive', Out')
    PROVE  Stream'
BY DEF Stream, FollowedBy

(* Nothing of the stream changes. *)
LEMMA StreamSame ==
    ASSUME StreamIInv, SenderIInv', UNCHANGED <<kind, posted, net, got>>,
           Reads' => Reads /\ (reading' = "body" <=> reading = "body"),
           alive' => alive /\ Out' = Out
    PROVE  Stream' /\ Delivered'
<1>1. Framed' = Framed /\ Here' = Here
  BY DEF Framed, Here
<1>2. \A n : Rest(n)' = Rest(n)
  BY RestSame
<1>3. Reads' => Ahead' = Ahead
  BY <1>1 DEF Ahead, Rest, Wires, WireOf, Wire, Framed
<1>4. Reads' => FollowedBy(Here', Ahead', alive', Out')
  <2> SUFFICES ASSUME Reads'
               PROVE  FollowedBy(Here', Ahead', alive', Out')
    OBVIOUS
  <2>1. FollowedBy(Here, Ahead, alive, Out)
    BY DEF StreamIInv, Stream
  <2>2. FollowedBy(Here, Ahead, alive', Out')
    BY <2>1, FollowedWeaker
  <2>3. QED
    BY <2>2, <1>1, <1>3
<1>5. Stream'
  BY <1>4, StreamNext
<1>6. Delivered'
  BY DEF StreamIInv, Delivered, Framed, FollowedBy, Rest, Wires, WireOf, Wire
<1>7. QED
  BY <1>5, <1>6
(* Send: the stream grows at its end. *)
LEMMA StreamSend ==
    ASSUME StreamIInv, NEW n \in 1..MaxParts, NEW sizes \in [1..n -> Sizes], Send(sizes)
    PROVE  Delivered' /\ Reading' /\ Stream'
<1> DEFINE m == Message(Len(posted) + 1, sizes)  l == Len(posted)
<1>1. l \in Nat /\ l + 1 \in 1..MaxMessages /\ posted \in Messages
  BY StreamType, ConstantsAssumption DEF Send
<1>2. m \in Seq(Seq(Byte))
  <2>1. m \in Seq(Seq(Of(l + 1)))
    BY <1>1, MessageOf
  <2>2. Seq(Of(l + 1)) \subseteq Seq(Byte)
    BY <1>1, BytesFrom, SeqMonotonic
  <2>3. QED
    BY <2>1, <2>2, SeqMonotonic
<1>3. posted' = Append(posted, m) /\ UNCHANGED <<kind, taken, queue, sending, net, alive, reading, need, got, closed>>
  BY DEF Send, receiver
<1> HIDE DEF m
<1>4. Len(posted') = l + 1 /\ \A i \in 1..l : posted'[i] = posted[i]
  BY <1>1, <1>2, <1>3, AppendProperties DEF Messages
<1>5. Framed' = Framed /\ Here' = Here /\ Reads' = Reads
  BY <1>3 DEF Framed, Here, Reads
<1>6. Out' = Out \o Wire(m)
  BY <1>2, <1>3, OutSend DEF StreamIInv
<1>7. \A k \in 0..l : Rest(k)' = Rest(k) \o Wire(m)
  BY <1>1, <1>2, <1>3, RestMore
<1>8. Wire(m) \in Seq(Item)
  BY <1>2, WireType
<1>9. CASE Framed
  <2>1. Len(got) \in 0..l /\ got \in Seq(Seq(Byte)) /\ \A i \in 1..Len(got) : got[i] = Body(posted[i])
    BY <1>9, StreamType DEF StreamIInv, Delivered
  <2>2. \A i \in 1..Len(got) : got[i] = Body(posted'[i])
    <3> TAKE i \in 1..Len(got)
    <3>1. i \in 1..l
      BY <1>1, <2>1
    <3>2. QED
      BY <1>4, <2>1, <3>1
  <2>3. Delivered'
    BY <1>1, <1>3, <1>4, <1>5, <1>9, <2>1, <2>2 DEF Delivered
  <2>4. PICK k \in 0..l : k = Len(got)
    BY <2>1
  <2>5. ASSUME reading = "body"
        PROVE  k + 1 \in 1..l /\ k + 1 \in 0..l /\ posted'[k + 1] = posted[k + 1]
    <3>1. k + 1 \in 1..l /\ k + 1 \in 0..l
      BY <1>1, <1>9, <2>4, <2>5 DEF StreamIInv, Reading
    <3>2. QED
      BY <1>4, <3>1
  <2>6. Reading'
    <3>1. reading = "body" => Len(got') # Len(posted') /\ need' = Len(Body(posted'[Len(got') + 1]))
      <4> HAVE reading = "body"
      <4>1. Len(got') = k /\ k # l + 1
        BY <1>1, <1>3, <2>4
      <4>2. need' = Len(Body(posted[k + 1]))
        BY <1>3, <1>9, <2>4 DEF StreamIInv, Reading
      <4>3. QED
        BY <4>1, <4>2, <1>4, <2>5
    <3>2. QED
      BY <1>3, <1>5, <1>9, <3>1 DEF StreamIInv, Reading
  <2>7. Reads => Ahead' = Ahead \o Wire(m)
    <3>1. CASE reading = "body"
      <4>1. Ahead = Body(posted[k + 1]) \o Rest(k + 1)
        BY <1>9, <2>4, <3>1 DEF Ahead
      <4>2. Ahead' = Body(posted'[k + 1]) \o Rest(k + 1)'
        BY <1>3, <1>5, <1>9, <2>4, <3>1 DEF Ahead, Rest, Wires, WireOf, Wire, Framed
      <4>3. Ahead' = Body(posted[k + 1]) \o (Rest(k + 1) \o Wire(m))
        BY <4>2, <1>7, <2>5, <3>1
      <4> DEFINE b == Body(posted[k + 1])  r == Rest(k + 1)  w == Wire(m)
      <4>4. b \in Seq(Item) /\ r \in Seq(Item) /\ w \in Seq(Item)
        BY <1>1, <1>8, <2>5, <3>1, RestType, WireType, ElementOfSeq DEF Messages
      <4> HIDE DEF b, r, w
      <4>5. b \o (r \o w) = (b \o r) \o w
        BY <4>4
      <4>6. QED
        BY <4>1, <4>3, <4>5 DEF b, r, w
    <3>2. CASE reading # "body"
      <4>1. Ahead = Rest(k)
        BY <1>9, <2>4, <3>2 DEF Ahead
      <4>2. Ahead' = Rest(k)'
        BY <1>3, <1>5, <1>9, <2>4, <3>2 DEF Ahead, Rest, Wires, WireOf, Wire, Framed
      <4>3. QED
        BY <4>1, <4>2, <1>7
    <3>3. QED
      BY <3>1, <3>2
  <2>8. QED
    <3>1. Reads' => FollowedBy(Here', Ahead', alive', Out')
      <4> SUFFICES ASSUME Reads PROVE FollowedBy(Here', Ahead', alive', Out')
        BY <1>5
      <4>1. FollowedBy(Here, Ahead, alive, Out)
        BY DEF StreamIInv, Stream
      <4>2. FollowedBy(Here, Ahead \o Wire(m), alive, Out \o Wire(m))
        BY <1>8, <4>1, StreamType, FollowedMore
      <4>3. QED
        BY <4>2, <1>3, <1>5, <1>6, <2>7
    <3>2. QED
      BY <2>3, <2>6, <3>1, StreamNext
<1>10. CASE ~Framed
  <2>1. got \in Seq(Byte) /\ got \in Seq(Item) /\ FollowedBy(got, Rest(0), FALSE, << >>)
    BY <1>10, StreamType DEF StreamIInv, Delivered
  <2>2. 0 \in 0..l
    BY <1>1
  <2>3. Rest(0) \in Seq(Item) /\ Rest(0)' = Rest(0) \o Wire(m)
    BY <1>1, <1>7, <2>2, RestType
  <2>4. FollowedBy(got, Rest(0) \o Wire(m), FALSE, << >>)
    <3>1. << >> \in Seq(Item)
      OBVIOUS
    <3>2. FollowedBy(got, Rest(0) \o Wire(m), FALSE, << >> \o Wire(m))
      BY <1>8, <2>1, <2>3, <3>1, FollowedMore
    <3>3. QED
      BY <3>2 DEF FollowedBy
  <2>5. Delivered'
    <3>1. FollowedBy(got', Rest(0)', FALSE, << >>)
      BY <1>3, <2>3, <2>4
    <3>2. QED
      BY <1>3, <1>5, <1>10, <2>1, <3>1 DEF Delivered, FollowedBy
  <2>6. Reading'
    BY <1>3, <1>5, <1>10 DEF StreamIInv, Reading
  <2>7. Ahead = Rest(0) /\ Ahead' = Rest(0)'
    BY <1>5, <1>10 DEF Ahead
  <2>8. QED
    <3>1. Reads' => FollowedBy(Here', Ahead', alive', Out')
      <4> SUFFICES ASSUME Reads PROVE FollowedBy(Here', Ahead', alive', Out')
        BY <1>5
      <4>1. FollowedBy(Here, Ahead, alive, Out)
        BY DEF StreamIInv, Stream
      <4>2. FollowedBy(Here, Ahead \o Wire(m), alive, Out \o Wire(m))
        BY <1>8, <4>1, StreamType, FollowedMore
      <4>3. QED
        BY <4>2, <1>3, <1>5, <1>6, <2>3, <2>7
    <3>2. QED
      BY <2>5, <2>6, <3>1, StreamNext
<1>11. QED
  BY <1>9, <1>10
(* The sending end's handlers: what is left to write is moved, not changed. *)
LEMMA StreamRunSend ==
    ASSUME StreamIInv, SenderIInv', RunSend \/ OnSendCallback
    PROVE  Delivered' /\ Reading' /\ Stream'
<1>1. UNCHANGED <<kind, posted, net, got, alive, reading, need, closed>>
  BY DEF RunSend, OnSendCallback, receiver
<1>2. Reads' = Reads
  BY <1>1 DEF Reads, Framed
<1>3. alive' => alive /\ Out' = Out
  <2> HAVE alive'
  <2>1. alive /\ closed = {}
    BY <1>1 DEF StreamIInv, SenderIInv, Ends
  <2>2. CASE RunSend
    BY <2>1, <2>2, OutRunSend DEF StreamIInv
  <2>3. CASE OnSendCallback
    BY <2>1, <2>3, OutCallback DEF StreamIInv
  <2>4. QED
    BY <2>1, <2>2, <2>3
<1>4. Delivered' /\ Stream'
  BY <1>1, <1>2, <1>3, StreamSame
<1>5. Reading'
  BY <1>1 DEF StreamIInv, Reading, Framed
<1>6. QED
  BY <1>4, <1>5

(* async_write: items move from what is left to what is under way. *)
LEMMA StreamWriteSome ==
    ASSUME StreamIInv, SenderIInv', WriteSome
    PROVE  Delivered' /\ Reading' /\ Stream'
<1>1. UNCHANGED <<kind, posted, got, alive, reading, need, closed>> /\ alive
  BY DEF WriteSome, receiver
<1>2. PICK w \in Seq(Item) : net' = net \o w /\ Out = w \o Out' /\ Out' \in Seq(Item)
  BY OutWriteSome DEF StreamIInv
<1>3. Framed' = Framed /\ Reads' = Reads
  BY <1>1 DEF Reads, Framed
<1>4. Ahead' = Ahead
  BY <1>1 DEF Ahead, Rest, Wires, WireOf, Wire, Framed
<1>5. net \in Seq(Item)
  BY DEF StreamIInv, Reading
<1>6. Here' = Here \o w
  <2>1. CASE Framed
    BY <2>1, <1>2, <1>3 DEF Here
  <2>2. CASE ~Framed
    <3>1. got \in Seq(Item)
      BY <2>2, StreamType
    <3>2. got \o (net \o w) = (got \o net) \o w
      BY <1>5, <3>1
    <3>3. QED
      BY <2>2, <3>2, <1>1, <1>2, <1>3 DEF Here
  <2>3. QED
    BY <2>1, <2>2
<1>7. Reads' => FollowedBy(Here', Ahead', alive', Out')
  <2> SUFFICES ASSUME Reads PROVE FollowedBy(Here', Ahead', alive', Out')
    BY <1>3
  <2>1. FollowedBy(Here, Ahead, TRUE, w \o Out')
    BY <1>1, <1>2 DEF StreamIInv, Stream, FollowedBy
  <2>2. Here \in Seq(Item)
    BY StreamType
  <2>3. FollowedBy(Here \o w, Ahead, TRUE, Out')
    BY <1>2, <2>1, <2>2, FollowedWrite
  <2>4. QED
    BY <1>1, <1>4, <1>6, <2>3 DEF FollowedBy
<1>8. Stream'
  BY <1>7, StreamNext
<1>9. net' \in Seq(Item)
  BY <1>2, <1>5, ConcatProperties
<1>10. Reading'
  BY <1>1, <1>3, <1>9 DEF StreamIInv, Reading
<1>11. Delivered'
  BY <1>1 DEF StreamIInv, Delivered, Framed, FollowedBy, Rest, Wires, WireOf, Wire
<1>12. QED
  BY <1>8, <1>10, <1>11

(* The connection fails or is closed, and loses what is under way from some point. *)
LEMMA StreamCut ==
    ASSUME StreamIInv, SenderIInv', UNCHANGED <<kind, posted, got, reading, need>>,
           alive' = FALSE, closed \subseteq closed', NEW k \in 0..Len(net), net' = SubSeq(net, 1, k)
    PROVE  Delivered' /\ Reading' /\ Stream'
<1>1. net \in Seq(Item)
  BY DEF StreamIInv, Reading
<1> DEFINE c == SubSeq(net, k + 1, Len(net))  h == SubSeq(net, 1, k)
<1>2. h \in Seq(Item) /\ c \in Seq(Item) /\ h \o c = net /\ net' = h
  BY <1>1, SplitAt
<1> HIDE DEF c, h
<1>3. Framed' = Framed /\ (Reads' => Reads)
  BY DEF Framed, Reads
<1>4. Ahead' = Ahead
  BY DEF Ahead, Rest, Wires, WireOf, Wire, Framed
<1>5. Here' \in Seq(Item) /\ Here = Here' \o c
  <2>1. CASE Framed
    BY <2>1, <1>2, <1>3 DEF Here
  <2>2. CASE ~Framed
    <3>1. got \in Seq(Item)
      BY <2>2, StreamType
    <3>2. h \in Seq(Item) /\ c \in Seq(Item)
      BY <1>2
    <3>3. (got \o h) \o c = got \o (h \o c) /\ got \o h \in Seq(Item)
      BY <3>1, <3>2
    <3>4. QED
      BY <2>2, <3>3, <1>2, <1>3 DEF Here
  <2>3. QED
    BY <2>1, <2>2
<1>6. Reads' => FollowedBy(Here', Ahead', alive', Out')
  <2> SUFFICES ASSUME Reads PROVE FollowedBy(Here', Ahead', alive', Out')
    BY <1>3
  <2>1. FollowedBy(Here' \o c, Ahead, alive, Out)
    BY <1>5 DEF StreamIInv, Stream
  <2> DEFINE a == Here'
  <2>2. a \in Seq(Item) /\ FollowedBy(a \o c, Ahead, alive, Out)
    BY <1>5, <2>1
  <2> HIDE DEF a
  <2>3. FollowedBy(a, Ahead, FALSE, Out')
    BY <1>2, <2>2, FollowedCut
  <2>4. QED
    BY <1>4, <2>3 DEF a
<1>7. Stream'
  BY <1>6, StreamNext
<1>8. Reading'
  BY <1>2, <1>3 DEF StreamIInv, Reading
<1>9. Delivered'
  BY DEF StreamIInv, Delivered, Framed, FollowedBy, Rest, Wires, WireOf, Wire
<1>10. QED
  BY <1>7, <1>8, <1>9

(* __DoRecv starts the next read where the last one ended. *)
LEMMA DoRecvKinds ==
    ASSUME NEW R, DoRecv(R)
    PROVE  \/ reading' = R
           \/ R = "no" /\ Framed /\ "receiver" \notin closed /\ reading' = "head"
           \/ R = "no" /\ ~Framed /\ reading' = "some"
           \/ R = "no" /\ Framed /\ "receiver" \in closed /\ reading' = "dead"
BY DEF DoRecv, Allocated, StartRead

(* Starting, failing or blocking a read reads nothing. *)
LEMMA StreamDoRecv ==
    ASSUME StreamIInv, SenderIInv', Start \/ RunDoRecv \/ ReadFails \/ (\E b \in BOOLEAN : BlockRecv(b))
    PROVE  Delivered' /\ Reading' /\ Stream'
<1>1. UNCHANGED <<kind, posted, taken, queue, sending, net, got, alive, need, closed>>
  BY DEF Start, RunDoRecv, ReadFails, BlockRecv, sender
<1>2. \/ reading' = reading
      \/ reading = "no" /\ Framed /\ "receiver" \notin closed /\ reading' = "head"
      \/ reading = "no" /\ ~Framed /\ reading' = "some"
      \/ reading' = "dead"
  <2>1. CASE Start \/ RunDoRecv
    BY <2>1, DoRecvKinds DEF Start, RunDoRecv
  <2>2. CASE ReadFails \/ (\E b \in BOOLEAN : BlockRecv(b))
    BY <2>2 DEF ReadFails, BlockRecv
  <2>3. QED
    BY <2>1, <2>2
<1>3. Framed' = Framed
  BY <1>1 DEF Framed
<1>4. Reads' => Reads /\ (Framed => (reading' = "body" <=> reading = "body"))
  BY <1>1, <1>2, <1>3 DEF Reads, StreamIInv, Reading
<1>5. ~Framed => reading # "body" /\ reading' # "body"
  BY <1>2 DEF StreamIInv, Reading
<1>6. Out' = Out
  BY <1>1 DEF Out, Data, Rest, Wires, WireOf, Wire, Framed
<1>7. Delivered' /\ Stream'
  BY <1>1, <1>4, <1>5, <1>6, StreamSame
<1>8. Reading'
  BY <1>1, <1>2, <1>3 DEF StreamIInv, Reading
<1>9. QED
  BY <1>7, <1>8
(* A header is read where a header was written: its length is the length of   *)
(* the message that follows.                                                  *)
LEMMA StreamHead ==
    ASSUME StreamIInv, SenderIInv', OnHeadRecvCallback
    PROVE  Delivered' /\ Reading' /\ Stream'
<1>1. reading = "head" /\ net # << >> /\ net' = Tail(net) /\ need' = Head(net)[2]
      /\ (alive' => alive) /\ UNCHANGED <<kind, posted, taken, queue, sending, got, closed>>
      /\ reading' \in {"dead", "body"}
  BY DEF OnHeadRecvCallback, sender
<1>2. Framed /\ Framed' = Framed
  BY <1>1 DEF StreamIInv, Reading, Framed
<1>3. net \in Seq(Item) /\ posted \in Messages /\ Len(posted) \in Nat /\ Len(got) \in 0..Len(posted)
  BY <1>2, StreamType DEF StreamIInv, Reading
<1>4. PICK n \in 0..Len(posted) : n = Len(got)
  BY <1>3
<1>5. FollowedBy(net, Rest(n), alive, Out)
  BY <1>1, <1>2, <1>4 DEF StreamIInv, Stream, Reads, Here, Ahead
<1>6. n # Len(posted)
  <2> SUFFICES ASSUME n = Len(posted) PROVE FALSE
    OBVIOUS
  <2>1. PICK z \in Seq(Item) : net \o z = << >>
    BY <1>3, <1>5, RestEnd DEF FollowedBy
  <2>2. Len(net \o z) = Len(net) + Len(z) /\ Len(net) \in Nat \ {0} /\ Len(z) \in Nat
    BY <1>1, <1>3, ConcatProperties, EmptySeq
  <2> DEFINE x == net \o z
  <2>3. Len(x) # 0 /\ x = << >>
    BY <2>1, <2>2
  <2>4. QED
    BY <2>3
<1> DEFINE b == Body(posted[n + 1])  r == Rest(n + 1)  g == Header(Len(b))  h == <<g>>
<1>7. n + 1 \in 1..Len(posted) /\ n + 1 \in 0..Len(posted)
  BY <1>3, <1>6
<1>8. b \in Seq(Item) /\ Len(b) \in Nat /\ h \in Seq(Item) /\ r \in Seq(Item)
  BY <1>3, <1>7, RestType, WireType, ElementOfSeq DEF Messages
<1>9. Rest(n) = (h \o b) \o r
  BY <1>2, <1>3, <1>6, RestNext DEF Wire
<1>10. g[2] = Len(b)
  BY DEF Header
<1>11. need' = Head(net)[2]
  BY <1>1
<1>12. Ahead' = b \o r \/ reading' = "dead"
  BY <1>1, <1>2, <1>4 DEF Ahead, Rest, Wires, WireOf, Wire, Framed
<1>13. (Len(got') # Len(posted') /\ Len(Body(posted'[Len(got') + 1])) = Len(b))
  BY <1>1, <1>4, <1>6
<1> HIDE DEF b, r, g
<1>14. Len(h) = 1 /\ h[1] = g
  OBVIOUS
<1> HIDE DEF h
<1>15. (h \o b) \o r = h \o (b \o r) /\ b \o r \in Seq(Item)
  <2>1. (h \o b) \o r = h \o (b \o r)
    BY <1>8, JoinItems
  <2>2. b \o r \in Seq(Item)
    BY <1>8, ConcatProperties
  <2>3. QED
    BY <2>1, <2>2
<1> DEFINE q == b \o r
<1>16. q \in Seq(Item) /\ FollowedBy(net, h \o q, alive, Out)
  BY <1>5, <1>9, <1>15
<1> HIDE DEF q
<1>17. Len(net) \in Nat /\ Len(h) <= Len(net)
  BY <1>1, <1>3, <1>14, EmptySeq
<1>18. SubSeq(net, 1, Len(h)) = h /\ FollowedBy(SubSeq(net, Len(h) + 1, Len(net)), q, alive, Out)
  BY <1>3, <1>8, <1>16, <1>17, FollowedRead
<1>19. Tail(net) = SubSeq(net, Len(h) + 1, Len(net)) /\ Tail(net) \in Seq(Item)
  BY <1>1, <1>3, <1>14, TailIsSubSeq, HeadTailProperties
<1>20. Head(net) = g
  <2>1. SubSeq(net, 1, 1)[1] = net[1] /\ Head(net) = net[1]
    BY <1>1, <1>3, <1>14, <1>17
  <2>2. SubSeq(net, 1, 1) = h
    BY <1>14, <1>18
  <2>3. QED
    BY <1>14, <2>1, <2>2
<1>21. need' = Len(b)
  BY <1>10, <1>11, <1>20
<1>22. Reading'
  BY <1>1, <1>2, <1>8, <1>13, <1>19, <1>21 DEF Reading
<1>23. Delivered'
  BY <1>1 DEF StreamIInv, Delivered, Framed, FollowedBy, Rest, Wires, WireOf, Wire
<1>24. Out' = Out
  BY <1>1 DEF Out, Data, Rest, Wires, WireOf, Wire, Framed
<1>25. Reads' => FollowedBy(Here', Ahead', alive', Out')
  <2> SUFFICES ASSUME Reads' PROVE FollowedBy(Here', Ahead', alive', Out')
    OBVIOUS
  <2>1. reading' = "body"
    BY <1>1, <1>2 DEF Reads
  <2>2. Ahead' = q /\ Here' = Tail(net)
    BY <1>1, <1>2, <1>12, <2>1 DEF Here, q
  <2>3. FollowedBy(Tail(net), q, alive, Out)
    BY <1>18, <1>19
  <2>4. FollowedBy(Tail(net), q, alive', Out')
    BY <1>1, <1>24, <2>3, FollowedWeaker
  <2>5. QED
    BY <2>2, <2>4
<1>26. QED
  BY <1>22, <1>23, <1>25, StreamNext

(* A body is read off whole: on_recv is given the next message. *)
LEMMA StreamBody ==
    ASSUME StreamIInv, SenderIInv', OnRecvCallback
    PROVE  /\ Delivered' /\ Reading' /\ Stream'
           /\ Framed /\ (got' = got \/ (Len(got) # Len(posted) /\ got' = Append(got, Body(posted[Len(got) + 1]))))
<1>1. reading = "body" /\ Len(net) >= need /\ net' = SubSeq(net, need + 1, Len(net)) /\ need' = 0
      /\ UNCHANGED <<kind, posted, taken, queue, sending, alive, closed>>
      /\ Received(Append(got, SubSeq(net, 1, need)))
  BY DEF OnRecvCallback, sender
<1>2. Framed /\ Framed' = Framed
  BY <1>1 DEF StreamIInv, Reading, Framed
<1>3. net \in Seq(Item) /\ posted \in Messages /\ Len(posted) \in Nat /\ Len(got) \in 0..Len(posted)
      /\ got \in Seq(Seq(Byte)) /\ \A i \in 1..Len(got) : got[i] = Body(posted[i])
  BY <1>2, StreamType DEF StreamIInv, Reading, Delivered
<1>4. PICK n \in 0..Len(posted) : n = Len(got)
  BY <1>3
<1> DEFINE b == Body(posted[n + 1])  r == Rest(n + 1)
<1>5. n # Len(posted) /\ need = Len(b)
  BY <1>1, <1>2, <1>4 DEF StreamIInv, Reading
<1>6. n + 1 \in 1..Len(posted) /\ n + 1 \in 0..Len(posted)
  BY <1>3, <1>5
<1>7. b \in Seq(Byte) /\ b \in Seq(Item) /\ Len(b) \in Nat /\ r \in Seq(Item)
  BY <1>3, <1>6, RestType, WireType, ElementOfSeq DEF Messages
<1>8. FollowedBy(net, b \o r, alive, Out)
  BY <1>1, <1>2, <1>4 DEF StreamIInv, Stream, Reads, Here, Ahead
<1>9. Out' = Out
  BY <1>1 DEF Out, Data, Rest, Wires, WireOf, Wire, Framed
<1>10. Rest(n + 1)' = r
  BY <1>1, RestSame
<1> HIDE DEF b, r
<1>11. SubSeq(net, 1, need) = b /\ FollowedBy(net', r, alive, Out)
  <2>1. Len(b) <= Len(net)
    BY <1>1, <1>5
  <2>2. SubSeq(net, 1, Len(b)) = b /\ FollowedBy(SubSeq(net, Len(b) + 1, Len(net)), r, alive, Out)
    BY <1>3, <1>7, <1>8, <2>1, FollowedRead
  <2>3. QED
    BY <1>1, <1>5, <2>2
<1>12. net' \in Seq(Item)
  <2>1. need \in 0..Len(net)
    BY <1>1, <1>3, <1>5, <1>7
  <2>2. QED
    BY <1>1, <1>3, <2>1, SplitAt
<1>13. \/ reading' = "no"
       \/ "receiver" \notin closed /\ reading' = "head"
       \/ "receiver" \in closed /\ reading' = "dead"
  BY <1>1, <1>2, DoRecvKinds DEF Received
<1>14. Reading'
  BY <1>1, <1>2, <1>12, <1>13 DEF Reading
<1>15. CASE "receiver" \in closed
  <2>1. got' = got
    BY <1>1, <1>15 DEF Received
  <2>2. ~Reads'
    BY <1>1, <1>2, <1>13, <1>15 DEF Reads
  <2>3. Delivered'
    BY <1>1, <2>1 DEF StreamIInv, Delivered, Framed, FollowedBy, Rest, Wires, WireOf, Wire
  <2>4. QED
    BY <1>2, <1>14, <2>1, <2>2, <2>3, StreamNext
<1>16. CASE "receiver" \notin closed
  <2>1. got' = Append(got, b)
    BY <1>1, <1>11, <1>16 DEF Received
  <2>2. got' \in Seq(Seq(Byte)) /\ Len(got') = n + 1 /\ got'[n + 1] = b /\ \A i \in 1..n : got'[i] = got[i]
    BY <1>3, <1>4, <1>7, <2>1, AppendProperties
  <2>3. \A i \in 1..Len(got') : got'[i] = Body(posted'[i])
    <3> TAKE i \in 1..Len(got')
    <3>1. i \in 1..n \/ i = n + 1
      BY <1>3, <2>2
    <3>2. CASE i \in 1..n
      BY <3>2, <1>1, <1>3, <1>4, <2>2
    <3>3. CASE i = n + 1
      BY <3>3, <1>1, <2>2 DEF b
    <3>4. QED
      BY <3>1, <3>2, <3>3
  <2>4. Delivered'
    BY <1>1, <1>2, <1>6, <2>2, <2>3 DEF Delivered
  <2>5. Ahead' = Rest(n + 1)'
    <3>1. reading' # "body"
      BY <1>13
    <3>2. QED
      BY <1>1, <1>2, <2>2, <3>1 DEF Ahead, Rest, Wires, WireOf, Wire, Framed
  <2>6. Here' = net'
    BY <1>2 DEF Here
  <2>7. FollowedBy(Here', Ahead', alive', Out')
    BY <1>1, <1>9, <1>10, <1>11, <2>5, <2>6
  <2>8. QED
    BY <1>2, <1>4, <1>5, <1>14, <2>1, <2>4, <2>7, StreamNext DEF b
<1>17. QED
  BY <1>15, <1>16
(* The stream of a raw connection holds bytes only, and is what was sent. *)
LEMMA RawWires ==
    ASSUME NEW p \in Messages, ~Framed
    PROVE  Wires(p) \in Seq(Byte) /\ Wires(p) = Body([i \in 1..Len(p) |-> Body(p[i])])
<1> DEFINE B == [i \in 1..Len(p) |-> Body(p[i])]
<1>1. \A i \in 1..Len(p) : Body(p[i]) \in Seq(Byte) /\ Wire(p[i]) = Body(p[i])
  BY WireType, ElementOfSeq DEF Messages
<1>2. Len(p) \in Nat
  BY DEF Messages
<1>3. WireOf(p) = B
  BY <1>1 DEF WireOf
<1>4. B \in Seq(Seq(Byte))
  BY <1>1, <1>2
<1> HIDE DEF B
<1>5. Body(B) \in Seq(Byte)
  BY <1>4, FlattenType DEF Body
<1>6. QED
  BY <1>3, <1>5 DEF Wires, B

(* The same for everything that was posted. *)
LEMMA RawBytes ==
    ASSUME posted \in Messages, ~Framed
    PROVE  /\ Rest(0) \in Seq(Byte)
           /\ Rest(0) = Body([i \in 1..Len(posted) |-> Body(posted[i])])
BY RawWires, RestEnd

(* A raw read gives on_recv the next bytes, however many there are. *)
LEMMA StreamSome ==
    ASSUME StreamIInv, SenderIInv', OnRecvSomeCallback
    PROVE  /\ Delivered' /\ Reading' /\ Stream' /\ ~Framed
           /\ got' = got \/ \E d \in Seq(Item) : d # << >> /\ got' = got \o d
<1>1. PICK k \in 1..RecvBuf : k <= Len(net) /\ net' = SubSeq(net, k + 1, Len(net))
                              /\ Received(got \o SubSeq(net, 1, k))
  BY DEF OnRecvSomeCallback
<1>2. reading = "some" /\ UNCHANGED <<kind, posted, taken, queue, sending, alive, need, closed>>
  BY DEF OnRecvSomeCallback, sender
<1>3. ~Framed /\ Framed' = Framed
  BY <1>2 DEF StreamIInv, Reading, Framed
<1>4. net \in Seq(Item) /\ need \in Nat /\ got \in Seq(Item) /\ posted \in Messages
      /\ got \in Seq(Byte) /\ FollowedBy(got, Rest(0), FALSE, << >>)
  BY <1>3, StreamType DEF StreamIInv, Reading, Delivered
<1> DEFINE h == SubSeq(net, 1, k)  c == SubSeq(net, k + 1, Len(net))
<1>5. k \in 0..Len(net) /\ k # 0
  BY <1>1, <1>4, ConstantsAssumption
<1>6. h \in Seq(Item) /\ c \in Seq(Item) /\ h \o c = net /\ Len(h) = k
  BY <1>4, <1>5, SplitAt
<1>7. net' = c /\ Received(got \o h)
  BY <1>1
<1> HIDE DEF h, c
<1>8. reading' \in {"no", "some"}
  BY <1>3, <1>7, DoRecvKinds DEF Received
<1>9. Reading'
  BY <1>2, <1>3, <1>4, <1>6, <1>7, <1>8 DEF Reading
<1>10. Out' = Out /\ Rest(0)' = Rest(0)
  BY <1>2 DEF Out, Data, Rest, Wires, WireOf, Wire, Framed
<1>11. Ahead = Rest(0) /\ Ahead' = Rest(0)'
  BY <1>3 DEF Ahead
<1>12. CASE "receiver" \in closed
  <2>1. got' = got
    BY <1>7, <1>12 DEF Received
  <2>2. ~Reads'
    BY <1>2, <1>3, <1>12 DEF Reads
  <2>3. Delivered'
    BY <1>2, <2>1 DEF StreamIInv, Delivered, Framed, FollowedBy, Rest, Wires, WireOf, Wire
  <2>4. QED
    BY <1>3, <1>9, <2>1, <2>2, <2>3, StreamNext
<1>13. CASE "receiver" \notin closed
  <2>1. got' = got \o h
    BY <1>7, <1>13 DEF Received
  <2>2. h \in Seq(Item) /\ c \in Seq(Item)
    BY <1>6
  <2>3. (got \o h) \o c = got \o (h \o c) /\ got \o h \in Seq(Item)
    BY <1>4, <2>2
  <2>4. Here' = (got \o h) \o c /\ Here = got \o (h \o c)
    BY <1>3, <1>6, <1>7, <2>1 DEF Here
  <2>5. FollowedBy((got \o h) \o c, Rest(0), alive, Out)
    BY <1>3, <1>11, <1>13, <2>3, <2>4 DEF StreamIInv, Stream, Reads
  <2>6. Stream'
    <3>1. FollowedBy(Here', Ahead', alive', Out')
      BY <1>2, <1>10, <1>11, <2>4, <2>5
    <3>2. QED
      BY <3>1, StreamNext
  <2> DEFINE a == got \o h
  <2>7. a \in Seq(Item) /\ FollowedBy(a \o c, Rest(0), alive, Out)
    BY <2>3, <2>5
  <2> HIDE DEF a
  <2>8. FollowedBy(a, Rest(0), FALSE, << >>)
    BY <2>2, <2>7, FollowedCut
  <2>9. a \in Seq(Byte)
    <3>1. PICK z \in Seq(Item) : a \o z = Rest(0)
      BY <2>8 DEF FollowedBy
    <3>2. a \o z \in Seq(Byte)
      BY <1>3, <1>4, <3>1, RawBytes
    <3>3. QED
      BY <2>7, <3>2, PrefixType
  <2>10. got' = a
    BY <2>1 DEF a
  <2>11. Delivered'
    BY <1>3, <1>10, <2>8, <2>9, <2>10 DEF Delivered, FollowedBy
  <2>12. h # << >>
    BY <1>5, <1>6
  <2>13. QED
    BY <1>3, <1>9, <2>1, <2>2, <2>6, <2>11, <2>12
<1>14. QED
  BY <1>12, <1>13

(* Every step keeps the stream. *)
LEMMA StreamStep ==
    ASSUME StreamIInv, [Next]_vars
    PROVE  StreamIInv'
<1>1. SenderIInv'
  BY SenderStep DEF StreamIInv
<1>2. ASSUME NEW n \in 1..MaxParts, NEW sizes \in [1..n -> Sizes], Send(sizes)
      PROVE  StreamIInv'
  BY <1>1, <1>2, StreamSend DEF StreamIInv
<1>3. CASE RunSend \/ OnSendCallback
  BY <1>1, <1>3, StreamRunSend DEF StreamIInv
<1>4. CASE WriteSome
  BY <1>1, <1>4, StreamWriteSome DEF StreamIInv
<1>5. CASE Fails
  <2>1. UNCHANGED <<kind, posted, got, reading, need, closed>> /\ alive' = FALSE
    BY <1>5 DEF Fails, sender, receiver
  <2>2. PICK k \in 0..Len(net) : net' = SubSeq(net, 1, k)
    BY <1>5 DEF Fails
  <2>3. QED
    BY <1>1, <2>1, <2>2, StreamCut DEF StreamIInv
<1>6. ASSUME NEW end \in {"sender", "receiver"}, Close(end)
      PROVE  StreamIInv'
  <2>1. UNCHANGED <<kind, posted, got, reading, need>> /\ alive' = FALSE /\ closed \subseteq closed'
    BY <1>6 DEF Close, sender, receiver
  <2>2. PICK k \in 0..Len(net) : net' = SubSeq(net, 1, k)
    BY <1>6 DEF Close
  <2>3. QED
    BY <1>1, <2>1, <2>2, StreamCut DEF StreamIInv
<1>7. CASE Start \/ RunDoRecv \/ ReadFails \/ (\E b \in BOOLEAN : BlockRecv(b))
  BY <1>1, <1>7, StreamDoRecv DEF StreamIInv
<1>8. CASE OnHeadRecvCallback
  BY <1>1, <1>8, StreamHead DEF StreamIInv
<1>9. CASE OnRecvCallback
  BY <1>1, <1>9, StreamBody DEF StreamIInv
<1>10. CASE OnRecvSomeCallback
  BY <1>1, <1>10, StreamSome DEF StreamIInv
<1>11. CASE UNCHANGED vars
  <2>1. UNCHANGED <<kind, posted, taken, queue, sending, net, alive, reading, need, got, closed>>
    BY <1>11 DEF vars
  <2>2. Out' = Out /\ Reads' = Reads
    BY <2>1 DEF Out, Data, Rest, Wires, WireOf, Wire, Framed, Reads
  <2>3. Delivered' /\ Stream'
    BY <1>1, <2>1, <2>2, StreamSame
  <2>4. Reading'
    BY <2>1 DEF StreamIInv, Reading, Framed
  <2>5. QED
    BY <1>1, <2>3, <2>4 DEF StreamIInv
<1>12. QED
  BY <1>2, <1>3, <1>4, <1>5, <1>6, <1>7, <1>8, <1>9, <1>10, <1>11 DEF Next, SendStep

(* The stream is empty at the beginning. *)
LEMMA StreamInit ==
    ASSUME Init
    PROVE  StreamIInv
<1>1. SenderIInv
  BY SenderInit
<1>2. Reading
  BY DEF Init, Reading
<1>3. posted = << >> /\ posted \in Messages /\ Len(posted) = 0
  BY DEF Init, Messages
<1>4. Rest(0) = << >>
  BY <1>3, RestEnd
<1>5. << >> \o << >> = << >>
  OBVIOUS
<1>6. << >> \in Seq(Item) /\ FollowedBy(<< >>, << >>, FALSE, << >>)
  <2> DEFINE e == << >>
  <2>1. e \in Seq(Item) /\ e \o e = e
    BY <1>5
  <2> HIDE DEF e
  <2>2. FollowedBy(e, e, FALSE, e)
    BY <2>1 DEF FollowedBy
  <2>3. QED
    BY <2>1, <2>2 DEF e
<1>7. Delivered
  <2>1. got = << >> /\ got \in Seq(Byte) /\ got \in Seq(Seq(Byte)) /\ Len(got) = 0
    BY DEF Init
  <2>2. FollowedBy(got, Rest(0), FALSE, << >>)
    BY <1>4, <1>6, <2>1
  <2>3. Len(got) <= Len(posted) /\ \A i \in 1..Len(got) : got[i] = Body(posted[i])
    <3> DEFINE n == Len(got)
    <3>1. n = 0
      BY <2>1
    <3> HIDE DEF n
    <3>2. n <= 0 /\ \A i \in 1..n : got[i] = Body(posted[i])
      BY <3>1
    <3>3. QED
      BY <1>3, <3>2 DEF n
  <2>4. QED
    BY <2>1, <2>2, <2>3, Zenon DEF Delivered
<1>8. Out = << >>
  <2>1. Body(sending) = << >> /\ Body(Data(queue)) = << >> /\ taken = 0
    BY FlattenEmpty DEF Init, Body, NoPacket, Data
  <2>2. QED
    BY <1>4, <1>5, <2>1 DEF Out
<1>9. Here = << >> /\ Ahead = << >>
  <2>1. net = << >> /\ got = << >> /\ Len(got) = 0 /\ reading = "no"
    BY DEF Init
  <2>2. QED
    BY <1>4, <1>5, <2>1 DEF Here, Ahead
<1>10. Stream
  BY <1>5, <1>6, <1>8, <1>9 DEF Stream, FollowedBy
<1>11. QED
  BY <1>1, <1>2, <1>7, <1>10 DEF StreamIInv
----------------------------------------------------------------------------
(* The rest of the receiving end's state. *)
LEMMA ControlStep ==
    ASSUME Control, [Next]_vars
    PROVE  Control'
<1> USE ConstantsAssumption
<1>1. CASE UNCHANGED <<started, wakes, crashed>>
  BY <1>1 DEF Control
<1>2. ASSUME NEW R, DoRecv(R)
      PROVE  crashed' \in {crashed, "read"}
  BY <1>2 DEF DoRecv, Allocated
<1>3. CASE RunSend
  BY <1>3 DEF RunSend, Control, receiver
<1>4. CASE Start
  <2>1. crashed' \in {crashed, "read", "option"}
    BY <1>2, <1>4 DEF Start
  <2>2. QED
    BY <1>4, <2>1 DEF Start, Control
<1>5. CASE RunDoRecv
  <2>1. crashed' \in {crashed, "read"}
    BY <1>2, <1>5 DEF RunDoRecv
  <2>2. wakes' \in 0..MaxWakes
    BY <1>5 DEF RunDoRecv, Control
  <2>3. QED
    BY <1>5, <2>1, <2>2 DEF RunDoRecv, Control
<1>6. CASE OnRecvCallback
  <2>1. crashed' \in {crashed, "read"}
    BY <1>2, <1>6 DEF OnRecvCallback, Received
  <2>2. QED
    BY <1>6, <2>1 DEF OnRecvCallback, Control
<1>7. CASE OnRecvSomeCallback
  <2>1. crashed' \in {crashed, "read"}
    BY <1>2, <1>7 DEF OnRecvSomeCallback, Received
  <2>2. QED
    BY <1>7, <2>1 DEF OnRecvSomeCallback, Control
<1>8. ASSUME NEW b \in BOOLEAN, BlockRecv(b)
      PROVE  Control'
  BY <1>8 DEF BlockRecv, Control
<1>9. CASE \/ SendStep \/ WriteSome \/ OnSendCallback \/ OnHeadRecvCallback \/ ReadFails \/ Fails
           \/ (\E end \in {"sender", "receiver"} : Close(end)) \/ UNCHANGED vars
  <2>1. UNCHANGED <<started, wakes, crashed>>
    BY <1>9 DEF SendStep, Send, WriteSome, OnSendCallback, OnHeadRecvCallback, ReadFails, Fails, Close, vars, receiver
  <2>2. QED
    BY <2>1, <1>1
<1>10. QED
  BY <1>3, <1>4, <1>5, <1>6, <1>7, <1>8, <1>9 DEF Next

(* The whole of the connection's inductive invariant. *)
TcpIInv == StreamIInv /\ BlockIInv /\ Control

(* It always holds. *)
LEMMA TcpInvariant ==
    Spec => []TcpIInv
<1>1. Init => TcpIInv
  <2> SUFFICES ASSUME Init PROVE TcpIInv
    OBVIOUS
  <2>1. BlockIInv
    BY DEF Init, BlockIInv
  <2>2. Control
    <3>1. started = FALSE /\ wakes = 0 /\ crashed = "no"
      BY DEF Init
    <3>2. wakes \in 0..MaxWakes
      BY <3>1, ConstantsAssumption
    <3>3. QED
      BY <3>1, <3>2 DEF Control
  <2>3. QED
    BY <2>1, <2>2, StreamInit DEF TcpIInv
<1>2. TcpIInv /\ [Next]_vars => TcpIInv'
  BY StreamStep, BlockStep, ControlStep DEF TcpIInv
<1>3. QED
  BY <1>1, <1>2, PTL DEF Spec

(* Every variable keeps its type; above all, packet_length is a length: a    *)
(* TCPConnection never takes the bytes of a message for a header             *)
(* (tcpconnection.hpp, __OnHeadRecvCallback).                                *)
THEOREM ConnectionTypeCorrect ==
    Spec => []TypeOK
<1>1. TcpIInv => TypeOK
  <2> SUFFICES ASSUME TcpIInv PROVE TypeOK
    OBVIOUS
  <2>1. /\ kind \in Kinds /\ started \in BOOLEAN
        /\ posted \in Seq(Seq(Seq(Byte))) /\ taken \in 0..Len(posted)
        /\ net \in Seq(Item) /\ alive \in BOOLEAN /\ need \in Nat /\ wakes \in 0..MaxWakes
        /\ closed \subseteq {"sender", "receiver"} /\ crashed \in {"no", "sendv", "read", "option"}
    BY DEF TcpIInv, StreamIInv, SenderIInv, Posts, Ends, Reading, Control
  <2>2. queue \in Seq([data : Seq(Item), pfn : BOOLEAN]) /\ Len(sending) <= 1
    BY DEF TcpIInv, StreamIInv, SenderIInv, Sends, Packet
  <2>3. sending \in Seq(Seq(Item))
    BY OutType DEF TcpIInv, StreamIInv
  <2>4. called \in 0..MaxMessages
    <3>1. called \in Nat /\ taken \in 0..Len(posted) /\ Len(posted) <= MaxMessages /\ Len(posted) \in Nat
      BY DEF TcpIInv, StreamIInv, SenderIInv, Sends, Posts
    <3>2. called <= taken
      BY WaitingFrom DEF TcpIInv, StreamIInv
    <3>3. QED
      BY <3>1, <3>2, ConstantsAssumption
  <2>5. reading \in {"no", "head", "body", "some", "dead"}
    BY DEF TcpIInv, StreamIInv, Reading
  <2>6. blocking \in BOOLEAN /\ since \in Nat
    BY DEF TcpIInv, BlockIInv
  <2>7. got \in IF Framed THEN Seq(Seq(Byte)) ELSE Seq(Byte)
    BY DEF TcpIInv, StreamIInv, Delivered
  <2>8. QED
    BY <2>1, <2>2, <2>3, <2>4, <2>5, <2>6, <2>7 DEF TypeOK
<1>2. QED
  BY <1>1, TcpInvariant, PTL
----------------------------------------------------------------------------
(* The refinement of FifoChannel. *)
Sent == IF Framed THEN [i \in 1..Len(posted) |-> Body(posted[i])]
        ELSE Body([i \in 1..Len(posted) |-> Body(posted[i])])

(* What was sent, as the channel sees it. *)
LEMMA SentIs ==
    ASSUME StreamIInv
    PROVE  /\ Framed => /\ Sent \in Seq(Seq(Byte)) /\ Len(Sent) = Len(posted)
                        /\ \A i \in 1..Len(posted) : Sent[i] = Body(posted[i])
           /\ ~Framed => Sent = Rest(0) /\ Sent \in Seq(Item)
<1>1. posted \in Messages /\ Len(posted) \in Nat
  BY StreamType
<1>2. \A i \in 1..Len(posted) : Body(posted[i]) \in Seq(Byte)
  BY <1>1, WireType, ElementOfSeq DEF Messages
<1>3. Framed => /\ Sent \in Seq(Seq(Byte)) /\ Len(Sent) = Len(posted)
                /\ \A i \in 1..Len(posted) : Sent[i] = Body(posted[i])
  BY <1>1, <1>2 DEF Sent
<1>4. ~Framed => Sent = Rest(0) /\ Rest(0) \in Seq(Item)
  BY <1>1, RawBytes, RestType DEF Sent
<1>5. QED
  BY <1>3, <1>4

(* A sequence and what was added to it. *)
LEMMA AddedTo ==
    ASSUME NEW S, NEW a \in Seq(S), NEW d \in Seq(S)
    PROVE  Len(a \o d) = Len(a) + Len(d) /\ SubSeq(a \o d, 1, Len(a)) = a
<1> DEFINE w == a \o d  n == Len(a)  s == SubSeq(w, 1, n)
<1>1. w \in Seq(S) /\ Len(w) = n + Len(d) /\ n \in Nat /\ Len(d) \in Nat /\ \A i \in 1..n : w[i] = a[i]
  BY ConcatProperties
<1> HIDE DEF w, n
<1>2. n \in 0..Len(w)
  BY <1>1
<1>3. s \in Seq(S) /\ Len(s) = n /\ \A i \in 1..n : s[i] = w[i]
  BY <1>1, <1>2
<1> HIDE DEF s
<1>4. s = a
  BY <1>1, <1>3, SeqEqual DEF n
<1>5. QED
  BY <1>1, <1>4 DEF s, w, n

(* Send sends. *)
LEMMA SendSends ==
    ASSUME StreamIInv, StreamIInv', NEW n \in 1..MaxParts, NEW sizes \in [1..n -> Sizes], Send(sizes)
    PROVE  Len(Sent') >= Len(Sent) /\ SubSeq(Sent', 1, Len(Sent)) = Sent /\ got' = got
<1> DEFINE m == Message(Len(posted) + 1, sizes)  l == Len(posted)
<1>1. l \in Nat /\ l + 1 \in 1..MaxMessages /\ posted \in Messages
  BY StreamType, ConstantsAssumption DEF Send
<1>2. m \in Seq(Seq(Byte))
  <2>1. m \in Seq(Seq(Of(l + 1)))
    BY <1>1, MessageOf
  <2>2. Seq(Of(l + 1)) \subseteq Seq(Byte)
    BY <1>1, BytesFrom, SeqMonotonic
  <2>3. QED
    BY <2>1, <2>2, SeqMonotonic
<1>3. posted' = Append(posted, m) /\ UNCHANGED <<kind, got>> /\ Framed' = Framed
  BY DEF Send, receiver, Framed
<1> HIDE DEF m
<1>4. Len(posted') = l + 1 /\ posted'[l + 1] = m /\ \A i \in 1..l : posted'[i] = posted[i]
  BY <1>1, <1>2, <1>3, AppendProperties DEF Messages
<1>5. CASE Framed
  <2>1. Sent \in Seq(Seq(Byte)) /\ Len(Sent) = l /\ \A i \in 1..l : Sent[i] = Body(posted[i])
    BY <1>5, SentIs
  <2>2. Sent' = [i \in 1..l + 1 |-> Body(posted'[i])]
    BY <1>3, <1>4, <1>5 DEF Sent
  <2> DEFINE t == [i \in 1..l + 1 |-> Body(posted'[i])]  s == SubSeq(t, 1, l)
  <2>3. \A i \in 1..l + 1 : Body(posted'[i]) \in Seq(Byte)
    <3>1. posted' \in Messages
      BY <1>1, <1>2, <1>3, AppendProperties DEF Messages
    <3>2. \A i \in 1..l + 1 : posted'[i] \in Seq(Seq(Byte))
      BY <1>4, <3>1 DEF Messages
    <3>3. QED
      BY <3>2, WireType
  <2>4. t \in Seq(Seq(Byte)) /\ Len(t) = l + 1 /\ \A i \in 1..l + 1 : t[i] = Body(posted'[i])
    BY <1>1, <2>3
  <2> HIDE DEF t, l
  <2>5. s \in Seq(Seq(Byte)) /\ Len(s) = l /\ \A i \in 1..l : s[i] = t[i]
    BY <1>1, <2>4
  <2> HIDE DEF s
  <2>6. \A i \in 1..l : s[i] = Sent[i]
    <3> TAKE i \in 1..l
    <3>1. i \in 1..l + 1
      BY <1>1
    <3>2. QED
      BY <1>4, <2>1, <2>4, <2>5, <3>1
  <2>7. s = Sent
    BY <2>1, <2>5, <2>6, SeqEqual
  <2>8. Sent' = t /\ SubSeq(t, 1, l) = Sent
    BY <2>2, <2>7 DEF s, t
  <2>9. Len(Sent') >= Len(Sent)
    BY <1>1, <2>1, <2>4, <2>8
  <2>10. SubSeq(Sent', 1, Len(Sent)) = Sent
    BY <2>1, <2>8
  <2>11. QED
    BY <1>3, <2>9, <2>10
<1>6. CASE ~Framed
  <2>1. Sent = Rest(0) /\ Rest(0) \in Seq(Item)
    BY <1>6, SentIs
  <2>2. PICK p : p = posted'
    OBVIOUS
  <2>3. Sent' = Sent \o Wire(m)
    <3>1. p \in Messages /\ p = Append(posted, m)
      BY <1>1, <1>2, <1>3, <2>2, AppendProperties DEF Messages
    <3>2. Sent' = Body([i \in 1..Len(p) |-> Body(p[i])])
      BY <1>3, <1>6, <2>2 DEF Sent
    <3>3. Wires(p) = Body([i \in 1..Len(p) |-> Body(p[i])])
      BY <1>6, <3>1, RawWires
    <3>4. Wires(p) = Wires(posted) \o Wire(m)
      BY <1>1, <1>2, <3>1, WiresAppend
    <3>5. Wires(posted) = Rest(0)
      BY <1>1, RestEnd
    <3>6. QED
      BY <2>1, <3>2, <3>3, <3>4, <3>5
  <2>4. Wire(m) \in Seq(Item)
    BY <1>2, WireType
  <2>5. Sent \in Seq(Item)
    BY <2>1
  <2>6. Len(Sent') = Len(Sent) + Len(Wire(m)) /\ SubSeq(Sent', 1, Len(Sent)) = Sent
    BY <2>3, <2>4, <2>5, AddedTo
  <2>7. Len(Wire(m)) \in Nat /\ Len(Sent) \in Nat
    BY <2>1, <2>4
  <2>8. QED
    BY <1>3, <2>6, <2>7
<1>7. QED
  BY <1>5, <1>6
(* Nothing but Send changes what was sent. *)
LEMMA SentSame ==
    ASSUME UNCHANGED <<kind, posted>>
    PROVE  Sent' = Sent
BY DEF Sent, Framed

(* What on_recv is given next is the next of what was sent. *)
LEMMA BodyDelivers ==
    ASSUME StreamIInv, StreamIInv', OnRecvCallback
    PROVE  Sent' = Sent /\ (got' = got \/ \E k \in Len(got) + 1 .. Len(Sent) : got' = SubSeq(Sent, 1, k))
<1>1. Sent' = Sent
  BY SentSame DEF OnRecvCallback, sender
<1>2. Framed /\ (got' = got \/ (Len(got) # Len(posted) /\ got' = Append(got, Body(posted[Len(got) + 1]))))
  BY StreamBody DEF StreamIInv
<1>3. SUFFICES ASSUME Len(got) # Len(posted), got' = Append(got, Body(posted[Len(got) + 1]))
               PROVE  \E k \in Len(got) + 1 .. Len(Sent) : got' = SubSeq(Sent, 1, k)
  BY <1>1, <1>2
<1> DEFINE n == Len(got)  b == Body(posted[n + 1])  l == Len(posted)  k == n + 1
<1>4. n \in 0..l /\ l \in Nat /\ got \in Seq(Seq(Byte)) /\ \A i \in 1..n : got[i] = Body(posted[i])
  BY <1>2, StreamType DEF StreamIInv, Delivered
<1>5. Sent \in Seq(Seq(Byte)) /\ Len(Sent) = l /\ \A i \in 1..l : Sent[i] = Body(posted[i])
  BY <1>2, SentIs
<1>6. k \in 1..l /\ k \in n + 1 .. l
  BY <1>3, <1>4
<1>7. b = Sent[k] /\ b \in Seq(Byte)
  BY <1>5, <1>6, ElementOfSeq
<1>8. got' = Append(got, b)
  BY <1>3
<1> HIDE DEF b
<1>9. got' \in Seq(Seq(Byte)) /\ Len(got') = n + 1 /\ got'[n + 1] = b /\ \A i \in 1..n : got'[i] = got[i]
  BY <1>4, <1>7, <1>8, AppendProperties
<1> DEFINE g == got'  s == SubSeq(Sent, 1, k)
<1>10. s \in Seq(Seq(Byte)) /\ Len(s) = k /\ \A i \in 1..k : s[i] = Sent[i]
  BY <1>5, <1>6
<1>11. g \in Seq(Seq(Byte)) /\ Len(g) = k
  BY <1>9
<1> HIDE DEF g, s, n, l
<1>12. \A i \in 1..k : g[i] = s[i]
  <2> TAKE i \in 1..k
  <2>1. CASE i = k
    BY <2>1, <1>7, <1>9, <1>10 DEF g
  <2>2. CASE i # k
    <3>1. i \in 1..n /\ i \in 1..l
      BY <1>4, <2>2
    <3>2. QED
      BY <1>4, <1>5, <1>9, <1>10, <3>1 DEF g
  <2>3. QED
    BY <2>1, <2>2
<1>13. g = s
  BY <1>10, <1>11, <1>12, SeqEqual
<1>14. QED
  BY <1>5, <1>6, <1>13 DEF g, s, n, l

(* The same for the bytes of a raw connection. *)
LEMMA SomeDelivers ==
    ASSUME StreamIInv, StreamIInv', OnRecvSomeCallback
    PROVE  Sent' = Sent /\ (got' = got \/ \E k \in Len(got) + 1 .. Len(Sent) : got' = SubSeq(Sent, 1, k))
<1>1. Sent' = Sent /\ UNCHANGED <<kind, posted>>
  BY SentSame DEF OnRecvSomeCallback, sender
<1>2. ~Framed /\ (got' = got \/ \E d \in Seq(Item) : d # << >> /\ got' = got \o d)
  BY StreamSome DEF StreamIInv
<1>3. SUFFICES ASSUME NEW d \in Seq(Item), d # << >>, got' = got \o d
               PROVE  \E k \in Len(got) + 1 .. Len(Sent) : got' = SubSeq(Sent, 1, k)
  BY <1>1, <1>2
<1>4. got \in Seq(Item) /\ Sent = Rest(0)
  BY <1>2, SentIs, StreamType
<1>5. Rest(0)' = Rest(0) /\ Framed' = Framed
  BY <1>1, RestSame DEF Framed
<1>6. FollowedBy(got', Rest(0), FALSE, << >>)
  BY <1>2, <1>5 DEF StreamIInv, Delivered, FollowedBy
<1> DEFINE g == got'  k == Len(g)
<1>7. g \in Seq(Item) /\ Len(g) = Len(got) + Len(d)
  BY <1>3, <1>4, ConcatProperties
<1>8. PICK z \in Seq(Item) : g \o z = Sent
  BY <1>4, <1>6 DEF FollowedBy
<1> HIDE DEF g
<1>9. Len(Sent) = k + Len(z) /\ SubSeq(Sent, 1, k) = g
  BY <1>7, <1>8, AddedTo
<1>10. Len(got) \in Nat /\ Len(d) \in Nat \ {0} /\ Len(z) \in Nat
  BY <1>3, <1>4, EmptySeq
<1>11. k \in Len(got) + 1 .. Len(Sent)
  BY <1>7, <1>9, <1>10
<1>12. QED
  BY <1>9, <1>11 DEF g

(* Everything else leaves both ends of the channel alone. *)
LEMMA OthersStutter ==
    ASSUME \/ RunSend \/ WriteSome \/ OnSendCallback \/ Start \/ RunDoRecv \/ OnHeadRecvCallback
           \/ ReadFails \/ (\E b \in BOOLEAN : BlockRecv(b))
           \/ Fails \/ (\E end \in {"sender", "receiver"} : Close(end)) \/ UNCHANGED vars
    PROVE  Sent' = Sent /\ got' = got
<1>1. UNCHANGED <<kind, posted, got>>
  BY DEF RunSend, WriteSome, OnSendCallback, Start, RunDoRecv, OnHeadRecvCallback, ReadFails,
         BlockRecv, Fails, Close, vars, sender, receiver
<1>2. QED
  BY <1>1, SentSame

(* The connection implements the FIFO channel: whole messages in order on a   *)
(* framed connection, bytes in order on a raw one, for every way of splitting *)
(* packets, of blocking and resuming reads, and of failing or closing         *)
(* (tcpconnection.hpp and rawtcpconnection.hpp, from Send to on_recv).        *)
THEOREM ConnectionIsFifo ==
    Spec => DeliversInOrder
<1>1. Init => Channel!Init
  <2> SUFFICES ASSUME Init PROVE Channel!Init
    OBVIOUS
  <2>1. posted = << >> /\ got = << >>
    BY DEF Init
  <2>2. [i \in 1..Len(posted) |-> Body(posted[i])] = << >>
    BY <2>1
  <2>3. Body(<< >>) = << >>
    BY FlattenEmpty DEF Body
  <2>4. Sent = << >>
    BY <2>2, <2>3 DEF Sent
  <2>5. QED
    BY <2>1, <2>4 DEF Channel!Init, Sent
<1>2. StreamIInv /\ StreamIInv' /\ [Next]_vars => [Channel!Next]_<<Sent, got>>
  <2> SUFFICES ASSUME StreamIInv, StreamIInv', [Next]_vars
               PROVE  [Channel!Next]_<<Sent, got>>
    OBVIOUS
  <2>1. ASSUME NEW n \in 1..MaxParts, NEW sizes \in [1..n -> Sizes], Send(sizes)
        PROVE  Channel!Send
    <3>1. Len(Sent') >= Len(Sent) /\ SubSeq(Sent', 1, Len(Sent)) = Sent /\ got' = got
      BY <2>1, SendSends
    <3>2. QED
      BY <3>1 DEF Channel!Send, Sent
  <2>2. ASSUME Sent' = Sent, \E k \in Len(got) + 1 .. Len(Sent) : got' = SubSeq(Sent, 1, k)
        PROVE  Channel!Deliver
    BY <2>2 DEF Channel!Deliver, Sent
  <2>3. CASE SendStep
    BY <2>1, <2>3 DEF SendStep, Channel!Next
  <2>4. CASE OnRecvCallback
    BY <2>2, <2>4, BodyDelivers DEF Channel!Next
  <2>5. CASE OnRecvSomeCallback
    BY <2>2, <2>5, SomeDelivers DEF Channel!Next
  <2>6. CASE \/ RunSend \/ WriteSome \/ OnSendCallback \/ Start \/ RunDoRecv \/ OnHeadRecvCallback
             \/ ReadFails \/ (\E b \in BOOLEAN : BlockRecv(b))
             \/ Fails \/ (\E end \in {"sender", "receiver"} : Close(end)) \/ UNCHANGED vars
    BY <2>6, OthersStutter
  <2>7. QED
    BY <2>3, <2>4, <2>5, <2>6 DEF Next
<1>3. TcpIInv => StreamIInv
  BY DEF TcpIInv
<1>4. Spec => Channel!Init /\ [][Channel!Next]_<<Sent, got>>
  BY <1>1, <1>2, <1>3, TcpInvariant, PTL DEF Spec
<1>5. QED
  BY <1>4, PTL DEF DeliversInOrder, Channel!Spec, Sent
=============================================================================
