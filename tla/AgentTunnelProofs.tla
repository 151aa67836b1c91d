------------------------- MODULE AgentTunnelProofs -------------------------
(***************************************************************************)
(* Proofs about Agent that need the relay to give every user a number of   *)
(* its own: ~IdsRestart.  It does as long as another agent of the same     *)
(* service port stays bound (r-nat-s/app1/tunnel.cpp drops the listener,   *)
(* and with it the numbering, with the last agent only).                   *)
(***************************************************************************)
EXTENDS AgentProofs

----------------------------------------------------------------------------
(* The events whose order matters.  The end of a tunnel is in the strand      *)
(* first as its on_disconnect, then as the lambda that starts the next one.   *)
Connects(e) == e.ev = "CONNECT"
Ends(e)     == e.ev = "disconnect" /\ e.on \in Tunnels
Restarts(e) == e.ev = "reconnect"
Final(e)    == Ends(e) \/ Restarts(e)
OfUser(e)   == e.ev \in {"recv", "disconnect"} /\ e.on[1] = "user"
Marks(e)    == Connects(e) \/ Final(e) \/ OfUser(e)

(* No two sessions have the same user, and a user is announced once. *)
ToldUsers == {u \in Users : \E n \in 1..tunnel : <<n, u>> \in told}
UsersUnique ==
    /\ \A s \in 1..nses : ses[s].user \in ToldUsers
    /\ \A s, t \in 1..nses : ses[s].user = ses[t].user => s = t
    /\ \A i \in 1..Len(strand) : Connects(strand[i]) =>
          strand[i].user \in ToldUsers /\ \A s \in 1..nses : ses[s].user # strand[i].user
    /\ \A i, j \in 1..Len(strand) :
          Connects(strand[i]) /\ Connects(strand[j]) /\ strand[i].user = strand[j].user => i = j

(* Earlier tunnels are closed, later ones not started. *)
TunnelStates ==
    /\ \A n \in 1..MaxTunnels : n < tunnel => conn[TunConn(n)] \in Ended
    /\ \A n \in 1..MaxTunnels : n > tunnel => conn[TunConn(n)] = "none"

(* The end of the tunnel is in the strand at most once, when the tunnel has   *)
(* ended; once the users are dropped, users_ has only sessions whose CONNECT  *)
(* came too late, and only their services have events behind the lambda.      *)
EndsInOrder ==
    /\ \A i \in 1..Len(strand) : Final(strand[i]) => conn[TunConn(tunnel)] \in {"late", "shut", "failed"}
    /\ \A i, j \in 1..Len(strand) : Final(strand[i]) /\ Final(strand[j]) => i = j
    /\ \A i \in 1..Len(strand) : Ends(strand[i]) => strand[i].on = TunConn(tunnel)
    /\ \A i \in 1..Len(strand) : Restarts(strand[i]) =>
          /\ strand[i] = Ev("reconnect", TunConn(tunnel))
          /\ \A u \in DOMAIN users : ses[users[u]].late
          /\ \A j \in 1..Len(strand) : j > i /\ OfUser(strand[j]) => ses[strand[j].on[2]].late

(* Sessions in users_, and events of a service that wait, are of this tunnel  *)
(* or of a CONNECT that came too late.                                        *)
OfThisTunnel ==
    /\ \A u \in DOMAIN users : ses[users[u]].late \/ ses[users[u]].tun = tunnel
    /\ \A i \in 1..Len(strand) : OfUser(strand[i]) =>
          ses[strand[i].on[2]].late \/ ses[strand[i].on[2]].tun = tunnel

(* What is posted to a connection about a session is of that connection. *)
Own(c, s) == c = SesConn(s) \/ c = TunConn(ses[s].tun) \/ ses[s].late
IoIsOwn == \A c \in Framed : \A i \in 1..Len(io[c]) :
               io[c][i].cmd # "BIND" => Own(c, io[c][i].ses)

Order == UsersUnique /\ TunnelStates /\ EndsInOrder /\ OfThisTunnel
OwnIInv == Order /\ NoConnectionForgotten /\ IoIsOwn /\ SpeaksOnOwnConnections
----------------------------------------------------------------------------
(* How a step moves the events: the marked ones were in the strand before,    *)
(* d places further back.                                                     *)
Carries(d) == \A j \in 1..Len(strand') : Marks(strand'[j]) =>
                 j + d \in 1..Len(strand) /\ strand'[j] = strand[j + d]
CarriesEnds(d) == \A j \in 1..Len(strand') : Final(strand'[j]) \/ OfUser(strand'[j]) =>
                     j + d \in 1..Len(strand) /\ strand'[j] = strand[j + d]
CarriesConnects(d) == \A j \in 1..Len(strand') : Connects(strand'[j]) =>
                         j + d \in 1..Len(strand) /\ strand'[j] = strand[j + d]

(* What is posted is at the end, what is taken was at the beginning. *)
LEMMA Posted ==
    ASSUME Shape, NEW e, Post(e)
    PROVE  /\ Len(strand) \in Nat /\ Len(strand') = Len(strand) + 1
           /\ strand'[Len(strand) + 1] = e
           /\ \A j \in 1..Len(strand) : strand'[j] = strand[j]
<1>1. strand \in Seq(LiveEvent(nses))
  BY DEF Shape
<1>2. QED
  BY <1>1 DEF Post

(* What the strand holds once an event is taken. *)
LEMMA Popped ==
    ASSUME Shape, strand # << >>, Pop
    PROVE  /\ Len(strand) \in Nat /\ 1 \in 1..Len(strand) /\ strand[1] = Head(strand)
           /\ Len(strand') = Len(strand) - 1
           /\ \A j \in 1..Len(strand') : j + 1 \in 1..Len(strand) /\ strand'[j] = strand[j + 1]
<1>1. strand \in Seq(LiveEvent(nses))
  BY DEF Shape
<1>2. QED
  BY <1>1 DEF Pop

(* A posted event that marks no end keeps the marks where they are, *)
LEMMA PostCarries ==
    ASSUME Shape, NEW e, Post(e), ~Marks(e)
    PROVE  Carries(0)
<1>1. SUFFICES ASSUME NEW j \in 1..Len(strand'), Marks(strand'[j])
               PROVE  j \in 1..Len(strand) /\ strand'[j] = strand[j]
  BY DEF Carries
<1>2. j # Len(strand) + 1
  BY <1>1, Posted
<1>3. j \in 1..Len(strand)
  BY <1>2, Posted
<1>4. QED
  BY <1>3, Posted

(* taking the first event moves them by one, *)
LEMMA PopCarries ==
    ASSUME Shape, strand # << >>, Pop
    PROVE  Carries(1)
BY Popped DEF Carries

(* and an unchanged strand keeps them. *)
LEMMA SameCarries ==
    ASSUME Shape, UNCHANGED strand
    PROVE  Carries(0)
<1>1. strand \in Seq(LiveEvent(nses))
  BY DEF Shape
<1>2. Len(strand) \in Nat
  BY <1>1
<1>3. QED
  BY <1>2 DEF Carries

(* Which events are marked. *)
LEMMA MarkCases ==
    /\ \A c : ~Marks(Ev("connect", c))
    /\ \A c, u : ~Marks(R2AMsg("DATA", c, u)) /\ ~Marks(R2AMsg("DISCONNECT", c, u))
    /\ \A s : ~Marks(Ev("disconnect", SesConn(s)))
    /\ \A s : /\ OfUser(Ev("recv", UserConn(s))) /\ OfUser(Ev("disconnect", UserConn(s)))
              /\ ~Final(Ev("recv", UserConn(s))) /\ ~Final(Ev("disconnect", UserConn(s)))
              /\ ~Connects(Ev("recv", UserConn(s))) /\ ~Connects(Ev("disconnect", UserConn(s)))
    /\ \A c \in Tunnels : /\ Ends(Ev("disconnect", c)) /\ ~Restarts(Ev("disconnect", c))
                          /\ ~Connects(Ev("disconnect", c)) /\ ~OfUser(Ev("disconnect", c))
    /\ \A c : /\ Restarts(Ev("reconnect", c)) /\ ~Ends(Ev("reconnect", c))
              /\ ~Connects(Ev("reconnect", c)) /\ ~OfUser(Ev("reconnect", c))
    /\ \A c, u : /\ Connects(R2AMsg("CONNECT", c, u)) /\ ~Final(R2AMsg("CONNECT", c, u))
                 /\ ~OfUser(R2AMsg("CONNECT", c, u))
BY EventFields, TunnelsApart, Names DEF Marks, Connects, Final, Ends, Restarts, OfUser

(* An event of a service names a session. *)
LEMMA OfUserNames ==
    ASSUME Shape, NEW i \in 1..Len(strand), OfUser(strand[i])
    PROVE  \E s \in 1..nses : strand[i].on = UserConn(s) /\ strand[i].on[2] = s
<1>0. strand \in Seq(LiveEvent(nses))
  BY DEF Shape
<1>1. strand[i] \in LiveEvent(nses)
  BY <1>0
<1>2. strand[i].on \in Tunnels \cup SesConns(nses) \cup UserConns(nses)
  BY <1>1, EventCases DEF OfUser
<1>3. \A c \in SesConns(nses) : c[1] = "session"
  BY Connections, Names
<1>4. strand[i].on \in UserConns(nses)
  BY <1>2, <1>3, TunnelsApart DEF OfUser
<1>5. QED
  BY <1>4, Connections, Names

----------------------------------------------------------------------------
(* Most steps make no session and announce no user, only drop users, and add  *)
(* no marked event.  A session is always of the CONNECT that made it.         *)
OriginStays == \A s \in 1..nses : ses'[s].tun = ses[s].tun /\ ses'[s].late = ses[s].late
UsersStay == /\ UNCHANGED nses /\ ToldUsers \subseteq ToldUsers'
             /\ \A s \in 1..nses : ses'[s].user = ses[s].user
SessionsStay == UNCHANGED <<tunnel, told>> /\ UsersStay /\ OriginStays
UsersShrink == /\ DOMAIN users' \subseteq DOMAIN users
               /\ \A u \in DOMAIN users' : users'[u] = users[u]
TunnelsStay == \A c \in Tunnels : \/ conn'[c] = conn[c]
                                  \/ conn[c] = "late" /\ conn'[c] = "failed"
                                  \/ conn[c] = "connecting" /\ conn'[c] = "up"
QuietStep == SessionsStay /\ UsersShrink /\ TunnelsStay /\ (Carries(0) \/ Carries(1))

(* A user number announced twice stays the only way to two sessions of one user. *)
LEMMA UsersUniqueKept ==
    ASSUME Shape, UsersUnique, Shape', UsersStay, NEW d \in {0, 1}, CarriesConnects(d)
    PROVE  UsersUnique'
<1>1. ToldUsers \subseteq ToldUsers'
  BY DEF UsersStay
<1>2. /\ \A s \in 1..nses' : ses'[s].user \in ToldUsers'
      /\ \A s, t \in 1..nses' : ses'[s].user = ses'[t].user => s = t
  BY <1>1 DEF UsersUnique, UsersStay
<1>3. \A j \in 1..Len(strand') : Connects(strand'[j]) =>
          j + d \in 1..Len(strand) /\ strand'[j] = strand[j + d]
  BY DEF CarriesConnects
<1>4. \A i \in 1..Len(strand') : Connects(strand'[i]) =>
          strand'[i].user \in ToldUsers' /\ \A s \in 1..nses' : ses'[s].user # strand'[i].user
  <2>1. SUFFICES ASSUME NEW i \in 1..Len(strand'), Connects(strand'[i])
                 PROVE  strand[i + d].user \in ToldUsers' /\ \A s \in 1..nses' : ses'[s].user # strand[i + d].user
    BY <1>3
  <2>2. i + d \in 1..Len(strand) /\ Connects(strand[i + d])
    BY <1>3, <2>1
  <2>3. strand[i + d].user \in ToldUsers /\ \A s \in 1..nses : ses[s].user # strand[i + d].user
    BY <2>2 DEF UsersUnique
  <2>4. QED
    BY <1>1, <2>3 DEF UsersStay
<1>5. \A i, j \in 1..Len(strand') :
          Connects(strand'[i]) /\ Connects(strand'[j]) /\ strand'[i].user = strand'[j].user => i = j
  <2>1. SUFFICES ASSUME NEW i \in 1..Len(strand'), NEW j \in 1..Len(strand'), Connects(strand'[i]),
                        Connects(strand'[j]), strand'[i].user = strand'[j].user
                 PROVE  i = j
    OBVIOUS
  <2>2. i + d = j + d
    BY <1>3, <2>1 DEF UsersUnique
  <2>3. QED
    BY <2>2
<1>6. QED
  BY <1>2, <1>4, <1>5 DEF UsersUnique

(* The tunnels before the current one stay ended. *)
LEMMA TunnelStatesKept ==
    ASSUME Shape, TunnelStates, TunnelsStay, UNCHANGED tunnel
    PROVE  TunnelStates'
<1>1. \A n \in 1..MaxTunnels : TunConn(n) \in Tunnels
  BY Connections
<1>2. \A c \in Tunnels : /\ conn[c] \in Ended => conn'[c] \in Ended
                         /\ conn[c] = "none" => conn'[c] = "none"
  BY DEF TunnelsStay, Ended
<1>3. QED
  BY <1>1, <1>2 DEF TunnelStates

(* The end of a tunnel stays alone, and only late sessions outlive it. *)
LEMMA EndsInOrderKept ==
    ASSUME Shape, EndsInOrder, UNCHANGED <<tunnel, nses>>, OriginStays, UsersShrink, TunnelsStay,
           NEW d \in {0, 1}, CarriesEnds(d)
    PROVE  EndsInOrder'
<1>1. \A j \in 1..Len(strand') : Final(strand'[j]) \/ OfUser(strand'[j]) =>
          j + d \in 1..Len(strand) /\ strand'[j] = strand[j + d]
  BY DEF CarriesEnds
<1>2. \A e : Ends(e) \/ Restarts(e) => Final(e)
  BY DEF Final
<1>3. \A i \in 1..Len(strand') : Final(strand'[i]) => conn'[TunConn(tunnel')] \in {"late", "shut", "failed"}
  <2>1. conn[TunConn(tunnel)] \in {"late", "shut", "failed"} => conn'[TunConn(tunnel)] \in {"late", "shut", "failed"}
    BY MadeSoFar DEF TunnelsStay
  <2>2. QED
    BY <1>1, <2>1 DEF EndsInOrder
<1>4. \A i, j \in 1..Len(strand') : Final(strand'[i]) /\ Final(strand'[j]) => i = j
  <2>1. SUFFICES ASSUME NEW i \in 1..Len(strand'), NEW j \in 1..Len(strand'),
                        Final(strand'[i]), Final(strand'[j])
                 PROVE  i = j
    OBVIOUS
  <2>2. i + d = j + d
    BY <1>1, <2>1 DEF EndsInOrder
  <2>3. QED
    BY <2>2
<1>5. \A i \in 1..Len(strand') : Ends(strand'[i]) => strand'[i].on = TunConn(tunnel')
  BY <1>1, <1>2 DEF EndsInOrder
<1>6. ASSUME NEW i \in 1..Len(strand'), Restarts(strand'[i])
      PROVE  /\ strand'[i] = Ev("reconnect", TunConn(tunnel'))
             /\ \A u \in DOMAIN users' : ses'[users'[u]].late
             /\ \A j \in 1..Len(strand') : j > i /\ OfUser(strand'[j]) => ses'[strand'[j].on[2]].late
  <2>1. i + d \in 1..Len(strand) /\ Restarts(strand[i + d]) /\ strand'[i] = strand[i + d]
    BY <1>1, <1>2, <1>6
  <2>2. strand'[i] = Ev("reconnect", TunConn(tunnel'))
    BY <2>1 DEF EndsInOrder
  <2>3. ASSUME NEW u \in DOMAIN users' PROVE ses'[users'[u]].late
    <3>1. u \in DOMAIN users /\ users'[u] = users[u] /\ users[u] \in 1..nses
      BY <2>3 DEF UsersShrink, Shape
    <3>2. ses[users[u]].late
      BY <2>1, <3>1 DEF EndsInOrder
    <3>3. QED
      BY <3>1, <3>2 DEF OriginStays
  <2>4. ASSUME NEW j \in 1..Len(strand'), j > i, OfUser(strand'[j])
        PROVE  ses'[strand'[j].on[2]].late
    <3>1. j + d > i + d
      BY <2>4
    <3>2. j + d \in 1..Len(strand) /\ strand'[j] = strand[j + d] /\ OfUser(strand[j + d])
      BY <1>1, <2>4
    <3>3. ses[strand[j + d].on[2]].late
      BY <2>1, <3>1, <3>2 DEF EndsInOrder
    <3>4. strand[j + d].on[2] \in 1..nses
      BY <3>2, OfUserNames
    <3>5. QED
      BY <3>2, <3>3, <3>4 DEF OriginStays
  <2>5. QED
    BY <2>2, <2>3, <2>4
<1>7. QED
  BY <1>3, <1>4, <1>5, <1>6 DEF EndsInOrder

(* The sessions in the table stay those of the current tunnel, or late. *)
LEMMA OfThisTunnelKept ==
    ASSUME Shape, OfThisTunnel, UNCHANGED <<tunnel, nses>>, OriginStays, UsersShrink,
           NEW d \in {0, 1}, CarriesEnds(d)
    PROVE  OfThisTunnel'
<1>1. \A u \in DOMAIN users' : ses'[users'[u]].late \/ ses'[users'[u]].tun = tunnel'
  <2>1. TAKE u \in DOMAIN users'
  <2>2. u \in DOMAIN users /\ users'[u] = users[u] /\ users[u] \in 1..nses
    BY DEF UsersShrink, Shape
  <2>3. QED
    BY <2>2 DEF OfThisTunnel, OriginStays
<1>2. ASSUME NEW i \in 1..Len(strand'), OfUser(strand'[i])
      PROVE  ses'[strand'[i].on[2]].late \/ ses'[strand'[i].on[2]].tun = tunnel'
  <2>1. i + d \in 1..Len(strand) /\ strand'[i] = strand[i + d]
    BY <1>2 DEF CarriesEnds
  <2>2. strand[i + d].on[2] \in 1..nses
    BY <1>2, <2>1, OfUserNames
  <2>3. QED
    BY <1>2, <2>1, <2>2 DEF OfThisTunnel, OriginStays
<1>3. QED
  BY <1>1, <1>2 DEF OfThisTunnel

(* A step that makes no session and ends no tunnel keeps the order. *)
LEMMA QuietKeepsOrder ==
    ASSUME Shape, Order, Shape', QuietStep
    PROVE  Order'
<1>1. PICK d \in {0, 1} : Carries(d)
  BY DEF QuietStep
<1>2. CarriesEnds(d) /\ CarriesConnects(d)
  BY <1>1 DEF Carries, CarriesEnds, CarriesConnects, Marks
<1>3. UNCHANGED <<tunnel, nses>> /\ UsersStay /\ OriginStays /\ UsersShrink /\ TunnelsStay
  BY DEF QuietStep, SessionsStay, UsersStay
<1>4. UsersUnique'
  BY <1>2, <1>3, UsersUniqueKept DEF Order
<1>5. EndsInOrder' /\ OfThisTunnel'
  BY <1>2, <1>3, EndsInOrderKept, OfThisTunnelKept DEF Order
<1>6. TunnelStates'
  BY <1>3, TunnelStatesKept DEF Order
<1>7. QED
  BY <1>4, <1>5, <1>6 DEF Order
----------------------------------------------------------------------------
(* The quiet steps.  What changes nothing but the state of connections, ... *)
LEMMA SameIsQuiet ==
    ASSUME UNCHANGED <<tunnel, users, ses, nses, told>>
    PROVE  SessionsStay /\ UsersShrink
<1>1. ToldUsers' = ToldUsers
  BY DEF ToldUsers
<1>2. QED
  BY <1>1 DEF SessionsStay, UsersStay, OriginStays, UsersShrink

(* A change of one connection that ends no tunnel. *)
LEMMA OneConn ==
    ASSUME Shape, NEW c \in Framed, NEW v, conn' = [conn EXCEPT ![c] = v],
           \/ c \notin Tunnels
           \/ conn[c] = "late" /\ v = "failed"
           \/ conn[c] = "connecting" /\ v = "up"
    PROVE  TunnelsStay
<1>1. conn \in [Framed -> ConnState] /\ Tunnels \subseteq Framed
  BY MadeSoFar DEF Shape
<1>2. QED
  BY <1>1 DEF TunnelsStay

(* Such are the steps of the pool threads on session connections. *)
LEMMA PoolIsQuiet ==
    ASSUME Shape, NEW c \in Framed,
           \/ Connected(c) \/ ConnectedLate(c)
           \/ c \notin Tunnels /\ (ConnFails(c) \/ ConnectTimeout(c))
    PROVE  QuietStep
<1>1. SessionsStay /\ UsersShrink
  BY SameIsQuiet DEF Connected, ConnectedLate, ConnFails, ConnectTimeout
<1>2. CASE UNCHANGED <<conn, strand>>
  BY <1>1, <1>2, SameCarries DEF QuietStep, TunnelsStay
<1>3. CASE Connected(c)
  <2>1. TunnelsStay
    BY <1>3, OneConn DEF Connected
  <2>2. Carries(0)
    BY <1>3, PostCarries, MarkCases DEF Connected
  <2>3. QED
    BY <1>1, <2>1, <2>2 DEF QuietStep
<1>4. CASE ConnectedLate(c) /\ ~UNCHANGED <<conn, strand>>
  <2>1. /\ conn[c] = "late" /\ conn' = [conn EXCEPT ![c] = "failed"] /\ Post(Ev("connect", c))
    BY <1>4 DEF ConnectedLate
  <2>2. TunnelsStay
    BY <2>1, OneConn
  <2>3. Carries(0)
    BY <2>1, PostCarries, MarkCases
  <2>4. QED
    BY <1>1, <2>2, <2>3 DEF QuietStep
<1>5. CASE c \notin Tunnels /\ (ConnFails(c) \/ ConnectTimeout(c))
  <2>1. /\ Post(Ev("disconnect", c)) /\ \E v : conn' = [conn EXCEPT ![c] = v]
    BY <1>5 DEF ConnFails, ConnectTimeout
  <2>2. TunnelsStay
    BY <1>5, <2>1, OneConn
  <2>3. PICK s \in SessionIds : c = SesConn(s)
    BY <1>5, Connections
  <2>4. ~Marks(Ev("disconnect", c))
    BY <2>3, MarkCases
  <2>5. Carries(0)
    BY <2>1, <2>4, PostCarries
  <2>6. QED
    BY <1>1, <2>2, <2>5 DEF QuietStep
<1>6. QED
  BY <1>2, <1>3, <1>4, <1>5

(* ... the messages of the relay but CONNECT, ... *)
LEMMA RelayIsQuiet ==
    ASSUME Shape, NEW cmd \in {"DATA", "DISCONNECT"},
           (\E u \in Users : RelaySends(cmd, u)) \/ (\E s \in SessionIds : RelaySendsOnSession(cmd, s))
    PROVE  QuietStep
<1>1. /\ UNCHANGED <<tunnel, users, ses, nses, conn, told>>
      /\ \E c, u : Post(R2AMsg(cmd, c, u))
  BY DEF RelaySends, RelaySendsOnSession
<1>2. Carries(0)
  BY <1>1, PostCarries, MarkCases
<1>3. TunnelsStay
  BY <1>1 DEF TunnelsStay
<1>4. QED
  BY <1>1, <1>2, <1>3, SameIsQuiet DEF QuietStep

(* ... what happens at a service and on a connection without an event, ... *)
LEMMA SilentIsQuiet ==
    ASSUME Shape, \/ \E s \in SessionIds : ServiceConnected(s) \/ ServiceConnectedLate(s)
                  \/ \E c \in Framed : RunIo(c)
                  \/ UNCHANGED vars
    PROVE  QuietStep
<1>1. UNCHANGED <<tunnel, users, ses, nses, conn, told, strand>>
  BY DEF ServiceConnected, ServiceConnectedLate, RunIo, vars
<1>2. TunnelsStay
  BY <1>1 DEF TunnelsStay
<1>3. QED
  BY <1>1, <1>2, SameCarries, SameIsQuiet DEF QuietStep

(* ... the handlers that keep users_ as they are ... *)
LEMMA HandlerIsQuiet ==
    ASSUME Shape, OnServerConnect \/ RecvData \/ OnUserRecv \/ OnSessionConnect
    PROVE  QuietStep
<1>1. strand # << >> /\ Pop /\ UNCHANGED <<tunnel, users, nses, conn, told>>
  BY OnSessionConnectEffect DEF OnServerConnect, RecvData, OnUserRecv, NextIs
<1>2. \A t \in 1..nses :
          ses'[t].user = ses[t].user /\ ses'[t].tun = ses[t].tun /\ ses'[t].late = ses[t].late
  <2>1. CASE OnSessionConnect
    <3>1. PICK s \in 1..nses : /\ ses'[s] = [ses[s] EXCEPT !.ready = TRUE]
                               /\ \A t \in 1..nses : t # s => ses'[t] = ses[t]
      BY <2>1, OnSessionConnectEffect
    <3>2. ses[s] \in Session
      BY DEF Shape
    <3>3. QED
      BY <3>1, <3>2 DEF Session
  <2>2. QED
    BY <2>1 DEF OnServerConnect, RecvData, OnUserRecv
<1>3. TunnelsStay /\ SessionsStay /\ UsersShrink
  <2>1. ToldUsers' = ToldUsers
    BY <1>1 DEF ToldUsers
  <2>2. QED
    BY <1>1, <1>2, <2>1 DEF TunnelsStay, SessionsStay, UsersStay, OriginStays, UsersShrink
<1>4. Carries(1)
  BY <1>1, PopCarries
<1>5. QED
  BY <1>3, <1>4 DEF QuietStep

(* ... and those that clean. *)
LEMMA CleaningIsQuiet ==
    ASSUME Shape, \/ RecvDisconnect \/ OnSessionDisconnect \/ OnUserDisconnect
                  \/ \E e \in pending : SendDone(e[1], e[2])
    PROVE  QuietStep
<1>1. Carries(0) \/ Carries(1)
  <2>1. CASE \E e \in pending : SendDone(e[1], e[2])
    BY <2>1, SendDoneCleans, SameCarries
  <2>2. CASE RecvDisconnect \/ OnSessionDisconnect \/ OnUserDisconnect
    BY <2>2, RecvDisconnectCleans, OnSessionDisconnectCleans, OnUserDisconnectCleans, PopCarries
  <2>3. QED
    BY <2>1, <2>2
<1>2. CASE UNCHANGED <<tunnel, nses, told, users, ses, conn, serv>>
  <2>1. TunnelsStay
    BY <1>2 DEF TunnelsStay
  <2>2. QED
    BY <1>1, <1>2, <2>1, SameIsQuiet DEF QuietStep
<1>3. CASE \E s \in 1..nses : Cleans(s)
  <2>1. PICK s \in 1..nses : Cleans(s)
    BY <1>3
  <2>2. SessionsStay /\ UsersShrink
    <3>1. ToldUsers' = ToldUsers
      BY <2>1 DEF Cleans, ToldUsers
    <3>2. QED
      BY <2>1, <3>1 DEF Cleans, SessionsStay, UsersStay, OriginStays, UsersShrink
  <2>3. TunnelsStay
    <3>1. Tunnels \subseteq Framed /\ SesConn(s) \notin Tunnels
      BY MadeSoFar, TunnelsApart
    <3>2. QED
      BY <2>1, <3>1 DEF Cleans, ClosesAtMost, TunnelsStay
  <2>4. QED
    BY <1>1, <2>2, <2>3 DEF QuietStep
<1>4. QED
  BY <1>2, <1>3, CleaningCleans
----------------------------------------------------------------------------
(* The steps that are not quiet.  While the tunnel lives its end is not in    *)
(* the strand.                                                                *)
LEMMA NoEndYet ==
    ASSUME EndsInOrder, conn[TunConn(tunnel)] \notin {"late", "shut", "failed"}
    PROVE  \A i \in 1..Len(strand) : ~Final(strand[i]) /\ ~Ends(strand[i]) /\ ~Restarts(strand[i])
BY DEF EndsInOrder, Final

(* CONNECT announces a user that was not announced before. *)
LEMMA OrderAnnounce ==
    ASSUME ~IdsRestart, Shape, Order, Shape', NEW u \in Users, RelaySends("CONNECT", u)
    PROVE  Order'
<1> DEFINE e == R2AMsg("CONNECT", TunConn(tunnel), u)
<1>1. /\ Post(e) /\ \A n \in 1..tunnel : <<n, u>> \notin told
      /\ told' = told \cup {<<tunnel, u>>}
      /\ UNCHANGED <<tunnel, users, ses, nses, conn, serv, io, pending, wire, crashed>>
  BY DEF RelaySends
<1>2. Connects(e) /\ ~Final(e) /\ ~OfUser(e) /\ ~Ends(e) /\ ~Restarts(e) /\ e.user = u
  BY MarkCases, EventFields DEF Final
<1> HIDE DEF e
<1>3. \A j \in 1..Len(strand') : \/ j \in 1..Len(strand) /\ strand'[j] = strand[j]
                                 \/ j = Len(strand) + 1 /\ strand'[j] = e
  BY <1>1, Posted
<1>4. CarriesEnds(0) /\ OriginStays /\ UsersShrink /\ TunnelsStay
  <2>1. CarriesEnds(0)
    <3>1. Len(strand) \in Nat
      BY <1>1, Posted
    <3>2. QED
      BY <1>2, <1>3, <3>1 DEF CarriesEnds
  <2>2. OriginStays /\ UsersShrink /\ TunnelsStay
    BY <1>1 DEF OriginStays, UsersShrink, TunnelsStay
  <2>3. QED
    BY <2>1, <2>2
<1>5. EndsInOrder' /\ OfThisTunnel' /\ TunnelStates'
  BY <1>1, <1>4, EndsInOrderKept, OfThisTunnelKept, TunnelStatesKept DEF Order
<1>9. ToldUsers \subseteq ToldUsers' /\ u \in ToldUsers' /\ u \notin ToldUsers
  <2>1. tunnel \in 1..tunnel
    BY MadeSoFar
  <2>2. <<tunnel, u>> \in told'
    BY <1>1
  <2>3. QED
    BY <1>1, <2>1, <2>2 DEF ToldUsers
<1>10. UsersUnique'
  <2>1. /\ \A s \in 1..nses' : ses'[s].user \in ToldUsers'
        /\ \A s, t \in 1..nses' : ses'[s].user = ses'[t].user => s = t
    BY <1>1, <1>9 DEF Order, UsersUnique
  <2>2. \A s \in 1..nses : ses[s].user # u
    BY <1>9 DEF Order, UsersUnique
  <2>3. \A i \in 1..Len(strand') : Connects(strand'[i]) =>
            strand'[i].user \in ToldUsers' /\ \A s \in 1..nses' : ses'[s].user # strand'[i].user
    BY <1>1, <1>2, <1>3, <1>9, <2>2 DEF Order, UsersUnique
  <2>4. \A i \in 1..Len(strand) : Connects(strand[i]) => strand[i].user # u
    BY <1>9 DEF Order, UsersUnique
  <2>5. \A i, j \in 1..Len(strand') :
            Connects(strand'[i]) /\ Connects(strand'[j]) /\ strand'[i].user = strand'[j].user => i = j
    BY <1>2, <1>3, <2>4 DEF Order, UsersUnique
  <2>6. QED
    BY <2>1, <2>3, <2>5 DEF UsersUnique
<1>11. QED
  BY <1>5, <1>10 DEF Order

(* The tunnel that ends is the current one. *)
LEMMA LiveTunnelIsCurrent ==
    ASSUME Shape, TunnelStates, NEW c \in Tunnels, conn[c] \notin Ended, conn[c] # "none"
    PROVE  c = TunConn(tunnel)
<1>1. PICK n \in 1..MaxTunnels : c = TunConn(n)
  BY Connections
<1>2. ~(n < tunnel) /\ ~(n > tunnel)
  BY <1>1 DEF TunnelStates
<1>3. n = tunnel
  BY <1>2, MadeSoFar, ConstantsAssumption
<1>4. QED
  BY <1>1, <1>3

(* A tunnel that ends posts its end behind everything else about it. *)
LEMMA OrderTunnelEnds ==
    ASSUME Shape, Order, Shape', NEW c \in Tunnels, ConnFails(c) \/ ConnectTimeout(c)
    PROVE  Order'
<1> DEFINE e == Ev("disconnect", c)
<1>1. /\ Post(e) /\ conn[c] \in {"connecting", "up"}
      /\ \E v \in {"late", "shut", "failed"} : conn' = [conn EXCEPT ![c] = v]
      /\ UNCHANGED <<tunnel, users, ses, nses, serv, io, pending, wire, told, crashed>>
  BY DEF ConnFails, ConnectTimeout
<1>2. c = TunConn(tunnel)
  BY <1>1, LiveTunnelIsCurrent DEF Order, Ended
<1>3. Ends(e) /\ Final(e) /\ ~Restarts(e) /\ ~Connects(e) /\ ~OfUser(e) /\ e.on = c
  BY MarkCases, EventFields DEF Final
<1>4. conn'[c] \in {"late", "shut", "failed"} /\ \A b \in Tunnels : b # c => conn'[b] = conn[b]
  <2>1. conn \in [Framed -> ConnState] /\ Tunnels \subseteq Framed
    BY MadeSoFar DEF Shape
  <2>2. QED
    BY <1>1, <2>1
<1> HIDE DEF e
<1>5. /\ Len(strand) \in Nat
      /\ \A j \in 1..Len(strand') : \/ j \in 1..Len(strand) /\ strand'[j] = strand[j]
                                    \/ j = Len(strand) + 1 /\ strand'[j] = e
  BY <1>1, Posted
<1>6. \A i \in 1..Len(strand) : ~Final(strand[i]) /\ ~Ends(strand[i]) /\ ~Restarts(strand[i])
  BY <1>1, <1>2, NoEndYet DEF Order
<1>7. \A i \in 1..Len(strand') : Final(strand'[i]) => i = Len(strand) + 1 /\ strand'[i] = e
  BY <1>5, <1>6
<1>8. \A i \in 1..Len(strand') : /\ Ends(strand'[i]) => strand'[i] = e
                                 /\ ~Restarts(strand'[i])
  BY <1>3, <1>5, <1>6
<1>9. EndsInOrder'
  <2>1. \A i, j \in 1..Len(strand') : Final(strand'[i]) /\ Final(strand'[j]) => i = j
    BY <1>7
  <2>2. QED
    BY <1>1, <1>2, <1>3, <1>4, <1>8, <2>1 DEF EndsInOrder
<1>10. TunnelStates'
  <2>1. SUFFICES ASSUME NEW n \in 1..MaxTunnels, n # tunnel
                 PROVE  conn'[TunConn(n)] = conn[TunConn(n)]
    <3>1. \A n \in 1..MaxTunnels : n < tunnel \/ n > tunnel => n # tunnel
      BY MadeSoFar, ConstantsAssumption
    <3>2. QED
      BY <1>1, <2>1, <3>1 DEF Order, TunnelStates
  <2>2. TunConn(n) \in Tunnels /\ TunConn(n) # c
    BY <1>2, <2>1, Names, Connections
  <2>3. QED
    BY <1>4, <2>2
<1>11. OfThisTunnel'
  <2>1. \A i \in 1..Len(strand') : OfUser(strand'[i]) => i \in 1..Len(strand) /\ strand'[i] = strand[i]
    BY <1>3, <1>5
  <2>2. QED
    BY <1>1, <2>1 DEF Order, OfThisTunnel
<1>12. UsersUnique'
  <2>1. CarriesConnects(0)
    BY <1>3, <1>5 DEF CarriesConnects
  <2>2. UsersStay
    BY <1>1, SameIsQuiet DEF SessionsStay
  <2>3. QED
    BY <2>1, <2>2, UsersUniqueKept DEF Order
<1>13. QED
  BY <1>9, <1>10, <1>11, <1>12 DEF Order

(* A service whose connection is open is of a session that users_ has. *)
LEMMA OpenIsKept ==
    ASSUME Shape, OfThisTunnel, NoConnectionForgotten, NEW s \in 1..nses, serv[s] \notin Ended
    PROVE  /\ ses[s].late \/ ses[s].tun = tunnel
           /\ (\A u \in DOMAIN users : ses[users[u]].late) => ses[s].late
<1>1. s \in Values(users)
  BY DEF NoConnectionForgotten
<1>2. PICK u \in DOMAIN users : users[u] = s
  BY <1>1 DEF Values
<1>3. QED
  BY <1>2 DEF OfThisTunnel

(* The service sends and ends only while its session is known. *)
LEMMA OrderService ==
    ASSUME Shape, Order, NoConnectionForgotten, Shape', NEW s \in SessionIds,
           ServiceSends(s) \/ ServiceEnds(s)
    PROVE  Order'
<1>1. PICK e \in {Ev("recv", UserConn(s)), Ev("disconnect", UserConn(s))} : Post(e)
  BY DEF ServiceSends, ServiceEnds
<1>2. /\ s <= nses /\ serv[s] \in {"connecting", "up", "shut"}
      /\ UNCHANGED <<tunnel, users, ses, nses, conn, told>>
  BY DEF ServiceSends, ServiceEnds
<1>3. s \in 1..nses
  BY <1>2, MadeSoFar DEF SessionIds
<1>4. OfUser(e) /\ ~Final(e) /\ ~Ends(e) /\ ~Restarts(e) /\ ~Connects(e) /\ e.on[2] = s
  BY MarkCases, EventFields, Names DEF Final
<1>5. /\ ses[s].late \/ ses[s].tun = tunnel
      /\ (\A u \in DOMAIN users : ses[users[u]].late) => ses[s].late
  BY <1>2, <1>3, OpenIsKept DEF Order, Ended
<1>6. /\ Len(strand) \in Nat
      /\ \A j \in 1..Len(strand') : \/ j \in 1..Len(strand) /\ strand'[j] = strand[j]
                                    \/ j = Len(strand) + 1 /\ strand'[j] = e
  BY <1>1, Posted
<1>7. \A j \in 1..Len(strand') : Connects(strand'[j]) \/ Final(strand'[j]) \/ Ends(strand'[j]) \/ Restarts(strand'[j])
          => j \in 1..Len(strand) /\ strand'[j] = strand[j]
  BY <1>4, <1>6
<1>8. ASSUME NEW i \in 1..Len(strand'), Restarts(strand'[i])
      PROVE  /\ strand'[i] = Ev("reconnect", TunConn(tunnel))
             /\ \A u \in DOMAIN users : ses[users[u]].late
             /\ \A j \in 1..Len(strand') : j > i /\ OfUser(strand'[j]) => ses[strand'[j].on[2]].late
  <2>1. i \in 1..Len(strand) /\ strand'[i] = strand[i] /\ Restarts(strand[i])
    BY <1>7, <1>8
  <2>2. /\ strand[i] = Ev("reconnect", TunConn(tunnel))
        /\ \A u \in DOMAIN users : ses[users[u]].late
        /\ \A j \in 1..Len(strand) : j > i /\ OfUser(strand[j]) => ses[strand[j].on[2]].late
    BY <2>1 DEF Order, EndsInOrder
  <2>3. ses[s].late
    BY <1>5, <2>2
  <2>4. ASSUME NEW j \in 1..Len(strand'), j > i, OfUser(strand'[j])
        PROVE  ses[strand'[j].on[2]].late
    <3>1. CASE j \in 1..Len(strand) /\ strand'[j] = strand[j]
      BY <2>2, <2>4, <3>1
    <3>2. CASE strand'[j] = e
      BY <1>4, <2>3, <3>2
    <3>3. QED
      BY <1>6, <3>1, <3>2
  <2>5. QED
    BY <2>1, <2>2, <2>4
<1>9. EndsInOrder'
  <2>1. \A i, j \in 1..Len(strand') : Final(strand'[i]) /\ Final(strand'[j]) => i = j
    BY <1>7 DEF Order, EndsInOrder
  <2>2. \A i \in 1..Len(strand') : /\ Final(strand'[i]) => conn[TunConn(tunnel)] \in {"late", "shut", "failed"}
                                   /\ Ends(strand'[i]) => strand'[i].on = TunConn(tunnel)
    BY <1>7 DEF Order, EndsInOrder
  <2>3. QED
    BY <1>2, <1>8, <2>1, <2>2 DEF EndsInOrder
<1>10. TunnelStates'
  BY <1>2 DEF Order, TunnelStates
<1>11. OfThisTunnel'
  <2>1. \A i \in 1..Len(strand') : OfUser(strand'[i]) =>
            ses[strand'[i].on[2]].late \/ ses[strand'[i].on[2]].tun = tunnel
    BY <1>4, <1>5, <1>6 DEF Order, OfThisTunnel
  <2>2. QED
    BY <1>2, <2>1 DEF Order, OfThisTunnel
<1>12. UsersUnique'
  <2>1. CarriesConnects(0)
    BY <1>6, <1>7 DEF CarriesConnects
  <2>2. UsersStay
    BY <1>2, SameIsQuiet DEF SessionsStay
  <2>3. QED
    BY <2>1, <2>2, UsersUniqueKept DEF Order
<1>13. QED
  BY <1>9, <1>10, <1>11, <1>12 DEF Order

(* __OnServerDisconnect puts the lambda where nothing but the events of       *)
(* sessions that are gone come before it.                                     *)
LEMMA LambdaPosted ==
    ASSUME Shape, OnServerDisconnect
    PROVE  /\ Len(strand) \in Nat /\ 1 \in 1..Len(strand) /\ Ends(strand[1])
           /\ Len(strand') = Len(strand)
           /\ \A j \in 1..Len(strand') :
                 \/ j + 1 \in 1..Len(strand) /\ strand'[j] = strand[j + 1]
                 \/ j = Len(strand) /\ strand'[j] = Ev("reconnect", TunConn(tunnel))
<1>1. strand \in Seq(LiveEvent(nses)) /\ strand # << >>
  BY TunnelLostEffect DEF Shape
<1>2. Ends(Head(strand))
  BY TunnelLostEffect DEF Ends, NextIs
<1>3. strand' = Append(Tail(strand), Ev("reconnect", TunConn(tunnel)))
  BY TunnelLostEffect
<1>4. Len(strand) \in Nat /\ 1 \in 1..Len(strand) /\ strand[1] = Head(strand)
  BY <1>1
<1>5. Tail(strand) \in Seq(LiveEvent(nses)) /\ Len(Tail(strand)) = Len(strand) - 1
      /\ \A j \in 1..Len(Tail(strand)) : Tail(strand)[j] = strand[j + 1]
  BY <1>1
<1>6. Len(strand') = Len(strand) /\ strand'[Len(strand)] = Ev("reconnect", TunConn(tunnel))
      /\ \A j \in 1..Len(Tail(strand)) : strand'[j] = Tail(strand)[j]
  BY <1>3, <1>4, <1>5
<1>7. \A j \in 1..Len(strand') :
          \/ j + 1 \in 1..Len(strand) /\ strand'[j] = strand[j + 1]
          \/ j = Len(strand) /\ strand'[j] = Ev("reconnect", TunConn(tunnel))
  <2>1. TAKE j \in 1..Len(strand')
  <2>2. CASE j = Len(strand)
    BY <1>6, <2>2
  <2>3. CASE j # Len(strand)
    <3> DEFINE m == Len(strand)
               k == Len(Tail(strand))
    <3>1. m \in Nat /\ j \in 1..m /\ j # m /\ k = m - 1
      BY <1>4, <1>5, <1>6, <2>3
    <3> HIDE DEF m, k
    <3>2. j + 1 \in 1..m /\ j \in 1..k
      BY <3>1
    <3>3. QED
      BY <1>5, <1>6, <3>2 DEF m, k
  <2>4. QED
    BY <2>2, <2>3
<1>8. QED
  BY <1>2, <1>4, <1>6, <1>7

(* The handler of the end drops the sessions of the tunnel. *)
LEMMA OrderTunnelLost ==
    ASSUME Shape, Order, Shape', OnServerDisconnect
    PROVE  Order'
<1> DEFINE e == Ev("reconnect", TunConn(tunnel))
<1>1. Restarts(e) /\ Final(e) /\ ~Ends(e) /\ ~Connects(e) /\ ~OfUser(e)
  BY MarkCases DEF Final
<1>2. DOMAIN users' = {} /\ UNCHANGED <<tunnel, ses, nses, told>> /\ \A c \in Tunnels : conn'[c] = conn[c]
  BY TunnelLostEffect
<1> HIDE DEF e
<1>3. /\ Len(strand) \in Nat /\ 1 \in 1..Len(strand) /\ Final(strand[1])
      /\ Len(strand') = Len(strand)
      /\ \A j \in 1..Len(strand') : \/ j + 1 \in 1..Len(strand) /\ strand'[j] = strand[j + 1]
                                    \/ j = Len(strand) /\ strand'[j] = e
  BY LambdaPosted DEF e, Final
<1>4. \A j \in 1..Len(strand') : j + 1 \in 1..Len(strand) => ~Final(strand[j + 1])
  <2>1. TAKE j \in 1..Len(strand')
  <2>2. HAVE j + 1 \in 1..Len(strand)
  <2>3. j + 1 # 1
    OBVIOUS
  <2>4. QED
    BY <1>3, <2>2, <2>3 DEF Order, EndsInOrder
<1>5. \A j \in 1..Len(strand') : /\ ~Ends(strand'[j])
                                 /\ Final(strand'[j]) => j = Len(strand) /\ strand'[j] = e
  BY <1>1, <1>3, <1>4 DEF Final
<1>6. conn'[TunConn(tunnel)] \in {"late", "shut", "failed"}
  BY <1>2, <1>3, MadeSoFar DEF Order, EndsInOrder
<1>7. EndsInOrder'
  <2>1. ASSUME NEW i \in 1..Len(strand'), Restarts(strand'[i])
        PROVE  strand'[i] = Ev("reconnect", TunConn(tunnel)) /\ \A j \in 1..Len(strand') : ~(j > i)
    <3>1. i = Len(strand') /\ strand'[i] = e /\ Len(strand') \in Nat
      BY <1>3, <1>5, <2>1 DEF Final
    <3>2. QED
      BY <3>1 DEF e
  <2>2. QED
    BY <1>2, <1>5, <1>6, <2>1 DEF EndsInOrder
<1>8. TunnelStates'
  <2>1. \A n \in 1..MaxTunnels : conn'[TunConn(n)] = conn[TunConn(n)]
    BY <1>2, Connections
  <2>2. QED
    BY <1>2, <2>1 DEF Order, TunnelStates
<1>9. OfThisTunnel'
  <2>1. \A i \in 1..Len(strand') : OfUser(strand'[i]) => i + 1 \in 1..Len(strand) /\ strand'[i] = strand[i + 1]
    BY <1>1, <1>3
  <2>2. QED
    BY <1>2, <2>1 DEF Order, OfThisTunnel
<1>10. UsersUnique'
  <2>1. CarriesConnects(1)
    BY <1>1, <1>3 DEF CarriesConnects
  <2>2. UsersStay
    <3>1. ToldUsers' = ToldUsers
      BY <1>2 DEF ToldUsers
    <3>2. QED
      BY <1>2, <3>1 DEF UsersStay
  <2>3. QED
    BY <2>1, <2>2, UsersUniqueKept DEF Order
<1>11. QED
  BY <1>7, <1>8, <1>9, <1>10 DEF Order

(* The next tunnel finds no event of the sessions of the one before. *)
LEMMA OrderReconnect ==
    ASSUME Shape, Order, Shape', Reconnect
    PROVE  Order'
<1>1. /\ Len(strand) \in Nat /\ 1 \in 1..Len(strand) /\ strand[1] = Head(strand)
      /\ \A j \in 1..Len(strand') : j + 1 \in 1..Len(strand) /\ strand'[j] = strand[j + 1]
  BY ReconnectEffect, Popped
<1>2. Restarts(strand[1]) /\ Final(strand[1])
  BY <1>1, ReconnectEffect DEF Restarts, Final
<1>3. \A u \in DOMAIN users : ses[users[u]].late
  BY <1>1, <1>2 DEF Order, EndsInOrder
<1>4. \A j \in 1..Len(strand') : /\ ~Final(strand'[j])
                                 /\ OfUser(strand'[j]) => ses[strand'[j].on[2]].late
  <2>1. TAKE j \in 1..Len(strand')
  <2>2. j + 1 \in 1..Len(strand) /\ strand'[j] = strand[j + 1] /\ j + 1 > 1 /\ j + 1 # 1
    BY <1>1
  <2>3. QED
    BY <1>1, <1>2, <2>2 DEF Order, EndsInOrder
<1>5. EndsInOrder'
  BY <1>4 DEF EndsInOrder, Final
<1>6. OfThisTunnel'
  <2>1. UNCHANGED <<users, ses>>
    BY ReconnectEffect
  <2>2. QED
    BY <1>3, <1>4, <2>1 DEF OfThisTunnel
<1>7. UsersUnique'
  <2>1. CarriesConnects(1)
    BY <1>1 DEF CarriesConnects
  <2>2. UsersStay
    <3>1. 1..tunnel \subseteq 1..tunnel' /\ UNCHANGED <<ses, nses, told>>
      BY ReconnectEffect, MadeSoFar, ConstantsAssumption
    <3>2. QED
      BY <3>1 DEF UsersStay, ToldUsers
  <2>3. QED
    BY <2>1, <2>2, UsersUniqueKept DEF Order
<1>8. TunnelStates'
  <2>0. tunnel \in 1..MaxTunnels /\ MaxTunnels \in Nat /\ tunnel' = tunnel + 1
    BY ReconnectEffect, MadeSoFar, ConstantsAssumption
  <2>1. \A n \in 1..MaxTunnels : n # tunnel /\ n # tunnel + 1 => conn'[TunConn(n)] = conn[TunConn(n)]
    <3>1. TAKE n \in 1..MaxTunnels
    <3>2. HAVE n # tunnel /\ n # tunnel + 1
    <3>3. TunConn(n) \in Framed /\ TunConn(n) # TunConn(tunnel) /\ TunConn(n) # TunConn(tunnel + 1)
      BY <3>2, MadeSoFar, Names
    <3>4. QED
      BY <3>3, ReconnectEffect
  <2>2. ASSUME NEW n \in 1..MaxTunnels, n < tunnel' PROVE conn'[TunConn(n)] \in Ended
    <3>1. CASE n = tunnel
      BY <3>1, ReconnectEffect
    <3>2. CASE n # tunnel
      <4>1. n < tunnel /\ n # tunnel + 1
        BY <2>0, <2>2, <3>2
      <4>2. QED
        BY <2>1, <4>1, <3>2 DEF Order, TunnelStates
    <3>3. QED
      BY <3>1, <3>2
  <2>3. ASSUME NEW n \in 1..MaxTunnels, n > tunnel' PROVE conn'[TunConn(n)] = "none"
    <3>1. n > tunnel /\ n # tunnel /\ n # tunnel + 1
      BY <2>0, <2>3
    <3>2. QED
      BY <2>1, <3>1 DEF Order, TunnelStates
  <2>4. QED
    BY <2>2, <2>3 DEF TunnelStates
<1>9. QED
  BY <1>5, <1>6, <1>7, <1>8 DEF Order

(* CONNECT makes a session of a user that no session has, of this tunnel     *)
(* unless the users of its tunnel have been dropped.                          *)
LEMMA OrderRecvConnect ==
    ASSUME Shape, Order, Shape', RecvConnect
    PROVE  Order'
<1> DEFINE u == Head(strand).user
           n == nses + 1
           new == NewSession(Head(strand))
<1>1. /\ strand # << >> /\ Pop /\ UNCHANGED <<tunnel, told>> /\ Head(strand).ev = "CONNECT"
  BY RecvConnectEffect
<1>2. CASE UNCHANGED <<users, ses, nses, conn, serv>>
  <2>1. TunnelsStay
    BY <1>2 DEF TunnelsStay
  <2>2. SessionsStay /\ UsersShrink
    BY <1>1, <1>2, SameIsQuiet
  <2>3. Carries(1)
    BY <1>1, PopCarries
  <2>4. QED
    BY <2>1, <2>2, <2>3, QuietKeepsOrder DEF QuietStep
<1>3. CASE u \notin DOMAIN users
  <2>1. /\ nses \in Nat /\ nses' = n /\ 1..n = (1..nses) \cup {n} /\ n \notin 1..nses
        /\ ses'[n] = new /\ \A s \in 1..nses : ses'[s] = ses[s]
        /\ DOMAIN users' = DOMAIN users \cup {u} /\ users'[u] = n /\ \A v \in DOMAIN users : users'[v] = users[v]
        /\ \A c \in Framed : c # SesConn(n) => conn'[c] = conn[c]
    BY <1>3, RecvConnectEffect, MadeSoFar
  <2>2. /\ Len(strand) \in Nat /\ 1 \in 1..Len(strand) /\ Connects(strand[1]) /\ strand[1].user = u
        /\ \A j \in 1..Len(strand') : j + 1 \in 1..Len(strand) /\ strand'[j] = strand[j + 1]
    BY <1>1, Popped DEF Connects
  <2>3. /\ new.user = u
        /\ new.late \/ new.tun = tunnel
        /\ (\E i \in 1..Len(strand) : Restarts(strand[i])) => new.late
    <3>1. /\ new.user = u /\ new.tun = Head(strand).on[2]
          /\ new.late = UsersDropped(Head(strand).on)
      BY DEF NewSession
    <3>2. ~UsersDropped(Head(strand).on) => Head(strand).on = TunConn(tunnel)
      BY DEF UsersDropped
    <3>3. (\E i \in 1..Len(strand) : Restarts(strand[i])) => UsersDropped(Head(strand).on)
      <4>1. SUFFICES ASSUME NEW i \in 1..Len(strand), Restarts(strand[i]), Head(strand).on = TunConn(tunnel)
                     PROVE  UsersDropped(Head(strand).on)
        BY <3>2
      <4>2. strand[i] = Ev("reconnect", Head(strand).on)
        BY <4>1 DEF Order, EndsInOrder
      <4>3. QED
        BY <4>2 DEF UsersDropped
    <3>4. QED
      BY <3>1, <3>2, <3>3, Names
  <2>4. u \in ToldUsers /\ \A s \in 1..nses : ses[s].user # u
    BY <2>2 DEF Order, UsersUnique
  <2>5. TunnelsStay
    <3>1. Tunnels \subseteq Framed /\ SesConn(n) \notin Tunnels
      BY MadeSoFar, TunnelsApart
    <3>2. QED
      BY <2>1, <3>1 DEF TunnelsStay
  <2>6. TunnelStates'
    BY <1>1, <2>5, TunnelStatesKept DEF Order
  <2> HIDE DEF u, n, new
  <2>7. ses'[n].user = u
    BY <2>1, <2>3
  <2>8. \A j \in 1..Len(strand) : Connects(strand[j]) /\ j # 1 => strand[j].user # u
    BY <2>2 DEF Order, UsersUnique
  <2>9. ToldUsers' = ToldUsers
    BY <1>1 DEF ToldUsers
  <2>10. UsersUnique'
    <3>1. \A s \in 1..nses' : s \in 1..nses \/ s = n
      BY <2>1
    <3>2. \A s \in 1..nses' : ses'[s].user \in ToldUsers'
      BY <2>1, <2>7, <2>4, <2>9, <3>1 DEF Order, UsersUnique
    <3>3. \A s, t \in 1..nses' : ses'[s].user = ses'[t].user => s = t
      BY <2>1, <2>7, <2>4, <3>1 DEF Order, UsersUnique
    <3>4. \A i \in 1..Len(strand') : i + 1 # 1
      OBVIOUS
    <3>5. \A i \in 1..Len(strand') : Connects(strand'[i]) =>
              strand'[i].user \in ToldUsers' /\ \A s \in 1..nses' : ses'[s].user # strand'[i].user
      <4>1. SUFFICES ASSUME NEW i \in 1..Len(strand'), Connects(strand[i + 1])
                     PROVE  strand[i + 1].user \in ToldUsers /\ \A s \in 1..nses' : ses'[s].user # strand[i + 1].user
        BY <2>2, <2>9
      <4>2. strand[i + 1].user \in ToldUsers /\ \A s \in 1..nses : ses[s].user # strand[i + 1].user
        BY <2>2, <4>1 DEF Order, UsersUnique
      <4>3. strand[i + 1].user # u
        BY <2>2, <2>8, <3>4, <4>1
      <4>4. QED
        BY <2>1, <2>7, <3>1, <4>2, <4>3
    <3>6. \A i, j \in 1..Len(strand') :
              Connects(strand'[i]) /\ Connects(strand'[j]) /\ strand'[i].user = strand'[j].user => i = j
      <4>1. SUFFICES ASSUME NEW i \in 1..Len(strand'), NEW j \in 1..Len(strand'), Connects(strand'[i]),
                            Connects(strand'[j]), strand'[i].user = strand'[j].user
                     PROVE  i = j
        OBVIOUS
      <4>2. i + 1 = j + 1
        BY <2>2, <4>1 DEF Order, UsersUnique
      <4>3. QED
        BY <4>2
    <3>7. QED
      BY <3>2, <3>3, <3>5, <3>6 DEF UsersUnique
  <2>11. \A i \in 1..Len(strand') : OfUser(strand'[i]) =>
            /\ strand'[i].on[2] \in 1..nses /\ OfUser(strand[i + 1]) /\ strand'[i].on[2] = strand[i + 1].on[2]
            /\ ses'[strand'[i].on[2]] = ses[strand[i + 1].on[2]]
    BY <2>1, <2>2, OfUserNames
  <2>12. EndsInOrder'
    <3>1. conn[TunConn(tunnel)] \in {"late", "shut", "failed"} => conn'[TunConn(tunnel)] \in {"late", "shut", "failed"}
      BY <2>5, MadeSoFar DEF TunnelsStay
    <3>2. \A i \in 1..Len(strand') : Final(strand'[i]) => conn'[TunConn(tunnel')] \in {"late", "shut", "failed"}
      BY <1>1, <2>2, <3>1 DEF Order, EndsInOrder
    <3>3. \A i \in 1..Len(strand') : Ends(strand'[i]) => strand'[i].on = TunConn(tunnel')
      BY <1>1, <2>2 DEF Order, EndsInOrder
    <3>4. ASSUME NEW i \in 1..Len(strand'), NEW j \in 1..Len(strand'), Final(strand'[i]), Final(strand'[j])
          PROVE  i = j
      <4>1. i + 1 = j + 1
        BY <2>2, <3>4 DEF Order, EndsInOrder
      <4>2. QED
        BY <4>1
    <3>5. ASSUME NEW i \in 1..Len(strand'), Restarts(strand'[i])
          PROVE  /\ strand'[i] = Ev("reconnect", TunConn(tunnel'))
                 /\ \A v \in DOMAIN users' : ses'[users'[v]].late
                 /\ \A j \in 1..Len(strand') : j > i /\ OfUser(strand'[j]) => ses'[strand'[j].on[2]].late
      <4>1. i + 1 \in 1..Len(strand) /\ strand'[i] = strand[i + 1] /\ Restarts(strand[i + 1])
        BY <2>2, <3>5
      <4>2. /\ strand[i + 1] = Ev("reconnect", TunConn(tunnel))
            /\ \A v \in DOMAIN users : ses[users[v]].late
            /\ \A j \in 1..Len(strand) : j > i + 1 /\ OfUser(strand[j]) => ses[strand[j].on[2]].late
        BY <4>1 DEF Order, EndsInOrder
      <4>3. ASSUME NEW v \in DOMAIN users' PROVE ses'[users'[v]].late
        <5>1. CASE v = u
          BY <2>1, <2>3, <4>1, <5>1
        <5>2. CASE v # u
          <6>1. v \in DOMAIN users /\ users'[v] = users[v] /\ users[v] \in 1..nses
            BY <2>1, <5>2 DEF Shape
          <6>2. QED
            BY <2>1, <4>2, <6>1
        <5>3. QED
          BY <5>1, <5>2
      <4>4. ASSUME NEW j \in 1..Len(strand'), j > i, OfUser(strand'[j])
            PROVE  ses'[strand'[j].on[2]].late
        <5>1. j + 1 > i + 1 /\ j + 1 \in 1..Len(strand)
          BY <2>2, <4>4
        <5>2. QED
          BY <2>11, <4>2, <4>4, <5>1
      <4>5. QED
        BY <1>1, <4>1, <4>2, <4>3, <4>4
    <3>6. QED
      BY <3>2, <3>3, <3>4, <3>5 DEF EndsInOrder
  <2>13. OfThisTunnel'
    <3>1. ASSUME NEW v \in DOMAIN users'
          PROVE  ses'[users'[v]].late \/ ses'[users'[v]].tun = tunnel'
      <4>1. CASE v = u
        BY <1>1, <2>1, <2>3, <4>1
      <4>2. CASE v # u
        <5>1. v \in DOMAIN users /\ users'[v] = users[v]
          BY <2>1, <4>2
        <5>2. users[v] \in 1..nses
          BY <5>1 DEF Shape
        <5>3. QED
          BY <1>1, <2>1, <5>1, <5>2 DEF Order, OfThisTunnel
      <4>3. QED
        BY <4>1, <4>2
    <3>2. ASSUME NEW i \in 1..Len(strand'), OfUser(strand'[i])
          PROVE  ses'[strand'[i].on[2]].late \/ ses'[strand'[i].on[2]].tun = tunnel'
      <4>1. i + 1 \in 1..Len(strand)
        BY <2>2
      <4>2. QED
        BY <1>1, <2>11, <3>2, <4>1 DEF Order, OfThisTunnel
    <3>3. QED
      BY <3>1, <3>2 DEF OfThisTunnel
  <2>14. QED
    BY <2>6, <2>10, <2>12, <2>13 DEF Order
<1>4. QED
  BY <1>2, <1>3, RecvConnectEffect

(* In sum: the order of tunnels, sessions and events is kept. *)
LEMMA OrderStep ==
    ASSUME ~IdsRestart, Shape, Order, NoConnectionForgotten, [Next]_vars
    PROVE  Order'
<1>1. Shape'
  BY ShapeStep
<1>2. CASE QuietStep
  BY <1>1, <1>2, QuietKeepsOrder
<1>3. CASE RunStrand
  BY <1>1, <1>2, <1>3, HandlerIsQuiet, CleaningIsQuiet, OrderTunnelLost, OrderReconnect,
     OrderRecvConnect DEF RunStrand
<1>4. CASE PoolThread
  <2>1. CASE \E c \in Framed : Connected(c) \/ ConnFails(c) \/ ConnectTimeout(c) \/ ConnectedLate(c) \/ RunIo(c)
    BY <1>1, <1>2, <2>1, PoolIsQuiet, SilentIsQuiet, OrderTunnelEnds
  <2>2. CASE \E cmd \in {"CONNECT", "DATA", "DISCONNECT"}, u \in Users : RelaySends(cmd, u)
    BY <1>1, <1>2, <2>2, RelayIsQuiet, OrderAnnounce
  <2>3. CASE \E s \in SessionIds : ServiceConnected(s) \/ ServiceConnectedLate(s) \/ ServiceSends(s) \/ ServiceEnds(s)
    BY <1>1, <1>2, <2>3, SilentIsQuiet, OrderService
  <2>4. QED
    BY <1>2, <1>4, <2>1, <2>2, <2>3, RelayIsQuiet, CleaningIsQuiet DEF PoolThread
<1>5. CASE UNCHANGED vars
  BY <1>2, <1>5, SilentIsQuiet
<1>6. QED
  BY <1>3, <1>4, <1>5 DEF Next
----------------------------------------------------------------------------
(* No open connection is forgotten.  A step that leaves users_ alone does not *)
(* open a closed connection.                                                  *)
EndedStays == /\ \A s \in 1..nses : serv[s] \in Ended => serv'[s] \in Ended
              /\ \A s \in SessionIds : conn[SesConn(s)] \in Ended => conn'[SesConn(s)] \in Ended

(* A connection that has ended stays ended. *)
LEMMA ForgottenKept ==
    ASSUME Shape, NoConnectionForgotten, UNCHANGED <<users, nses>>, EndedStays
    PROVE  NoConnectionForgotten'
<1>1. 1..nses \subseteq SessionIds
  BY MadeSoFar
<1>2. QED
  BY <1>1 DEF NoConnectionForgotten, EndedStays

(* Steps that leave the session table alone forget no connection. *)
LEMMA ForgottenPool ==
    ASSUME Shape, NoConnectionForgotten,
           \/ \E c \in Framed : Connected(c) \/ ConnFails(c) \/ ConnectTimeout(c) \/ ConnectedLate(c) \/ RunIo(c)
           \/ \E cmd \in {"CONNECT", "DATA", "DISCONNECT"}, u \in Users : RelaySends(cmd, u)
           \/ \E cmd \in {"DATA", "DISCONNECT"}, s \in SessionIds : RelaySendsOnSession(cmd, s)
           \/ \E s \in SessionIds : ServiceConnected(s) \/ ServiceConnectedLate(s) \/ ServiceSends(s) \/ ServiceEnds(s)
           \/ OnServerConnect \/ RecvData \/ OnUserRecv \/ OnSessionConnect \/ UNCHANGED vars
    PROVE  NoConnectionForgotten'
<1>1. UNCHANGED <<users, nses>>
  BY OnSessionConnectEffect DEF Connected, ConnFails, ConnectTimeout, ConnectedLate, RunIo, RelaySends,
     RelaySendsOnSession, ServiceConnected, ServiceConnectedLate, ServiceSends, ServiceEnds,
     OnServerConnect, RecvData, OnUserRecv, vars
<1>2. \/ UNCHANGED conn
      \/ \E c \in Framed : \E v : conn[c] \notin Ended /\ conn' = [conn EXCEPT ![c] = v]
  BY OnSessionConnectEffect DEF Connected, ConnFails, ConnectTimeout, ConnectedLate, RunIo, RelaySends,
     RelaySendsOnSession, ServiceConnected, ServiceConnectedLate, ServiceSends, ServiceEnds,
     OnServerConnect, RecvData, OnUserRecv, vars, Ended
<1>3. \/ UNCHANGED serv
      \/ \E s, v : (serv[s] \in Ended => v \in Ended) /\ serv' = [serv EXCEPT ![s] = v]
  BY OnSessionConnectEffect DEF Connected, ConnFails, ConnectTimeout, ConnectedLate, RunIo, RelaySends,
     RelaySendsOnSession, ServiceConnected, ServiceConnectedLate, ServiceSends, ServiceEnds,
     OnServerConnect, RecvData, OnUserRecv, vars, Ended
<1>4. EndedStays
  <2>1. conn \in [Framed -> ConnState] /\ serv \in [1..nses -> ConnState]
    BY DEF Shape
  <2>2. \A s \in 1..nses : serv[s] \in Ended => serv'[s] \in Ended
    BY <1>3, <2>1
  <2>3. \A s \in SessionIds : conn[SesConn(s)] \in Ended => conn'[SesConn(s)] \in Ended
    BY <1>2, <2>1, MadeSoFar
  <2>4. QED
    BY <2>2, <2>3 DEF EndedStays
<1>5. QED
  BY <1>1, <1>4, ForgottenKept

(* The session that cleaning drops from users_ is the one it closes: users_   *)
(* has it under a number that no other session has.                           *)
LEMMA DroppedIsCleaned ==
    ASSUME Shape, UsersMatch, UsersUnique, NEW s \in 1..nses, Cleans(s),
           NEW u \in DOMAIN users, u \notin DOMAIN users'
    PROVE  users[u] = s /\ Finished(ses'[s])
<1>1. u = ses[s].user /\ Finished(ses'[s])
  BY DEF Cleans
<1>2. users[u] \in 1..nses /\ ses[users[u]].user = u
  BY DEF UsersMatch, Shape
<1>3. QED
  BY <1>1, <1>2 DEF UsersUnique

(* A session is erased only with both its connections ended. *)
LEMMA ForgottenCleans ==
    ASSUME Shape, UsersMatch, UsersUnique, NoConnectionForgotten, NEW s \in 1..nses, Cleans(s)
    PROVE  NoConnectionForgotten'
<1>1. SUFFICES ASSUME NEW t \in 1..nses, t \notin Values(users')
               PROVE  serv'[t] \in Ended /\ conn'[SesConn(t)] \in Ended
  BY DEF NoConnectionForgotten, Cleans
<1>2. CASE t \in Values(users)
  <2>1. PICK u \in DOMAIN users : users[u] = t
    BY <1>2 DEF Values
  <2>2. u \notin DOMAIN users'
    BY <1>1, <2>1 DEF Values, Cleans
  <2>3. t = s /\ Finished(ses'[s])
    BY <2>1, <2>2, DroppedIsCleaned
  <2>4. QED
    BY <2>3 DEF Cleans
<1>3. CASE t \notin Values(users)
  <2>1. serv[t] \in Ended /\ conn[SesConn(t)] \in Ended
    BY <1>3 DEF NoConnectionForgotten
  <2>2. SesConn(t) \in Framed
    BY MadeSoFar
  <2>3. conn'[SesConn(t)] \in Ended \cup {conn[SesConn(t)]} /\ serv'[t] \in Ended \cup {serv[t]}
    BY <2>2 DEF Cleans, ClosesAtMost
  <2>4. QED
    BY <2>1, <2>3
<1>4. QED
  BY <1>2, <1>3

(* Every step keeps the connections known or ended. *)
LEMMA ForgottenStep ==
    ASSUME Shape, UsersMatch, Order, NoConnectionForgotten, [Next]_vars
    PROVE  NoConnectionForgotten'
<1>1. CASE OnServerDisconnect
  <2>1. UNCHANGED nses /\ 1..nses \subseteq SessionIds
    BY <1>1, TunnelLostEffect, MadeSoFar
  <2>2. \A s \in 1..nses : serv'[s] \in Ended /\ conn'[SesConn(s)] \in Ended
    <3>1. TAKE s \in 1..nses
    <3>2. CASE s \in Values(users)
      BY <1>1, <2>1, <3>2, TunnelLostEffect
    <3>3. CASE s \notin Values(users)
      <4>1. serv'[s] = serv[s] /\ conn'[SesConn(s)] = conn[SesConn(s)]
        BY <1>1, <2>1, <3>3, TunnelLostEffect
      <4>2. QED
        BY <3>3, <4>1 DEF NoConnectionForgotten
    <3>4. QED
      BY <3>2, <3>3
  <2>3. QED
    BY <2>1, <2>2 DEF NoConnectionForgotten
<1>2. CASE Reconnect
  <2>1. UNCHANGED <<users, nses, serv>>
    BY <1>2, ReconnectEffect
  <2>2. \A s \in SessionIds : conn'[SesConn(s)] = conn[SesConn(s)]
    BY <1>2, ReconnectEffect, MadeSoFar, Names
  <2>3. EndedStays
    BY <2>1, <2>2 DEF EndedStays
  <2>4. QED
    BY <2>1, <2>3, ForgottenKept
<1>3. CASE RecvConnect
  <2>1. CASE UNCHANGED <<users, ses, nses, conn, serv>>
    BY <2>1 DEF NoConnectionForgotten
  <2>2. CASE Head(strand).user \notin DOMAIN users
    <3>1. /\ nses \in Nat /\ nses' = nses + 1 /\ Head(strand).user \in DOMAIN users'
          /\ users'[Head(strand).user] = nses + 1
          /\ \A u \in DOMAIN users : u \in DOMAIN users' /\ users'[u] = users[u]
          /\ \A c \in Framed : c # SesConn(nses + 1) => conn'[c] = conn[c]
          /\ \A s \in 1..nses : serv'[s] = serv[s]
      BY <1>3, <2>2, RecvConnectEffect, MadeSoFar
    <3>2. SUFFICES ASSUME NEW s \in 1..nses', s \notin Values(users')
                   PROVE  serv'[s] \in Ended /\ conn'[SesConn(s)] \in Ended
      BY DEF NoConnectionForgotten
    <3>3. s # nses + 1 /\ s \notin Values(users)
      BY <3>1, <3>2 DEF Values
    <3>4. s \in 1..nses
      BY <3>1, <3>3
    <3>5. SesConn(s) \in Framed /\ SesConn(s) # SesConn(nses + 1)
      BY <3>3, <3>4, MadeSoFar, Names
    <3>6. QED
      BY <3>1, <3>3, <3>4, <3>5 DEF NoConnectionForgotten
  <2>3. QED
    BY <1>3, <2>1, <2>2, RecvConnectEffect
<1>4. CASE \/ RecvDisconnect \/ OnSessionDisconnect \/ OnUserDisconnect
           \/ \E e \in pending : SendDone(e[1], e[2])
  <2>1. CASE UNCHANGED <<tunnel, nses, told, users, ses, conn, serv>>
    BY <2>1 DEF NoConnectionForgotten
  <2>2. CASE \E s \in 1..nses : Cleans(s)
    BY <2>2, ForgottenCleans DEF Order
  <2>3. QED
    BY <1>4, <2>1, <2>2, CleaningCleans
<1>5. QED
  BY <1>1, <1>2, <1>3, <1>4, ForgottenPool DEF Next, RunStrand, PoolThread
----------------------------------------------------------------------------
(* The agent speaks of a session on its own connections.  A session stays of  *)
(* the CONNECT that made it, as every step leaves it.                         *)
LEMMA OriginStaysStep ==
    ASSUME Shape, [Next]_vars
    PROVE  OriginStays
<1>1. CASE UNCHANGED ses
  BY <1>1 DEF OriginStays
<1>2. CASE RecvConnect
  BY <1>1, <1>2, RecvConnectEffect DEF OriginStays
<1>3. CASE OnSessionConnect
  BY <1>3, HandlerIsQuiet DEF QuietStep, SessionsStay
<1>4. CASE \/ RecvDisconnect \/ OnSessionDisconnect \/ OnUserDisconnect
           \/ \E e \in pending : SendDone(e[1], e[2])
  BY <1>4, CleaningIsQuiet DEF QuietStep, SessionsStay
<1>5. CASE OnServerDisconnect \/ Reconnect
  BY <1>1, <1>5, TunnelLostEffect, ReconnectEffect
<1>6. QED
  BY <1>1, <1>2, <1>3, <1>4, <1>5 DEF Next, RunStrand, PoolThread, vars, OnServerConnect, RecvData,
     OnUserRecv, Connected, ConnFails, ConnectTimeout, ConnectedLate, RunIo, RelaySends,
     RelaySendsOnSession, ServiceConnected, ServiceConnectedLate, ServiceSends, ServiceEnds

(* ... so what was its own connection remains so. *)
LEMMA OwnStays ==
    ASSUME OriginStays, NEW s \in 1..nses, NEW c, Own(c, s)
    PROVE  c = SesConn(s) \/ c = TunConn(ses'[s].tun) \/ ses'[s].late
BY DEF OriginStays, Own

(* Work that waits is of a session that was made. *)
LEMMA WorkOf ==
    ASSUME Shape, NEW c \in Framed, NEW i \in 1..Len(io[c]), io[c][i].cmd # "BIND"
    PROVE  io[c][i].ses \in 1..nses
<1>1. io[c] \in Seq(LiveWork(nses))
  BY DEF Shape
<1>2. io[c][i] \in LiveWork(nses)
  BY <1>1
<1>3. QED
  BY <1>2, WorkCases

(* What was posted to its own connection stays there, *)
LEMMA IoKept ==
    ASSUME Shape, IoIsOwn, OriginStays,
           \A c \in Framed : \A i \in 1..Len(io'[c]) :
              \/ io'[c][i].cmd = "BIND"
              \/ \E j \in 1..Len(io[c]) : io'[c][i] = io[c][j]
              \/ \E s \in 1..nses : io'[c][i].ses = s /\ Own(c, s)
    PROVE  IoIsOwn'
<1>1. SUFFICES ASSUME NEW c \in Framed, NEW i \in 1..Len(io'[c]), io'[c][i].cmd # "BIND"
               PROVE  \/ c = SesConn(io'[c][i].ses) \/ c = TunConn(ses'[io'[c][i].ses].tun)
                      \/ ses'[io'[c][i].ses].late
  BY DEF IoIsOwn, Own
<1>2. PICK s \in 1..nses : io'[c][i].ses = s /\ Own(c, s)
  <2>1. CASE \E j \in 1..Len(io[c]) : io'[c][i] = io[c][j]
    BY <1>1, <2>1, WorkOf DEF IoIsOwn
  <2>2. QED
    BY <1>1, <2>1
<1>3. QED
  BY <1>2, OwnStays

(* What is posted is the last in the queue. *)
LEMMA PostedWork ==
    ASSUME Shape, NEW b \in Framed, NEW cmd, NEW s, SendOn(b, cmd, s)
    PROVE  \A c \in Framed : \A i \in 1..Len(io'[c]) :
              \/ \E j \in 1..Len(io[c]) : io'[c][i] = io[c][j]
              \/ c = b /\ io'[c][i].cmd = cmd /\ io'[c][i].ses = s
<1>1. TAKE c \in Framed
<1>2. io[c] \in Seq(LiveWork(nses))
  BY DEF Shape
<1>3. CASE c # b
  BY <1>3, SendOnOne
<1>4. CASE c = b
  <2> DEFINE w == [cmd |-> cmd, ses |-> s]
  <2>1. w.cmd = cmd /\ w.ses = s
    OBVIOUS
  <2>2. io'[c] = Append(io[c], w)
    BY <1>4, SendOnOne
  <2> HIDE DEF w
  <2>3. \A i \in 1..Len(io'[c]) : (i \in 1..Len(io[c]) /\ io'[c][i] = io[c][i]) \/ io'[c][i] = w
    BY <1>2, <2>2
  <2>4. QED
    BY <1>4, <2>1, <2>3
<1>5. QED
  BY <1>3, <1>4

(* what is posted is posted to its own connection, *)
LEMMA IoSendOn ==
    ASSUME Shape, IoIsOwn, OriginStays, NEW c \in Framed, NEW cmd, NEW s, SendOn(c, cmd, s),
           cmd = "BIND" \/ (s \in 1..nses /\ Own(c, s))
    PROVE  IoIsOwn'
BY PostedWork, IoKept

(* An event of a service speaks of a session of this tunnel, or a late one. *)
LEMMA RouteIsOwn ==
    ASSUME Shape, OfThisTunnel, strand # << >>, NEW s \in 1..nses,
           Head(strand).ev \in {"recv", "disconnect"}, Head(strand).on = UserConn(s)
    PROVE  Own(Route(s), s)
<1>1. strand \in Seq(LiveEvent(nses))
  BY DEF Shape
<1>2. 1 \in 1..Len(strand) /\ strand[1] = Head(strand)
  BY <1>1
<1>3. OfUser(strand[1]) /\ strand[1].on[2] = s
  BY <1>2, Names DEF OfUser
<1>4. ses[s].late \/ ses[s].tun = tunnel
  BY <1>2, <1>3 DEF OfThisTunnel
<1>5. QED
  BY <1>4 DEF Own, Route

(* so nothing is ever posted to another connection. *)
LEMMA IoIsOwnStep ==
    ASSUME Shape, Order, IoIsOwn, [Next]_vars
    PROVE  IoIsOwn'
<1>0. OriginStays
  BY OriginStaysStep
<1>1. CASE UNCHANGED io
  BY <1>0, <1>1, IoKept
<1>2. CASE OnServerConnect
  <2>1. SendOn(TunConn(tunnel), "BIND", 0)
    BY <1>2 DEF OnServerConnect
  <2>2. QED
    BY <1>0, <2>1, IoSendOn, MadeSoFar
<1>3. CASE OnSessionConnect
  <2>1. PICK s \in 1..nses : SendOn(SesConn(s), "SESSION", s)
    BY <1>3, OnSessionConnectEffect
  <2>2. SesConn(s) \in Framed /\ Own(SesConn(s), s)
    BY MadeSoFar DEF Own
  <2>3. QED
    BY <1>0, <2>1, <2>2, IoSendOn
<1>4. CASE OnUserRecv
  <2>1. PICK s \in 1..nses : Head(strand).on = UserConn(s) /\ SendOn(Route(s), "DATA", s)
    BY <1>4, OnUserRecvEffect
  <2>2. Own(Route(s), s) /\ Route(s) \in Framed
    BY <1>4, <2>1, OnUserRecvEffect, RouteIsOwn, RouteIsFramed DEF Order
  <2>3. QED
    BY <1>0, <2>1, <2>2, IoSendOn
<1>5. CASE OnUserDisconnect
  <2>1. PICK s \in 1..nses : Head(strand).on = UserConn(s) /\ SendOn(Route(s), "DISCONNECT", s)
    BY <1>5, OnUserDisconnectCleans
  <2>2. strand # << >> /\ Head(strand).ev = "disconnect"
    BY <1>5 DEF OnUserDisconnect, NextIs
  <2>3. Own(Route(s), s) /\ Route(s) \in Framed
    BY <2>1, <2>2, RouteIsOwn, RouteIsFramed DEF Order
  <2>4. QED
    BY <1>0, <2>1, <2>3, IoSendOn
<1>6. CASE \E c \in Framed : RunIo(c)
  <2>1. PICK c \in Framed : RunIo(c)
    BY <1>6
  <2>2. \A b \in Framed : \A i \in 1..Len(io'[b]) : \E j \in 1..Len(io[b]) : io'[b][i] = io[b][j]
    <3>1. TAKE b \in Framed
    <3>2. io[b] \in Seq(LiveWork(nses))
      BY DEF Shape
    <3>3. io'[b] = io[b] \/ (io[b] # << >> /\ io'[b] = Tail(io[b]))
      BY <2>1, RunIoEffect
    <3>4. CASE io'[b] = io[b]
      BY <3>4
    <3>5. CASE io[b] # << >> /\ io'[b] = Tail(io[b])
      <4>1. \A i \in 1..Len(Tail(io[b])) : i + 1 \in 1..Len(io[b]) /\ Tail(io[b])[i] = io[b][i + 1]
        BY <3>2, <3>5
      <4>2. QED
        BY <3>5, <4>1
    <3>6. QED
      BY <3>3, <3>4, <3>5
  <2>3. QED
    BY <1>0, <2>2, IoKept
<1>7. CASE OnServerDisconnect \/ Reconnect \/ RecvConnect \/ RecvDisconnect \/ OnSessionDisconnect
           \/ \E e \in pending : SendDone(e[1], e[2])
  BY <1>1, <1>7, TunnelLostEffect, ReconnectEffect, RecvConnectEffect, RecvDisconnectCleans,
     OnSessionDisconnectCleans, SendDoneCleans
<1>8. QED
  BY <1>1, <1>2, <1>3, <1>4, <1>5, <1>6, <1>7 DEF Next, RunStrand, PoolThread, vars, RecvData,
     Connected, ConnFails, ConnectTimeout, ConnectedLate, RelaySends, RelaySendsOnSession,
     ServiceConnected, ServiceConnectedLate, ServiceSends, ServiceEnds

(* What is written is what was posted. *)
LEMMA SpeaksStep ==
    ASSUME Shape, IoIsOwn, SpeaksOnOwnConnections, [Next]_vars
    PROVE  SpeaksOnOwnConnections'
<1>0. OriginStays
  BY OriginStaysStep
<1>1. \/ wire' = wire
      \/ \E c \in Framed : \E i \in 1..Len(io[c]) :
            io[c][i].cmd # "BIND" /\ wire' = wire \cup {<<c, io[c][i].cmd, io[c][i].ses>>}
  <2>1. ASSUME NEW c \in Framed, RunIo(c), wire' # wire
        PROVE  \E i \in 1..Len(io[c]) :
                  io[c][i].cmd # "BIND" /\ wire' = wire \cup {<<c, io[c][i].cmd, io[c][i].ses>>}
    <3>1. /\ io[c] # << >> /\ Head(io[c]).cmd # "BIND"
          /\ wire' = wire \cup {<<c, Head(io[c]).cmd, Head(io[c]).ses>>}
      BY <2>1, RunIoEffect
    <3>2. io[c] \in Seq(LiveWork(nses))
      BY DEF Shape
    <3>3. 1 \in 1..Len(io[c]) /\ io[c][1] = Head(io[c])
      BY <3>1, <3>2
    <3>4. QED
      BY <3>1, <3>3
  <2>2. CASE OnServerDisconnect \/ Reconnect \/ RecvConnect \/ RecvDisconnect \/ OnSessionDisconnect
             \/ OnUserDisconnect \/ OnSessionConnect \/ \E e \in pending : SendDone(e[1], e[2])
    BY <2>2, TunnelLostEffect, ReconnectEffect, RecvConnectEffect, RecvDisconnectCleans,
       OnSessionDisconnectCleans, OnUserDisconnectCleans, OnSessionConnectEffect, SendDoneCleans
  <2>3. QED
    BY <2>1, <2>2 DEF Next, RunStrand, PoolThread, vars, OnServerConnect, RecvData, OnUserRecv,
       Connected, ConnFails, ConnectTimeout, ConnectedLate, RelaySends, RelaySendsOnSession,
       ServiceConnected, ServiceConnectedLate, ServiceSends, ServiceEnds
<1>2. ASSUME NEW m \in wire
      PROVE  m[1] = SesConn(m[3]) \/ m[1] = TunConn(ses'[m[3]].tun) \/ ses'[m[3]].late
  <2>1. wire \subseteq Framed \X Cmd \X (1..nses)
    BY DEF Shape
  <2>2. m[3] \in 1..nses
    BY <1>2, <2>1
  <2>3. Own(m[1], m[3])
    BY <1>2 DEF SpeaksOnOwnConnections, Own
  <2>4. QED
    BY <1>0, <2>2, <2>3, OwnStays
<1>3. CASE wire' = wire
  BY <1>2, <1>3 DEF SpeaksOnOwnConnections
<1>4. CASE \E c \in Framed : \E i \in 1..Len(io[c]) :
              io[c][i].cmd # "BIND" /\ wire' = wire \cup {<<c, io[c][i].cmd, io[c][i].ses>>}
  <2>0. PICK c \in Framed : \E i \in 1..Len(io[c]) :
              io[c][i].cmd # "BIND" /\ wire' = wire \cup {<<c, io[c][i].cmd, io[c][i].ses>>}
    BY <1>4
  <2>1. PICK i \in 1..Len(io[c]) :
              io[c][i].cmd # "BIND" /\ wire' = wire \cup {<<c, io[c][i].cmd, io[c][i].ses>>}
    BY <2>0
  <2>2. PICK s \in 1..nses : io[c][i].ses = s /\ Own(c, s)
    BY <2>1, WorkOf DEF IoIsOwn
  <2>3. c = SesConn(s) \/ c = TunConn(ses'[s].tun) \/ ses'[s].late
    BY <1>0, <2>2, OwnStays
  <2>4. \A m \in wire' : m \in wire \/ (m[1] = c /\ m[3] = s)
    BY <2>1, <2>2
  <2>5. QED
    BY <1>2, <2>3, <2>4 DEF SpeaksOnOwnConnections
<1>5. QED
  BY <1>1, <1>3, <1>4
----------------------------------------------------------------------------
(* The invariant holds at the start, ... *)
LEMMA OwnInit == Init => OwnIInv
<1> SUFFICES ASSUME Init PROVE OwnIInv
  OBVIOUS
<1>1. nses = 0 /\ strand = << >> /\ tunnel = 1 /\ wire = {} /\ DOMAIN users = {}
  BY DEF Init
<1>2. UsersUnique /\ EndsInOrder /\ OfThisTunnel /\ NoConnectionForgotten /\ SpeaksOnOwnConnections
  BY <1>1 DEF UsersUnique, EndsInOrder, OfThisTunnel, NoConnectionForgotten, SpeaksOnOwnConnections
<1>3. TunnelStates
  <2>1. \A n \in 1..MaxTunnels : TunConn(n) \in Framed /\ ~(n < 1) /\ (n > 1 => TunConn(n) # TunConn(1))
    BY Connections, Names, ConstantsAssumption
  <2>2. \A n \in 1..MaxTunnels : n > tunnel => conn[TunConn(n)] = "none"
    BY <1>1, <2>1 DEF Init
  <2>3. QED
    BY <1>1, <2>1, <2>2 DEF TunnelStates
<1>4. IoIsOwn
  BY DEF Init, IoIsOwn
<1>5. QED
  BY <1>2, <1>3, <1>4 DEF OwnIInv, Order

(* With the shape of the state and the facts about users_ it is inductive. *)
AgentIInv == Shape /\ UsersOk /\ OwnIInv

(* The invariant holds when the agent starts. *)
LEMMA AgentInit == Init => AgentIInv
<1>1. Init => UsersOk
  BY DEF Init, UsersOk, UsersMatch, NoFinishedSessionKept
<1>2. QED
  BY <1>1, ShapeInit, OwnInit DEF AgentIInv

(* Every step keeps it, as long as user numbers are not given twice. *)
LEMMA AgentStep ==
    ASSUME ~IdsRestart, AgentIInv, [Next]_vars
    PROVE  AgentIInv'
<1>1. Shape' /\ UsersOk'
  BY ShapeStep, UsersOkStep DEF AgentIInv
<1>2. Order' /\ NoConnectionForgotten'
  BY OrderStep, ForgottenStep DEF AgentIInv, OwnIInv, UsersOk
<1>3. IoIsOwn' /\ SpeaksOnOwnConnections'
  BY IoIsOwnStep, SpeaksStep DEF AgentIInv, OwnIInv
<1>4. QED
  BY <1>1, <1>2, <1>3 DEF AgentIInv, OwnIInv

(* So it always holds. *)
LEMMA AgentInvariant ==
    ASSUME ~IdsRestart
    PROVE  Spec => []AgentIInv
<1>1. AgentIInv /\ [Next]_vars => AgentIInv'
  BY AgentStep
<1>2. QED
  BY <1>1, AgentInit, PTL DEF Spec

(* When the relay numbers every user of its own, a session that users_ no     *)
(* longer has is closed on both sides: neither __CleanSession, whoever calls  *)
(* it, nor __OnServerDisconnect forgets a connection that is open.            *)
THEOREM NothingForgotten ==
    ASSUME ~IdsRestart
    PROVE  Spec => []NoConnectionForgotten
<1>1. AgentIInv => NoConnectionForgotten
  BY DEF AgentIInv, OwnIInv
<1>2. QED
  BY <1>1, AgentInvariant, PTL

(* And what the agent writes about a session it writes to the connection of   *)
(* that session or to the tunnel that announced it: the events that wait when *)
(* a tunnel is lost never speak on the one that replaces it.  The exception   *)
(* are the sessions of a CONNECT that is handled after __OnServerDisconnect   *)
(* has dropped the users of its tunnel, and no others.                        *)
THEOREM SpeaksOnItsOwn ==
    ASSUME ~IdsRestart
    PROVE  Spec => []SpeaksOnOwnConnections
<1>1. AgentIInv => SpeaksOnOwnConnections
  BY DEF AgentIInv, OwnIInv
<1>2. QED
  BY <1>1, AgentInvariant, PTL

(* And a session leaves users_ only with all others when their tunnel is      *)
(* lost, or when both of its own sides are gone: a send callback that comes   *)
(* late never takes another user's session with it.                           *)
THEOREM DroppedWhenFinished ==
    ASSUME ~IdsRestart
    PROVE  Spec => SessionsDroppedOnlyWhenFinished
<1> DEFINE Keeps(u) == LET r == ses'[users[u]] IN
                       \/ NextIs("disconnect") /\ Head(strand).on = TunConn(tunnel)
                       \/ r.user_disconnected /\ r.tunnel_disconnected
           DroppedOk == \A u \in DOMAIN users : u \notin DOMAIN users' => Keeps(u)
<1>1. AgentIInv /\ [Next]_vars => [DroppedOk]_vars
  <2> SUFFICES ASSUME AgentIInv, [Next]_vars, NEW u \in DOMAIN users, u \notin DOMAIN users'
               PROVE  Keeps(u)
    OBVIOUS
  <2> USE DEF AgentIInv, OwnIInv, Order, UsersOk
  <2>1. CASE \E s \in 1..nses : Cleans(s)
    <3>1. PICK s \in 1..nses : Cleans(s)
      BY <2>1
    <3>2. users[u] = s /\ Finished(ses'[s])
      BY <3>1, DroppedIsCleaned
    <3>3. QED
      BY <3>2 DEF Finished
  <2>2. CASE OnServerDisconnect
    <3>1. NextIs("disconnect") /\ Head(strand).on \in Tunnels
      BY <2>2, TunnelLostEffect
    <3>2. strand \in Seq(LiveEvent(nses)) /\ strand # << >>
      BY <3>1 DEF Shape, NextIs
    <3>3. 1 \in 1..Len(strand) /\ strand[1] = Head(strand)
      BY <3>2
    <3>4. Ends(strand[1])
      BY <3>1, <3>3 DEF Ends, NextIs
    <3>5. Head(strand).on = TunConn(tunnel)
      BY <3>3, <3>4 DEF EndsInOrder
    <3>6. QED
      BY <3>1, <3>5
  <2>3. CASE RecvConnect
    BY <2>3, RecvConnectEffect
  <2>4. CASE Reconnect \/ OnSessionConnect
    BY <2>4, ReconnectEffect, OnSessionConnectEffect
  <2>5. CASE \/ RecvDisconnect \/ OnSessionDisconnect \/ OnUserDisconnect
             \/ \E e \in pending : SendDone(e[1], e[2])
    BY <2>1, <2>5, CleaningCleans
  <2>6. users' = users => FALSE
    OBVIOUS
  <2>7. QED
    BY <2>2, <2>3, <2>4, <2>5, <2>6 DEF Next, RunStrand, PoolThread, vars, OnServerConnect, RecvData,
       OnUserRecv, Connected, ConnFails, ConnectTimeout, ConnectedLate, RunIo, RelaySends,
       RelaySendsOnSession, ServiceConnected, ServiceConnectedLate, ServiceSends, ServiceEnds
<1>2. QED
  BY <1>1, AgentInvariant, PTL DEF Spec, SessionsDroppedOnlyWhenFinished
=============================================================================
