---------------------------- MODULE AgentProofs ----------------------------
(* Proofs about Agent, for every value of its constants. *)
EXTENDS Agent, TLAPS

----------------------------------------------------------------------------
(* The inductive invariant: Shape /\ SessionNext /\ UsersOk.                   *)

(* The events and the work that refer to sessions made so far: n of them.     *)
SesConns(n)  == {SesConn(s) : s \in 1..n}
UserConns(n) == {UserConn(s) : s \in 1..n}
LiveEvent(n) ==
    [ev : {"connect"}, on : Tunnels \cup SesConns(n)]
    \cup [ev : {"disconnect"}, on : Tunnels \cup SesConns(n) \cup UserConns(n)]
    \cup [ev : {"recv"}, on : UserConns(n)] \cup [ev : {"reconnect"}, on : Tunnels]
    \cup [ev : {"CONNECT"}, on : Tunnels, user : Users]
    \cup [ev : {"DATA", "DISCONNECT"}, on : Framed, user : Users]
LiveWork(n) == [cmd : {"BIND"}, ses : {0}]
               \cup [cmd : {"SESSION", "DATA", "DISCONNECT"}, ses : 1..n]

(* TypeOK, and nothing refers to a session that has not been made. *)
Shape ==
    /\ tunnel \in 1..MaxTunnels /\ nses \in 0..MaxSessions
    /\ DOMAIN users \subseteq Users /\ users \in [DOMAIN users -> 1..nses]
    /\ ses \in [1..nses -> Session]
    /\ conn \in [Framed -> ConnState] /\ serv \in [1..nses -> ConnState]
    /\ strand \in Seq(LiveEvent(nses))
    /\ io \in [Framed -> Seq(LiveWork(nses))]
    /\ pending \subseteq Conns \X (1..nses)
    /\ wire \subseteq Framed \X Cmd \X (1..nses)
    /\ told \subseteq (1..MaxTunnels) \X Users
    /\ crashed \in {"no", "sendv", "late connect"}
    /\ \A s \in SessionIds : s > nses => conn[SesConn(s)] = "none"

(* A session connection on which nothing was written yet: SESSION is the next *)
(* that will be, or nothing ever, or the connection is not yet in use.        *)
SessionMsg(s) == [cmd |-> "SESSION", ses |-> s]
Unused(s) ==
    /\ \A m \in wire : m[1] # SesConn(s)
    /\ \/ conn[SesConn(s)] \in Ended \cup {"shut", "failed"}
       \/ io[SesConn(s)] = << >> /\ (s <= nses => ~ses[s].ready)
       \/ io[SesConn(s)] # << >> /\ Head(io[SesConn(s)]) = SessionMsg(s)
SessionNext == \A s \in SessionIds : <<SesConn(s), "SESSION", s>> \in wire \/ Unused(s)

(* users_ has sessions under the number of their user, and none is finished. *)
UsersMatch == \A u \in DOMAIN users : ses[users[u]].user = u
UsersOk == UsersMatch /\ NoFinishedSessionKept

----------------------------------------------------------------------------
(* The names of connections tell their kind and their number. *)
LEMMA Names ==
    /\ \A s, t : SesConn(s) = SesConn(t) => s = t
    /\ \A m, n : TunConn(m) = TunConn(n) => m = n
    /\ \A s, t : UserConn(s) = UserConn(t) => s = t
    /\ \A s, n : SesConn(s) # TunConn(n) /\ UserConn(s) # TunConn(n)
    /\ \A s, t : SesConn(s) # UserConn(t)
    /\ \A s : SesConn(s)[1] = "session" /\ SesConn(s)[2] = s
    /\ \A s : UserConn(s)[1] = "user" /\ UserConn(s)[2] = s
    /\ \A n : TunConn(n)[1] = "tunnel" /\ TunConn(n)[2] = n
BY DEF SesConn, TunConn, UserConn

(* The sets of connections, in terms of their names. *)
LEMMA Connections ==
    /\ \A c : c \in Tunnels <=> \E n \in 1..MaxTunnels : c = TunConn(n)
    /\ \A n : \A c : c \in SesConns(n) <=> \E s \in 1..n : c = SesConn(s)
    /\ \A n : \A c : c \in UserConns(n) <=> \E s \in 1..n : c = UserConn(s)
    /\ \A c : c \in Framed <=> c \in Tunnels \/ \E s \in SessionIds : c = SesConn(s)
    /\ \A c : c \in Conns <=> c \in Framed \/ \E s \in SessionIds : c = UserConn(s)
BY DEF Tunnels, SesConns, UserConns, Framed, Conns, TunConn

(* A tunnel is not the connection of a session or of a service. *)
LEMMA TunnelsApart ==
    /\ \A s : SesConn(s) \notin Tunnels /\ UserConn(s) \notin Tunnels
    /\ \A n : SesConns(n) \cap Tunnels = {} /\ UserConns(n) \cap Tunnels = {}
    /\ \A n : SesConns(n) \cap UserConns(n) = {}
    /\ \A c \in Tunnels : c[1] = "tunnel"
<1>1. \A s : SesConn(s) \notin Tunnels /\ UserConn(s) \notin Tunnels
  BY Names, Connections
<1>2. QED
  BY <1>1, Names, Connections

(* Sessions made so far are among all sessions. *)
LEMMA MadeSoFar ==
    ASSUME Shape
    PROVE  /\ MaxSessions \in Nat /\ nses \in Nat /\ 1..nses \subseteq SessionIds
           /\ SesConns(nses) \subseteq Framed /\ UserConns(nses) \subseteq Conns /\ Tunnels \subseteq Framed
           /\ \A s \in SessionIds : SesConn(s) \in Framed
           /\ \A n \in 1..MaxTunnels : TunConn(n) \in Framed
           /\ tunnel \in 1..MaxTunnels /\ TunConn(tunnel) \in Framed /\ TunConn(tunnel) \in Tunnels
<1>0. MaxSessions \in Nat /\ nses \in 0..MaxSessions /\ tunnel \in 1..MaxTunnels
  BY ConstantsAssumption DEF Shape
<1>1. nses \in Nat /\ 1..nses \subseteq SessionIds
  BY <1>0 DEF SessionIds
<1>2. QED
  BY <1>0, <1>1, Connections

(* What an event is of. *)
LEMMA EventCases ==
    ASSUME NEW n, NEW e \in LiveEvent(n)
    PROVE  /\ e.ev \in {"connect", "disconnect", "recv", "reconnect", "CONNECT", "DATA", "DISCONNECT"}
           /\ e.ev = "connect" => e.on \in Tunnels \cup SesConns(n)
           /\ e.ev = "disconnect" => e.on \in Tunnels \cup SesConns(n) \cup UserConns(n)
           /\ e.ev = "recv" => e.on \in UserConns(n)
           /\ e.ev = "reconnect" => e.on \in Tunnels
           /\ e.ev \in {"CONNECT", "DATA", "DISCONNECT"} => e.on \in Framed /\ e.user \in Users
           /\ e.ev = "CONNECT" => e.on \in Tunnels
BY Connections DEF LiveEvent

(* What may be posted. *)
LEMMA EventIntro ==
    ASSUME NEW n
    PROVE  /\ \A c \in Tunnels \cup SesConns(n) : Ev("connect", c) \in LiveEvent(n)
           /\ \A c \in Tunnels \cup SesConns(n) \cup UserConns(n) : Ev("disconnect", c) \in LiveEvent(n)
           /\ \A c \in UserConns(n) : Ev("recv", c) \in LiveEvent(n)
           /\ \A c \in Tunnels : Ev("reconnect", c) \in LiveEvent(n)
           /\ \A c \in Tunnels, u \in Users : R2AMsg("CONNECT", c, u) \in LiveEvent(n)
           /\ \A cmd \in {"DATA", "DISCONNECT"}, c \in Framed, u \in Users :
                 R2AMsg(cmd, c, u) \in LiveEvent(n)
BY DEF LiveEvent, Ev, R2AMsg

(* The fields of events and of messages. *)
LEMMA EventFields ==
    /\ \A e, c : Ev(e, c).ev = e /\ Ev(e, c).on = c
    /\ \A cmd, c, u : R2AMsg(cmd, c, u).ev = cmd /\ R2AMsg(cmd, c, u).on = c /\ R2AMsg(cmd, c, u).user = u
BY DEF Ev, R2AMsg

(* The events, and the work, of n sessions are among those of n + 1. *)
LEMMA LiveGrows ==
    ASSUME NEW n \in Nat
    PROVE  LiveEvent(n) \subseteq LiveEvent(n + 1) /\ LiveWork(n) \subseteq LiveWork(n + 1)
<1>1. 1..n \subseteq 1..(n + 1)
  OBVIOUS
<1>2. SesConns(n) \subseteq SesConns(n + 1) /\ UserConns(n) \subseteq UserConns(n + 1)
  BY <1>1 DEF SesConns, UserConns
<1>3. LiveWork(n) \subseteq LiveWork(n + 1)
  BY <1>1 DEF LiveWork
<1>4. LiveEvent(n) \subseteq LiveEvent(n + 1)
  BY <1>2 DEF LiveEvent
<1>5. QED
  BY <1>3, <1>4

(* A queue keeps its type when there are more things it may hold. *)
LEMMA SeqGrows ==
    ASSUME NEW S, NEW T, S \subseteq T, NEW q \in Seq(S)
    PROVE  q \in Seq(T)
OBVIOUS

(* CloseConn yields the state of a closed connection. *)
LEMMA CloseConnEnds ==
    \A c : CloseConn(c) \in Ended /\ CloseConn(c) \in ConnState
BY DEF CloseConn, Ended, ConnState

----------------------------------------------------------------------------
(* The agent starts with its first tunnel connecting. *)
LEMMA ShapeInit == Init => Shape
<1> SUFFICES ASSUME Init PROVE Shape
  OBVIOUS
<1> USE ConstantsAssumption
<1>1. tunnel \in 1..MaxTunnels /\ nses \in 0..MaxSessions
  BY DEF Init
<1>2. conn \in [Framed -> ConnState] /\ io \in [Framed -> Seq(LiveWork(nses))]
  BY DEF Init, ConnState
<1>3. strand \in Seq(LiveEvent(nses))
  BY DEF Init
<1>4. /\ DOMAIN users \subseteq Users /\ users \in [DOMAIN users -> 1..nses]
      /\ ses \in [1..nses -> Session] /\ serv \in [1..nses -> ConnState]
  BY DEF Init
<1>5. \A s \in SessionIds : s > nses => conn[SesConn(s)] = "none"
  BY Names, Connections DEF Init
<1>6. QED
  BY <1>1, <1>2, <1>3, <1>4, <1>5 DEF Shape, Init

----------------------------------------------------------------------------
(* Every step keeps the shape.  The strand, when something is posted, ... *)
LEMMA PostKeeps ==
    ASSUME Shape, NEW e \in LiveEvent(nses), Post(e)
    PROVE  strand' \in Seq(LiveEvent(nses))
<1>1. strand \in Seq(LiveEvent(nses))
  BY DEF Shape
<1>2. QED
  BY <1>1 DEF Post

(* ... and when something is taken. *)
LEMMA PopKeeps ==
    ASSUME Shape, strand # << >>, Pop
    PROVE  strand' \in Seq(LiveEvent(nses)) /\ Head(strand) \in LiveEvent(nses)
<1>1. strand \in Seq(LiveEvent(nses))
  BY DEF Shape
<1>2. QED
  BY <1>1 DEF Pop

(* A step that only changes the state of connections, the strand, users that  *)
(* were told, and packets.                                                    *)
LEMMA ShapeKept ==
    ASSUME Shape, UNCHANGED <<tunnel, users, ses, nses, io, wire>>,
           conn' \in [Framed -> ConnState], serv' \in [1..nses -> ConnState],
           \A s \in SessionIds : s > nses => conn'[SesConn(s)] = "none",
           strand' \in Seq(LiveEvent(nses)),
           pending' \subseteq Conns \X (1..nses), told' \subseteq (1..MaxTunnels) \X Users,
           crashed' \in {"no", "sendv", "late connect"}
    PROVE  Shape'
BY DEF Shape

(* One connection changes: a framed one that was in use, ... *)
LEMMA ConnChange ==
    ASSUME Shape, NEW c \in Framed, NEW v \in ConnState, conn[c] # "none",
           conn' = [conn EXCEPT ![c] = v]
    PROVE  /\ conn' \in [Framed -> ConnState]
           /\ \A s \in SessionIds : s > nses => conn'[SesConn(s)] = "none"
           /\ c \in Tunnels \cup SesConns(nses)
<1>1. conn' \in [Framed -> ConnState]
  BY DEF Shape
<1>2. \A s \in SessionIds : s > nses => SesConn(s) # c
  BY DEF Shape
<1>3. \A s \in SessionIds : s > nses => conn'[SesConn(s)] = "none"
  BY <1>2, MadeSoFar DEF Shape
<1>4. c \in Tunnels \cup SesConns(nses)
  <2>1. SUFFICES ASSUME c \notin Tunnels PROVE c \in SesConns(nses)
    OBVIOUS
  <2>2. PICK s \in SessionIds : c = SesConn(s)
    BY <2>1, Connections
  <2>3. s \in Int /\ nses \in Int /\ s >= 1 /\ ~(s > nses)
    BY <1>2, <2>2, MadeSoFar DEF SessionIds
  <2>4. s \in 1..nses
    BY <2>3
  <2>5. QED
    BY <2>2, <2>4, Connections
<1>5. QED
  BY <1>1, <1>3, <1>4

(* The pool threads post about a connection that has been made. *)
LEMMA ShapePool ==
    ASSUME Shape, NEW c \in Framed,
           Connected(c) \/ ConnFails(c) \/ ConnectTimeout(c) \/ ConnectedLate(c)
    PROVE  Shape'
<1>1. CASE \E v \in ConnState, e \in {"connect", "disconnect"} :
              /\ conn[c] # "none" /\ conn' = [conn EXCEPT ![c] = v] /\ Post(Ev(e, c))
              /\ UNCHANGED <<tunnel, users, ses, nses, serv, io, pending, wire, told, crashed>>
  <2>1. PICK v \in ConnState, e \in {"connect", "disconnect"} :
              /\ conn[c] # "none" /\ conn' = [conn EXCEPT ![c] = v] /\ Post(Ev(e, c))
              /\ UNCHANGED <<tunnel, users, ses, nses, serv, io, pending, wire, told, crashed>>
    BY <1>1
  <2>2. /\ conn' \in [Framed -> ConnState] /\ c \in Tunnels \cup SesConns(nses)
        /\ \A s \in SessionIds : s > nses => conn'[SesConn(s)] = "none"
    BY <2>1, ConnChange
  <2>3. strand' \in Seq(LiveEvent(nses))
    <3>1. Ev(e, c) \in LiveEvent(nses)
      BY <2>2, EventIntro
    <3>2. QED
      BY <2>1, <3>1, PostKeeps
  <2>4. /\ serv' \in [1..nses -> ConnState] /\ pending' \subseteq Conns \X (1..nses)
        /\ told' \subseteq (1..MaxTunnels) \X Users /\ crashed' \in {"no", "sendv", "late connect"}
    BY <2>1 DEF Shape
  <2>5. QED
    BY <2>1, <2>2, <2>3, <2>4, ShapeKept
<1>2. CASE /\ crashed' = "late connect"
           /\ UNCHANGED <<tunnel, users, ses, nses, conn, serv, strand, io, pending, wire, told>>
  BY <1>2 DEF Shape
<1>3. QED
  BY <1>1, <1>2 DEF Connected, ConnFails, ConnectTimeout, ConnectedLate, ConnState

(* Messages of the relay, and events of the services, are posted. *)
LEMMA ShapeRelaySends ==
    ASSUME Shape, NEW u \in Users, NEW cmd \in {"CONNECT", "DATA", "DISCONNECT"}, RelaySends(cmd, u)
    PROVE  Shape'
<1>1. /\ Post(R2AMsg(cmd, TunConn(tunnel), u)) /\ told' \subseteq told \cup {<<tunnel, u>>}
      /\ UNCHANGED <<tunnel, users, ses, nses, conn, serv, io, pending, wire, crashed>>
  BY DEF RelaySends
<1>2. R2AMsg(cmd, TunConn(tunnel), u) \in LiveEvent(nses)
  BY MadeSoFar, EventIntro
<1>3. strand' \in Seq(LiveEvent(nses))
  BY <1>1, <1>2, PostKeeps
<1>4. told' \subseteq (1..MaxTunnels) \X Users
  <2>1. told \subseteq (1..MaxTunnels) \X Users /\ tunnel \in 1..MaxTunnels
    BY DEF Shape
  <2>2. <<tunnel, u>> \in (1..MaxTunnels) \X Users
    BY <2>1
  <2>3. QED
    BY <1>1, <2>1, <2>2
<1>5. QED
  BY <1>1, <1>3, <1>4 DEF Shape

(* The relay writes on a session connection. *)
LEMMA ShapeRelaySendsOnSession ==
    ASSUME Shape, NEW s \in SessionIds, NEW cmd \in {"DATA", "DISCONNECT"}, RelaySendsOnSession(cmd, s)
    PROVE  Shape'
<1>1. /\ Post(R2AMsg(cmd, SesConn(s), ses[s].user)) /\ s <= nses
      /\ UNCHANGED <<tunnel, users, ses, nses, conn, serv, io, pending, wire, told, crashed>>
  BY DEF RelaySendsOnSession
<1>2. s \in 1..nses
  BY <1>1, MadeSoFar DEF SessionIds
<1>3. ses[s].user \in Users
  BY <1>2 DEF Shape, Session
<1>4. R2AMsg(cmd, SesConn(s), ses[s].user) \in LiveEvent(nses)
  BY <1>3, MadeSoFar, EventIntro
<1>5. strand' \in Seq(LiveEvent(nses))
  BY <1>1, <1>4, PostKeeps
<1>6. QED
  BY <1>1, <1>5 DEF Shape

(* The local service answers, sends or ends. *)
LEMMA ShapeService ==
    ASSUME Shape, NEW s \in SessionIds,
           ServiceConnected(s) \/ ServiceConnectedLate(s) \/ ServiceSends(s) \/ ServiceEnds(s)
    PROVE  Shape'
<1>1. s \in 1..nses
  BY MadeSoFar DEF SessionIds, ServiceConnected, ServiceConnectedLate, ServiceSends, ServiceEnds
<1>2. UserConn(s) \in UserConns(nses)
  BY <1>1, Connections
<1>3. /\ UNCHANGED <<tunnel, users, ses, nses, conn, io, pending, wire, told, crashed>>
      /\ \/ UNCHANGED serv
         \/ \E v \in ConnState : serv' = [serv EXCEPT ![s] = v]
      /\ \/ UNCHANGED strand
         \/ Post(Ev("recv", UserConn(s))) \/ Post(Ev("disconnect", UserConn(s)))
  BY DEF ServiceConnected, ServiceConnectedLate, ServiceSends, ServiceEnds, ConnState
<1>4. serv' \in [1..nses -> ConnState]
  BY <1>3 DEF Shape
<1>5. strand' \in Seq(LiveEvent(nses))
  <2>1. Ev("recv", UserConn(s)) \in LiveEvent(nses) /\ Ev("disconnect", UserConn(s)) \in LiveEvent(nses)
    BY <1>2, EventIntro
  <2>2. QED
    BY <1>3, <2>1, PostKeeps DEF Shape
<1>6. QED
  BY <1>3, <1>4, <1>5 DEF Shape

(* Work that is taken from a connection is of a session that was made. *)
LEMMA WorkCases ==
    ASSUME NEW n, NEW w \in LiveWork(n)
    PROVE  /\ w.cmd \in Cmd
           /\ w.cmd # "BIND" => w.ses \in 1..n
BY DEF LiveWork, Cmd

(* A connection writes the next thing posted to it. *)
LEMMA ShapeRunIo ==
    ASSUME Shape, NEW c \in Framed, RunIo(c)
    PROVE  Shape'
<1> DEFINE w == Head(io[c])
<1>1. io[c] \in Seq(LiveWork(nses)) /\ io[c] # << >>
  BY DEF Shape, RunIo
<1>2. w \in LiveWork(nses) /\ Tail(io[c]) \in Seq(LiveWork(nses))
  BY <1>1
<1>3. io' \in [Framed -> Seq(LiveWork(nses))]
  BY <1>2 DEF Shape, RunIo
<1>4. w.cmd \in Cmd /\ (w.cmd # "BIND" => w.ses \in 1..nses)
  BY <1>2, WorkCases
<1>5. c \in Conns
  BY Connections
<1>6. /\ pending' \subseteq pending \cup (IF w.cmd = "DATA" THEN {<<c, w.ses>>} ELSE {})
      /\ wire' \subseteq wire \cup (IF w.cmd # "BIND" THEN {<<c, w.cmd, w.ses>>} ELSE {})
      /\ crashed' \in {crashed, "sendv"}
      /\ UNCHANGED <<tunnel, users, ses, nses, conn, serv, strand, told>>
  BY DEF RunIo, RunSend, RunSendV
<1>7. pending' \subseteq Conns \X (1..nses) /\ wire' \subseteq Framed \X Cmd \X (1..nses)
  <2> HIDE DEF w
  <2>1. pending \subseteq Conns \X (1..nses) /\ wire \subseteq Framed \X Cmd \X (1..nses)
    BY DEF Shape
  <2>2. w.cmd # "BIND" => <<c, w.ses>> \in Conns \X (1..nses)
    BY <1>4, <1>5
  <2>3. w.cmd # "BIND" => <<c, w.cmd, w.ses>> \in Framed \X Cmd \X (1..nses)
    BY <1>4
  <2>4. QED
    BY <1>6, <2>1, <2>2, <2>3
<1>8. QED
  BY <1>3, <1>6, <1>7 DEF Shape

(* Work that is posted to a connection. *)
LEMMA SendOnKeeps ==
    ASSUME Shape, NEW c \in Framed, NEW cmd, NEW s, [cmd |-> cmd, ses |-> s] \in LiveWork(nses),
           SendOn(c, cmd, s)
    PROVE  io' \in [Framed -> Seq(LiveWork(nses))]
<1>1. io[c] \in Seq(LiveWork(nses))
  BY DEF Shape
<1>2. Append(io[c], [cmd |-> cmd, ses |-> s]) \in Seq(LiveWork(nses))
  BY <1>1
<1>3. QED
  BY <1>2 DEF Shape, SendOn

----------------------------------------------------------------------------
(* __CleanSession drops the user of a finished session and closes both of its *)
(* connections; of an unfinished one it changes nothing.                      *)
LEMMA CleanCases ==
    ASSUME NEW s, NEW r, NEW C, NEW V, CleanSession(s, r, C, V)
    PROVE  \/ /\ Finished(r) /\ users' = Drop(users, {r.user})
              /\ serv' = [V EXCEPT ![s] = CloseConn(@)]
              /\ conn' = [C EXCEPT ![SesConn(s)] = CloseConn(@)]
           \/ ~Finished(r) /\ users' = users /\ serv' = V /\ conn' = C
BY DEF CleanSession

(* What is left of the session table when keys are dropped. *)
LEMMA DropUsers ==
    ASSUME Shape, NEW K
    PROVE  /\ DOMAIN Drop(users, K) = DOMAIN users \ K
           /\ \A u \in DOMAIN users \ K : Drop(users, K)[u] = users[u]
           /\ DOMAIN Drop(users, K) \subseteq Users
           /\ Drop(users, K) \in [DOMAIN Drop(users, K) -> 1..nses]
BY DEF Drop, Shape

(* What the handlers that clean have in common: session s gets fields r, the  *)
(* connections that the handler itself has changed are C and V.               *)
ClosesAtMost(s, C, V) ==
    /\ C \in [Framed -> ConnState] /\ V \in [1..nses -> ConnState]
    /\ \A c \in Framed : c # SesConn(s) => C[c] = conn[c]
    /\ C[SesConn(s)] \in Ended \cup {conn[SesConn(s)]}
    /\ \A t \in 1..nses : t # s => V[t] = serv[t]
    /\ V[s] \in Ended \cup {serv[s]}

(* __CleanSession erases the user of the finished session and no other. *)
LEMMA CleanKeeps ==
    ASSUME Shape, NEW s \in 1..nses, NEW r \in Session, NEW C, NEW V,
           ClosesAtMost(s, C, V), CleanSession(s, r, C, V)
    PROVE  /\ DOMAIN users' \subseteq DOMAIN users /\ DOMAIN users' \subseteq Users
           /\ users' \in [DOMAIN users' -> 1..nses]
           /\ \A u \in DOMAIN users' : users'[u] = users[u]
           /\ \A u \in DOMAIN users : u \notin DOMAIN users' => u = r.user /\ Finished(r)
           /\ Finished(r) => /\ r.user \notin DOMAIN users'
                             /\ conn'[SesConn(s)] \in Ended /\ serv'[s] \in Ended
           /\ ~Finished(r) => users' = users
           /\ ClosesAtMost(s, conn', serv')
<1>1. SesConn(s) \in Framed
  BY MadeSoFar
<1>2. CASE Finished(r)
  <2>1. /\ users' = Drop(users, {r.user}) /\ serv' = [V EXCEPT ![s] = CloseConn(@)]
        /\ conn' = [C EXCEPT ![SesConn(s)] = CloseConn(@)]
    BY <1>2, CleanCases
  <2>2. /\ conn' \in [Framed -> ConnState] /\ serv' \in [1..nses -> ConnState]
        /\ conn'[SesConn(s)] \in Ended /\ serv'[s] \in Ended
        /\ \A c \in Framed : c # SesConn(s) => conn'[c] = C[c]
        /\ \A t \in 1..nses : t # s => serv'[t] = V[t]
    <3>1. C \in [Framed -> ConnState] /\ V \in [1..nses -> ConnState]
      BY DEF ClosesAtMost
    <3>2. /\ CloseConn(C[SesConn(s)]) \in Ended /\ CloseConn(C[SesConn(s)]) \in ConnState
          /\ CloseConn(V[s]) \in Ended /\ CloseConn(V[s]) \in ConnState
      BY <1>1, <3>1, CloseConnEnds
    <3>3. /\ conn' \in [Framed -> ConnState] /\ conn'[SesConn(s)] \in Ended
          /\ \A c \in Framed : c # SesConn(s) => conn'[c] = C[c]
      BY <1>1, <2>1, <3>1, <3>2
    <3>4. /\ serv' \in [1..nses -> ConnState] /\ serv'[s] \in Ended
          /\ \A t \in 1..nses : t # s => serv'[t] = V[t]
      BY <2>1, <3>1, <3>2
    <3>5. QED
      BY <3>3, <3>4
  <2>3. ClosesAtMost(s, conn', serv')
    BY <2>2 DEF ClosesAtMost
  <2>4. /\ DOMAIN users' = DOMAIN users \ {r.user} /\ DOMAIN users' \subseteq Users
        /\ users' \in [DOMAIN users' -> 1..nses]
        /\ \A u \in DOMAIN users' : users'[u] = users[u]
    <3> DEFINE D == Drop(users, {r.user})
    <3>1. /\ DOMAIN D = DOMAIN users \ {r.user} /\ DOMAIN D \subseteq Users
          /\ D \in [DOMAIN D -> 1..nses] /\ \A u \in DOMAIN users \ {r.user} : D[u] = users[u]
      BY DropUsers
    <3> HIDE DEF D
    <3>2. users' = D
      BY <2>1 DEF D
    <3>3. QED
      BY <3>1, <3>2
  <2>5. QED
    BY <1>2, <2>2, <2>3, <2>4
<1>3. CASE ~Finished(r)
  <2>1. users' = users /\ serv' = V /\ conn' = C
    BY <1>3, CleanCases
  <2>2. QED
    BY <1>3, <2>1 DEF Shape
<1>4. QED
  BY <1>2, <1>3

(* A connection that is closed, or left as it is, may not come into use.      *)
LEMMA ClosesNoneFresh ==
    ASSUME Shape, NEW s \in 1..nses, NEW C, NEW V, ClosesAtMost(s, C, V)
    PROVE  \A t \in SessionIds : t > nses => C[SesConn(t)] = "none"
<1>1. SUFFICES ASSUME NEW t \in SessionIds, t > nses PROVE C[SesConn(t)] = "none"
  OBVIOUS
<1>2. t # s
  BY <1>1, MadeSoFar
<1>3. SesConn(t) # SesConn(s) /\ SesConn(t) \in Framed
  BY <1>2, Names, MadeSoFar
<1>4. QED
  BY <1>1, <1>3 DEF ClosesAtMost, Shape

(* What a handler leaves before it cleans. *)
LEMMA HandlersClose ==
    ASSUME Shape, NEW s \in 1..nses
    PROVE  /\ ClosesAtMost(s, conn, serv)
           /\ ClosesAtMost(s, [conn EXCEPT ![SesConn(s)] = CloseConn(@)], serv)
           /\ ClosesAtMost(s, conn, [serv EXCEPT ![s] = CloseConn(@)])
BY MadeSoFar, CloseConnEnds DEF ClosesAtMost, Shape

(* The fields of a session keep their type. *)
LEMMA SessionUpdates ==
    ASSUME NEW r \in Session
    PROVE  /\ [r EXCEPT !.ready = TRUE] \in Session
           /\ [r EXCEPT !.user_disconnected = TRUE] \in Session
           /\ [r EXCEPT !.tunnel_disconnected = TRUE] \in Session
           /\ [r EXCEPT !.tunnel_disconnected = TRUE, !.tunnel_hard_disconnected = TRUE] \in Session
BY DEF Session

(* In sum, what a step does that cleans session s, now with the fields ses'[s]. *)
Cleans(s) ==
    /\ UNCHANGED <<tunnel, nses, told>>
    /\ ses' \in [1..nses -> Session] /\ \A t \in 1..nses : t # s => ses'[t] = ses[t]
    /\ ses'[s].user = ses[s].user /\ ses'[s].tun = ses[s].tun /\ ses'[s].late = ses[s].late
    /\ ses'[s].ready = ses[s].ready
    /\ DOMAIN users' \subseteq DOMAIN users /\ DOMAIN users' \subseteq Users
    /\ users' \in [DOMAIN users' -> 1..nses]
    /\ \A u \in DOMAIN users' : users'[u] = users[u]
    /\ \A u \in DOMAIN users : u \notin DOMAIN users' => u = ses'[s].user /\ Finished(ses'[s])
    /\ Finished(ses'[s]) => /\ ses'[s].user \notin DOMAIN users'
                            /\ conn'[SesConn(s)] \in Ended /\ serv'[s] \in Ended
    /\ ClosesAtMost(s, conn', serv')

(* A handler that ends in __CleanSession is a cleaning step. *)
LEMMA CleansIntro ==
    ASSUME Shape, NEW s \in 1..nses, NEW r \in Session, NEW C, NEW V,
           ClosesAtMost(s, C, V), CleanSession(s, r, C, V),
           ses' = [ses EXCEPT ![s] = r], UNCHANGED <<tunnel, nses, told>>,
           r.user = ses[s].user, r.tun = ses[s].tun, r.late = ses[s].late, r.ready = ses[s].ready
    PROVE  Cleans(s)
<1>1. /\ ses' \in [1..nses -> Session] /\ \A t \in 1..nses : t # s => ses'[t] = ses[t]
      /\ ses'[s] = r
  BY DEF Shape
<1>2. /\ DOMAIN users' \subseteq DOMAIN users /\ DOMAIN users' \subseteq Users
      /\ users' \in [DOMAIN users' -> 1..nses]
      /\ \A u \in DOMAIN users' : users'[u] = users[u]
      /\ \A u \in DOMAIN users : u \notin DOMAIN users' => u = r.user /\ Finished(r)
      /\ Finished(r) => /\ r.user \notin DOMAIN users'
                        /\ conn'[SesConn(s)] \in Ended /\ serv'[s] \in Ended
      /\ ClosesAtMost(s, conn', serv')
  BY CleanKeeps
<1>3. QED
  BY <1>1, <1>2 DEF Cleans

(* R2A::DISCONNECT for a known user, ... *)
LEMMA RecvDisconnectCleans ==
    ASSUME Shape, RecvDisconnect
    PROVE  /\ strand # << >> /\ Pop /\ UNCHANGED <<io, pending, wire, crashed>>
           /\ \/ UNCHANGED <<tunnel, nses, told, users, ses, conn, serv>>
              \/ \E s \in 1..nses : Cleans(s)
<1>1. /\ strand # << >> /\ Pop /\ UNCHANGED <<tunnel, nses, io, pending, wire, told, crashed>>
  BY DEF RecvDisconnect, NextIs
<1>2. CASE Head(strand).user \in DOMAIN users
  <2> DEFINE s == users[Head(strand).user]
             r == [ses[s] EXCEPT !.tunnel_disconnected = TRUE]
             C == [conn EXCEPT ![SesConn(s)] = CloseConn(@)]
  <2>1. ses' = [ses EXCEPT ![s] = r] /\ CleanSession(s, r, C, serv)
    BY <1>2 DEF RecvDisconnect
  <2>2. s \in 1..nses
    BY <1>2 DEF Shape
  <2>3. ses[s] \in Session
    BY <2>2 DEF Shape
  <2>4. r \in Session /\ r.user = ses[s].user /\ r.tun = ses[s].tun /\ r.late = ses[s].late
      /\ r.ready = ses[s].ready
    BY <2>3, SessionUpdates DEF Session
  <2>5. ClosesAtMost(s, C, serv)
    BY <2>2, HandlersClose
  <2> HIDE DEF s, r, C
  <2>6. Cleans(s)
    BY <1>1, <2>1, <2>2, <2>4, <2>5, CleansIntro
  <2>7. QED
    BY <1>1, <2>2, <2>6
<1>3. CASE Head(strand).user \notin DOMAIN users
  BY <1>1, <1>3 DEF RecvDisconnect
<1>4. QED
  BY <1>2, <1>3

(* ... the loss of the session connection, ... *)
LEMMA OnSessionDisconnectCleans ==
    ASSUME Shape, OnSessionDisconnect
    PROVE  /\ strand # << >> /\ Pop /\ UNCHANGED <<io, pending, wire, crashed>>
           /\ \E s \in 1..nses : Cleans(s)
<1>1. /\ strand # << >> /\ Pop /\ UNCHANGED <<tunnel, nses, io, pending, wire, told, crashed>>
      /\ Head(strand).ev = "disconnect" /\ Head(strand).on[1] = "session"
  BY DEF OnSessionDisconnect, NextIs
<1>2. Head(strand).on \in Tunnels \cup SesConns(nses) \cup UserConns(nses)
  BY <1>1, PopKeeps, EventCases
<1>3. PICK s \in 1..nses : Head(strand).on = SesConn(s)
  <2>1. \A c \in UserConns(nses) : c[1] = "user"
    BY Connections, Names
  <2>2. Head(strand).on \in SesConns(nses)
    BY <1>1, <1>2, <2>1, TunnelsApart
  <2>3. QED
    BY <2>2, Connections
<1> DEFINE r == [ses[s] EXCEPT !.tunnel_disconnected = TRUE, !.tunnel_hard_disconnected = TRUE]
           C == [conn EXCEPT ![SesConn(s)] = CloseConn(@)]
<1>4. Head(strand).on[2] = s
  BY <1>3, Names
<1>5. ses' = [ses EXCEPT ![s] = r] /\ CleanSession(s, r, C, serv)
  BY <1>4 DEF OnSessionDisconnect
<1>6. ses[s] \in Session
  BY DEF Shape
<1>7. r \in Session /\ r.user = ses[s].user /\ r.tun = ses[s].tun /\ r.late = ses[s].late
      /\ r.ready = ses[s].ready
  BY <1>6, SessionUpdates DEF Session
<1>8. ClosesAtMost(s, C, serv)
  BY HandlersClose
<1> HIDE DEF r, C
<1>9. Cleans(s)
  BY <1>1, <1>5, <1>7, <1>8, CleansIntro
<1>10. QED
  BY <1>1, <1>9

(* ... the end of the service, ... *)
LEMMA OnUserDisconnectCleans ==
    ASSUME Shape, OnUserDisconnect
    PROVE  /\ strand # << >> /\ Pop /\ UNCHANGED <<pending, wire, crashed>>
           /\ \E s \in 1..nses : Cleans(s) /\ Head(strand).on = UserConn(s) /\ SendOn(Route(s), "DISCONNECT", s)
<1>1. /\ strand # << >> /\ Pop /\ UNCHANGED <<tunnel, nses, pending, wire, told, crashed>>
      /\ Head(strand).ev = "disconnect" /\ Head(strand).on[1] = "user"
  BY DEF OnUserDisconnect, NextIs
<1>2. Head(strand).on \in Tunnels \cup SesConns(nses) \cup UserConns(nses)
  BY <1>1, PopKeeps, EventCases
<1>3. PICK s \in 1..nses : Head(strand).on = UserConn(s)
  <2>1. \A c \in SesConns(nses) : c[1] = "session"
    BY Connections, Names
  <2>2. Head(strand).on \in UserConns(nses)
    BY <1>1, <1>2, <2>1, TunnelsApart
  <2>3. QED
    BY <2>2, Connections
<1> DEFINE r == [ses[s] EXCEPT !.user_disconnected = TRUE]
           V == [serv EXCEPT ![s] = CloseConn(@)]
<1>4. Head(strand).on[2] = s
  BY <1>3, Names
<1>5. /\ ses' = [ses EXCEPT ![s] = r] /\ CleanSession(s, r, conn, V)
      /\ SendOn(Route(s), "DISCONNECT", s)
  BY <1>4 DEF OnUserDisconnect
<1>6. ses[s] \in Session
  BY DEF Shape
<1>7. r \in Session /\ r.user = ses[s].user /\ r.tun = ses[s].tun /\ r.late = ses[s].late
      /\ r.ready = ses[s].ready
  BY <1>6, SessionUpdates DEF Session
<1>8. ClosesAtMost(s, conn, V)
  BY HandlersClose
<1> HIDE DEF r, V
<1>9. Cleans(s)
  BY <1>1, <1>5, <1>7, <1>8, CleansIntro
<1>10. QED
  BY <1>1, <1>3, <1>5, <1>9

(* ... and a send callback that finds the session finished. *)
LEMMA SendDoneCleans ==
    ASSUME Shape, NEW c, NEW s, SendDone(c, s)
    PROVE  /\ s \in 1..nses /\ Cleans(s) /\ pending' \subseteq pending
           /\ UNCHANGED <<ses, strand, io, wire, crashed>>
<1>1. /\ <<c, s>> \in pending /\ CleanSession(s, ses[s], conn, serv) /\ pending' \subseteq pending
      /\ UNCHANGED <<tunnel, ses, nses, strand, io, wire, told, crashed>>
  BY DEF SendDone
<1>2. s \in 1..nses
  <2>1. pending \subseteq Conns \X (1..nses)
    BY DEF Shape
  <2>2. QED
    BY <1>1, <2>1
<1>3. ses[s] \in Session /\ ses' = [ses EXCEPT ![s] = ses[s]]
  BY <1>1, <1>2 DEF Shape
<1>4. ClosesAtMost(s, conn, serv)
  BY <1>2, HandlersClose
<1>5. Cleans(s)
  BY <1>1, <1>2, <1>3, <1>4, CleansIntro
<1>6. QED
  BY <1>1, <1>2, <1>5

(* Cleaning keeps the shape. *)
LEMMA CleansShape ==
    ASSUME Shape, NEW s \in 1..nses, Cleans(s), strand' \in Seq(LiveEvent(nses)),
           io' \in [Framed -> Seq(LiveWork(nses))], pending' \subseteq pending, UNCHANGED <<wire, crashed>>
    PROVE  Shape'
<1>1. conn' \in [Framed -> ConnState] /\ serv' \in [1..nses -> ConnState]
  BY DEF Cleans, ClosesAtMost
<1>2. \A t \in SessionIds : t > nses => conn'[SesConn(t)] = "none"
  BY ClosesNoneFresh DEF Cleans
<1>3. QED
  BY <1>1, <1>2 DEF Shape, Cleans

----------------------------------------------------------------------------
(* The handlers of the tunnel: BIND is posted to it, ... *)
LEMMA ShapeOnServerConnect ==
    ASSUME Shape, OnServerConnect
    PROVE  Shape'
<1>1. /\ strand # << >> /\ Pop /\ SendOn(TunConn(tunnel), "BIND", 0)
      /\ UNCHANGED <<tunnel, users, ses, nses, conn, serv, pending, wire, told, crashed>>
  BY DEF OnServerConnect, NextIs
<1>2. [cmd |-> "BIND", ses |-> 0] \in LiveWork(nses)
  BY DEF LiveWork
<1>3. io' \in [Framed -> Seq(LiveWork(nses))]
  BY <1>1, <1>2, MadeSoFar, SendOnKeeps
<1>4. strand' \in Seq(LiveEvent(nses))
  BY <1>1, PopKeeps
<1>5. QED
  BY <1>1, <1>3, <1>4 DEF Shape

(* ... its loss empties users_, closes their connections and posts a lambda, ... *)
LEMMA TunnelLostEffect ==
    ASSUME Shape, OnServerDisconnect
    PROVE  /\ NextIs("disconnect") /\ Head(strand).on \in Tunnels /\ strand # << >> /\ DOMAIN users' = {}
           /\ strand' = Append(Tail(strand), Ev("reconnect", TunConn(tunnel)))
           /\ serv' \in [1..nses -> ConnState] /\ conn' \in [Framed -> ConnState]
           /\ \A s \in 1..nses : IF s \in Values(users) THEN serv'[s] \in Ended ELSE serv'[s] = serv[s]
           /\ \A s \in SessionIds : IF s \in Values(users) THEN conn'[SesConn(s)] \in Ended
                                     ELSE conn'[SesConn(s)] = conn[SesConn(s)]
           /\ \A c \in Tunnels : conn'[c] = conn[c]
           /\ UNCHANGED <<tunnel, ses, nses, io, pending, wire, told, crashed>>
<1>1. /\ NextIs("disconnect") /\ strand # << >> /\ Head(strand).on \in Tunnels
      /\ serv' = ServicesClosed /\ users' = << >> /\ strand' = RetryPosted
      /\ conn' = [c \in Framed |-> IF \E s \in Values(users) : c = SesConn(s)
                                 THEN CloseConn(conn[c]) ELSE conn[c]]
      /\ UNCHANGED <<tunnel, ses, nses, io, pending, wire, told, crashed>>
  BY DEF OnServerDisconnect, TunnelLost, NextIs
<1>3. /\ serv' \in [1..nses -> ConnState]
      /\ \A s \in 1..nses : IF s \in Values(users) THEN serv'[s] \in Ended ELSE serv'[s] = serv[s]
  <2>1. serv \in [1..nses -> ConnState] /\ DOMAIN serv = 1..nses
    BY DEF Shape
  <2>2. QED
    BY <1>1, <2>1, CloseConnEnds DEF ServicesClosed
<1>4. conn \in [Framed -> ConnState]
  BY DEF Shape
<1>5. conn' \in [Framed -> ConnState]
  BY <1>1, <1>4, CloseConnEnds
<1>6. \A s \in SessionIds : IF s \in Values(users) THEN conn'[SesConn(s)] \in Ended
                            ELSE conn'[SesConn(s)] = conn[SesConn(s)]
  <2>1. TAKE s \in SessionIds
  <2>2. SesConn(s) \in Framed
    BY MadeSoFar
  <2>3. (\E t \in Values(users) : SesConn(s) = SesConn(t)) <=> s \in Values(users)
    BY Names
  <2>4. QED
    BY <1>1, <2>2, <2>3, CloseConnEnds
<1>7. \A c \in Tunnels : conn'[c] = conn[c]
  <2>1. TAKE c \in Tunnels
  <2>2. c \in Framed /\ \A t : c # SesConn(t)
    BY TunnelsApart, Connections
  <2>3. QED
    BY <1>1, <2>2
<1>8. DOMAIN users' = {}
  BY <1>1
<1>9. QED
  BY <1>1, <1>3, <1>5, <1>6, <1>7, <1>8 DEF RetryPosted

(* The tunnel is lost: all sessions are dropped and a new tunnel is tried. *)
LEMMA ShapeOnServerDisconnect ==
    ASSUME Shape, OnServerDisconnect
    PROVE  Shape'
<1>1. strand' \in Seq(LiveEvent(nses))
  <2>1. Tail(strand) \in Seq(LiveEvent(nses))
    <3>1. strand \in Seq(LiveEvent(nses)) /\ strand # << >>
      BY TunnelLostEffect DEF Shape
    <3>2. QED
      BY <3>1
  <2>2. Ev("reconnect", TunConn(tunnel)) \in LiveEvent(nses)
    BY MadeSoFar, EventIntro
  <2>3. strand' = Append(Tail(strand), Ev("reconnect", TunConn(tunnel)))
    BY TunnelLostEffect
  <2>4. QED
    BY <2>1, <2>2, <2>3
<1>2. \A s \in SessionIds : s > nses => conn'[SesConn(s)] = "none"
  <2>1. TAKE s \in SessionIds
  <2>2. HAVE s > nses
  <2>3. s \notin 1..nses
    BY <2>2, MadeSoFar
  <2>4. s \notin Values(users)
    BY <2>3 DEF Values, Shape
  <2>5. QED
    BY <2>2, <2>4, TunnelLostEffect DEF Shape
<1>3. DOMAIN users' \subseteq Users /\ users' \in [DOMAIN users' -> 1..nses]
  BY TunnelLostEffect
<1>4. QED
  BY <1>1, <1>2, <1>3, TunnelLostEffect DEF Shape

(* ... which starts the next tunnel. *)
LEMMA ReconnectEffect ==
    ASSUME Shape, Reconnect
    PROVE  /\ strand # << >> /\ Pop /\ Head(strand).ev = "reconnect"
           /\ tunnel' = tunnel + 1 /\ tunnel' \in 1..MaxTunnels /\ conn' \in [Framed -> ConnState]
           /\ conn'[TunConn(tunnel)] \in Ended /\ conn'[TunConn(tunnel + 1)] = "connecting"
           /\ \A c \in Framed : c # TunConn(tunnel) /\ c # TunConn(tunnel + 1) => conn'[c] = conn[c]
           /\ UNCHANGED <<users, ses, nses, serv, io, pending, wire, told, crashed>>
<1>1. /\ strand # << >> /\ Pop /\ Head(strand).ev = "reconnect"
      /\ tunnel' = tunnel + 1 /\ tunnel < MaxTunnels
      /\ conn' = [conn EXCEPT ![TunConn(tunnel)] = CloseConn(@), ![TunConn(tunnel + 1)] = "connecting"]
      /\ UNCHANGED <<users, ses, nses, serv, io, pending, wire, told, crashed>>
  BY DEF Reconnect, NextIs
<1>2. tunnel + 1 \in 1..MaxTunnels /\ tunnel # tunnel + 1
  BY <1>1, MadeSoFar, ConstantsAssumption
<1>3. /\ TunConn(tunnel) \in Framed /\ TunConn(tunnel + 1) \in Framed
      /\ TunConn(tunnel) # TunConn(tunnel + 1)
  BY <1>2, MadeSoFar, Names
<1>4. conn \in [Framed -> ConnState] /\ "connecting" \in ConnState
  BY DEF Shape, ConnState
<1>5. conn' \in [Framed -> ConnState]
  BY <1>1, <1>3, <1>4, CloseConnEnds
<1>6. /\ conn'[TunConn(tunnel)] \in Ended /\ conn'[TunConn(tunnel + 1)] = "connecting"
      /\ \A c \in Framed : c # TunConn(tunnel) /\ c # TunConn(tunnel + 1) => conn'[c] = conn[c]
  BY <1>1, <1>3, <1>4, CloseConnEnds
<1>7. QED
  BY <1>1, <1>2, <1>5, <1>6

(* The timer makes the next tunnel. *)
LEMMA ShapeReconnect ==
    ASSUME Shape, Reconnect
    PROVE  Shape'
<1>1. strand' \in Seq(LiveEvent(nses))
  BY ReconnectEffect, PopKeeps
<1>2. \A s \in SessionIds : s > nses => conn'[SesConn(s)] = "none"
  <2>1. TAKE s \in SessionIds
  <2>2. SesConn(s) \in Framed /\ SesConn(s) # TunConn(tunnel) /\ SesConn(s) # TunConn(tunnel + 1)
    BY MadeSoFar, Names
  <2>3. QED
    BY <2>2, ReconnectEffect DEF Shape
<1>3. QED
  BY <1>1, <1>2, ReconnectEffect DEF Shape

(* CONNECT of a user that users_ does not have makes the next session. *)
LEMMA RecvConnectEffect ==
    ASSUME Shape, RecvConnect
    PROVE  /\ strand # << >> /\ Pop /\ Head(strand).ev = "CONNECT" /\ Head(strand).user \in Users
           /\ Head(strand).on \in Tunnels
           /\ UNCHANGED <<tunnel, io, pending, wire, told, crashed>>
           /\ \/ Head(strand).user \in DOMAIN users /\ UNCHANGED <<users, ses, nses, conn, serv>>
              \/ /\ Head(strand).user \notin DOMAIN users
                 /\ nses' = nses + 1 /\ nses + 1 \in SessionIds
                 /\ ses' \in [1..(nses + 1) -> Session] /\ ses'[nses + 1] = NewSession(Head(strand))
                 /\ \A s \in 1..nses : ses'[s] = ses[s]
                 /\ DOMAIN users' = DOMAIN users \cup {Head(strand).user}
                 /\ users' \in [DOMAIN users' -> 1..(nses + 1)]
                 /\ users'[Head(strand).user] = nses + 1 /\ \A u \in DOMAIN users : users'[u] = users[u]
                 /\ conn' \in [Framed -> ConnState] /\ conn'[SesConn(nses + 1)] = "connecting"
                 /\ \A c \in Framed : c # SesConn(nses + 1) => conn'[c] = conn[c]
                 /\ serv' \in [1..(nses + 1) -> ConnState] /\ serv'[nses + 1] = "connecting"
                 /\ \A s \in 1..nses : serv'[s] = serv[s]
<1> DEFINE u == Head(strand).user
           n == nses + 1
           new == NewSession(Head(strand))
<1>1. /\ strand # << >> /\ Pop /\ Head(strand).ev = "CONNECT"
      /\ UNCHANGED <<tunnel, io, pending, wire, told, crashed>>
  BY DEF RecvConnect, NextIs
<1>2. u \in Users /\ Head(strand).on \in Tunnels
  BY <1>1, PopKeeps, EventCases
<1>3. CASE u \in DOMAIN users
  BY <1>1, <1>2, <1>3 DEF RecvConnect
<1>4. CASE u \notin DOMAIN users
  <2>1. /\ n <= MaxSessions /\ nses' = n /\ ses' = Put(ses, n, new) /\ users' = Put(users, u, n)
        /\ conn' = [conn EXCEPT ![SesConn(n)] = "connecting"] /\ serv' = Put(serv, n, "connecting")
    BY <1>4 DEF RecvConnect
  <2>2. /\ nses \in Nat /\ n \in SessionIds /\ n \notin 1..nses /\ 1..n = (1..nses) \cup {n}
    BY <2>1, MadeSoFar DEF SessionIds
  <2>3. new \in Session
    <3>1. Head(strand).on[2] \in 1..MaxTunnels
      BY <1>2, Connections, Names
    <3>2. UsersDropped(Head(strand).on) \in BOOLEAN
      BY DEF UsersDropped
    <3>3. QED
      BY <1>2, <3>1, <3>2 DEF NewSession, Session
  <2> HIDE DEF n, u, new
  <2>4. /\ ses' \in [1..n -> Session] /\ ses'[n] = new /\ \A s \in 1..nses : ses'[s] = ses[s]
    <3>1. ses \in [1..nses -> Session]
      BY DEF Shape
    <3>2. QED
      BY <2>1, <2>2, <2>3, <3>1 DEF Put
  <2>5. /\ serv' \in [1..n -> ConnState] /\ serv'[n] = "connecting" /\ \A s \in 1..nses : serv'[s] = serv[s]
    <3>1. serv \in [1..nses -> ConnState] /\ "connecting" \in ConnState
      BY DEF Shape, ConnState
    <3>2. QED
      BY <2>1, <2>2, <3>1 DEF Put
  <2>6. /\ DOMAIN users' = DOMAIN users \cup {u} /\ users' \in [DOMAIN users' -> 1..n]
        /\ users'[u] = n /\ \A v \in DOMAIN users : users'[v] = users[v]
    <3>1. users \in [DOMAIN users -> 1..nses]
      BY DEF Shape
    <3>2. QED
      BY <1>4, <2>1, <2>2, <3>1 DEF Put
  <2>7. /\ conn' \in [Framed -> ConnState] /\ conn'[SesConn(n)] = "connecting"
        /\ \A c \in Framed : c # SesConn(n) => conn'[c] = conn[c]
    <3>1. conn \in [Framed -> ConnState] /\ "connecting" \in ConnState /\ SesConn(n) \in Framed
      BY <2>2, MadeSoFar DEF Shape, ConnState
    <3>2. QED
      BY <2>1, <3>1
  <2>8. QED
    BY <1>1, <1>2, <1>4, <2>1, <2>2, <2>4, <2>5, <2>6, <2>7 DEF n, u, new
<1>5. QED
  BY <1>3, <1>4

(* A CONNECT makes a session with its two connections. *)
LEMMA ShapeRecvConnect ==
    ASSUME Shape, RecvConnect
    PROVE  Shape'
<1>1. CASE Head(strand).user \in DOMAIN users
  <2>1. strand' \in Seq(LiveEvent(nses))
    BY RecvConnectEffect, PopKeeps
  <2>2. QED
    BY <1>1, <2>1, RecvConnectEffect DEF Shape
<1>2. CASE Head(strand).user \notin DOMAIN users
  <2>1. /\ nses' = nses + 1 /\ nses' \in 0..MaxSessions /\ nses \in Nat /\ 1..nses \subseteq 1..nses'
    BY <1>2, RecvConnectEffect, MadeSoFar DEF SessionIds
  <2>2. LiveEvent(nses) \subseteq LiveEvent(nses') /\ LiveWork(nses) \subseteq LiveWork(nses')
    BY <2>1, LiveGrows
  <2>3. strand' \in Seq(LiveEvent(nses'))
    BY <2>2, RecvConnectEffect, PopKeeps, SeqGrows
  <2>4. io' \in [Framed -> Seq(LiveWork(nses'))]
    <3>1. io' = io /\ io \in [Framed -> Seq(LiveWork(nses))]
      BY RecvConnectEffect DEF Shape
    <3>2. \A c \in Framed : io[c] \in Seq(LiveWork(nses'))
      BY <2>2, <3>1, SeqGrows
    <3>3. QED
      BY <3>1, <3>2
  <2>5. pending' \subseteq Conns \X (1..nses') /\ wire' \subseteq Framed \X Cmd \X (1..nses')
    BY <2>1, RecvConnectEffect DEF Shape
  <2>6. \A s \in SessionIds : s > nses' => conn'[SesConn(s)] = "none"
    <3>1. TAKE s \in SessionIds
    <3>2. HAVE s > nses'
    <3>3. s > nses /\ s # nses + 1
      BY <2>1, <3>2 DEF SessionIds
    <3>4. SesConn(s) \in Framed /\ SesConn(s) # SesConn(nses + 1)
      BY <3>3, MadeSoFar, Names
    <3>5. QED
      BY <1>2, <3>3, <3>4, RecvConnectEffect DEF Shape
  <2>7. /\ DOMAIN users' \subseteq Users /\ users' \in [DOMAIN users' -> 1..nses']
        /\ ses' \in [1..nses' -> Session] /\ serv' \in [1..nses' -> ConnState]
        /\ conn' \in [Framed -> ConnState]
    BY <1>2, <2>1, RecvConnectEffect DEF Shape
  <2>8. tunnel' \in 1..MaxTunnels /\ told' \subseteq (1..MaxTunnels) \X Users /\ crashed' \in {"no", "sendv", "late connect"}
    BY RecvConnectEffect DEF Shape
  <2>9. QED
    BY <2>1, <2>3, <2>4, <2>5, <2>6, <2>7, <2>8 DEF Shape
<1>3. QED
  BY <1>1, <1>2

(* DATA is passed on to the service of the session that users_ has. *)
LEMMA ShapeRecvData ==
    ASSUME Shape, RecvData
    PROVE  Shape'
<1>1. /\ strand # << >> /\ Pop
      /\ UNCHANGED <<tunnel, users, ses, nses, conn, serv, io, wire, told, crashed>>
  BY DEF RecvData, NextIs
<1>2. strand' \in Seq(LiveEvent(nses))
  BY <1>1, PopKeeps
<1>3. pending' \subseteq Conns \X (1..nses)
  <2>1. pending \subseteq Conns \X (1..nses)
    BY DEF Shape
  <2>2. CASE Head(strand).user \in DOMAIN users
    <3> DEFINE s == users[Head(strand).user]
    <3>1. s \in 1..nses /\ pending' = pending \cup {<<UserConn(s), s>>}
      BY <2>2 DEF Shape, RecvData
    <3>2. UserConn(s) \in Conns
      BY <3>1, MadeSoFar, Connections
    <3> HIDE DEF s
    <3>3. <<UserConn(s), s>> \in Conns \X (1..nses)
      BY <3>1, <3>2
    <3>4. QED
      BY <2>1, <3>1, <3>3
  <2>3. CASE Head(strand).user \notin DOMAIN users
    BY <2>1, <2>3 DEF RecvData
  <2>4. QED
    BY <2>2, <2>3
<1>4. QED
  BY <1>1, <1>2, <1>3 DEF Shape

(* SESSION opens the connection of a session, which is ready from then on. *)
LEMMA OnSessionConnectEffect ==
    ASSUME Shape, OnSessionConnect
    PROVE  /\ strand # << >> /\ Pop /\ UNCHANGED <<tunnel, users, nses, conn, serv, pending, wire, told, crashed>>
           /\ \E s \in 1..nses : /\ SendOn(SesConn(s), "SESSION", s) /\ ses' \in [1..nses -> Session]
                                 /\ \A t \in 1..nses : t # s => ses'[t] = ses[t]
                                 /\ ses'[s] = [ses[s] EXCEPT !.ready = TRUE]
<1>1. PICK s \in SessionIds : SessionConnected(SesConn(s), s)
  BY DEF OnSessionConnect
<1>2. /\ strand # << >> /\ Head(strand).ev = "connect" /\ Head(strand).on = SesConn(s) /\ Pop
      /\ SendOn(SesConn(s), "SESSION", s) /\ ses' = [ses EXCEPT ![s].ready = TRUE]
      /\ UNCHANGED <<tunnel, users, nses, conn, serv, pending, wire, told, crashed>>
  BY <1>1 DEF SessionConnected, NextIs
<1>3. Head(strand).on \in Tunnels \cup SesConns(nses)
  BY <1>2, PopKeeps, EventCases
<1>4. s \in 1..nses
  BY <1>2, <1>3, TunnelsApart, Connections, Names
<1>5. ses \in [1..nses -> Session] /\ [ses[s] EXCEPT !.ready = TRUE] \in Session
  BY <1>4, SessionUpdates DEF Shape
<1>6. /\ ses' \in [1..nses -> Session] /\ ses'[s] = [ses[s] EXCEPT !.ready = TRUE]
      /\ \A t \in 1..nses : t # s => ses'[t] = ses[t]
  BY <1>2, <1>4, <1>5
<1>7. QED
  BY <1>2, <1>4, <1>6

(* What is posted to a connection about a session that exists. *)
LEMMA SessionWork ==
    ASSUME Shape, NEW s \in 1..nses, NEW cmd \in {"SESSION", "DATA", "DISCONNECT"}
    PROVE  [cmd |-> cmd, ses |-> s] \in LiveWork(nses)
BY DEF LiveWork

(* A session connection is up: it announces its session. *)
LEMMA ShapeOnSessionConnect ==
    ASSUME Shape, OnSessionConnect
    PROVE  Shape'
<1>1. PICK s \in 1..nses : SendOn(SesConn(s), "SESSION", s) /\ ses' \in [1..nses -> Session]
  BY OnSessionConnectEffect
<1>2. io' \in [Framed -> Seq(LiveWork(nses))]
  BY <1>1, SessionWork, SendOnKeeps, MadeSoFar
<1>3. strand' \in Seq(LiveEvent(nses))
  BY OnSessionConnectEffect, PopKeeps
<1>4. QED
  BY <1>1, <1>2, <1>3, OnSessionConnectEffect DEF Shape

(* The data of a service is posted to the connection that Route names. *)
LEMMA RouteIsFramed ==
    ASSUME Shape, NEW s \in 1..nses
    PROVE  Route(s) \in Framed
BY MadeSoFar DEF Route

(* Data of the service goes out on the route of its session. *)
LEMMA OnUserRecvEffect ==
    ASSUME Shape, OnUserRecv
    PROVE  /\ strand # << >> /\ Pop
           /\ UNCHANGED <<tunnel, users, ses, nses, conn, serv, pending, wire, told, crashed>>
           /\ Head(strand).ev = "recv"
           /\ \E s \in 1..nses : Head(strand).on = UserConn(s) /\ SendOn(Route(s), "DATA", s)
<1>1. /\ strand # << >> /\ Pop /\ Head(strand).ev = "recv"
      /\ UNCHANGED <<tunnel, users, ses, nses, conn, serv, pending, wire, told, crashed>>
  BY DEF OnUserRecv, NextIs
<1>2. Head(strand).on \in UserConns(nses)
  BY <1>1, PopKeeps, EventCases
<1>3. PICK s \in 1..nses : Head(strand).on = UserConn(s)
  BY <1>2, Connections
<1>4. Head(strand).on[2] = s
  BY <1>3, Names
<1>5. SendOn(Route(s), "DATA", s)
  BY <1>4 DEF OnUserRecv
<1>6. QED
  BY <1>1, <1>3, <1>5

(* Data of the service is posted to a connection that exists. *)
LEMMA ShapeOnUserRecv ==
    ASSUME Shape, OnUserRecv
    PROVE  Shape'
<1>1. PICK s \in 1..nses : SendOn(Route(s), "DATA", s)
  BY OnUserRecvEffect
<1>2. io' \in [Framed -> Seq(LiveWork(nses))]
  BY <1>1, SessionWork, SendOnKeeps, RouteIsFramed
<1>3. strand' \in Seq(LiveEvent(nses))
  BY OnUserRecvEffect, PopKeeps
<1>4. QED
  BY <1>2, <1>3, OnUserRecvEffect DEF Shape

(* The handlers that clean. *)
LEMMA ShapeCleaning ==
    ASSUME Shape, \/ RecvDisconnect \/ OnSessionDisconnect \/ OnUserDisconnect
                  \/ \E e \in pending : SendDone(e[1], e[2])
    PROVE  Shape'
<1>1. CASE RecvDisconnect \/ OnSessionDisconnect
  <2>1. /\ strand # << >> /\ Pop /\ UNCHANGED <<io, pending, wire, crashed>>
        /\ \/ UNCHANGED <<tunnel, nses, told, users, ses, conn, serv>>
           \/ \E s \in 1..nses : Cleans(s)
    BY <1>1, RecvDisconnectCleans, OnSessionDisconnectCleans
  <2>2. strand' \in Seq(LiveEvent(nses))
    BY <2>1, PopKeeps
  <2>3. io' \in [Framed -> Seq(LiveWork(nses))] /\ pending' \subseteq pending
    BY <2>1 DEF Shape
  <2>4. CASE UNCHANGED <<tunnel, nses, told, users, ses, conn, serv>>
    BY <2>1, <2>2, <2>4 DEF Shape
  <2>5. CASE \E s \in 1..nses : Cleans(s)
    BY <2>1, <2>2, <2>3, <2>5, CleansShape
  <2>6. QED
    BY <2>1, <2>4, <2>5
<1>2. CASE OnUserDisconnect
  <2>1. PICK s \in 1..nses : Cleans(s) /\ SendOn(Route(s), "DISCONNECT", s)
    BY <1>2, OnUserDisconnectCleans
  <2>2. strand' \in Seq(LiveEvent(nses)) /\ pending' \subseteq pending /\ UNCHANGED <<wire, crashed>>
    BY <1>2, OnUserDisconnectCleans, PopKeeps
  <2>3. io' \in [Framed -> Seq(LiveWork(nses))]
    BY <2>1, SessionWork, SendOnKeeps, RouteIsFramed
  <2>4. QED
    BY <2>1, <2>2, <2>3, CleansShape
<1>3. CASE \E e \in pending : SendDone(e[1], e[2])
  <2>1. PICK e \in pending : SendDone(e[1], e[2])
    BY <1>3
  <2>2. e[2] \in 1..nses /\ Cleans(e[2]) /\ pending' \subseteq pending /\ UNCHANGED <<strand, io, wire, crashed>>
    BY <2>1, SendDoneCleans
  <2>3. strand' \in Seq(LiveEvent(nses)) /\ io' \in [Framed -> Seq(LiveWork(nses))]
    BY <2>2 DEF Shape
  <2>4. QED
    BY <2>2, <2>3, CleansShape
<1>4. QED
  BY <1>1, <1>2, <1>3

(* In sum: every step keeps the shape. *)
LEMMA ShapeStep == Shape /\ [Next]_vars => Shape'
<1> SUFFICES ASSUME Shape, [Next]_vars PROVE Shape'
  OBVIOUS
<1>1. CASE RunStrand
  BY <1>1, ShapeOnServerConnect, ShapeOnServerDisconnect, ShapeReconnect, ShapeRecvConnect,
     ShapeRecvData, ShapeOnSessionConnect, ShapeOnUserRecv, ShapeCleaning DEF RunStrand
<1>2. CASE PoolThread
  BY <1>2, ShapePool, ShapeRunIo, ShapeRelaySends, ShapeRelaySendsOnSession, ShapeService,
     ShapeCleaning DEF PoolThread
<1>3. CASE UNCHANGED vars
  BY <1>3 DEF vars, Shape
<1>4. QED
  BY <1>1, <1>2, <1>3 DEF Next

(* The agent's tables keep their shape: every event, every message posted to  *)
(* a connection and every callback refers to a session that exists, whatever  *)
(* the relay, the services and the pool threads do, for any number of users.  *)
THEOREM AgentTypeCorrect == Spec => []TypeOK
<1>1. Shape => TypeOK
  <2> SUFFICES ASSUME Shape PROVE TypeOK
    OBVIOUS
  <2>1. strand \in Seq(Event)
    <3>1. LiveEvent(nses) \subseteq Event
      BY MadeSoFar, Connections DEF LiveEvent, Event
    <3>2. QED
      BY <3>1, SeqGrows DEF Shape
  <2>2. io \in [Framed -> Seq([cmd : Cmd, ses : 0..nses])]
    <3>1. nses \in Nat
      BY MadeSoFar
    <3>2. LiveWork(nses) \subseteq [cmd : Cmd, ses : 0..nses]
      BY <3>1 DEF LiveWork, Cmd
    <3>3. ASSUME NEW c \in Framed PROVE io[c] \in Seq([cmd : Cmd, ses : 0..nses])
      <4>1. io[c] \in Seq(LiveWork(nses))
        BY DEF Shape
      <4>2. QED
        BY <3>2, <4>1, SeqGrows
    <3>4. QED
      BY <3>3 DEF Shape
  <2>3. QED
    BY <2>1, <2>2 DEF Shape, TypeOK
<1>2. QED
  BY <1>1, ShapeInit, ShapeStep, PTL DEF Spec
----------------------------------------------------------------------------
(* SESSION comes first.  What a step that writes nothing may do: it leaves    *)
(* closed connections closed, and posts to a session connection only SESSION  *)
(* or, once the session is ready, anything.                                   *)
StaysDead == \A s \in SessionIds : conn[SesConn(s)] \in Ended \cup {"shut", "failed"}
                                   => conn'[SesConn(s)] \in Ended \cup {"shut", "failed"}
StaysQuiet(s) == /\ io'[SesConn(s)] = io[SesConn(s)]
                 /\ s <= nses' => \/ ~ses'[s].ready
                                  \/ s <= nses /\ ses'[s].ready = ses[s].ready
PostsInOrder(s) == \E w : /\ io'[SesConn(s)] = Append(io[SesConn(s)], w)
                          /\ w = SessionMsg(s) \/ (s <= nses /\ ses[s].ready)

(* What is posted to a session connection starts with the SESSION command. *)
LEMMA SessionNextKept ==
    ASSUME Shape, SessionNext, wire' = wire, StaysDead,
           \A s \in SessionIds : StaysQuiet(s) \/ PostsInOrder(s)
    PROVE  SessionNext'
<1>1. SUFFICES ASSUME NEW s \in SessionIds, <<SesConn(s), "SESSION", s>> \notin wire
               PROVE  Unused(s)'
  BY DEF SessionNext
<1>2. Unused(s)
  BY <1>1 DEF SessionNext
<1>3. \A m \in wire' : m[1] # SesConn(s)
  BY <1>2 DEF Unused
<1>4. io[SesConn(s)] \in Seq(LiveWork(nses))
  BY MadeSoFar DEF Shape
<1>5. CASE conn[SesConn(s)] \in Ended \cup {"shut", "failed"}
  BY <1>3, <1>5 DEF Unused, StaysDead
<1>6. CASE io[SesConn(s)] = << >> /\ (s <= nses => ~ses[s].ready)
  <2>1. CASE StaysQuiet(s)
    BY <1>3, <1>6, <2>1 DEF Unused, StaysQuiet
  <2>2. CASE PostsInOrder(s)
    <3>1. io'[SesConn(s)] = Append(io[SesConn(s)], SessionMsg(s))
      BY <1>6, <2>2 DEF PostsInOrder
    <3>2. io'[SesConn(s)] # << >> /\ Head(io'[SesConn(s)]) = SessionMsg(s)
      BY <1>6, <3>1
    <3>3. QED
      BY <1>3, <3>2 DEF Unused
  <2>3. QED
    BY <2>1, <2>2
<1>7. CASE io[SesConn(s)] # << >> /\ Head(io[SesConn(s)]) = SessionMsg(s)
  <2>1. io'[SesConn(s)] # << >> /\ Head(io'[SesConn(s)]) = Head(io[SesConn(s)])
    <3>1. CASE StaysQuiet(s)
      BY <1>7, <3>1 DEF StaysQuiet
    <3>2. CASE PostsInOrder(s)
      <4>1. PICK w : io'[SesConn(s)] = Append(io[SesConn(s)], w)
        BY <3>2 DEF PostsInOrder
      <4>2. QED
        BY <1>4, <1>7, <4>1
    <3>3. QED
      BY <3>1, <3>2
  <2>2. QED
    BY <1>3, <1>7, <2>1 DEF Unused
<1>8. QED
  BY <1>2, <1>5, <1>6, <1>7 DEF Unused

(* What is posted to one connection leaves the queues of the others. *)
LEMMA SendOnOne ==
    ASSUME Shape, NEW c \in Framed, NEW cmd, NEW s, SendOn(c, cmd, s)
    PROVE  /\ io'[c] = Append(io[c], [cmd |-> cmd, ses |-> s])
           /\ \A d \in Framed : d # c => io'[d] = io[d]
<1>1. io \in [Framed -> Seq(LiveWork(nses))]
  BY DEF Shape
<1>2. QED
  BY <1>1 DEF SendOn

(* Whatever Route names: the connection is the tunnel, or ready. *)
LEMMA RouteInOrder ==
    ASSUME Shape, NEW s \in 1..nses, NEW cmd, SendOn(Route(s), cmd, s), UNCHANGED nses,
           \A t \in 1..nses : ses'[t].ready = ses[t].ready
    PROVE  \A t \in SessionIds : StaysQuiet(t) \/ PostsInOrder(t)
<1>1. TAKE t \in SessionIds
<1>2. t <= nses => t \in 1..nses
  BY MadeSoFar DEF SessionIds
<1>3. SesConn(t) \in Framed /\ Route(s) \in Framed
  BY MadeSoFar, RouteIsFramed
<1>4. CASE SesConn(t) # Route(s)
  <2>1. io'[SesConn(t)] = io[SesConn(t)]
    BY <1>3, <1>4, SendOnOne
  <2>2. QED
    BY <1>2, <2>1 DEF StaysQuiet
<1>5. CASE SesConn(t) = Route(s)
  <2>1. ses[s].ready /\ t = s
    BY <1>5, Names DEF Route
  <2>2. io'[SesConn(t)] = Append(io[SesConn(t)], [cmd |-> cmd, ses |-> s])
    BY <1>3, <1>5, SendOnOne
  <2>3. t <= nses /\ ses[t].ready
    BY <2>1, MadeSoFar
  <2>4. QED
    BY <2>2, <2>3 DEF PostsInOrder
<1>6. QED
  BY <1>4, <1>5

(* Nothing is posted to a session connection, and no session gets ready. *)
LEMMA AllQuiet ==
    ASSUME Shape, UNCHANGED <<io, nses>>, \A t \in 1..nses : ses'[t].ready = ses[t].ready
    PROVE  \A s \in SessionIds : StaysQuiet(s) \/ PostsInOrder(s)
<1>1. TAKE s \in SessionIds
<1>2. s <= nses => s \in 1..nses
  BY MadeSoFar DEF SessionIds
<1>3. QED
  BY <1>2 DEF StaysQuiet

(* Cleaning closes connections, and leaves ready sessions ready. *)
LEMMA CleansDead ==
    ASSUME Shape, NEW s \in 1..nses, Cleans(s)
    PROVE  StaysDead /\ UNCHANGED nses /\ \A t \in 1..nses : ses'[t].ready = ses[t].ready
<1>1. UNCHANGED nses /\ \A t \in 1..nses : ses'[t].ready = ses[t].ready
  BY DEF Cleans
<1>2. \A c \in Framed : conn'[c] \in Ended \cup {conn[c]}
  BY DEF Cleans, ClosesAtMost
<1>3. StaysDead
  BY <1>2, MadeSoFar DEF StaysDead
<1>4. QED
  BY <1>1, <1>3

(* Cleaning steps post nothing to a session connection that is not ready. *)
LEMMA CleaningInOrder ==
    ASSUME Shape, SessionNext, 
           \/ RecvDisconnect \/ OnSessionDisconnect \/ OnUserDisconnect
           \/ \E e \in pending : SendDone(e[1], e[2])
    PROVE  SessionNext'
<1>1. CASE RecvDisconnect /\ UNCHANGED <<tunnel, nses, told, users, ses, conn, serv>>
  <2>1. UNCHANGED <<io, wire>> /\ StaysDead /\ \A t \in 1..nses : ses'[t].ready = ses[t].ready
    BY <1>1, RecvDisconnectCleans DEF StaysDead
  <2>2. QED
    BY <1>1, <2>1, AllQuiet, SessionNextKept
<1>2. CASE UNCHANGED <<io, wire>> /\ \E s \in 1..nses : Cleans(s)
  <2>1. PICK s \in 1..nses : Cleans(s)
    BY <1>2
  <2>2. StaysDead /\ UNCHANGED nses /\ \A t \in 1..nses : ses'[t].ready = ses[t].ready
    BY <2>1, CleansDead
  <2>3. QED
    BY <1>2, <2>2, AllQuiet, SessionNextKept
<1>3. CASE OnUserDisconnect
  <2>1. PICK s \in 1..nses : Cleans(s) /\ SendOn(Route(s), "DISCONNECT", s)
    BY <1>3, OnUserDisconnectCleans
  <2>2. StaysDead /\ UNCHANGED nses /\ \A t \in 1..nses : ses'[t].ready = ses[t].ready
    BY <2>1, CleansDead
  <2>3. wire' = wire
    BY <1>3, OnUserDisconnectCleans
  <2>4. QED
    BY <2>1, <2>2, <2>3, RouteInOrder, SessionNextKept
<1>4. CASE \E e \in pending : SendDone(e[1], e[2])
  <2>1. PICK e \in pending : SendDone(e[1], e[2])
    BY <1>4
  <2>2. e[2] \in 1..nses /\ Cleans(e[2]) /\ UNCHANGED <<io, wire>>
    BY <2>1, SendDoneCleans
  <2>3. QED
    BY <1>2, <2>2
<1>5. QED
  BY <1>1, <1>2, <1>3, <1>4, RecvDisconnectCleans, OnSessionDisconnectCleans

(* The events that leave the queues alone. *)
LEMMA PoolInOrder ==
    ASSUME Shape, SessionNext,
           \/ \E c \in Framed : Connected(c) \/ ConnFails(c) \/ ConnectTimeout(c) \/ ConnectedLate(c)
           \/ \E cmd \in {"CONNECT", "DATA", "DISCONNECT"}, u \in Users : RelaySends(cmd, u)
           \/ \E cmd \in {"DATA", "DISCONNECT"}, s \in SessionIds : RelaySendsOnSession(cmd, s)
           \/ \E s \in SessionIds : ServiceConnected(s) \/ ServiceConnectedLate(s) \/ ServiceSends(s) \/ ServiceEnds(s)
           \/ RecvData
    PROVE  SessionNext'
<1>1. UNCHANGED <<io, wire, nses, ses>>
  BY DEF Connected, ConnFails, ConnectTimeout, ConnectedLate, RelaySends, RelaySendsOnSession,
         ServiceConnected, ServiceConnectedLate, ServiceSends, ServiceEnds, RecvData
<1>2. \/ UNCHANGED conn
      \/ \E c \in Framed, v \in ConnState : /\ conn[c] \notin Ended \cup {"shut", "failed"}
                                            /\ conn' = [conn EXCEPT ![c] = v]
  BY DEF Connected, ConnFails, ConnectTimeout, ConnectedLate, RelaySends, RelaySendsOnSession,
         ServiceConnected, ServiceConnectedLate, ServiceSends, ServiceEnds, RecvData, Ended, ConnState
<1>3. StaysDead
  <2>1. conn \in [Framed -> ConnState]
    BY DEF Shape
  <2>2. QED
    BY <1>2, <2>1, MadeSoFar DEF StaysDead
<1>4. QED
  BY <1>1, <1>3, AllQuiet, SessionNextKept
(* The handlers of the tunnel do not touch the queue of a session. *)
LEMMA TunnelInOrder ==
    ASSUME Shape, SessionNext, OnServerConnect \/ OnServerDisconnect \/ Reconnect
    PROVE  SessionNext'
<1>1. UNCHANGED <<wire, nses, ses>>
  BY TunnelLostEffect, ReconnectEffect DEF OnServerConnect
<1>2. \A s \in SessionIds : io'[SesConn(s)] = io[SesConn(s)]
  <2>1. CASE OnServerConnect
    <3>1. SendOn(TunConn(tunnel), "BIND", 0)
      BY <2>1 DEF OnServerConnect
    <3>2. TunConn(tunnel) \in Framed /\ \A s \in SessionIds : SesConn(s) \in Framed
      BY MadeSoFar
    <3>3. \A d \in Framed : d # TunConn(tunnel) => io'[d] = io[d]
      BY <3>1, <3>2, SendOnOne
    <3>4. QED
      BY <3>2, <3>3, Names
  <2>2. QED
    BY <2>1, TunnelLostEffect, ReconnectEffect
<1>3. \A s \in SessionIds : conn'[SesConn(s)] \in Ended \/ conn'[SesConn(s)] = conn[SesConn(s)]
  <2>1. CASE OnServerConnect
    BY <2>1 DEF OnServerConnect
  <2>2. CASE OnServerDisconnect
    BY <2>2, TunnelLostEffect
  <2>3. CASE Reconnect
    BY <2>3, ReconnectEffect, MadeSoFar, Names
  <2>4. QED
    BY <2>1, <2>2, <2>3
<1>4. StaysDead
  BY <1>3 DEF StaysDead
<1>5. \A s \in SessionIds : StaysQuiet(s)
  <2>1. TAKE s \in SessionIds
  <2>2. QED
    BY <1>1, <1>2 DEF StaysQuiet
<1>6. QED
  BY <1>1, <1>4, <1>5, SessionNextKept

(* A new session is not ready, and its connection was not in use. *)
LEMMA RecvConnectInOrder ==
    ASSUME Shape, SessionNext, RecvConnect
    PROVE  SessionNext'
<1>1. UNCHANGED <<io, wire>>
  BY RecvConnectEffect
<1>2. CASE UNCHANGED <<users, ses, nses, conn, serv>>
  <2>1. StaysDead
    BY <1>2 DEF StaysDead
  <2>2. QED
    BY <1>1, <1>2, <2>1, AllQuiet, SessionNextKept
<1>3. CASE Head(strand).user \notin DOMAIN users
  <2>1. /\ nses \in Nat /\ nses' = nses + 1 /\ nses + 1 \in SessionIds
        /\ \A s \in 1..nses : ses'[s] = ses[s]
        /\ ses'[nses + 1] = NewSession(Head(strand))
        /\ \A c \in Framed : c # SesConn(nses + 1) => conn'[c] = conn[c]
    BY <1>3, RecvConnectEffect, MadeSoFar
  <2>2. conn[SesConn(nses + 1)] = "none"
    <3>1. nses + 1 > nses
      BY <2>1
    <3>2. QED
      BY <2>1, <3>1 DEF Shape
  <2>3. StaysDead
    <3>1. SUFFICES ASSUME NEW s \in SessionIds, conn[SesConn(s)] \in Ended \cup {"shut", "failed"}
                   PROVE  conn'[SesConn(s)] = conn[SesConn(s)]
      BY DEF StaysDead
    <3>2. SesConn(s) \in Framed
      BY MadeSoFar
    <3>3. QED
      BY <2>1, <2>2, <3>1, <3>2 DEF Ended
  <2>4. \A s \in SessionIds : StaysQuiet(s)
    <3>1. TAKE s \in SessionIds
    <3>2. s <= nses' => s \in 1..nses \/ s = nses + 1
      BY <2>1 DEF SessionIds
    <3>3. s \in 1..nses => s <= nses /\ ses'[s].ready = ses[s].ready
      BY <2>1
    <3>4. ses'[nses + 1].ready = FALSE
      BY <2>1 DEF NewSession
    <3>5. QED
      BY <1>1, <3>2, <3>3, <3>4 DEF StaysQuiet
  <2>5. QED
    BY <1>1, <2>3, <2>4, SessionNextKept
<1>4. QED
  BY <1>2, <1>3, RecvConnectEffect

(* The session that gets ready gets SESSION first. *)
LEMMA OnSessionConnectInOrder ==
    ASSUME Shape, SessionNext, OnSessionConnect
    PROVE  SessionNext'
<1>1. UNCHANGED <<tunnel, users, nses, conn, wire>>
  BY OnSessionConnectEffect
<1>2. PICK s \in 1..nses : /\ SendOn(SesConn(s), "SESSION", s)
                           /\ \A t \in 1..nses : t # s => ses'[t] = ses[t]
  BY OnSessionConnectEffect
<1>3. \A t \in SessionIds : StaysQuiet(t) \/ PostsInOrder(t)
  <2>1. TAKE t \in SessionIds
  <2>2. SesConn(t) \in Framed /\ SesConn(s) \in Framed
    BY MadeSoFar
  <2>3. CASE t = s
    <3>1. io'[SesConn(t)] = Append(io[SesConn(t)], SessionMsg(t))
      BY <1>2, <2>2, <2>3, SendOnOne DEF SessionMsg
    <3>2. PostsInOrder(t)
      BY <3>1 DEF PostsInOrder
    <3>3. QED
      BY <3>2
  <2>4. CASE t # s
    <3>0. SesConn(t) # SesConn(s)
      BY <2>4, Names
    <3>1. io'[SesConn(t)] = io[SesConn(t)]
      BY <1>2, <2>2, <3>0, SendOnOne
    <3>2. t <= nses' => t \in 1..nses
      BY <1>1, MadeSoFar DEF SessionIds
    <3>3. t <= nses' => t <= nses /\ ses'[t] = ses[t]
      BY <1>1, <1>2, <2>4, <3>2
    <3>4. QED
      BY <3>1, <3>3 DEF StaysQuiet
  <2>5. QED
    BY <2>3, <2>4
<1>4. StaysDead
  BY <1>1 DEF StaysDead
<1>5. QED
  BY <1>1, <1>3, <1>4, SessionNextKept

(* Data is routed to the session connection only once it is announced. *)
LEMMA OnUserRecvInOrder ==
    ASSUME Shape, SessionNext, OnUserRecv
    PROVE  SessionNext'
<1>1. UNCHANGED <<ses, nses, conn, wire>>
  BY OnUserRecvEffect
<1>2. PICK s \in 1..nses : SendOn(Route(s), "DATA", s)
  BY OnUserRecvEffect
<1>3. StaysDead
  BY <1>1 DEF StaysDead
<1>4. QED
  BY <1>1, <1>2, <1>3, RouteInOrder, SessionNextKept

(* What is written to a connection is the head of its queue, unless the       *)
(* connection is closed, shut or failed.                                      *)
LEMMA RunIoEffect ==
    ASSUME Shape, NEW c \in Framed, RunIo(c)
    PROVE  /\ io[c] # << >> /\ io'[c] = Tail(io[c]) /\ \A d \in Framed : d # c => io'[d] = io[d]
           /\ UNCHANGED <<tunnel, users, ses, nses, conn, serv, strand, told>>
           /\ \/ wire' = wire
              \/ /\ wire' = wire \cup {<<c, Head(io[c]).cmd, Head(io[c]).ses>>}
                 /\ Head(io[c]).cmd # "BIND"
           /\ conn[c] \in Ended \cup {"shut", "failed"} => wire' = wire
           /\ conn[c] \notin Ended \cup {"shut", "failed"} /\ Head(io[c]).cmd # "BIND" =>
                 wire' = wire \cup {<<c, Head(io[c]).cmd, Head(io[c]).ses>>}
<1>1. io \in [Framed -> Seq(LiveWork(nses))]
  BY DEF Shape
<1>2. /\ io[c] # << >> /\ io' = [io EXCEPT ![c] = Tail(@)]
      /\ UNCHANGED <<tunnel, users, ses, nses, conn, serv, strand, told>>
  BY DEF RunIo
<1>3. io'[c] = Tail(io[c]) /\ \A d \in Framed : d # c => io'[d] = io[d]
  BY <1>1, <1>2
<1>4. /\ conn[c] \in Ended \cup {"shut", "failed"} => wire' = wire
      /\ conn[c] \notin Ended \cup {"shut", "failed"} /\ Head(io[c]).cmd # "BIND" =>
            wire' = wire \cup {<<c, Head(io[c]).cmd, Head(io[c]).ses>>}
      /\ Head(io[c]).cmd = "BIND" => wire' = wire
  BY DEF RunIo, RunSendV, RunSend
<1>5. QED
  BY <1>2, <1>3, <1>4

(* The SESSION command, posted first, is written first. *)
LEMMA RunIoInOrder ==
    ASSUME Shape, SessionNext, NEW c \in Framed, RunIo(c)
    PROVE  SessionNext'
<1>1. SUFFICES ASSUME NEW s \in SessionIds, <<SesConn(s), "SESSION", s>> \notin wire'
               PROVE  Unused(s)'
  BY DEF SessionNext
<1>2. wire \subseteq wire' /\ UNCHANGED <<ses, nses, conn>>
  BY RunIoEffect
<1>3. Unused(s)
  BY <1>1, <1>2 DEF SessionNext
<1>4. CASE c # SesConn(s)
  <2>1. io'[SesConn(s)] = io[SesConn(s)]
    BY <1>4, MadeSoFar, RunIoEffect
  <2>2. \A m \in wire' : m[1] # SesConn(s)
    BY <1>3, <1>4, RunIoEffect DEF Unused
  <2>3. QED
    BY <1>2, <1>3, <2>1, <2>2 DEF Unused
<1>5. CASE c = SesConn(s)
  <2>1. CASE conn[c] \in Ended \cup {"shut", "failed"}
    <3>1. wire' = wire
      BY <2>1, RunIoEffect
    <3>2. QED
      BY <1>2, <1>3, <1>5, <2>1, <3>1 DEF Unused
  <2>2. CASE conn[c] \notin Ended \cup {"shut", "failed"}
    <3>1. Head(io[c]) = SessionMsg(s)
      BY <1>3, <1>5, <2>2, RunIoEffect DEF Unused
    <3>2. Head(io[c]).cmd = "SESSION" /\ Head(io[c]).ses = s
      BY <3>1 DEF SessionMsg
    <3>3. wire' = wire \cup {<<SesConn(s), "SESSION", s>>}
      BY <1>5, <2>2, <3>2, RunIoEffect
    <3>4. QED
      BY <1>1, <3>3
  <2>3. QED
    BY <2>1, <2>2
<1>6. QED
  BY <1>4, <1>5

(* The state of a session connection of which nothing was said. *)
LEMMA SessionNextInit == Init => SessionNext
<1> SUFFICES ASSUME Init PROVE SessionNext
  OBVIOUS
<1>1. SUFFICES ASSUME NEW s \in SessionIds PROVE Unused(s)
  BY DEF SessionNext
<1>2. SesConn(s) \in Framed
  BY Connections
<1>3. io[SesConn(s)] = << >> /\ wire = {}
  BY <1>2 DEF Init
<1>4. s <= nses => FALSE
  BY ConstantsAssumption DEF Init, SessionIds
<1>5. QED
  BY <1>3, <1>4 DEF Unused

(* Every step keeps the order on the session connections. *)
LEMMA SessionNextStep == Shape /\ SessionNext /\ [Next]_vars => SessionNext'
<1> SUFFICES ASSUME Shape, SessionNext, [Next]_vars PROVE SessionNext'
  OBVIOUS
<1>1. CASE RunStrand
  BY <1>1, TunnelInOrder, RecvConnectInOrder, PoolInOrder, OnSessionConnectInOrder,
     OnUserRecvInOrder, CleaningInOrder DEF RunStrand
<1>2. CASE PoolThread
  BY <1>2, PoolInOrder, RunIoInOrder, CleaningInOrder DEF PoolThread
<1>3. CASE UNCHANGED vars
  BY <1>3 DEF vars, SessionNext, Unused
<1>4. QED
  BY <1>1, <1>2, <1>3 DEF Next

(* Whatever is written to a session connection (by __OnSessionConnect,        *)
(* __OnUserRecv or __OnUserDisconnect), SESSION was written to it before.     *)
THEOREM SessionIsFirst == Spec => []SessionComesFirst
<1>1. Shape /\ SessionNext => SessionComesFirst
  <2> SUFFICES ASSUME Shape, SessionNext, NEW s \in 1..nses, \E m \in wire : m[1] = SesConn(s)
               PROVE  <<SesConn(s), "SESSION", s>> \in wire
    BY DEF SessionComesFirst
  <2>1. s \in SessionIds
    BY MadeSoFar
  <2>2. QED
    BY <2>1 DEF SessionNext, Unused
<1>2. QED
  BY <1>1, ShapeInit, ShapeStep, SessionNextInit, SessionNextStep, PTL DEF Spec
----------------------------------------------------------------------------
(* Finished sessions leave users_.  Cleaning session s drops it under its own *)
(* number, which is the one users_ has it under.                              *)
LEMMA FinishedSays ==
    /\ \A r : Finished(r) <=> r.user_disconnected /\ r.tunnel_disconnected
    /\ NoFinishedSessionKept <=> \A u \in DOMAIN users : ~Finished(ses[users[u]])
BY DEF Finished, NoFinishedSessionKept

(* A cleaning step leaves no finished session behind. *)
LEMMA CleansUsersOk ==
    ASSUME Shape, UsersOk, NEW s \in 1..nses, Cleans(s)
    PROVE  UsersOk'
<1>1. SUFFICES ASSUME NEW u \in DOMAIN users'
               PROVE  ses'[users'[u]].user = u /\ ~Finished(ses'[users'[u]])
  BY FinishedSays DEF UsersOk, UsersMatch, NoFinishedSessionKept, Finished
<1>2. u \in DOMAIN users /\ users'[u] = users[u] /\ users[u] \in 1..nses
  BY DEF Cleans, Shape
<1>3. ses[users[u]].user = u /\ ~Finished(ses[users[u]])
  BY <1>2, FinishedSays DEF UsersOk, UsersMatch
<1>4. CASE users[u] # s
  BY <1>2, <1>3, <1>4 DEF Cleans
<1>5. CASE users[u] = s
  BY <1>2, <1>3, <1>5 DEF Cleans
<1>6. QED
  BY <1>4, <1>5

(* The handlers that make a session, or mark it ready. *)
LEMMA RecvConnectUsersOk ==
    ASSUME Shape, UsersOk, RecvConnect
    PROVE  UsersOk'
<1>1. CASE UNCHANGED <<users, ses>>
  BY <1>1 DEF UsersOk, UsersMatch, NoFinishedSessionKept
<1>2. CASE Head(strand).user \notin DOMAIN users
  <2>1. SUFFICES ASSUME NEW u \in DOMAIN users'
                 PROVE  ses'[users'[u]].user = u /\ ~Finished(ses'[users'[u]])
    BY FinishedSays DEF UsersOk, UsersMatch, NoFinishedSessionKept, Finished
  <2>2. CASE u = Head(strand).user
    <3>1. ses'[users'[u]] = NewSession(Head(strand)) /\ Head(strand).user = u
      BY <1>2, <2>2, RecvConnectEffect
    <3>2. QED
      BY <3>1 DEF NewSession, Finished
  <2>3. CASE u # Head(strand).user
    <3>1. u \in DOMAIN users /\ users'[u] = users[u]
      BY <1>2, <2>3, RecvConnectEffect
    <3>2. users[u] \in 1..nses
      BY <3>1 DEF Shape
    <3>3. ses'[users'[u]] = ses[users[u]]
      BY <1>2, <3>1, <3>2, RecvConnectEffect
    <3>4. QED
      BY <3>1, <3>3, FinishedSays DEF UsersOk, UsersMatch
  <2>4. QED
    BY <2>2, <2>3
<1>3. QED
  BY <1>1, <1>2, RecvConnectEffect

(* A session that becomes ready stays the one of its user. *)
LEMMA OnSessionConnectUsersOk ==
    ASSUME Shape, UsersOk, OnSessionConnect
    PROVE  UsersOk'
<1>1. PICK s \in 1..nses : /\ ses'[s] = [ses[s] EXCEPT !.ready = TRUE]
                           /\ \A t \in 1..nses : t # s => ses'[t] = ses[t]
  BY OnSessionConnectEffect
<1>2. ses[s] \in Session
  BY DEF Shape
<1>3. \A t \in 1..nses : /\ ses'[t].user = ses[t].user
                         /\ ses'[t].user_disconnected = ses[t].user_disconnected
                         /\ ses'[t].tunnel_disconnected = ses[t].tunnel_disconnected
  BY <1>1, <1>2 DEF Session
<1>4. users' = users /\ \A u \in DOMAIN users : users[u] \in 1..nses
  BY OnSessionConnectEffect DEF Shape
<1>5. QED
  BY <1>3, <1>4 DEF UsersOk, UsersMatch, NoFinishedSessionKept

(* The other steps change neither users_ nor sessions, or they empty users_. *)
LEMMA OthersKeepUsers ==
    ASSUME Shape, [Next]_vars
    PROVE  \/ UNCHANGED <<users, ses>> \/ DOMAIN users' = {} \/ RecvConnect \/ OnSessionConnect
           \/ RecvDisconnect \/ OnSessionDisconnect \/ OnUserDisconnect
           \/ \E e \in pending : SendDone(e[1], e[2])
<1>1. CASE RunStrand
  <2>1. CASE OnServerDisconnect
    BY <2>1, TunnelLostEffect
  <2>2. QED
    BY <1>1, <2>1 DEF RunStrand, OnServerConnect, Reconnect, RecvData, OnUserRecv
<1>2. CASE PoolThread
  BY <1>2 DEF PoolThread, Connected, ConnFails, ConnectTimeout, ConnectedLate, RunIo, RelaySends,
         RelaySendsOnSession, ServiceConnected, ServiceConnectedLate, ServiceSends, ServiceEnds
<1>3. QED
  BY <1>1, <1>2 DEF Next, vars

(* A step that cleans, in sum. *)
LEMMA CleaningCleans ==
    ASSUME Shape, \/ RecvDisconnect \/ OnSessionDisconnect \/ OnUserDisconnect
                  \/ \E e \in pending : SendDone(e[1], e[2])
    PROVE  \/ RecvDisconnect /\ UNCHANGED <<tunnel, nses, told, users, ses, conn, serv>>
           \/ \E s \in 1..nses : Cleans(s)
<1>1. CASE \E e \in pending : SendDone(e[1], e[2])
  BY <1>1, SendDoneCleans
<1>2. QED
  BY <1>1, RecvDisconnectCleans, OnSessionDisconnectCleans, OnUserDisconnectCleans

(* Every step keeps the session table right. *)
LEMMA UsersOkStep == Shape /\ UsersOk /\ [Next]_vars => UsersOk'
<1> SUFFICES ASSUME Shape, UsersOk, [Next]_vars PROVE UsersOk'
  OBVIOUS
<1>1. CASE UNCHANGED <<users, ses>>
  BY <1>1 DEF UsersOk, UsersMatch, NoFinishedSessionKept
<1>2. CASE DOMAIN users' = {}
  BY <1>2 DEF UsersOk, UsersMatch, NoFinishedSessionKept
<1>3. QED
  BY <1>1, <1>2, OthersKeepUsers, RecvConnectUsersOk, OnSessionConnectUsersOk, CleaningCleans, CleansUsersOk

(* Both ends gone, in whatever order and by whatever event: __CleanSession    *)
(* has dropped the session.  It holds even when the relay numbers anew.       *)
THEOREM FinishedSessionsGo == Spec => []NoFinishedSessionKept
<1>1. Init => UsersOk
  BY DEF Init, UsersOk, UsersMatch, NoFinishedSessionKept
<1>2. UsersOk => NoFinishedSessionKept
  BY DEF UsersOk
<1>3. QED
  BY <1>1, <1>2, ShapeInit, ShapeStep, UsersOkStep, PTL DEF Spec
=============================================================================
