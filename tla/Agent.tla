------------------------------- MODULE Agent -------------------------------
(***************************************************************************)
(* The agent program r-nat-c: AppLogic1 (app1/tunnel.cpp,                  *)
(* app1/session_tunnel.cpp, app1/user.cpp, app1/app1.cpp) over the clients *)
(* TcpClient (framed, to the relay) and RawTcpClient (to local services).  *)
(*                                                                         *)
(* One RemoteInfo is modelled: relays_ holds independent copies of it.     *)
(* Its tunnel announces users; for every user the agent opens a connection *)
(* to the local service and a session connection back to the relay.        *)
(*                                                                         *)
(* Threads: every handler runs in strand_ and is one step.  The pool       *)
(* threads own the connections: they post events to the strand, and run    *)
(* the Send and SendV that the handlers post to a connection.  Close() is  *)
(* called by handlers and acts at once, ahead of the work already posted.  *)
(***************************************************************************)
EXTENDS Integers, Sequences, FiniteSets

CONSTANTS
    Users,          \* keys of users_: pairs of service port and user number
    IdsRestart,     \* the relay numbers its users anew for every tunnel: so it
                    \* is when this agent was the last one of its service port
    Inputs,         \* optional inputs in use in this instance: R2A "DATA" and
                    \* "DISCONNECT", "recv" (data of services), "timeout" (connects
                    \* that time out or complete late)
    MaxTunnels,     \* bound: tunnel connections ever started
    MaxSessions,    \* bound: Session objects ever made
    MaxEvents,      \* bound: an event is posted to a strand with less work than this
    MaxWork         \* bound: work posted to a connection with at most this much

ASSUME ConstantsAssumption ==
    /\ IdsRestart \in BOOLEAN /\ Inputs \subseteq {"DATA", "DISCONNECT", "recv", "timeout"}
    /\ MaxTunnels \in Nat \ {0} /\ MaxSessions \in Nat /\ MaxEvents \in Nat /\ MaxWork \in Nat

VARIABLES
    tunnel,     \* remoteinfo->tcpclient_: number of the current tunnel connection
    users,      \* remoteinfo->users_: user -> identity of its Session
    ses,        \* Session, by identity
    nses,       \* sessions made so far
    conn,       \* state of every framed connection
    serv,       \* state of session->user_conn_, by session
    strand,     \* strand_: queue of posted events
    io,         \* Send and SendV posted to a framed connection
    pending,    \* callbacks of packets handed to a connection and not yet run
    wire,       \* what was said of users: <<connection, command, session>> in a socket
    told,       \* users announced with CONNECT: <<tunnel, user>>
    crashed     \* why the process terminated ("no": it did not)

vars == <<tunnel, users, ses, nses, conn, serv, strand, io, pending, wire, told, crashed>>

----------------------------------------------------------------------------
Tunnels    == {<<"tunnel", n>> : n \in 1..MaxTunnels}
SessionIds == 1..MaxSessions
SesConn(s) == <<"session", s>>
TunConn(n) == <<"tunnel", n>>
UserConn(s) == <<"user", s>>
Framed     == Tunnels \cup {SesConn(s) : s \in SessionIds}

(* A client connection: "late" once the connect timer has fired, "failed"     *)
(* when its connect came to nothing; "shut" was up until its thread reported   *)
(* the end; "closed" once the agent has called Close(), "closing" if the       *)
(* connect was still outstanding.  __Shutdown leaves on_recv alone, so what a  *)
(* shut connection has read, or finds in the socket, is still delivered.       *)
ConnState == {"none", "connecting", "late", "failed", "up", "shut", "closing", "closed"}
Delivers == {"up", "shut"}
Ended == {"closing", "closed"}
CloseConn(c) == IF c \in {"connecting", "late", "closing"} THEN "closing" ELSE "closed"

Put(f, k, v) == [x \in DOMAIN f \cup {k} |-> IF x = k THEN v ELSE f[x]]
Drop(f, K) == [x \in DOMAIN f \ K |-> f[x]]
Values(f) == {f[x] : x \in DOMAIN f}

(* For the properties a session notes the tunnel that announced it, and        *)
(* whether its CONNECT was handled after that tunnel's users were dropped.     *)
Session == [user : Users, tun : 1..MaxTunnels, late : BOOLEAN, ready : BOOLEAN,
            user_disconnected : BOOLEAN, tunnel_disconnected : BOOLEAN,
            tunnel_hard_disconnected : BOOLEAN]

(* Events in the strand.  "on" is the connection they are of. *)
Ev(e, c) == [ev |-> e, on |-> c]
R2AMsg(cmd, c, u) == [ev |-> cmd, on |-> c, user |-> u]

(* The users of tunnel connection c have been dropped: the lambda that        *)
(* replaces it is in the strand, or has run.                                  *)
UsersDropped(c) ==
    c # TunConn(tunnel) \/ \E i \in 1..Len(strand) : strand[i] = Ev("reconnect", c)
NewSessionOfNoTunnel(m) == [user |-> m.user, tun |-> 0, late |-> UsersDropped(m.on),
                  ready |-> FALSE, user_disconnected |-> FALSE,
                  tunnel_disconnected |-> FALSE, tunnel_hard_disconnected |-> FALSE]
NewSession(m) == [user |-> m.user, tun |-> m.on[2], late |-> UsersDropped(m.on),
                  ready |-> FALSE, user_disconnected |-> FALSE,
                  tunnel_disconnected |-> FALSE, tunnel_hard_disconnected |-> FALSE]

Running == crashed = "no"
Post(e) == strand' = Append(strand, e)
CanPost == Running /\ Len(strand) < MaxEvents
NextIs(e) == Running /\ strand # << >> /\ Head(strand).ev = e
Pop == strand' = Tail(strand)

Init ==
    /\ tunnel = 1 /\ users = << >> /\ ses = << >> /\ nses = 0
    /\ conn = [c \in Framed |-> IF c = TunConn(1) THEN "connecting" ELSE "none"]
    /\ serv = << >> /\ strand = << >>
    /\ io = [c \in Framed |-> << >>]
    /\ pending = {} /\ wire = {} /\ told = {}
    /\ crashed = "no"

----------------------------------------------------------------------------
(* The pool threads: ClientTCPConnection, RawClientTCPConnection. *)

(* __OnConnect without an error. *)
Connected(c) ==
    /\ CanPost /\ conn[c] = "connecting"
    /\ conn' = [conn EXCEPT ![c] = "up"]
    /\ Post(Ev("connect", c))
    /\ UNCHANGED <<tunnel, users, ses, nses, serv, io, pending, wire, told, crashed>>

(* __OnConnect with an error, a failed read or a failed write: __Shutdown    *)
(* reports the end once.                                                      *)
ConnFails(c) ==
    /\ CanPost /\ conn[c] \in {"connecting", "up"}
    /\ conn' = [conn EXCEPT ![c] = IF @ = "up" THEN "shut" ELSE "failed"]
    /\ Post(Ev("disconnect", c))
    /\ UNCHANGED <<tunnel, users, ses, nses, serv, io, pending, wire, told, crashed>>

(* __OnConnectTimeout: the same report, while __OnConnect is still to come. *)
ConnectTimeout(c) ==
    /\ CanPost /\ "timeout" \in Inputs /\ conn[c] = "connecting"
    /\ conn' = [conn EXCEPT ![c] = "late"]
    /\ Post(Ev("disconnect", c))
    /\ UNCHANGED <<tunnel, users, ses, nses, serv, io, pending, wire, told, crashed>>

(* The connect had succeeded before the timer or Close() shut the socket.     *)
(* After the timer, on_connect is still called.  After Close(), __OnConnect    *)
(* starts a read with the cleared on_allocbuf: std::bad_function_call.         *)
ConnectedLate(c) ==
    /\ CanPost /\ "timeout" \in Inputs
    /\ \/ /\ conn[c] = "late"
          /\ conn' = [conn EXCEPT ![c] = "failed"]
          /\ Post(Ev("connect", c)) /\ UNCHANGED crashed
       \/ /\ conn[c] = "closing"
          /\ crashed' = "late connect" /\ UNCHANGED <<conn, strand>>
    /\ UNCHANGED <<tunnel, users, ses, nses, serv, io, pending, wire, told>>

(* A message of the relay arrives on the tunnel, possibly after the tunnel    *)
(* has ended: CONNECT for a new user, DATA and DISCONNECT for a user that      *)
(* this tunnel was told of.                                                   *)
RelaySends(cmd, u) ==
    /\ CanPost /\ conn[TunConn(tunnel)] \in Delivers
    /\ \/ /\ cmd = "CONNECT" /\ <<tunnel, u>> \notin told
          /\ IdsRestart \/ \A n \in 1..tunnel : <<n, u>> \notin told
          /\ told' = told \cup {<<tunnel, u>>}
       \/ /\ cmd \in {"DATA", "DISCONNECT"} \cap Inputs /\ <<tunnel, u>> \in told
          /\ UNCHANGED told
    /\ Post(R2AMsg(cmd, TunConn(tunnel), u))
    /\ UNCHANGED <<tunnel, users, ses, nses, conn, serv, io, pending, wire, crashed>>

(* The same on a session connection, once the relay has its SESSION. *)
RelaySendsOnSession(cmd, s) ==
    /\ CanPost /\ cmd \in Inputs /\ s <= nses /\ conn[SesConn(s)] \in Delivers
    /\ <<SesConn(s), "SESSION", s>> \in wire
    /\ Post(R2AMsg(cmd, SesConn(s), ses[s].user))
    /\ UNCHANGED <<tunnel, users, ses, nses, conn, serv, io, pending, wire, told, crashed>>

(* The connection to the local service: established; data arrives (a read    *)
(* that had completed when a write failed is still delivered); it ends, or    *)
(* never comes about ("late").  A connect that completes after the timer or    *)
(* after Close(), which leaves a raw connection its on_allocbuf, starts on a   *)
(* shut socket; the callbacks of the packets queued meanwhile may run then.    *)
ServiceConnected(s) ==
    /\ Running /\ s <= nses /\ serv[s] = "connecting"
    /\ serv' = [serv EXCEPT ![s] = "up"]
    /\ UNCHANGED <<tunnel, users, ses, nses, conn, strand, io, pending, wire, told, crashed>>
ServiceConnectedLate(s) ==
    /\ Running /\ "timeout" \in Inputs /\ s <= nses /\ serv[s] \in {"late", "closing"}
    /\ serv' = [serv EXCEPT ![s] = IF @ = "late" THEN "shut" ELSE "closed"]
    /\ UNCHANGED <<tunnel, users, ses, nses, conn, strand, io, pending, wire, told, crashed>>
ServiceSends(s) ==
    /\ CanPost /\ "recv" \in Inputs /\ s <= nses /\ serv[s] \in {"up", "shut"}
    /\ Post(Ev("recv", UserConn(s)))
    /\ UNCHANGED <<tunnel, users, ses, nses, conn, serv, io, pending, wire, told, crashed>>
ServiceEnds(s) ==
    /\ CanPost /\ s <= nses /\ serv[s] \in {"connecting", "up"}
    /\ serv' = [serv EXCEPT ![s] = IF @ = "connecting" THEN "late" ELSE "shut"]
    /\ Post(Ev("disconnect", UserConn(s)))
    /\ UNCHANGED <<tunnel, users, ses, nses, conn, io, pending, wire, told, crashed>>

(* TCPConnection::__Send and __SendV.  Close() has cleared on_allocbuf:       *)
(* __Send tests it, __SendV calls it and std::bad_function_call ends the      *)
(* process.  A socket that is shut takes nothing.                             *)
RunSendV(c, w) ==
    IF conn[c] \in Ended
    THEN crashed' = "sendv" /\ UNCHANGED <<pending, wire>>
    ELSE /\ pending' = pending \cup {<<c, w.ses>>}
         /\ wire' = IF conn[c] \in {"shut", "failed"} THEN wire ELSE wire \cup {<<c, w.cmd, w.ses>>}
         /\ UNCHANGED crashed
RunSend(c, w) ==
    /\ wire' = IF w.cmd = "BIND" \/ conn[c] \in Ended \cup {"shut", "failed"} THEN wire
               ELSE wire \cup {<<c, w.cmd, w.ses>>}
    /\ UNCHANGED <<pending, crashed>>
RunIo(c) ==
    /\ Running /\ io[c] # << >>
    /\ LET w == Head(io[c]) IN IF w.cmd = "DATA" THEN RunSendV(c, w) ELSE RunSend(c, w)
    /\ io' = [io EXCEPT ![c] = Tail(@)]
    /\ UNCHANGED <<tunnel, users, ses, nses, conn, serv, strand, told>>

----------------------------------------------------------------------------
(* __CleanSession(session s with fields r): C and V are the framed and the    *)
(* service connections that the caller leaves.                                *)
FinishedHardOnly(r) == r.user_disconnected /\ r.tunnel_hard_disconnected
FinishedByUserAlone(r) == r.user_disconnected
Finished(r) == r.user_disconnected /\ r.tunnel_disconnected
CleanSession(s, r, C, V) ==
    IF Finished(r)
    THEN /\ serv' = [V EXCEPT ![s] = CloseConn(@)]
         /\ conn' = [C EXCEPT ![SesConn(s)] = CloseConn(@)]
         /\ users' = Drop(users, {r.user})
    ELSE serv' = V /\ conn' = C /\ UNCHANGED users

(* Posts a message to connection c; ready sessions use their own connection. *)
SendOn(c, cmd, s) ==
    /\ Len(io[c]) <= MaxWork
    /\ io' = [io EXCEPT ![c] = Append(@, [cmd |-> cmd, ses |-> s])]
RouteOnceUp(s) == IF conn[SesConn(s)] = "up" THEN SesConn(s) ELSE TunConn(tunnel)
Route(s) == IF ses[s].ready THEN SesConn(s) ELSE TunConn(tunnel)

(* __OnServerConnect: one BIND for every configured service port. *)
OnServerConnect ==
    /\ NextIs("connect") /\ Head(strand).on \in Tunnels /\ Pop
    /\ SendOn(TunConn(tunnel), "BIND", 0)
    /\ UNCHANGED <<tunnel, users, ses, nses, conn, serv, pending, wire, told, crashed>>

(* __OnServerDisconnect: all users are closed and dropped, and a lambda that  *)
(* starts a new tunnel is posted.  V, U and Q are the service connections,    *)
(* users and strand that are left.                                            *)
TunnelLost(V, U, Q) ==
    /\ NextIs("disconnect") /\ Head(strand).on \in Tunnels
    /\ serv' = V /\ users' = U /\ strand' = Q
    /\ conn' = [c \in Framed |-> IF \E s \in Values(users) : c = SesConn(s)
                                 THEN CloseConn(conn[c]) ELSE conn[c]]
    /\ UNCHANGED <<tunnel, ses, nses, io, pending, wire, told, crashed>>
ServicesClosed == [s \in DOMAIN serv |-> IF s \in Values(users) THEN CloseConn(serv[s]) ELSE serv[s]]
RetryPosted == Append(Tail(strand), Ev("reconnect", TunConn(tunnel)))
OnServerDisconnectKeepsServices == TunnelLost(serv, << >>, RetryPosted)
OnServerDisconnectKeepsUsers == TunnelLost(ServicesClosed, users, RetryPosted)
OnServerDisconnectNoRetry == TunnelLost(ServicesClosed, << >>, Tail(strand))
OnServerDisconnect == TunnelLost(ServicesClosed, << >>, RetryPosted)

(* The posted lambda: the old TcpClient is destroyed, which closes it. *)
Reconnect ==
    /\ NextIs("reconnect") /\ Pop
    /\ tunnel < MaxTunnels
    /\ tunnel' = tunnel + 1
    /\ conn' = [conn EXCEPT ![TunConn(tunnel)] = CloseConn(@), ![TunConn(tunnel + 1)] = "connecting"]
    /\ UNCHANGED <<users, ses, nses, serv, io, pending, wire, told, crashed>>

(* R2A::CONNECT: a Session and its two connections, unless the user is known. *)
RecvConnect ==
    LET m == Head(strand)
        s == nses + 1
    IN
    /\ NextIs("CONNECT") /\ Pop
    /\ IF m.user \in DOMAIN users
       THEN UNCHANGED <<users, ses, nses, conn, serv>>
       ELSE /\ s <= MaxSessions
            /\ nses' = s
            /\ ses' = Put(ses, s, NewSession(m))
            /\ users' = Put(users, m.user, s)
            /\ conn' = [conn EXCEPT ![SesConn(s)] = "connecting"]
            /\ serv' = Put(serv, s, "connecting")
    /\ UNCHANGED <<tunnel, io, pending, wire, told, crashed>>

(* R2A::DATA, on the tunnel or on a session connection: passed on to the     *)
(* service of the session that users_ has now, with a callback that cleans.  *)
RecvData ==
    LET m == Head(strand) IN
    /\ NextIs("DATA") /\ Pop
    /\ IF m.user \in DOMAIN users
       THEN LET s == users[m.user] IN pending' = pending \cup {<<UserConn(s), s>>}
       ELSE UNCHANGED pending
    /\ UNCHANGED <<tunnel, users, ses, nses, conn, serv, io, wire, told, crashed>>

(* R2A::DISCONNECT: the session connection is closed, the service's is not. *)
RecvDisconnect ==
    LET m == Head(strand) IN
    /\ NextIs("DISCONNECT") /\ Pop
    /\ IF m.user \in DOMAIN users
       THEN LET s == users[m.user]
                r == [ses[s] EXCEPT !.tunnel_disconnected = TRUE]
            IN  /\ ses' = [ses EXCEPT ![s] = r]
                /\ CleanSession(s, r, [conn EXCEPT ![SesConn(s)] = CloseConn(@)], serv)
       ELSE UNCHANGED <<users, ses, conn, serv>>
    /\ UNCHANGED <<tunnel, nses, io, pending, wire, told, crashed>>

(* __OnSessionConnect: SESSION, and from now on the connection is used. *)
SessionConnected(c, s) ==
    /\ NextIs("connect") /\ Head(strand).on = SesConn(s) /\ Pop
    /\ SendOn(c, "SESSION", s)
    /\ ses' = [ses EXCEPT ![s].ready = TRUE]
    /\ UNCHANGED <<tunnel, users, nses, conn, serv, pending, wire, told, crashed>>
OnSessionConnect == \E s \in SessionIds : SessionConnected(SesConn(s), s)

(* __OnSessionDisconnect. *)
OnSessionDisconnect ==
    LET s == Head(strand).on[2]
        r == [ses[s] EXCEPT !.tunnel_disconnected = TRUE, !.tunnel_hard_disconnected = TRUE]
    IN
    /\ NextIs("disconnect") /\ Head(strand).on[1] = "session" /\ Pop
    /\ ses' = [ses EXCEPT ![s] = r]
    /\ CleanSession(s, r, [conn EXCEPT ![SesConn(s)] = CloseConn(@)], serv)
    /\ UNCHANGED <<tunnel, nses, io, pending, wire, told, crashed>>

(* __OnUserRecv: DATA to the relay with SendV. *)
OnUserRecvOnceReady ==
    LET s == Head(strand).on[2] IN
    /\ NextIs("recv") /\ Pop
    /\ IF ses[s].ready THEN SendOn(SesConn(s), "DATA", s) ELSE UNCHANGED io
    /\ UNCHANGED <<tunnel, users, ses, nses, conn, serv, pending, wire, told, crashed>>
OnUserRecv ==
    LET s == Head(strand).on[2] IN
    /\ NextIs("recv") /\ Pop
    /\ SendOn(Route(s), "DATA", s)
    /\ UNCHANGED <<tunnel, users, ses, nses, conn, serv, pending, wire, told, crashed>>

(* __OnUserDisconnect: DISCONNECT to the relay with Send. *)
OnUserDisconnect ==
    LET s == Head(strand).on[2]
        r == [ses[s] EXCEPT !.user_disconnected = TRUE]
    IN
    /\ NextIs("disconnect") /\ Head(strand).on[1] = "user" /\ Pop
    /\ ses' = [ses EXCEPT ![s] = r]
    /\ SendOn(Route(s), "DISCONNECT", s)
    /\ CleanSession(s, r, conn, [serv EXCEPT ![s] = CloseConn(@)])
    /\ UNCHANGED <<tunnel, nses, pending, wire, told, crashed>>

(* A send callback runs on the thread of its connection, once the connection *)
(* has come about and taken the packet; it may never come.                    *)
SendDone(c, s) ==
    /\ Running /\ <<c, s>> \in pending
    /\ (IF c[1] = "user" THEN serv[s] ELSE conn[c]) \notin {"connecting", "late", "closing"}
    /\ pending' = pending \ {<<c, s>>}
    /\ CleanSession(s, ses[s], conn, serv)
    /\ UNCHANGED <<tunnel, ses, nses, strand, io, wire, told, crashed>>

----------------------------------------------------------------------------
RunStrand ==
    \/ OnServerConnect \/ OnServerDisconnect \/ Reconnect
    \/ RecvConnect \/ RecvData \/ RecvDisconnect
    \/ OnSessionConnect \/ OnSessionDisconnect
    \/ OnUserRecv \/ OnUserDisconnect

PoolThread ==
    \/ \E c \in Framed : Connected(c) \/ ConnFails(c) \/ ConnectTimeout(c) \/ ConnectedLate(c) \/ RunIo(c)
    \/ \E cmd \in {"CONNECT", "DATA", "DISCONNECT"}, u \in Users : RelaySends(cmd, u)
    \/ \E cmd \in {"DATA", "DISCONNECT"}, s \in SessionIds : RelaySendsOnSession(cmd, s)
    \/ \E s \in SessionIds : ServiceConnected(s) \/ ServiceConnectedLate(s) \/ ServiceSends(s) \/ ServiceEnds(s)
    \/ \E e \in pending : SendDone(e[1], e[2])

Next == RunStrand \/ PoolThread
Spec == Init /\ [][Next]_vars

(* Fairness: the thread of main_ioservice_ runs what is posted to the strand, *)
(* the pool threads what is posted to a connection.                           *)
Fairness == WF_vars(RunStrand) /\ \A c \in Framed : WF_vars(RunIo(c))
FairSpec == Spec /\ Fairness

----------------------------------------------------------------------------
(* The shape of the agent's state. *)
Conns == Framed \cup {UserConn(s) : s \in SessionIds}
Event == [ev : {"connect", "disconnect", "recv", "reconnect"}, on : Conns]
         \cup [ev : {"CONNECT"}, on : Tunnels, user : Users]
         \cup [ev : {"DATA", "DISCONNECT"}, on : Framed, user : Users]
Cmd == {"BIND", "SESSION", "DATA", "DISCONNECT"}
TypeOK ==
    /\ tunnel \in 1..MaxTunnels /\ nses \in 0..MaxSessions
    /\ DOMAIN users \subseteq Users /\ users \in [DOMAIN users -> 1..nses]
    /\ ses \in [1..nses -> Session]
    /\ conn \in [Framed -> ConnState] /\ serv \in [1..nses -> ConnState]
    /\ strand \in Seq(Event)
    /\ io \in [Framed -> Seq([cmd : Cmd, ses : 0..nses])]
    /\ pending \subseteq Conns \X (1..nses)
    /\ wire \subseteq Framed \X Cmd \X (1..nses)
    /\ told \subseteq (1..MaxTunnels) \X Users
    /\ crashed \in {"no", "sendv", "late connect"}

(* What the agent says about a user it says on the connections of that user: *)
(* its session connection or the tunnel that announced it.  Events that were *)
(* waiting when a tunnel was lost never speak on the tunnel that replaces it, *)
(* where the relay may have given the same number to somebody else.  Only a   *)
(* session whose CONNECT was handled too late for __OnServerDisconnect to     *)
(* drop it lives on, and may speak on the next tunnel until it is ready.      *)
SpeaksOnOwnConnections ==
    \A m \in wire :
        m[1] = SesConn(m[3]) \/ m[1] = TunConn(ses[m[3]].tun) \/ ses[m[3]].late

(* A session connection opens with SESSION: the relay takes a connection     *)
(* that starts with anything else for a tunnel.                               *)
SessionComesFirst ==
    \A s \in 1..nses : (\E m \in wire : m[1] = SesConn(s)) => <<SesConn(s), "SESSION", s>> \in wire

(* A session that users_ no longer has is closed on both sides: neither       *)
(* cleaning up, nor losing the tunnel, forgets a connection that is open.     *)
NoConnectionForgotten ==
    \A s \in 1..nses : s \notin Values(users) => serv[s] \in Ended /\ conn[SesConn(s)] \in Ended

(* A session leaves users_ only together with all others when their tunnel is *)
(* lost, or once its own service side and its own relay side are both gone.   *)
SessionsDroppedOnlyWhenFinished ==
    [][\A u \in DOMAIN users : u \notin DOMAIN users' =>
          LET r == ses'[users[u]] IN
          \/ NextIs("disconnect") /\ Head(strand).on = TunConn(tunnel)
          \/ r.user_disconnected /\ r.tunnel_disconnected]_vars

(* Both ends gone, in whatever order and by whatever event: the session goes. *)
NoFinishedSessionKept ==
    \A u \in DOMAIN users :
        LET r == ses[users[u]] IN ~(r.user_disconnected /\ r.tunnel_disconnected)

(* A lost tunnel is replaced by a new connection to the relay. *)
TunnelIsReplaced ==
    \A n \in 1..(MaxTunnels - 1) :
        tunnel = n /\ conn[TunConn(n)] \in {"shut", "failed", "late"} ~> crashed # "no" \/ tunnel > n

(* A service may send whenever it likes: its data never reaches a session     *)
(* connection that the agent has closed, which would end the process.         *)
SendAfterCloseSurvived == crashed # "sendv"
=============================================================================
