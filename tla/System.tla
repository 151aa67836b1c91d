------------------------------- MODULE System -------------------------------
(***************************************************************************)
(* Relay and agent together: one r-nat-s, one r-nat-c with one service     *)
(* port, the tunnels and session connections between them, users at one    *)
(* end and the local service at the other.                                 *)
(*                                                                         *)
(* Every step is an action of Relay or of Agent, joined where one hears    *)
(* the other: up[c] and down[c] are what is on its way over connection c,  *)
(* from the socket of one program to the strand of the other, in order     *)
(* (TcpConnection shows that a connection is such a channel).  A datum is  *)
(* tagged with where it was read: <<listener of the user, number>> or      *)
(* <<session of the service, number>>.                                     *)
(***************************************************************************)
EXTENDS Integers, Sequences, FiniteSets

CONSTANTS
    Port,           \* the service port
    Leaving,        \* who may leave in this instance: "user", "service"
    MaxTunnels,     \* bound: tunnel connections ever started
    MaxSessions,    \* bound: Session objects of the agent
    MaxUserData, MaxServiceData,    \* bounds: data read from users and from services
    MaxFailures,    \* bound: connections between the two that the network breaks
    MaxEvents,      \* bound: as in Relay and Agent
    MaxWork         \* bound: as in Agent

ASSUME SystemAssumption ==
    /\ Port \in Nat /\ Leaving \subseteq {"user", "service"}
    /\ MaxTunnels \in Nat \ {0} /\ MaxSessions \in Nat
    /\ MaxUserData \in Nat /\ MaxServiceData \in Nat /\ MaxFailures \in Nat /\ MaxEvents \in Nat /\ MaxWork \in Nat

VARIABLES
    agents, services, svc, rses, rstrand, rpending, lost, claim, r2a,
    nagents, nsvc, rnses, rcrashed,             \* the relay
    tunnel, users, ases, anses, conn, serv, astrand, io, apending, wire, told,
    acrashed,                                   \* the agent
    num,            \* the relay's number of every accepted connection of the agent
    up, down,       \* messages on their way to the relay and to the agent
    announced,      \* the connection that was told of the user of a listener
    ioData,         \* the DATA in io, by connection
    strandData,     \* the DATA in astrand: <<connection, datum>>
    fromUser, fromService,      \* how much was read from users and services
    toUser, toService,          \* what was passed on: <<listener or session, connection, datum>>
    failures        \* connections broken so far

rvars == <<agents, services, svc, rses, rstrand, rpending, lost, claim, r2a,
           nagents, nsvc, rnses, rcrashed>>
avars == <<tunnel, users, ases, anses, conn, serv, astrand, io, apending, wire, told,
           acrashed>>
dvars == <<ioData, strandData, fromUser, fromService, toUser, toService>>
vars == <<rvars, avars, num, up, down, announced, dvars, failures>>

R == INSTANCE Relay WITH
    Ports <- {Port}, BusyPorts <- {}, IpHashes <- {0}, LoadPolicy <- "seq",
    Commands <- {"BIND", "DATA", "DISCONNECT", "SESSION"},
    MaxAgents <- MaxTunnels + MaxSessions, MaxUsers <- 1, MaxServices <- MaxTunnels,
    MaxSessions <- 2 * MaxSessions,
    ses <- rses, strand <- rstrand, pending <- rpending, nses <- rnses, crashed <- rcrashed

A == INSTANCE Agent WITH
    Users <- {<<Port, 1>>}, IdsRestart <- TRUE, Inputs <- {"DATA", "DISCONNECT", "recv"},
    ses <- ases, strand <- astrand, pending <- apending, nses <- anses, crashed <- acrashed

----------------------------------------------------------------------------
Conns == A!Framed
MessageIdFirst(cmd, u, d) == [cmd |-> cmd, user |-> <<u[2], u[1]>>, data |-> d]
Message(cmd, u, d) == [cmd |-> cmd, user |-> u, data |-> d]
NoData == <<0, 0>>
Broken(c) == c \in DOMAIN num /\ num[c] \in lost

Init ==
    /\ R!Init /\ A!Init
    /\ num = << >> /\ announced = << >>
    /\ up = [c \in Conns |-> << >>] /\ down = [c \in Conns |-> << >>]
    /\ ioData = [c \in Conns |-> << >>] /\ strandData = << >>
    /\ fromUser = 0 /\ fromService = 0 /\ toUser = {} /\ toService = {}
    /\ failures = 0

----------------------------------------------------------------------------
(* The connections between the programs. *)

(* The agent's connect completes; the relay accepts and numbers it. *)
Connect(c) ==
    /\ A!Connected(c) /\ R!OnAgentConnect
    /\ num' = A!Put(num, c, nagents')
    /\ UNCHANGED <<up, down, announced, dvars, failures>>

(* One end notices that the connection is gone: the network broke it, or the  *)
(* other end closed or lost it.  What has not arrived may be lost; what has   *)
(* is still delivered, also after the end has been reported.                  *)
NetworkBreaks == failures < MaxFailures /\ failures' = failures + 1
RelayLoses(c) ==
    /\ c \in DOMAIN num /\ R!AgentLost(num[c])
    /\ IF conn[c] = "up" THEN NetworkBreaks ELSE UNCHANGED failures
    /\ \E k \in 0..Len(up[c]) : up' = [up EXCEPT ![c] = SubSeq(@, 1, k)]
    /\ UNCHANGED <<avars, num, down, announced, dvars>>
AgentLoses(c) ==
    /\ A!ConnFails(c)
    /\ IF Broken(c) THEN UNCHANGED failures ELSE NetworkBreaks
    /\ \E k \in 0..Len(down[c]) : down' = [down EXCEPT ![c] = SubSeq(@, 1, k)]
    /\ UNCHANGED <<rvars, num, up, announced, dvars>>

(* on_disconnect: after the messages that had arrived when a read failed, but *)
(* possibly before them when a write did.                                     *)
RelayDisconnects(c) ==
    /\ c \in DOMAIN num /\ R!OnAgentDisconnect(num[c])
    /\ UNCHANGED <<avars, num, up, down, announced, dvars, failures>>

----------------------------------------------------------------------------
(* From the agent to the relay. *)

(* A posted Send or SendV writes to the socket, unless that is shut. *)
AgentWrites(c) ==
    LET w == Head(io[c])
        u == IF w.cmd = "BIND" THEN <<Port, 0>> ELSE ases[w.ses].user
        d == IF w.cmd = "DATA" THEN Head(ioData[c]) ELSE NoData
    IN
    /\ A!RunIo(c)
    /\ up' = IF conn[c] \in A!Ended \cup {"shut", "failed"} \/ Broken(c) THEN up
             ELSE [up EXCEPT ![c] = Append(@, Message(w.cmd, u, d))]
    /\ ioData' = IF w.cmd = "DATA" THEN [ioData EXCEPT ![c] = Tail(@)] ELSE ioData
    /\ UNCHANGED <<rvars, num, down, announced, strandData, fromUser, fromService, toUser, toService,
                   failures>>

(* __OnAgentRecv.  DATA and DISCONNECT of a user whose session is gone, and   *)
(* BIND and DATA of an agent that is gone, are passed over.                   *)
KnownUser(u) == u[1] \in DOMAIN services /\ u[2] \in DOMAIN svc[services[u[1]]].sessions
PassedOver(a, m) ==
    \/ m.cmd \in {"DATA", "DISCONNECT"} /\ ~KnownUser(m.user)
    \/ m.cmd \in {"BIND", "DATA"} /\ a \notin DOMAIN agents
PassedOn(h, id, what) ==
    toUser' = IF id \in DOMAIN svc[h].conns THEN toUser \cup {<<h>> \o what} ELSE toUser
RelayHandles(c) ==
    LET m == Head(up[c])
        a == num[c]
        p == m.user[1]
        id == m.user[2]
    IN
    /\ c \in DOMAIN num /\ up[c] # << >> /\ R!Running
    /\ up' = [up EXCEPT ![c] = Tail(@)]
    /\ \/ m.cmd = "BIND" /\ R!Bind(a, p) /\ UNCHANGED toUser
       \/ m.cmd = "SESSION" /\ R!SessionConn(a, p, id) /\ UNCHANGED toUser
       \/ m.cmd = "DATA" /\ R!Data(a, p, id) /\ PassedOn(services[p], id, <<c, m.data>>)
       \/ m.cmd = "DISCONNECT" /\ R!Disconnect(a, p, id) /\ UNCHANGED toUser
       \/ PassedOver(a, m) /\ UNCHANGED <<rvars, toUser>>
    /\ UNCHANGED <<avars, num, down, announced, ioData, strandData, fromUser, fromService, toService,
                   failures>>

----------------------------------------------------------------------------
(* From the relay to the agent. *)

(* The relay's Send of message m, with datum d: nowhere, if either end        *)
(* of the connection is gone.                                                 *)
SentWithAgentId(m, d) ==
    [c \in Conns |-> IF /\ c \in DOMAIN num /\ num[c] = m.to
                        /\ m.to \in DOMAIN agents \ lost /\ conn[c] = "up"
                     THEN Append(down[c], Message(m.cmd, <<m.port, m.to>>, d)) ELSE down[c]]
Sent(m, d) ==
    [c \in Conns |-> IF /\ c \in DOMAIN num /\ num[c] = m.to
                        /\ m.to \in DOMAIN agents \ lost /\ conn[c] = "up"
                     THEN Append(down[c], Message(m.cmd, <<m.port, m.id>>, d)) ELSE down[c]]
UserConnects(h) ==
    /\ R!OnUserConnect(h)
    /\ \E m \in r2a' \ r2a : down' = Sent(m, NoData) /\ announced' = R!Put(announced, h, m.to)
    /\ UNCHANGED <<avars, num, up, dvars, failures>>
UserDisconnects(h) ==
    /\ R!OnUserDisconnect(h)
    /\ \/ r2a' = r2a /\ UNCHANGED down
       \/ \E m \in r2a' \ r2a : down' = Sent(m, NoData)
    /\ UNCHANGED <<avars, num, up, announced, dvars, failures>>
UserData(h) ==
    LET id == Head(rstrand[h]).seq IN
    /\ R!OnUserRecv(h)
    /\ fromUser' = fromUser + 1
    /\ down' = IF id \in DOMAIN svc[h].sessions
               THEN Sent(R!Msg("DATA", R!Route(h, svc[h].sessions[id]), svc[h].port, id), <<h, fromUser'>>)
               ELSE down
    /\ UNCHANGED <<avars, num, up, announced, ioData, strandData, fromService, toUser, toService,
                   failures>>

(* A message arrives at the agent and is posted to its strand. *)
AgentReceives(c) ==
    LET m == Head(down[c]) IN
    /\ down[c] # << >>
    /\ \/ c = A!TunConn(tunnel) /\ A!RelaySends(m.cmd, m.user)
       \/ c \notin A!Tunnels /\ A!RelaySendsOnSession(m.cmd, c[2])
    /\ down' = [down EXCEPT ![c] = Tail(@)]
    /\ strandData' = IF m.cmd = "DATA" THEN Append(strandData, <<c, m.data>>) ELSE strandData
    /\ UNCHANGED <<rvars, num, up, announced, ioData, fromUser, fromService, toUser, toService,
                   failures>>

AgentRecvData ==
    /\ A!RecvData
    /\ strandData' = Tail(strandData)
    /\ LET u == Head(astrand).user IN
       toService' = IF u \in DOMAIN users THEN toService \cup {<<users[u]>> \o Head(strandData)}
                    ELSE toService
    /\ UNCHANGED <<rvars, num, up, down, announced, ioData, fromUser, fromService, toUser, failures>>

AgentServiceData ==
    /\ A!OnUserRecv
    /\ fromService' = fromService + 1
    /\ LET s == Head(astrand).on[2] IN
       ioData' = [c \in Conns |-> IF io'[c] = io[c] THEN ioData[c]
                                  ELSE Append(ioData[c], <<s, fromService'>>)]
    /\ UNCHANGED <<rvars, num, up, down, announced, strandData, fromUser, toUser, toService, failures>>

----------------------------------------------------------------------------
(* What only one of the two takes part in: the rest of its strands, users and *)
(* services that send and leave, and send callbacks.                          *)
RelayAlone(Step) == Step /\ UNCHANGED <<avars, num, up, down, announced, dvars, failures>>
AgentAlone(Step) == Step /\ UNCHANGED <<rvars, num, up, down, announced, dvars, failures>>

RelayStrand(h) ==
    \/ UserDisconnects(h) \/ UserData(h)
    \/ RelayAlone(R!CloseConn(h)) \/ RelayAlone(R!LateUserEvent(h))
AgentStrand ==
    \/ AgentRecvData \/ AgentServiceData
    \/ AgentAlone(A!OnServerConnect) \/ AgentAlone(A!OnServerDisconnect) \/ AgentAlone(A!Reconnect)
    \/ AgentAlone(A!RecvConnect) \/ AgentAlone(A!RecvDisconnect)
    \/ AgentAlone(A!OnSessionConnect) \/ AgentAlone(A!OnSessionDisconnect)
    \/ AgentAlone(A!OnUserDisconnect)

User(h) ==
    \/ UserConnects(h)
    \/ RelayAlone("user" \in Leaving /\ R!UserLeaves(h, 1))
    \/ RelayAlone(R!UserSends(h, 1) /\ fromUser + Len(rstrand[h]) < MaxUserData)
Service(s) ==
    \/ AgentAlone(A!ServiceConnected(s))
    \/ AgentAlone("service" \in Leaving /\ A!ServiceEnds(s))
    \/ AgentAlone(A!ServiceSends(s) /\ fromService + Len(astrand) < MaxServiceData)
SendsDone ==
    \/ \E h \in R!ServiceIds, s \in R!SessionIds : RelayAlone(R!SendDone(h, s))
    \/ \E e \in apending : AgentAlone(A!SendDone(e[1], e[2]))
Connection(c) == \/ Connect(c) \/ RelayLoses(c) \/ AgentLoses(c) \/ RelayDisconnects(c)
                 \/ AgentWrites(c) \/ RelayHandles(c) \/ AgentReceives(c)

Next == \/ \E c \in Conns : Connection(c)
        \/ \E h \in R!ServiceIds : RelayStrand(h) \/ User(h)
        \/ AgentStrand \/ (\E s \in A!SessionIds : Service(s))
        \/ SendsDone
Spec == Init /\ [][Next]_vars

(* Fairness: both programs run what is posted to them, a connect to the relay *)
(* completes, a connection delivers, and each end notices that the other one  *)
(* is gone.  Users, services, breaks and send callbacks are left free.        *)
Fairness ==
    /\ \A c \in Conns :
         /\ WF_vars(Connect(c)) /\ WF_vars(RelayDisconnects(c))
         /\ WF_vars(AgentWrites(c)) /\ WF_vars(RelayHandles(c)) /\ WF_vars(AgentReceives(c))
         /\ WF_vars(conn[c] # "up" /\ RelayLoses(c)) /\ WF_vars(Broken(c) /\ AgentLoses(c))
    /\ \A h \in R!ServiceIds : WF_vars(RelayStrand(h))
    /\ WF_vars(AgentStrand)
FairSpec == Spec /\ Fairness

----------------------------------------------------------------------------
(* Joined, each program still does only what Relay or Agent says of it apart: *)
(* ports and numbers of the other's messages are those its handlers were      *)
(* specified for, so what holds of Relay and of Agent holds here.  (A message  *)
(* that comes at the wrong time has no step: the next two are about those.)   *)
ImplementsRelay == R!Spec
ImplementsAgent == A!Spec

(* Relay and Agent, checked apart, assume of each other only what the other  *)
(* does.  The relay hears DATA and DISCONNECT of users it announced, and      *)
(* SESSION once from a fresh connection, also when it has already handled the *)
(* end of the connection on which it hears them.                              *)
RelayMayHear(c, m) ==
    \/ m.cmd = "BIND" /\ num[c] \notin DOMAIN claim
    \/ m.cmd = "SESSION" /\ R!MayClaim(num[c], m.user[1], m.user[2])
    \/ m.cmd \in {"DATA", "DISCONNECT"} /\ R!Knows(num[c], m.user[1], m.user[2])
RelayHearsItsAgents ==
    \A c \in Conns : up[c] # << >> /\ c \in DOMAIN num => RelayMayHear(c, Head(up[c]))

(* The agent hears CONNECT once in a tunnel, before all else, and then of     *)
(* announced users only; on a session connection it hears of the session's    *)
(* user only, and only after it has said SESSION.  SESSION rewrites who       *)
(* serves a user at the relay while messages to the old and the new           *)
(* connection are on their way, and either of them may break.                 *)
AgentMayHear(c, m) ==
    IF c \in A!Tunnels THEN m.cmd = "CONNECT" <=> <<c[2], m.user>> \notin told
    ELSE m.cmd # "CONNECT" /\ m.user = ases[c[2]].user /\ <<c, "SESSION", c[2]>> \in wire
AgentHearsInTurn == \A c \in Conns : down[c] # << >> => AgentMayHear(c, Head(down[c]))

(* What the relay sends over a connection is passed on to the service of a    *)
(* session of that very connection: users_ is asked when the strand gets to   *)
(* the message, and by then the user's number may be that of somebody else.   *)
(* Only a session made after the end of its tunnel had been handled, which    *)
(* the next tunnel finds under a number that it gives anew, is fed by others. *)
Late(s) == ases[s].late
ConnectionFeedsItsSessions ==
    \A e \in toService :
        \/ e[2] \in {A!SesConn(e[1]), A!TunConn(ases[e[1]].tun)}
        \/ Late(e[1]) \/ \E s \in DOMAIN ases : Late(s) /\ e[2] = A!SesConn(s)

(* What a user sends is passed on to the service connection that was opened   *)
(* for this user, and what that service sends to this user.                   *)
SameParty(h, s) == announced[h] = num[A!TunConn(ases[s].tun)]
DataReachesItsOwnEnd ==
    /\ \A e \in toService : SameParty(e[3][1], e[1])
    /\ \A e \in toUser : SameParty(e[1], e[3][1])

(* While no connection breaks and nobody leaves, whatever is read from a user *)
(* is passed on to its service and the other way round, before, during and    *)
(* after the change from the tunnel to the session connection.                *)
Crashed == rcrashed # "no" \/ acrashed # "no"
Open(h) == 1 \in DOMAIN svc[h].conns /\ svc[h].conns[1] = "open"
Undisturbed ==
    /\ ~Crashed /\ failures = 0
    /\ \A s \in DOMAIN serv : serv[s] \in {"connecting", "up"}
    /\ \A h \in DOMAIN announced : Open(h)
UserDataIsRelayed ==
    \A n \in 1..MaxUserData :
        fromUser >= n ~> ~Undisturbed \/ \E e \in toService : e[3][2] = n
ServiceDataIsRelayed ==
    \A n \in 1..MaxServiceData :
        fromService >= n ~> ~Undisturbed \/ \E e \in toUser : e[3][2] = n

(* A broken tunnel is replaced: in the end its service port is served by the  *)
(* next tunnel alone, whichever end notices the loss first and however the old *)
(* tunnel's end and the new one's BIND are ordered at the relay.              *)
ServedBy(n) == /\ Port \in DOMAIN services /\ A!TunConn(n) \in DOMAIN num
               /\ svc[services[Port]].agents = {num[A!TunConn(n)]}
Lost(n) == conn[A!TunConn(n)] \in {"shut", "failed", "closed"} \/ Broken(A!TunConn(n))
ServedAgain ==
    \A n \in 1..(MaxTunnels - 1) : Lost(n) ~> Crashed \/ Lost(n + 1) \/ ServedBy(n + 1)

(* When a user has left the relay and its service has ended, the agent        *)
(* forgets the session, even if the message that says so was lost with its    *)
(* connection.  (Unless the session was made after the end of its tunnel had  *)
(* been handled: the relay has nothing to say about it any more.)             *)
UserLeft(s) ==
    \A h \in DOMAIN announced : SameParty(h, s) => ~Open(h)
ServiceEnded(s) == serv[s] \in {"late", "shut", "closed"}
EndedSessionIsForgotten ==
    \A s \in A!SessionIds :
        s \in DOMAIN ases /\ ~Late(s) /\ ServiceEnded(s) /\ UserLeft(s)
            ~> Crashed \/ s \notin A!Values(users)
=============================================================================
