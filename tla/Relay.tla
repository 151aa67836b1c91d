------------------------------- MODULE Relay -------------------------------
(***************************************************************************)
(* The relay program r-nat-s: AppLogic1 (app1/tunnel.cpp, app1/user.cpp,   *)
(* app1/app1.cpp) with the connection tables of the RawTcpServer it starts *)
(* for every service port (network/rawtcpserver.cpp).                      *)
(*                                                                         *)
(* Agents keep a framed connection to agent_tcpserver_ and ask for service *)
(* ports with BIND; users connect to a service port and are assigned to    *)
(* one of its agents.  All handlers run on the single thread of            *)
(* main_ioservice_, so a handler is one step; the events that the pool     *)
(* threads post wait in the strand of their RawTcpServer meanwhile.        *)
(*                                                                         *)
(* Objects that the program shares by pointer (ServiceInfo, Session) have  *)
(* an identity here, because two tables may hold the same object.  The     *)
(* traffic counters of a Session and the BlockRecv they cause are left out. *)
(***************************************************************************)
EXTENDS Integers, Sequences, FiniteSets

CONSTANTS
    Ports,          \* service ports that agents ask for
    BusyPorts,      \* ports on which another process already listens
    IpHashes,       \* the values fnv_hash_int takes on the users' addresses
    LoadPolicy,     \* "ip" or "seq": Config::LoadPolicy
    Commands,       \* the commands in use in this instance (without DATA
                    \* the users are idle as well)
    MaxAgents,      \* bound: agent connections ever accepted
    MaxUsers,       \* bound: sequence numbers handed out by one RawTcpServer
    MaxServices,    \* bound: RawTcpServer objects ever started
    MaxSessions,    \* bound: Session objects ever made
    MaxEvents       \* bound: a user event is posted to a strand with less work than
                    \* this, a Close(seq) to one with at most this much

ASSUME ConstantsAssumption ==
    /\ MaxAgents \in Nat /\ MaxUsers \in Nat /\ MaxServices \in Nat
    /\ MaxSessions \in Nat /\ MaxEvents \in Nat
    /\ IpHashes \subseteq Nat
    /\ LoadPolicy \in {"ip", "seq"}
    /\ Commands \subseteq {"BIND", "UNBIND", "DATA", "DISCONNECT", "SESSION"}

VARIABLES
    agents,     \* agents_: seq -> AgentInfo [ports, sessions]
    services,   \* services_: port -> identity of its ServiceInfo
    svc,        \* ServiceInfo and its RawTcpServer, by identity
    ses,        \* Session, by identity
    strand,     \* RawTcpServer::strand_: identity -> queue of posted work
    pending,    \* send callbacks not yet run: <<ServiceInfo, Session>>
    lost,       \* agent connections whose TCP connection has failed
    claim,      \* agent connections used as session connections: seq -> <<port, id>>
    r2a,        \* messages about users handed to agent_tcpserver_->Send so far
    nagents, nsvc, nses,    \* agent connections, services and sessions made so far
    crashed     \* why the process terminated ("no": it did not)

counts == <<nagents, nsvc, nses>>
vars == <<agents, services, svc, ses, strand, pending, lost, claim, r2a,
          nagents, nsvc, nses, crashed>>

----------------------------------------------------------------------------
AgentIds   == 1..MaxAgents
UserIds    == 1..MaxUsers
ServiceIds == 1..MaxServices
SessionIds == 1..MaxSessions

(* Maps with keys K and values in V, as std::map. *)
Map(K, V) == UNION {[D -> V] : D \in SUBSET K}
Put(f, k, v) == [x \in DOMAIN f \cup {k} |-> IF x = k THEN v ELSE f[x]]
Drop(f, K) == [x \in DOMAIN f \ K |-> f[x]]
Values(f) == {f[x] : x \in DOMAIN f}

(* An R2A message about a user, handed to agent_tcpserver_->Send.  The       *)
(* acknowledgements of BIND and UNBIND, which agents only print, are left out. *)
Msg(cmd, a, p, id) == [cmd |-> cmd, to |-> a, port |-> p, id |-> id]

(* Records whose session pointers refer to the first n Session objects. *)
AgentInfo(n) == [ports : SUBSET Ports, sessions : Map(UserIds, 1..n)]

(* A user connection of a RawTcpServer: open; shut once its pool thread has *)
(* seen the end and posted on_disconnect; closed by the relay.              *)
ConnState == {"open", "shut", "closed"}
ServiceInfo(n) == [port : Ports, agents : SUBSET AgentIds,
                   sessions : Map(UserIds, 1..n),
                   inited : BOOLEAN, next_seq : 0..MaxUsers,
                   conns : Map(UserIds, ConnState)]

Session == [seq : 0..MaxUsers, agent_id : AgentIds, using_session_conn : BOOLEAN,
            user_disconnected : BOOLEAN, tunnel_disconnected : BOOLEAN,
            tunnel_hard_disconnected : BOOLEAN]

NewSessionWithoutAgent(seq, a, onSessionConn) ==
    [seq |-> seq, agent_id |-> 0, using_session_conn |-> onSessionConn,
     user_disconnected |-> FALSE, tunnel_disconnected |-> FALSE,
     tunnel_hard_disconnected |-> FALSE]
NewSession(seq, a, onSessionConn) ==
    [seq |-> seq, agent_id |-> a, using_session_conn |-> onSessionConn,
     user_disconnected |-> FALSE, tunnel_disconnected |-> FALSE,
     tunnel_hard_disconnected |-> FALSE]

(* Work in the strand of a RawTcpServer: the on_recv and on_disconnect      *)
(* lambdas that pool threads post, and the posted Close(seq).               *)
Work == [op : {"recv", "disconnect", "close"}, seq : 0..MaxUsers]

(* The process is still there; so is RawTcpServer h. *)
Running == crashed = "no"
RunningServer(h) == Running /\ h \in DOMAIN svc

Init ==
    /\ agents = << >> /\ services = << >> /\ svc = << >> /\ ses = << >>
    /\ strand = << >> /\ claim = << >>
    /\ pending = {} /\ lost = {} /\ r2a = {}
    /\ nagents = 0 /\ nsvc = 0 /\ nses = 0
    /\ crashed = "no"

----------------------------------------------------------------------------
(* Both ends of a session are gone. *)
FinishedByUserAlone(r) == r.user_disconnected
FinishedHardOnly(r) == r.user_disconnected /\ r.tunnel_hard_disconnected
Finished(r) == r.user_disconnected /\ r.tunnel_disconnected

(* __CleanSession(service h, session r): once both ends are gone the session *)
(* is dropped from the service and from its agent, and the connection is     *)
(* closed.  S and Q are the services and strands that the caller leaves.     *)
CleanSession(h, r, S, Q) ==
    IF Finished(r)
    THEN /\ svc' = [S EXCEPT ![h].sessions = Drop(@, {r.seq})]
         /\ strand' = [Q EXCEPT ![h] = Append(@, [op |-> "close", seq |-> r.seq])]
         /\ agents' = [a \in DOMAIN agents |->
                          IF a = r.agent_id
                          THEN [agents[a] EXCEPT !.sessions = Drop(@, {r.seq})]
                          ELSE agents[a]]
    ELSE svc' = S /\ strand' = Q /\ UNCHANGED agents

(* RawTcpServer::Close(): callbacks and acceptors go, every connection is   *)
(* closed and forgotten; work already in the strand stays there.            *)
CloseServerStillInited(s) == [s EXCEPT !.conns = << >>]
CloseServer(s) == [s EXCEPT !.inited = FALSE, !.conns = << >>]

(* service->agents_.erase(seq), and the shutdown when it was the last one.  *)
RemoveLastAgentOnly(s, a) ==
    IF s.agents = {a} THEN CloseServer([s EXCEPT !.agents = {}]) ELSE s
RemoveAgent(s, a) ==
    LET t == [s EXCEPT !.agents = @ \ {a}]
    IN  IF t.agents = {} THEN CloseServer(t) ELSE t

----------------------------------------------------------------------------
(* Handlers of agent_tcpserver_. *)

OnAgentConnect ==
    LET seq == nagents + 1 IN
    /\ Running /\ seq <= MaxAgents
    /\ agents' = Put(agents, seq, [ports |-> {}, sessions |-> << >>])
    /\ nagents' = seq
    /\ UNCHANGED <<services, svc, ses, strand, pending, lost, claim, r2a, nsvc, nses, crashed>>

(* The TCP connection of an agent fails; its pool thread will post on_disconnect. *)
AgentLost(a) ==
    /\ Running /\ a \in DOMAIN agents \ lost
    /\ lost' = lost \cup {a}
    /\ UNCHANGED <<agents, services, svc, ses, strand, pending, claim, r2a, counts, crashed>>

(* All sessions of the agent are marked and cleaned once per port of the    *)
(* agent that still has a service, against the service of that port.        *)
(* Sessions are visited in ascending order of their key.                    *)
OnAgentDisconnect(a) ==
    LET info  == agents[a]
        live  == info.ports \cap DOMAIN services
        hit   == {services[p] : p \in live}
        mine  == IF live = {} THEN {} ELSE Values(info.sessions)
        done  == {s \in mine : ses[s].user_disconnected}
        seqs  == {ses[s].seq : s \in done}
        closes == {[op |-> "close", seq |-> n] : n \in seqs}
    IN
    /\ Running /\ a \in DOMAIN agents \cap lost
    /\ ses' = [s \in DOMAIN ses |->
                  IF s \in mine THEN [ses[s] EXCEPT !.tunnel_disconnected = TRUE,
                                                    !.tunnel_hard_disconnected = TRUE]
                                ELSE ses[s]]
    /\ svc' = [h \in DOMAIN svc |->
                  IF h \in hit
                  THEN RemoveAgent([svc[h] EXCEPT !.sessions = Drop(@, seqs)], a)
                  ELSE svc[h]]
    /\ \E n \in 0..MaxUsers + 1 : \E order \in [1..n -> closes] :
          /\ Values(order) = closes
          /\ \A i, j \in 1..n : i < j => order[i].seq < order[j].seq
          /\ strand' = [h \in DOMAIN strand |-> IF h \in hit THEN strand[h] \o order
                                                             ELSE strand[h]]
    /\ agents' = [b \in DOMAIN agents \ {a} |->
                     [agents[b] EXCEPT !.sessions =
                         Drop(@, {ses[s].seq : s \in {t \in done : ses[t].agent_id = b}})]]
    /\ services' = Drop(services, {p \in live : svc[services[p]].agents \ {a} = {}})
    /\ UNCHANGED <<pending, lost, claim, r2a, counts, crashed>>

(* A2R::BIND.  acceptor->bind throws on a port in use, and nothing between  *)
(* it and the thread's entry catches the exception.                         *)
Bind(a, p) ==
    /\ Running /\ "BIND" \in Commands
    /\ a \in DOMAIN agents /\ a \notin DOMAIN claim
    /\ \/ /\ p \in DOMAIN services
          /\ svc' = [svc EXCEPT ![services[p]].agents = @ \cup {a}]
          /\ agents' = [agents EXCEPT ![a].ports = @ \cup {p}]
          /\ UNCHANGED <<services, strand, counts, crashed>>
       \/ /\ p \notin DOMAIN services \cup BusyPorts
          /\ LET h == nsvc + 1 IN
             /\ h <= MaxServices
             /\ svc' = Put(svc, h, [port |-> p, agents |-> {a}, sessions |-> << >>,
                                    inited |-> TRUE, next_seq |-> 0, conns |-> << >>])
             /\ strand' = Put(strand, h, << >>)
             /\ services' = Put(services, p, h)
             /\ nsvc' = h /\ UNCHANGED <<nagents, nses>>
          /\ agents' = [agents EXCEPT ![a].ports = @ \cup {p}]
          /\ UNCHANGED crashed
       \/ /\ p \in BusyPorts \ DOMAIN services
          /\ crashed' = "bind"
          /\ UNCHANGED <<agents, services, svc, strand, counts>>
    /\ UNCHANGED <<ses, pending, lost, claim, r2a>>

Unbind(a, p) ==
    /\ Running /\ "UNBIND" \in Commands
    /\ a \in DOMAIN agents /\ a \notin DOMAIN claim
    /\ agents' = [agents EXCEPT ![a].ports = @ \ {p}]
    /\ IF p \in DOMAIN services
       THEN /\ svc' = [svc EXCEPT ![services[p]] = RemoveAgent(@, a)]
            /\ services' = IF svc[services[p]].agents \ {a} = {}
                           THEN Drop(services, {p}) ELSE services
       ELSE UNCHANGED <<svc, services>>
    /\ UNCHANGED <<ses, strand, pending, lost, claim, r2a, counts, crashed>>

(* What an agent may say about a user: only what the relay told it.         *)
Knows(a, p, id) ==
    \/ Msg("CONNECT", a, p, id) \in r2a
    \/ a \in DOMAIN claim /\ claim[a] = <<p, id>>

(* A2R::DATA: the payload is sent to the user with a callback that cleans.  *)
Data(a, p, id) ==
    /\ Running /\ "DATA" \in Commands
    /\ a \in DOMAIN agents /\ Knows(a, p, id)
    /\ p \in DOMAIN services
    /\ id \in DOMAIN svc[services[p]].sessions
    /\ pending' = pending \cup {<<services[p], svc[services[p]].sessions[id]>>}
    /\ UNCHANGED <<agents, services, svc, ses, strand, lost, claim, r2a, counts, crashed>>

(* A2R::DISCONNECT: this handler does not look the agent up, and what had    *)
(* been read from an agent that is gone is still handled.                     *)
Disconnect(a, p, id) ==
    /\ Running /\ "DISCONNECT" \in Commands
    /\ Knows(a, p, id)
    /\ p \in DOMAIN services
    /\ id \in DOMAIN svc[services[p]].sessions
    /\ LET h == services[p]
           s == svc[h].sessions[id]
           r == [ses[s] EXCEPT !.tunnel_disconnected = TRUE]
       IN  /\ Len(strand[h]) <= MaxEvents
           /\ ses' = [ses EXCEPT ![s] = r]
           /\ CleanSession(h, r, svc, strand)
    /\ UNCHANGED <<services, pending, lost, claim, r2a, counts, crashed>>

(* A session connection is a fresh connection of an agent that was told      *)
(* CONNECT, one for each CONNECT (a new listener numbers its users anew).    *)
MayClaim(a, p, id) ==
    /\ a \in 1..nagents /\ a \notin DOMAIN claim
    /\ a \in DOMAIN agents => agents[a].ports = {}
    /\ \E b \in 1..(a - 1) : Msg("CONNECT", b, p, id) \in r2a
    /\ Cardinality({b \in DOMAIN claim : claim[b] = <<p, id>>})
         < Cardinality({b \in AgentIds : Msg("CONNECT", b, p, id) \in r2a})

(* A2R::SESSION: connection a declares itself the session connection of user *)
(* id.  The handler looks the session up under the sequence number of the    *)
(* connection, not under id; if the connection is gone it does nothing.      *)
SessionConn(a, p, id) ==
    /\ Running /\ "SESSION" \in Commands
    /\ MayClaim(a, p, id)
    /\ claim' = Put(claim, a, <<p, id>>)
    /\ UNCHANGED <<services, strand, pending, lost, r2a, crashed>>
    /\ IF a \notin DOMAIN agents THEN UNCHANGED <<agents, svc, ses, counts>> ELSE
       LET noted == [agents EXCEPT ![a].ports = @ \cup {p}] IN
       \/ /\ p \notin DOMAIN services
          /\ agents' = noted
          /\ UNCHANGED <<svc, ses, counts>>
       \/ /\ p \in DOMAIN services /\ a \notin DOMAIN svc[services[p]].sessions
          /\ LET s == nses + 1 IN
             /\ s <= MaxSessions
             /\ ses' = Put(ses, s, NewSession(0, a, TRUE))
             /\ nses' = s /\ UNCHANGED <<nagents, nsvc>>
             /\ svc' = [svc EXCEPT ![services[p]].sessions = Put(@, id, s)]
             /\ agents' = [noted EXCEPT ![a].sessions = Put(@, id, s)]
       \/ /\ p \in DOMAIN services /\ a \in DOMAIN svc[services[p]].sessions
          /\ LET s   == svc[services[p]].sessions[a]
                 old == ses[s].agent_id
             IN  /\ ses' = [ses EXCEPT ![s].agent_id = a, ![s].using_session_conn = TRUE]
                 /\ agents' = [b \in DOMAIN agents |->
                       IF b = a THEN [noted[b] EXCEPT !.sessions = Put(@, id, s)]
                       ELSE IF b = old THEN [noted[b] EXCEPT !.sessions = Drop(@, {id})]
                       ELSE noted[b]]
          /\ UNCHANGED <<svc, counts>>

----------------------------------------------------------------------------
(* RawTcpServer and the handlers of user connections. *)

(* The index of the agent chosen for user seq in the ordered set agents_.    *)
CliIndex(seq) == IF LoadPolicy = "ip" THEN IpHashes ELSE {seq}
Picked(S, i) == {a \in S : Cardinality({b \in S : b < a}) = i % Cardinality(S)}

(* __GetNextSeq: the numbers do not wrap within MaxUsers, so the next one is  *)
(* never in conns_.                                                           *)
NextSeq(h) == svc[h].next_seq + 1

(* __OnAccept on a server that has not been closed. *)
OnAccept(h) == RunningServer(h) /\ svc[h].inited /\ NextSeq(h) <= MaxUsers

(* __OnUserConnect, which __OnAccept calls inline.  Without an agent the      *)
(* connection is closed again; if the agent is unknown the handler returns.   *)
OnUserConnect(h) ==
    LET seq  == NextSeq(h)
        conn == [svc EXCEPT ![h].next_seq = seq, ![h].conns = Put(@, seq, "open")]
    IN
    /\ OnAccept(h)
    /\ IF svc[h].agents = {}
       THEN /\ svc' = conn
            /\ strand' = [strand EXCEPT ![h] = Append(@, [op |-> "close", seq |-> seq])]
            /\ UNCHANGED <<agents, ses, r2a, counts>>
       ELSE \E i \in CliIndex(seq) : \E a \in Picked(svc[h].agents, i) :
            /\ UNCHANGED strand
            /\ IF a \in DOMAIN agents
               THEN LET s == nses + 1 IN
                    /\ s <= MaxSessions
                    /\ ses' = Put(ses, s, NewSession(seq, a, FALSE))
                    /\ nses' = s /\ UNCHANGED <<nagents, nsvc>>
                    /\ svc' = [conn EXCEPT ![h].sessions = Put(@, seq, s)]
                    /\ agents' = [agents EXCEPT ![a].sessions = Put(@, seq, s)]
                    /\ r2a' = r2a \cup {Msg("CONNECT", a, svc[h].port, seq)}
               ELSE svc' = conn /\ UNCHANGED <<agents, ses, r2a, counts>>
    /\ UNCHANGED <<services, pending, lost, claim, crashed>>

(* A pool thread reads from a user, or sees the end of the connection, and   *)
(* posts the lambda to the strand.  A read that had completed when a write    *)
(* failed is still posted.                                                    *)
UserSends(h, id) ==
    /\ RunningServer(h) /\ "DATA" \in Commands
    /\ id \in DOMAIN svc[h].conns /\ svc[h].conns[id] \in {"open", "shut"}
    /\ Len(strand[h]) < MaxEvents
    /\ strand' = [strand EXCEPT ![h] = Append(@, [op |-> "recv", seq |-> id])]
    /\ UNCHANGED <<agents, services, svc, ses, pending, lost, claim, r2a, counts, crashed>>

UserLeaves(h, id) ==
    /\ RunningServer(h)
    /\ id \in DOMAIN svc[h].conns /\ svc[h].conns[id] = "open"
    /\ Len(strand[h]) < MaxEvents
    /\ svc' = [svc EXCEPT ![h].conns[id] = "shut"]
    /\ strand' = [strand EXCEPT ![h] = Append(@, [op |-> "disconnect", seq |-> id])]
    /\ UNCHANGED <<agents, services, ses, pending, lost, claim, r2a, counts, crashed>>

NextIs(h, op) == RunningServer(h) /\ strand[h] # << >> /\ Head(strand[h]).op = op
Popped(h) == [strand EXCEPT ![h] = Tail(@)]

(* The agent connection that serves session s of service h. *)
RouteByService(h, s) == CHOOSE a \in svc[h].agents : \A b \in svc[h].agents : a <= b
RouteBySeq(h, s) == ses[s].seq
Route(h, s) == ses[s].agent_id

(* The strand runs on_recv(seq): __OnUserRecv forwards to the agent. *)
OnUserRecv(h) ==
    LET id == Head(strand[h]).seq IN
    /\ NextIs(h, "recv") /\ svc[h].inited
    /\ strand' = Popped(h)
    /\ IF id \in DOMAIN svc[h].sessions
       THEN LET s == svc[h].sessions[id] IN
            /\ r2a' = r2a \cup {Msg("DATA", Route(h, s), svc[h].port, id)}
            /\ pending' = pending \cup {<<h, s>>}
       ELSE UNCHANGED <<r2a, pending>>
    /\ UNCHANGED <<agents, services, svc, ses, lost, claim, counts, crashed>>

(* The strand runs on_disconnect(seq): __OnUserDisconnect, then conns_.erase. *)
OnUserDisconnect(h) ==
    LET id   == Head(strand[h]).seq
        gone == [svc EXCEPT ![h].conns = Drop(@, {id})]
    IN
    /\ NextIs(h, "disconnect") /\ svc[h].inited
    /\ IF id \in DOMAIN svc[h].sessions
       THEN LET s == svc[h].sessions[id]
                r == [ses[s] EXCEPT !.user_disconnected = TRUE]
            IN  /\ ses' = [ses EXCEPT ![s] = r]
                /\ r2a' = IF r.tunnel_hard_disconnected THEN r2a
                          ELSE r2a \cup {Msg("DISCONNECT", r.agent_id, svc[h].port, id)}
                /\ CleanSession(h, r, gone, Popped(h))
       ELSE svc' = gone /\ strand' = Popped(h) /\ UNCHANGED <<ses, r2a, agents>>
    /\ UNCHANGED <<services, pending, lost, claim, counts, crashed>>

(* The strand runs __Close(seq); the connection stays in conns_. *)
CloseConn(h) ==
    LET id == Head(strand[h]).seq IN
    /\ NextIs(h, "close")
    /\ strand' = Popped(h)
    /\ svc' = IF id \in DOMAIN svc[h].conns
              THEN [svc EXCEPT ![h].conns[id] = "closed"] ELSE svc
    /\ UNCHANGED <<agents, services, ses, pending, lost, claim, r2a, counts, crashed>>

(* After RawTcpServer::Close() the lambdas that were already posted call the *)
(* emptied on_recv or on_disconnect: std::bad_function_call, uncaught.       *)
LateUserEvent(h) ==
    /\ NextIs(h, "recv") \/ NextIs(h, "disconnect")
    /\ ~svc[h].inited
    /\ crashed' = "late event"
    /\ UNCHANGED <<agents, services, svc, ses, strand, pending, lost, claim, r2a, counts>>

(* A send callback of Data or OnUserRecv; it may also never come. *)
SendDone(h, s) ==
    /\ Running /\ <<h, s>> \in pending
    /\ Len(strand[h]) <= MaxEvents
    /\ pending' = pending \ {<<h, s>>}
    /\ CleanSession(h, ses[s], svc, strand)
    /\ UNCHANGED <<services, ses, lost, claim, r2a, counts, crashed>>

----------------------------------------------------------------------------
AgentStep ==
    \/ OnAgentConnect
    \/ \E a \in AgentIds : AgentLost(a) \/ OnAgentDisconnect(a)
    \/ \E a \in AgentIds, p \in Ports : Bind(a, p) \/ Unbind(a, p)
    \/ \E a \in AgentIds, p \in Ports, id \in UserIds :
          Data(a, p, id) \/ Disconnect(a, p, id) \/ SessionConn(a, p, id)

RunStrand(h) == OnUserRecv(h) \/ OnUserDisconnect(h) \/ CloseConn(h) \/ LateUserEvent(h)

UserStep ==
    \/ \E h \in ServiceIds : OnUserConnect(h) \/ RunStrand(h)
    \/ \E h \in ServiceIds, id \in UserIds : UserSends(h, id) \/ UserLeaves(h, id)
    \/ \E h \in ServiceIds, s \in SessionIds : SendDone(h, s)

Next == AgentStep \/ UserStep

Spec == Init /\ [][Next]_vars

(* Fairness: the thread of main_ioservice_ runs every handler that has been *)
(* posted, in particular on_disconnect of a lost agent and the work of the  *)
(* strands.  Nothing is assumed of agents, users and send callbacks.        *)
Fairness == /\ \A a \in AgentIds : WF_vars(OnAgentDisconnect(a))
            /\ \A h \in ServiceIds : WF_vars(RunStrand(h))
FairSpec == Spec /\ Fairness

----------------------------------------------------------------------------
(* The shape of the relay's tables. *)
R2A == [cmd : {"CONNECT", "DATA", "DISCONNECT"}, to : AgentIds, port : Ports, id : UserIds]
TypeOK ==
    /\ DOMAIN agents \subseteq AgentIds /\ agents \in [DOMAIN agents -> AgentInfo(nses)]
    /\ DOMAIN services \subseteq Ports /\ services \in [DOMAIN services -> 1..nsvc]
    /\ nagents \in 0..MaxAgents /\ nsvc \in 0..MaxServices /\ nses \in 0..MaxSessions
    /\ svc \in [1..nsvc -> ServiceInfo(nses)]
    /\ ses \in [1..nses -> Session]
    /\ strand \in [1..nsvc -> Seq(Work)]
    /\ pending \subseteq (1..nsvc) \X (1..nses)
    /\ lost \subseteq AgentIds
    /\ DOMAIN claim \subseteq AgentIds /\ claim \in [DOMAIN claim -> Ports \X UserIds]
    /\ r2a \subseteq R2A
    /\ crashed \in {"no", "bind", "late event"}

(* services_, ServiceInfo::agents_ and AgentInfo::ports_ agree across BIND,  *)
(* UNBIND, SESSION and disconnects: a service that is listening has at least *)
(* one agent, and each of its agents is connected and lists the port.  So    *)
(* __OnUserConnect never divides by zero agents nor misses in agents_.       *)
RegistryInv ==
    \A p \in DOMAIN services :
        LET h == services[p] IN
        /\ h \in DOMAIN svc /\ svc[h].port = p
        /\ svc[h].agents # {}
        /\ \A a \in svc[h].agents : a \in DOMAIN agents /\ p \in agents[a].ports

(* A RawTcpServer accepts users exactly while it is the one services_ has    *)
(* for its port: no listener survives its service and none is shut early.    *)
ListenerInv ==
    \A h \in DOMAIN svc :
        svc[h].inited <=> svc[h].port \in DOMAIN services /\ services[svc[h].port] = h

(* Whenever a user is accepted, __OnUserConnect gives it a session and       *)
(* announces it with CONNECT to an agent that is connected and has bound the *)
(* port: none of its early returns leaves a user connected to nobody.        *)
AcceptedUserHasAgent ==
    [][\A h \in DOMAIN svc :
          svc'[h].next_seq # svc[h].next_seq =>
              \E a \in svc[h].agents :
                 /\ svc'[h].next_seq \in DOMAIN svc'[h].sessions
                 /\ a \in DOMAIN agents /\ svc[h].port \in agents[a].ports
                 /\ Msg("CONNECT", a, svc[h].port, svc'[h].next_seq) \in r2a']_vars

(* __CleanSession leaves no session of an accepted user behind whose user    *)
(* and whose agent are both gone, in whichever order the two ends, the agent *)
(* itself and its session connections go.  The sessions that SESSION makes   *)
(* have number 0, under which nobody erases them: those do stay.             *)
NoFinishedSessionKept ==
    \A h \in DOMAIN svc : svc[h].inited =>
        \A id \in DOMAIN svc[h].sessions :
            LET r == ses[svc[h].sessions[id]] IN
            r.seq # 0 => ~(r.user_disconnected /\ r.tunnel_disconnected)

(* A service forgets a session only when the connection of its user is gone, *)
(* and one that it made for the user itself only when the tunnel is gone as  *)
(* well; nobody else's end, late callback or session connection drops a      *)
(* session that is in use.                                                   *)
SessionsDroppedOnlyWhenFinished ==
    [][\A h \in DOMAIN svc : \A id \in DOMAIN svc[h].sessions :
          id \notin DOMAIN svc'[h].sessions =>
              /\ id \notin DOMAIN svc'[h].conns
              /\ LET r == ses'[svc[h].sessions[id]] IN
                 r.seq # 0 => r.user_disconnected /\ r.tunnel_disconnected]_vars

(* What a user sends goes to the agent that was told of this user with       *)
(* CONNECT: on its tunnel b, or on a session connection that b's process     *)
(* opened for one of its users.                                              *)
SameAgent(a, b) ==
    \/ a = b
    \/ a \in DOMAIN claim /\ Msg("CONNECT", b, claim[a][1], claim[a][2]) \in r2a
DataToOwnAgent ==
    \A m \in r2a : m.cmd = "DATA" =>
        \E b \in AgentIds : Msg("CONNECT", b, m.port, m.id) \in r2a /\ SameAgent(m.to, b)

(* What a user sends goes to that agent, or to a connection that has the     *)
(* user's own number and has declared itself a session connection: the       *)
(* lookup of SESSION under its own number is the only way to a stranger.     *)
DataToOwnAgentOrNamesake ==
    \A m \in r2a : m.cmd = "DATA" =>
        \/ \E b \in AgentIds : Msg("CONNECT", b, m.port, m.id) \in r2a /\ SameAgent(m.to, b)
        \/ m.to = m.id /\ m.to \in DOMAIN claim

(* Once the loss of an agent connection is noticed, the agent is withdrawn   *)
(* from every service for good, and no service is left running without one,  *)
(* whatever BIND and UNBIND messages were still queued at the time.          *)
LostAgentIsWithdrawn ==
    \A a \in AgentIds :
        a \in lost ~> [](crashed # "no" \/ \A h \in DOMAIN svc :
                            svc[h].inited => svc[h].agents # {} /\ a \notin svc[h].agents)
=============================================================================
