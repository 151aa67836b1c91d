---------------------------- MODULE RelayProofs ----------------------------
(* Proofs about Relay, for every value of its constants. *)
EXTENDS Relay, TLAPS

----------------------------------------------------------------------------
(* Maps.  A map is a function whose domain is a set of keys. *)
LEMMA MapElim ==
    ASSUME NEW K, NEW V, NEW f \in Map(K, V)
    PROVE  DOMAIN f \subseteq K /\ f \in [DOMAIN f -> V]
BY DEF Map

(* A function whose domain consists of keys is a map. *)
LEMMA MapIntro ==
    ASSUME NEW K, NEW V, NEW D \in SUBSET K, NEW f \in [D -> V]
    PROVE  f \in Map(K, V)
BY DEF Map

(* The empty map, as in a freshly made table. *)
LEMMA EmptyMap ==
    ASSUME NEW K, NEW V
    PROVE  << >> \in Map(K, V)
<1>1. << >> \in [{} -> V]
  OBVIOUS
<1>2. QED
  BY <1>1, MapIntro

(* Inserting or overwriting an entry, as std::map::operator[] does. *)
LEMMA PutInMap ==
    ASSUME NEW K, NEW V, NEW f \in Map(K, V), NEW k \in K, NEW v \in V
    PROVE  Put(f, k, v) \in Map(K, V)
<1>1. DOMAIN f \cup {k} \in SUBSET K
  BY MapElim
<1>2. Put(f, k, v) \in [DOMAIN f \cup {k} -> V]
  BY MapElim DEF Put
<1>3. QED
  BY <1>1, <1>2, MapIntro

(* Erasing entries, as std::map::erase does. *)
LEMMA DropInMap ==
    ASSUME NEW K, NEW V, NEW f \in Map(K, V), NEW X
    PROVE  Drop(f, X) \in Map(K, V)
<1>1. DOMAIN f \ X \in SUBSET K
  BY MapElim
<1>2. Drop(f, X) \in [DOMAIN f \ X -> V]
  BY MapElim DEF Drop
<1>3. QED
  BY <1>1, <1>2, MapIntro

(* A map keeps its type when more values exist. *)
LEMMA MapGrows ==
    ASSUME NEW K, NEW V, NEW W, V \subseteq W, NEW f \in Map(K, V)
    PROVE  f \in Map(K, W)
<1>1. f \in [DOMAIN f -> W] /\ DOMAIN f \in SUBSET K
  BY MapElim
<1>2. QED
  BY <1>1, MapIntro

(* Records of the tables keep their type under the updates of the handlers. *)
LEMMA AgentInfoUpdates ==
    ASSUME NEW n, NEW i \in AgentInfo(n)
    PROVE  /\ \A P \in SUBSET Ports : [i EXCEPT !.ports = P] \in AgentInfo(n)
           /\ \A X : [i EXCEPT !.sessions = Drop(i.sessions, X)] \in AgentInfo(n)
           /\ \A k \in UserIds, s \in 1..n :
                 [i EXCEPT !.sessions = Put(i.sessions, k, s)] \in AgentInfo(n)
<1>1. i.sessions \in Map(UserIds, 1..n)
  BY DEF AgentInfo
<1>2. \A m \in Map(UserIds, 1..n) : [i EXCEPT !.sessions = m] \in AgentInfo(n)
  BY DEF AgentInfo
<1>3. \A P \in SUBSET Ports : [i EXCEPT !.ports = P] \in AgentInfo(n)
  BY DEF AgentInfo
<1>4. \A X : Drop(i.sessions, X) \in Map(UserIds, 1..n)
  BY <1>1, DropInMap
<1>5. \A k \in UserIds, s \in 1..n : Put(i.sessions, k, s) \in Map(UserIds, 1..n)
  BY <1>1, PutInMap
<1>6. QED
  BY <1>2, <1>3, <1>4, <1>5

(* An AgentInfo stays one when a Session is made. *)
LEMMA AgentInfoGrows ==
    ASSUME NEW n \in Nat, NEW m \in Nat, n <= m, NEW i \in AgentInfo(n)
    PROVE  i \in AgentInfo(m)
<1>1. i.sessions \in Map(UserIds, 1..m)
  BY MapGrows DEF AgentInfo
<1>2. QED
  BY <1>1 DEF AgentInfo

(* The assignments of the handlers to a ServiceInfo and its RawTcpServer. *)
LEMMA ServiceInfoUpdates ==
    ASSUME NEW n, NEW s \in ServiceInfo(n)
    PROVE  /\ \A A \in SUBSET AgentIds : [s EXCEPT !.agents = A] \in ServiceInfo(n)
           /\ \A X : [s EXCEPT !.sessions = Drop(s.sessions, X)] \in ServiceInfo(n)
           /\ \A k \in UserIds, t \in 1..n :
                 [s EXCEPT !.sessions = Put(s.sessions, k, t)] \in ServiceInfo(n)
           /\ \A X : [s EXCEPT !.conns = Drop(s.conns, X)] \in ServiceInfo(n)
           /\ \A k \in UserIds, c \in ConnState, q \in 0..MaxUsers :
                 [s EXCEPT !.next_seq = q, !.conns = Put(s.conns, k, c)] \in ServiceInfo(n)
           /\ CloseServer(s) \in ServiceInfo(n)
           /\ \A a : RemoveAgent(s, a) \in ServiceInfo(n)
<1>1. s.sessions \in Map(UserIds, 1..n) /\ s.conns \in Map(UserIds, ConnState)
  BY DEF ServiceInfo
<1>2. \A m \in Map(UserIds, 1..n) : [s EXCEPT !.sessions = m] \in ServiceInfo(n)
  BY DEF ServiceInfo
<1>3. \A m \in Map(UserIds, ConnState) : [s EXCEPT !.conns = m] \in ServiceInfo(n)
  BY DEF ServiceInfo
<1>4. \A m \in Map(UserIds, ConnState), q \in 0..MaxUsers :
         [s EXCEPT !.next_seq = q, !.conns = m] \in ServiceInfo(n)
  BY DEF ServiceInfo
<1>5. \A A \in SUBSET AgentIds : [s EXCEPT !.agents = A] \in ServiceInfo(n)
  BY DEF ServiceInfo
<1>6. \A t \in ServiceInfo(n) : CloseServer(t) \in ServiceInfo(n)
  <2>1. << >> \in Map(UserIds, ConnState)
    BY EmptyMap
  <2>2. QED
    BY <2>1 DEF CloseServer, ServiceInfo
<1>7. \A a : RemoveAgent(s, a) \in ServiceInfo(n)
  <2>1. \A a : s.agents \ {a} \in SUBSET AgentIds
    BY DEF ServiceInfo
  <2>2. QED
    BY <1>5, <1>6, <2>1 DEF RemoveAgent
<1>8. \A X : Drop(s.sessions, X) \in Map(UserIds, 1..n) /\ Drop(s.conns, X) \in Map(UserIds, ConnState)
  BY <1>1, DropInMap
<1>9. \A k \in UserIds, t \in 1..n : Put(s.sessions, k, t) \in Map(UserIds, 1..n)
  BY <1>1, PutInMap
<1>10. \A k \in UserIds, c \in ConnState : Put(s.conns, k, c) \in Map(UserIds, ConnState)
  BY <1>1, PutInMap
<1>11. QED
  BY <1>2, <1>3, <1>4, <1>5, <1>6, <1>7, <1>8, <1>9, <1>10

(* A ServiceInfo stays one when a Session is made. *)
LEMMA ServiceInfoGrows ==
    ASSUME NEW n \in Nat, NEW m \in Nat, n <= m, NEW s \in ServiceInfo(n)
    PROVE  s \in ServiceInfo(m)
<1>1. s.sessions \in Map(UserIds, 1..m)
  BY MapGrows DEF ServiceInfo
<1>2. QED
  BY <1>1 DEF ServiceInfo

(* A change of state of one user connection. *)
LEMMA ConnUpdate ==
    ASSUME NEW n, NEW m, NEW S \in [1..m -> ServiceInfo(n)], NEW h \in 1..m,
           NEW id \in DOMAIN S[h].conns, NEW c \in ConnState
    PROVE  [S EXCEPT ![h] = [S[h] EXCEPT !.conns = [S[h].conns EXCEPT ![id] = c]]]
              \in [1..m -> ServiceInfo(n)]
<1>1. S[h].conns \in Map(UserIds, ConnState)
  BY DEF ServiceInfo
<1>2. DOMAIN S[h].conns \in SUBSET UserIds /\ S[h].conns \in [DOMAIN S[h].conns -> ConnState]
  BY <1>1, MapElim
<1>3. [S[h].conns EXCEPT ![id] = c] \in Map(UserIds, ConnState)
  BY <1>2, MapIntro
<1>4. [S[h] EXCEPT !.conns = [S[h].conns EXCEPT ![id] = c]] \in ServiceInfo(n)
  BY <1>3 DEF ServiceInfo
<1>5. QED
  BY <1>4

(* The assignments of the handlers to the flags and the agent of a Session. *)
LEMMA SessionUpdates ==
    ASSUME NEW r \in Session
    PROVE  /\ [r EXCEPT !.user_disconnected = TRUE] \in Session
           /\ [r EXCEPT !.tunnel_disconnected = TRUE] \in Session
           /\ [r EXCEPT !.tunnel_disconnected = TRUE,
                        !.tunnel_hard_disconnected = TRUE] \in Session
           /\ \A a \in AgentIds :
                 [r EXCEPT !.agent_id = a, !.using_session_conn = TRUE] \in Session
BY DEF Session

----------------------------------------------------------------------------
(* Type correctness. *)
LEMMA CleanSessionType ==
    ASSUME NEW n, NEW m, NEW h \in 1..m, NEW r \in Session,
           NEW S \in [1..m -> ServiceInfo(n)], NEW Q \in [1..m -> Seq(Work)],
           agents \in [DOMAIN agents -> AgentInfo(n)],
           CleanSession(h, r, S, Q)
    PROVE  /\ svc' \in [1..m -> ServiceInfo(n)]
           /\ strand' \in [1..m -> Seq(Work)]
           /\ DOMAIN agents' = DOMAIN agents
           /\ agents' \in [DOMAIN agents -> AgentInfo(n)]
<1>1. CASE Finished(r)
  <2>1. svc' \in [1..m -> ServiceInfo(n)]
    <3>1. [S[h] EXCEPT !.sessions = Drop(S[h].sessions, {r.seq})] \in ServiceInfo(n)
      BY ServiceInfoUpdates
    <3>2. svc' = [S EXCEPT ![h] = [S[h] EXCEPT !.sessions = Drop(S[h].sessions, {r.seq})]]
      BY <1>1 DEF CleanSession
    <3>3. QED
      BY <3>1, <3>2
  <2>2. strand' \in [1..m -> Seq(Work)]
    <3>1. [op |-> "close", seq |-> r.seq] \in Work
      BY DEF Work, Session
    <3>2. Append(Q[h], [op |-> "close", seq |-> r.seq]) \in Seq(Work)
      BY <3>1
    <3>3. strand' = [Q EXCEPT ![h] = Append(Q[h], [op |-> "close", seq |-> r.seq])]
      BY <1>1 DEF CleanSession
    <3>4. QED
      BY <3>2, <3>3
  <2>3. /\ DOMAIN agents' = DOMAIN agents
        /\ agents' \in [DOMAIN agents -> AgentInfo(n)]
    <3>1. \A a \in DOMAIN agents :
             [agents[a] EXCEPT !.sessions = Drop(agents[a].sessions, {r.seq})] \in AgentInfo(n)
      BY AgentInfoUpdates
    <3>2. agents' = [a \in DOMAIN agents |->
                        IF a = r.agent_id
                        THEN [agents[a] EXCEPT !.sessions = Drop(agents[a].sessions, {r.seq})]
                        ELSE agents[a]]
      BY <1>1 DEF CleanSession
    <3>3. QED
      BY <3>1, <3>2
  <2>4. QED
    BY <2>1, <2>2, <2>3
<1>2. CASE ~Finished(r)
  BY <1>2 DEF CleanSession
<1>3. QED
  BY <1>1, <1>2

(* __OnAgentConnect keeps the tables in shape. *)
LEMMA OnAgentConnectType ==
    ASSUME TypeOK, OnAgentConnect
    PROVE  TypeOK'
<1>1. [ports |-> {}, sessions |-> << >>] \in AgentInfo(nses)
  BY EmptyMap DEF AgentInfo
<1>2. nagents + 1 \in AgentIds /\ nagents' \in 0..MaxAgents
  <2>1. nagents \in 0..MaxAgents
    BY DEF TypeOK
  <2>2. nagents' = nagents + 1 /\ nagents + 1 <= MaxAgents
    BY DEF OnAgentConnect
  <2>3. QED
    BY <2>1, <2>2, ConstantsAssumption DEF AgentIds
<1>3. /\ DOMAIN agents' \subseteq AgentIds
      /\ agents' \in [DOMAIN agents' -> AgentInfo(nses)]
  BY <1>1, <1>2 DEF OnAgentConnect, Put, TypeOK
<1>4. QED
  BY <1>2, <1>3 DEF OnAgentConnect, TypeOK

(* __OnAgentDisconnect keeps the tables in shape. *)
LEMMA OnAgentDisconnectType ==
    ASSUME TypeOK, NEW a \in AgentIds, OnAgentDisconnect(a)
    PROVE  TypeOK'
<1> DEFINE info == agents[a]
           live == info.ports \cap DOMAIN services
           hit == {services[p] : p \in live}
           mine == IF live = {} THEN {} ELSE Values(info.sessions)
           done == {s \in mine : ses[s].user_disconnected}
           seqs == {ses[s].seq : s \in done}
           closes == {[op |-> "close", seq |-> n] : n \in seqs}
<1>1. info \in AgentInfo(nses) /\ info.sessions \in Map(UserIds, 1..nses)
  BY DEF OnAgentDisconnect, AgentInfo, TypeOK
<1>2. mine \subseteq 1..nses
  <2>1. Values(info.sessions) \subseteq 1..nses
    <3>1. info.sessions \in [DOMAIN info.sessions -> 1..nses]
      BY <1>1, MapElim
    <3>2. QED
      BY <3>1 DEF Values
  <2>2. QED
    BY <2>1
<1>3. closes \subseteq Work
  <2>1. seqs \subseteq 0..MaxUsers
    BY <1>2 DEF Session, TypeOK
  <2>2. QED
    BY <2>1 DEF Work
<1>4. ses' \in [1..nses -> Session]
  <2>1. \A s \in 1..nses :
           [ses[s] EXCEPT !.tunnel_disconnected = TRUE,
                          !.tunnel_hard_disconnected = TRUE] \in Session
    BY SessionUpdates DEF TypeOK
  <2>2. QED
    BY <2>1 DEF OnAgentDisconnect, TypeOK
<1>5. svc' \in [1..nsvc -> ServiceInfo(nses)]
  <2>1. \A h \in DOMAIN svc :
           RemoveAgent([svc[h] EXCEPT !.sessions = Drop(svc[h].sessions, seqs)], a)
              \in ServiceInfo(nses)
    BY ServiceInfoUpdates DEF TypeOK
  <2>2. QED
    BY <2>1 DEF OnAgentDisconnect, TypeOK
<1>6. strand' \in [1..nsvc -> Seq(Work)]
  <2>1. PICK n \in 0..MaxUsers + 1 : \E order \in [1..n -> closes] :
           strand' = [h \in DOMAIN strand |-> IF h \in hit THEN strand[h] \o order
                                                           ELSE strand[h]]
    BY DEF OnAgentDisconnect
  <2>2. PICK order \in [1..n -> closes] :
           strand' = [h \in DOMAIN strand |-> IF h \in hit THEN strand[h] \o order
                                                           ELSE strand[h]]
    BY <2>1
  <2>3. order \in Seq(Work)
    <3>1. n \in Nat
      BY ConstantsAssumption
    <3>2. order \in [1..n -> Work]
      BY <1>3
    <3>3. QED
      BY <3>1, <3>2
  <2>4. \A h \in DOMAIN strand : strand[h] \o order \in Seq(Work)
    <3>1. \A h \in DOMAIN strand : strand[h] \in Seq(Work)
      BY DEF TypeOK
    <3>2. QED
      BY <2>3, <3>1
  <2>5. QED
    BY <2>2, <2>4 DEF TypeOK
<1>7. DOMAIN agents' \subseteq AgentIds /\ agents' \in [DOMAIN agents' -> AgentInfo(nses)]
  BY AgentInfoUpdates DEF OnAgentDisconnect, TypeOK
<1>8. DOMAIN services' \subseteq Ports /\ services' \in [DOMAIN services' -> 1..nsvc]
  BY DEF OnAgentDisconnect, Drop, TypeOK
<1>9. QED
  BY <1>4, <1>5, <1>6, <1>7, <1>8 DEF OnAgentDisconnect, TypeOK, counts

(* A2R::BIND keeps the tables in shape. *)
LEMMA BindType ==
    ASSUME TypeOK, NEW a \in AgentIds, NEW p \in Ports, Bind(a, p)
    PROVE  TypeOK'
<1>1. a \in DOMAIN agents /\ agents[a] \in AgentInfo(nses)
  BY DEF Bind, TypeOK
<1> DEFINE withPort == [agents EXCEPT ![a].ports = @ \cup {p}]
<1>2. DOMAIN withPort \subseteq AgentIds /\ withPort \in [DOMAIN withPort -> AgentInfo(nses)]
  <2>1. agents[a].ports \cup {p} \in SUBSET Ports
    BY <1>1 DEF AgentInfo
  <2>2. [agents[a] EXCEPT !.ports = agents[a].ports \cup {p}] \in AgentInfo(nses)
    BY <1>1, <2>1, AgentInfoUpdates
  <2>3. QED
    BY <1>1, <2>2 DEF TypeOK
<1>3. CASE p \in DOMAIN services
  <2>1. svc' \in [1..nsvc -> ServiceInfo(nses)]
    <3>1. svc' = [svc EXCEPT ![services[p]] =
                     [svc[services[p]] EXCEPT !.agents = svc[services[p]].agents \cup {a}]]
      BY <1>3 DEF Bind
    <3>2. services[p] \in 1..nsvc /\ svc[services[p]] \in ServiceInfo(nses)
      BY <1>3 DEF TypeOK
    <3>3. svc[services[p]].agents \cup {a} \in SUBSET AgentIds
      BY <3>2 DEF ServiceInfo
    <3>4. [svc[services[p]] EXCEPT !.agents = svc[services[p]].agents \cup {a}] \in ServiceInfo(nses)
      BY <3>2, <3>3, ServiceInfoUpdates
    <3>5. QED
      BY <3>1, <3>4 DEF TypeOK
  <2>2. agents' = withPort /\ UNCHANGED <<services, strand, counts, crashed, ses, pending, lost, claim, r2a>>
    BY <1>3 DEF Bind
  <2>3. QED
    BY <1>2, <2>1, <2>2 DEF TypeOK, counts
<1>4. CASE p \notin DOMAIN services \cup BusyPorts
  <2>1. /\ nsvc' = nsvc + 1 /\ nsvc + 1 <= MaxServices
        /\ svc' = Put(svc, nsvc + 1, [port |-> p, agents |-> {a}, sessions |-> << >>,
                                      inited |-> TRUE, next_seq |-> 0, conns |-> << >>])
        /\ strand' = Put(strand, nsvc + 1, << >>)
        /\ services' = Put(services, p, nsvc + 1)
        /\ agents' = withPort
        /\ UNCHANGED <<nagents, nses, crashed, ses, pending, lost, claim, r2a>>
    BY <1>4 DEF Bind
  <2>2. nsvc' \in 0..MaxServices /\ 1..nsvc' = (1..nsvc) \cup {nsvc + 1}
    <3>1. nsvc \in 0..MaxServices
      BY DEF TypeOK
    <3>2. QED
      BY <2>1, <3>1, ConstantsAssumption
  <2>3. svc' \in [1..nsvc' -> ServiceInfo(nses)]
    <3>1. [port |-> p, agents |-> {a}, sessions |-> << >>, inited |-> TRUE,
           next_seq |-> 0, conns |-> << >>] \in ServiceInfo(nses)
      BY EmptyMap, ConstantsAssumption DEF ServiceInfo
    <3>2. QED
      BY <2>1, <2>2, <3>1 DEF Put, TypeOK
  <2>4. strand' \in [1..nsvc' -> Seq(Work)]
    <3>1. << >> \in Seq(Work)
      OBVIOUS
    <3>2. QED
      BY <2>1, <2>2, <3>1 DEF Put, TypeOK
  <2>5. DOMAIN services' \subseteq Ports /\ services' \in [DOMAIN services' -> 1..nsvc']
    BY <2>1, <2>2 DEF Put, TypeOK
  <2>6. pending' \subseteq (1..nsvc') \X (1..nses)
    BY <2>1, <2>2 DEF TypeOK
  <2>7. QED
    BY <1>2, <2>1, <2>2, <2>3, <2>4, <2>5, <2>6 DEF TypeOK
<1>5. CASE p \in BusyPorts \ DOMAIN services
  BY <1>5 DEF Bind, TypeOK, counts
<1>6. QED
  BY <1>3, <1>4, <1>5

(* A2R::UNBIND keeps the tables in shape. *)
LEMMA UnbindType ==
    ASSUME TypeOK, NEW a \in AgentIds, NEW p \in Ports, Unbind(a, p)
    PROVE  TypeOK'
<1>1. a \in DOMAIN agents /\ agents[a] \in AgentInfo(nses)
  BY DEF Unbind, TypeOK
<1>2. DOMAIN agents' \subseteq AgentIds /\ agents' \in [DOMAIN agents' -> AgentInfo(nses)]
  <2>1. agents[a].ports \ {p} \in SUBSET Ports
    BY <1>1 DEF AgentInfo
  <2>2. [agents[a] EXCEPT !.ports = agents[a].ports \ {p}] \in AgentInfo(nses)
    BY <1>1, <2>1, AgentInfoUpdates
  <2>3. agents' = [agents EXCEPT ![a] = [agents[a] EXCEPT !.ports = agents[a].ports \ {p}]]
    BY DEF Unbind
  <2>4. QED
    BY <1>1, <2>2, <2>3 DEF TypeOK
<1>3. svc' \in [1..nsvc -> ServiceInfo(nses)]
  <2>1. CASE p \in DOMAIN services
    <3>1. services[p] \in 1..nsvc /\ svc[services[p]] \in ServiceInfo(nses)
      BY <2>1 DEF TypeOK
    <3>2. RemoveAgent(svc[services[p]], a) \in ServiceInfo(nses)
      BY <3>1, ServiceInfoUpdates
    <3>3. QED
      BY <2>1, <3>1, <3>2 DEF Unbind, TypeOK
  <2>2. CASE p \notin DOMAIN services
    BY <2>2 DEF Unbind, TypeOK
  <2>3. QED
    BY <2>1, <2>2
<1>4. DOMAIN services' \subseteq Ports /\ services' \in [DOMAIN services' -> 1..nsvc]
  <2>1. services' = services \/ services' = Drop(services, {p})
    BY DEF Unbind
  <2>2. QED
    BY <2>1 DEF Drop, TypeOK
<1>5. QED
  BY <1>2, <1>3, <1>4 DEF Unbind, TypeOK, counts

(* The session that a service of services_ has for a user. *)
LEMMA SessionOfService ==
    ASSUME TypeOK, NEW h \in 1..nsvc, NEW id \in DOMAIN svc[h].sessions
    PROVE  id \in UserIds /\ svc[h].sessions[id] \in 1..nses
<1>1. svc[h].sessions \in Map(UserIds, 1..nses)
  BY DEF TypeOK, ServiceInfo
<1>2. /\ DOMAIN svc[h].sessions \subseteq UserIds
      /\ svc[h].sessions \in [DOMAIN svc[h].sessions -> 1..nses]
  BY <1>1, MapElim
<1>3. QED
  BY <1>2

(* A2R::DATA keeps the tables in shape. *)
LEMMA DataType ==
    ASSUME TypeOK, NEW a \in AgentIds, NEW p \in Ports, NEW id \in UserIds, Data(a, p, id)
    PROVE  TypeOK'
<1>1. services[p] \in 1..nsvc
  BY DEF Data, TypeOK
<1>2. svc[services[p]].sessions[id] \in 1..nses
  BY <1>1, SessionOfService DEF Data
<1>3. pending' \subseteq (1..nsvc) \X (1..nses)
  <2>1. pending' = pending \cup {<<services[p], svc[services[p]].sessions[id]>>}
    BY DEF Data
  <2>2. pending \subseteq (1..nsvc) \X (1..nses)
    BY DEF TypeOK
  <2>3. QED
    BY <1>1, <1>2, <2>1, <2>2
<1>4. QED
  BY <1>3 DEF Data, TypeOK, counts

(* A2R::DISCONNECT keeps the tables in shape. *)
LEMMA DisconnectType ==
    ASSUME TypeOK, NEW a \in AgentIds, NEW p \in Ports, NEW id \in UserIds, Disconnect(a, p, id)
    PROVE  TypeOK'
<1> DEFINE h == services[p]
           s == svc[h].sessions[id]
           r == [ses[s] EXCEPT !.tunnel_disconnected = TRUE]
<1>1. h \in 1..nsvc
  BY DEF Disconnect, TypeOK
<1>2. s \in 1..nses
  BY <1>1, SessionOfService DEF Disconnect
<1>3. r \in Session
  BY <1>2, SessionUpdates DEF TypeOK
<1>4. ses' \in [1..nses -> Session]
  BY <1>3 DEF Disconnect, TypeOK
<1>5. CleanSession(h, r, svc, strand)
  BY DEF Disconnect
<1>6. /\ svc' \in [1..nsvc -> ServiceInfo(nses)]
      /\ strand' \in [1..nsvc -> Seq(Work)]
      /\ DOMAIN agents' = DOMAIN agents
      /\ agents' \in [DOMAIN agents -> AgentInfo(nses)]
  BY <1>1, <1>3, <1>5, CleanSessionType DEF TypeOK
<1>7. QED
  BY <1>4, <1>6 DEF Disconnect, TypeOK, counts

(* A2R::SESSION keeps the tables in shape; from a connection that is gone it *)
(* changes none of them.                                                     *)
LEMMA SessionConnGone ==
    ASSUME NEW a, NEW p, NEW id, SessionConn(a, p, id), a \notin DOMAIN agents
    PROVE  UNCHANGED <<agents, services, svc, ses, strand, pending, lost, r2a, counts, crashed>>
BY DEF SessionConn
LEMMA SessionConnType ==
    ASSUME TypeOK, NEW a \in AgentIds, NEW p \in Ports, NEW id \in UserIds, SessionConn(a, p, id)
    PROVE  TypeOK'
<1> DEFINE noted == [agents EXCEPT ![a].ports = @ \cup {p}]
           h == services[p]
<1>0. DOMAIN claim' \subseteq AgentIds /\ claim' \in [DOMAIN claim' -> Ports \X UserIds]
  BY DEF SessionConn, Put, TypeOK
<1>g. CASE a \notin DOMAIN agents
  BY <1>0, <1>g, SessionConnGone DEF TypeOK, counts
<1> SUFFICES ASSUME a \in DOMAIN agents
             PROVE  TypeOK'
  BY <1>g
<1>1. agents[a] \in AgentInfo(nses)
  BY DEF TypeOK
<1>2. DOMAIN noted = DOMAIN agents /\ noted \in [DOMAIN agents -> AgentInfo(nses)]
  <2>1. agents[a].ports \cup {p} \in SUBSET Ports
    BY <1>1 DEF AgentInfo
  <2>2. [agents[a] EXCEPT !.ports = agents[a].ports \cup {p}] \in AgentInfo(nses)
    BY <1>1, <2>1, AgentInfoUpdates
  <2>3. QED
    BY <1>1, <2>2 DEF TypeOK
<1>3. DOMAIN claim' \subseteq AgentIds /\ claim' \in [DOMAIN claim' -> Ports \X UserIds]
  BY DEF SessionConn, Put, TypeOK
<1>4. UNCHANGED <<services, strand, pending, lost, r2a, crashed>>
  BY DEF SessionConn
<1>5. CASE p \notin DOMAIN services
  <2>1. agents' = noted /\ UNCHANGED <<svc, ses, counts>>
    BY <1>5 DEF SessionConn
  <2>2. QED
    BY <1>2, <1>3, <1>4, <2>1 DEF TypeOK, counts
<1>6. CASE p \in DOMAIN services /\ a \notin DOMAIN svc[h].sessions
  <2>1. /\ nses' = nses + 1 /\ nses + 1 <= MaxSessions
        /\ ses' = Put(ses, nses + 1, NewSession(0, a, TRUE))
        /\ svc' = [svc EXCEPT ![h] = [svc[h] EXCEPT !.sessions = Put(svc[h].sessions, id, nses + 1)]]
        /\ agents' = [noted EXCEPT ![a] = [noted[a] EXCEPT !.sessions = Put(noted[a].sessions, id, nses + 1)]]
        /\ UNCHANGED <<nagents, nsvc>>
    BY <1>6 DEF SessionConn
  <2>2. /\ nses \in Nat /\ nses' \in 0..MaxSessions /\ nses <= nses' /\ nses' \in 1..nses'
        /\ 1..nses' = (1..nses) \cup {nses'}
    <3>1. nses \in 0..MaxSessions
      BY DEF TypeOK
    <3>2. QED
      BY <2>1, <3>1, ConstantsAssumption
  <2>3. ses' \in [1..nses' -> Session]
    <3>1. NewSession(0, a, TRUE) \in Session
      BY ConstantsAssumption DEF NewSession, Session
    <3>2. QED
      BY <2>1, <2>2, <3>1 DEF Put, TypeOK
  <2>4. h \in 1..nsvc
    BY <1>6 DEF TypeOK
  <2>5. svc \in [1..nsvc -> ServiceInfo(nses')]
    <3>1. svc \in [1..nsvc -> ServiceInfo(nses)]
      BY DEF TypeOK
    <3>2. QED
      BY <2>2, <3>1, ServiceInfoGrows
  <2>6. svc' \in [1..nsvc -> ServiceInfo(nses')]
    <3>1. [svc[h] EXCEPT !.sessions = Put(svc[h].sessions, id, nses')] \in ServiceInfo(nses')
      BY <2>2, <2>4, <2>5, ServiceInfoUpdates
    <3>2. QED
      BY <2>1, <2>4, <2>5, <3>1
  <2>7. noted \in [DOMAIN agents -> AgentInfo(nses')]
    BY <1>2, <2>2, AgentInfoGrows
  <2>8. DOMAIN agents' = DOMAIN agents /\ agents' \in [DOMAIN agents -> AgentInfo(nses')]
    <3>1. [noted[a] EXCEPT !.sessions = Put(noted[a].sessions, id, nses')] \in AgentInfo(nses')
      BY <1>1, <2>2, <2>7, AgentInfoUpdates
    <3>2. QED
      BY <1>1, <2>1, <2>7, <3>1
  <2>9. pending \subseteq (1..nsvc) \X (1..nses')
    BY <2>2 DEF TypeOK
  <2>10. QED
    BY <1>3, <1>4, <2>1, <2>2, <2>3, <2>6, <2>8, <2>9 DEF TypeOK
<1>7. CASE p \in DOMAIN services /\ a \in DOMAIN svc[h].sessions
  <2> DEFINE s == svc[h].sessions[a]
             old == ses[s].agent_id
  <2>1. /\ ses' = [ses EXCEPT ![s] = [ses[s] EXCEPT !.agent_id = a, !.using_session_conn = TRUE]]
        /\ agents' = [b \in DOMAIN agents |->
              IF b = a THEN [noted[b] EXCEPT !.sessions = Put(noted[b].sessions, id, s)]
              ELSE IF b = old THEN [noted[b] EXCEPT !.sessions = Drop(noted[b].sessions, {id})]
              ELSE noted[b]]
        /\ UNCHANGED <<svc, counts>>
    <3>1. /\ ses' = [ses EXCEPT ![s].agent_id = a, ![s].using_session_conn = TRUE]
          /\ agents' = [b \in DOMAIN agents |->
                IF b = a THEN [noted[b] EXCEPT !.sessions = Put(@, id, s)]
                ELSE IF b = old THEN [noted[b] EXCEPT !.sessions = Drop(@, {id})]
                ELSE noted[b]]
          /\ UNCHANGED <<svc, counts>>
      BY <1>7 DEF SessionConn
    <3> HIDE DEF s, old, noted
    <3>2. QED
      BY <3>1
  <2>2. h \in 1..nsvc
    BY <1>7 DEF TypeOK
  <2>3. s \in 1..nses
    BY <1>7, <2>2, SessionOfService
  <2>4. ses' \in [1..nses -> Session]
    <3>1. [ses[s] EXCEPT !.agent_id = a, !.using_session_conn = TRUE] \in Session
      BY <2>3, SessionUpdates DEF TypeOK
    <3>2. QED
      BY <2>1, <2>3, <3>1 DEF TypeOK
  <2>5. DOMAIN agents' = DOMAIN agents /\ agents' \in [DOMAIN agents -> AgentInfo(nses)]
    <3>1. \A b \in DOMAIN agents :
             /\ [noted[b] EXCEPT !.sessions = Put(noted[b].sessions, id, s)] \in AgentInfo(nses)
             /\ [noted[b] EXCEPT !.sessions = Drop(noted[b].sessions, {id})] \in AgentInfo(nses)
      BY <1>2, <2>3, AgentInfoUpdates
    <3>2. QED
      BY <1>2, <2>1, <3>1
  <2>6. QED
    BY <1>3, <1>4, <2>1, <2>4, <2>5 DEF TypeOK, counts
<1>8. QED
  BY <1>5, <1>6, <1>7

(* __OnAccept with __OnUserConnect keeps the tables in shape. *)
LEMMA OnUserConnectType ==
    ASSUME TypeOK, NEW h \in ServiceIds, OnUserConnect(h)
    PROVE  TypeOK'
<1> DEFINE seq == svc[h].next_seq + 1
           conn == [svc EXCEPT ![h].next_seq = seq, ![h].conns = Put(@, seq, "open")]
<1>1. h \in 1..nsvc /\ svc[h] \in ServiceInfo(nses)
  BY DEF OnUserConnect, OnAccept, NextSeq, RunningServer, TypeOK
<1>2. seq \in UserIds /\ seq \in 0..MaxUsers
  <2>1. svc[h].next_seq \in 0..MaxUsers
    BY <1>1 DEF ServiceInfo
  <2>2. seq <= MaxUsers
    BY DEF OnUserConnect, OnAccept, NextSeq
  <2>3. QED
    BY <2>1, <2>2, ConstantsAssumption DEF UserIds
<1>3. conn \in [1..nsvc -> ServiceInfo(nses)]
  <2>1. conn = [svc EXCEPT ![h] = [svc[h] EXCEPT !.next_seq = seq, !.conns = Put(svc[h].conns, seq, "open")]]
    BY <1>1 DEF TypeOK, ServiceInfo
  <2>2. [svc[h] EXCEPT !.next_seq = seq, !.conns = Put(svc[h].conns, seq, "open")] \in ServiceInfo(nses)
    BY <1>1, <1>2, ServiceInfoUpdates DEF ConnState
  <2>3. QED
    BY <1>1, <2>1, <2>2 DEF TypeOK
<1>4. UNCHANGED <<services, pending, lost, claim, crashed>>
  BY DEF OnUserConnect, OnAccept, NextSeq
<1>5. CASE svc[h].agents = {}
  <2>1. /\ svc' = conn
        /\ strand' = [strand EXCEPT ![h] = Append(strand[h], [op |-> "close", seq |-> seq])]
        /\ UNCHANGED <<agents, ses, r2a, counts>>
    BY <1>5 DEF OnUserConnect, OnAccept, NextSeq
  <2>2. strand' \in [1..nsvc -> Seq(Work)]
    <3>1. [op |-> "close", seq |-> seq] \in Work
      BY <1>2 DEF Work
    <3>2. strand[h] \in Seq(Work)
      BY <1>1 DEF TypeOK
    <3>3. Append(strand[h], [op |-> "close", seq |-> seq]) \in Seq(Work)
      BY <3>1, <3>2
    <3>4. QED
      BY <2>1, <3>3 DEF TypeOK
  <2>3. QED
    BY <1>3, <1>4, <2>1, <2>2 DEF TypeOK, counts
<1>6. CASE svc[h].agents # {}
  <2>1. PICK a \in svc[h].agents :
           /\ UNCHANGED strand
           /\ IF a \in DOMAIN agents
              THEN /\ nses + 1 <= MaxSessions
                   /\ ses' = Put(ses, nses + 1, NewSession(seq, a, FALSE))
                   /\ nses' = nses + 1 /\ UNCHANGED <<nagents, nsvc>>
                   /\ svc' = [conn EXCEPT ![h].sessions = Put(@, seq, nses + 1)]
                   /\ agents' = [agents EXCEPT ![a].sessions = Put(@, seq, nses + 1)]
                   /\ r2a' = r2a \cup {Msg("CONNECT", a, svc[h].port, seq)}
              ELSE svc' = conn /\ UNCHANGED <<agents, ses, r2a, counts>>
    BY <1>6 DEF OnUserConnect, OnAccept, NextSeq, Picked
  <2>2. CASE a \notin DOMAIN agents
    BY <1>3, <1>4, <2>1, <2>2 DEF TypeOK, counts
  <2>3. CASE a \in DOMAIN agents
    <3>1. /\ nses \in Nat /\ nses' \in 0..MaxSessions /\ nses <= nses' /\ nses' \in 1..nses'
          /\ 1..nses' = (1..nses) \cup {nses'} /\ nses' = nses + 1
      <4>1. nses \in 0..MaxSessions
        BY DEF TypeOK
      <4>2. QED
        BY <2>1, <2>3, <4>1, ConstantsAssumption
    <3>2. a \in AgentIds
      BY <2>3 DEF TypeOK
    <3>3. ses' \in [1..nses' -> Session]
      <4>1. NewSession(seq, a, FALSE) \in Session
        BY <1>2, <3>2 DEF NewSession, Session
      <4>2. QED
        BY <2>1, <2>3, <3>1, <4>1 DEF Put, TypeOK
    <3>4. svc' \in [1..nsvc -> ServiceInfo(nses')]
      <4>1. conn \in [1..nsvc -> ServiceInfo(nses')]
        BY <1>3, <3>1, ServiceInfoGrows
      <4>2. [conn[h] EXCEPT !.sessions = Put(conn[h].sessions, seq, nses')] \in ServiceInfo(nses')
        BY <1>1, <1>2, <3>1, <4>1, ServiceInfoUpdates
      <4>3. svc' = [conn EXCEPT ![h] = [conn[h] EXCEPT !.sessions = Put(conn[h].sessions, seq, nses')]]
        BY <2>1, <2>3, <3>1
      <4>4. QED
        BY <1>1, <4>1, <4>2, <4>3
    <3>5. DOMAIN agents' = DOMAIN agents /\ agents' \in [DOMAIN agents -> AgentInfo(nses')]
      <4>1. agents \in [DOMAIN agents -> AgentInfo(nses')]
        <5>1. agents \in [DOMAIN agents -> AgentInfo(nses)]
          BY DEF TypeOK
        <5>2. QED
          BY <3>1, <5>1, AgentInfoGrows
      <4>2. [agents[a] EXCEPT !.sessions = Put(agents[a].sessions, seq, nses')] \in AgentInfo(nses')
        BY <1>2, <2>3, <3>1, <4>1, AgentInfoUpdates
      <4>3. agents' = [agents EXCEPT ![a] = [agents[a] EXCEPT !.sessions = Put(agents[a].sessions, seq, nses')]]
        BY <2>1, <2>3, <3>1
      <4>4. QED
        BY <2>3, <4>1, <4>2, <4>3
    <3>6. r2a' \subseteq R2A
      <4>1. Msg("CONNECT", a, svc[h].port, seq) \in R2A
        BY <1>1, <1>2, <3>2 DEF Msg, R2A, ServiceInfo
      <4>2. QED
        BY <2>1, <2>3, <4>1 DEF TypeOK
    <3>7. pending \subseteq (1..nsvc) \X (1..nses')
      BY <3>1 DEF TypeOK
    <3>8. UNCHANGED <<strand, nagents, nsvc>>
      BY <2>1, <2>3
    <3>9. QED
      BY <1>4, <3>1, <3>3, <3>4, <3>5, <3>6, <3>7, <3>8 DEF TypeOK
  <2>4. QED
    BY <2>2, <2>3
<1>7. QED
  BY <1>5, <1>6

(* An event posted by a pool thread keeps the tables in shape. *)
LEMMA UserEventType ==
    ASSUME TypeOK, NEW h \in ServiceIds, NEW id \in UserIds,
           UserSends(h, id) \/ UserLeaves(h, id)
    PROVE  TypeOK'
<1>1. h \in 1..nsvc /\ svc[h] \in ServiceInfo(nses) /\ id \in DOMAIN svc[h].conns
  BY DEF UserSends, UserLeaves, RunningServer, TypeOK
<1>2. \A op \in {"recv", "disconnect"} :
         [strand EXCEPT ![h] = Append(strand[h], [op |-> op, seq |-> id])] \in [1..nsvc -> Seq(Work)]
  <2>1. strand[h] \in Seq(Work) /\ strand \in [1..nsvc -> Seq(Work)]
    BY <1>1 DEF TypeOK
  <2>2. \A op \in {"recv", "disconnect"} : [op |-> op, seq |-> id] \in Work
    BY ConstantsAssumption DEF Work, UserIds
  <2>3. \A op \in {"recv", "disconnect"} : Append(strand[h], [op |-> op, seq |-> id]) \in Seq(Work)
    BY <2>1, <2>2
  <2>4. QED
    BY <2>1, <2>3
<1>3. CASE UserSends(h, id)
  <2>1. strand' = [strand EXCEPT ![h] = Append(strand[h], [op |-> "recv", seq |-> id])]
        /\ UNCHANGED <<agents, services, svc, ses, pending, lost, claim, r2a, counts, crashed>>
    BY <1>3 DEF UserSends
  <2>2. QED
    BY <1>2, <2>1 DEF TypeOK, counts
<1>4. CASE UserLeaves(h, id)
  <2>1. /\ strand' = [strand EXCEPT ![h] = Append(strand[h], [op |-> "disconnect", seq |-> id])]
        /\ svc' = [svc EXCEPT ![h] = [svc[h] EXCEPT !.conns = [svc[h].conns EXCEPT ![id] = "shut"]]]
        /\ UNCHANGED <<agents, services, ses, pending, lost, claim, r2a, counts, crashed>>
    BY <1>4 DEF UserLeaves
  <2>2. svc' \in [1..nsvc -> ServiceInfo(nses)]
    <3>1. svc \in [1..nsvc -> ServiceInfo(nses)] /\ "shut" \in ConnState
      BY DEF TypeOK, ConnState
    <3>2. QED
      BY <1>1, <2>1, <3>1, ConnUpdate
  <2>3. QED
    BY <1>2, <2>1, <2>2 DEF TypeOK, counts
<1>5. QED
  BY <1>3, <1>4

(* The work at the head of a strand, and what is left behind it. *)
LEMMA HeadOfStrand ==
    ASSUME TypeOK, NEW h, NEW op, NextIs(h, op)
    PROVE  /\ h \in 1..nsvc /\ svc[h] \in ServiceInfo(nses)
           /\ Head(strand[h]) \in Work
           /\ Popped(h) \in [1..nsvc -> Seq(Work)]
<1>1. h \in 1..nsvc /\ svc[h] \in ServiceInfo(nses)
  BY DEF NextIs, RunningServer, TypeOK
<1>2. strand[h] \in Seq(Work) /\ strand[h] # << >> /\ strand \in [1..nsvc -> Seq(Work)]
  BY <1>1 DEF NextIs, TypeOK
<1>3. Head(strand[h]) \in Work /\ Tail(strand[h]) \in Seq(Work)
  BY <1>2
<1>4. QED
  BY <1>1, <1>2, <1>3 DEF Popped

(* __OnUserRecv keeps the tables in shape. *)
LEMMA OnUserRecvType ==
    ASSUME TypeOK, NEW h \in ServiceIds, OnUserRecv(h)
    PROVE  TypeOK'
<1> DEFINE id == Head(strand[h]).seq
           s == svc[h].sessions[id]
<1>1. h \in 1..nsvc /\ svc[h] \in ServiceInfo(nses) /\ Popped(h) \in [1..nsvc -> Seq(Work)]
  BY HeadOfStrand DEF OnUserRecv
<1>2. strand' = Popped(h) /\ UNCHANGED <<agents, services, svc, ses, lost, claim, counts, crashed>>
  BY DEF OnUserRecv
<1>3. CASE id \in DOMAIN svc[h].sessions
  <2>1. id \in UserIds /\ s \in 1..nses
    BY <1>1, <1>3, SessionOfService
  <2>2. r2a' = r2a \cup {Msg("DATA", ses[s].agent_id, svc[h].port, id)} /\ pending' = pending \cup {<<h, s>>}
    BY <1>3 DEF OnUserRecv, Route
  <2>3. Msg("DATA", ses[s].agent_id, svc[h].port, id) \in R2A
    <3>1. ses[s].agent_id \in AgentIds
      BY <2>1 DEF TypeOK, Session
    <3>2. svc[h].port \in Ports
      BY <1>1 DEF ServiceInfo
    <3>3. QED
      BY <2>1, <3>1, <3>2 DEF Msg, R2A
  <2>4. pending' \subseteq (1..nsvc) \X (1..nses)
    <3>1. pending \subseteq (1..nsvc) \X (1..nses)
      BY DEF TypeOK
    <3>2. QED
      BY <1>1, <2>1, <2>2, <3>1
  <2>5. QED
    BY <1>1, <1>2, <2>2, <2>3, <2>4 DEF TypeOK, counts
<1>4. CASE id \notin DOMAIN svc[h].sessions
  BY <1>1, <1>2, <1>4 DEF OnUserRecv, TypeOK, counts
<1>5. QED
  BY <1>3, <1>4

(* __OnUserDisconnect keeps the tables in shape. *)
LEMMA OnUserDisconnectType ==
    ASSUME TypeOK, NEW h \in ServiceIds, OnUserDisconnect(h)
    PROVE  TypeOK'
<1> DEFINE id == Head(strand[h]).seq
           gone == [svc EXCEPT ![h].conns = Drop(@, {id})]
           s == svc[h].sessions[id]
           r == [ses[s] EXCEPT !.user_disconnected = TRUE]
<1>1. h \in 1..nsvc /\ svc[h] \in ServiceInfo(nses) /\ Popped(h) \in [1..nsvc -> Seq(Work)]
  BY HeadOfStrand DEF OnUserDisconnect
<1>2. gone \in [1..nsvc -> ServiceInfo(nses)]
  <2>1. [svc[h] EXCEPT !.conns = Drop(svc[h].conns, {id})] \in ServiceInfo(nses)
    BY <1>1, ServiceInfoUpdates
  <2>2. QED
    BY <1>1, <2>1 DEF TypeOK
<1>3. UNCHANGED <<services, pending, lost, claim, counts, crashed>>
  BY DEF OnUserDisconnect
<1>4. CASE id \in DOMAIN svc[h].sessions
  <2>1. id \in UserIds /\ s \in 1..nses
    BY <1>1, <1>4, SessionOfService
  <2>2. /\ ses' = [ses EXCEPT ![s] = r]
        /\ r2a' = (IF r.tunnel_hard_disconnected THEN r2a
                   ELSE r2a \cup {Msg("DISCONNECT", r.agent_id, svc[h].port, id)})
        /\ CleanSession(h, r, gone, Popped(h))
    BY <1>4 DEF OnUserDisconnect
  <2>3. r \in Session
    BY <2>1, SessionUpdates DEF TypeOK
  <2>4. ses' \in [1..nses -> Session]
    BY <2>2, <2>3 DEF TypeOK
  <2>5. r2a' \subseteq R2A
    <3>1. r.agent_id \in AgentIds
      BY <2>3 DEF Session
    <3>2. svc[h].port \in Ports
      BY <1>1 DEF ServiceInfo
    <3>3. Msg("DISCONNECT", r.agent_id, svc[h].port, id) \in R2A
      BY <2>1, <3>1, <3>2 DEF Msg, R2A
    <3>4. QED
      BY <2>2, <3>3 DEF TypeOK
  <2>6. /\ svc' \in [1..nsvc -> ServiceInfo(nses)]
        /\ strand' \in [1..nsvc -> Seq(Work)]
        /\ DOMAIN agents' = DOMAIN agents
        /\ agents' \in [DOMAIN agents -> AgentInfo(nses)]
    <3>1. agents \in [DOMAIN agents -> AgentInfo(nses)]
      BY DEF TypeOK
    <3>2. QED
      BY <1>1, <1>2, <2>2, <2>3, <3>1, CleanSessionType
  <2>7. QED
    BY <1>3, <2>4, <2>5, <2>6 DEF TypeOK, counts
<1>5. CASE id \notin DOMAIN svc[h].sessions
  <2>1. svc' = gone /\ strand' = Popped(h) /\ UNCHANGED <<ses, r2a, agents>>
    BY <1>5 DEF OnUserDisconnect
  <2>2. QED
    BY <1>1, <1>2, <1>3, <2>1 DEF TypeOK, counts
<1>6. QED
  BY <1>4, <1>5

(* RawTcpServer::__Close keeps the tables in shape. *)
LEMMA CloseConnType ==
    ASSUME TypeOK, NEW h \in ServiceIds, CloseConn(h)
    PROVE  TypeOK'
<1> DEFINE id == Head(strand[h]).seq
<1>1. h \in 1..nsvc /\ svc[h] \in ServiceInfo(nses) /\ Popped(h) \in [1..nsvc -> Seq(Work)]
  BY HeadOfStrand DEF CloseConn
<1>2. strand' = Popped(h)
      /\ UNCHANGED <<agents, services, ses, pending, lost, claim, r2a, counts, crashed>>
  BY DEF CloseConn
<1>3. svc' \in [1..nsvc -> ServiceInfo(nses)]
  <2>1. CASE id \in DOMAIN svc[h].conns
    <3>1. svc' = [svc EXCEPT ![h] = [svc[h] EXCEPT !.conns = [svc[h].conns EXCEPT ![id] = "closed"]]]
      BY <2>1 DEF CloseConn
    <3>2. svc \in [1..nsvc -> ServiceInfo(nses)] /\ "closed" \in ConnState
      BY DEF TypeOK, ConnState
    <3>3. QED
      BY <1>1, <2>1, <3>1, <3>2, ConnUpdate
  <2>2. CASE id \notin DOMAIN svc[h].conns
    BY <2>2 DEF CloseConn, TypeOK
  <2>3. QED
    BY <2>1, <2>2
<1>4. QED
  BY <1>1, <1>2, <1>3 DEF TypeOK, counts

(* A send callback keeps the tables in shape. *)
LEMMA SendDoneType ==
    ASSUME TypeOK, NEW h \in ServiceIds, NEW s \in SessionIds, SendDone(h, s)
    PROVE  TypeOK'
<1>1. h \in 1..nsvc /\ s \in 1..nses
  BY DEF SendDone, TypeOK
<1>2. ses[s] \in Session
  BY <1>1 DEF TypeOK
<1>3. CleanSession(h, ses[s], svc, strand) /\ pending' \subseteq pending
      /\ UNCHANGED <<services, ses, lost, claim, r2a, counts, crashed>>
  BY DEF SendDone
<1>4. /\ svc' \in [1..nsvc -> ServiceInfo(nses)]
      /\ strand' \in [1..nsvc -> Seq(Work)]
      /\ DOMAIN agents' = DOMAIN agents
      /\ agents' \in [DOMAIN agents -> AgentInfo(nses)]
  BY <1>1, <1>2, <1>3, CleanSessionType DEF TypeOK
<1>5. QED
  BY <1>3, <1>4 DEF TypeOK, counts

(* Every step of the relay keeps the tables in shape. *)
LEMMA TypeOKInductive ==
    ASSUME TypeOK, [Next]_vars
    PROVE  TypeOK'
<1>1. ASSUME NEW a \in AgentIds, AgentLost(a)
      PROVE  TypeOK'
  BY <1>1 DEF AgentLost, TypeOK, counts
<1>2. ASSUME NEW h \in ServiceIds, LateUserEvent(h)
      PROVE  TypeOK'
  BY <1>2 DEF LateUserEvent, TypeOK, counts
<1>3. CASE UNCHANGED vars
  BY <1>3 DEF vars, TypeOK
<1>4. CASE AgentStep
  BY <1>1, <1>4, OnAgentConnectType, OnAgentDisconnectType, BindType, UnbindType,
     DataType, DisconnectType, SessionConnType DEF AgentStep
<1>5. CASE UserStep
  BY <1>2, <1>5, OnUserConnectType, UserEventType, OnUserRecvType, OnUserDisconnectType,
     CloseConnType, SendDoneType DEF UserStep, RunStrand
<1>6. QED
  BY <1>3, <1>4, <1>5 DEF Next

(* The empty tables of the constructor have their shape. *)
LEMMA InitialType ==
    ASSUME Init PROVE TypeOK
<1>1. << >> \in [{} -> AgentInfo(nses)] /\ << >> \in [{} -> 1..nsvc] /\ << >> \in [{} -> Ports \X UserIds]
  OBVIOUS
<1>2. 1..nsvc = {} /\ 1..nses = {} /\ DOMAIN << >> = {}
  BY DEF Init
<1>3. << >> \in [{} -> ServiceInfo(nses)] /\ << >> \in [{} -> Session] /\ << >> \in [{} -> Seq(Work)]
  OBVIOUS
<1>4. QED
  BY <1>1, <1>2, <1>3, ConstantsAssumption DEF Init, TypeOK

(* Every handler of the relay keeps its tables well formed: session and      *)
(* service pointers always refer to objects that were made, and every user   *)
(* and agent number is one that the servers handed out.                      *)
THEOREM TypeCorrect == Spec => []TypeOK
<1>1. Init => TypeOK
  BY InitialType
<1>2. TypeOK /\ [Next]_vars => TypeOK'
  BY TypeOKInductive
<1>3. QED
  BY <1>1, <1>2, PTL DEF Spec

----------------------------------------------------------------------------
(* The registry: services_, ServiceInfo::agents_, AgentInfo::ports_ and the  *)
(* listeners.  The two invariants are inductive together: a service is shut  *)
(* exactly when its last agent goes, and only ListenerInv knows that a port  *)
(* absent from services_ has no listener when BIND starts a new one.  A new  *)
(* agent overwrites nothing because agent numbers are handed out in order.   *)
AgentsNumbered == DOMAIN agents \subseteq 1..nagents
RegistryIInv == TypeOK /\ AgentsNumbered /\ RegistryInv /\ ListenerInv

(* What withdrawing an agent does to the fields of its service. *)
LEMMA RemoveAgentFacts ==
    ASSUME NEW n, NEW s \in ServiceInfo(n), NEW a
    PROVE  /\ RemoveAgent(s, a).port = s.port
           /\ RemoveAgent(s, a).agents = s.agents \ {a}
           /\ RemoveAgent(s, a).inited <=> (s.inited /\ s.agents \ {a} # {})
           /\ RemoveAgent(s, a).next_seq = s.next_seq
<1> DEFINE t == [s EXCEPT !.agents = s.agents \ {a}]
<1>1. /\ t.port = s.port /\ t.agents = s.agents \ {a} /\ t.inited = s.inited
      /\ t.next_seq = s.next_seq /\ s.inited \in BOOLEAN
  BY DEF ServiceInfo
<1>2. t \in [port : Ports, agents : SUBSET AgentIds, sessions : Map(UserIds, 1..n),
             inited : BOOLEAN, next_seq : 0..MaxUsers, conns : Map(UserIds, ConnState)]
  BY DEF ServiceInfo
<1>3. /\ CloseServer(t).port = t.port /\ CloseServer(t).agents = t.agents
      /\ CloseServer(t).inited = FALSE /\ CloseServer(t).next_seq = t.next_seq
  BY <1>2 DEF CloseServer
<1>4. RemoveAgent(s, a) = IF t.agents = {} THEN CloseServer(t) ELSE t
  BY DEF RemoveAgent
<1> HIDE DEF t
<1>5. QED
  BY <1>1, <1>3, <1>4

(* Steps that neither add nor remove services and take nothing from agents.  *)
RegistryKept ==
    /\ services' = services
    /\ DOMAIN svc' = DOMAIN svc
    /\ \A h \in DOMAIN svc : /\ svc'[h].port = svc[h].port
                             /\ svc'[h].agents = svc[h].agents
                             /\ svc'[h].inited = svc[h].inited
    /\ \A a \in DOMAIN agents : a \in DOMAIN agents' /\ agents[a].ports \subseteq agents'[a].ports

(* No sequence number is handed out to a user. *)
SeqKept == \A h \in DOMAIN svc : h \in DOMAIN svc' /\ svc'[h].next_seq = svc[h].next_seq

(* A step that keeps ports, agents and listeners keeps the two invariants. *)
LEMMA RegistryFrame ==
    ASSUME RegistryInv, ListenerInv, RegistryKept
    PROVE  RegistryInv' /\ ListenerInv'
<1>1. RegistryInv'
  BY DEF RegistryInv, RegistryKept
<1>2. ListenerInv'
  BY DEF ListenerInv, RegistryKept
<1>3. QED
  BY <1>1, <1>2

(* __CleanSession touches neither ports, nor agents of services, nor listeners. *)
LEMMA CleanSessionFrame ==
    ASSUME NEW h \in 1..nsvc, NEW r,
           NEW S \in [1..nsvc -> ServiceInfo(nses)], NEW Q,
           agents \in [DOMAIN agents -> AgentInfo(nses)],
           CleanSession(h, r, S, Q)
    PROVE  /\ DOMAIN svc' = 1..nsvc
           /\ \A k \in 1..nsvc : /\ svc'[k].port = S[k].port
                              /\ svc'[k].agents = S[k].agents
                              /\ svc'[k].inited = S[k].inited
                              /\ svc'[k].next_seq = S[k].next_seq
           /\ \A a \in DOMAIN agents : a \in DOMAIN agents' /\ agents'[a].ports = agents[a].ports
<1>1. CASE Finished(r)
  <2>1. svc' = [S EXCEPT ![h] = [S[h] EXCEPT !.sessions = Drop(S[h].sessions, {r.seq})]]
    BY <1>1 DEF CleanSession
  <2>2. agents' = [a \in DOMAIN agents |->
                     IF a = r.agent_id
                     THEN [agents[a] EXCEPT !.sessions = Drop(agents[a].sessions, {r.seq})]
                     ELSE agents[a]]
    BY <1>1 DEF CleanSession
  <2>3. \A X : LET t == [S[h] EXCEPT !.sessions = X] IN
               /\ t.port = S[h].port /\ t.agents = S[h].agents
               /\ t.inited = S[h].inited /\ t.next_seq = S[h].next_seq
    BY DEF ServiceInfo
  <2>4. \A a \in DOMAIN agents : \A X : [agents[a] EXCEPT !.sessions = X].ports = agents[a].ports
    BY DEF AgentInfo
  <2>5. QED
    BY <2>1, <2>2, <2>3, <2>4
<1>2. CASE ~Finished(r)
  BY <1>2 DEF CleanSession
<1>3. QED
  BY <1>1, <1>2

(* __OnAgentDisconnect withdraws the agent everywhere and stops what it leaves empty. *)
LEMMA OnAgentDisconnectRegistry ==
    ASSUME RegistryIInv, NEW a \in AgentIds, OnAgentDisconnect(a)
    PROVE  RegistryInv' /\ ListenerInv'
<1> DEFINE live == agents[a].ports \cap DOMAIN services
           hit == {services[p] : p \in live}
<1>1. PICK seqs :
         /\ svc' = [h \in DOMAIN svc |->
                      IF h \in hit
                      THEN RemoveAgent([svc[h] EXCEPT !.sessions = Drop(svc[h].sessions, seqs)], a)
                      ELSE svc[h]]
         /\ services' = Drop(services, {p \in live : svc[services[p]].agents \ {a} = {}})
         /\ a \in DOMAIN agents
  BY DEF OnAgentDisconnect
<1>2. DOMAIN agents' = DOMAIN agents \ {a} /\ \A b \in DOMAIN agents' : agents'[b].ports = agents[b].ports
  <2>1. DOMAIN agents' = DOMAIN agents \ {a}
    BY DEF OnAgentDisconnect
  <2>2. ASSUME NEW b \in DOMAIN agents'
        PROVE  \E X : agents'[b] = [agents[b] EXCEPT !.sessions = X]
    BY DEF OnAgentDisconnect
  <2>3. \A b \in DOMAIN agents : agents[b] \in AgentInfo(nses)
    BY DEF RegistryIInv, TypeOK
  <2>4. \A b \in DOMAIN agents : \A X : [agents[b] EXCEPT !.sessions = X].ports = agents[b].ports
    BY <2>3 DEF AgentInfo
  <2>5. QED
    BY <2>1, <2>2, <2>4
<1>3. \A h \in hit : h \in DOMAIN svc =>
         /\ svc'[h].port = svc[h].port /\ svc'[h].agents = svc[h].agents \ {a}
         /\ svc'[h].inited <=> (svc[h].inited /\ svc[h].agents \ {a} # {})
  <2>1. SUFFICES ASSUME NEW h \in hit, h \in DOMAIN svc
                 PROVE  /\ svc'[h].port = svc[h].port /\ svc'[h].agents = svc[h].agents \ {a}
                        /\ svc'[h].inited <=> (svc[h].inited /\ svc[h].agents \ {a} # {})
    OBVIOUS
  <2> DEFINE t == [svc[h] EXCEPT !.sessions = Drop(svc[h].sessions, seqs)]
  <2>2. svc[h] \in ServiceInfo(nses)
    BY <2>1 DEF RegistryIInv, TypeOK
  <2>3. t \in ServiceInfo(nses)
    BY <2>2, ServiceInfoUpdates
  <2>4. t.port = svc[h].port /\ t.agents = svc[h].agents /\ t.inited = svc[h].inited
    BY <2>2 DEF ServiceInfo
  <2>5. svc'[h] = RemoveAgent(t, a)
    BY <1>1, <2>1
  <2> HIDE DEF t
  <2>6. QED
    BY <2>3, <2>4, <2>5, RemoveAgentFacts
<1>4. DOMAIN svc' = DOMAIN svc /\ \A h \in DOMAIN svc \ hit : svc'[h] = svc[h]
  BY <1>1
<1>5. \A p \in DOMAIN services : /\ services[p] \in DOMAIN svc /\ svc[services[p]].port = p
                                 /\ services[p] \in hit <=> p \in live
                                 /\ a \in svc[services[p]].agents => p \in live
  BY DEF RegistryIInv, RegistryInv
<1>6. \A p : p \in DOMAIN services' <=> p \in DOMAIN services /\ ~(p \in live /\ svc[services[p]].agents \ {a} = {})
  BY <1>1 DEF Drop
<1>7. \A p \in DOMAIN services' : services'[p] = services[p]
  BY <1>1 DEF Drop
<1> HIDE DEF live, hit
<1>8. RegistryInv'
  <2>1. SUFFICES ASSUME NEW p \in DOMAIN services'
                 PROVE  /\ services'[p] \in DOMAIN svc' /\ svc'[services'[p]].port = p
                        /\ svc'[services'[p]].agents # {}
                        /\ \A b \in svc'[services'[p]].agents : b \in DOMAIN agents' /\ p \in agents'[b].ports
    BY DEF RegistryInv
  <2> DEFINE h == services[p]
  <2>2. p \in DOMAIN services /\ services'[p] = h /\ h \in DOMAIN svc /\ svc[h].port = p
        /\ svc[h].agents # {} /\ \A b \in svc[h].agents : b \in DOMAIN agents /\ p \in agents[b].ports
    BY <1>5, <1>6, <1>7 DEF RegistryIInv, RegistryInv
  <2>3. svc'[h].port = p /\ svc'[h].agents = svc[h].agents \ {a} /\ svc'[h].agents # {}
    <3>1. CASE p \in live
      BY <1>3, <1>5, <1>6, <2>2, <3>1
    <3>2. CASE p \notin live
      BY <1>4, <1>5, <2>2, <3>2
    <3>3. QED
      BY <3>1, <3>2
  <2>4. \A b \in svc'[h].agents : b \in DOMAIN agents' /\ p \in agents'[b].ports
    BY <1>2, <2>2, <2>3
  <2>5. QED
    BY <1>4, <2>2, <2>3, <2>4
<1>9. ListenerInv'
  <2>1. SUFFICES ASSUME NEW h \in DOMAIN svc
                 PROVE  svc'[h].inited <=> svc'[h].port \in DOMAIN services' /\ services'[svc'[h].port] = h
    BY <1>4 DEF ListenerInv
  <2> DEFINE q == svc[h].port
  <2>2. svc[h].inited <=> q \in DOMAIN services /\ services[q] = h
    BY DEF RegistryIInv, ListenerInv
  <2>3. svc[h].inited \in BOOLEAN /\ svc'[h].port = q
    <3>1. svc[h].inited \in BOOLEAN
      BY DEF RegistryIInv, TypeOK, ServiceInfo
    <3>2. svc'[h].port = q
      BY <1>3, <1>4
    <3>3. QED
      BY <3>1, <3>2
  <2>4. CASE h \in hit
    <3>1. PICK p \in live : services[p] = h
      BY <2>4 DEF hit
    <3>2. p \in DOMAIN services
      BY DEF live
    <3>3. p = q /\ q \in live /\ q \in DOMAIN services /\ services[q] = h
      BY <1>5, <3>1, <3>2
    <3>4. svc'[h].inited <=> svc[h].agents \ {a} # {}
      BY <1>3, <2>2, <2>4, <3>3
    <3>5. QED
      BY <1>6, <1>7, <2>3, <3>3, <3>4
  <2>5. CASE h \notin hit
    <3>1. svc'[h] = svc[h]
      BY <1>4, <2>5
    <3>2. q \in DOMAIN services /\ services[q] = h => q \notin live
      BY <1>5, <2>5
    <3>3. QED
      BY <1>6, <1>7, <2>2, <2>3, <3>1, <3>2
  <2>6. QED
    BY <2>4, <2>5
<1>10. QED
  BY <1>8, <1>9

(* An agent joins a service: the service's table and the agent's agree.      *)
LEMMA BindRegistry ==
    ASSUME RegistryIInv, NEW a \in AgentIds, NEW p \in Ports, Bind(a, p)
    PROVE  RegistryInv' /\ ListenerInv'
<1>1. \A b \in DOMAIN agents : agents[b] \in AgentInfo(nses)
  BY DEF RegistryIInv, TypeOK
<1>2. \A h \in DOMAIN svc : svc[h] \in ServiceInfo(nses)
  BY DEF RegistryIInv, TypeOK
<1>3. DOMAIN svc = 1..nsvc /\ nsvc \in Nat
  <2>1. DOMAIN svc = 1..nsvc
    BY DEF RegistryIInv, TypeOK
  <2>2. nsvc \in 0..MaxServices
    BY DEF RegistryIInv, TypeOK
  <2>3. QED
    BY <2>1, <2>2, ConstantsAssumption
<1>4. a \in DOMAIN agents
  BY DEF Bind
<1> DEFINE noted == [agents EXCEPT ![a] = [agents[a] EXCEPT !.ports = agents[a].ports \cup {p}]]
<1>5. /\ DOMAIN noted = DOMAIN agents /\ p \in noted[a].ports
      /\ \A b \in DOMAIN agents : agents[b].ports \subseteq noted[b].ports
  BY <1>1, <1>4 DEF AgentInfo
<1>6. CASE p \in DOMAIN services
  <2> DEFINE k == services[p]
  <2>1. /\ svc' = [svc EXCEPT ![k] = [svc[k] EXCEPT !.agents = svc[k].agents \cup {a}]]
        /\ agents' = noted /\ services' = services
    BY <1>6 DEF Bind
  <2>2. k \in DOMAIN svc /\ svc[k].port = p
    BY <1>6 DEF RegistryIInv, RegistryInv
  <2>3. /\ svc'[k].port = p /\ svc'[k].agents = svc[k].agents \cup {a}
        /\ svc'[k].inited = svc[k].inited
    BY <1>2, <2>1, <2>2 DEF ServiceInfo
  <2>4. DOMAIN svc' = DOMAIN svc /\ \A h \in DOMAIN svc : h # k => svc'[h] = svc[h]
    BY <2>1
  <2> HIDE DEF k, noted
  <2>5. RegistryInv'
    <3>1. SUFFICES ASSUME NEW q \in DOMAIN services, NEW h, h = services[q]
                   PROVE  /\ h \in DOMAIN svc' /\ svc'[h].port = q /\ svc'[h].agents # {}
                          /\ \A b \in svc'[h].agents : b \in DOMAIN agents' /\ q \in agents'[b].ports
      BY <2>1 DEF RegistryInv
    <3>2. /\ h \in DOMAIN svc /\ svc[h].port = q /\ svc[h].agents # {}
          /\ \A b \in svc[h].agents : b \in DOMAIN agents /\ q \in agents[b].ports
      BY <3>1 DEF RegistryIInv, RegistryInv
    <3>3. CASE h = k
      BY <1>4, <1>5, <2>1, <2>2, <2>3, <2>4, <3>2, <3>3
    <3>4. CASE h # k
      BY <1>5, <2>1, <2>4, <3>2, <3>4
    <3>5. QED
      BY <3>3, <3>4
  <2>6. ListenerInv'
    BY <2>1, <2>2, <2>3, <2>4 DEF RegistryIInv, ListenerInv
  <2>7. QED
    BY <2>5, <2>6
<1>7. CASE p \notin DOMAIN services \cup BusyPorts
  <2> DEFINE k == nsvc + 1
             fresh == [port |-> p, agents |-> {a}, sessions |-> << >>,
                       inited |-> TRUE, next_seq |-> 0, conns |-> << >>]
  <2>1. svc' = Put(svc, k, fresh) /\ agents' = noted /\ services' = Put(services, p, k)
    BY <1>7 DEF Bind
  <2>2. k \notin DOMAIN svc
    BY <1>3
  <2>3. /\ DOMAIN svc' = DOMAIN svc \cup {k} /\ svc'[k] = fresh
        /\ \A h \in DOMAIN svc : svc'[h] = svc[h]
    BY <2>1, <2>2 DEF Put
  <2>4. /\ DOMAIN services' = DOMAIN services \cup {p} /\ services'[p] = k
        /\ \A q \in DOMAIN services : services'[q] = services[q]
    BY <1>7, <2>1 DEF Put
  <2>5. fresh.port = p /\ fresh.agents = {a} /\ fresh.inited = TRUE
    OBVIOUS
  <2>6. \A q \in DOMAIN services : services[q] \in DOMAIN svc
    BY DEF RegistryIInv, RegistryInv
  <2> HIDE DEF k, fresh, noted
  <2>7. RegistryInv'
    <3>1. SUFFICES ASSUME NEW q \in DOMAIN services', NEW h, h = services'[q]
                   PROVE  /\ h \in DOMAIN svc' /\ svc'[h].port = q /\ svc'[h].agents # {}
                          /\ \A b \in svc'[h].agents : b \in DOMAIN agents' /\ q \in agents'[b].ports
      BY DEF RegistryInv
    <3>2. CASE q = p
      BY <1>4, <1>5, <2>1, <2>3, <2>4, <2>5, <3>1, <3>2
    <3>3. CASE q \in DOMAIN services
      <4>1. /\ h \in DOMAIN svc /\ svc[h].port = q /\ svc[h].agents # {}
            /\ \A b \in svc[h].agents : b \in DOMAIN agents /\ q \in agents[b].ports
        BY <2>4, <3>1, <3>3 DEF RegistryIInv, RegistryInv
      <4>2. QED
        BY <1>5, <2>1, <2>3, <4>1
    <3>4. QED
      BY <2>4, <3>2, <3>3
  <2>8. ListenerInv'
    <3>1. SUFFICES ASSUME NEW h \in DOMAIN svc'
                   PROVE  svc'[h].inited <=> svc'[h].port \in DOMAIN services' /\ services'[svc'[h].port] = h
      BY DEF ListenerInv
    <3>2. CASE h = k
      BY <2>3, <2>4, <2>5, <3>2
    <3>3. CASE h \in DOMAIN svc
      <4>1. svc[h].inited <=> svc[h].port \in DOMAIN services /\ services[svc[h].port] = h
        BY <3>3 DEF RegistryIInv, ListenerInv
      <4>2. svc'[h] = svc[h] /\ h # k
        BY <2>2, <2>3, <3>3
      <4>3. QED
        BY <1>7, <2>4, <4>1, <4>2
    <3>4. QED
      BY <2>3, <3>2, <3>3
  <2>9. QED
    BY <2>7, <2>8
<1>8. CASE p \in BusyPorts \ DOMAIN services
  BY <1>8 DEF Bind, RegistryIInv, RegistryInv, ListenerInv
<1>9. QED
  BY <1>6, <1>7, <1>8

(* A2R::UNBIND withdraws the agent from one port and stops it when empty. *)
LEMMA UnbindRegistry ==
    ASSUME RegistryIInv, NEW a \in AgentIds, NEW p \in Ports, Unbind(a, p)
    PROVE  RegistryInv' /\ ListenerInv'
<1>1. \A b \in DOMAIN agents : agents[b] \in AgentInfo(nses)
  BY DEF RegistryIInv, TypeOK
<1>2. \A h \in DOMAIN svc : svc[h] \in ServiceInfo(nses)
  BY DEF RegistryIInv, TypeOK
<1>3. a \in DOMAIN agents /\ agents' = [agents EXCEPT ![a] = [agents[a] EXCEPT !.ports = agents[a].ports \ {p}]]
  BY DEF Unbind
<1>4. /\ DOMAIN agents' = DOMAIN agents /\ agents'[a].ports = agents[a].ports \ {p}
      /\ \A b \in DOMAIN agents : b # a => agents'[b].ports = agents[b].ports
  BY <1>1, <1>3 DEF AgentInfo
<1>5. CASE p \in DOMAIN services
  <2> DEFINE k == services[p]
  <2>1. /\ svc' = [svc EXCEPT ![k] = RemoveAgent(svc[k], a)]
        /\ services' = IF svc[k].agents \ {a} = {} THEN Drop(services, {p}) ELSE services
    BY <1>5 DEF Unbind
  <2>2. k \in DOMAIN svc /\ svc[k].port = p /\ (svc[k].inited <=> TRUE)
    BY <1>5 DEF RegistryIInv, RegistryInv, ListenerInv
  <2>3. /\ svc'[k].port = p /\ svc'[k].agents = svc[k].agents \ {a}
        /\ svc'[k].inited <=> svc[k].agents \ {a} # {}
    BY <1>2, <2>1, <2>2, RemoveAgentFacts
  <2>4. DOMAIN svc' = DOMAIN svc /\ \A h \in DOMAIN svc : h # k => svc'[h] = svc[h]
    BY <2>1
  <2>5. \A q : q \in DOMAIN services' <=> q \in DOMAIN services /\ ~(q = p /\ svc[k].agents \ {a} = {})
    BY <2>1 DEF Drop
  <2>6. \A q \in DOMAIN services' : services'[q] = services[q]
    BY <2>1 DEF Drop
  <2>7. \A q \in DOMAIN services : services[q] \in DOMAIN svc /\ svc[services[q]].port = q /\ (services[q] = k => q = p)
    BY <2>2 DEF RegistryIInv, RegistryInv
  <2>8. RegistryInv'
    <3>1. SUFFICES ASSUME NEW q \in DOMAIN services', NEW h, h = services'[q]
                   PROVE  /\ h \in DOMAIN svc' /\ svc'[h].port = q /\ svc'[h].agents # {}
                          /\ \A b \in svc'[h].agents : b \in DOMAIN agents' /\ q \in agents'[b].ports
      BY DEF RegistryInv
    <3>2. /\ q \in DOMAIN services /\ h = services[q]
          /\ h \in DOMAIN svc /\ svc[h].port = q /\ svc[h].agents # {}
          /\ \A b \in svc[h].agents : b \in DOMAIN agents /\ q \in agents[b].ports
      BY <2>5, <2>6, <3>1 DEF RegistryIInv, RegistryInv
    <3>3. CASE q = p
      BY <1>4, <2>3, <2>4, <2>5, <3>2, <3>3
    <3>4. CASE q # p
      <4>1. h # k
        BY <2>7, <3>2, <3>4
      <4>2. svc'[h] = svc[h] /\ h \in DOMAIN svc'
        BY <2>4, <3>2, <4>1
      <4>3. \A b \in DOMAIN agents : q \in agents[b].ports => q \in agents'[b].ports
        BY <1>4, <3>4
      <4>4. QED
        BY <1>4, <3>2, <4>2, <4>3
    <3>5. QED
      BY <3>3, <3>4
  <2>9. ListenerInv'
    <3>1. SUFFICES ASSUME NEW h \in DOMAIN svc
                   PROVE  svc'[h].inited <=> svc'[h].port \in DOMAIN services' /\ services'[svc'[h].port] = h
      BY <2>4 DEF ListenerInv
    <3>2. CASE h = k
      BY <1>5, <2>3, <2>5, <2>6, <3>2
    <3>3. CASE h # k
      <4>1. svc[h].inited <=> svc[h].port \in DOMAIN services /\ services[svc[h].port] = h
        BY DEF RegistryIInv, ListenerInv
      <4>2. svc'[h] = svc[h]
        BY <2>4, <3>3
      <4>3. QED
        BY <2>5, <2>6, <3>3, <4>1, <4>2
    <3>4. QED
      BY <3>2, <3>3
  <2>10. QED
    BY <2>8, <2>9
<1>6. CASE p \notin DOMAIN services
  <2>1. svc' = svc /\ services' = services
    BY <1>6 DEF Unbind
  <2>2. ListenerInv'
    BY <2>1 DEF RegistryIInv, ListenerInv
  <2>3. \A q \in DOMAIN services : \A b \in DOMAIN agents : q \in agents[b].ports => q \in agents'[b].ports
    BY <1>4, <1>6
  <2>4. RegistryInv'
    BY <1>4, <2>1, <2>3 DEF RegistryIInv, RegistryInv
  <2>5. QED
    BY <2>2, <2>4
<1>7. QED
  BY <1>5, <1>6

(* The remaining steps leave the registry as it is: they change sessions,    *)
(* connections and strands, or add an agent or a port to agents_.            *)
LEMMA OnAgentConnectKept ==
    ASSUME RegistryIInv, OnAgentConnect
    PROVE  RegistryKept /\ SeqKept
<1>1. nagents + 1 \notin DOMAIN agents
  <2>1. nagents \in 0..MaxAgents
    BY DEF RegistryIInv, TypeOK
  <2>2. QED
    BY <2>1, ConstantsAssumption DEF RegistryIInv, AgentsNumbered
<1>2. services' = services /\ svc' = svc
  BY DEF OnAgentConnect
<1>3. \A a \in DOMAIN agents : a \in DOMAIN agents' /\ agents'[a] = agents[a]
  BY <1>1 DEF OnAgentConnect, Put
<1>4. QED
  BY <1>2, <1>3 DEF RegistryKept, SeqKept

(* A2R::SESSION only adds a port to an agent that is connected. *)
LEMMA SessionConnKept ==
    ASSUME RegistryIInv, NEW a \in AgentIds, NEW p \in Ports, NEW id \in UserIds,
           SessionConn(a, p, id)
    PROVE  RegistryKept /\ SeqKept
<1> DEFINE noted == [agents EXCEPT ![a].ports = @ \cup {p}]
           h == services[p]
<1>1. \A b \in DOMAIN agents : agents[b] \in AgentInfo(nses)
  BY DEF RegistryIInv, TypeOK
<1>2. \A k \in DOMAIN svc : svc[k] \in ServiceInfo(nses)
  BY DEF RegistryIInv, TypeOK
<1>g. CASE a \notin DOMAIN agents
  BY <1>g, SessionConnGone DEF RegistryKept, SeqKept
<1> SUFFICES ASSUME a \in DOMAIN agents
             PROVE  RegistryKept /\ SeqKept
  BY <1>g
<1>3. services' = services
  BY DEF SessionConn
<1>4. noted = [agents EXCEPT ![a] = [agents[a] EXCEPT !.ports = agents[a].ports \cup {p}]]
  OBVIOUS
<1>5. /\ DOMAIN noted = DOMAIN agents
      /\ \A b \in DOMAIN agents : noted[b] \in [ports : SUBSET (Ports \cup {p}), sessions : Map(UserIds, 1..nses)]
      /\ \A b \in DOMAIN agents : agents[b].ports \subseteq noted[b].ports
  BY <1>1, <1>3, <1>4 DEF AgentInfo
<1>6. \A b \in DOMAIN agents : \A X : [noted[b] EXCEPT !.sessions = X].ports = noted[b].ports
  BY <1>5
<1>7. CASE p \notin DOMAIN services
  <2>1. agents' = noted /\ svc' = svc
    BY <1>7 DEF SessionConn
  <2>2. QED
    BY <1>3, <1>5, <2>1 DEF RegistryKept, SeqKept
<1>8. CASE p \in DOMAIN services /\ a \notin DOMAIN svc[h].sessions
  <2>1. /\ svc' = [svc EXCEPT ![h] = [svc[h] EXCEPT !.sessions = Put(svc[h].sessions, id, nses + 1)]]
        /\ agents' = [noted EXCEPT ![a] = [noted[a] EXCEPT !.sessions = Put(noted[a].sessions, id, nses + 1)]]
    BY <1>8 DEF SessionConn
  <2>2. \A k \in DOMAIN svc : \A X : LET t == [svc[k] EXCEPT !.sessions = X] IN
           /\ t.port = svc[k].port /\ t.agents = svc[k].agents
           /\ t.inited = svc[k].inited /\ t.next_seq = svc[k].next_seq
    BY <1>2 DEF ServiceInfo
  <2> HIDE DEF noted, h
  <2>3. /\ DOMAIN svc' = DOMAIN svc
        /\ \A k \in DOMAIN svc : /\ svc'[k].port = svc[k].port /\ svc'[k].agents = svc[k].agents
                                 /\ svc'[k].inited = svc[k].inited /\ svc'[k].next_seq = svc[k].next_seq
    BY <2>1, <2>2
  <2>4. \A b \in DOMAIN agents : b \in DOMAIN agents' /\ agents[b].ports \subseteq agents'[b].ports
    BY <1>3, <1>5, <1>6, <2>1
  <2>5. QED
    BY <1>3, <2>3, <2>4 DEF RegistryKept, SeqKept
<1>9. CASE p \in DOMAIN services /\ a \in DOMAIN svc[h].sessions
  <2> DEFINE s == svc[h].sessions[a]
             old == ses[s].agent_id
  <2>1. /\ svc' = svc
        /\ agents' = [b \in DOMAIN agents |->
              IF b = a THEN [noted[b] EXCEPT !.sessions = Put(noted[b].sessions, id, s)]
              ELSE IF b = old THEN [noted[b] EXCEPT !.sessions = Drop(noted[b].sessions, {id})]
              ELSE noted[b]]
    BY <1>9 DEF SessionConn
  <2> HIDE DEF noted, s, old
  <2>2. \A b \in DOMAIN agents : b \in DOMAIN agents' /\ agents[b].ports \subseteq agents'[b].ports
    BY <1>3, <1>5, <1>6, <2>1
  <2>3. QED
    BY <1>3, <2>1, <2>2 DEF RegistryKept, SeqKept
<1>10. QED
  BY <1>7, <1>8, <1>9

(* A user gets a session and a sequence number; the registry does not change. *)
LEMMA OnUserConnectKept ==
    ASSUME RegistryIInv, NEW h \in ServiceIds, OnUserConnect(h)
    PROVE  RegistryKept
<1> DEFINE seq == svc[h].next_seq + 1
           conn == [svc EXCEPT ![h].next_seq = seq, ![h].conns = Put(@, seq, "open")]
<1>1. svc \in [1..nsvc -> ServiceInfo(nses)]
  BY DEF RegistryIInv, TypeOK
<1>2. h \in 1..nsvc /\ svc[h] \in ServiceInfo(nses)
  BY <1>1 DEF OnUserConnect, OnAccept, NextSeq, RunningServer
<1>3. conn = [svc EXCEPT ![h] = [svc[h] EXCEPT !.next_seq = seq, !.conns = Put(svc[h].conns, seq, "open")]]
  BY <1>1, <1>2 DEF ServiceInfo
<1>4. /\ DOMAIN conn = 1..nsvc
      /\ \A k \in 1..nsvc : k # h => conn[k] = svc[k]
      /\ conn[h] = [svc[h] EXCEPT !.next_seq = seq, !.conns = Put(svc[h].conns, seq, "open")]
  BY <1>1, <1>2, <1>3
<1>5. \A X, Y : LET t == [svc[h] EXCEPT !.next_seq = X, !.conns = Y] IN
         /\ t.port = svc[h].port /\ t.agents = svc[h].agents /\ t.inited = svc[h].inited
         /\ \A Z : LET u == [t EXCEPT !.sessions = Z] IN
               u.port = svc[h].port /\ u.agents = svc[h].agents /\ u.inited = svc[h].inited
  BY <1>2 DEF ServiceInfo
<1>6. DOMAIN svc = 1..nsvc
  BY <1>1
<1> HIDE DEF conn
<1>7. svc' = conn \/ \E X : svc' = [conn EXCEPT ![h] = [conn[h] EXCEPT !.sessions = X]]
  <2>1. CASE svc[h].agents = {}
    BY <2>1 DEF OnUserConnect, OnAccept, NextSeq, conn
  <2>2. CASE svc[h].agents # {}
    BY <2>2 DEF OnUserConnect, OnAccept, NextSeq, conn
  <2>3. QED
    BY <2>1, <2>2
<1>8. /\ DOMAIN svc' = 1..nsvc
      /\ \A k \in 1..nsvc : /\ svc'[k].port = svc[k].port
                            /\ svc'[k].agents = svc[k].agents
                            /\ svc'[k].inited = svc[k].inited
  <2>1. CASE svc' = conn
    <3>1. conn[h].port = svc[h].port /\ conn[h].agents = svc[h].agents /\ conn[h].inited = svc[h].inited
      BY <1>2, <1>4 DEF ServiceInfo
    <3>2. QED
      BY <1>4, <2>1, <3>1
  <2>2. ASSUME NEW X, svc' = [conn EXCEPT ![h] = [conn[h] EXCEPT !.sessions = X]]
        PROVE  /\ DOMAIN svc' = 1..nsvc
               /\ \A k \in 1..nsvc : /\ svc'[k].port = svc[k].port
                                     /\ svc'[k].agents = svc[k].agents
                                     /\ svc'[k].inited = svc[k].inited
    <3>1. DOMAIN svc' = 1..nsvc /\ \A k \in 1..nsvc : k # h => svc'[k] = svc[k]
      BY <1>4, <2>2
    <3>2. svc'[h] = [conn[h] EXCEPT !.sessions = X]
      BY <1>2, <1>4, <2>2
    <3>3. svc'[h].port = svc[h].port /\ svc'[h].agents = svc[h].agents /\ svc'[h].inited = svc[h].inited
      BY <1>4, <1>5, <3>2
    <3>4. QED
      BY <3>1, <3>3
  <2>3. QED
    BY <1>7, <2>1, <2>2
<1>9. \A a \in DOMAIN agents : a \in DOMAIN agents' /\ agents'[a].ports = agents[a].ports
  <2>1. \A b \in DOMAIN agents : \A X : [agents[b] EXCEPT !.sessions = X].ports = agents[b].ports
    BY DEF RegistryIInv, TypeOK, AgentInfo
  <2>2. agents' = agents \/ \E b, X : agents' = [agents EXCEPT ![b] = [agents[b] EXCEPT !.sessions = X]]
    BY DEF OnUserConnect, OnAccept, NextSeq
  <2>3. ASSUME NEW b, NEW X, agents' = [agents EXCEPT ![b] = [agents[b] EXCEPT !.sessions = X]]
        PROVE  \A a \in DOMAIN agents : a \in DOMAIN agents' /\ agents'[a].ports = agents[a].ports
    BY <2>1, <2>3
  <2>4. QED
    BY <2>2, <2>3
<1>10. services' = services
  BY DEF OnUserConnect, OnAccept, NextSeq
<1>11. QED
  BY <1>6, <1>8, <1>9, <1>10 DEF RegistryKept

(* A2R::DISCONNECT leaves the registry alone. *)
LEMMA DisconnectKept ==
    ASSUME RegistryIInv, NEW a \in AgentIds, NEW p \in Ports, NEW id \in UserIds, Disconnect(a, p, id)
    PROVE  RegistryKept /\ SeqKept
<1>1. svc \in [1..nsvc -> ServiceInfo(nses)] /\ agents \in [DOMAIN agents -> AgentInfo(nses)]
  BY DEF RegistryIInv, TypeOK
<1>2. p \in DOMAIN services /\ services' = services
  BY DEF Disconnect
<1>3. services[p] \in 1..nsvc
  BY <1>2 DEF RegistryIInv, TypeOK
<1>4. \E r : CleanSession(services[p], r, svc, strand)
  BY DEF Disconnect
<1>5. DOMAIN svc = 1..nsvc
  BY <1>1
<1>6. QED
  BY <1>1, <1>2, <1>3, <1>4, <1>5, CleanSessionFrame DEF RegistryKept, SeqKept

(* A send callback leaves the registry alone. *)
LEMMA SendDoneKept ==
    ASSUME RegistryIInv, NEW h \in ServiceIds, NEW s \in SessionIds, SendDone(h, s)
    PROVE  RegistryKept /\ SeqKept
<1>1. svc \in [1..nsvc -> ServiceInfo(nses)] /\ agents \in [DOMAIN agents -> AgentInfo(nses)]
  BY DEF RegistryIInv, TypeOK
<1>2. services' = services /\ <<h, s>> \in pending /\ CleanSession(h, ses[s], svc, strand)
  BY DEF SendDone
<1>3. h \in 1..nsvc
  BY <1>2 DEF RegistryIInv, TypeOK
<1>4. DOMAIN svc = 1..nsvc
  BY <1>1
<1>5. QED
  BY <1>1, <1>2, <1>3, <1>4, CleanSessionFrame DEF RegistryKept, SeqKept

(* __OnUserDisconnect leaves the registry alone. *)
LEMMA OnUserDisconnectKept ==
    ASSUME RegistryIInv, NEW h \in ServiceIds, OnUserDisconnect(h)
    PROVE  RegistryKept /\ SeqKept
<1> DEFINE id == Head(strand[h]).seq
           C == Drop(svc[h].conns, {id})
           gone == [svc EXCEPT ![h] = [svc[h] EXCEPT !.conns = C]]
<1>1. svc \in [1..nsvc -> ServiceInfo(nses)] /\ agents \in [DOMAIN agents -> AgentInfo(nses)]
  BY DEF RegistryIInv, TypeOK
<1>2. h \in 1..nsvc
  BY <1>1 DEF OnUserDisconnect, NextIs, RunningServer
<1>3. gone \in [1..nsvc -> ServiceInfo(nses)]
  <2>1. svc[h] \in ServiceInfo(nses)
    BY <1>1, <1>2
  <2>2. [svc[h] EXCEPT !.conns = C] \in ServiceInfo(nses)
    BY <2>1, ServiceInfoUpdates
  <2>3. QED
    BY <1>1, <1>2, <2>2
<1>4. /\ services' = services
      /\ \/ \E r : CleanSession(h, r, gone, Popped(h))
         \/ svc' = gone /\ agents' = agents
  BY DEF OnUserDisconnect
<1> HIDE DEF C
<1>5. \A k \in 1..nsvc : /\ gone[k].port = svc[k].port /\ gone[k].agents = svc[k].agents
                         /\ gone[k].inited = svc[k].inited /\ gone[k].next_seq = svc[k].next_seq
  <2>1. \A X : LET t == [svc[h] EXCEPT !.conns = X] IN
               /\ t.port = svc[h].port /\ t.agents = svc[h].agents
               /\ t.inited = svc[h].inited /\ t.next_seq = svc[h].next_seq
    BY <1>1, <1>2 DEF ServiceInfo
  <2>2. QED
    BY <1>1, <1>2, <2>1
<1>6. DOMAIN svc = 1..nsvc /\ DOMAIN gone = 1..nsvc
  BY <1>1
<1> HIDE DEF gone
<1>7. CASE svc' = gone /\ agents' = agents
  BY <1>4, <1>5, <1>6, <1>7 DEF RegistryKept, SeqKept
<1>8. ASSUME NEW r, CleanSession(h, r, gone, Popped(h))
      PROVE  RegistryKept /\ SeqKept
  <2>1. /\ DOMAIN svc' = 1..nsvc
        /\ \A k \in 1..nsvc : /\ svc'[k].port = gone[k].port /\ svc'[k].agents = gone[k].agents
                              /\ svc'[k].inited = gone[k].inited /\ svc'[k].next_seq = gone[k].next_seq
        /\ \A a \in DOMAIN agents : a \in DOMAIN agents' /\ agents'[a].ports = agents[a].ports
    BY <1>1, <1>2, <1>3, <1>8, CleanSessionFrame
  <2>2. QED
    BY <1>4, <1>5, <1>6, <2>1 DEF RegistryKept, SeqKept
<1>9. QED
  BY <1>4, <1>7, <1>8

(* Connection events change the strand and one entry of conns_. *)
LEMMA ConnStepsKept ==
    ASSUME RegistryIInv, NEW h \in ServiceIds,
           CloseConn(h) \/ \E id \in UserIds : UserSends(h, id) \/ UserLeaves(h, id)
    PROVE  RegistryKept /\ SeqKept
<1>1. svc \in [1..nsvc -> ServiceInfo(nses)]
  BY DEF RegistryIInv, TypeOK
<1>2. h \in 1..nsvc
  BY <1>1 DEF UserSends, UserLeaves, CloseConn, NextIs, RunningServer
<1>3. services' = services /\ agents' = agents
  BY DEF UserSends, UserLeaves, CloseConn
<1>4. PICK C : svc' = svc \/ svc' = [svc EXCEPT ![h] = [svc[h] EXCEPT !.conns = C]]
  BY DEF UserSends, UserLeaves, CloseConn
<1>5. DOMAIN svc = 1..nsvc
  BY <1>1
<1>6. /\ DOMAIN svc' = 1..nsvc
      /\ \A k \in 1..nsvc : /\ svc'[k].port = svc[k].port /\ svc'[k].agents = svc[k].agents
                            /\ svc'[k].inited = svc[k].inited /\ svc'[k].next_seq = svc[k].next_seq
  <2>1. \A X : LET t == [svc[h] EXCEPT !.conns = X] IN
               /\ t.port = svc[h].port /\ t.agents = svc[h].agents
               /\ t.inited = svc[h].inited /\ t.next_seq = svc[h].next_seq
    BY <1>1, <1>2 DEF ServiceInfo
  <2>2. CASE svc' = svc
    BY <1>5, <2>2
  <2>3. CASE svc' = [svc EXCEPT ![h] = [svc[h] EXCEPT !.conns = C]]
    BY <1>1, <1>2, <2>1, <2>3
  <2>4. QED
    BY <1>4, <2>2, <2>3
<1>7. QED
  BY <1>3, <1>5, <1>6 DEF RegistryKept, SeqKept

(* Steps that change none of the tables. *)
LEMMA OtherStepsKept ==
    ASSUME UNCHANGED <<agents, services, svc>>
    PROVE  RegistryKept /\ SeqKept
BY DEF RegistryKept, SeqKept

(* The domain of agents_ grows only by the number that is handed out.        *)
LEMMA AgentsNumberedInductive ==
    ASSUME RegistryIInv, [Next]_vars
    PROVE  AgentsNumbered'
<1>1. nagents \in 0..MaxAgents
  BY DEF RegistryIInv, TypeOK
<1>2. CASE OnAgentConnect
  <2>1. DOMAIN agents' = DOMAIN agents \cup {nagents + 1} /\ nagents' = nagents + 1
    BY <1>2 DEF OnAgentConnect, Put
  <2>2. QED
    BY <1>1, <2>1, ConstantsAssumption DEF RegistryIInv, AgentsNumbered
<1>3. \A h, r, S, Q : CleanSession(h, r, S, Q) => DOMAIN agents' = DOMAIN agents
  BY DEF CleanSession
<1>4. ASSUME NEW a \in AgentIds, AgentLost(a) \/ OnAgentDisconnect(a)
      PROVE  DOMAIN agents' \subseteq DOMAIN agents /\ nagents' = nagents
  BY <1>4 DEF AgentLost, OnAgentDisconnect, counts
<1>5. ASSUME NEW a \in AgentIds, NEW p \in Ports, Bind(a, p) \/ Unbind(a, p)
      PROVE  DOMAIN agents' \subseteq DOMAIN agents /\ nagents' = nagents
  BY <1>5 DEF Bind, Unbind, counts
<1>6. ASSUME NEW a \in AgentIds, NEW p \in Ports, NEW id \in UserIds,
             Data(a, p, id) \/ Disconnect(a, p, id) \/ SessionConn(a, p, id)
      PROVE  DOMAIN agents' \subseteq DOMAIN agents /\ nagents' = nagents
  <2>1. CASE Data(a, p, id)
    BY <2>1 DEF Data, counts
  <2>2. CASE Disconnect(a, p, id)
    BY <1>3, <2>2 DEF Disconnect, counts
  <2>3. CASE SessionConn(a, p, id)
    BY <2>3 DEF SessionConn, counts
  <2>4. QED
    BY <1>6, <2>1, <2>2, <2>3
<1>7. ASSUME NEW h \in ServiceIds, OnUserConnect(h) \/ RunStrand(h)
      PROVE  DOMAIN agents' \subseteq DOMAIN agents /\ nagents' = nagents
  <2>1. CASE OnUserConnect(h)
    BY <2>1 DEF OnUserConnect, OnAccept, NextSeq, counts
  <2>2. CASE OnUserDisconnect(h)
    BY <1>3, <2>2 DEF OnUserDisconnect, counts
  <2>3. CASE OnUserRecv(h) \/ CloseConn(h) \/ LateUserEvent(h)
    BY <2>3 DEF OnUserRecv, CloseConn, LateUserEvent, counts
  <2>4. QED
    BY <1>7, <2>1, <2>2, <2>3 DEF RunStrand
<1>8. ASSUME NEW h \in ServiceIds, NEW id \in UserIds, UserSends(h, id) \/ UserLeaves(h, id)
      PROVE  DOMAIN agents' \subseteq DOMAIN agents /\ nagents' = nagents
  BY <1>8 DEF UserSends, UserLeaves, counts
<1>9. ASSUME NEW h \in ServiceIds, NEW s \in SessionIds, SendDone(h, s)
      PROVE  DOMAIN agents' \subseteq DOMAIN agents /\ nagents' = nagents
  BY <1>3, <1>9 DEF SendDone, counts
<1>10. OnAgentConnect \/ (DOMAIN agents' \subseteq DOMAIN agents /\ nagents' = nagents)
  <2>1. CASE UNCHANGED vars
    BY <2>1 DEF vars
  <2>2. CASE AgentStep
    BY <1>4, <1>5, <1>6, <2>2 DEF AgentStep
  <2>3. CASE UserStep
    BY <1>7, <1>8, <1>9, <2>3 DEF UserStep
  <2>4. QED
    BY <2>1, <2>2, <2>3 DEF Next
<1>11. QED
  BY <1>2, <1>10 DEF RegistryIInv, AgentsNumbered

(* One argument per handler: the three that edit the registry, then the rest. *)
LEMMA RegistryInductive ==
    ASSUME RegistryIInv, [Next]_vars
    PROVE  RegistryIInv'
<1> DEFINE Goal == RegistryInv' /\ ListenerInv'
<1>1. RegistryKept => Goal
  BY RegistryFrame DEF RegistryIInv
<1>2. ASSUME NEW a \in AgentIds, AgentLost(a) PROVE Goal
  BY <1>1, <1>2, OtherStepsKept DEF AgentLost
<1>3. ASSUME NEW a \in AgentIds, NEW p \in Ports, NEW id \in UserIds,
             Data(a, p, id) \/ Disconnect(a, p, id) \/ SessionConn(a, p, id)
      PROVE  Goal
  <2>1. CASE Data(a, p, id)
    BY <1>1, <2>1, OtherStepsKept DEF Data
  <2>2. QED
    BY <1>1, <1>3, <2>1, DisconnectKept, SessionConnKept
<1>4. ASSUME NEW h \in ServiceIds, RunStrand(h) PROVE Goal
  <2>1. CASE OnUserRecv(h)
    BY <1>1, <2>1, OtherStepsKept DEF OnUserRecv
  <2>2. CASE LateUserEvent(h)
    BY <1>1, <2>2, OtherStepsKept DEF LateUserEvent
  <2>3. CASE CloseConn(h)
    BY <1>1, <2>3, ConnStepsKept
  <2>4. QED
    BY <1>1, <1>4, <2>1, <2>2, <2>3, OnUserDisconnectKept DEF RunStrand
<1>5. Goal
  <2>1. CASE UNCHANGED vars
    BY <1>1, <2>1, OtherStepsKept DEF vars
  <2>2. CASE AgentStep
    BY <1>1, <1>2, <1>3, <2>2, OnAgentConnectKept, OnAgentDisconnectRegistry,
       BindRegistry, UnbindRegistry DEF AgentStep
  <2>3. CASE UserStep
    BY <1>1, <1>4, <2>3, OnUserConnectKept, ConnStepsKept, SendDoneKept DEF UserStep
  <2>4. QED
    BY <2>1, <2>2, <2>3 DEF Next
<1>6. TypeOK' /\ AgentsNumbered'
  BY TypeOKInductive, AgentsNumberedInductive DEF RegistryIInv
<1>7. QED
  BY <1>5, <1>6 DEF RegistryIInv

(* There are no services to begin with. *)
LEMMA RegistryInitial ==
    ASSUME Init PROVE AgentsNumbered /\ RegistryInv /\ ListenerInv
BY DEF Init, AgentsNumbered, RegistryInv, ListenerInv

(* The conjunction of the registry's invariants holds always. *)
LEMMA RegistryAlways == Spec => []RegistryIInv
<1>1. Init => TypeOK
  BY InitialType
<1>2. Init => RegistryIInv
  BY <1>1, RegistryInitial DEF RegistryIInv
<1>3. RegistryIInv /\ [Next]_vars => RegistryIInv'
  BY RegistryInductive
<1>4. QED
  BY <1>2, <1>3, PTL DEF Spec

(* BIND, UNBIND, SESSION and lost agents keep the relay's tables agreeing,   *)
(* for any number of agents, ports, users and services: a service that is    *)
(* offered has an agent, and its agents are connected and list its port.     *)
THEOREM RegistryCorrect == Spec => []RegistryInv
<1>1. RegistryIInv => RegistryInv
  BY DEF RegistryIInv
<1>2. QED
  BY <1>1, RegistryAlways, PTL

(* A port has a listener exactly while services_ offers it, and one only:    *)
(* BIND never starts a second RawTcpServer on a port that still has one.     *)
THEOREM ListenerCorrect == Spec => []ListenerInv
<1>1. RegistryIInv => ListenerInv
  BY DEF RegistryIInv
<1>2. QED
  BY <1>1, RegistryAlways, PTL

(* Only an accepted user takes a sequence number. *)
LEMMA SeqKeptOtherwise ==
    ASSUME RegistryIInv, Next, ~ \E h \in ServiceIds : OnUserConnect(h)
    PROVE  SeqKept
<1>1. svc \in [1..nsvc -> ServiceInfo(nses)] /\ nsvc \in 0..MaxServices
  BY DEF RegistryIInv, TypeOK
<1>2. \A h \in 1..nsvc : \A a : /\ RemoveAgent(svc[h], a).next_seq = svc[h].next_seq
                                /\ [svc[h] EXCEPT !.agents = svc[h].agents \cup {a}].next_seq = svc[h].next_seq
  <2>1. \A h \in 1..nsvc : svc[h] \in ServiceInfo(nses)
    BY <1>1
  <2>2. \A h \in 1..nsvc : \A a : RemoveAgent(svc[h], a).next_seq = svc[h].next_seq
    BY <2>1, RemoveAgentFacts
  <2>3. \A h \in 1..nsvc : \A X : [svc[h] EXCEPT !.agents = X].next_seq = svc[h].next_seq
    BY <2>1 DEF ServiceInfo
  <2>4. QED
    BY <2>2, <2>3
<1>3. ASSUME NEW a \in AgentIds, AgentLost(a) \/ OnAgentDisconnect(a) PROVE SeqKept
  <2>1. CASE AgentLost(a)
    BY <2>1, OtherStepsKept DEF AgentLost
  <2>2. CASE OnAgentDisconnect(a)
    <3> DEFINE hit == {services[p] : p \in agents[a].ports \cap DOMAIN services}
    <3>1. PICK seqs : svc' = [h \in DOMAIN svc |->
                    IF h \in hit
                    THEN RemoveAgent([svc[h] EXCEPT !.sessions = Drop(svc[h].sessions, seqs)], a)
                    ELSE svc[h]]
      BY <2>2 DEF OnAgentDisconnect
    <3>2. ASSUME NEW h \in 1..nsvc
          PROVE  RemoveAgent([svc[h] EXCEPT !.sessions = Drop(svc[h].sessions, seqs)], a).next_seq = svc[h].next_seq
      <4> DEFINE t == [svc[h] EXCEPT !.sessions = Drop(svc[h].sessions, seqs)]
      <4>1. svc[h] \in ServiceInfo(nses)
        BY <1>1
      <4>2. t \in ServiceInfo(nses)
        BY <4>1, ServiceInfoUpdates
      <4>3. t.next_seq = svc[h].next_seq
        BY <4>1 DEF ServiceInfo
      <4> HIDE DEF t
      <4>4. RemoveAgent(t, a).next_seq = svc[h].next_seq
        BY <4>2, <4>3, RemoveAgentFacts
      <4>5. QED
        BY <4>4 DEF t
    <3>3. QED
      BY <1>1, <3>1, <3>2 DEF SeqKept
  <2>3. QED
    BY <1>3, <2>1, <2>2
<1>4. ASSUME NEW a \in AgentIds, NEW p \in Ports, Bind(a, p) PROVE SeqKept
  <2>1. CASE p \in DOMAIN services
    <3>1. svc' = [svc EXCEPT ![services[p]] = [svc[services[p]] EXCEPT !.agents = svc[services[p]].agents \cup {a}]]
      BY <1>4, <2>1 DEF Bind
    <3>2. QED
      BY <1>1, <1>2, <3>1 DEF SeqKept
  <2>2. CASE p \notin DOMAIN services \cup BusyPorts
    <3>1. \E X : svc' = Put(svc, nsvc + 1, X)
      BY <1>4, <2>2 DEF Bind
    <3>2. nsvc + 1 \notin DOMAIN svc
      BY <1>1, ConstantsAssumption
    <3>3. QED
      BY <3>1, <3>2 DEF SeqKept, Put
  <2>3. CASE p \in BusyPorts \ DOMAIN services
    BY <1>4, <2>3 DEF Bind, SeqKept
  <2>4. QED
    BY <2>1, <2>2, <2>3
<1>5. ASSUME NEW a \in AgentIds, NEW p \in Ports, Unbind(a, p) PROVE SeqKept
  <2>1. svc' = svc \/ svc' = [svc EXCEPT ![services[p]] = RemoveAgent(svc[services[p]], a)]
    BY <1>5 DEF Unbind
  <2>2. QED
    BY <1>1, <1>2, <2>1 DEF SeqKept
<1>6. ASSUME NEW a \in AgentIds, NEW p \in Ports, NEW id \in UserIds,
             Data(a, p, id) \/ Disconnect(a, p, id) \/ SessionConn(a, p, id)
      PROVE  SeqKept
  <2>1. CASE Data(a, p, id)
    BY <2>1, OtherStepsKept DEF Data
  <2>2. QED
    BY <1>6, <2>1, DisconnectKept, SessionConnKept
<1>7. ASSUME NEW h \in ServiceIds, RunStrand(h) PROVE SeqKept
  <2>1. CASE OnUserRecv(h)
    BY <2>1, OtherStepsKept DEF OnUserRecv
  <2>2. CASE LateUserEvent(h)
    BY <2>2, OtherStepsKept DEF LateUserEvent
  <2>3. QED
    BY <1>7, <2>1, <2>2, ConnStepsKept, OnUserDisconnectKept DEF RunStrand
<1>8. CASE AgentStep
  BY <1>3, <1>4, <1>5, <1>6, <1>8, OnAgentConnectKept DEF AgentStep
<1>9. CASE UserStep
  BY <1>7, <1>9, ConnStepsKept, SendDoneKept DEF UserStep
<1>10. QED
  BY <1>8, <1>9 DEF Next

(* What an accepted user is given, when the registry is right. *)
LEMMA AcceptedUser ==
    ASSUME RegistryIInv, NEW h \in ServiceIds, OnUserConnect(h),
           NEW k \in DOMAIN svc, svc'[k].next_seq # svc[k].next_seq
    PROVE  \E a \in svc[k].agents :
              /\ svc'[k].next_seq \in DOMAIN svc'[k].sessions
              /\ a \in DOMAIN agents /\ svc[k].port \in agents[a].ports
              /\ Msg("CONNECT", a, svc[k].port, svc'[k].next_seq) \in r2a'
<1> DEFINE seq == svc[h].next_seq + 1
           conn == [svc EXCEPT ![h].next_seq = seq, ![h].conns = Put(@, seq, "open")]
<1>1. svc \in [1..nsvc -> ServiceInfo(nses)]
  BY DEF RegistryIInv, TypeOK
<1>2. h \in 1..nsvc /\ svc[h] \in ServiceInfo(nses) /\ svc[h].inited
  BY <1>1 DEF OnUserConnect, OnAccept, NextSeq, RunningServer
<1>3. svc[h].port \in DOMAIN services /\ services[svc[h].port] = h
  BY <1>1, <1>2 DEF RegistryIInv, ListenerInv
<1>4. svc[h].agents # {} /\ \A a \in svc[h].agents : a \in DOMAIN agents /\ svc[h].port \in agents[a].ports
  BY <1>3 DEF RegistryIInv, RegistryInv
<1>5. PICK a \in svc[h].agents :
         /\ svc' = [conn EXCEPT ![h].sessions = Put(@, seq, nses + 1)]
         /\ r2a' = r2a \cup {Msg("CONNECT", a, svc[h].port, seq)}
  BY <1>4 DEF OnUserConnect, OnAccept, NextSeq, Picked
<1>6. conn = [svc EXCEPT ![h] = [svc[h] EXCEPT !.next_seq = seq, !.conns = Put(svc[h].conns, seq, "open")]]
  BY <1>1, <1>2 DEF ServiceInfo
<1>7. /\ \A i \in DOMAIN svc : i # h => conn[i] = svc[i]
      /\ DOMAIN conn = 1..nsvc
      /\ conn[h] = [svc[h] EXCEPT !.next_seq = seq, !.conns = Put(svc[h].conns, seq, "open")]
  BY <1>1, <1>2, <1>6
<1>8. conn[h].next_seq = seq /\ \A X : LET t == [conn[h] EXCEPT !.sessions = X] IN t.next_seq = seq /\ t.sessions = X
  BY <1>2, <1>7 DEF ServiceInfo
<1> HIDE DEF conn
<1>9. svc' = [conn EXCEPT ![h] = [conn[h] EXCEPT !.sessions = Put(conn[h].sessions, seq, nses + 1)]]
  BY <1>5
<1>10. svc'[h].next_seq = seq /\ svc'[h].sessions = Put(conn[h].sessions, seq, nses + 1)
  BY <1>2, <1>7, <1>8, <1>9
<1>11. k = h
  BY <1>1, <1>7, <1>9
<1>12. seq \in DOMAIN svc'[h].sessions
  BY <1>10 DEF Put
<1>13. QED
  BY <1>4, <1>5, <1>10, <1>11, <1>12

(* Every accepted user is given a session and is announced to a connected    *)
(* agent of its port, whatever the order of binds, unbinds and lost agents.  *)
THEOREM EveryUserIsServed == Spec => AcceptedUserHasAgent
<1> DEFINE Served(h) ==
             svc'[h].next_seq # svc[h].next_seq =>
               \E a \in svc[h].agents :
                 /\ svc'[h].next_seq \in DOMAIN svc'[h].sessions
                 /\ a \in DOMAIN agents /\ svc[h].port \in agents[a].ports
                 /\ Msg("CONNECT", a, svc[h].port, svc'[h].next_seq) \in r2a'
<1>1. RegistryIInv /\ [Next]_vars => [\A h \in DOMAIN svc : Served(h)]_vars
  <2>1. SUFFICES ASSUME RegistryIInv, Next PROVE \A h \in DOMAIN svc : Served(h)
    OBVIOUS
  <2>2. SeqKept => \A h \in DOMAIN svc : Served(h)
    BY DEF SeqKept
  <2>3. CASE \E h \in ServiceIds : OnUserConnect(h)
    BY <2>1, <2>3, AcceptedUser
  <2>4. CASE ~ \E h \in ServiceIds : OnUserConnect(h)
    BY <2>1, <2>2, <2>4, SeqKeptOtherwise
  <2>5. QED
    BY <2>3, <2>4
<1>2. QED
  BY <1>1, RegistryAlways, PTL DEF Spec, AcceptedUserHasAgent
=============================================================================
