------------------------ MODULE RelaySessionProofs ------------------------
(***************************************************************************)
(* The sessions of the relay: which objects ServiceInfo::sessions_ and     *)
(* AgentInfo::sessions_ hold, and who drops them.  A2R::SESSION looks a    *)
(* session up under the number of the connection instead of the user's, so *)
(* it takes over a session of somebody else or, as a rule, makes a second  *)
(* one with number 0.  The second is allowed in all theorems; the first is *)
(* named in the hypotheses of those that it breaks.                        *)
(***************************************************************************)
EXTENDS RelayProofs

(* SESSION of a connection that is there, for a port that has a service: its *)
(* handler finds a session under the connection's own number                 *)
(* (app1/tunnel.cpp), or it finds none and makes another.                    *)
DeclaresFor(a, p, id) == SessionConn(a, p, id) /\ a \in DOMAIN agents /\ p \in DOMAIN services
TakesOver ==
    \E a \in AgentIds, p \in Ports, id \in UserIds :
        DeclaresFor(a, p, id) /\ a \in DOMAIN svc[services[p]].sessions

----------------------------------------------------------------------------
(* Steps that put nothing into the tables of sessions and connections and  *)
(* keep the numbers and agents of the Session objects.                     *)
SubMap(f, g) == \A k \in DOMAIN f : k \in DOMAIN g /\ f[k] = g[k]
ServiceSessionsShrink ==
    \A h \in DOMAIN svc' :
        \/ h \in DOMAIN svc /\ SubMap(svc'[h].sessions, svc[h].sessions)
        \/ h \notin DOMAIN svc /\ svc'[h].sessions = << >>
ConnsShrink ==
    \A h \in DOMAIN svc : h \in DOMAIN svc' /\ DOMAIN svc'[h].conns \subseteq DOMAIN svc[h].conns
AgentSessionsShrink ==
    \A b \in DOMAIN agents' :
        \/ b \in DOMAIN agents /\ SubMap(agents'[b].sessions, agents[b].sessions)
        \/ agents'[b].sessions = << >>
ObjectsKept ==
    \A s \in DOMAIN ses : /\ s \in DOMAIN ses'
                          /\ ses'[s].seq = ses[s].seq /\ ses'[s].agent_id = ses[s].agent_id
OldSessions == ServiceSessionsShrink /\ AgentSessionsShrink /\ ConnsShrink /\ ObjectsKept

(* No service loses or gains a session. *)
SessionsStay == \A h \in DOMAIN svc : h \in DOMAIN svc' /\ svc'[h].sessions = svc[h].sessions

(* A map with entries erased, and an unchanged one. *)
LEMMA SubMaps ==
    ASSUME NEW f, NEW X
    PROVE  SubMap(f, f) /\ SubMap(Drop(f, X), f)
BY DEF SubMap, Drop

(* Steps that leave the three tables alone. *)
LEMMA UnchangedSessions ==
    ASSUME UNCHANGED <<agents, svc, ses>>
    PROVE  OldSessions /\ SessionsStay
BY SubMaps DEF OldSessions, ServiceSessionsShrink, AgentSessionsShrink, ConnsShrink, ObjectsKept,
               SessionsStay

(* Withdrawing an agent keeps the sessions of the service; the last one takes *)
(* the connections with it.                                                   *)
LEMMA RemoveAgentSessions ==
    ASSUME NEW n, NEW s \in ServiceInfo(n), NEW a
    PROVE  /\ RemoveAgent(s, a).sessions = s.sessions
           /\ DOMAIN RemoveAgent(s, a).conns \subseteq DOMAIN s.conns
<1> DEFINE t == [s EXCEPT !.agents = s.agents \ {a}]
<1>1. t.sessions = s.sessions /\ t.conns = s.conns
  BY DEF ServiceInfo
<1>2. t \in [port : Ports, agents : SUBSET AgentIds, sessions : Map(UserIds, 1..n),
             inited : BOOLEAN, next_seq : 0..MaxUsers, conns : Map(UserIds, ConnState)]
  BY DEF ServiceInfo
<1>3. CloseServer(t).sessions = t.sessions /\ CloseServer(t).conns = << >>
  BY <1>2 DEF CloseServer
<1>4. RemoveAgent(s, a) = IF t.agents = {} THEN CloseServer(t) ELSE t
  BY DEF RemoveAgent
<1> HIDE DEF t
<1>5. QED
  BY <1>1, <1>3, <1>4

(* The field sessions of a service and of an agent after an assignment. *)
LEMMA SessionFields ==
    ASSUME TypeOK
    PROVE  /\ \A h \in DOMAIN svc : \A X :
                 /\ [svc[h] EXCEPT !.sessions = X].sessions = X
                 /\ [svc[h] EXCEPT !.sessions = X].conns = svc[h].conns
                 /\ [svc[h] EXCEPT !.agents = X].sessions = svc[h].sessions
                 /\ [svc[h] EXCEPT !.agents = X].conns = svc[h].conns
                 /\ [svc[h] EXCEPT !.conns = X].sessions = svc[h].sessions
                 /\ [svc[h] EXCEPT !.conns = X].conns = X
           /\ \A b \in DOMAIN agents : \A X :
                 /\ [agents[b] EXCEPT !.sessions = X].sessions = X
                 /\ [agents[b] EXCEPT !.ports = X].sessions = agents[b].sessions
<1>1. \A h \in DOMAIN svc : svc[h] \in ServiceInfo(nses)
  BY DEF TypeOK
<1>2. \A b \in DOMAIN agents : agents[b] \in AgentInfo(nses)
  BY DEF TypeOK
<1>3. QED
  BY <1>1, <1>2 DEF ServiceInfo, AgentInfo

(* __CleanSession erases at most the entry of one number, in one service and *)
(* in one agent.                                                             *)
Cleaned(h, r) ==
    /\ \A k \in 1..nsvc : svc'[k].sessions =
          IF Finished(r) /\ k = h THEN Drop(svc[k].sessions, {r.seq}) ELSE svc[k].sessions
    /\ ServiceSessionsShrink /\ AgentSessionsShrink /\ ConnsShrink
LEMMA CleanSessionShrinks ==
    ASSUME TypeOK, NEW h \in 1..nsvc, NEW r, NEW Q,
           NEW S \in [1..nsvc -> ServiceInfo(nses)],
           \A k \in 1..nsvc : /\ S[k].sessions = svc[k].sessions
                              /\ DOMAIN S[k].conns \subseteq DOMAIN svc[k].conns,
           CleanSession(h, r, S, Q)
    PROVE  Cleaned(h, r) /\ svc'[h].conns = S[h].conns
<1> DEFINE Sessions ==
             /\ DOMAIN svc' = 1..nsvc /\ DOMAIN agents' = DOMAIN agents
             /\ \A k \in 1..nsvc : svc'[k].conns = S[k].conns
             /\ \A k \in 1..nsvc : svc'[k].sessions =
                   IF Finished(r) /\ k = h THEN Drop(svc[k].sessions, {r.seq}) ELSE svc[k].sessions
             /\ \A b \in DOMAIN agents : agents'[b].sessions =
                   IF Finished(r) /\ b = r.agent_id THEN Drop(agents[b].sessions, {r.seq})
                   ELSE agents[b].sessions
<1>1. ASSUME Finished(r) PROVE Sessions
  <2>1. svc' = [S EXCEPT ![h] = [S[h] EXCEPT !.sessions = Drop(S[h].sessions, {r.seq})]]
    BY <1>1 DEF CleanSession
  <2>2. agents' = [a \in DOMAIN agents |->
                     IF a = r.agent_id
                     THEN [agents[a] EXCEPT !.sessions = Drop(agents[a].sessions, {r.seq})]
                     ELSE agents[a]]
    BY <1>1 DEF CleanSession
  <2>3. \A X : [S[h] EXCEPT !.sessions = X].sessions = X /\ [S[h] EXCEPT !.sessions = X].conns = S[h].conns
    BY DEF ServiceInfo
  <2>4. svc'[h].sessions = Drop(svc[h].sessions, {r.seq}) /\ svc'[h].conns = S[h].conns
    BY <2>1, <2>3
  <2>5. QED
    BY <1>1, <2>1, <2>2, <2>4, SessionFields
<1>2. ASSUME ~Finished(r) PROVE Sessions
  BY <1>2 DEF CleanSession
<1>3. Sessions /\ DOMAIN svc = 1..nsvc
  BY <1>1, <1>2 DEF TypeOK
<1>4. /\ \A k \in 1..nsvc : SubMap(svc'[k].sessions, svc[k].sessions)
      /\ \A b \in DOMAIN agents : SubMap(agents'[b].sessions, agents[b].sessions)
  BY <1>3, SubMaps
<1>5. ServiceSessionsShrink /\ AgentSessionsShrink /\ ConnsShrink
  BY <1>3, <1>4 DEF ServiceSessionsShrink, AgentSessionsShrink, ConnsShrink
<1>6. QED
  BY <1>3, <1>5 DEF Cleaned

(* Every handler but OnUserConnect and SESSION leaves only old sessions. *)
LEMMA OnAgentConnectOld ==
    ASSUME RegistryIInv, OnAgentConnect
    PROVE  OldSessions
<1>1. nagents + 1 \notin DOMAIN agents
  <2>1. nagents \in 0..MaxAgents
    BY DEF RegistryIInv, TypeOK
  <2>2. QED
    BY <2>1, ConstantsAssumption DEF RegistryIInv, AgentsNumbered
<1>2. svc' = svc /\ ses' = ses
      /\ agents' = Put(agents, nagents + 1, [ports |-> {}, sessions |-> << >>])
  BY DEF OnAgentConnect
<1>3. AgentSessionsShrink
  BY <1>1, <1>2, SubMaps DEF Put, AgentSessionsShrink
<1>4. QED
  BY <1>2, <1>3, SubMaps DEF OldSessions, ServiceSessionsShrink, ConnsShrink, ObjectsKept

(* What __OnAgentDisconnect does to the sessions: it marks those of the agent *)
(* and erases the numbers of those whose user is gone, from every service of  *)
(* a port of the agent.                                                       *)
Live(a) == agents[a].ports \cap DOMAIN services
Hit(a) == {services[p] : p \in Live(a)}
Mine(a) == IF Live(a) = {} THEN {} ELSE Values(agents[a].sessions)
Done(a) == {s \in Mine(a) : ses[s].user_disconnected}
DoneSeqs(a) == {ses[s].seq : s \in Done(a)}

LEMMA OnAgentDisconnectFacts ==
    ASSUME RegistryIInv, NEW a \in AgentIds, OnAgentDisconnect(a)
    PROVE  /\ a \in DOMAIN agents /\ Mine(a) \subseteq 1..nses
           /\ DOMAIN svc' = DOMAIN svc /\ DOMAIN agents' = DOMAIN agents \ {a}
           /\ DOMAIN ses' = DOMAIN ses
           /\ \A h \in DOMAIN svc : svc'[h].sessions =
                 IF h \in Hit(a) THEN Drop(svc[h].sessions, DoneSeqs(a)) ELSE svc[h].sessions
           /\ \A h \in DOMAIN svc : /\ svc'[h].port = svc[h].port
                                    /\ svc'[h].next_seq = svc[h].next_seq
                                    /\ svc'[h].agents = svc[h].agents \/ svc'[h].agents = svc[h].agents \ {a}
                                    /\ svc'[h].inited => svc[h].inited
                                    /\ DOMAIN svc'[h].conns \subseteq DOMAIN svc[h].conns
           /\ \A b \in DOMAIN agents' : /\ agents'[b].ports = agents[b].ports
                                        /\ SubMap(agents'[b].sessions, agents[b].sessions)
           /\ \A s \in DOMAIN ses : ses'[s] =
                 IF s \in Mine(a) THEN [ses[s] EXCEPT !.tunnel_disconnected = TRUE,
                                                      !.tunnel_hard_disconnected = TRUE]
                 ELSE ses[s]
           /\ services' = Drop(services, {p \in Live(a) : svc[services[p]].agents \ {a} = {}})
<1>1. TypeOK
  BY DEF RegistryIInv
<1>2. /\ a \in DOMAIN agents
      /\ ses' = [s \in DOMAIN ses |->
                  IF s \in Mine(a) THEN [ses[s] EXCEPT !.tunnel_disconnected = TRUE,
                                                       !.tunnel_hard_disconnected = TRUE]
                  ELSE ses[s]]
      /\ svc' = [h \in DOMAIN svc |->
                  IF h \in Hit(a)
                  THEN RemoveAgent([svc[h] EXCEPT !.sessions = Drop(@, DoneSeqs(a))], a)
                  ELSE svc[h]]
      /\ agents' = [b \in DOMAIN agents \ {a} |->
                     [agents[b] EXCEPT !.sessions =
                         Drop(@, {ses[s].seq : s \in {t \in Done(a) : ses[t].agent_id = b}})]]
      /\ services' = Drop(services, {p \in Live(a) : svc[services[p]].agents \ {a} = {}})
  BY DEF OnAgentDisconnect, Live, Hit, Mine, Done, DoneSeqs
<1>3. Mine(a) \subseteq 1..nses
  <2>1. agents[a].sessions \in Map(UserIds, 1..nses)
    BY <1>1, <1>2 DEF TypeOK, AgentInfo
  <2>2. agents[a].sessions \in [DOMAIN agents[a].sessions -> 1..nses]
    BY <2>1, MapElim
  <2>3. Values(agents[a].sessions) \subseteq 1..nses
    BY <2>2 DEF Values
  <2>4. QED
    BY <2>3 DEF Mine
<1>4. ASSUME NEW h \in DOMAIN svc
      PROVE  /\ svc'[h].sessions = IF h \in Hit(a) THEN Drop(svc[h].sessions, DoneSeqs(a)) ELSE svc[h].sessions
             /\ svc'[h].port = svc[h].port /\ svc'[h].next_seq = svc[h].next_seq
             /\ svc'[h].agents = svc[h].agents \/ svc'[h].agents = svc[h].agents \ {a}
             /\ svc'[h].inited => svc[h].inited
             /\ DOMAIN svc'[h].conns \subseteq DOMAIN svc[h].conns
  <2> DEFINE t == [svc[h] EXCEPT !.sessions = Drop(svc[h].sessions, DoneSeqs(a))]
  <2>1. svc[h] \in ServiceInfo(nses)
    BY <1>1 DEF TypeOK
  <2>2. t \in ServiceInfo(nses)
    BY <2>1, ServiceInfoUpdates
  <2>3. /\ t.sessions = Drop(svc[h].sessions, DoneSeqs(a)) /\ t.port = svc[h].port
        /\ t.next_seq = svc[h].next_seq /\ t.inited = svc[h].inited /\ t.agents = svc[h].agents
        /\ t.conns = svc[h].conns
    BY <2>1 DEF ServiceInfo
  <2>4. svc'[h] = IF h \in Hit(a) THEN RemoveAgent(t, a) ELSE svc[h]
    BY <1>2
  <2> HIDE DEF t
  <2>5. QED
    BY <2>2, <2>3, <2>4, RemoveAgentFacts, RemoveAgentSessions
<1>5. ASSUME NEW b \in DOMAIN agents'
      PROVE  agents'[b].ports = agents[b].ports /\ SubMap(agents'[b].sessions, agents[b].sessions)
  <2>1. b \in DOMAIN agents /\ agents[b] \in AgentInfo(nses)
    BY <1>1, <1>2 DEF TypeOK
  <2>2. PICK X : agents'[b] = [agents[b] EXCEPT !.sessions = Drop(agents[b].sessions, X)]
    BY <1>2
  <2>3. agents'[b].ports = agents[b].ports /\ agents'[b].sessions = Drop(agents[b].sessions, X)
    BY <2>1, <2>2 DEF AgentInfo
  <2>4. QED
    BY <2>3, SubMaps
<1>6. DOMAIN svc' = DOMAIN svc /\ DOMAIN agents' = DOMAIN agents \ {a} /\ DOMAIN ses' = DOMAIN ses
  BY <1>2
<1>7. QED
  BY <1>2, <1>3, <1>4, <1>5, <1>6

(* So an agent that goes leaves only old sessions behind. *)
LEMMA OnAgentDisconnectOld ==
    ASSUME RegistryIInv, NEW a \in AgentIds, OnAgentDisconnect(a)
    PROVE  OldSessions
<1>1. \A h \in DOMAIN svc' : h \in DOMAIN svc /\ SubMap(svc'[h].sessions, svc[h].sessions)
  <2>1. DOMAIN svc' = DOMAIN svc
        /\ \A h \in DOMAIN svc : svc'[h].sessions =
              IF h \in Hit(a) THEN Drop(svc[h].sessions, DoneSeqs(a)) ELSE svc[h].sessions
    BY OnAgentDisconnectFacts
  <2>2. QED
    BY <2>1, SubMaps
<1>2. \A b \in DOMAIN agents' : b \in DOMAIN agents /\ SubMap(agents'[b].sessions, agents[b].sessions)
  BY OnAgentDisconnectFacts
<1>3. \A s \in DOMAIN ses : /\ s \in DOMAIN ses'
                            /\ ses'[s].seq = ses[s].seq /\ ses'[s].agent_id = ses[s].agent_id
  <2>1. \A s \in DOMAIN ses : ses[s] \in Session
    BY DEF RegistryIInv, TypeOK
  <2>2. \A s \in DOMAIN ses : LET r == [ses[s] EXCEPT !.tunnel_disconnected = TRUE,
                                                      !.tunnel_hard_disconnected = TRUE]
                              IN  r.seq = ses[s].seq /\ r.agent_id = ses[s].agent_id
    BY <2>1 DEF Session
  <2>3. QED
    BY <2>2, OnAgentDisconnectFacts
<1>4. ConnsShrink
  BY OnAgentDisconnectFacts DEF ConnsShrink
<1>5. QED
  BY <1>1, <1>2, <1>3, <1>4 DEF OldSessions, ServiceSessionsShrink, AgentSessionsShrink, ObjectsKept

(* BIND and UNBIND. *)
LEMMA BindOld ==
    ASSUME RegistryIInv, NEW a \in AgentIds, NEW p \in Ports, Bind(a, p)
    PROVE  OldSessions /\ SessionsStay
<1>1. TypeOK /\ DOMAIN svc = 1..nsvc /\ nsvc + 1 \notin 1..nsvc
  <2>1. nsvc \in 0..MaxServices /\ TypeOK /\ DOMAIN svc = 1..nsvc
    BY DEF RegistryIInv, TypeOK
  <2>2. QED
    BY <2>1, ConstantsAssumption
<1>2. ses' = ses /\ a \in DOMAIN agents
  BY DEF Bind
<1>3. agents' = agents \/ agents' = [agents EXCEPT ![a] = [agents[a] EXCEPT !.ports = agents[a].ports \cup {p}]]
  BY DEF Bind
<1>4. DOMAIN agents' = DOMAIN agents /\ \A b \in DOMAIN agents : agents'[b].sessions = agents[b].sessions
  <2>1. [agents[a] EXCEPT !.ports = agents[a].ports \cup {p}].sessions = agents[a].sessions
    BY <1>1, <1>2, SessionFields
  <2>2. QED
    BY <1>2, <1>3, <2>1
<1>5. \/ svc' = svc
      \/ services[p] \in 1..nsvc /\ \E X : svc' = [svc EXCEPT ![services[p]] = [svc[services[p]] EXCEPT !.agents = X]]
      \/ svc' = Put(svc, nsvc + 1, [port |-> p, agents |-> {a}, sessions |-> << >>,
                                    inited |-> TRUE, next_seq |-> 0, conns |-> << >>])
  BY <1>1 DEF Bind, TypeOK
<1>6. /\ \A h \in DOMAIN svc' : \/ /\ h \in DOMAIN svc /\ svc'[h].sessions = svc[h].sessions
                                   /\ svc'[h].conns = svc[h].conns
                                \/ h \notin DOMAIN svc /\ svc'[h].sessions = << >>
      /\ DOMAIN svc \subseteq DOMAIN svc'
  <2>1. CASE svc' = svc
    BY <2>1
  <2>2. ASSUME NEW X, services[p] \in 1..nsvc,
               svc' = [svc EXCEPT ![services[p]] = [svc[services[p]] EXCEPT !.agents = X]]
        PROVE  /\ DOMAIN svc' = DOMAIN svc
               /\ \A h \in DOMAIN svc : /\ svc'[h].sessions = svc[h].sessions
                                        /\ svc'[h].conns = svc[h].conns
    BY <1>1, <2>2, SessionFields
  <2>3. CASE svc' = Put(svc, nsvc + 1, [port |-> p, agents |-> {a}, sessions |-> << >>,
                                    inited |-> TRUE, next_seq |-> 0, conns |-> << >>])
    BY <1>1, <2>3 DEF Put
  <2>4. QED
    BY <1>5, <2>1, <2>2, <2>3
<1>7. OldSessions
  BY <1>2, <1>4, <1>6, SubMaps DEF OldSessions, ServiceSessionsShrink, AgentSessionsShrink, ConnsShrink, ObjectsKept
<1>8. QED
  BY <1>6, <1>7 DEF SessionsStay

(* A2R::UNBIND. *)
LEMMA UnbindOld ==
    ASSUME RegistryIInv, NEW a \in AgentIds, NEW p \in Ports, Unbind(a, p)
    PROVE  OldSessions /\ SessionsStay
<1>1. TypeOK /\ DOMAIN svc = 1..nsvc /\ \A h \in DOMAIN svc : svc[h] \in ServiceInfo(nses)
  BY DEF RegistryIInv, TypeOK
<1>2. ses' = ses /\ a \in DOMAIN agents
      /\ agents' = [agents EXCEPT ![a] = [agents[a] EXCEPT !.ports = agents[a].ports \ {p}]]
  BY DEF Unbind
<1>3. DOMAIN agents' = DOMAIN agents /\ \A b \in DOMAIN agents : agents'[b].sessions = agents[b].sessions
  BY <1>1, <1>2, SessionFields
<1>4. svc' = svc \/ (services[p] \in 1..nsvc /\ svc' = [svc EXCEPT ![services[p]] = RemoveAgent(svc[services[p]], a)])
  BY <1>1 DEF Unbind, TypeOK
<1>5. /\ DOMAIN svc' = DOMAIN svc
      /\ \A h \in DOMAIN svc : /\ svc'[h].sessions = svc[h].sessions
                               /\ DOMAIN svc'[h].conns \subseteq DOMAIN svc[h].conns
  <2>1. \A h \in DOMAIN svc : /\ RemoveAgent(svc[h], a).sessions = svc[h].sessions
                              /\ DOMAIN RemoveAgent(svc[h], a).conns \subseteq DOMAIN svc[h].conns
    BY <1>1, RemoveAgentSessions
  <2>2. QED
    BY <1>1, <1>4, <2>1
<1>6. OldSessions
  BY <1>2, <1>3, <1>5, SubMaps DEF OldSessions, ServiceSessionsShrink, AgentSessionsShrink, ConnsShrink, ObjectsKept
<1>7. QED
  BY <1>5, <1>6 DEF SessionsStay

(* One end of session id of a listening service goes: its object is marked    *)
(* (for the user only when its connection is forgotten), and once both ends   *)
(* are gone the entry under the object's number is erased.                    *)
EndOf(h, id, r) ==
    LET s == svc[h].sessions[id] IN
    /\ h \in 1..nsvc /\ svc[h].inited /\ id \in DOMAIN svc[h].sessions
    /\ s \in 1..nses /\ r \in Session
    /\ r.seq = ses[s].seq /\ r.agent_id = ses[s].agent_id
    /\ r.user_disconnected => ses[s].user_disconnected \/ id \notin DOMAIN svc'[h].conns
    /\ ses' = [ses EXCEPT ![s] = r]
    /\ \A k \in 1..nsvc : svc'[k].sessions =
          IF Finished(r) /\ k = h THEN Drop(svc[k].sessions, {r.seq}) ELSE svc[k].sessions
    /\ ServiceSessionsShrink /\ AgentSessionsShrink /\ ConnsShrink

(* Such a step leaves only old sessions. *)
LEMMA EndOfOld ==
    ASSUME TypeOK, NEW h, NEW id, NEW r, EndOf(h, id, r)
    PROVE  OldSessions
<1>1. ses \in [1..nses -> Session]
  BY DEF TypeOK
<1>2. ObjectsKept
  BY <1>1 DEF EndOf, ObjectsKept
<1>3. QED
  BY <1>2 DEF EndOf, OldSessions

(* A2R::DISCONNECT is such a step. *)
LEMMA DisconnectEnds ==
    ASSUME RegistryIInv, NEW a \in AgentIds, NEW p \in Ports, NEW id \in UserIds, Disconnect(a, p, id)
    PROVE  \E h, r : EndOf(h, id, r)
<1> DEFINE h == services[p]
           s == svc[h].sessions[id]
           r == [ses[s] EXCEPT !.tunnel_disconnected = TRUE]
<1>1. TypeOK /\ svc \in [1..nsvc -> ServiceInfo(nses)]
  BY DEF RegistryIInv, TypeOK
<1>2. h \in 1..nsvc /\ id \in DOMAIN svc[h].sessions /\ svc[h].inited
  <2>1. h \in 1..nsvc /\ id \in DOMAIN svc[h].sessions /\ p \in DOMAIN services
    BY <1>1 DEF Disconnect, TypeOK
  <2>2. h \in DOMAIN svc /\ svc[h].port = p
    BY <2>1 DEF RegistryIInv, RegistryInv
  <2>3. QED
    BY <2>1, <2>2 DEF RegistryIInv, ListenerInv
<1>3. s \in 1..nses
  BY <1>1, <1>2, SessionOfService
<1>4. /\ r \in Session /\ r.seq = ses[s].seq /\ r.agent_id = ses[s].agent_id
      /\ r.user_disconnected = ses[s].user_disconnected
  <2>1. ses[s] \in Session
    BY <1>1, <1>3 DEF TypeOK
  <2>2. QED
    BY <2>1 DEF Session
<1>5. ses' = [ses EXCEPT ![s] = r] /\ CleanSession(h, r, svc, strand)
  BY DEF Disconnect
<1> HIDE DEF h, r
<1>6. /\ \A k \in 1..nsvc : svc'[k].sessions =
            IF Finished(r) /\ k = h THEN Drop(svc[k].sessions, {r.seq}) ELSE svc[k].sessions
      /\ ServiceSessionsShrink /\ AgentSessionsShrink /\ ConnsShrink
  <2>1. Cleaned(h, r)
    BY <1>1, <1>2, <1>5, CleanSessionShrinks
  <2>2. QED
    BY <2>1 DEF Cleaned
<1>7. EndOf(h, id, r)
  BY <1>2, <1>3, <1>4, <1>5, <1>6 DEF EndOf
<1>8. QED
  BY <1>7

(* So is __OnUserDisconnect, unless the session is gone already. *)
LEMMA OnUserDisconnectEnds ==
    ASSUME RegistryIInv, NEW h \in ServiceIds, OnUserDisconnect(h)
    PROVE  \/ \E id, r : EndOf(h, id, r)
           \/ /\ OldSessions /\ ses' = ses
              /\ DOMAIN svc' = 1..nsvc /\ \A k \in 1..nsvc : svc'[k].sessions = svc[k].sessions
<1> DEFINE id == Head(strand[h]).seq
           s == svc[h].sessions[id]
           r == [ses[s] EXCEPT !.user_disconnected = TRUE]
           gone == [svc EXCEPT ![h] = [svc[h] EXCEPT !.conns = Drop(svc[h].conns, {id})]]
<1>1. TypeOK /\ svc \in [1..nsvc -> ServiceInfo(nses)]
  BY DEF RegistryIInv, TypeOK
<1>2. h \in 1..nsvc /\ svc[h] \in ServiceInfo(nses) /\ svc[h].inited
  BY <1>1, HeadOfStrand DEF OnUserDisconnect
<1>3. /\ gone \in [1..nsvc -> ServiceInfo(nses)] /\ id \notin DOMAIN gone[h].conns
      /\ \A k \in 1..nsvc : /\ gone[k].sessions = svc[k].sessions
                            /\ DOMAIN gone[k].conns \subseteq DOMAIN svc[k].conns
  <2>1. [svc[h] EXCEPT !.conns = Drop(svc[h].conns, {id})] \in ServiceInfo(nses)
    BY <1>2, ServiceInfoUpdates
  <2>2. LET t == [svc[h] EXCEPT !.conns = Drop(svc[h].conns, {id})] IN
        t.sessions = svc[h].sessions /\ t.conns = Drop(svc[h].conns, {id})
    BY <1>2 DEF ServiceInfo
  <2>3. DOMAIN Drop(svc[h].conns, {id}) = DOMAIN svc[h].conns \ {id}
    BY DEF Drop
  <2>4. QED
    BY <1>1, <1>2, <2>1, <2>2, <2>3
<1>4. CASE id \in DOMAIN svc[h].sessions
  <2>1. ses' = [ses EXCEPT ![s] = r] /\ CleanSession(h, r, gone, Popped(h))
    BY <1>4 DEF OnUserDisconnect
  <2>2. s \in 1..nses
    BY <1>1, <1>2, <1>4, SessionOfService
  <2>3. r \in Session /\ r.seq = ses[s].seq /\ r.agent_id = ses[s].agent_id
    <3>1. ses[s] \in Session
      BY <1>1, <2>2 DEF TypeOK
    <3>2. QED
      BY <3>1 DEF Session
  <2> HIDE DEF gone, r
  <2>4. /\ \A k \in 1..nsvc : svc'[k].sessions =
              IF Finished(r) /\ k = h THEN Drop(svc[k].sessions, {r.seq}) ELSE svc[k].sessions
        /\ ServiceSessionsShrink /\ AgentSessionsShrink /\ ConnsShrink /\ id \notin DOMAIN svc'[h].conns
    <3>1. Cleaned(h, r) /\ svc'[h].conns = gone[h].conns
      <4>1. CleanSession(h, r, gone, Popped(h)) /\ TypeOK /\ h \in 1..nsvc
        BY <1>1, <1>2, <2>1
      <4>2. \A k \in 1..nsvc : /\ gone[k].sessions = svc[k].sessions
                               /\ DOMAIN gone[k].conns \subseteq DOMAIN svc[k].conns
        BY <1>3
      <4>3. gone \in [1..nsvc -> ServiceInfo(nses)]
        BY <1>3
      <4> HIDE DEF id, s
      <4>4. QED
        BY <4>1, <4>2, <4>3, CleanSessionShrinks
    <3>2. /\ \A k \in 1..nsvc : svc'[k].sessions =
                IF Finished(r) /\ k = h THEN Drop(svc[k].sessions, {r.seq}) ELSE svc[k].sessions
          /\ ServiceSessionsShrink /\ AgentSessionsShrink
      BY <3>1 DEF Cleaned
    <3>3. ConnsShrink
      BY <3>1 DEF Cleaned
    <3>4. id \notin DOMAIN svc'[h].conns
      BY <1>3, <3>1
    <3>5. QED
      BY <3>2, <3>3, <3>4
  <2>5. EndOf(h, id, r)
    BY <1>2, <1>4, <2>1, <2>2, <2>3, <2>4 DEF EndOf
  <2>6. QED
    BY <2>5
<1>5. CASE id \notin DOMAIN svc[h].sessions
  <2>1. svc' = gone /\ agents' = agents /\ ses' = ses
    BY <1>5 DEF OnUserDisconnect
  <2> HIDE DEF gone
  <2>2. /\ DOMAIN svc' = 1..nsvc /\ DOMAIN svc = 1..nsvc
        /\ \A k \in 1..nsvc : /\ svc'[k].sessions = svc[k].sessions
                              /\ DOMAIN svc'[k].conns \subseteq DOMAIN svc[k].conns
    BY <1>1, <1>3, <2>1
  <2>3. OldSessions
    BY <2>1, <2>2, SubMaps DEF OldSessions, ServiceSessionsShrink, AgentSessionsShrink, ConnsShrink, ObjectsKept
  <2>4. QED
    BY <2>1, <2>2, <2>3
<1>6. QED
  BY <1>4, <1>5

(* A send callback may erase the entry under the number of its session, in   *)
(* the service it was sent for.                                              *)
LEMMA SendDoneCleans ==
    ASSUME RegistryIInv, NEW h \in ServiceIds, NEW s \in SessionIds, SendDone(h, s)
    PROVE  /\ h \in 1..nsvc /\ s \in 1..nses /\ ses' = ses /\ OldSessions
           /\ \A k \in 1..nsvc : svc'[k].sessions =
                 IF Finished(ses[s]) /\ k = h THEN Drop(svc[k].sessions, {ses[s].seq})
                 ELSE svc[k].sessions
<1>1. TypeOK /\ svc \in [1..nsvc -> ServiceInfo(nses)]
  BY DEF RegistryIInv, TypeOK
<1>2. ses' = ses /\ <<h, s>> \in pending /\ CleanSession(h, ses[s], svc, strand)
  BY DEF SendDone
<1>3. h \in 1..nsvc /\ s \in 1..nses
  BY <1>1, <1>2 DEF TypeOK
<1>4. /\ \A k \in 1..nsvc : svc'[k].sessions =
            IF Finished(ses[s]) /\ k = h THEN Drop(svc[k].sessions, {ses[s].seq})
            ELSE svc[k].sessions
      /\ ServiceSessionsShrink /\ AgentSessionsShrink /\ ConnsShrink
  <2>1. \A k \in 1..nsvc : /\ svc[k].sessions = svc[k].sessions
                           /\ DOMAIN svc[k].conns \subseteq DOMAIN svc[k].conns
    OBVIOUS
  <2>2. Cleaned(h, ses[s])
    BY <1>1, <1>2, <1>3, <2>1, CleanSessionShrinks
  <2>3. QED
    BY <2>2 DEF Cleaned
<1>5. QED
  BY <1>2, <1>3, <1>4 DEF OldSessions, ObjectsKept

(* Events of user connections do not touch sessions. *)
LEMMA ConnStepsOld ==
    ASSUME RegistryIInv, NEW h \in ServiceIds,
           CloseConn(h) \/ \E id \in UserIds : UserSends(h, id) \/ UserLeaves(h, id)
    PROVE  /\ OldSessions /\ ses' = ses /\ agents' = agents
           /\ DOMAIN svc' = DOMAIN svc /\ \A k \in DOMAIN svc : svc'[k].sessions = svc[k].sessions
<1>1. TypeOK /\ svc \in [1..nsvc -> ServiceInfo(nses)]
  BY DEF RegistryIInv, TypeOK
<1>2. h \in 1..nsvc
  BY <1>1 DEF UserSends, UserLeaves, CloseConn, NextIs, RunningServer
<1>3. agents' = agents /\ ses' = ses
  BY DEF UserSends, UserLeaves, CloseConn
<1>4. PICK C : /\ DOMAIN C = DOMAIN svc[h].conns
               /\ svc' = svc \/ svc' = [svc EXCEPT ![h] = [svc[h] EXCEPT !.conns = C]]
  <2>1. ASSUME NEW id, NEW c, svc' = [svc EXCEPT ![h].conns[id] = c]
        PROVE  svc' = [svc EXCEPT ![h] = [svc[h] EXCEPT !.conns = [svc[h].conns EXCEPT ![id] = c]]]
    BY <2>1
  <2>2. svc' = svc \/ \E id, c : svc' = [svc EXCEPT ![h].conns[id] = c]
    BY DEF UserSends, UserLeaves, CloseConn
  <2>3. \A id, c : DOMAIN [svc[h].conns EXCEPT ![id] = c] = DOMAIN svc[h].conns
    OBVIOUS
  <2>4. QED
    BY <2>1, <2>2, <2>3
<1>5. [svc[h] EXCEPT !.conns = C].sessions = svc[h].sessions /\ [svc[h] EXCEPT !.conns = C].conns = C
  BY <1>1, <1>2, SessionFields
<1>6. /\ DOMAIN svc' = DOMAIN svc
      /\ \A k \in DOMAIN svc : /\ svc'[k].sessions = svc[k].sessions
                               /\ DOMAIN svc'[k].conns = DOMAIN svc[k].conns
  BY <1>1, <1>2, <1>4, <1>5
<1>7. QED
  BY <1>3, <1>6, SubMaps DEF OldSessions, ServiceSessionsShrink, AgentSessionsShrink, ConnsShrink, ObjectsKept
----------------------------------------------------------------------------
(* The steps that put sessions into the tables. *)

(* What __OnUserConnect adds for user seq, with agent a: a Session object,   *)
(* an entry in the service and one in the agent, and CONNECT.                *)
Accepts(h, a) ==
    LET seq == svc[h].next_seq + 1 IN
    /\ h \in 1..nsvc /\ svc[h].inited /\ a \in svc[h].agents
    /\ a \in DOMAIN agents /\ svc[h].port \in agents[a].ports
    /\ ses' = Put(ses, nses + 1, NewSession(seq, a, FALSE))
    /\ DOMAIN svc' = 1..nsvc
    /\ \A k \in 1..nsvc : svc'[k].sessions =
          IF k = h THEN Put(svc[h].sessions, seq, nses + 1) ELSE svc[k].sessions
    /\ \A k \in 1..nsvc : svc'[k].next_seq = IF k = h THEN seq ELSE svc[k].next_seq
    /\ \A k \in 1..nsvc : svc'[k].conns = IF k = h THEN Put(svc[h].conns, seq, "open")
                                          ELSE svc[k].conns
    /\ DOMAIN agents' = DOMAIN agents
    /\ \A b \in DOMAIN agents : /\ agents'[b].ports = agents[b].ports
                                /\ agents'[b].sessions =
                                     IF b = a THEN Put(agents[a].sessions, seq, nses + 1)
                                     ELSE agents[b].sessions
    /\ r2a' = r2a \cup {Msg("CONNECT", a, svc[h].port, seq)}

(* When the registry is right, every accepted user is one of these. *)
LEMMA OnUserConnectAccepts ==
    ASSUME RegistryIInv, NEW h \in ServiceIds, OnUserConnect(h)
    PROVE  \E a : Accepts(h, a)
<1> DEFINE seq == svc[h].next_seq + 1
           conn == [svc EXCEPT ![h].next_seq = seq, ![h].conns = Put(@, seq, "open")]
<1>1. TypeOK /\ svc \in [1..nsvc -> ServiceInfo(nses)]
  BY DEF RegistryIInv, TypeOK
<1>2. h \in 1..nsvc /\ svc[h] \in ServiceInfo(nses) /\ svc[h].inited
  BY <1>1 DEF OnUserConnect, OnAccept, NextSeq, RunningServer
<1>3. svc[h].port \in DOMAIN services /\ services[svc[h].port] = h
  BY <1>1, <1>2 DEF RegistryIInv, ListenerInv
<1>4. svc[h].agents # {} /\ \A a \in svc[h].agents : a \in DOMAIN agents /\ svc[h].port \in agents[a].ports
  BY <1>3 DEF RegistryIInv, RegistryInv
<1>5. PICK a \in svc[h].agents :
         /\ svc' = [conn EXCEPT ![h].sessions = Put(@, seq, nses + 1)]
         /\ agents' = [agents EXCEPT ![a].sessions = Put(@, seq, nses + 1)]
         /\ ses' = Put(ses, nses + 1, NewSession(seq, a, FALSE))
         /\ r2a' = r2a \cup {Msg("CONNECT", a, svc[h].port, seq)}
  BY <1>4 DEF OnUserConnect, OnAccept, NextSeq, Picked
<1>6. /\ DOMAIN conn = 1..nsvc /\ \A i \in 1..nsvc : i # h => conn[i] = svc[i]
      /\ conn[h] = [svc[h] EXCEPT !.next_seq = seq, !.conns = Put(svc[h].conns, seq, "open")]
  BY <1>1, <1>2
<1>7. /\ conn[h].sessions = svc[h].sessions
      /\ \A X : LET t == [conn[h] EXCEPT !.sessions = X] IN
               t.next_seq = seq /\ t.sessions = X /\ t.conns = Put(svc[h].conns, seq, "open")
  BY <1>2, <1>6 DEF ServiceInfo
<1> HIDE DEF conn
<1>8. svc' = [conn EXCEPT ![h] = [conn[h] EXCEPT !.sessions = Put(conn[h].sessions, seq, nses + 1)]]
  BY <1>5
<1>9. /\ DOMAIN svc' = 1..nsvc
      /\ svc'[h].next_seq = seq /\ svc'[h].sessions = Put(svc[h].sessions, seq, nses + 1)
      /\ svc'[h].conns = Put(svc[h].conns, seq, "open")
      /\ \A k \in 1..nsvc : k # h => svc'[k] = svc[k]
  BY <1>2, <1>6, <1>7, <1>8
<1>10. /\ DOMAIN agents' = DOMAIN agents
       /\ \A b \in DOMAIN agents : /\ agents'[b].ports = agents[b].ports
                                   /\ agents'[b].sessions =
                                        IF b = a THEN Put(agents[a].sessions, seq, nses + 1)
                                        ELSE agents[b].sessions
  <2>1. a \in DOMAIN agents /\ agents[a] \in AgentInfo(nses)
    BY <1>1, <1>4 DEF TypeOK
  <2>2. agents' = [agents EXCEPT ![a] = [agents[a] EXCEPT !.sessions = Put(agents[a].sessions, seq, nses + 1)]]
    BY <1>5
  <2>3. \A X : LET t == [agents[a] EXCEPT !.sessions = X] IN t.ports = agents[a].ports /\ t.sessions = X
    BY <2>1 DEF AgentInfo
  <2>4. QED
    BY <2>1, <2>2, <2>3
<1>11. Accepts(h, a)
  BY <1>2, <1>4, <1>5, <1>9, <1>10 DEF Accepts
<1>12. QED
  BY <1>11

(* A2R::SESSION for a port without service: only the port is noted. *)
LEMMA SessionConnNotes ==
    ASSUME RegistryIInv, NEW a \in AgentIds, NEW p \in Ports, NEW id \in UserIds,
           SessionConn(a, p, id), a \in DOMAIN agents, p \notin DOMAIN services
    PROVE  /\ svc' = svc /\ ses' = ses /\ OldSessions
           /\ a \in DOMAIN agents /\ agents[a].ports = {} /\ DOMAIN agents' = DOMAIN agents
           /\ \A b \in DOMAIN agents :
                 /\ agents'[b].sessions = agents[b].sessions
                 /\ agents'[b].ports = IF b = a THEN {p} ELSE agents[b].ports
<1>1. TypeOK
  BY DEF RegistryIInv
<1>2. /\ a \in DOMAIN agents /\ agents[a].ports = {}
      /\ agents' = [agents EXCEPT ![a] = [agents[a] EXCEPT !.ports = agents[a].ports \cup {p}]]
      /\ svc' = svc /\ ses' = ses
  BY DEF SessionConn, MayClaim
<1>3. agents[a] \in AgentInfo(nses)
  BY <1>1, <1>2 DEF TypeOK
<1>4. \A X : LET t == [agents[a] EXCEPT !.ports = X] IN t.ports = X /\ t.sessions = agents[a].sessions
  BY <1>3 DEF AgentInfo
<1>5. DOMAIN agents' = DOMAIN agents
      /\ \A b \in DOMAIN agents : /\ agents'[b].sessions = agents[b].sessions
                                  /\ agents'[b].ports = IF b = a THEN {p} ELSE agents[b].ports
  BY <1>2, <1>4
<1>6. OldSessions
  BY <1>2, <1>5, SubMaps DEF OldSessions, ServiceSessionsShrink, AgentSessionsShrink, ConnsShrink, ObjectsKept
<1>7. QED
  BY <1>2, <1>5, <1>6

(* A2R::SESSION that makes another session: number 0, under the user's key, *)
(* for a connection that had no port.                                       *)
Makes(a, p, id) ==
    /\ services[p] \in DOMAIN svc /\ svc[services[p]].port = p /\ DOMAIN svc' = DOMAIN svc
    /\ a \in DOMAIN agents /\ agents[a].ports = {} /\ DOMAIN agents' = DOMAIN agents
    /\ ses' = Put(ses, nses + 1, NewSession(0, a, TRUE))
    /\ \A k \in DOMAIN svc : /\ svc'[k].port = svc[k].port /\ svc'[k].conns = svc[k].conns
                             /\ svc'[k].next_seq = svc[k].next_seq
                             /\ svc'[k].sessions =
                                  IF k = services[p] THEN Put(svc[k].sessions, id, nses + 1)
                                  ELSE svc[k].sessions
    /\ \A b \in DOMAIN agents : /\ agents'[b].ports = IF b = a THEN {p} ELSE agents[b].ports
                                /\ agents'[b].sessions =
                                     IF b = a THEN Put(agents[a].sessions, id, nses + 1)
                                     ELSE agents[b].sessions
LEMMA SessionConnMakes ==
    ASSUME RegistryIInv, NEW a \in AgentIds, NEW p \in Ports, NEW id \in UserIds,
           DeclaresFor(a, p, id), a \notin DOMAIN svc[services[p]].sessions
    PROVE  Makes(a, p, id)
<1> DEFINE h == services[p]
           A == [agents EXCEPT ![a] = [agents[a] EXCEPT !.ports = agents[a].ports \cup {p}]]
<1>0. SessionConn(a, p, id) /\ a \in DOMAIN agents /\ p \in DOMAIN services
  BY DEF DeclaresFor
<1>1. TypeOK /\ agents[a].ports = {}
  BY <1>0 DEF RegistryIInv, SessionConn, MayClaim
<1>2. h \in DOMAIN svc /\ svc[h].port = p /\ svc[h] \in ServiceInfo(nses)
  BY <1>0, <1>1 DEF RegistryIInv, RegistryInv, TypeOK
<1>3. /\ svc' = [svc EXCEPT ![h] = [svc[h] EXCEPT !.sessions = Put(svc[h].sessions, id, nses + 1)]]
      /\ ses' = Put(ses, nses + 1, NewSession(0, a, TRUE))
      /\ agents' = [A EXCEPT ![a] = [A[a] EXCEPT !.sessions = Put(A[a].sessions, id, nses + 1)]]
  BY <1>0 DEF SessionConn
<1>4. \A X : LET t == [svc[h] EXCEPT !.sessions = X] IN
         /\ t.port = svc[h].port /\ t.sessions = X /\ t.conns = svc[h].conns
         /\ t.next_seq = svc[h].next_seq
  BY <1>2 DEF ServiceInfo
<1>5. /\ DOMAIN A = DOMAIN agents /\ \A b \in DOMAIN agents : b # a => A[b] = agents[b]
      /\ A[a].ports = {p} /\ A[a].sessions = agents[a].sessions
      /\ \A X : LET t == [A[a] EXCEPT !.sessions = X] IN t.ports = A[a].ports /\ t.sessions = X
  <2>1. agents[a] \in AgentInfo(nses)
    BY <1>0, <1>1 DEF TypeOK
  <2>2. QED
    BY <1>0, <1>1, <2>1 DEF AgentInfo
<1> HIDE DEF A
<1>6. /\ DOMAIN agents' = DOMAIN agents
      /\ \A b \in DOMAIN agents : /\ agents'[b].ports = IF b = a THEN {p} ELSE agents[b].ports
                                  /\ agents'[b].sessions =
                                       IF b = a THEN Put(agents[a].sessions, id, nses + 1)
                                       ELSE agents[b].sessions
  BY <1>0, <1>3, <1>5
<1>7. QED
  BY <1>0, <1>1, <1>2, <1>3, <1>4, <1>6 DEF Makes

(* A2R::SESSION that takes a session over: the agent of the object changes,  *)
(* and the object moves from the sessions of one connection to another's.    *)
LEMMA SessionConnTakes ==
    ASSUME RegistryIInv, NEW a \in AgentIds, NEW p \in Ports, NEW id \in UserIds,
           DeclaresFor(a, p, id), a \in DOMAIN svc[services[p]].sessions
    PROVE  LET s == svc[services[p]].sessions[a] IN
           /\ svc' = svc /\ s \in 1..nses /\ DOMAIN ses' = DOMAIN ses
           /\ ses'[s].agent_id = a
           /\ \A t \in DOMAIN ses : /\ ses'[t].seq = ses[t].seq
                                    /\ t # s => ses'[t] = ses[t]
                                    /\ ses'[t].user_disconnected = ses[t].user_disconnected
                                    /\ ses'[t].tunnel_disconnected = ses[t].tunnel_disconnected
           /\ a \in DOMAIN agents /\ DOMAIN agents' = DOMAIN agents
           /\ agents'[a].sessions = Put(agents[a].sessions, id, s) /\ p \in agents'[a].ports
           /\ \A b \in DOMAIN agents :
                 /\ agents[b].ports \subseteq agents'[b].ports
                 /\ b # a => SubMap(agents'[b].sessions, agents[b].sessions)
<1> DEFINE h == services[p]
           s == svc[h].sessions[a]
           old == ses[s].agent_id
           noted == [agents EXCEPT ![a] = [agents[a] EXCEPT !.ports = agents[a].ports \cup {p}]]
<1>0. SessionConn(a, p, id) /\ a \in DOMAIN agents /\ p \in DOMAIN services
  BY DEF DeclaresFor
<1>1. TypeOK /\ h \in 1..nsvc /\ a \in DOMAIN agents
  BY <1>0 DEF RegistryIInv, TypeOK
<1>2. s \in 1..nses
  BY <1>1, SessionOfService
<1>3. /\ ses' = [ses EXCEPT ![s].agent_id = a, ![s].using_session_conn = TRUE]
      /\ svc' = svc
      /\ agents' = [b \in DOMAIN agents |->
            IF b = a THEN [noted[b] EXCEPT !.sessions = Put(noted[b].sessions, id, s)]
            ELSE IF b = old THEN [noted[b] EXCEPT !.sessions = Drop(noted[b].sessions, {id})]
            ELSE noted[b]]
  BY <1>0 DEF SessionConn
<1>4. /\ DOMAIN ses' = DOMAIN ses /\ ses'[s].agent_id = a
      /\ \A t \in DOMAIN ses : /\ ses'[t].seq = ses[t].seq
                               /\ t # s => ses'[t] = ses[t]
                               /\ ses'[t].user_disconnected = ses[t].user_disconnected
                               /\ ses'[t].tunnel_disconnected = ses[t].tunnel_disconnected
  <2>1. ses \in [1..nses -> Session]
    BY <1>1 DEF TypeOK
  <2>2. ses' = [ses EXCEPT ![s] = [ses[s] EXCEPT !.agent_id = a, !.using_session_conn = TRUE]]
    BY <1>2, <1>3, <2>1
  <2>3. LET r == [ses[s] EXCEPT !.agent_id = a, !.using_session_conn = TRUE] IN
        /\ r.seq = ses[s].seq /\ r.user_disconnected = ses[s].user_disconnected
        /\ r.agent_id = a /\ r.tunnel_disconnected = ses[s].tunnel_disconnected
    BY <1>2, <2>1 DEF Session
  <2>4. PICK r : /\ ses' = [ses EXCEPT ![s] = r]
                 /\ r.seq = ses[s].seq /\ r.user_disconnected = ses[s].user_disconnected
                 /\ r.agent_id = a /\ r.tunnel_disconnected = ses[s].tunnel_disconnected
    BY <2>2, <2>3
  <2>5. s \in DOMAIN ses
    BY <1>2, <2>1
  <2> HIDE DEF s
  <2>6. QED
    BY <2>4, <2>5
<1>5. \A b \in DOMAIN agents : agents[b] \in AgentInfo(nses)
  BY <1>1 DEF TypeOK
<1>6. ASSUME NEW b \in DOMAIN agents
      PROVE  /\ noted[b].sessions = agents[b].sessions /\ agents[b].ports \subseteq noted[b].ports
             /\ b = a => p \in noted[b].ports
             /\ \A X : LET t == [noted[b] EXCEPT !.sessions = X] IN t.ports = noted[b].ports /\ t.sessions = X
  BY <1>1, <1>5 DEF AgentInfo
<1> HIDE DEF noted, old, s
<1>7. /\ DOMAIN agents' = DOMAIN agents
      /\ agents'[a].sessions = Put(agents[a].sessions, id, s) /\ p \in agents'[a].ports
      /\ \A b \in DOMAIN agents : agents[b].ports \subseteq agents'[b].ports
  <2>1. DOMAIN agents' = DOMAIN agents /\ agents'[a] = [noted[a] EXCEPT !.sessions = Put(noted[a].sessions, id, s)]
    BY <1>1, <1>3
  <2>2. ASSUME NEW b \in DOMAIN agents PROVE agents'[b].ports = noted[b].ports
    <3>1. \A X : [noted[b] EXCEPT !.sessions = X].ports = noted[b].ports
      BY <1>6
    <3>2. agents'[b] = noted[b] \/ \E X : agents'[b] = [noted[b] EXCEPT !.sessions = X]
      BY <1>3
    <3>3. QED
      BY <3>1, <3>2
  <2>3. QED
    BY <1>1, <1>6, <2>1, <2>2
<1>8. \A b \in DOMAIN agents : b # a => SubMap(agents'[b].sessions, agents[b].sessions)
  <2>1. \A b \in DOMAIN agents : b # a => \/ agents'[b].sessions = agents[b].sessions
                                          \/ agents'[b].sessions = Drop(agents[b].sessions, {id})
    BY <1>3, <1>6
  <2>2. QED
    BY <2>1, SubMaps
<1>9. QED
  BY <1>1, <1>2, <1>3, <1>4, <1>7, <1>8 DEF s

(* Every step leaves all sessions as they are, or is the end of a session or  *)
(* of an agent, or a send callback, or accepts a user, or is a SESSION for a  *)
(* port that has a service.                                                   *)
Declares == \E a \in AgentIds, p \in Ports, id \in UserIds : DeclaresFor(a, p, id)
Ends == \E h, id, r : EndOf(h, id, r)
Quiet == OldSessions /\ SessionsStay /\ ses' = ses
LEMMA SessionSteps ==
    ASSUME RegistryIInv, [Next]_vars
    PROVE  \/ Quiet \/ Ends \/ Declares
           \/ \E a \in AgentIds : OnAgentDisconnect(a)
           \/ \E h \in ServiceIds, s \in SessionIds : SendDone(h, s)
           \/ \E h \in ServiceIds, a \in AgentIds : OnUserConnect(h) /\ Accepts(h, a)
<1>1. TypeOK /\ (UNCHANGED <<agents, svc, ses>> => Quiet)
  BY UnchangedSessions DEF RegistryIInv, Quiet
<1>2. CASE UNCHANGED vars
  BY <1>1, <1>2 DEF vars
<1>3. CASE AgentStep
  <2>1. ASSUME NEW a \in AgentIds, AgentLost(a) PROVE Quiet
    BY <1>1, <2>1 DEF AgentLost
  <2>2. ASSUME NEW a \in AgentIds, NEW p \in Ports, NEW id \in UserIds,
               Data(a, p, id) \/ Disconnect(a, p, id)
        PROVE  Quiet \/ Ends
    <3>1. CASE Data(a, p, id)
      BY <1>1, <3>1 DEF Data
    <3>2. CASE Disconnect(a, p, id)
      BY <3>2, DisconnectEnds DEF Ends
    <3>3. QED
      BY <2>2, <3>1, <3>2
  <2>3. ASSUME NEW a \in AgentIds, NEW p \in Ports, NEW id \in UserIds, SessionConn(a, p, id)
        PROVE  Quiet \/ Declares
    <3>1. CASE a \notin DOMAIN agents
      BY <1>1, <2>3, <3>1, SessionConnGone
    <3>2. CASE a \in DOMAIN agents /\ p \notin DOMAIN services
      BY <2>3, <3>2, SessionConnNotes DEF Quiet, SessionsStay
    <3>3. CASE a \in DOMAIN agents /\ p \in DOMAIN services
      BY <2>3, <3>3 DEF Declares, DeclaresFor
    <3>4. QED
      BY <3>1, <3>2, <3>3
  <2>4. ASSUME NEW a \in AgentIds, NEW p \in Ports, Bind(a, p) \/ Unbind(a, p)
        PROVE  Quiet
    BY <2>4, BindOld, UnbindOld DEF Quiet, Bind, Unbind
  <2>5. ASSUME OnAgentConnect PROVE Quiet
    BY <2>5, OnAgentConnectOld DEF Quiet, OnAgentConnect, SessionsStay
  <2>6. QED
    BY <1>3, <2>1, <2>2, <2>3, <2>4, <2>5 DEF AgentStep
<1>4. CASE UserStep
  <2>1. ASSUME NEW h \in ServiceIds, OnUserConnect(h)
        PROVE  \E a \in AgentIds : OnUserConnect(h) /\ Accepts(h, a)
    <3>1. PICK a : Accepts(h, a)
      BY <2>1, OnUserConnectAccepts
    <3>2. a \in AgentIds
      BY <1>1, <3>1 DEF Accepts, TypeOK
    <3>3. QED
      BY <2>1, <3>1, <3>2
  <2>2. ASSUME NEW h \in ServiceIds, RunStrand(h) PROVE Quiet \/ Ends
    <3>1. CASE OnUserRecv(h) \/ LateUserEvent(h)
      BY <1>1, <3>1 DEF OnUserRecv, LateUserEvent
    <3>2. CASE OnUserDisconnect(h)
      <4>1. DOMAIN svc = 1..nsvc
        BY <1>1 DEF TypeOK
      <4>2. QED
        BY <3>2, <4>1, OnUserDisconnectEnds DEF Quiet, Ends, SessionsStay
    <3>3. CASE CloseConn(h)
      BY <3>3, ConnStepsOld DEF Quiet, SessionsStay
    <3>4. QED
      BY <2>2, <3>1, <3>2, <3>3 DEF RunStrand
  <2>3. ASSUME NEW h \in ServiceIds, NEW id \in UserIds, UserSends(h, id) \/ UserLeaves(h, id)
        PROVE  Quiet
    BY <2>3, ConnStepsOld DEF Quiet, SessionsStay
  <2>4. QED
    BY <1>4, <2>1, <2>2, <2>3 DEF UserStep
<1>5. QED
  BY <1>2, <1>3, <1>4 DEF Next

(* Unless a user is accepted or SESSION finds its service, the tables hold    *)
(* only old sessions.                                                         *)
LEMMA OldOrNewSessions ==
    ASSUME RegistryIInv, [Next]_vars
    PROVE  \/ OldSessions /\ ~ \E h \in ServiceIds : OnUserConnect(h)
           \/ Declares
           \/ \E h \in ServiceIds, a \in AgentIds : OnUserConnect(h) /\ Accepts(h, a)
<1>1. TypeOK
  BY DEF RegistryIInv
<1>2. Ends => OldSessions
  BY <1>1, EndOfOld DEF Ends
<1>3. ASSUME NEW h \in ServiceIds, OnUserConnect(h)
      PROVE  \E a \in AgentIds : OnUserConnect(h) /\ Accepts(h, a)
  <2>1. PICK a : Accepts(h, a)
    BY <1>3, OnUserConnectAccepts
  <2>2. a \in AgentIds
    BY <1>1, <2>1 DEF Accepts, TypeOK
  <2>3. QED
    BY <1>3, <2>1, <2>2
<1>4. QED
  BY <1>2, <1>3, SessionSteps, OnAgentDisconnectOld, SendDoneCleans DEF Quiet

(* Services keep their port, and one that has been shut stays shut. *)
ServicesKept ==
    \A h \in DOMAIN svc : /\ h \in DOMAIN svc' /\ svc'[h].port = svc[h].port
                          /\ svc'[h].inited => svc[h].inited
LEMMA ServicesStay ==
    ASSUME RegistryIInv, [Next]_vars
    PROVE  ServicesKept
<1>1. RegistryKept => ServicesKept
  BY DEF RegistryKept, ServicesKept
<1>2. svc \in [1..nsvc -> ServiceInfo(nses)] /\ nsvc \in 0..MaxServices
  BY DEF RegistryIInv, TypeOK
<1>3. CASE UNCHANGED vars
  BY <1>1, <1>3, OtherStepsKept DEF vars
<1>4. CASE AgentStep
  <2>1. ASSUME NEW a \in AgentIds, AgentLost(a) \/ OnAgentDisconnect(a) PROVE ServicesKept
    <3>1. CASE AgentLost(a)
      BY <1>1, <3>1, OtherStepsKept DEF AgentLost
    <3>2. CASE OnAgentDisconnect(a)
      BY <3>2, OnAgentDisconnectFacts DEF ServicesKept
    <3>3. QED
      BY <2>1, <3>1, <3>2
  <2>2. ASSUME NEW a \in AgentIds, NEW p \in Ports, Bind(a, p) PROVE ServicesKept
    <3>1. \/ svc' = svc
          \/ services[p] \in 1..nsvc /\ \E X : svc' = [svc EXCEPT ![services[p]] = [svc[services[p]] EXCEPT !.agents = X]]
          \/ \E X : svc' = Put(svc, nsvc + 1, X)
      BY <2>2 DEF Bind, RegistryIInv, TypeOK
    <3>2. \A h \in 1..nsvc : \A X : LET t == [svc[h] EXCEPT !.agents = X] IN
             t.port = svc[h].port /\ t.inited = svc[h].inited
      BY <1>2 DEF ServiceInfo
    <3>3. nsvc + 1 \notin 1..nsvc
      BY <1>2, ConstantsAssumption
    <3>4. CASE svc' = svc
      BY <3>4 DEF ServicesKept
    <3>5. ASSUME NEW X, services[p] \in 1..nsvc,
                 svc' = [svc EXCEPT ![services[p]] = [svc[services[p]] EXCEPT !.agents = X]]
          PROVE  ServicesKept
      BY <1>2, <3>2, <3>5 DEF ServicesKept
    <3>6. ASSUME NEW X, svc' = Put(svc, nsvc + 1, X) PROVE ServicesKept
      BY <1>2, <3>3, <3>6 DEF ServicesKept, Put
    <3>7. QED
      BY <3>1, <3>4, <3>5, <3>6
  <2>3. ASSUME NEW a \in AgentIds, NEW p \in Ports, Unbind(a, p) PROVE ServicesKept
    <3>1. svc' = svc \/ (services[p] \in 1..nsvc /\ svc' = [svc EXCEPT ![services[p]] = RemoveAgent(svc[services[p]], a)])
      BY <2>3 DEF Unbind, RegistryIInv, TypeOK
    <3>2. \A h \in 1..nsvc : svc[h] \in ServiceInfo(nses)
      BY <1>2
    <3>3. \A h \in 1..nsvc : /\ RemoveAgent(svc[h], a).port = svc[h].port
                             /\ RemoveAgent(svc[h], a).inited => svc[h].inited
      BY <3>2, RemoveAgentFacts
    <3>4. QED
      BY <1>2, <3>1, <3>3 DEF ServicesKept
  <2>4. ASSUME NEW a \in AgentIds, NEW p \in Ports, NEW id \in UserIds,
               Data(a, p, id) \/ Disconnect(a, p, id) \/ SessionConn(a, p, id)
        PROVE  ServicesKept
    <3>1. CASE Data(a, p, id)
      BY <1>1, <3>1, OtherStepsKept DEF Data
    <3>2. QED
      BY <1>1, <2>4, <3>1, DisconnectKept, SessionConnKept
  <2>5. QED
    BY <1>1, <1>4, <2>1, <2>2, <2>3, <2>4, OnAgentConnectKept DEF AgentStep
<1>5. CASE UserStep
  <2>1. ASSUME NEW h \in ServiceIds, RunStrand(h) PROVE ServicesKept
    <3>1. CASE OnUserRecv(h) \/ LateUserEvent(h)
      BY <1>1, <3>1, OtherStepsKept DEF OnUserRecv, LateUserEvent
    <3>2. QED
      BY <1>1, <2>1, <3>1, ConnStepsKept, OnUserDisconnectKept DEF RunStrand
  <2>2. QED
    BY <1>1, <1>5, <2>1, OnUserConnectKept, ConnStepsKept, SendDoneKept DEF UserStep
<1>6. QED
  BY <1>3, <1>4, <1>5 DEF Next

----------------------------------------------------------------------------
(* What is in the tables of the services. *)

(* A session object of a service's table exists. *)
LEMMA TableObjects ==
    ASSUME TypeOK, NEW h \in DOMAIN svc, NEW id \in DOMAIN svc[h].sessions
    PROVE  svc[h].sessions[id] \in DOMAIN ses /\ svc[h].sessions[id] \in 1..nses /\ id \in UserIds
<1>1. h \in 1..nsvc /\ DOMAIN ses = 1..nses
  BY DEF TypeOK
<1>2. QED
  BY <1>1, SessionOfService

(* An object is made under a new identity and leaves the others alone. *)
LEMMA NewObject ==
    ASSUME TypeOK, NEW r, ses' = Put(ses, nses + 1, r)
    PROVE  /\ ses'[nses + 1] = r /\ nses + 1 \notin 1..nses
           /\ \A s \in DOMAIN ses : s # nses + 1 /\ s \in DOMAIN ses' /\ ses'[s] = ses[s]
<1>1. DOMAIN ses = 1..nses /\ nses \in 0..MaxSessions
  BY DEF TypeOK
<1>2. nses + 1 \notin 1..nses
  BY <1>1, ConstantsAssumption
<1>3. QED
  BY <1>1, <1>2 DEF Put

(* A new session r enters the table of service n, under key. *)
Adds(n, key, r) ==
    /\ n \in DOMAIN svc /\ DOMAIN svc' = DOMAIN svc
    /\ r.seq \in {key, 0} /\ ~r.user_disconnected
    /\ ses' = Put(ses, nses + 1, r)
    /\ \A k \in DOMAIN svc : svc'[k].sessions =
          IF k = n THEN Put(svc[k].sessions, key, nses + 1) ELSE svc[k].sessions

(* An entry of the table is then the new one, or it was there before. *)
LEMMA AddsEntry ==
    ASSUME TypeOK, NEW n, NEW key, NEW r, Adds(n, key, r),
           NEW h \in DOMAIN svc', NEW id \in DOMAIN svc'[h].sessions
    PROVE  /\ h \in DOMAIN svc
           /\ \/ h = n /\ id = key /\ svc'[h].sessions[id] = nses + 1
              \/ /\ id \in DOMAIN svc[h].sessions /\ ~(h = n /\ id = key)
                 /\ svc'[h].sessions[id] = svc[h].sessions[id]
                 /\ svc[h].sessions[id] \in 1..nses /\ svc[h].sessions[id] # nses + 1
                 /\ ses'[svc[h].sessions[id]] = ses[svc[h].sessions[id]]
<1>1. h \in DOMAIN svc
      /\ svc'[h].sessions = IF h = n THEN Put(svc[h].sessions, key, nses + 1) ELSE svc[h].sessions
  BY DEF Adds
<1>2. CASE h = n /\ id = key
  BY <1>1, <1>2 DEF Put
<1>3. CASE ~(h = n /\ id = key)
  <2>1. id \in DOMAIN svc[h].sessions /\ svc'[h].sessions[id] = svc[h].sessions[id]
    BY <1>1, <1>3 DEF Put
  <2>2. svc[h].sessions[id] \in DOMAIN ses /\ svc[h].sessions[id] \in 1..nses
    BY <1>1, <2>1, TableObjects
  <2>3. QED
    BY <1>1, <1>3, <2>1, <2>2, NewObject DEF Adds
<1>4. QED
  BY <1>2, <1>3

(* __OnUserConnect and a SESSION that finds no session are such steps. *)
LEMMA AcceptsAdds ==
    ASSUME TypeOK, NEW k, NEW a, Accepts(k, a)
    PROVE  LET r == NewSession(svc[k].next_seq + 1, a, FALSE) IN
           /\ Adds(k, svc[k].next_seq + 1, r)
           /\ r.agent_id = a /\ r.seq = svc[k].next_seq + 1
BY DEF TypeOK, Accepts, Adds, NewSession
LEMMA MakesAdds ==
    ASSUME NEW a, NEW p, NEW id, Makes(a, p, id)
    PROVE  LET r == NewSession(0, a, TRUE) IN
           Adds(services[p], id, r) /\ r.agent_id = a /\ r.seq = 0
BY DEF Makes, Adds, NewSession

(* A session has its number as key, or has number 0; it is made for one      *)
(* entry of one service and never moves.                                     *)
KeyIsSeq ==
    \A h \in DOMAIN svc : \A id \in DOMAIN svc[h].sessions :
        ses[svc[h].sessions[id]].seq \in {id, 0}
UniqueHome ==
    \A h, k \in DOMAIN svc : \A id \in DOMAIN svc[h].sessions : \A j \in DOMAIN svc[k].sessions :
        svc[h].sessions[id] = svc[k].sessions[j] => h = k /\ id = j

(* The tables hold old sessions only, or one more, or a SESSION has taken     *)
(* over the agent of one.                                                     *)
OnlyAgentMoves ==
    /\ svc' = svc /\ DOMAIN ses' = DOMAIN ses
    /\ \A t \in DOMAIN ses : /\ ses'[t].seq = ses[t].seq
                             /\ ses'[t].user_disconnected = ses[t].user_disconnected
                             /\ ses'[t].tunnel_disconnected = ses[t].tunnel_disconnected
LEMMA DeclaresAddsOrMoves ==
    ASSUME RegistryIInv, Declares
    PROVE  OnlyAgentMoves \/ \E n, key, r : Adds(n, key, r)
<1>1. PICK a \in AgentIds, p \in Ports, id \in UserIds : DeclaresFor(a, p, id)
  BY DEF Declares
<1>2. CASE a \in DOMAIN svc[services[p]].sessions
  BY <1>1, <1>2, SessionConnTakes DEF OnlyAgentMoves
<1>3. CASE a \notin DOMAIN svc[services[p]].sessions
  <2>1. Makes(a, p, id)
    BY <1>1, <1>3, SessionConnMakes
  <2>2. Adds(services[p], id, NewSession(0, a, TRUE))
    BY <2>1, MakesAdds
  <2>3. QED
    BY <2>2
<1>4. QED
  BY <1>2, <1>3
LEMMA TableSteps ==
    ASSUME RegistryIInv, [Next]_vars
    PROVE  OldSessions \/ OnlyAgentMoves \/ \E n, key, r : Adds(n, key, r)
<1>1. ASSUME NEW k, NEW a, Accepts(k, a)
      PROVE  \E n, key, r : Adds(n, key, r)
  <2>1. TypeOK
    BY DEF RegistryIInv
  <2>2. Adds(k, svc[k].next_seq + 1, NewSession(svc[k].next_seq + 1, a, FALSE))
    BY <1>1, <2>1, AcceptsAdds
  <2>3. QED
    BY <2>2
<1>2. QED
  BY <1>1, OldOrNewSessions, DeclaresAddsOrMoves

LEMMA KeyIsSeqInductive ==
    ASSUME RegistryIInv, KeyIsSeq, [Next]_vars
    PROVE  KeyIsSeq'
<1>1. TypeOK
  BY DEF RegistryIInv
<1>2. SUFFICES ASSUME NEW h \in DOMAIN svc', NEW id \in DOMAIN svc'[h].sessions
               PROVE  ses'[svc'[h].sessions[id]].seq \in {id, 0}
  BY DEF KeyIsSeq
<1>3. CASE OldSessions
  <2>1. h \in DOMAIN svc /\ id \in DOMAIN svc[h].sessions /\ svc'[h].sessions[id] = svc[h].sessions[id]
    BY <1>3 DEF OldSessions, ServiceSessionsShrink, SubMap
  <2>2. ses'[svc[h].sessions[id]].seq = ses[svc[h].sessions[id]].seq
    BY <1>1, <1>3, <2>1, TableObjects DEF OldSessions, ObjectsKept
  <2>3. QED
    BY <2>1, <2>2 DEF KeyIsSeq
<1>4. ASSUME NEW n, NEW key, NEW r, Adds(n, key, r)
      PROVE  ses'[svc'[h].sessions[id]].seq \in {id, 0}
  <2>1. ses'[nses + 1] = r /\ r.seq \in {key, 0}
    BY <1>1, <1>4, NewObject DEF Adds
  <2>2. QED
    BY <1>1, <1>4, <2>1, AddsEntry DEF KeyIsSeq
<1>5. CASE OnlyAgentMoves
  BY <1>1, <1>5, TableObjects DEF OnlyAgentMoves, KeyIsSeq
<1>6. QED
  BY <1>3, <1>4, <1>5, TableSteps

LEMMA UniqueHomeInductive ==
    ASSUME RegistryIInv, UniqueHome, [Next]_vars
    PROVE  UniqueHome'
<1>1. TypeOK
  BY DEF RegistryIInv
<1>2. SUFFICES ASSUME NEW h \in DOMAIN svc', NEW k \in DOMAIN svc',
                      NEW id \in DOMAIN svc'[h].sessions, NEW j \in DOMAIN svc'[k].sessions,
                      svc'[h].sessions[id] = svc'[k].sessions[j]
               PROVE  h = k /\ id = j
  BY DEF UniqueHome
<1>3. CASE OldSessions
  <2>1. /\ h \in DOMAIN svc /\ id \in DOMAIN svc[h].sessions /\ svc'[h].sessions[id] = svc[h].sessions[id]
        /\ k \in DOMAIN svc /\ j \in DOMAIN svc[k].sessions /\ svc'[k].sessions[j] = svc[k].sessions[j]
    BY <1>3 DEF OldSessions, ServiceSessionsShrink, SubMap
  <2>2. svc[h].sessions[id] = svc[k].sessions[j]
    BY <1>2, <2>1
  <2>3. QED
    BY <2>1, <2>2 DEF UniqueHome
<1>4. ASSUME NEW n, NEW key, NEW r, Adds(n, key, r)
      PROVE  h = k /\ id = j
  BY <1>1, <1>2, <1>4, AddsEntry DEF UniqueHome
<1>5. CASE OnlyAgentMoves
  BY <1>2, <1>5 DEF OnlyAgentMoves, UniqueHome
<1>6. QED
  BY <1>3, <1>4, <1>5, TableSteps

----------------------------------------------------------------------------
(* Where the data of users goes.  A session belongs to an agent that was told *)
(* of its user with CONNECT; this is what __OnUserRecv relies on when it      *)
(* forwards to agent_id.                                                      *)
ToldOf(a, p, id) ==
    \E b \in AgentIds : Msg("CONNECT", b, p, id) \in r2a /\ SameAgent(a, b)
OwnAgent ==
    \A h \in DOMAIN svc : \A id \in DOMAIN svc[h].sessions :
        ToldOf(ses[svc[h].sessions[id]].agent_id, svc[h].port, id)

(* Steps on behalf of agents send nothing; SESSION alone claims a user. *)
LEMMA AgentStepsTellNobody ==
    ASSUME AgentStep
    PROVE  /\ r2a' = r2a
           /\ \/ claim' = claim
              \/ \E a \in AgentIds, p \in Ports, id \in UserIds : SessionConn(a, p, id)
<1>1. CASE OnAgentConnect
  BY <1>1 DEF OnAgentConnect
<1>2. ASSUME NEW a \in AgentIds, AgentLost(a) \/ OnAgentDisconnect(a)
      PROVE  r2a' = r2a /\ claim' = claim
  BY <1>2 DEF AgentLost, OnAgentDisconnect
<1>3. ASSUME NEW a \in AgentIds, NEW p \in Ports, Bind(a, p) \/ Unbind(a, p)
      PROVE  r2a' = r2a /\ claim' = claim
  BY <1>3 DEF Bind, Unbind
<1>4. ASSUME NEW a \in AgentIds, NEW p \in Ports, NEW id \in UserIds, Data(a, p, id) \/ Disconnect(a, p, id)
      PROVE  r2a' = r2a /\ claim' = claim
  BY <1>4 DEF Data, Disconnect
<1>5. ASSUME NEW a \in AgentIds, NEW p \in Ports, NEW id \in UserIds, SessionConn(a, p, id)
      PROVE  r2a' = r2a
  BY <1>5 DEF SessionConn
<1>6. QED
  BY <1>1, <1>2, <1>3, <1>4, <1>5 DEF AgentStep

(* Messages are not taken back, and a connection declares itself at most     *)
(* once, so who was told of a user stays true.                               *)
LEMMA ToldStays ==
    ASSUME TypeOK, [Next]_vars
    PROVE  /\ r2a \subseteq r2a' /\ DOMAIN claim \subseteq DOMAIN claim'
           /\ \A a, p, id : ToldOf(a, p, id) => ToldOf(a, p, id)'
<1>1. r2a \subseteq r2a' /\ \A a \in DOMAIN claim : a \in DOMAIN claim' /\ claim'[a] = claim[a]
  <2>1. CASE UNCHANGED vars
    BY <2>1 DEF vars
  <2>2. CASE AgentStep
    <3>1. ASSUME NEW a \in AgentIds, NEW p \in Ports, NEW id \in UserIds, SessionConn(a, p, id)
          PROVE  r2a' = r2a /\ a \notin DOMAIN claim /\ claim' = Put(claim, a, <<p, id>>)
      BY <3>1 DEF SessionConn, MayClaim
    <3>2. CASE UNCHANGED <<r2a, claim>>
      BY <3>2
    <3>3. \/ UNCHANGED <<r2a, claim>>
          \/ \E a \in AgentIds, p \in Ports, id \in UserIds : SessionConn(a, p, id)
      BY <2>2, AgentStepsTellNobody
    <3>4. QED
      BY <3>1, <3>2, <3>3 DEF Put
  <2>3. CASE UserStep
    <3>1. claim' = claim
      BY <2>3 DEF UserStep, OnUserConnect, RunStrand, OnUserRecv, OnUserDisconnect, CloseConn,
                  LateUserEvent, UserSends, UserLeaves, SendDone
    <3>2. ASSUME NEW h \in ServiceIds, OnUserConnect(h) \/ OnUserDisconnect(h) \/ OnUserRecv(h)
          PROVE  r2a \subseteq r2a'
      BY <3>2 DEF OnUserConnect, OnUserDisconnect, OnUserRecv
    <3>3. \/ r2a' = r2a
          \/ \E h \in ServiceIds : OnUserConnect(h) \/ OnUserDisconnect(h) \/ OnUserRecv(h)
      BY <2>3 DEF UserStep, RunStrand, CloseConn, LateUserEvent, UserSends, UserLeaves, SendDone
    <3>4. QED
      BY <3>1, <3>2, <3>3
  <2>4. QED
    BY <2>1, <2>2, <2>3 DEF Next
<1>2. \A a, b : SameAgent(a, b) => SameAgent(a, b)'
  BY <1>1 DEF SameAgent
<1>3. QED
  BY <1>1, <1>2 DEF ToldOf

(* The agent of an entry of a service's table: as before, or one that was    *)
(* told of the user; or a SESSION has taken the session over.                *)
Kept(h, id) ==
    /\ h \in DOMAIN svc /\ id \in DOMAIN svc[h].sessions
    /\ svc'[h].port = svc[h].port
    /\ ses'[svc'[h].sessions[id]].agent_id = ses[svc[h].sessions[id]].agent_id
Told(h, id) == ToldOf(ses[svc[h].sessions[id]].agent_id, svc[h].port, id)
Taken(h, id) ==
    \E a \in AgentIds, p \in Ports, j \in UserIds :
        /\ DeclaresFor(a, p, j) /\ a \in DOMAIN svc[services[p]].sessions
        /\ h \in DOMAIN svc /\ svc' = svc
        /\ svc[h].sessions[id] = svc[services[p]].sessions[a]
        /\ ses'[svc[h].sessions[id]].agent_id = a
LEMMA AgentOfEntry ==
    ASSUME RegistryIInv, [Next]_vars, NEW h \in DOMAIN svc', NEW id \in DOMAIN svc'[h].sessions
    PROVE  Kept(h, id) \/ Told(h, id)' \/ Taken(h, id)
<1>1. TypeOK /\ ServicesKept
  BY ServicesStay DEF RegistryIInv
<1>2. CASE OldSessions
  <2>1. h \in DOMAIN svc /\ id \in DOMAIN svc[h].sessions /\ svc'[h].sessions[id] = svc[h].sessions[id]
    BY <1>2 DEF OldSessions, ServiceSessionsShrink, SubMap
  <2>2. ses'[svc[h].sessions[id]].agent_id = ses[svc[h].sessions[id]].agent_id
    BY <1>1, <1>2, <2>1, TableObjects DEF OldSessions, ObjectsKept
  <2>3. QED
    BY <1>1, <2>1, <2>2 DEF Kept, ServicesKept
<1>3. ASSUME NEW n, NEW key, NEW r, Adds(n, key, r),
             ToldOf(r.agent_id, svc[n].port, key)'
      PROVE  Kept(h, id) \/ Told(h, id)'
  <2>1. ses'[nses + 1] = r /\ svc'[n].port = svc[n].port
    BY <1>1, <1>3, NewObject DEF Adds, ServicesKept
  <2>2. CASE h = n /\ id = key /\ svc'[h].sessions[id] = nses + 1
    BY <1>3, <2>1, <2>2 DEF Told, ToldOf
  <2>3. QED
    BY <1>1, <1>3, <2>2, AddsEntry DEF Kept, ServicesKept
<1>4. ASSUME NEW k \in ServiceIds, NEW a \in AgentIds, Accepts(k, a)
      PROVE  Kept(h, id) \/ Told(h, id)'
  <2>1. PICK seq, r : Adds(k, seq, r) /\ r.agent_id = a /\ seq = svc[k].next_seq + 1
    <3> DEFINE new == NewSession(svc[k].next_seq + 1, a, FALSE)
    <3>1. Adds(k, svc[k].next_seq + 1, new) /\ new.agent_id = a
      BY <1>1, <1>4, AcceptsAdds
    <3> HIDE DEF new
    <3>2. QED
      BY <3>1
  <2>2. k \in DOMAIN svc /\ svc'[k].port = svc[k].port
    BY <1>1, <2>1 DEF Adds, ServicesKept
  <2>3. Msg("CONNECT", a, svc[k].port, seq) \in r2a'
    BY <1>4, <2>1 DEF Accepts
  <2>4. ToldOf(r.agent_id, svc[k].port, seq)'
    BY <2>1, <2>2, <2>3 DEF ToldOf, SameAgent
  <2>5. QED
    BY <1>3, <2>1, <2>4
<1>5. ASSUME NEW a \in AgentIds, NEW p \in Ports, NEW j \in UserIds, DeclaresFor(a, p, j)
      PROVE  Kept(h, id) \/ Told(h, id)' \/ Taken(h, id)
  <2>1. CASE a \notin DOMAIN svc[services[p]].sessions
    <3>1. Makes(a, p, j)
      BY <1>5, <2>1, SessionConnMakes
    <3>2. PICK n, r : Adds(n, j, r) /\ r.agent_id = a /\ n = services[p]
      BY <3>1, MakesAdds
    <3>3. svc'[n].port = p
      BY <3>1, <3>2 DEF Makes
    <3>4. PICK b \in 1..(a - 1) : Msg("CONNECT", b, p, j) \in r2a
      BY <1>5 DEF DeclaresFor, SessionConn, MayClaim
    <3>5. b \in AgentIds
      BY <3>4, ConstantsAssumption DEF AgentIds
    <3>6. r2a' = r2a /\ a \in DOMAIN claim' /\ claim'[a] = <<p, j>>
      BY <1>5 DEF DeclaresFor, SessionConn, Put
    <3>7. ToldOf(r.agent_id, svc[n].port, j)'
      BY <3>2, <3>3, <3>4, <3>5, <3>6 DEF ToldOf, SameAgent
    <3>8. QED
      BY <1>3, <3>2, <3>7
  <2>2. CASE a \in DOMAIN svc[services[p]].sessions
    <3> DEFINE s == svc[services[p]].sessions[a]
    <3>1. svc' = svc /\ ses'[s].agent_id = a /\ \A t \in DOMAIN ses : t # s => ses'[t] = ses[t]
      BY <1>5, <2>2, SessionConnTakes
    <3> HIDE DEF s
    <3>2. CASE svc[h].sessions[id] = s
      BY <1>5, <2>2, <3>1, <3>2 DEF Taken, s
    <3>3. CASE svc[h].sessions[id] # s
      <4>1. svc[h].sessions[id] \in DOMAIN ses
        BY <1>1, <3>1, TableObjects
      <4>2. QED
        BY <3>1, <3>3, <4>1 DEF Kept
    <3>4. QED
      BY <3>2, <3>3
  <2>3. QED
    BY <2>1, <2>2
<1>6. QED
  BY <1>2, <1>4, <1>5, OldOrNewSessions DEF Declares

(* Unless a SESSION takes over a session of somebody else, the agent of a    *)
(* session is one that was told of its user.                                 *)
LEMMA OwnAgentInductive ==
    ASSUME RegistryIInv, OwnAgent, [Next]_vars, ~TakesOver
    PROVE  OwnAgent'
<1>1. TypeOK
  BY DEF RegistryIInv
<1>2. SUFFICES ASSUME NEW h \in DOMAIN svc', NEW id \in DOMAIN svc'[h].sessions
               PROVE  Told(h, id)'
  BY DEF OwnAgent, Told
<1>3. ~Taken(h, id)
  BY DEF Taken, TakesOver
<1>4. ASSUME Kept(h, id) PROVE Told(h, id)'
  <2>1. ASSUME NEW a, NEW p, a = ses[svc[h].sessions[id]].agent_id, p = svc[h].port
        PROVE  Told(h, id)'
    <3>1. ToldOf(a, p, id)
      BY <1>4, <2>1 DEF OwnAgent, Kept
    <3>2. ToldOf(a, p, id)'
      BY <1>1, <3>1, ToldStays
    <3>3. QED
      BY <1>4, <2>1, <3>2 DEF Kept, Told
  <2>2. QED
    BY <2>1
<1>5. QED
  BY <1>3, <1>4, AgentOfEntry

(* With such a SESSION it may also be the connection with the user's number. *)
Namesake(a, id) == a = id /\ a \in DOMAIN claim
OwnAgentOrNamesake ==
    \A h \in DOMAIN svc : \A id \in DOMAIN svc[h].sessions :
        Told(h, id) \/ Namesake(ses[svc[h].sessions[id]].agent_id, id)
LEMMA OwnAgentOrNamesakeInductive ==
    ASSUME RegistryIInv, UniqueHome, OwnAgentOrNamesake, [Next]_vars
    PROVE  OwnAgentOrNamesake'
<1>1. TypeOK
  BY DEF RegistryIInv
<1>2. SUFFICES ASSUME NEW h \in DOMAIN svc', NEW id \in DOMAIN svc'[h].sessions
               PROVE  Told(h, id)' \/ Namesake(ses[svc[h].sessions[id]].agent_id, id)'
  BY DEF OwnAgentOrNamesake
<1>3. ASSUME Kept(h, id)
      PROVE  Told(h, id)' \/ Namesake(ses[svc[h].sessions[id]].agent_id, id)'
  <2>1. ASSUME NEW a, NEW p, a = ses[svc[h].sessions[id]].agent_id, p = svc[h].port
        PROVE  Told(h, id)' \/ Namesake(ses[svc[h].sessions[id]].agent_id, id)'
    <3>1. ToldOf(a, p, id) \/ Namesake(a, id)
      BY <1>3, <2>1 DEF OwnAgentOrNamesake, Kept, Told
    <3>2. ToldOf(a, p, id)' \/ Namesake(a, id)'
      BY <1>1, <3>1, ToldStays DEF Namesake
    <3>3. QED
      BY <1>3, <2>1, <3>2 DEF Kept, Told, Namesake
  <2>2. QED
    BY <2>1
<1>4. ASSUME Taken(h, id)
      PROVE  Namesake(ses[svc[h].sessions[id]].agent_id, id)'
  <2>1. PICK a \in AgentIds, p \in Ports, j \in UserIds :
          /\ DeclaresFor(a, p, j) /\ a \in DOMAIN svc[services[p]].sessions
          /\ h \in DOMAIN svc /\ svc' = svc
          /\ svc[h].sessions[id] = svc[services[p]].sessions[a]
          /\ ses'[svc[h].sessions[id]].agent_id = a
    BY <1>4 DEF Taken
  <2>2. services[p] \in DOMAIN svc
    BY <2>1 DEF DeclaresFor, RegistryIInv, RegistryInv
  <2>3. id = a
    BY <2>1, <2>2 DEF UniqueHome
  <2>4. a \in DOMAIN claim'
    BY <2>1 DEF DeclaresFor, SessionConn, Put
  <2>5. QED
    BY <2>1, <2>3, <2>4 DEF Namesake
<1>5. QED
  BY <1>3, <1>4, AgentOfEntry

(* A new DATA message carries what was read from the user of a session, to   *)
(* the agent of that session.                                                *)
LEMMA NewData ==
    ASSUME TypeOK, [Next]_vars, NEW m \in r2a' \ r2a, m.cmd = "DATA"
    PROVE  \E h \in DOMAIN svc : \E id \in DOMAIN svc[h].sessions :
              m = Msg("DATA", ses[svc[h].sessions[id]].agent_id, svc[h].port, id)
<1>1. \A a, p, id : Msg("CONNECT", a, p, id).cmd # "DATA" /\ Msg("DISCONNECT", a, p, id).cmd # "DATA"
  BY DEF Msg
<1>2. ASSUME NEW h \in ServiceIds, OnUserConnect(h) PROVE FALSE
  <2>1. r2a' = r2a \/ \E a, p, id : r2a' = r2a \cup {Msg("CONNECT", a, p, id)}
    BY <1>2 DEF OnUserConnect
  <2>2. QED
    BY <1>1, <2>1
<1>3. ASSUME NEW h \in ServiceIds, OnUserDisconnect(h) PROVE FALSE
  <2>1. r2a' = r2a \/ \E a, p, id : r2a' = r2a \cup {Msg("DISCONNECT", a, p, id)}
    BY <1>3 DEF OnUserDisconnect
  <2>2. QED
    BY <1>1, <2>1
<1>4. \E h \in ServiceIds : OnUserRecv(h)
  <2>1. CASE UNCHANGED vars
    BY <2>1 DEF vars
  <2>2. CASE AgentStep
    BY <2>2, AgentStepsTellNobody
  <2>3. CASE UserStep
    BY <1>2, <1>3, <2>3 DEF UserStep, RunStrand, CloseConn, LateUserEvent, UserSends, UserLeaves, SendDone
  <2>4. QED
    BY <2>1, <2>2, <2>3 DEF Next
<1>5. PICK h \in ServiceIds : OnUserRecv(h)
  BY <1>4
<1>6. h \in DOMAIN svc
  BY <1>5 DEF OnUserRecv, NextIs, RunningServer
<1>7. QED
  BY <1>5, <1>6 DEF OnUserRecv, Route

(* What was forwarded to an agent that was told of the user stays so. *)
LEMMA DataToOwnAgentInductive ==
    ASSUME RegistryIInv, OwnAgent, DataToOwnAgent, [Next]_vars
    PROVE  DataToOwnAgent'
<1>1. TypeOK
  BY DEF RegistryIInv
<1>2. SUFFICES ASSUME NEW m \in r2a', m.cmd = "DATA"
               PROVE  ToldOf(m.to, m.port, m.id)'
  BY DEF DataToOwnAgent, ToldOf
<1>3. ToldOf(m.to, m.port, m.id)
  <2>1. CASE m \in r2a
    BY <1>2, <2>1 DEF DataToOwnAgent, ToldOf
  <2>2. CASE m \notin r2a
    <3>1. PICK h \in DOMAIN svc : \E id \in DOMAIN svc[h].sessions :
             m = Msg("DATA", ses[svc[h].sessions[id]].agent_id, svc[h].port, id)
      BY <1>1, <1>2, <2>2, NewData
    <3>2. PICK id \in DOMAIN svc[h].sessions :
             m = Msg("DATA", ses[svc[h].sessions[id]].agent_id, svc[h].port, id)
      BY <3>1
    <3>3. m.to = ses[svc[h].sessions[id]].agent_id /\ m.port = svc[h].port /\ m.id = id
      BY <3>2 DEF Msg
    <3>4. QED
      BY <3>3 DEF OwnAgent
  <2>3. QED
    BY <2>1, <2>2
<1>4. QED
  BY <1>1, <1>3, ToldStays

(* What a user sends goes to the agent that was told of the user, for every  *)
(* number of agents, ports, users and sessions and in every order of binds,  *)
(* unbinds, losses and session connections, unless a SESSION message takes   *)
(* over the session that happens to have the number of its connection.  So   *)
(* that lookup in A2R::SESSION is the only way to forward to a stranger.     *)
THEOREM DataGoesToOwnAgent == Spec /\ [][~TakesOver]_vars => []DataToOwnAgent
<1>1. Init => OwnAgent /\ DataToOwnAgent
  BY DEF Init, OwnAgent, DataToOwnAgent
<1>2. RegistryIInv /\ OwnAgent /\ DataToOwnAgent /\ [Next]_vars /\ [~TakesOver]_vars
         => OwnAgent' /\ DataToOwnAgent'
  <2>1. SUFFICES ASSUME RegistryIInv, OwnAgent, DataToOwnAgent, [Next]_vars, [~TakesOver]_vars
                 PROVE  OwnAgent' /\ DataToOwnAgent'
    OBVIOUS
  <2>2. CASE UNCHANGED vars
    BY <2>1, <2>2 DEF vars, OwnAgent, ToldOf, SameAgent, DataToOwnAgent
  <2>3. CASE ~TakesOver
    BY <2>1, <2>3, OwnAgentInductive, DataToOwnAgentInductive
  <2>4. QED
    BY <2>1, <2>2, <2>3
<1>3. QED
  BY <1>1, <1>2, RegistryAlways, PTL DEF Spec

(* With SESSION as the program handles it, what a user sends goes to the      *)
(* agent that was told of the user or to a declared connection that has the   *)
(* user's number, for every number of agents, ports, users and sessions.      *)
THEOREM DataGoesToOwnAgentOrNamesake == Spec => []DataToOwnAgentOrNamesake
<1>1. Init => UniqueHome /\ OwnAgentOrNamesake /\ DataToOwnAgentOrNamesake
  BY DEF Init, UniqueHome, OwnAgentOrNamesake, DataToOwnAgentOrNamesake
<1>2. RegistryIInv /\ UniqueHome /\ OwnAgentOrNamesake /\ DataToOwnAgentOrNamesake /\ [Next]_vars
         => UniqueHome' /\ OwnAgentOrNamesake' /\ DataToOwnAgentOrNamesake'
  <2>1. SUFFICES ASSUME RegistryIInv, UniqueHome, OwnAgentOrNamesake, DataToOwnAgentOrNamesake, [Next]_vars
                 PROVE  DataToOwnAgentOrNamesake'
    BY UniqueHomeInductive, OwnAgentOrNamesakeInductive
  <2>2. TypeOK
    BY <2>1 DEF RegistryIInv
  <2>3. SUFFICES ASSUME NEW m \in r2a', m.cmd = "DATA"
                 PROVE  ToldOf(m.to, m.port, m.id)' \/ Namesake(m.to, m.id)'
    BY DEF DataToOwnAgentOrNamesake, ToldOf, Namesake
  <2>4. ToldOf(m.to, m.port, m.id) \/ Namesake(m.to, m.id)
    <3>1. CASE m \in r2a
      BY <2>1, <2>3, <3>1 DEF DataToOwnAgentOrNamesake, ToldOf, Namesake
    <3>2. CASE m \notin r2a
      <4>1. PICK h \in DOMAIN svc : \E id \in DOMAIN svc[h].sessions :
               m = Msg("DATA", ses[svc[h].sessions[id]].agent_id, svc[h].port, id)
        BY <2>1, <2>2, <2>3, <3>2, NewData
      <4>2. PICK id \in DOMAIN svc[h].sessions :
               m = Msg("DATA", ses[svc[h].sessions[id]].agent_id, svc[h].port, id)
        BY <4>1
      <4>3. m.to = ses[svc[h].sessions[id]].agent_id /\ m.port = svc[h].port /\ m.id = id
        BY <4>2 DEF Msg
      <4>4. QED
        BY <2>1, <4>3 DEF OwnAgentOrNamesake, Told
    <3>3. QED
      BY <3>1, <3>2
  <2>5. QED
    BY <2>1, <2>2, <2>4, ToldStays DEF Namesake
<1>3. QED
  BY <1>1, <1>2, RegistryAlways, PTL DEF Spec
----------------------------------------------------------------------------
(* What is cleaned. *)

(* An agent that goes is looked up in the services of its ports only: so each *)
(* of its sessions must be in one of those.                                   *)
PortsListed ==
    \A b \in DOMAIN agents : \A s \in Values(agents[b].sessions) :
        \A h \in DOMAIN svc :
            svc[h].inited /\ s \in Values(svc[h].sessions) => svc[h].port \in agents[b].ports

(* Only UNBIND takes a port from an agent that stays. *)
PortsKept == \A b \in DOMAIN agents \cap DOMAIN agents' : agents[b].ports \subseteq agents'[b].ports
LEMMA PortsStay ==
    ASSUME RegistryIInv, [Next]_vars, "UNBIND" \notin Commands
    PROVE  PortsKept
<1>1. RegistryKept => PortsKept
  BY DEF RegistryKept, PortsKept
<1>2. CASE UNCHANGED vars
  BY <1>1, <1>2, OtherStepsKept DEF vars
<1>3. CASE AgentStep
  <2>1. ASSUME NEW a \in AgentIds, AgentLost(a) \/ OnAgentDisconnect(a) PROVE PortsKept
    <3>1. CASE AgentLost(a)
      BY <1>1, <3>1, OtherStepsKept DEF AgentLost
    <3>2. CASE OnAgentDisconnect(a)
      BY <3>2, OnAgentDisconnectFacts DEF PortsKept
    <3>3. QED
      BY <2>1, <3>1, <3>2
  <2>2. ASSUME NEW a \in AgentIds, NEW p \in Ports, Bind(a, p) PROVE PortsKept
    <3>1. \A b \in DOMAIN agents : agents[b] \in AgentInfo(nses)
      BY DEF RegistryIInv, TypeOK
    <3>2. agents' = agents \/ agents' = [agents EXCEPT ![a] = [agents[a] EXCEPT !.ports = agents[a].ports \cup {p}]]
      BY <2>2 DEF Bind
    <3>3. QED
      BY <3>1, <3>2 DEF PortsKept, AgentInfo
  <2>3. ASSUME NEW a \in AgentIds, NEW p \in Ports, Unbind(a, p) PROVE PortsKept
    BY <2>3 DEF Unbind
  <2>4. ASSUME NEW a \in AgentIds, NEW p \in Ports, NEW id \in UserIds,
               Data(a, p, id) \/ Disconnect(a, p, id) \/ SessionConn(a, p, id)
        PROVE  PortsKept
    <3>1. CASE Data(a, p, id)
      BY <1>1, <3>1, OtherStepsKept DEF Data
    <3>2. QED
      BY <1>1, <2>4, <3>1, DisconnectKept, SessionConnKept
  <2>5. QED
    BY <1>1, <1>3, <2>1, <2>2, <2>3, <2>4, OnAgentConnectKept DEF AgentStep
<1>4. CASE UserStep
  <2>1. ASSUME NEW h \in ServiceIds, RunStrand(h) PROVE PortsKept
    <3>1. CASE OnUserRecv(h) \/ LateUserEvent(h)
      BY <1>1, <3>1, OtherStepsKept DEF OnUserRecv, LateUserEvent
    <3>2. QED
      BY <1>1, <2>1, <3>1, ConnStepsKept, OnUserDisconnectKept DEF RunStrand
  <2>2. QED
    BY <1>1, <1>4, <2>1, OnUserConnectKept, ConnStepsKept, SendDoneKept DEF UserStep
<1>5. QED
  BY <1>2, <1>3, <1>4 DEF Next

(* The values of a table of which entries were erased, and of one with an    *)
(* entry added.                                                              *)
LEMMA ValuesOf ==
    ASSUME NEW g, NEW k, NEW v
    PROVE  /\ \A f : SubMap(f, g) => \A s \in Values(f) : f # << >> /\ s \in Values(g)
           /\ \A s \in Values(Put(g, k, v)) : s = v \/ s \in Values(g)
<1>1. ASSUME NEW f, SubMap(f, g), NEW s \in Values(f)
      PROVE  f # << >> /\ s \in Values(g)
  <2>1. PICK x \in DOMAIN f : f[x] = s
    BY DEF Values
  <2>2. x \in DOMAIN g /\ g[x] = s
    BY <1>1, <2>1 DEF SubMap
  <2>3. f # << >>
    BY <2>1
  <2>4. QED
    BY <2>2, <2>3 DEF Values
<1>2. ASSUME NEW s \in Values(Put(g, k, v))
      PROVE  s = v \/ s \in Values(g)
  <2>1. PICK x \in DOMAIN Put(g, k, v) : Put(g, k, v)[x] = s
    BY DEF Values
  <2>2. s = v \/ (x \in DOMAIN g /\ g[x] = s)
    BY <2>1 DEF Put
  <2>3. QED
    BY <2>2 DEF Values
<1>3. QED
  BY <1>1, <1>2

(* An empty table holds nothing. *)
LEMMA NoValues == \A s : s \notin Values(<< >>)
BY DEF Values

(* Without UNBIND, an agent lists the port of each of its sessions. *)
LEMMA PortsListedInductive ==
    ASSUME RegistryIInv, UniqueHome, PortsListed, [Next]_vars, "UNBIND" \notin Commands
    PROVE  PortsListed'
<1>1. TypeOK /\ ServicesKept /\ PortsKept
  BY ServicesStay, PortsStay DEF RegistryIInv
<1>2. SUFFICES ASSUME NEW b \in DOMAIN agents', NEW s \in Values(agents'[b].sessions),
                      NEW h \in DOMAIN svc', svc'[h].inited, s \in Values(svc'[h].sessions)
               PROVE  svc'[h].port \in agents'[b].ports
  BY DEF PortsListed
<1>3. ASSUME b \in DOMAIN agents, s \in Values(agents[b].sessions),
             h \in DOMAIN svc, s \in Values(svc[h].sessions)
      PROVE  svc'[h].port \in agents'[b].ports
  <2>1. svc'[h].port = svc[h].port /\ svc[h].inited
    BY <1>1, <1>2, <1>3 DEF ServicesKept
  <2>2. svc[h].port \in agents[b].ports
    BY <1>3, <2>1 DEF PortsListed
  <2>3. agents[b].ports \subseteq agents'[b].ports
    BY <1>1, <1>3 DEF PortsKept
  <2>4. QED
    BY <2>1, <2>2, <2>3
<1>4. CASE OldSessions
  <2>1. b \in DOMAIN agents /\ s \in Values(agents[b].sessions)
    <3>1. agents'[b].sessions # << >>
      BY NoValues
    <3>2. b \in DOMAIN agents /\ SubMap(agents'[b].sessions, agents[b].sessions)
      BY <1>4, <3>1 DEF OldSessions, AgentSessionsShrink
    <3>3. QED
      BY <3>2, ValuesOf
  <2>2. h \in DOMAIN svc /\ s \in Values(svc[h].sessions)
    <3>1. svc'[h].sessions # << >>
      BY <1>2, NoValues
    <3>2. h \in DOMAIN svc /\ SubMap(svc'[h].sessions, svc[h].sessions)
      BY <1>4, <3>1 DEF OldSessions, ServiceSessionsShrink
    <3>3. QED
      BY <1>2, <3>2, ValuesOf
  <2>3. QED
    BY <1>3, <2>1, <2>2
<1>5. ASSUME NEW n, NEW key, NEW r, NEW a \in DOMAIN agents, Adds(n, key, r),
             svc[n].port \in agents'[a].ports, DOMAIN agents' = DOMAIN agents,
             \A c \in DOMAIN agents : agents'[c].sessions =
                IF c = a THEN Put(agents[c].sessions, key, nses + 1) ELSE agents[c].sessions
      PROVE  svc'[h].port \in agents'[b].ports
  <2>1. /\ h \in DOMAIN svc /\ DOMAIN svc = 1..nsvc /\ b \in DOMAIN agents
        /\ svc'[h].port = svc[h].port
        /\ svc'[h].sessions = IF h = n THEN Put(svc[h].sessions, key, nses + 1) ELSE svc[h].sessions
    BY <1>1, <1>5 DEF Adds, TypeOK, ServicesKept
  <2>2. /\ s \in Values(svc[h].sessions) \/ (h = n /\ s = nses + 1)
        /\ s \in Values(agents[b].sessions) \/ (b = a /\ s = nses + 1)
    BY <1>2, <1>5, <2>1, ValuesOf
  <2>3. /\ nses + 1 \notin Values(agents[b].sessions)
        /\ nses + 1 \notin Values(svc[h].sessions)
    <3>1. nses + 1 \notin 1..nses
      BY <1>1, <1>5, NewObject DEF Adds
    <3>2. /\ agents[b].sessions \in Map(UserIds, 1..nses)
          /\ svc[h].sessions \in Map(UserIds, 1..nses)
      BY <1>1, <2>1 DEF TypeOK, AgentInfo, ServiceInfo
    <3>3. /\ agents[b].sessions \in [DOMAIN agents[b].sessions -> 1..nses]
          /\ svc[h].sessions \in [DOMAIN svc[h].sessions -> 1..nses]
      BY <3>2, MapElim
    <3>4. QED
      BY <3>1, <3>3 DEF Values
  <2>4. CASE s = nses + 1
    BY <1>5, <2>1, <2>2, <2>3, <2>4
  <2>5. CASE s # nses + 1
    BY <1>3, <2>1, <2>2, <2>5
  <2>6. QED
    BY <2>4, <2>5
<1>6. ASSUME NEW k \in ServiceIds, NEW a \in AgentIds, Accepts(k, a)
      PROVE  svc'[h].port \in agents'[b].ports
  <2>1. PICK seq, r : Adds(k, seq, r) /\ seq = svc[k].next_seq + 1
    BY <1>1, <1>6, AcceptsAdds
  <2>2. /\ a \in DOMAIN agents /\ svc[k].port \in agents'[a].ports /\ DOMAIN agents' = DOMAIN agents
        /\ \A c \in DOMAIN agents : agents'[c].sessions =
              IF c = a THEN Put(agents[c].sessions, seq, nses + 1) ELSE agents[c].sessions
    BY <1>6, <2>1 DEF Accepts
  <2>3. QED
    BY <1>5, <2>1, <2>2
<1>7. ASSUME NEW a \in AgentIds, NEW p \in Ports, NEW j \in UserIds, DeclaresFor(a, p, j),
             a \notin DOMAIN svc[services[p]].sessions
      PROVE  svc'[h].port \in agents'[b].ports
  <2>1. Makes(a, p, j)
    BY <1>7, SessionConnMakes
  <2>2. PICK n, r : Adds(n, j, r) /\ n = services[p]
    BY <2>1, MakesAdds
  <2>3. /\ a \in DOMAIN agents /\ svc[n].port \in agents'[a].ports /\ DOMAIN agents' = DOMAIN agents
        /\ \A c \in DOMAIN agents : agents'[c].sessions =
              IF c = a THEN Put(agents[c].sessions, j, nses + 1) ELSE agents[c].sessions
    BY <2>1, <2>2 DEF Makes
  <2>4. QED
    BY <1>5, <2>2, <2>3
<1>8. ASSUME NEW a \in AgentIds, NEW p \in Ports, NEW j \in UserIds, DeclaresFor(a, p, j),
             a \in DOMAIN svc[services[p]].sessions
      PROVE  svc'[h].port \in agents'[b].ports
  <2> DEFINE k == services[p]
  <2>1. k \in DOMAIN svc /\ svc[k].port = p
    BY <1>8 DEF DeclaresFor, RegistryIInv, RegistryInv
  <2>2. /\ svc' = svc /\ DOMAIN agents' = DOMAIN agents /\ p \in agents'[a].ports
        /\ agents'[a].sessions = Put(agents[a].sessions, j, svc[k].sessions[a])
        /\ \A c \in DOMAIN agents : c # a => SubMap(agents'[c].sessions, agents[c].sessions)
    BY <1>8, SessionConnTakes
  <2>3. s \in Values(agents[b].sessions) \/ (b = a /\ s = svc[k].sessions[a])
    <3>1. CASE b = a
      <4>1. s \in Values(Put(agents[b].sessions, j, svc[k].sessions[a]))
        BY <2>2, <3>1
      <4>2. QED
        BY <3>1, <4>1, ValuesOf
    <3>2. CASE b # a
      <4>1. SubMap(agents'[b].sessions, agents[b].sessions)
        BY <2>2, <3>2
      <4>2. QED
        BY <4>1, ValuesOf
    <3>3. QED
      BY <3>1, <3>2
  <2>4. CASE s \in Values(agents[b].sessions)
    BY <1>2, <1>3, <2>2, <2>4
  <2>5. CASE b = a /\ s = svc[k].sessions[a]
    <3>1. PICK i \in DOMAIN svc[h].sessions : svc[h].sessions[i] = s
      BY <1>2, <2>2 DEF Values
    <3>2. h = k
      BY <1>8, <2>1, <2>2, <2>5, <3>1 DEF UniqueHome
    <3>3. QED
      BY <2>1, <2>2, <2>5, <3>2
  <2>6. QED
    BY <2>3, <2>4, <2>5
<1>9. QED
  BY <1>4, <1>6, <1>7, <1>8, OldOrNewSessions DEF Declares

(* Every kind of step leaves no finished session in a listening service. *)
OnePort == \A p, q \in Ports : p = q
LEMMA NoFinishedInductive ==
    ASSUME RegistryIInv, KeyIsSeq, UniqueHome, OnePort \/ PortsListed, NoFinishedSessionKept,
           [Next]_vars
    PROVE  NoFinishedSessionKept'
<1>1. TypeOK /\ ServicesKept
  BY ServicesStay DEF RegistryIInv
<1>2. SUFFICES ASSUME NEW h \in DOMAIN svc', svc'[h].inited, NEW id \in DOMAIN svc'[h].sessions,
                      ses'[svc'[h].sessions[id]].seq # 0
               PROVE  ~Finished(ses'[svc'[h].sessions[id]])
  BY DEF NoFinishedSessionKept, Finished
<1> DEFINE s == svc[h].sessions[id]
<1>3. ASSUME h \in DOMAIN svc, id \in DOMAIN svc[h].sessions, ses[s].seq # 0
      PROVE  /\ svc[h].inited /\ ~Finished(ses[s]) /\ ses[s].seq = id
             /\ s \in DOMAIN ses /\ s \in 1..nses
  <2>1. svc[h].inited
    BY <1>1, <1>2, <1>3 DEF ServicesKept
  <2>2. ~Finished(ses[s])
    BY <1>3, <2>1 DEF NoFinishedSessionKept, Finished
  <2>3. ses[s].seq = id
    BY <1>3 DEF KeyIsSeq
  <2>4. QED
    BY <1>1, <1>3, <2>1, <2>2, <2>3, TableObjects
<1>4. OldSessions => /\ h \in DOMAIN svc /\ id \in DOMAIN svc[h].sessions
                     /\ svc'[h].sessions[id] = s /\ ses[s].seq # 0
  <2>1. SUFFICES ASSUME OldSessions
                 PROVE  /\ h \in DOMAIN svc /\ id \in DOMAIN svc[h].sessions
                        /\ svc'[h].sessions[id] = s /\ ses[s].seq # 0
    OBVIOUS
  <2>2. h \in DOMAIN svc /\ id \in DOMAIN svc[h].sessions /\ svc'[h].sessions[id] = s
    BY <2>1 DEF OldSessions, ServiceSessionsShrink, SubMap
  <2>3. ses'[s].seq = ses[s].seq
    BY <1>1, <2>1, <2>2, TableObjects DEF OldSessions, ObjectsKept
  <2>4. QED
    BY <1>2, <2>2, <2>3
<1> HIDE DEF s
<1>5. CASE Quiet
  BY <1>3, <1>4, <1>5 DEF Quiet
<1>6. ASSUME NEW k, NEW j, NEW r, EndOf(k, j, r)
      PROVE  ~Finished(ses'[svc'[h].sessions[id]])
  <2>1. /\ h \in DOMAIN svc /\ id \in DOMAIN svc[h].sessions
        /\ svc'[h].sessions[id] = s /\ ses[s].seq # 0
    BY <1>1, <1>4, <1>6, EndOfOld
  <2>2. /\ k \in 1..nsvc /\ j \in DOMAIN svc[k].sessions /\ r.seq = ses[svc[k].sessions[j]].seq
        /\ ses' = [ses EXCEPT ![svc[k].sessions[j]] = r]
        /\ \A l \in 1..nsvc : svc'[l].sessions =
              IF Finished(r) /\ l = k THEN Drop(svc[l].sessions, {r.seq}) ELSE svc[l].sessions
    BY <1>6 DEF EndOf
  <2>3. DOMAIN svc = 1..nsvc /\ DOMAIN ses = 1..nses
    BY <1>1 DEF TypeOK
  <2>4. CASE s # svc[k].sessions[j]
    BY <1>3, <2>1, <2>2, <2>4
  <2>5. CASE s = svc[k].sessions[j]
    <3>1. h = k
      BY <2>1, <2>2, <2>3, <2>5 DEF UniqueHome, s
    <3>2. r.seq = id
      BY <1>3, <2>1, <2>2, <2>5
    <3>3. ~Finished(r)
      BY <2>1, <2>2, <2>3, <3>1, <3>2 DEF Drop
    <3>4. ses'[s] = r
      BY <1>3, <2>1, <2>2, <2>5
    <3>5. QED
      BY <2>1, <3>3, <3>4
  <2>6. QED
    BY <2>4, <2>5
<1>7. ASSUME NEW a \in AgentIds, OnAgentDisconnect(a)
      PROVE  ~Finished(ses'[svc'[h].sessions[id]])
  <2>1. /\ h \in DOMAIN svc /\ id \in DOMAIN svc[h].sessions
        /\ svc'[h].sessions[id] = s /\ ses[s].seq # 0
    BY <1>4, <1>7, OnAgentDisconnectOld
  <2>2. /\ a \in DOMAIN agents
        /\ svc'[h].sessions = IF h \in Hit(a) THEN Drop(svc[h].sessions, DoneSeqs(a)) ELSE svc[h].sessions
        /\ ses'[s] = IF s \in Mine(a) THEN [ses[s] EXCEPT !.tunnel_disconnected = TRUE,
                                                          !.tunnel_hard_disconnected = TRUE]
                     ELSE ses[s]
    BY <1>3, <1>7, <2>1, OnAgentDisconnectFacts
  <2>3. CASE s \notin Mine(a)
    BY <1>3, <2>1, <2>2, <2>3
  <2>4. CASE s \in Mine(a)
    <3>1. ses[s] \in Session
      BY <1>1, <1>3, <2>1 DEF TypeOK
    <3>2. ses'[s].user_disconnected = ses[s].user_disconnected
      BY <2>2, <2>4, <3>1 DEF Session
    <3>3. SUFFICES ASSUME ses[s].user_disconnected PROVE FALSE
      BY <2>1, <3>2 DEF Finished
    <3>4. id \in DoneSeqs(a)
      BY <1>3, <2>1, <2>4, <3>3 DEF DoneSeqs, Done
    <3>5. svc[h].port \in DOMAIN services /\ services[svc[h].port] = h /\ svc[h].port \in Ports
      <4>1. svc[h].port \in DOMAIN services /\ services[svc[h].port] = h
        BY <1>3, <2>1 DEF RegistryIInv, ListenerInv
      <4>2. QED
        BY <1>1, <4>1 DEF TypeOK
    <3>6. Live(a) # {} /\ s \in Values(agents[a].sessions)
      BY <2>4 DEF Mine
    <3>7. svc[h].port \in agents[a].ports
      <4>1. CASE OnePort
        <5>1. PICK q \in Live(a) : q \in Ports
          BY <1>1, <3>6 DEF Live, TypeOK
        <5>2. q = svc[h].port
          BY <3>5, <4>1, <5>1 DEF OnePort
        <5>3. QED
          BY <5>1, <5>2 DEF Live
      <4>2. CASE PortsListed
        <5>1. s \in Values(svc[h].sessions)
          BY <2>1 DEF Values, s
        <5>2. QED
          BY <1>3, <2>1, <2>2, <3>6, <4>2, <5>1 DEF PortsListed
      <4>3. QED
        BY <4>1, <4>2
    <3>8. h \in Hit(a)
      BY <3>5, <3>7 DEF Hit, Live
    <3>9. QED
      BY <2>2, <3>4, <3>8 DEF Drop
  <2>5. QED
    BY <2>3, <2>4
<1>8. ASSUME NEW n, NEW key, NEW r, Adds(n, key, r)
      PROVE  ~Finished(ses'[svc'[h].sessions[id]])
  <2>1. ses'[nses + 1] = r /\ ~Finished(r)
    BY <1>1, <1>8, NewObject DEF Adds, Finished
  <2>2. QED
    BY <1>1, <1>2, <1>3, <1>8, <2>1, AddsEntry DEF s
<1>9. CASE OnlyAgentMoves
  <2>1. svc' = svc /\ s \in DOMAIN ses
    BY <1>1, <1>9, TableObjects DEF OnlyAgentMoves, s
  <2>2. QED
    BY <1>2, <1>3, <1>9, <2>1 DEF OnlyAgentMoves, Finished, s
<1>10. ASSUME NEW k \in ServiceIds, NEW t \in SessionIds, SendDone(k, t)
       PROVE  ~Finished(ses'[svc'[h].sessions[id]])
  BY <1>3, <1>4, <1>10, SendDoneCleans
<1>11. ASSUME NEW k, NEW a, Accepts(k, a)
       PROVE  ~Finished(ses'[svc'[h].sessions[id]])
  <2>1. \E n, key, r : Adds(n, key, r)
    BY <1>1, <1>11, AcceptsAdds
  <2>2. QED
    BY <1>8, <2>1
<1>12. QED
  BY <1>5, <1>6, <1>7, <1>8, <1>9, <1>10, <1>11, SessionSteps, DeclaresAddsOrMoves DEF Ends

(* __CleanSession leaves no session of an accepted user behind whose two ends  *)
(* are gone, for every number of agents, ports, users and sessions, in every   *)
(* order in which users, tunnels and agents go, and whatever connections       *)
(* declare with SESSION: a session that does stay is one that SESSION made     *)
(* with number 0.  Agents that serve several ports must not use UNBIND, which  *)
(* r-nat-c never sends: the sessions of the port that is given back would be   *)
(* marked, but not found, when the agent goes.                                 *)
THEOREM FinishedSessionsAreDropped ==
    ASSUME "UNBIND" \notin Commands \/ OnePort
    PROVE  Spec => []NoFinishedSessionKept
<1> DEFINE Listed == OnePort \/ PortsListed
           IInv == KeyIsSeq /\ UniqueHome /\ Listed /\ NoFinishedSessionKept
<1>1. Init => IInv
  BY DEF Init, KeyIsSeq, UniqueHome, PortsListed, NoFinishedSessionKept
<1>2. RegistryIInv /\ IInv /\ [Next]_vars => IInv'
  <2>1. SUFFICES ASSUME RegistryIInv, IInv, [Next]_vars
                 PROVE  IInv'
    OBVIOUS
  <2>2. Listed'
    <3>1. CASE OnePort
      BY <3>1
    <3>2. CASE ~OnePort
      BY <2>1, <3>2, PortsListedInductive
    <3>3. QED
      BY <3>1, <3>2
  <2>3. QED
    BY <2>1, <2>2, KeyIsSeqInductive, UniqueHomeInductive, NoFinishedInductive
<1>3. QED
  BY <1>1, <1>2, RegistryAlways, PTL DEF Spec
----------------------------------------------------------------------------
(* What is not dropped too early.  __CleanSession erases whatever a service  *)
(* has under the number of the object it was called with.  Who calls it with *)
(* an object that has left the table (a late send callback, or an agent that *)
(* goes) must not find somebody else's session there: Home says that under   *)
(* its number an object with one finds itself, nothing, or a session that    *)
(* SESSION has made for the same user, and that the connection of a user is  *)
(* forgotten when its session is marked.  Numbers are not handed out again.  *)
Home(s, h) ==
    ses[s].seq # 0 =>
        /\ ses[s].seq <= svc[h].next_seq
        /\ ses[s].seq \in DOMAIN svc[h].sessions =>
              LET t == svc[h].sessions[ses[s].seq] IN t = s \/ ses[t].seq = 0
        /\ ses[s].user_disconnected => ses[s].seq \notin DOMAIN svc[h].conns
        /\ \A k \in DOMAIN svc : s \in Values(svc[k].sessions) => k = h
TableHome == \A h \in DOMAIN svc : \A id \in DOMAIN svc[h].sessions : Home(svc[h].sessions[id], h)
PendingHome == \A e \in pending : Home(e[2], e[1])
AgentHome ==
    \A b \in DOMAIN agents : \A s \in Values(agents[b].sessions) : ses[s].seq # 0 =>
        /\ agents[b].ports # {}
        /\ \A p \in agents[b].ports : /\ p \in DOMAIN services /\ b \in svc[services[p]].agents
                                      /\ Home(s, services[p])

(* Every agent serves at most one port. *)
OnePortEach == \A a \in DOMAIN agents : \A p, q \in agents[a].ports : p = q

(* The next number of a service is a natural number, the keys are numbers. *)
LEMMA SeqNumbers ==
    ASSUME TypeOK, NEW h \in DOMAIN svc
    PROVE  svc[h].next_seq \in Nat /\ \A s \in DOMAIN ses : ses[s].seq \in Nat
<1>1. svc[h].next_seq \in 0..MaxUsers
  BY DEF TypeOK, ServiceInfo
<1>2. \A s \in DOMAIN ses : ses[s].seq \in 0..MaxUsers
  BY DEF TypeOK, Session
<1>3. QED
  BY <1>1, <1>2, ConstantsAssumption

(* The next number of a listener changes only when it accepts a user. *)
LEMMA SeqKeptBox ==
    ASSUME RegistryIInv, [Next]_vars, ~ \E h \in ServiceIds : OnUserConnect(h)
    PROVE  SeqKept
<1>1. CASE UNCHANGED vars
  BY <1>1, OtherStepsKept DEF vars
<1>2. CASE Next
  BY <1>2, SeqKeptOtherwise
<1>3. QED
  BY <1>1, <1>2

(* A session is marked as left by its user when the user's connection is     *)
(* forgotten, and only in the service that has it under its number.          *)
LEMMA UserMarked ==
    ASSUME RegistryIInv, KeyIsSeq, [Next]_vars, OldSessions,
           NEW s \in DOMAIN ses, NEW h \in DOMAIN svc, Home(s, h), ses[s].seq # 0,
           ses'[s].user_disconnected
    PROVE  ses[s].seq \notin DOMAIN svc'[h].conns
<1>1. TypeOK /\ DOMAIN svc = 1..nsvc /\ DOMAIN ses = 1..nses
  BY DEF RegistryIInv, TypeOK
<1>2. CASE ses[s].user_disconnected
  BY <1>2 DEF Home, OldSessions, ConnsShrink
<1>3. CASE ~ses[s].user_disconnected
  <2>1. ~Quiet
    BY <1>3 DEF Quiet
  <2>2. ASSUME NEW k, NEW j, NEW r, EndOf(k, j, r)
        PROVE  ses[s].seq \notin DOMAIN svc'[h].conns
    <3>1. /\ k \in 1..nsvc /\ j \in DOMAIN svc[k].sessions
          /\ r.user_disconnected => \/ ses[svc[k].sessions[j]].user_disconnected
                                   \/ j \notin DOMAIN svc'[k].conns
          /\ ses' = [ses EXCEPT ![svc[k].sessions[j]] = r]
      BY <2>2 DEF EndOf
    <3>2. s = svc[k].sessions[j] /\ ses'[s] = r
      BY <1>3, <3>1
    <3>3. k = h
      <4>1. s \in Values(svc[k].sessions)
        BY <3>1, <3>2 DEF Values
      <4>2. QED
        BY <1>1, <3>1, <4>1 DEF Home
    <3>4. ses[s].seq = j
      BY <1>1, <3>1, <3>2 DEF KeyIsSeq
    <3>5. QED
      BY <1>3, <3>1, <3>2, <3>3, <3>4
  <2>3. ASSUME NEW a \in AgentIds, OnAgentDisconnect(a) PROVE FALSE
    <3>1. ses[s] \in Session
      BY <1>1 DEF TypeOK
    <3>2. ses'[s] = ses[s] \/ ses'[s] = [ses[s] EXCEPT !.tunnel_disconnected = TRUE,
                                                      !.tunnel_hard_disconnected = TRUE]
      BY <2>3, OnAgentDisconnectFacts
    <3>3. QED
      BY <1>3, <3>1, <3>2 DEF Session
  <2>4. ASSUME NEW k \in ServiceIds, NEW t \in SessionIds, SendDone(k, t) PROVE FALSE
    BY <1>3, <2>4, SendDoneCleans
  <2>5. ASSUME NEW n, NEW key, NEW r, Adds(n, key, r) PROVE FALSE
    BY <1>1, <1>3, <2>5, NewObject DEF Adds
  <2>6. ASSUME NEW k, NEW a, Accepts(k, a) PROVE FALSE
    <3>1. \E n, key, r : Adds(n, key, r)
      <4>1. Adds(k, svc[k].next_seq + 1, NewSession(svc[k].next_seq + 1, a, FALSE))
        BY <1>1, <2>6, AcceptsAdds
      <4>2. QED
        BY <4>1
    <3>2. QED
      BY <2>5, <3>1
  <2>7. ~OnlyAgentMoves
    BY <1>3 DEF OnlyAgentMoves
  <2>8. QED
    BY <2>1, <2>2, <2>3, <2>4, <2>5, <2>6, <2>7, SessionSteps, DeclaresAddsOrMoves DEF Ends
<1>4. QED
  BY <1>2, <1>3

(* A home stays one when a session is added under a number that is not the   *)
(* object's, or that SESSION makes.                                          *)
LEMMA HomeAdds ==
    ASSUME TypeOK, NEW n, NEW key, NEW r, Adds(n, key, r),
           NEW s \in DOMAIN ses, NEW h \in DOMAIN svc, Home(s, h),
           ses[s].seq # 0 => /\ ses[s].seq <= svc'[h].next_seq
                             /\ h = n => r.seq = 0 \/ ses[s].seq # key
                             /\ ses[s].seq \in DOMAIN svc'[h].conns => ses[s].seq \in DOMAIN svc[h].conns
    PROVE  Home(s, h)' /\ s \in DOMAIN ses' /\ h \in DOMAIN svc'
<1>1. /\ h \in DOMAIN svc' /\ s \in DOMAIN ses' /\ ses'[s] = ses[s] /\ s # nses + 1
      /\ ses'[nses + 1] = r
  BY NewObject DEF Adds
<1>2. SUFFICES ASSUME ses[s].seq # 0 PROVE Home(s, h)'
  BY <1>1 DEF Home
<1>3. ASSUME ses[s].seq \in DOMAIN svc'[h].sessions
      PROVE  LET t == svc'[h].sessions[ses[s].seq] IN t = s \/ ses'[t].seq = 0
  <2>1. CASE h = n /\ ses[s].seq = key /\ svc'[h].sessions[ses[s].seq] = nses + 1
    BY <1>1, <1>2, <2>1
  <2>2. QED
    BY <1>1, <1>2, <1>3, <2>1, AddsEntry DEF Home
<1>4. ASSUME NEW k \in DOMAIN svc', s \in Values(svc'[k].sessions) PROVE k = h
  <2>1. k \in DOMAIN svc
        /\ svc'[k].sessions = IF k = n THEN Put(svc[k].sessions, key, nses + 1) ELSE svc[k].sessions
    BY DEF Adds
  <2>2. s \in Values(svc[k].sessions)
    BY <1>1, <1>4, <2>1, ValuesOf
  <2>3. QED
    BY <1>2, <2>1, <2>2 DEF Home
<1>5. QED
  BY <1>1, <1>2, <1>3, <1>4 DEF Home

(* A home stays one: a number is not handed out twice by the same listener.  *)
LEMMA HomeStays ==
    ASSUME RegistryIInv, KeyIsSeq, [Next]_vars,
           NEW s \in DOMAIN ses, NEW h \in DOMAIN svc, Home(s, h)
    PROVE  Home(s, h)' /\ s \in DOMAIN ses' /\ h \in DOMAIN svc'
<1>1. TypeOK /\ DOMAIN svc = 1..nsvc
  BY DEF RegistryIInv, TypeOK
<1>2. CASE OldSessions /\ ~ \E k \in ServiceIds : OnUserConnect(k)
  <2>1. h \in DOMAIN svc' /\ svc'[h].next_seq = svc[h].next_seq
    BY <1>2, SeqKeptBox DEF SeqKept
  <2>2. s \in DOMAIN ses' /\ ses'[s].seq = ses[s].seq
    BY <1>2 DEF OldSessions, ObjectsKept
  <2>3. SUFFICES ASSUME ses[s].seq # 0 PROVE Home(s, h)'
    BY <2>1, <2>2 DEF Home
  <2>4. ASSUME ses[s].seq \in DOMAIN svc'[h].sessions
        PROVE  LET t == svc'[h].sessions[ses[s].seq] IN t = s \/ ses'[t].seq = 0
    <3>1. ses[s].seq \in DOMAIN svc[h].sessions
          /\ svc'[h].sessions[ses[s].seq] = svc[h].sessions[ses[s].seq]
      BY <1>2, <2>1, <2>4 DEF OldSessions, ServiceSessionsShrink, SubMap
    <3>2. svc[h].sessions[ses[s].seq] \in DOMAIN ses
      BY <1>1, <3>1, TableObjects
    <3>3. QED
      BY <1>2, <2>3, <3>1, <3>2 DEF Home, OldSessions, ObjectsKept
  <2>5. ses'[s].user_disconnected => ses[s].seq \notin DOMAIN svc'[h].conns
    BY <1>2, <2>3, UserMarked
  <2>6. ASSUME NEW k \in DOMAIN svc', s \in Values(svc'[k].sessions) PROVE k = h
    <3>1. svc'[k].sessions # << >>
      BY <2>6, NoValues
    <3>2. k \in DOMAIN svc /\ SubMap(svc'[k].sessions, svc[k].sessions)
      BY <1>2, <3>1 DEF OldSessions, ServiceSessionsShrink
    <3>3. s \in Values(svc[k].sessions)
      BY <2>6, <3>2, ValuesOf
    <3>4. QED
      BY <2>3, <3>2, <3>3 DEF Home
  <2>7. QED
    BY <2>1, <2>2, <2>3, <2>4, <2>5, <2>6 DEF Home
<1>3. ASSUME NEW k \in ServiceIds, NEW a \in AgentIds, Accepts(k, a)
      PROVE  Home(s, h)' /\ s \in DOMAIN ses' /\ h \in DOMAIN svc'
  <2>1. PICK seq, r : Adds(k, seq, r) /\ seq = svc[k].next_seq + 1
    <3>1. Adds(k, svc[k].next_seq + 1, NewSession(svc[k].next_seq + 1, a, FALSE))
      BY <1>1, <1>3, AcceptsAdds
    <3>2. QED
      BY <3>1
  <2>2. /\ svc'[h].next_seq = IF h = k THEN seq ELSE svc[h].next_seq
        /\ svc'[h].conns = IF h = k THEN Put(svc[h].conns, seq, "open") ELSE svc[h].conns
    BY <1>1, <1>3, <2>1 DEF Accepts
  <2>3. svc[h].next_seq \in Nat /\ ses[s].seq \in Nat
    BY <1>1, SeqNumbers
  <2>4. ses[s].seq # 0 => /\ ses[s].seq <= svc'[h].next_seq
                          /\ h = k => ses[s].seq # seq
    BY <2>1, <2>2, <2>3 DEF Home
  <2>5. ses[s].seq # 0 => /\ ses[s].seq \in DOMAIN svc'[h].conns => ses[s].seq \in DOMAIN svc[h].conns
    BY <2>2, <2>4 DEF Put
  <2>6. QED
    BY <1>1, <2>1, <2>4, <2>5, HomeAdds
<1>4. ASSUME NEW a \in AgentIds, NEW p \in Ports, NEW j \in UserIds, DeclaresFor(a, p, j),
             a \notin DOMAIN svc[services[p]].sessions
      PROVE  Home(s, h)' /\ s \in DOMAIN ses' /\ h \in DOMAIN svc'
  <2>1. Makes(a, p, j)
    BY <1>4, SessionConnMakes
  <2>2. PICK n, r : Adds(n, j, r) /\ r.seq = 0
    <3> DEFINE new == NewSession(0, a, TRUE)
    <3>1. Adds(services[p], j, new) /\ new.seq = 0
      BY <2>1, MakesAdds
    <3> HIDE DEF new
    <3>2. QED
      BY <3>1
  <2>3. svc'[h].next_seq = svc[h].next_seq /\ svc'[h].conns = svc[h].conns
    BY <2>1 DEF Makes
  <2>4. ses[s].seq # 0 => ses[s].seq <= svc'[h].next_seq
    BY <2>3 DEF Home
  <2>5. QED
    BY <1>1, <2>2, <2>3, <2>4, HomeAdds
<1>5. ASSUME NEW a \in AgentIds, NEW p \in Ports, NEW j \in UserIds, DeclaresFor(a, p, j),
             a \in DOMAIN svc[services[p]].sessions
      PROVE  Home(s, h)' /\ s \in DOMAIN ses' /\ h \in DOMAIN svc'
  <2>1. OnlyAgentMoves
    BY <1>5, SessionConnTakes DEF OnlyAgentMoves
  <2>2. \A id \in DOMAIN svc[h].sessions : svc[h].sessions[id] \in DOMAIN ses
    BY <1>1, TableObjects
  <2>3. QED
    BY <2>1, <2>2 DEF OnlyAgentMoves, Home
<1>6. QED
  BY <1>2, <1>3, <1>4, <1>5, OldOrNewSessions DEF Declares

(* An added session has the service as its home, if its number is the next.  *)
LEMMA NewHome ==
    ASSUME TypeOK, NEW n, NEW key, NEW r, Adds(n, key, r), r.seq = 0 \/ key <= svc'[n].next_seq,
           NEW s, s = nses + 1
    PROVE  Home(s, n)'
<1>1. ses'[s] = r /\ s \notin 1..nses
  BY NewObject DEF Adds
<1>2. SUFFICES ASSUME r.seq # 0 PROVE Home(s, n)'
  BY <1>1 DEF Home
<1>3. r.seq = key /\ ~r.user_disconnected /\ svc'[n].sessions = Put(svc[n].sessions, key, s)
  BY <1>2 DEF Adds
<1>4. svc'[n].sessions[key] = s
  BY <1>3 DEF Put
<1>5. ASSUME NEW k \in DOMAIN svc', s \in Values(svc'[k].sessions) PROVE k = n
  <2>1. PICK id \in DOMAIN svc'[k].sessions : svc'[k].sessions[id] = s
    BY <1>5 DEF Values
  <2>2. QED
    BY <1>1, <2>1, AddsEntry
<1>6. QED
  BY <1>1, <1>2, <1>3, <1>4, <1>5 DEF Home

(* So the sessions of a table have the table as their home. *)
LEMMA TableHomeInductive ==
    ASSUME RegistryIInv, KeyIsSeq, TableHome, [Next]_vars
    PROVE  TableHome'
<1>1. TypeOK
  BY DEF RegistryIInv
<1>2. SUFFICES ASSUME NEW h \in DOMAIN svc', NEW id \in DOMAIN svc'[h].sessions,
                      NEW s, s = svc'[h].sessions[id]
               PROVE  Home(s, h)'
  BY DEF TableHome
<1>3. ASSUME h \in DOMAIN svc, id \in DOMAIN svc[h].sessions, s = svc[h].sessions[id]
      PROVE  Home(s, h)'
  <2>1. s \in DOMAIN ses /\ Home(s, h)
    BY <1>1, <1>3, TableObjects DEF TableHome
  <2>2. QED
    BY <1>3, <2>1, HomeStays
<1>4. CASE OldSessions
  BY <1>2, <1>3, <1>4 DEF OldSessions, ServiceSessionsShrink, SubMap
<1>5. ASSUME NEW n, NEW key, NEW r, Adds(n, key, r), r.seq = 0 \/ key <= svc'[n].next_seq
      PROVE  Home(s, h)'
  <2>1. CASE h = n /\ s = nses + 1
    BY <1>1, <1>5, <2>1, NewHome
  <2>2. QED
    BY <1>1, <1>2, <1>3, <1>5, <2>1, AddsEntry
<1>6. ASSUME NEW k \in ServiceIds, NEW a \in AgentIds, Accepts(k, a) PROVE Home(s, h)'
  <2>1. PICK seq, r : Adds(k, seq, r) /\ seq = svc[k].next_seq + 1
    <3>1. Adds(k, svc[k].next_seq + 1, NewSession(svc[k].next_seq + 1, a, FALSE))
      BY <1>1, <1>6, AcceptsAdds
    <3>2. QED
      BY <3>1
  <2>2. svc'[k].next_seq = seq /\ svc[k].next_seq \in Nat
    BY <1>1, <1>6, <2>1, SeqNumbers DEF Accepts, TypeOK
  <2>3. seq <= svc'[k].next_seq
    BY <2>1, <2>2
  <2>4. QED
    BY <1>5, <2>1, <2>3
<1>7. ASSUME NEW a \in AgentIds, NEW p \in Ports, NEW j \in UserIds, DeclaresFor(a, p, j)
      PROVE  Home(s, h)'
  <2>1. CASE a \notin DOMAIN svc[services[p]].sessions
    <3> DEFINE new == NewSession(0, a, TRUE)
    <3>1. Adds(services[p], j, new) /\ new.seq = 0
      BY <1>7, <2>1, SessionConnMakes, MakesAdds
    <3> HIDE DEF new
    <3>2. QED
      BY <1>5, <3>1
  <2>2. CASE a \in DOMAIN svc[services[p]].sessions
    <3>1. svc' = svc
      BY <1>7, <2>2, SessionConnTakes
    <3>2. QED
      BY <1>2, <1>3, <3>1
  <2>3. QED
    BY <2>1, <2>2
<1>8. QED
  BY <1>4, <1>6, <1>7, OldOrNewSessions DEF Declares

(* A send callback is made for a session that the service has at the time. *)
LEMMA NewPending ==
    ASSUME TypeOK, [Next]_vars, NEW e \in pending' \ pending
    PROVE  \E h \in DOMAIN svc : \E id \in DOMAIN svc[h].sessions : e = <<h, svc[h].sessions[id]>>
<1>1. ASSUME NEW a \in AgentIds, NEW p \in Ports, NEW id \in UserIds, Data(a, p, id)
      PROVE  \E h \in DOMAIN svc : \E j \in DOMAIN svc[h].sessions : e = <<h, svc[h].sessions[j]>>
  <2>1. services[p] \in DOMAIN svc
    BY <1>1 DEF Data, TypeOK
  <2>2. e = <<services[p], svc[services[p]].sessions[id]>> /\ id \in DOMAIN svc[services[p]].sessions
    BY <1>1 DEF Data
  <2>3. QED
    BY <2>1, <2>2
<1>2. ASSUME NEW h \in ServiceIds, OnUserRecv(h)
      PROVE  \E k \in DOMAIN svc : \E j \in DOMAIN svc[k].sessions : e = <<k, svc[k].sessions[j]>>
  <2>1. h \in DOMAIN svc
    BY <1>2 DEF OnUserRecv, NextIs, RunningServer
  <2>2. QED
    BY <1>2, <2>1 DEF OnUserRecv
<1>3. CASE UNCHANGED vars
  BY <1>3 DEF vars
<1>4. CASE AgentStep
  <2>1. ASSUME NEW a \in AgentIds, NEW p \in Ports, NEW id \in UserIds, SessionConn(a, p, id)
        PROVE  pending' = pending
    BY <2>1 DEF SessionConn
  <2>2. \/ pending' = pending
        \/ \E a \in AgentIds, p \in Ports, id \in UserIds : Data(a, p, id)
    BY <1>4, <2>1 DEF AgentStep, OnAgentConnect, AgentLost, OnAgentDisconnect, Bind, Unbind, Disconnect
  <2>3. QED
    BY <1>1, <2>2
<1>5. CASE UserStep
  <2>1. ASSUME NEW h \in ServiceIds, OnUserConnect(h) \/ OnUserDisconnect(h)
        PROVE  pending' = pending
    BY <2>1 DEF OnUserConnect, OnUserDisconnect
  <2>2. pending' \subseteq pending \/ \E h \in ServiceIds : OnUserRecv(h)
    BY <1>5, <2>1 DEF UserStep, RunStrand, CloseConn, LateUserEvent, UserSends, UserLeaves, SendDone
  <2>3. QED
    BY <1>2, <2>2
<1>6. QED
  BY <1>3, <1>4, <1>5 DEF Next

(* So the callbacks that are still to run have a home. *)
LEMMA PendingHomeInductive ==
    ASSUME RegistryIInv, KeyIsSeq, TableHome, PendingHome, [Next]_vars
    PROVE  PendingHome'
<1>1. TypeOK
  BY DEF RegistryIInv
<1>2. SUFFICES ASSUME NEW e \in pending' PROVE Home(e[2], e[1])'
  BY DEF PendingHome
<1>3. e[2] \in DOMAIN ses /\ e[1] \in DOMAIN svc /\ Home(e[2], e[1])
  <2>1. CASE e \in pending
    <3>1. e \in (1..nsvc) \X (1..nses)
      BY <1>1, <2>1 DEF TypeOK
    <3>2. QED
      BY <1>1, <2>1, <3>1 DEF TypeOK, PendingHome
  <2>2. CASE e \notin pending
    <3>1. PICK h \in DOMAIN svc : \E id \in DOMAIN svc[h].sessions : e = <<h, svc[h].sessions[id]>>
      BY <1>1, <2>2, NewPending
    <3>2. PICK id \in DOMAIN svc[h].sessions : e = <<h, svc[h].sessions[id]>>
      BY <3>1
    <3>3. e[1] = h /\ e[2] = svc[h].sessions[id]
      BY <3>2
    <3>4. QED
      BY <1>1, <3>3, TableObjects DEF TableHome
  <2>3. QED
    BY <2>1, <2>2
<1>4. QED
  BY <1>3, HomeStays

(* Without UNBIND, an agent that stays connected stays in its services, and  *)
(* these stay in services_.                                                  *)
LEMMA ServingStays ==
    ASSUME RegistryIInv, [Next]_vars, "UNBIND" \notin Commands,
           NEW p \in DOMAIN services, NEW b \in svc[services[p]].agents, b \in DOMAIN agents'
    PROVE  /\ p \in DOMAIN services' /\ services'[p] = services[p]
           /\ b \in svc'[services[p]].agents
<1> DEFINE Goal == /\ p \in DOMAIN services' /\ services'[p] = services[p]
                   /\ b \in svc'[services[p]].agents
<1>1. TypeOK /\ services[p] \in DOMAIN svc
  BY DEF RegistryIInv, RegistryInv
<1>2. RegistryKept => Goal
  BY <1>1 DEF RegistryKept
<1>3. CASE UNCHANGED vars
  BY <1>3 DEF vars
<1>4. CASE AgentStep
  <2>1. ASSUME NEW a \in AgentIds, AgentLost(a) \/ OnAgentDisconnect(a) PROVE Goal
    <3>1. CASE AgentLost(a)
      BY <1>2, <3>1, OtherStepsKept DEF AgentLost
    <3>2. CASE OnAgentDisconnect(a)
      <4>1. /\ DOMAIN agents' = DOMAIN agents \ {a}
            /\ services' = Drop(services, {q \in Live(a) : svc[services[q]].agents \ {a} = {}})
            /\ \/ svc'[services[p]].agents = svc[services[p]].agents
               \/ svc'[services[p]].agents = svc[services[p]].agents \ {a}
        BY <1>1, <3>2, OnAgentDisconnectFacts
      <4>2. b # a
        BY <4>1
      <4>3. svc[services[p]].agents \ {a} # {}
        BY <4>2
      <4>4. QED
        BY <4>1, <4>2, <4>3 DEF Drop
    <3>3. QED
      BY <2>1, <3>1, <3>2
  <2>2. ASSUME NEW a \in AgentIds, NEW q \in Ports, Bind(a, q) PROVE Goal
    <3>1. CASE q \in DOMAIN services
      <4>1. /\ services' = services /\ services[q] \in DOMAIN svc
            /\ svc' = [svc EXCEPT ![services[q]] =
                          [svc[services[q]] EXCEPT !.agents = svc[services[q]].agents \cup {a}]]
        BY <2>2, <3>1 DEF Bind, RegistryIInv, RegistryInv
      <4>2. svc[services[q]] \in ServiceInfo(nses)
        BY <1>1, <4>1 DEF TypeOK
      <4>3. [svc[services[q]] EXCEPT !.agents = svc[services[q]].agents \cup {a}].agents
               = svc[services[q]].agents \cup {a}
        BY <4>2 DEF ServiceInfo
      <4>4. QED
        BY <1>1, <4>1, <4>3
    <3>2. CASE q \notin DOMAIN services \cup BusyPorts
      <4>1. \E X : svc' = Put(svc, nsvc + 1, X) /\ services' = Put(services, q, nsvc + 1)
        BY <2>2, <3>2 DEF Bind
      <4>2. nsvc + 1 \notin DOMAIN svc
        <5>1. nsvc \in 0..MaxServices /\ DOMAIN svc = 1..nsvc
          BY <1>1 DEF TypeOK
        <5>2. QED
          BY <5>1, ConstantsAssumption
      <4>3. QED
        BY <1>1, <3>2, <4>1, <4>2 DEF Put
    <3>3. CASE q \in BusyPorts \ DOMAIN services
      BY <2>2, <3>3 DEF Bind
    <3>4. QED
      BY <3>1, <3>2, <3>3
  <2>3. ASSUME NEW a \in AgentIds, NEW q \in Ports, Unbind(a, q) PROVE Goal
    BY <2>3 DEF Unbind
  <2>4. ASSUME NEW a \in AgentIds, NEW q \in Ports, NEW id \in UserIds,
               Data(a, q, id) \/ Disconnect(a, q, id) \/ SessionConn(a, q, id)
        PROVE  Goal
    <3>1. CASE Data(a, q, id)
      BY <1>2, <3>1, OtherStepsKept DEF Data
    <3>2. QED
      BY <1>2, <2>4, <3>1, DisconnectKept, SessionConnKept
  <2>5. QED
    BY <1>2, <1>4, <2>1, <2>2, <2>3, <2>4, OnAgentConnectKept DEF AgentStep
<1>5. CASE UserStep
  <2>1. ASSUME NEW h \in ServiceIds, RunStrand(h) PROVE Goal
    <3>1. CASE OnUserRecv(h) \/ LateUserEvent(h)
      BY <1>2, <3>1, OtherStepsKept DEF OnUserRecv, LateUserEvent
    <3>2. QED
      BY <1>2, <2>1, <3>1, ConnStepsKept, OnUserDisconnectKept DEF RunStrand
  <2>2. QED
    BY <1>2, <1>5, <2>1, OnUserConnectKept, ConnStepsKept, SendDoneKept DEF UserStep
<1>6. QED
  BY <1>3, <1>4, <1>5 DEF Next

(* The sessions of an agent that have a number have the service of its port  *)
(* as their home.                                                            *)
LEMMA AgentHomeInductive ==
    ASSUME RegistryIInv, KeyIsSeq, AgentHome, OnePortEach, [Next]_vars, OnePortEach', ~TakesOver,
           "UNBIND" \notin Commands
    PROVE  AgentHome'
<1>1. TypeOK /\ PortsKept /\ DOMAIN ses = 1..nses
  BY PortsStay DEF RegistryIInv, TypeOK
<1> DEFINE Goal(b, s) ==
             /\ agents'[b].ports # {}
             /\ \A p \in agents'[b].ports :
                   \E h : /\ p \in DOMAIN services' /\ services'[p] = h
                          /\ b \in svc'[h].agents /\ Home(s, h)'
<1>2. SUFFICES ASSUME NEW b \in DOMAIN agents', NEW s \in Values(agents'[b].sessions), ses'[s].seq # 0
               PROVE  Goal(b, s)
  BY DEF AgentHome
<1>3. ASSUME b \in DOMAIN agents, s \in Values(agents[b].sessions), ses[s].seq # 0
      PROVE  Goal(b, s)
  <2>1. agents[b].ports # {} /\ agents[b].ports \subseteq agents'[b].ports
    BY <1>1, <1>3 DEF AgentHome, PortsKept
  <2>2. agents'[b].ports = agents[b].ports
    <3>1. \A p, q \in agents'[b].ports : p = q
      BY DEF OnePortEach
    <3>2. QED
      BY <2>1, <3>1
  <2>3. s \in DOMAIN ses
    <3>1. agents[b].sessions \in Map(UserIds, 1..nses)
      BY <1>1, <1>3 DEF TypeOK, AgentInfo
    <3>2. agents[b].sessions \in [DOMAIN agents[b].sessions -> 1..nses]
      BY <3>1, MapElim
    <3>3. QED
      BY <1>1, <1>3, <3>2 DEF Values
  <2>4. ASSUME NEW p \in agents[b].ports, NEW h, h = services[p]
        PROVE  p \in DOMAIN services' /\ services'[p] = h /\ b \in svc'[h].agents /\ Home(s, h)'
    <3>1. p \in DOMAIN services /\ b \in svc[h].agents /\ Home(s, h)
      BY <1>3, <2>4 DEF AgentHome
    <3>2. p \in DOMAIN services' /\ services'[p] = h /\ b \in svc'[h].agents
      BY <2>4, <3>1, ServingStays
    <3>3. h \in DOMAIN svc
      BY <2>4, <3>1 DEF RegistryIInv, RegistryInv
    <3>4. QED
      BY <2>3, <3>1, <3>2, <3>3, HomeStays
  <2>5. QED
    BY <2>1, <2>2, <2>4
<1>4. ASSUME b \in DOMAIN agents, s \in Values(agents[b].sessions)
      PROVE  s \in DOMAIN ses
  <2>1. agents[b].sessions \in Map(UserIds, 1..nses)
    BY <1>1, <1>4 DEF TypeOK, AgentInfo
  <2>2. agents[b].sessions \in [DOMAIN agents[b].sessions -> 1..nses]
    BY <2>1, MapElim
  <2>3. QED
    BY <1>1, <1>4, <2>2 DEF Values
<1>5. CASE OldSessions
  <2>1. agents'[b].sessions # << >>
    BY NoValues
  <2>2. b \in DOMAIN agents /\ SubMap(agents'[b].sessions, agents[b].sessions)
    BY <1>5, <2>1 DEF OldSessions, AgentSessionsShrink
  <2>3. s \in Values(agents[b].sessions)
    BY <2>2, ValuesOf
  <2>4. ses'[s].seq = ses[s].seq
    BY <1>4, <1>5, <2>2, <2>3 DEF OldSessions, ObjectsKept
  <2>5. QED
    BY <1>2, <1>3, <2>2, <2>3, <2>4
<1>6. ASSUME NEW n, NEW key, NEW r, Adds(n, key, r), NEW a \in DOMAIN agents,
             DOMAIN agents' = DOMAIN agents,
             \A c \in DOMAIN agents : agents'[c].sessions =
                IF c = a THEN Put(agents[c].sessions, key, nses + 1) ELSE agents[c].sessions,
             ~(b = a /\ s = nses + 1)
      PROVE  Goal(b, s)
  <2>1. b \in DOMAIN agents /\ s \in Values(agents[b].sessions)
    BY <1>6, ValuesOf
  <2>2. ses'[s] = ses[s]
    BY <1>1, <1>4, <1>6, <2>1, NewObject DEF Adds
  <2>3. QED
    BY <1>2, <1>3, <2>1, <2>2
<1>7. ASSUME NEW k \in ServiceIds, NEW a \in AgentIds, OnUserConnect(k), Accepts(k, a)
      PROVE  Goal(b, s)
  <2>1. PICK seq, r : Adds(k, seq, r) /\ seq = svc[k].next_seq + 1
    <3>1. Adds(k, svc[k].next_seq + 1, NewSession(svc[k].next_seq + 1, a, FALSE))
      BY <1>1, <1>7, AcceptsAdds
    <3>2. QED
      BY <3>1
  <2>2. /\ k \in 1..nsvc /\ DOMAIN svc = 1..nsvc /\ DOMAIN agents' = DOMAIN agents
        /\ svc[k].inited /\ a \in svc[k].agents /\ svc[k].port \in agents[a].ports
        /\ a \in DOMAIN agents /\ svc'[k].next_seq = seq
        /\ \A c \in DOMAIN agents : /\ agents'[c].ports = agents[c].ports
                                    /\ agents'[c].sessions =
                                         IF c = a THEN Put(agents[c].sessions, seq, nses + 1)
                                         ELSE agents[c].sessions
    BY <1>1, <1>7, <2>1 DEF Accepts, TypeOK
  <2>3. CASE b = a /\ s = nses + 1
    <3>1. services[svc[k].port] = k /\ svc[k].port \in DOMAIN services
      BY <2>2 DEF RegistryIInv, ListenerInv
    <3>2. services' = services /\ svc'[k].agents = svc[k].agents
      BY <1>7, <2>2, OnUserConnectKept DEF RegistryKept
    <3>3. \A p \in agents'[b].ports : p = svc[k].port
      BY <2>2, <2>3 DEF OnePortEach
    <3>4. seq <= svc'[k].next_seq
      BY <1>1, <2>1, <2>2, SeqNumbers
    <3>5. Home(s, k)'
      BY <1>1, <2>1, <2>3, <3>4, NewHome
    <3>6. QED
      BY <2>2, <2>3, <3>1, <3>2, <3>3, <3>5
  <2>4. CASE ~(b = a /\ s = nses + 1)
    BY <1>6, <2>1, <2>2, <2>4
  <2>5. QED
    BY <2>3, <2>4
<1>8. ASSUME NEW a \in AgentIds, NEW p \in Ports, NEW j \in UserIds, DeclaresFor(a, p, j)
      PROVE  Goal(b, s)
  <2>1. Makes(a, p, j)
    BY <1>8, SessionConnMakes DEF TakesOver
  <2>2. PICK n, r : Adds(n, j, r) /\ r.seq = 0
    <3> DEFINE new == NewSession(0, a, TRUE)
    <3>1. Adds(services[p], j, new) /\ new.seq = 0
      BY <2>1, MakesAdds
    <3> HIDE DEF new
    <3>2. QED
      BY <3>1
  <2>3. s # nses + 1
    BY <1>1, <1>2, <2>2, NewObject DEF Adds
  <2>4. a \in DOMAIN agents /\ DOMAIN agents' = DOMAIN agents
        /\ \A c \in DOMAIN agents : agents'[c].sessions =
              IF c = a THEN Put(agents[c].sessions, j, nses + 1) ELSE agents[c].sessions
    BY <2>1 DEF Makes
  <2>5. QED
    BY <1>6, <2>2, <2>3, <2>4
<1>9. QED
  BY <1>5, <1>7, <1>8, OldOrNewSessions DEF Declares

(* A session that leaves a service has lost its user, and is finished if it   *)
(* was made for the user: whoever erases a number finds the object it means,  *)
(* or the one that SESSION has put in its place.                              *)
LEMMA DroppedIsFinished ==
    ASSUME RegistryIInv, KeyIsSeq, TableHome, PendingHome, AgentHome, [Next]_vars,
           NEW h \in DOMAIN svc, NEW id \in DOMAIN svc[h].sessions, id \notin DOMAIN svc'[h].sessions
    PROVE  /\ id \notin DOMAIN svc'[h].conns
           /\ ses'[svc[h].sessions[id]].seq # 0 => Finished(ses'[svc[h].sessions[id]])
<1> DEFINE s == svc[h].sessions[id]
           Goal == id \notin DOMAIN svc'[h].conns /\ (ses'[s].seq # 0 => Finished(ses'[s]))
<1>1. TypeOK /\ DOMAIN svc = 1..nsvc /\ s \in DOMAIN ses /\ DOMAIN ses = 1..nses /\ id # 0
  <2>1. TypeOK /\ DOMAIN svc = 1..nsvc /\ DOMAIN ses = 1..nses
    BY DEF RegistryIInv, TypeOK
  <2>2. s \in DOMAIN ses /\ id \in UserIds
    BY <2>1, TableObjects
  <2>3. QED
    BY <2>1, <2>2, ConstantsAssumption DEF UserIds
<1>2. ASSUME NEW X, svc'[h].sessions = Drop(svc[h].sessions, X) PROVE id \in X
  BY <1>2 DEF Drop
<1>3. svc'[h].sessions # svc[h].sessions
  OBVIOUS
<1> HIDE DEF s
(* What erased it is an object t that has its number and this home. *)
<1>4. ASSUME NEW t \in DOMAIN ses, ses[t].seq = id, Home(t, h), ses[t].user_disconnected, OldSessions,
             t = s => Finished(ses'[s])
      PROVE  Goal
  <2>1. id \notin DOMAIN svc'[h].conns
    BY <1>1, <1>4 DEF Home, OldSessions, ConnsShrink
  <2>2. s = t \/ ses[s].seq = 0
    BY <1>1, <1>4 DEF Home, s
  <2>3. ses'[s].seq = ses[s].seq
    BY <1>1, <1>4 DEF OldSessions, ObjectsKept
  <2>4. QED
    BY <1>4, <2>1, <2>2, <2>3
<1>5. ~Quiet
  BY <1>3 DEF Quiet, SessionsStay
<1>6. ASSUME NEW k, NEW j, NEW r, EndOf(k, j, r) PROVE Goal
  <2>1. svc'[h].sessions = IF Finished(r) /\ h = k THEN Drop(svc[h].sessions, {r.seq}) ELSE svc[h].sessions
    BY <1>1, <1>6 DEF EndOf
  <2>2. Finished(r) /\ h = k /\ id = r.seq
    BY <1>2, <1>3, <2>1
  <2>3. /\ j \in DOMAIN svc[h].sessions /\ r.seq = ses[svc[h].sessions[j]].seq
        /\ ses' = [ses EXCEPT ![svc[h].sessions[j]] = r]
        /\ r.user_disconnected => \/ ses[svc[h].sessions[j]].user_disconnected
                                 \/ j \notin DOMAIN svc'[h].conns
    BY <1>6, <2>2 DEF EndOf
  <2>4. j = id
    BY <1>1, <2>2, <2>3 DEF KeyIsSeq
  <2>5. ses'[s] = r
    BY <1>1, <2>3, <2>4 DEF s
  <2>6. OldSessions
    BY <1>1, <1>6, EndOfOld
  <2>7. Home(s, h) /\ ses[s].seq = id
    BY <2>2, <2>3, <2>4 DEF TableHome, s
  <2>8. CASE ses[s].user_disconnected
    BY <1>1, <1>4, <2>2, <2>5, <2>6, <2>7, <2>8
  <2>9. CASE ~ses[s].user_disconnected
    BY <2>2, <2>3, <2>4, <2>5, <2>9 DEF Finished, s
  <2>10. QED
    BY <2>8, <2>9
<1>7. ASSUME NEW k \in ServiceIds, NEW t \in SessionIds, SendDone(k, t) PROVE Goal
  <2>1. /\ ses' = ses /\ OldSessions /\ t \in DOMAIN ses
        /\ svc'[h].sessions = IF Finished(ses[t]) /\ h = k THEN Drop(svc[h].sessions, {ses[t].seq})
                              ELSE svc[h].sessions
    BY <1>1, <1>7, SendDoneCleans
  <2>2. Finished(ses[t]) /\ h = k /\ id = ses[t].seq
    BY <1>2, <1>3, <2>1
  <2>3. <<k, t>> \in pending
    BY <1>7 DEF SendDone
  <2>4. Home(t, h)
    BY <2>2, <2>3 DEF PendingHome
  <2>5. QED
    BY <1>4, <2>1, <2>2, <2>4 DEF Finished
<1>8. ASSUME NEW a \in AgentIds, OnAgentDisconnect(a) PROVE Goal
  <2>1. /\ a \in DOMAIN agents /\ Mine(a) \subseteq 1..nses
        /\ svc'[h].sessions = IF h \in Hit(a) THEN Drop(svc[h].sessions, DoneSeqs(a)) ELSE svc[h].sessions
        /\ \A t \in DOMAIN ses : ses'[t] =
              IF t \in Mine(a) THEN [ses[t] EXCEPT !.tunnel_disconnected = TRUE,
                                                   !.tunnel_hard_disconnected = TRUE]
              ELSE ses[t]
    BY <1>8, OnAgentDisconnectFacts
  <2>2. h \in Hit(a) /\ id \in DoneSeqs(a)
    BY <1>2, <1>3, <2>1
  <2>3. PICK p \in agents[a].ports : h = services[p]
    BY <2>2 DEF Hit, Live
  <2>4. PICK t \in Mine(a) : ses[t].user_disconnected /\ ses[t].seq = id
    BY <2>2 DEF DoneSeqs, Done
  <2>5. t \in Values(agents[a].sessions) /\ t \in DOMAIN ses
    BY <1>1, <2>1, <2>4 DEF Mine
  <2>6. Home(t, h)
    BY <1>1, <2>1, <2>3, <2>4, <2>5 DEF AgentHome
  <2>7. Finished(ses'[t])
    <3>1. ses[t] \in Session
      BY <1>1, <2>5 DEF TypeOK
    <3>2. ses'[t] = [ses[t] EXCEPT !.tunnel_disconnected = TRUE, !.tunnel_hard_disconnected = TRUE]
      BY <2>1, <2>4, <2>5
    <3>3. QED
      BY <2>4, <3>1, <3>2 DEF Session, Finished
  <2>8. QED
    BY <1>4, <1>8, <2>4, <2>5, <2>6, <2>7, OnAgentDisconnectOld
<1>9. ASSUME NEW n, NEW key, NEW r, Adds(n, key, r) PROVE Goal
  <2>1. svc'[h].sessions = svc[h].sessions \/ svc'[h].sessions = Put(svc[h].sessions, key, nses + 1)
    BY <1>9 DEF Adds
  <2>2. QED
    BY <1>3, <2>1 DEF Put
<1>10. ASSUME NEW k, NEW a, Accepts(k, a) PROVE Goal
  <2>1. Adds(k, svc[k].next_seq + 1, NewSession(svc[k].next_seq + 1, a, FALSE))
    BY <1>1, <1>10, AcceptsAdds
  <2>2. QED
    BY <1>9, <2>1
<1>11. ~OnlyAgentMoves
  BY <1>3 DEF OnlyAgentMoves
<1>12. Goal
  BY <1>5, <1>6, <1>7, <1>8, <1>9, <1>10, <1>11, SessionSteps, DeclaresAddsOrMoves DEF Ends
<1>13. QED
  BY <1>12 DEF s

(* A service forgets a session only when its user has gone, and one that it   *)
(* made for the user itself only when the tunnel has gone too, whoever drops  *)
(* it: a DISCONNECT, a user that leaves, a send callback that runs long after *)
(* its session has gone, or an agent or a session connection that goes.  It   *)
(* is for every number of agents, ports, users and sessions, with SESSION as  *)
(* r-nat-c sends it, when each agent serves one port and keeps it.  With      *)
(* several ports an agent that goes erases its numbers from the service of    *)
(* every one of them, and the numbers start at 1 in each.  A SESSION that     *)
(* takes over somebody else's session moves a session with a number to a      *)
(* connection that outlives the service: when a later listener on the port    *)
(* hands the number out again, the end of that connection erases it there.    *)
THEOREM DroppedSessionsAreFinished ==
    ASSUME "UNBIND" \notin Commands
    PROVE  Spec /\ [][~TakesOver]_vars /\ []OnePortEach => SessionsDroppedOnlyWhenFinished
<1> DEFINE IInv == KeyIsSeq /\ TableHome /\ PendingHome /\ AgentHome
           Dropped(h, id) == id \notin DOMAIN svc'[h].sessions =>
               /\ id \notin DOMAIN svc'[h].conns
               /\ LET r == ses'[svc[h].sessions[id]] IN
                  r.seq # 0 => r.user_disconnected /\ r.tunnel_disconnected
<1>1. Init => IInv
  BY DEF Init, KeyIsSeq, TableHome, PendingHome, AgentHome
<1>2. RegistryIInv /\ IInv /\ OnePortEach /\ OnePortEach' /\ [Next]_vars /\ [~TakesOver]_vars => IInv'
  <2>1. SUFFICES ASSUME RegistryIInv, IInv, OnePortEach, OnePortEach', [Next]_vars, [~TakesOver]_vars
                 PROVE  AgentHome'
    BY KeyIsSeqInductive, TableHomeInductive, PendingHomeInductive
  <2>2. CASE UNCHANGED vars
    <3>1. UNCHANGED <<agents, services, svc, ses>>
      BY <2>2 DEF vars
    <3>2. \A x, h : Home(x, h) <=> Home(x, h)'
      BY <3>1 DEF Home
    <3>3. QED
      BY <2>1, <3>1, <3>2 DEF AgentHome
  <2>3. CASE ~TakesOver
    BY <2>1, <2>3, AgentHomeInductive
  <2>4. QED
    BY <2>1, <2>2, <2>3
<1>3. RegistryIInv /\ IInv /\ [Next]_vars
         => [\A h \in DOMAIN svc : \A id \in DOMAIN svc[h].sessions : Dropped(h, id)]_vars
  <2>1. SUFFICES ASSUME RegistryIInv, IInv, [Next]_vars,
                        NEW h \in DOMAIN svc, NEW id \in DOMAIN svc[h].sessions
                 PROVE  Dropped(h, id)
    OBVIOUS
  <2>2. QED
    BY <2>1, DroppedIsFinished DEF Finished
<1>4. QED
  BY <1>1, <1>2, <1>3, RegistryAlways, PTL DEF Spec, SessionsDroppedOnlyWhenFinished
=============================================================================
