---------------------------- MODULE SystemProofs ----------------------------
(***************************************************************************)
(* The composition of relay and agent implements both: every step of the   *)
(* joined system is, for the relay alone, a step of Relay or none, and for *)
(* the agent alone a step of Agent or none.  So the theorems about Relay   *)
(* and Agent, whose messages come from an arbitrary peer, hold of the two  *)
(* programs that talk to each other.  Then, that the relay meets what      *)
(* Agent assumes of it: what it sends arrives in turn.                     *)
(***************************************************************************)
EXTENDS System, TLAPS

(* The one user number of a listener, and the key of its session at the agent. *)
User1 == <<Port, 1>>

----------------------------------------------------------------------------
(* The channels.  OkUp and OkDown are what a message must be for the peer's  *)
(* specification to have a step for it.                                      *)
OkUp(m) == m.cmd = "BIND" => m.user[1] = Port
OkDown(m) == /\ m.cmd \in {"CONNECT", "DATA", "DISCONNECT"}
             /\ m.cmd = "CONNECT" => m.user = User1
AllUp(q) == \E S : q \in Seq(S) /\ \A m \in S : OkUp(m)
AllDown(q) == \E S : q \in Seq(S) /\ \A m \in S : OkDown(m)

(* Queues of messages for the relay. *)
LEMMA UpQueues ==
    ASSUME NEW q, AllUp(q)
    PROVE  /\ \A m : OkUp(m) => AllUp(Append(q, m))
           /\ q # << >> => OkUp(Head(q)) /\ AllUp(Tail(q))
           /\ \A k \in 0..Len(q) : AllUp(SubSeq(q, 1, k))
<1>1. PICK S : q \in Seq(S) /\ \A m \in S : OkUp(m)
  BY DEF AllUp
<1>2. ASSUME NEW m, OkUp(m) PROVE AllUp(Append(q, m))
  <2>1. q \in Seq(S \cup {m}) /\ \A n \in S \cup {m} : OkUp(n)
    BY <1>1, <1>2
  <2>2. Append(q, m) \in Seq(S \cup {m})
    BY <2>1
  <2>3. QED
    BY <2>1, <2>2 DEF AllUp
<1>3. ASSUME q # << >> PROVE OkUp(Head(q)) /\ AllUp(Tail(q))
  <2>1. Head(q) \in S /\ Tail(q) \in Seq(S)
    BY <1>1, <1>3
  <2>2. QED
    BY <1>1, <2>1 DEF AllUp
<1>4. ASSUME NEW k \in 0..Len(q) PROVE AllUp(SubSeq(q, 1, k))
  <2>1. SubSeq(q, 1, k) \in Seq(S)
    BY <1>1, <1>4
  <2>2. QED
    BY <1>1, <2>1 DEF AllUp
<1>5. QED
  BY <1>2, <1>3, <1>4

(* Queues of messages for the agent. *)
LEMMA DownQueues ==
    ASSUME NEW q, AllDown(q)
    PROVE  /\ \A m : OkDown(m) => AllDown(Append(q, m))
           /\ q # << >> => OkDown(Head(q)) /\ AllDown(Tail(q))
           /\ \A k \in 0..Len(q) : AllDown(SubSeq(q, 1, k))
<1>1. PICK S : q \in Seq(S) /\ \A m \in S : OkDown(m)
  BY DEF AllDown
<1>2. ASSUME NEW m, OkDown(m) PROVE AllDown(Append(q, m))
  <2>1. q \in Seq(S \cup {m}) /\ \A n \in S \cup {m} : OkDown(n)
    BY <1>1, <1>2
  <2>2. Append(q, m) \in Seq(S \cup {m})
    BY <2>1
  <2>3. QED
    BY <2>1, <2>2 DEF AllDown
<1>3. ASSUME q # << >> PROVE OkDown(Head(q)) /\ AllDown(Tail(q))
  <2>1. Head(q) \in S /\ Tail(q) \in Seq(S)
    BY <1>1, <1>3
  <2>2. QED
    BY <1>1, <2>1 DEF AllDown
<1>4. ASSUME NEW k \in 0..Len(q) PROVE AllDown(SubSeq(q, 1, k))
  <2>1. SubSeq(q, 1, k) \in Seq(S)
    BY <1>1, <1>4
  <2>2. QED
    BY <1>1, <2>1 DEF AllDown
<1>5. QED
  BY <1>2, <1>3, <1>4

(* An empty queue. *)
LEMMA EmptyQueues == AllUp(<< >>) /\ AllDown(<< >>)
<1>1. ASSUME NEW q, q = << >> PROVE AllUp(q) /\ AllDown(q)
  <2>1. q \in Seq({}) /\ \A m \in {} : OkUp(m) /\ OkDown(m)
    BY <1>1
  <2>2. QED
    BY <2>1 DEF AllUp, AllDown
<1>2. QED
  BY <1>1

----------------------------------------------------------------------------
(* What the relay may tell its agents: services are for the one port, the    *)
(* users of a listener are numbered from 1, and CONNECT names one of them.   *)
Fields == {"port", "agents", "sessions", "inited", "next_seq", "conns"}
ServiceOk(r) == Fields \subseteq DOMAIN r /\ r.port = Port /\ r.next_seq \in Nat
ServicesOk == \A h \in DOMAIN svc : ServiceOk(svc[h])
RelayTold ==
    /\ nagents \in Nat /\ ServicesOk
    /\ \A m \in r2a : m.cmd = "CONNECT" => m.port = Port /\ m.id = 1
    /\ \A a \in DOMAIN claim : claim[a] = User1

(* Assigning to another field keeps the port and the number of users. *)
LEMMA ServiceUpdates ==
    ASSUME NEW r, ServiceOk(r)
    PROVE  /\ \A X : /\ ServiceOk([r EXCEPT !.agents = X]) /\ ServiceOk([r EXCEPT !.sessions = X])
                     /\ ServiceOk([r EXCEPT !.inited = X]) /\ ServiceOk([r EXCEPT !.conns = X])
           /\ \A n \in Nat : ServiceOk([r EXCEPT !.next_seq = n])
BY DEF ServiceOk, Fields

(* So does withdrawing an agent. *)
LEMMA RemoveAgentOk ==
    ASSUME NEW r, ServiceOk(r), NEW a
    PROVE  ServiceOk(R!RemoveAgent(r, a))
<1> DEFINE t == [r EXCEPT !.agents = r.agents \ {a}]
<1>1. ServiceOk(t)
  BY ServiceUpdates
<1>2. ServiceOk(R!CloseServer(t))
  <2> DEFINE u == [t EXCEPT !.inited = FALSE]
             v == [u EXCEPT !.conns = << >>]
  <2>1. R!CloseServer(t) = v
    BY <1>1 DEF R!CloseServer, ServiceOk, Fields
  <2> HIDE DEF t
  <2>2. ServiceOk(u)
    BY <1>1, ServiceUpdates
  <2> HIDE DEF u
  <2>3. ServiceOk(v)
    BY <2>2, ServiceUpdates
  <2>4. QED
    BY <2>1, <2>3
<1>3. R!RemoveAgent(r, a) = IF t.agents = {} THEN R!CloseServer(t) ELSE t
  BY DEF R!RemoveAgent
<1> HIDE DEF t
<1>4. QED
  BY <1>1, <1>2, <1>3

(* So does __CleanSession. *)
LEMMA CleanSessionOk ==
    ASSUME NEW h, NEW r, NEW S, NEW Q, \A k \in DOMAIN S : ServiceOk(S[k]),
           R!CleanSession(h, r, S, Q)
    PROVE  ServicesOk'
<1>1. svc' = S \/ \E X : svc' = [S EXCEPT ![h] = [S[h] EXCEPT !.sessions = X]]
  BY DEF R!CleanSession
<1>2. ASSUME NEW X, svc' = [S EXCEPT ![h] = [S[h] EXCEPT !.sessions = X]], NEW k \in DOMAIN svc'
      PROVE  ServiceOk(svc'[k])
  <2>1. k \in DOMAIN S /\ (svc'[k] = S[k] \/ svc'[k] = [S[k] EXCEPT !.sessions = X])
    BY <1>2
  <2>2. ServiceOk(S[k]) /\ ServiceOk([S[k] EXCEPT !.sessions = X])
    BY <2>1, ServiceUpdates
  <2>3. QED
    BY <2>1, <2>2
<1>3. svc' = S => \A k \in DOMAIN svc' : ServiceOk(svc'[k])
  OBVIOUS
<1>4. \A k \in DOMAIN svc' : ServiceOk(svc'[k])
  BY <1>1, <1>2, <1>3
<1>5. QED
  BY <1>4 DEF ServicesOk

(* So does any assignment to one service. *)
LEMMA OneService ==
    ASSUME ServicesOk, NEW h, NEW r, h \in DOMAIN svc => ServiceOk(r), svc' = [svc EXCEPT ![h] = r]
    PROVE  ServicesOk'
BY DEF ServicesOk

(* __OnUserConnect announces user 1 of the port. *)
LEMMA OnUserConnectOk ==
    ASSUME ServicesOk, NEW h, R!OnUserConnect(h)
    PROVE  /\ ServicesOk'
           /\ r2a' = r2a \/ \E a : r2a' = r2a \cup {R!Msg("CONNECT", a, Port, 1)}
<1> DEFINE seq == svc[h].next_seq + 1
           r1 == [svc[h] EXCEPT !.next_seq = seq]
           r2 == [r1 EXCEPT !.conns = R!Put(r1.conns, seq, "open")]
           r3(X) == [r2 EXCEPT !.sessions = X]
<1>1. h \in DOMAIN svc /\ ServiceOk(svc[h]) /\ seq <= 1
  BY DEF R!OnUserConnect, R!OnAccept, R!RunningServer, R!NextSeq, ServicesOk
<1>2. seq \in Nat /\ seq = 1 /\ svc[h].port = Port
  BY <1>1 DEF ServiceOk
<1>3. ServiceOk(r1)
  BY <1>1, <1>2, ServiceUpdates
<1>4. /\ svc' = [svc EXCEPT ![h] = r2] \/ \E X : svc' = [svc EXCEPT ![h] = r3(X)]
      /\ r2a' = r2a \/ \E a : r2a' = r2a \cup {R!Msg("CONNECT", a, svc[h].port, seq)}
  <2> DEFINE conned == [svc EXCEPT ![h].next_seq = seq, ![h].conns = R!Put(@, seq, "open")]
  <2>1. conned = [svc EXCEPT ![h] = r2]
    BY <1>1
  <2>2. \A X : [conned EXCEPT ![h].sessions = X] = [svc EXCEPT ![h] = r3(X)]
    BY <1>1, <2>1
  <2>3. svc' = conned \/ \E X : svc' = [conned EXCEPT ![h].sessions = X]
    BY DEF R!OnUserConnect, R!NextSeq
  <2>4. r2a' = r2a \/ \E a : r2a' = r2a \cup {R!Msg("CONNECT", a, svc[h].port, seq)}
    BY DEF R!OnUserConnect, R!NextSeq
  <2> HIDE DEF conned, r2, r3
  <2>5. QED
    BY <2>1, <2>2, <2>3, <2>4
<1> HIDE DEF r1
<1>5. ServiceOk(r2)
  BY <1>3, ServiceUpdates
<1> HIDE DEF r2
<1>6. \A X : ServiceOk(r3(X))
  BY <1>5, ServiceUpdates
<1> HIDE DEF r3, seq
<1>7. ServicesOk'
  BY <1>4, <1>5, <1>6, OneService
<1>8. QED
  BY <1>2, <1>4, <1>7

(* Every step of the relay keeps it so. *)
LEMMA RelayToldInductive ==
    ASSUME RelayTold, R!Next
    PROVE  RelayTold'
<1>1. nagents \in Nat /\ ServicesOk
  BY DEF RelayTold
<1> DEFINE Kept == UNCHANGED <<nagents, claim>>
           Quiet == Kept /\ r2a' = r2a /\ ServicesOk'
           Told(m) == m.cmd = "CONNECT" => m.port = Port /\ m.id = 1
<1>2. Quiet => RelayTold'
  BY DEF RelayTold
<1>3. ASSUME Kept, ServicesOk', NEW m, Told(m), r2a' = r2a \cup {m} PROVE RelayTold'
  BY <1>3 DEF RelayTold
<1>4. svc' = svc => ServicesOk'
  BY <1>1 DEF ServicesOk
<1>5. CASE R!OnAgentConnect
  BY <1>1, <1>4, <1>5 DEF R!OnAgentConnect, RelayTold
<1>6. ASSUME NEW a, R!AgentLost(a) PROVE RelayTold'
  BY <1>2, <1>4, <1>6 DEF R!AgentLost, R!counts
<1>7. ASSUME NEW a, R!OnAgentDisconnect(a) PROVE RelayTold'
  <2> DEFINE live == agents[a].ports \cap DOMAIN services
             H == {services[p] : p \in live}
             mine == IF live = {} THEN {} ELSE R!Values(agents[a].sessions)
             X == {rses[s].seq : s \in {s \in mine : rses[s].user_disconnected}}
  <2>1. svc' = [h \in DOMAIN svc |-> IF h \in H
                       THEN R!RemoveAgent([svc[h] EXCEPT !.sessions = R!Drop(@, X)], a) ELSE svc[h]]
    BY <1>7 DEF R!OnAgentDisconnect
  <2> HIDE DEF H, X
  <2>2. ASSUME NEW h \in DOMAIN svc PROVE ServiceOk(svc'[h])
    <3> DEFINE t == [svc[h] EXCEPT !.sessions = R!Drop(@, X)]
    <3>1. ServiceOk(svc[h]) /\ ServiceOk(t)
      BY <1>1, ServiceUpdates DEF ServicesOk
    <3>2. svc'[h] = IF h \in H THEN R!RemoveAgent(t, a) ELSE svc[h]
      BY <2>1
    <3> HIDE DEF t
    <3>3. QED
      BY <3>1, <3>2, RemoveAgentOk
  <2>3. ServicesOk'
    BY <2>1, <2>2 DEF ServicesOk
  <2>4. QED
    BY <1>2, <1>7, <2>3 DEF R!OnAgentDisconnect, R!counts
<1>8. ASSUME NEW a, NEW p \in {Port}, R!Bind(a, p) PROVE RelayTold'
  <2>1. \/ svc' = svc
        \/ \E X : svc' = [svc EXCEPT ![services[p]] = [svc[services[p]] EXCEPT !.agents = X]]
        \/ svc' = R!Put(svc, nsvc + 1, [port |-> p, agents |-> {a}, sessions |-> << >>,
                                        inited |-> TRUE, next_seq |-> 0, conns |-> << >>])
    BY <1>8 DEF R!Bind
  <2>2. ASSUME NEW X, svc' = [svc EXCEPT ![services[p]] = [svc[services[p]] EXCEPT !.agents = X]]
        PROVE  ServicesOk'
    <3>1. services[p] \in DOMAIN svc => ServiceOk([svc[services[p]] EXCEPT !.agents = X])
      BY <1>1, ServiceUpdates DEF ServicesOk
    <3>2. QED
      BY <1>1, <2>2, <3>1, OneService
  <2>3. ServiceOk([port |-> p, agents |-> {a}, sessions |-> << >>,
                   inited |-> TRUE, next_seq |-> 0, conns |-> << >>])
    BY DEF ServiceOk, Fields
  <2>4. ServicesOk'
    BY <1>1, <1>4, <2>1, <2>2, <2>3 DEF ServicesOk, R!Put
  <2>5. QED
    BY <1>2, <1>8, <2>4 DEF R!Bind, R!counts
<1>9. ASSUME NEW a, NEW p, R!Unbind(a, p) PROVE RelayTold'
  BY <1>9 DEF R!Unbind
<1>10. ASSUME NEW a, NEW p, NEW id, R!Data(a, p, id) PROVE RelayTold'
  BY <1>2, <1>4, <1>10 DEF R!Data, R!counts
<1>11. ASSUME NEW a, NEW p, NEW id, R!Disconnect(a, p, id) PROVE RelayTold'
  <2>1. \E h, r : R!CleanSession(h, r, svc, rstrand)
    BY <1>11 DEF R!Disconnect
  <2>2. ServicesOk'
    BY <1>1, <2>1, CleanSessionOk DEF ServicesOk
  <2>3. QED
    BY <1>2, <1>11, <2>2 DEF R!Disconnect, R!counts
<1>12. ASSUME NEW a, NEW p, NEW id \in {1}, p = Port, R!SessionConn(a, p, id) PROVE RelayTold'
  <2>1. \/ svc' = svc
        \/ \E X : svc' = [svc EXCEPT ![services[p]] = [svc[services[p]] EXCEPT !.sessions = X]]
    BY <1>12 DEF R!SessionConn
  <2>2. ASSUME NEW X, svc' = [svc EXCEPT ![services[p]] = [svc[services[p]] EXCEPT !.sessions = X]]
        PROVE  ServicesOk'
    <3>1. services[p] \in DOMAIN svc => ServiceOk([svc[services[p]] EXCEPT !.sessions = X])
      BY <1>1, ServiceUpdates DEF ServicesOk
    <3>2. QED
      BY <1>1, <2>2, <3>1, OneService
  <2>3. ServicesOk'
    BY <1>4, <2>1, <2>2
  <2>4. nagents' = nagents /\ r2a' = r2a /\ claim' = R!Put(claim, a, User1)
    BY <1>12 DEF R!SessionConn, R!counts, User1
  <2>5. QED
    BY <2>3, <2>4 DEF RelayTold, R!Put
<1>13. ASSUME NEW h, R!OnUserConnect(h) PROVE RelayTold'
  <2>1. ServicesOk' /\ (r2a' = r2a \/ \E a : r2a' = r2a \cup {R!Msg("CONNECT", a, Port, 1)})
    BY <1>1, <1>13, OnUserConnectOk
  <2>2. Kept
    BY <1>13 DEF R!OnUserConnect, R!counts
  <2>3. \A a : Told(R!Msg("CONNECT", a, Port, 1))
    BY DEF R!Msg
  <2> HIDE DEF Told, Kept
  <2>4. QED
    BY <1>2, <1>3, <2>1, <2>2, <2>3
<1>14. ASSUME NEW h, R!OnUserRecv(h) PROVE RelayTold'
  <2>1. Kept /\ svc' = svc
        /\ (r2a' = r2a \/ \E a, p, id : r2a' = r2a \cup {R!Msg("DATA", a, p, id)})
    BY <1>14 DEF R!OnUserRecv, R!counts
  <2>2. \A a, p, id : Told(R!Msg("DATA", a, p, id))
    BY DEF R!Msg
  <2> HIDE DEF Told, Kept
  <2>3. QED
    BY <1>2, <1>3, <1>4, <2>1, <2>2
<1>15. ASSUME NEW h, R!OnUserDisconnect(h) PROVE RelayTold'
  <2> DEFINE gone == [svc EXCEPT ![h].conns = R!Drop(@, {Head(rstrand[h]).seq})]
  <2>1. \A k \in DOMAIN gone : ServiceOk(gone[k])
    <3>1. gone = [svc EXCEPT ![h] = [svc[h] EXCEPT !.conns = R!Drop(svc[h].conns, {Head(rstrand[h]).seq})]]
      OBVIOUS
    <3>2. h \in DOMAIN svc => ServiceOk([svc[h] EXCEPT !.conns = R!Drop(svc[h].conns, {Head(rstrand[h]).seq})])
      BY <1>1, ServiceUpdates DEF ServicesOk
    <3>3. QED
      BY <1>1, <3>1, <3>2 DEF ServicesOk
  <2>2. svc' = gone \/ \E r, Q : R!CleanSession(h, r, gone, Q)
    BY <1>15 DEF R!OnUserDisconnect
  <2>3. Kept /\ (r2a' = r2a \/ \E a, p, id : r2a' = r2a \cup {R!Msg("DISCONNECT", a, p, id)})
    BY <1>15 DEF R!OnUserDisconnect, R!counts
  <2>4. \A a, p, id : Told(R!Msg("DISCONNECT", a, p, id))
    BY DEF R!Msg
  <2> HIDE DEF Told, Kept, gone
  <2>5. ServicesOk'
    BY <2>1, <2>2, CleanSessionOk DEF ServicesOk
  <2>6. QED
    BY <1>2, <1>3, <2>3, <2>4, <2>5
<1>16. ASSUME NEW h, R!CloseConn(h) \/ \E id : R!UserLeaves(h, id) PROVE RelayTold'
  <2>1. svc' = svc \/ \E X : svc' = [svc EXCEPT ![h] = [svc[h] EXCEPT !.conns = X]]
    BY <1>16 DEF R!CloseConn, R!UserLeaves
  <2>2. ASSUME NEW X, svc' = [svc EXCEPT ![h] = [svc[h] EXCEPT !.conns = X]] PROVE ServicesOk'
    <3>1. h \in DOMAIN svc => ServiceOk([svc[h] EXCEPT !.conns = X])
      BY <1>1, ServiceUpdates DEF ServicesOk
    <3>2. QED
      BY <1>1, <2>2, <3>1, OneService
  <2>3. QED
    BY <1>2, <1>4, <1>16, <2>1, <2>2 DEF R!CloseConn, R!UserLeaves, R!counts
<1>17. ASSUME NEW h, R!LateUserEvent(h) \/ \E id : R!UserSends(h, id) PROVE RelayTold'
  BY <1>2, <1>4, <1>17 DEF R!LateUserEvent, R!UserSends, R!counts
<1>18. ASSUME NEW h, NEW s, R!SendDone(h, s) PROVE RelayTold'
  <2>1. R!CleanSession(h, rses[s], svc, rstrand)
    BY <1>18 DEF R!SendDone
  <2>2. ServicesOk'
    BY <1>1, <2>1, CleanSessionOk DEF ServicesOk
  <2>3. QED
    BY <1>2, <1>18, <2>2 DEF R!SendDone, R!counts
<1> HIDE DEF Kept, Quiet, Told
<1>19. R!UserIds = {1}
  BY DEF R!UserIds
<1>20. CASE R!AgentStep
  <2>1. \A a, p, id : R!SessionConn(a, p, id) /\ p \in {Port} /\ id \in R!UserIds => RelayTold'
    BY <1>12, <1>19
  <2>2. QED
    BY <1>5, <1>6, <1>7, <1>8, <1>9, <1>10, <1>11, <1>20, <2>1 DEF R!AgentStep
<1>21. CASE R!UserStep
  BY <1>13, <1>14, <1>15, <1>16, <1>17, <1>18, <1>21 DEF R!UserStep, R!RunStrand
<1>22. QED
  BY <1>20, <1>21 DEF R!Next

----------------------------------------------------------------------------
(* The two programs and what is on its way between them. *)
AgentTold == \A e \in told : e[2] = User1
Channels ==
    /\ \A c \in DOMAIN num : num[c] \in R!AgentIds
    /\ DOMAIN up = Conns /\ DOMAIN down = Conns
    /\ \A c \in Conns : AllUp(up[c]) /\ AllDown(down[c])
Joined == RelayTold /\ AgentTold /\ Channels

(* Whom the relay knows is user 1. *)
LEMMA KnownToRelay ==
    ASSUME RelayTold, NEW a, NEW p, NEW id, R!Knows(a, p, id) \/ R!MayClaim(a, p, id)
    PROVE  p \in {Port} /\ id \in R!UserIds
<1>1. \A b : R!Msg("CONNECT", b, p, id) \in r2a => p = Port /\ id = 1
  <2>1. \A b : LET m == R!Msg("CONNECT", b, p, id) IN m.cmd = "CONNECT" /\ m.port = p /\ m.id = id
    BY DEF R!Msg
  <2>2. QED
    BY <2>1 DEF RelayTold
<1>2. a \in DOMAIN claim /\ claim[a] = <<p, id>> => p = Port /\ id = 1
  BY DEF RelayTold, User1
<1>3. p = Port /\ id = 1
  BY <1>1, <1>2 DEF R!Knows, R!MayClaim
<1>4. QED
  BY <1>3 DEF R!UserIds

(* What the relay does with a message is one of its steps. *)
LEMMA RelayHandlesIsRelayStep ==
    ASSUME Joined, NEW c \in Conns, RelayHandles(c)
    PROVE  R!Next \/ UNCHANGED rvars
<1> DEFINE m == Head(up[c])
           a == num[c]
           p == m.user[1]
           id == m.user[2]
<1>1. a \in R!AgentIds /\ OkUp(m)
  <2>1. AllUp(up[c]) /\ up[c] # << >> /\ c \in DOMAIN num
    BY DEF Joined, Channels, RelayHandles
  <2>2. QED
    BY <2>1, UpQueues DEF Joined, Channels
<1>2. \/ m.cmd = "BIND" /\ R!Bind(a, p)
      \/ R!SessionConn(a, p, id) \/ R!Data(a, p, id) \/ R!Disconnect(a, p, id)
      \/ UNCHANGED rvars
  BY DEF RelayHandles
<1> HIDE DEF m, a, p, id
<1>3. CASE m.cmd = "BIND" /\ R!Bind(a, p)
  <2>1. p \in {Port}
    BY <1>1, <1>3 DEF OkUp, p
  <2>2. QED
    BY <1>1, <1>3, <2>1 DEF R!Next, R!AgentStep
<1>4. CASE R!SessionConn(a, p, id) \/ R!Data(a, p, id) \/ R!Disconnect(a, p, id)
  <2>1. R!Knows(a, p, id) \/ R!MayClaim(a, p, id)
    BY <1>4 DEF R!SessionConn, R!Data, R!Disconnect
  <2>2. p \in {Port} /\ id \in R!UserIds
    BY <2>1, KnownToRelay DEF Joined
  <2>3. QED
    BY <1>1, <1>4, <2>2 DEF R!Next, R!AgentStep
<1>5. QED
  BY <1>2, <1>3, <1>4

(* Every step of the system is one of the relay, or leaves the relay alone. *)
LEMMA RelayStepOrNone ==
    ASSUME Joined, Next
    PROVE  R!Next \/ UNCHANGED rvars
<1>1. ASSUME NEW c \in Conns, Connection(c) PROVE R!Next \/ UNCHANGED rvars
  <2>1. CASE RelayHandles(c)
    BY <2>1, RelayHandlesIsRelayStep
  <2>2. CASE Connect(c)
    BY <2>2 DEF Connect, R!Next, R!AgentStep
  <2>3. CASE RelayLoses(c) \/ RelayDisconnects(c)
    <3>1. num[c] \in R!AgentIds /\ (R!AgentLost(num[c]) \/ R!OnAgentDisconnect(num[c]))
      BY <2>3 DEF RelayLoses, RelayDisconnects, Joined, Channels
    <3>2. QED
      BY <3>1 DEF R!Next, R!AgentStep
  <2>4. CASE AgentLoses(c) \/ AgentWrites(c) \/ AgentReceives(c)
    BY <2>4 DEF AgentLoses, AgentWrites, AgentReceives
  <2>5. QED
    BY <1>1, <2>1, <2>2, <2>3, <2>4 DEF Connection
<1>2. ASSUME NEW h \in R!ServiceIds, RelayStrand(h) \/ User(h) PROVE R!Next
  <2>1. 1 \in R!UserIds
    BY DEF R!UserIds
  <2>2. \/ R!OnUserConnect(h) \/ R!RunStrand(h) \/ R!UserSends(h, 1) \/ R!UserLeaves(h, 1)
    BY <1>2 DEF RelayStrand, User, UserDisconnects, UserData, UserConnects, RelayAlone, R!RunStrand
  <2>3. QED
    BY <2>1, <2>2 DEF R!Next, R!UserStep
<1>3. CASE AgentStrand
  BY <1>3 DEF AgentStrand, AgentRecvData, AgentServiceData, AgentAlone
<1>4. ASSUME NEW s, Service(s) PROVE UNCHANGED rvars
  BY <1>4 DEF Service, AgentAlone
<1>5. CASE SendsDone
  BY <1>5 DEF SendsDone, RelayAlone, AgentAlone, R!Next, R!UserStep
<1>6. QED
  BY <1>1, <1>2, <1>3, <1>4, <1>5 DEF Next

(* What the agent hears is one of its inputs. *)
LEMMA AgentReceivesIsAgentStep ==
    ASSUME Joined, NEW c \in Conns, AgentReceives(c)
    PROVE  A!Next
<1> DEFINE m == Head(down[c])
<1>1. OkDown(m)
  <2>1. AllDown(down[c]) /\ down[c] # << >>
    BY DEF Joined, Channels, AgentReceives
  <2>2. QED
    BY <2>1, DownQueues
<1>2. A!RelaySends(m.cmd, m.user) \/ (c \notin A!Tunnels /\ A!RelaySendsOnSession(m.cmd, c[2]))
  BY DEF AgentReceives
<1> HIDE DEF m
<1>3. CASE A!RelaySends(m.cmd, m.user)
  <2>1. m.user = User1
    <3>1. CASE m.cmd = "CONNECT"
      BY <1>1, <3>1 DEF OkDown
    <3>2. CASE m.cmd # "CONNECT"
      <4>1. <<tunnel, m.user>> \in told
        BY <1>3, <3>2 DEF A!RelaySends
      <4>2. QED
        BY <4>1 DEF Joined, AgentTold
    <3>3. QED
      BY <3>1, <3>2
  <2>2. QED
    BY <1>1, <1>3, <2>1 DEF OkDown, User1, A!Next, A!PoolThread
<1>4. CASE c \notin A!Tunnels /\ A!RelaySendsOnSession(m.cmd, c[2])
  <2>1. c[2] \in A!SessionIds
    BY <1>4 DEF Conns, A!Framed, A!SesConn
  <2>2. m.cmd \in {"DATA", "DISCONNECT"}
    BY <1>1, <1>4 DEF OkDown, A!RelaySendsOnSession
  <2>3. QED
    BY <1>4, <2>1, <2>2 DEF A!Next, A!PoolThread
<1>5. QED
  BY <1>2, <1>3, <1>4

(* Every step of the system is one of the agent, or leaves the agent alone. *)
LEMMA AgentStepOrNone ==
    ASSUME Joined, Next
    PROVE  A!Next \/ UNCHANGED avars
<1>1. ASSUME NEW c \in Conns, Connection(c) PROVE A!Next \/ UNCHANGED avars
  <2>1. CASE AgentReceives(c)
    BY <2>1, AgentReceivesIsAgentStep
  <2>2. CASE Connect(c) \/ AgentLoses(c) \/ AgentWrites(c)
    <3>1. A!Connected(c) \/ A!ConnFails(c) \/ A!RunIo(c)
      BY <2>2 DEF Connect, AgentLoses, AgentWrites
    <3>2. QED
      BY <3>1 DEF Conns, A!Next, A!PoolThread
  <2>3. CASE RelayLoses(c) \/ RelayDisconnects(c) \/ RelayHandles(c)
    BY <2>3 DEF RelayLoses, RelayDisconnects, RelayHandles
  <2>4. QED
    BY <1>1, <2>1, <2>2, <2>3 DEF Connection
<1>2. ASSUME NEW h, RelayStrand(h) \/ User(h) PROVE UNCHANGED avars
  BY <1>2 DEF RelayStrand, User, UserDisconnects, UserData, UserConnects, RelayAlone
<1>3. CASE AgentStrand
  <2>1. A!RunStrand
    BY <1>3 DEF AgentStrand, AgentRecvData, AgentServiceData, AgentAlone, A!RunStrand
  <2>2. QED
    BY <2>1 DEF A!Next
<1>4. ASSUME NEW s \in A!SessionIds, Service(s) PROVE A!Next
  <2>1. A!ServiceConnected(s) \/ A!ServiceEnds(s) \/ A!ServiceSends(s)
    BY <1>4 DEF Service, AgentAlone
  <2>2. QED
    BY <2>1 DEF A!Next, A!PoolThread
<1>5. CASE SendsDone
  <2>1. UNCHANGED avars \/ \E e \in apending : A!SendDone(e[1], e[2])
    BY <1>5 DEF SendsDone, RelayAlone, AgentAlone
  <2>2. QED
    BY <2>1 DEF A!Next, A!PoolThread
<1>6. QED
  BY <1>1, <1>2, <1>3, <1>4, <1>5 DEF Next

(* The agent is told of no other user. *)
LEMMA AgentToldInductive ==
    ASSUME AgentTold, A!Next
    PROVE  AgentTold'
<1>1. ASSUME NEW cmd, NEW u \in {User1}, A!RelaySends(cmd, u) PROVE AgentTold'
  <2>1. told' = told \/ told' = told \cup {<<tunnel, u>>}
    BY <1>1 DEF A!RelaySends
  <2>2. QED
    BY <2>1 DEF AgentTold
<1>2. told' = told => AgentTold'
  BY DEF AgentTold
<1>3. CASE A!RunStrand
  <2>1. told' = told
    <3>1. A!OnServerDisconnect => told' = told
      BY DEF A!OnServerDisconnect, A!TunnelLost
    <3>2. A!OnSessionConnect => told' = told
      BY DEF A!OnSessionConnect, A!SessionConnected
    <3>3. A!OnServerConnect \/ A!Reconnect \/ A!RecvConnect \/ A!RecvData => told' = told
      BY DEF A!OnServerConnect, A!Reconnect, A!RecvConnect, A!RecvData
    <3>4. A!RecvDisconnect \/ A!OnSessionDisconnect => told' = told
      BY DEF A!RecvDisconnect, A!OnSessionDisconnect
    <3>5. A!OnUserRecv \/ A!OnUserDisconnect => told' = told
      BY DEF A!OnUserRecv, A!OnUserDisconnect
    <3>6. QED
      BY <1>3, <3>1, <3>2, <3>3, <3>4, <3>5 DEF A!RunStrand
  <2>2. QED
    BY <1>2, <2>1
<1>4. CASE A!PoolThread
  <2>1. ASSUME NEW c, \/ A!Connected(c) \/ A!ConnFails(c) \/ A!ConnectTimeout(c)
                      \/ A!ConnectedLate(c) \/ A!RunIo(c)
        PROVE  told' = told
    BY <2>1 DEF A!Connected, A!ConnFails, A!ConnectTimeout, A!ConnectedLate, A!RunIo
  <2>2. ASSUME NEW cmd, NEW s, A!RelaySendsOnSession(cmd, s) PROVE told' = told
    BY <2>2 DEF A!RelaySendsOnSession
  <2>3. ASSUME NEW s, \/ A!ServiceConnected(s) \/ A!ServiceConnectedLate(s)
                      \/ A!ServiceSends(s) \/ A!ServiceEnds(s)
        PROVE  told' = told
    BY <2>3 DEF A!ServiceConnected, A!ServiceConnectedLate, A!ServiceSends, A!ServiceEnds
  <2>4. ASSUME NEW c, NEW s, A!SendDone(c, s) PROVE told' = told
    BY <2>4 DEF A!SendDone
  <2>5. \A cmd : \A u \in {<<Port, 1>>} : A!RelaySends(cmd, u) => AgentTold'
    BY <1>1 DEF User1
  <2>6. QED
    BY <1>2, <1>4, <2>1, <2>2, <2>3, <2>4, <2>5 DEF A!PoolThread
<1>5. QED
  BY <1>3, <1>4 DEF A!Next

(* What a message of the relay becomes on the way. *)
LEMMA SentOk ==
    ASSUME Channels, NEW m, NEW d, OkDown(Message(m.cmd, <<m.port, m.id>>, d)), down' = Sent(m, d)
    PROVE  DOMAIN down' = Conns /\ \A c \in Conns : AllDown(down'[c])
<1> DEFINE x == Message(m.cmd, <<m.port, m.id>>, d)
<1>1. DOMAIN down' = Conns
  BY DEF Sent
<1>2. ASSUME NEW c \in Conns PROVE AllDown(down'[c])
  <2>1. down'[c] = down[c] \/ down'[c] = Append(down[c], x)
    BY DEF Sent
  <2>2. AllDown(down[c]) /\ OkDown(x)
    BY DEF Channels
  <2> HIDE DEF x
  <2>3. QED
    BY <2>1, <2>2, DownQueues
<1>3. QED
  BY <1>1, <1>2

(* Every step keeps the channels so. *)
LEMMA ChannelsInductive ==
    ASSUME Joined, Next
    PROVE  Channels'
<1>1. /\ Channels /\ RelayTold /\ DOMAIN up = Conns /\ DOMAIN down = Conns
      /\ \A c \in Conns : AllUp(up[c]) /\ AllDown(down[c])
  BY DEF Joined, Channels
<1> DEFINE UpOk == DOMAIN up' = Conns /\ \A c \in Conns : AllUp(up'[c])
           DownOk == DOMAIN down' = Conns /\ \A c \in Conns : AllDown(down'[c])
           NumOk == \A c \in DOMAIN num' : num'[c] \in R!AgentIds
<1>2. (up' = up => UpOk) /\ (down' = down => DownOk) /\ (num' = num => NumOk)
  BY <1>1 DEF Channels
<1>3. ASSUME NEW c \in Conns, NEW q, AllUp(q), up' = [up EXCEPT ![c] = q] PROVE UpOk
  BY <1>1, <1>3
<1>4. ASSUME NEW c \in Conns, NEW q, AllDown(q), down' = [down EXCEPT ![c] = q] PROVE DownOk
  BY <1>1, <1>4
<1>5. UpOk /\ DownOk /\ NumOk => Channels'
  BY DEF Channels, Conns, A!Framed, A!Tunnels, A!SessionIds, A!SesConn, R!AgentIds
<1>6. UNCHANGED <<num, up, down>> => Channels'
  BY <1>2, <1>5
<1>7. ASSUME NEW c \in Conns, Connection(c) PROVE Channels'
  <2>1. CASE Connect(c)
    <3>1. nagents' \in R!AgentIds
      <4>1. nagents' = nagents + 1 /\ nagents + 1 <= MaxTunnels + MaxSessions /\ nagents \in Nat
        BY <1>1, <2>1 DEF Connect, R!OnAgentConnect, RelayTold
      <4>2. QED
        BY <4>1, SystemAssumption DEF R!AgentIds
    <3>2. num' = A!Put(num, c, nagents') /\ UNCHANGED <<up, down>>
      BY <2>1 DEF Connect
    <3>3. NumOk
      BY <1>1, <3>1, <3>2 DEF A!Put, Channels
    <3>4. QED
      BY <1>2, <1>5, <3>2, <3>3
  <2>2. CASE RelayLoses(c)
    <3>1. PICK k \in 0..Len(up[c]) : up' = [up EXCEPT ![c] = SubSeq(up[c], 1, k)]
      BY <2>2 DEF RelayLoses
    <3>2. AllUp(SubSeq(up[c], 1, k))
      BY <1>1, UpQueues
    <3>3. UNCHANGED <<num, down>>
      BY <2>2 DEF RelayLoses
    <3>4. QED
      BY <1>2, <1>3, <1>5, <3>1, <3>2, <3>3
  <2>3. CASE AgentLoses(c)
    <3>1. PICK k \in 0..Len(down[c]) : down' = [down EXCEPT ![c] = SubSeq(down[c], 1, k)]
      BY <2>3 DEF AgentLoses
    <3>2. AllDown(SubSeq(down[c], 1, k))
      BY <1>1, DownQueues
    <3>3. UNCHANGED <<num, up>>
      BY <2>3 DEF AgentLoses
    <3>4. QED
      BY <1>2, <1>4, <1>5, <3>1, <3>2, <3>3
  <2>4. CASE RelayDisconnects(c)
    BY <1>6, <2>4 DEF RelayDisconnects
  <2>5. CASE AgentWrites(c)
    <3> DEFINE w == Head(io[c])
               x == Message(w.cmd, IF w.cmd = "BIND" THEN <<Port, 0>> ELSE ases[w.ses].user,
                            IF w.cmd = "DATA" THEN Head(ioData[c]) ELSE NoData)
    <3>1. (up' = up \/ up' = [up EXCEPT ![c] = Append(up[c], x)]) /\ UNCHANGED <<num, down>>
      BY <2>5 DEF AgentWrites
    <3>2. OkUp(x)
      BY DEF OkUp, Message
    <3> HIDE DEF x
    <3>3. AllUp(Append(up[c], x))
      BY <1>1, <3>2, UpQueues
    <3>4. QED
      BY <1>2, <1>3, <1>5, <3>1, <3>3
  <2>6. CASE RelayHandles(c)
    <3>1. up' = [up EXCEPT ![c] = Tail(up[c])] /\ up[c] # << >> /\ UNCHANGED <<num, down>>
      BY <2>6 DEF RelayHandles
    <3>2. AllUp(Tail(up[c]))
      BY <1>1, <3>1, UpQueues
    <3>3. QED
      BY <1>2, <1>3, <1>5, <3>1, <3>2
  <2>7. CASE AgentReceives(c)
    <3>1. down' = [down EXCEPT ![c] = Tail(down[c])] /\ down[c] # << >> /\ UNCHANGED <<num, up>>
      BY <2>7 DEF AgentReceives
    <3>2. AllDown(Tail(down[c]))
      BY <1>1, <3>1, DownQueues
    <3>3. QED
      BY <1>2, <1>4, <1>5, <3>1, <3>2
  <2>8. QED
    BY <1>7, <2>1, <2>2, <2>3, <2>4, <2>5, <2>6, <2>7 DEF Connection
<1>8. ASSUME NEW h, UserConnects(h) PROVE Channels'
  <2>1. PICK m \in r2a' \ r2a : down' = Sent(m, NoData)
    BY <1>8 DEF UserConnects
  <2>2. \E a : m = R!Msg("CONNECT", a, Port, 1)
    BY <1>1, <1>8, <2>1, OnUserConnectOk DEF UserConnects, RelayTold
  <2>3. OkDown(Message(m.cmd, <<m.port, m.id>>, NoData))
    BY <2>2 DEF R!Msg, Message, OkDown, User1
  <2>4. DownOk
    BY <1>1, <2>1, <2>3, SentOk
  <2>5. QED
    BY <1>2, <1>5, <1>8, <2>4 DEF UserConnects
<1>9. ASSUME NEW h, UserDisconnects(h) PROVE Channels'
  <2>1. DownOk
    <3>1. CASE down' = down
      BY <1>2, <3>1
    <3>2. ASSUME NEW m \in r2a' \ r2a, down' = Sent(m, NoData) PROVE DownOk
      <4>1. r2a' = r2a \/ \E a, p, id : r2a' = r2a \cup {R!Msg("DISCONNECT", a, p, id)}
        BY <1>9 DEF UserDisconnects, R!OnUserDisconnect
      <4>2. \E a, p, id : m = R!Msg("DISCONNECT", a, p, id)
        BY <4>1
      <4>3. OkDown(Message(m.cmd, <<m.port, m.id>>, NoData))
        BY <4>2 DEF R!Msg, Message, OkDown
      <4>4. QED
        BY <1>1, <3>2, <4>3, SentOk
    <3>3. QED
      BY <1>9, <3>1, <3>2 DEF UserDisconnects
  <2>2. QED
    BY <1>2, <1>5, <1>9, <2>1 DEF UserDisconnects
<1>10. ASSUME NEW h, UserData(h) PROVE Channels'
  <2>1. DownOk
    <3>1. CASE down' = down
      BY <1>2, <3>1
    <3>2. ASSUME NEW a, NEW p, NEW id, NEW d, down' = Sent(R!Msg("DATA", a, p, id), d) PROVE DownOk
      <4> DEFINE m == R!Msg("DATA", a, p, id)
      <4>1. OkDown(Message(m.cmd, <<m.port, m.id>>, d))
        BY DEF R!Msg, Message, OkDown
      <4> HIDE DEF m
      <4>2. QED
        BY <1>1, <3>2, <4>1, SentOk DEF m
    <3>3. down' = down \/ \E a, p, id, d : down' = Sent(R!Msg("DATA", a, p, id), d)
      BY <1>10 DEF UserData
    <3>4. QED
      BY <3>1, <3>2, <3>3
  <2>2. QED
    BY <1>2, <1>5, <1>10, <2>1 DEF UserData
<1> HIDE DEF UpOk, DownOk, NumOk
<1>11. ASSUME NEW h, RelayStrand(h) \/ User(h) PROVE Channels'
  BY <1>6, <1>8, <1>9, <1>10, <1>11 DEF RelayStrand, User, RelayAlone
<1>12. CASE AgentStrand
  BY <1>6, <1>12 DEF AgentStrand, AgentRecvData, AgentServiceData, AgentAlone
<1>13. ASSUME NEW s, Service(s) PROVE Channels'
  BY <1>6, <1>13 DEF Service, AgentAlone
<1>14. CASE SendsDone
  BY <1>6, <1>14 DEF SendsDone, RelayAlone, AgentAlone
<1>15. QED
  BY <1>7, <1>11, <1>12, <1>13, <1>14 DEF Next

(* The joined system keeps it all. *)
LEMMA JoinedAlways == Spec => []Joined
<1>1. Init => Joined
  <2>1. SUFFICES ASSUME Init PROVE Joined
    OBVIOUS
  <2>2. RelayTold /\ AgentTold
    BY <2>1 DEF Init, R!Init, A!Init, RelayTold, AgentTold, ServicesOk
  <2>3. Channels
    BY <2>1, EmptyQueues DEF Init, Channels
  <2>4. QED
    BY <2>2, <2>3 DEF Joined
<1>2. Joined /\ [Next]_vars => Joined'
  <2>1. SUFFICES ASSUME Joined, [Next]_vars PROVE Joined'
    OBVIOUS
  <2>2. CASE Next
    <3>1. RelayTold'
      <4>1. UNCHANGED rvars => RelayTold'
        BY <2>1 DEF rvars, Joined, RelayTold, ServicesOk
      <4>2. QED
        BY <2>1, <2>2, <4>1, RelayStepOrNone, RelayToldInductive DEF Joined
    <3>2. AgentTold'
      <4>1. UNCHANGED avars => AgentTold'
        BY <2>1 DEF avars, Joined, AgentTold
      <4>2. QED
        BY <2>1, <2>2, <4>1, AgentStepOrNone, AgentToldInductive DEF Joined
    <3>3. QED
      BY <2>1, <2>2, <3>1, <3>2, ChannelsInductive DEF Joined
  <2>3. CASE UNCHANGED vars
    <3>1. UNCHANGED <<nagents, svc, r2a, claim, told, num, up, down>>
      BY <2>3 DEF vars, rvars, avars
    <3>2. RelayTold' /\ AgentTold'
      BY <2>1, <3>1 DEF Joined, RelayTold, ServicesOk, AgentTold
    <3>3. Channels'
      BY <2>1, <3>1 DEF Joined, Channels, Conns, A!Framed, A!Tunnels, A!SessionIds, A!SesConn, R!AgentIds
    <3>4. QED
      BY <3>2, <3>3 DEF Joined
  <2>4. QED
    BY <2>1, <2>2, <2>3
<1>3. QED
  BY <1>1, <1>2, PTL DEF Spec

(* In the joined system the relay does what Relay says, for every number of  *)
(* tunnels, sessions, data and breaks: whatever message of the agent it       *)
(* handles, and however much of what the agent said is lost, the port and the *)
(* user are of those that the handlers of Relay are specified for.  So the    *)
(* theorems about Relay hold of a relay that serves this agent.  That no      *)
(* message comes out of turn is another matter, see AgentAlwaysHearsInTurn.   *)
THEOREM SystemImplementsRelay == Spec => ImplementsRelay
<1>1. Init => R!Init
  BY DEF Init
<1>2. Joined /\ [Next]_vars => [R!Next]_(R!vars)
  <2>1. SUFFICES ASSUME Joined, [Next]_vars PROVE R!Next \/ UNCHANGED rvars
    BY DEF rvars, R!vars
  <2>2. UNCHANGED vars => UNCHANGED rvars
    BY DEF vars, rvars
  <2>3. QED
    BY <2>1, <2>2, RelayStepOrNone
<1>3. QED
  BY <1>1, <1>2, JoinedAlways, PTL DEF Spec, ImplementsRelay, R!Spec

(* And the agent does what Agent says, with a relay that numbers its users    *)
(* anew for every tunnel.                                                     *)
THEOREM SystemImplementsAgent == Spec => ImplementsAgent
<1>1. Init => A!Init
  BY DEF Init
<1>2. Joined /\ [Next]_vars => [A!Next]_(A!vars)
  <2>1. SUFFICES ASSUME Joined, [Next]_vars PROVE A!Next \/ UNCHANGED avars
    BY DEF avars, A!vars
  <2>2. UNCHANGED vars => UNCHANGED avars
    BY DEF vars, avars
  <2>3. QED
    BY <2>1, <2>2, AgentStepOrNone
<1>3. QED
  BY <1>1, <1>2, JoinedAlways, PTL DEF Spec, ImplementsAgent, A!Spec

----------------------------------------------------------------------------
(* What the relay tells the agent comes when the agent expects it.  The      *)
(* agent's side: its sessions are those of user 1, and SESSION is said on a   *)
(* session connection only, BIND on a tunnel only.                            *)
SessionsOk(S) == \A s \in DOMAIN S : "user" \in DOMAIN S[s] /\ S[s].user = User1
ConnsOk(C, D, t) ==
    /\ DOMAIN C = Conns
    /\ \A n \in 1..MaxTunnels : n > t => C[A!TunConn(n)] = "none"
    /\ \A s \in A!SessionIds : C[A!SesConn(s)] = "connecting" => s \in D
OkEvent(e, D) ==
    /\ \A s : e.ev = "connect" /\ e.on = A!SesConn(s) => s \in D
    /\ e.ev = "CONNECT" => e.user = User1
OkWork(c, w, D) ==
    /\ w.cmd = "SESSION" => c = A!SesConn(w.ses) /\ w.ses \in D
    /\ w.cmd = "BIND" => c \in A!Tunnels
AllEvents(q, D) == \E S : q \in Seq(S) /\ \A e \in S : OkEvent(e, D)
AllWork(c, q, D) == \E S : q \in Seq(S) /\ \A w \in S : OkWork(c, w, D)
WorkOk(I, D) == DOMAIN I = Conns /\ \A c \in Conns : AllWork(c, I[c], D)
WireOk(W, D) == \A c, s : <<c, "SESSION", s>> \in W => s \in D
AgentSide ==
    /\ tunnel \in 1..MaxTunnels /\ SessionsOk(ases)
    /\ ConnsOk(conn, DOMAIN ases, tunnel) /\ AllEvents(astrand, DOMAIN ases)
    /\ WorkOk(io, DOMAIN ases) /\ WireOk(wire, DOMAIN ases)

(* The two kinds of connections. *)
LEMMA KindsOfConns ==
    /\ \A n, s : A!TunConn(n) # A!SesConn(s)
    /\ \A c \in Conns : (c \in A!Tunnels /\ c = A!TunConn(c[2])) \/ (c \notin A!Tunnels /\ c = A!SesConn(c[2]))
    /\ \A s : A!SesConn(s) \notin A!Tunnels /\ A!SesConn(s)[2] = s
    /\ \A n \in 1..MaxTunnels : A!TunConn(n) \in A!Tunnels
    /\ \A c \in A!Tunnels : c \in Conns /\ c[2] \in 1..MaxTunnels
    /\ \A s \in A!SessionIds : A!SesConn(s) \in Conns
    /\ \A s, t : A!SesConn(s) = A!SesConn(t) => s = t
    /\ \A s, t : A!TunConn(s) = A!TunConn(t) => s = t
BY DEF Conns, A!Framed, A!Tunnels, A!SesConn, A!TunConn, A!SessionIds

(* Queues of events of the agent. *)
LEMMA EventQueues ==
    ASSUME NEW q, NEW D, AllEvents(q, D)
    PROVE  /\ \A e : OkEvent(e, D) => AllEvents(Append(q, e), D)
           /\ q # << >> => OkEvent(Head(q), D) /\ AllEvents(Tail(q), D)
           /\ \A E : D \subseteq E => AllEvents(q, E)
<1>1. PICK S : q \in Seq(S) /\ \A e \in S : OkEvent(e, D)
  BY DEF AllEvents
<1>2. ASSUME NEW e, OkEvent(e, D) PROVE AllEvents(Append(q, e), D)
  <2>1. q \in Seq(S \cup {e}) /\ \A n \in S \cup {e} : OkEvent(n, D)
    BY <1>1, <1>2
  <2>2. Append(q, e) \in Seq(S \cup {e})
    BY <2>1
  <2>3. QED
    BY <2>1, <2>2 DEF AllEvents
<1>3. ASSUME q # << >> PROVE OkEvent(Head(q), D) /\ AllEvents(Tail(q), D)
  <2>1. Head(q) \in S /\ Tail(q) \in Seq(S)
    BY <1>1, <1>3
  <2>2. QED
    BY <1>1, <2>1 DEF AllEvents
<1>4. ASSUME NEW E, D \subseteq E PROVE AllEvents(q, E)
  <2>1. \A e \in S : OkEvent(e, E)
    BY <1>1, <1>4 DEF OkEvent
  <2>2. QED
    BY <1>1, <2>1 DEF AllEvents
<1>5. QED
  BY <1>2, <1>3, <1>4

(* Queues of sends posted to a connection. *)
LEMMA WorkQueues ==
    ASSUME NEW c, NEW q, NEW D, AllWork(c, q, D)
    PROVE  /\ \A w : OkWork(c, w, D) => AllWork(c, Append(q, w), D)
           /\ q # << >> => OkWork(c, Head(q), D) /\ AllWork(c, Tail(q), D)
           /\ \A E : D \subseteq E => AllWork(c, q, E)
<1>1. PICK S : q \in Seq(S) /\ \A w \in S : OkWork(c, w, D)
  BY DEF AllWork
<1>2. ASSUME NEW w, OkWork(c, w, D) PROVE AllWork(c, Append(q, w), D)
  <2>1. q \in Seq(S \cup {w}) /\ \A n \in S \cup {w} : OkWork(c, n, D)
    BY <1>1, <1>2
  <2>2. Append(q, w) \in Seq(S \cup {w})
    BY <2>1
  <2>3. QED
    BY <2>1, <2>2 DEF AllWork
<1>3. ASSUME q # << >> PROVE OkWork(c, Head(q), D) /\ AllWork(c, Tail(q), D)
  <2>1. Head(q) \in S /\ Tail(q) \in Seq(S)
    BY <1>1, <1>3
  <2>2. QED
    BY <1>1, <2>1 DEF AllWork
<1>4. ASSUME NEW E, D \subseteq E PROVE AllWork(c, q, E)
  <2>1. \A w \in S : OkWork(c, w, E)
    BY <1>1, <1>4 DEF OkWork
  <2>2. QED
    BY <1>1, <2>1 DEF AllWork
<1>5. QED
  BY <1>2, <1>3, <1>4

(* More sessions do no harm. *)
LEMMA MoreSessions ==
    ASSUME NEW D, NEW E, D \subseteq E
    PROVE  /\ \A C, t : ConnsOk(C, D, t) => ConnsOk(C, E, t)
           /\ \A q : AllEvents(q, D) => AllEvents(q, E)
           /\ \A I : WorkOk(I, D) => WorkOk(I, E)
           /\ \A W : WireOk(W, D) => WireOk(W, E)
<1>1. \A C, t : ConnsOk(C, D, t) => ConnsOk(C, E, t)
  BY DEF ConnsOk
<1>2. \A q : AllEvents(q, D) => AllEvents(q, E)
  BY EventQueues
<1>3. \A I : WorkOk(I, D) => WorkOk(I, E)
  BY WorkQueues DEF WorkOk
<1>4. \A W : WireOk(W, D) => WireOk(W, E)
  BY DEF WireOk
<1>5. QED
  BY <1>1, <1>2, <1>3, <1>4

(* Close() of a session connection; the tunnels stay as they are. *)
Closed(C, s) == [C EXCEPT ![A!SesConn(s)] = A!CloseConn(@)]
LEMMA ClosedSession ==
    ASSUME NEW C, NEW D, NEW t, ConnsOk(C, D, t), NEW s
    PROVE  ConnsOk(Closed(C, s), D, t) /\ \A c \in A!Tunnels : Closed(C, s)[c] = C[c]
<1> DEFINE X == Closed(C, s)
<1>1. \A x : A!CloseConn(x) # "connecting"
  BY DEF A!CloseConn
<1>2. DOMAIN X = Conns
  BY DEF ConnsOk, Closed
<1>3. \A c \in A!Tunnels : X[c] = C[c]
  BY KindsOfConns DEF ConnsOk, Closed
<1>4. \A r \in A!SessionIds : X[A!SesConn(r)] = "connecting" => r \in D
  BY <1>1, KindsOfConns DEF ConnsOk, Closed
<1> HIDE DEF X
<1>5. \A n \in 1..MaxTunnels : n > t => X[A!TunConn(n)] = "none"
  BY <1>3, KindsOfConns DEF ConnsOk
<1>6. QED
  BY <1>2, <1>3, <1>4, <1>5 DEF ConnsOk, X

(* What the steps of the agent leave: no session is destroyed, nothing said   *)
(* is taken back, and a tunnel that has come up or failed never comes up.     *)
TunnelsEnd ==
    \A c \in A!Tunnels : conn[c] \notin {"none", "connecting"} =>
        conn'[c] \notin {"none", "connecting"} /\ (conn'[c] = "up" => conn[c] = "up")
SessionsGrow == SessionsOk(ases') /\ DOMAIN ases \subseteq DOMAIN ases'
ConnsKept == ConnsOk(conn', DOMAIN ases', tunnel') /\ TunnelsEnd
EventsKept == AllEvents(astrand', DOMAIN ases')
WorkKept == WorkOk(io', DOMAIN ases')
WireKept == WireOk(wire', DOMAIN ases') /\ wire \subseteq wire'
AgentKept == tunnel' \in 1..MaxTunnels /\ SessionsGrow /\ ConnsKept /\ EventsKept /\ WorkKept /\ WireKept

(* What a step leaves alone. *)
LEMMA AgentUntouched ==
    ASSUME AgentSide
    PROVE  /\ tunnel' = tunnel => tunnel' \in 1..MaxTunnels
           /\ ases' = ases => SessionsGrow
           /\ SessionsGrow /\ UNCHANGED <<conn, tunnel>> => ConnsKept
           /\ SessionsGrow /\ astrand' = astrand => EventsKept
           /\ SessionsGrow /\ io' = io => WorkKept
           /\ SessionsGrow /\ wire' = wire => WireKept
<1>1. ASSUME ases' = ases PROVE SessionsGrow
  BY <1>1 DEF AgentSide, SessionsGrow
<1>2. ASSUME SessionsGrow PROVE DOMAIN ases \subseteq DOMAIN ases'
  BY <1>2 DEF SessionsGrow
<1>3. ASSUME SessionsGrow, UNCHANGED <<conn, tunnel>> PROVE ConnsKept
  <2>1. ConnsOk(conn, DOMAIN ases', tunnel)
    BY <1>2, <1>3, MoreSessions DEF AgentSide
  <2>2. QED
    BY <1>3, <2>1 DEF ConnsKept, TunnelsEnd
<1>4. ASSUME SessionsGrow, astrand' = astrand PROVE EventsKept
  <2>1. AllEvents(astrand, DOMAIN ases')
    BY <1>2, <1>4, MoreSessions DEF AgentSide
  <2>2. QED
    BY <1>4, <2>1 DEF EventsKept
<1>5. ASSUME SessionsGrow, io' = io PROVE WorkKept
  <2>1. WorkOk(io, DOMAIN ases')
    BY <1>2, <1>5, MoreSessions DEF AgentSide
  <2>2. QED
    BY <1>5, <2>1 DEF WorkKept
<1>6. ASSUME SessionsGrow, wire' = wire PROVE WireKept
  <2>1. WireOk(wire, DOMAIN ases')
    BY <1>2, <1>6, MoreSessions DEF AgentSide
  <2>2. QED
    BY <1>6, <2>1 DEF WireKept
<1>7. tunnel \in 1..MaxTunnels
  BY DEF AgentSide
<1>8. QED
  BY <1>1, <1>3, <1>4, <1>5, <1>6, <1>7

(* A session is marked. *)
LEMMA MarkedSession ==
    ASSUME AgentSide, NEW s, NEW r, s \in DOMAIN ases => "user" \in DOMAIN r /\ r.user = ases[s].user,
           ases' = [ases EXCEPT ![s] = r]
    PROVE  SessionsGrow
BY DEF AgentSide, SessionsGrow, SessionsOk

(* __CleanSession, which may close the session's connection. *)
LEMMA CleanedConns ==
    ASSUME AgentSide, SessionsGrow, tunnel' = tunnel, NEW s, NEW r, NEW C, NEW V,
           A!CleanSession(s, r, C, V),
           C = conn \/ C = Closed(conn, s)
    PROVE  ConnsKept
<1>1. ConnsOk(conn, DOMAIN ases', tunnel)
  BY MoreSessions DEF AgentSide, SessionsGrow
<1>2. ConnsOk(C, DOMAIN ases', tunnel) /\ \A c \in A!Tunnels : C[c] = conn[c]
  <2>1. CASE C = Closed(conn, s)
    BY <1>1, <2>1, ClosedSession
  <2>2. QED
    BY <1>1, <2>1
<1>3. conn' = C \/ conn' = Closed(C, s)
  BY DEF A!CleanSession, Closed
<1>4. ConnsOk(conn', DOMAIN ases', tunnel) /\ \A c \in A!Tunnels : conn'[c] = conn[c]
  <2>1. CASE conn' = C
    BY <1>2, <2>1
  <2>2. CASE conn' = Closed(C, s)
    BY <1>2, <2>2, ClosedSession
  <2>3. QED
    BY <1>3, <2>1, <2>2
<1>5. QED
  BY <1>4 DEF ConnsKept, TunnelsEnd

(* The next event is taken from the strand. *)
LEMMA PoppedEvent ==
    ASSUME AgentSide, NEW e, A!NextIs(e)
    PROVE  /\ OkEvent(Head(astrand), DOMAIN ases)
           /\ A!Pop /\ SessionsGrow => EventsKept
<1>1. astrand # << >> /\ AllEvents(astrand, DOMAIN ases)
  BY DEF A!NextIs, AgentSide
<1>2. OkEvent(Head(astrand), DOMAIN ases) /\ AllEvents(Tail(astrand), DOMAIN ases)
  BY <1>1, EventQueues
<1>3. ASSUME A!Pop, SessionsGrow PROVE EventsKept
  <2>1. AllEvents(Tail(astrand), DOMAIN ases')
    BY <1>2, <1>3, MoreSessions DEF SessionsGrow
  <2>2. QED
    BY <1>3, <2>1 DEF A!Pop, EventsKept
<1>4. QED
  BY <1>2, <1>3

(* An event is posted. *)
LEMMA PostedEvent ==
    ASSUME AgentSide, ases' = ases, NEW e, OkEvent(e, DOMAIN ases), A!Post(e)
    PROVE  EventsKept
<1>1. AllEvents(Append(astrand, e), DOMAIN ases)
  BY EventQueues DEF AgentSide
<1>2. QED
  BY <1>1 DEF A!Post, EventsKept

(* A message is posted to a connection. *)
LEMMA PostedWork ==
    ASSUME AgentSide, SessionsGrow, NEW c, NEW cmd, NEW s, A!SendOn(c, cmd, s),
           OkWork(c, [cmd |-> cmd, ses |-> s], DOMAIN ases)
    PROVE  WorkKept
<1> DEFINE w == [cmd |-> cmd, ses |-> s]
<1>1. WorkOk(io, DOMAIN ases') /\ OkWork(c, w, DOMAIN ases')
  <2>1. WorkOk(io, DOMAIN ases) /\ DOMAIN ases \subseteq DOMAIN ases'
    BY DEF AgentSide, SessionsGrow
  <2>2. OkWork(c, w, DOMAIN ases')
    BY <2>1 DEF OkWork
  <2>3. QED
    BY <2>1, <2>2, MoreSessions
<1>2. io' = [io EXCEPT ![c] = Append(io[c], w)]
  BY DEF A!SendOn
<1> HIDE DEF w
<1>3. c \in Conns => AllWork(c, Append(io[c], w), DOMAIN ases')
  BY <1>1, WorkQueues DEF WorkOk
<1>4. QED
  BY <1>1, <1>2, <1>3 DEF WorkOk, WorkKept

(* The pool threads. *)
LEMMA PoolThreadKeeps ==
    ASSUME AgentSide, A!PoolThread
    PROVE  AgentKept
<1>1. ASSUME NEW c \in Conns, A!Connected(c) PROVE AgentKept
  <2>1. UNCHANGED <<tunnel, ases, io, wire>> /\ conn' = [conn EXCEPT ![c] = "up"] /\ conn[c] = "connecting"
    BY <1>1 DEF A!Connected
  <2>2. ConnsKept
    BY <2>1 DEF AgentSide, ConnsOk, ConnsKept, TunnelsEnd
  <2>3. EventsKept
    <3>1. OkEvent(A!Ev("connect", c), DOMAIN ases)
      BY <2>1, KindsOfConns DEF OkEvent, A!Ev, AgentSide, ConnsOk, Conns, A!Framed, A!Tunnels
    <3>2. QED
      BY <1>1, <2>1, <3>1, PostedEvent DEF A!Connected
  <2>4. QED
    BY <2>1, <2>2, <2>3, AgentUntouched DEF AgentKept
<1>2. ASSUME NEW c \in Conns, A!ConnFails(c) PROVE AgentKept
  <2>1. /\ UNCHANGED <<tunnel, ases, io, wire>> /\ conn[c] \in {"connecting", "up"}
        /\ \E v \in {"shut", "failed"} : conn' = [conn EXCEPT ![c] = v]
    BY <1>2 DEF A!ConnFails
  <2>2. ConnsKept
    BY <2>1 DEF AgentSide, ConnsOk, ConnsKept, TunnelsEnd
  <2>3. EventsKept
    <3>1. OkEvent(A!Ev("disconnect", c), DOMAIN ases)
      BY DEF OkEvent, A!Ev
    <3>2. QED
      BY <1>2, <2>1, <3>1, PostedEvent DEF A!ConnFails
  <2>4. QED
    BY <2>1, <2>2, <2>3, AgentUntouched DEF AgentKept
<1>3. ASSUME NEW c, A!ConnectTimeout(c) \/ A!ConnectedLate(c) PROVE AgentKept
  BY <1>3 DEF A!ConnectTimeout, A!ConnectedLate
<1>4. ASSUME NEW c \in Conns, A!RunIo(c) PROVE AgentKept
  <2> DEFINE w == Head(io[c])
  <2>1. /\ UNCHANGED <<tunnel, ases, conn, astrand>> /\ io[c] # << >>
        /\ io' = [io EXCEPT ![c] = Tail(io[c])]
        /\ wire' = wire \/ wire' = wire \cup {<<c, w.cmd, w.ses>>}
    BY <1>4 DEF A!RunIo, A!RunSend, A!RunSendV
  <2>2. OkWork(c, w, DOMAIN ases) /\ AllWork(c, Tail(io[c]), DOMAIN ases)
    BY <2>1, WorkQueues DEF AgentSide, WorkOk
  <2> HIDE DEF w
  <2>3. WorkKept
    BY <2>1, <2>2 DEF AgentSide, WorkOk, WorkKept
  <2>4. WireKept
    BY <2>1, <2>2 DEF AgentSide, WireOk, WireKept, OkWork
  <2>5. QED
    BY <2>1, <2>3, <2>4, AgentUntouched DEF AgentKept
<1>5. ASSUME NEW cmd, NEW u \in {User1}, A!RelaySends(cmd, u) PROVE AgentKept
  <2>1. UNCHANGED <<tunnel, ases, conn, io, wire>>
    BY <1>5 DEF A!RelaySends
  <2>2. OkEvent(A!R2AMsg(cmd, A!TunConn(tunnel), u), DOMAIN ases)
    BY KindsOfConns DEF OkEvent, A!R2AMsg
  <2>3. EventsKept
    BY <1>5, <2>1, <2>2, PostedEvent DEF A!RelaySends
  <2>4. QED
    BY <2>1, <2>3, AgentUntouched DEF AgentKept
<1>6. ASSUME NEW cmd \in {"DATA", "DISCONNECT"}, NEW s, A!RelaySendsOnSession(cmd, s) PROVE AgentKept
  <2>1. UNCHANGED <<tunnel, ases, conn, io, wire>>
    BY <1>6 DEF A!RelaySendsOnSession
  <2>2. OkEvent(A!R2AMsg(cmd, A!SesConn(s), ases[s].user), DOMAIN ases)
    BY DEF OkEvent, A!R2AMsg
  <2>3. EventsKept
    BY <1>6, <2>1, <2>2, PostedEvent DEF A!RelaySendsOnSession
  <2>4. QED
    BY <2>1, <2>3, AgentUntouched DEF AgentKept
<1>7. ASSUME NEW s, A!ServiceConnected(s) \/ A!ServiceConnectedLate(s) PROVE AgentKept
  <2>1. UNCHANGED <<tunnel, ases, conn, astrand, io, wire>>
    BY <1>7 DEF A!ServiceConnected, A!ServiceConnectedLate
  <2>2. QED
    BY <2>1, AgentUntouched DEF AgentKept
<1>8. ASSUME NEW s, A!ServiceSends(s) \/ A!ServiceEnds(s) PROVE AgentKept
  <2>1. UNCHANGED <<tunnel, ases, conn, io, wire>>
    BY <1>8 DEF A!ServiceSends, A!ServiceEnds
  <2>2. PICK e \in {"recv", "disconnect"} : A!Post(A!Ev(e, A!UserConn(s)))
    BY <1>8 DEF A!ServiceSends, A!ServiceEnds
  <2>3. OkEvent(A!Ev(e, A!UserConn(s)), DOMAIN ases)
    BY DEF OkEvent, A!Ev
  <2>4. EventsKept
    BY <2>1, <2>2, <2>3, PostedEvent
  <2>5. QED
    BY <2>1, <2>4, AgentUntouched DEF AgentKept
<1>9. ASSUME NEW c, NEW s, A!SendDone(c, s) PROVE AgentKept
  <2>1. UNCHANGED <<tunnel, ases, astrand, io, wire>> /\ A!CleanSession(s, ases[s], conn, serv)
    BY <1>9 DEF A!SendDone
  <2>2. ConnsKept
    BY <2>1, AgentUntouched, CleanedConns
  <2>3. QED
    BY <2>1, <2>2, AgentUntouched DEF AgentKept
<1>10. /\ \A cmd : \A u \in {<<Port, 1>>} : A!RelaySends(cmd, u) => AgentKept
       /\ \A c \in A!Framed : A!Connected(c) \/ A!ConnFails(c) \/ A!RunIo(c) => AgentKept
  BY <1>1, <1>2, <1>4, <1>5 DEF User1, Conns
<1>11. QED
  BY <1>3, <1>6, <1>7, <1>8, <1>9, <1>10 DEF A!PoolThread

(* The strand. *)
LEMMA RunStrandKeeps ==
    ASSUME AgentSide, A!RunStrand
    PROVE  AgentKept
<1>1. CASE A!OnServerConnect
  <2>1. UNCHANGED <<tunnel, ases, conn, wire>> /\ A!NextIs("connect") /\ A!Pop
        /\ A!SendOn(A!TunConn(tunnel), "BIND", 0)
    BY <1>1 DEF A!OnServerConnect
  <2>2. SessionsGrow /\ EventsKept
    BY <2>1, AgentUntouched, PoppedEvent
  <2>3. WorkKept
    <3>1. OkWork(A!TunConn(tunnel), [cmd |-> "BIND", ses |-> 0], DOMAIN ases)
      BY KindsOfConns DEF OkWork, AgentSide
    <3>2. QED
      BY <2>1, <2>2, <3>1, PostedWork
  <2>4. QED
    BY <2>1, <2>2, <2>3, AgentUntouched DEF AgentKept
<1>2. CASE A!OnServerDisconnect
  <2>1. /\ UNCHANGED <<tunnel, ases, io, wire>> /\ A!NextIs("disconnect")
        /\ astrand' = Append(Tail(astrand), A!Ev("reconnect", A!TunConn(tunnel)))
        /\ conn' = [c \in Conns |-> IF \E s \in A!Values(users) : c = A!SesConn(s)
                                    THEN A!CloseConn(conn[c]) ELSE conn[c]]
    BY <1>2 DEF A!OnServerDisconnect, A!TunnelLost, A!RetryPosted, Conns
  <2>2. EventsKept
    <3>1. AllEvents(Tail(astrand), DOMAIN ases)
      BY <2>1, EventQueues DEF AgentSide, A!NextIs
    <3>2. OkEvent(A!Ev("reconnect", A!TunConn(tunnel)), DOMAIN ases)
      BY DEF OkEvent, A!Ev
    <3>3. QED
      BY <2>1, <3>1, <3>2, EventQueues DEF EventsKept
  <2>3. ConnsKept
    <3>1. \A c \in A!Tunnels : conn'[c] = conn[c]
      BY <2>1, KindsOfConns
    <3>2. \A s \in A!SessionIds : conn'[A!SesConn(s)] = "connecting" => s \in DOMAIN ases
      BY <2>1, KindsOfConns DEF A!CloseConn, AgentSide, ConnsOk
    <3>3. \A n \in 1..MaxTunnels : n > tunnel => conn'[A!TunConn(n)] = "none"
      BY <3>1, KindsOfConns DEF AgentSide, ConnsOk
    <3>4. QED
      BY <2>1, <3>1, <3>2, <3>3 DEF ConnsOk, ConnsKept, TunnelsEnd
  <2>4. QED
    BY <2>1, <2>2, <2>3, AgentUntouched DEF AgentKept
<1>3. CASE A!Reconnect
  <2>1. /\ UNCHANGED <<ases, io, wire>> /\ A!NextIs("reconnect") /\ A!Pop
        /\ tunnel < MaxTunnels /\ tunnel' = tunnel + 1
        /\ conn' = [conn EXCEPT ![A!TunConn(tunnel)] = A!CloseConn(@), ![A!TunConn(tunnel + 1)] = "connecting"]
    BY <1>3 DEF A!Reconnect
  <2>2. tunnel \in 1..MaxTunnels /\ tunnel + 1 \in 1..MaxTunnels /\ DOMAIN conn = Conns /\ SessionsGrow /\ EventsKept
    BY <2>1, AgentUntouched, PoppedEvent, SystemAssumption DEF AgentSide, ConnsOk
  <2>3. ConnsKept
    <3>1. \A s \in A!SessionIds : conn'[A!SesConn(s)] = conn[A!SesConn(s)]
      BY <2>1, <2>2, KindsOfConns
    <3>2. \A n \in 1..MaxTunnels : n > tunnel + 1 => conn'[A!TunConn(n)] = "none"
      <4>1. \A n \in 1..MaxTunnels : n > tunnel + 1 => conn'[A!TunConn(n)] = conn[A!TunConn(n)]
        BY <2>1, <2>2, KindsOfConns
      <4>2. QED
        BY <2>2, <4>1, SystemAssumption DEF AgentSide, ConnsOk
    <3>3. TunnelsEnd
      <4>1. ASSUME NEW c \in A!Tunnels, conn[c] \notin {"none", "connecting"}
            PROVE  conn'[c] = conn[c] \/ conn'[c] \in {"closing", "closed"}
        <5>1. conn[A!TunConn(tunnel + 1)] = "none"
          BY <2>1, <2>2, SystemAssumption DEF AgentSide, ConnsOk
        <5>2. c # A!TunConn(tunnel + 1) /\ c \in Conns
          BY <4>1, <5>1, KindsOfConns
        <5>3. QED
          BY <2>1, <2>2, <5>2 DEF A!CloseConn
      <4>2. QED
        BY <4>1 DEF TunnelsEnd
    <3>4. QED
      BY <2>1, <2>2, <3>1, <3>2, <3>3 DEF AgentSide, ConnsOk, ConnsKept
  <2>4. QED
    BY <2>1, <2>2, <2>3, AgentUntouched DEF AgentKept
<1>4. CASE A!RecvConnect
  <2> DEFINE m == Head(astrand)
             s == anses + 1
             new == A!NewSession(m)
  <2>1. UNCHANGED <<tunnel, io, wire>> /\ A!NextIs("CONNECT") /\ A!Pop
    BY <1>4 DEF A!RecvConnect
  <2>2. \/ UNCHANGED <<ases, conn>>
        \/ /\ ases' = A!Put(ases, s, new)
           /\ conn' = [conn EXCEPT ![A!SesConn(s)] = "connecting"]
    BY <1>4 DEF A!RecvConnect
  <2>3. new.user = User1 /\ "user" \in DOMAIN new
    <3>1. m.user = User1
      BY <2>1, PoppedEvent DEF OkEvent, A!NextIs
    <3>2. QED
      BY <3>1 DEF A!NewSession
  <2> HIDE DEF m, s, new
  <2>4. CASE UNCHANGED <<ases, conn>>
    <3>1. SessionsGrow
      BY <2>4, AgentUntouched
    <3>2. EventsKept
      BY <2>1, <3>1, PoppedEvent
    <3>3. QED
      BY <2>1, <2>4, <3>1, <3>2, AgentUntouched DEF AgentKept
  <2>5. CASE /\ ases' = A!Put(ases, s, new)
             /\ conn' = [conn EXCEPT ![A!SesConn(s)] = "connecting"]
    <3>1. SessionsGrow /\ s \in DOMAIN ases'
      BY <2>3, <2>5 DEF A!Put, AgentSide, SessionsOk, SessionsGrow
    <3>2. EventsKept
      BY <2>1, <3>1, PoppedEvent
    <3>3. ConnsKept
      <4>1. DOMAIN conn = Conns /\ \A c \in A!Tunnels : conn'[c] = conn[c]
        BY <2>5, KindsOfConns DEF AgentSide, ConnsOk
      <4>2. \A r \in A!SessionIds : conn'[A!SesConn(r)] = "connecting" => r \in DOMAIN ases'
        BY <2>5, <3>1, <4>1, KindsOfConns DEF AgentSide, ConnsOk, SessionsGrow
      <4>3. \A n \in 1..MaxTunnels : n > tunnel => conn'[A!TunConn(n)] = "none"
        BY <4>1, KindsOfConns DEF AgentSide, ConnsOk
      <4>4. QED
        BY <2>1, <2>5, <4>1, <4>2, <4>3 DEF ConnsOk, ConnsKept, TunnelsEnd
    <3>4. QED
      BY <2>1, <3>1, <3>2, <3>3, AgentUntouched DEF AgentKept
  <2>6. QED
    BY <2>2, <2>4, <2>5
<1>5. CASE A!RecvData
  <2>1. UNCHANGED <<tunnel, ases, conn, io, wire>> /\ A!NextIs("DATA") /\ A!Pop
    BY <1>5 DEF A!RecvData
  <2>2. QED
    BY <2>1, AgentUntouched, PoppedEvent DEF AgentKept
<1>6. CASE A!RecvDisconnect
  <2>1. UNCHANGED <<tunnel, io, wire>> /\ A!NextIs("DISCONNECT") /\ A!Pop
    BY <1>6 DEF A!RecvDisconnect
  <2>2. CASE UNCHANGED <<ases, conn>>
    BY <2>1, <2>2, AgentUntouched, PoppedEvent DEF AgentKept
  <2>3. ASSUME NEW s, NEW r, r = [ases[s] EXCEPT !.tunnel_disconnected = TRUE], ases' = [ases EXCEPT ![s] = r],
               A!CleanSession(s, r, Closed(conn, s), serv)
        PROVE  AgentKept
    <3>1. SessionsGrow
      BY <2>3, MarkedSession DEF AgentSide, SessionsOk
    <3>2. ConnsKept
      BY <2>1, <2>3, <3>1, CleanedConns
    <3>3. QED
      BY <2>1, <3>1, <3>2, AgentUntouched, PoppedEvent DEF AgentKept
  <2>4. QED
    BY <1>6, <2>2, <2>3 DEF A!RecvDisconnect, Closed
<1>7. ASSUME NEW s, A!SessionConnected(A!SesConn(s), s) PROVE AgentKept
  <2>1. /\ UNCHANGED <<tunnel, conn, wire>> /\ A!NextIs("connect") /\ A!Pop
        /\ Head(astrand).ev = "connect" /\ Head(astrand).on = A!SesConn(s)
        /\ A!SendOn(A!SesConn(s), "SESSION", s)
        /\ ases' = [ases EXCEPT ![s] = [ases[s] EXCEPT !.ready = TRUE]]
    BY <1>7 DEF A!SessionConnected, A!NextIs
  <2>2. SessionsGrow
    BY <2>1, MarkedSession DEF AgentSide, SessionsOk
  <2>3. s \in DOMAIN ases
    BY <2>1, PoppedEvent DEF OkEvent
  <2>4. OkWork(A!SesConn(s), [cmd |-> "SESSION", ses |-> s], DOMAIN ases)
    BY <2>3 DEF OkWork
  <2>5. WorkKept
    BY <2>1, <2>2, <2>4, PostedWork
  <2>6. QED
    BY <2>1, <2>2, <2>5, AgentUntouched, PoppedEvent DEF AgentKept
<1>8. CASE A!OnSessionDisconnect
  <2> DEFINE s == Head(astrand).on[2]
             r == [ases[s] EXCEPT !.tunnel_disconnected = TRUE, !.tunnel_hard_disconnected = TRUE]
  <2>1. /\ UNCHANGED <<tunnel, io, wire>> /\ A!NextIs("disconnect") /\ A!Pop
        /\ ases' = [ases EXCEPT ![s] = r]
        /\ A!CleanSession(s, r, Closed(conn, s), serv)
    BY <1>8 DEF A!OnSessionDisconnect, Closed
  <2>2. s \in DOMAIN ases => "user" \in DOMAIN r /\ r.user = ases[s].user
    BY DEF AgentSide, SessionsOk
  <2> HIDE DEF s, r
  <2>3. SessionsGrow
    BY <2>1, <2>2, MarkedSession
  <2>4. ConnsKept
    BY <2>1, <2>3, CleanedConns
  <2>5. QED
    BY <2>1, <2>3, <2>4, AgentUntouched, PoppedEvent DEF AgentKept
<1>9. ASSUME NEW c, NEW cmd \in {"DATA", "DISCONNECT"}, NEW s, SessionsGrow, A!SendOn(c, cmd, s) PROVE WorkKept
  <2>1. OkWork(c, [cmd |-> cmd, ses |-> s], DOMAIN ases)
    BY DEF OkWork
  <2>2. QED
    BY <1>9, <2>1, PostedWork
<1>10. CASE A!OnUserRecv
  <2>1. UNCHANGED <<tunnel, ases, conn, wire>> /\ A!NextIs("recv") /\ A!Pop /\ \E c, s : A!SendOn(c, "DATA", s)
    BY <1>10 DEF A!OnUserRecv
  <2>2. SessionsGrow
    BY <2>1, AgentUntouched
  <2>3. WorkKept
    BY <1>9, <2>1, <2>2
  <2>4. QED
    BY <2>1, <2>2, <2>3, AgentUntouched, PoppedEvent DEF AgentKept
<1>11. CASE A!OnUserDisconnect
  <2> DEFINE s == Head(astrand).on[2]
             r == [ases[s] EXCEPT !.user_disconnected = TRUE]
  <2>1. /\ UNCHANGED <<tunnel, wire>> /\ A!NextIs("disconnect") /\ A!Pop
        /\ ases' = [ases EXCEPT ![s] = r] /\ A!SendOn(A!Route(s), "DISCONNECT", s)
        /\ \E V : A!CleanSession(s, r, conn, V)
    BY <1>11 DEF A!OnUserDisconnect
  <2>2. s \in DOMAIN ases => "user" \in DOMAIN r /\ r.user = ases[s].user
    BY DEF AgentSide, SessionsOk
  <2> HIDE DEF s, r
  <2>3. SessionsGrow
    BY <2>1, <2>2, MarkedSession
  <2>4. ConnsKept
    BY <2>1, <2>3, CleanedConns
  <2>5. WorkKept
    BY <1>9, <2>1, <2>3
  <2>6. QED
    BY <2>1, <2>3, <2>4, <2>5, AgentUntouched, PoppedEvent DEF AgentKept
<1>12. QED
  BY <1>1, <1>2, <1>3, <1>4, <1>5, <1>6, <1>7, <1>8, <1>10, <1>11 DEF A!RunStrand, A!OnSessionConnect

(* Every step of the agent keeps its side. *)
LEMMA AgentSideInductive ==
    ASSUME AgentSide, A!Next
    PROVE  AgentSide' /\ AgentKept
<1>1. AgentKept
  BY PoolThreadKeeps, RunStrandKeeps DEF A!Next
<1>2. QED
  BY <1>1 DEF AgentKept, SessionsGrow, ConnsKept, EventsKept, WorkKept, WireKept, AgentSide

----------------------------------------------------------------------------
(* The relay's side: it speaks of a user only to a connection that was told   *)
(* CONNECT, to one that binds the port, or to one that has said SESSION.      *)
Heard(a, M, K) == R!Msg("CONNECT", a, Port, 1) \in M \/ a \in K
HearersOk(S, M, K) == \A s \in DOMAIN S : "agent_id" \in DOMAIN S[s] /\ Heard(S[s].agent_id, M, K)
Table(r, D) == \A id \in DOMAIN r.sessions : id = 1 /\ r.sessions[id] \in D
Member(a) == \E h \in DOMAIN svc : a \in svc[h].agents
RelaySide ==
    /\ DOMAIN agents \subseteq 1..nagents /\ DOMAIN claim \subseteq 1..nagents
    /\ \A a : Member(a) => a \in 1..nagents
    /\ \A m \in r2a : m.cmd = "CONNECT" => m.to \in 1..nagents
    /\ HearersOk(rses, r2a, DOMAIN claim)
    /\ \A h \in DOMAIN svc : Table(svc[h], DOMAIN rses)

(* What a step of the relay leaves, where only connections in B bind the port *)
(* and only those in K say SESSION.                                           *)
ServicesStep(B) ==
    \A h \in DOMAIN svc' : /\ Table(svc'[h], DOMAIN rses')
                           /\ \A a \in svc'[h].agents : a \in B \/ Member(a)
SessionsStep == DOMAIN rses \subseteq DOMAIN rses' /\ HearersOk(rses', r2a', DOMAIN claim')
NumbersStep ==
    /\ nagents' \in Nat /\ nagents <= nagents' /\ lost \subseteq lost'
    /\ \A a \in DOMAIN agents' : a \in DOMAIN agents \/ (a \notin 1..nagents /\ a \in 1..nagents')
ToldStep ==
    r2a \subseteq r2a' /\ \A m \in r2a' \ r2a : m.cmd = "CONNECT" => Member(m.to) /\ m.to \in DOMAIN agents
ClaimStep(K) == DOMAIN claim \subseteq DOMAIN claim' /\ DOMAIN claim' \subseteq DOMAIN claim \cup K
RelayKept(B, K) ==
    /\ B \cup K \subseteq 1..nagents
    /\ ServicesStep(B) /\ SessionsStep /\ NumbersStep /\ ToldStep /\ ClaimStep(K)

(* Such a step keeps the relay's side. *)
LEMMA RelaySideKept ==
    ASSUME RelayTold, RelaySide, NEW B, NEW K, RelayKept(B, K)
    PROVE  RelaySide'
<1>1. nagents \in Nat /\ nagents' \in Nat /\ nagents <= nagents' /\ B \cup K \subseteq 1..nagents
  BY DEF RelayTold, RelaySide, RelayKept, NumbersStep
<1>2. 1..nagents \subseteq 1..nagents'
  BY <1>1
<1>3. DOMAIN agents' \subseteq 1..nagents'
  BY <1>2 DEF RelaySide, RelayKept, NumbersStep
<1>4. DOMAIN claim' \subseteq 1..nagents'
  BY <1>1, <1>2 DEF RelaySide, RelayKept, ClaimStep
<1>5. \A h \in DOMAIN svc' : \A a \in svc'[h].agents : a \in 1..nagents'
  BY <1>1, <1>2 DEF RelaySide, RelayKept, ServicesStep
<1>6. \A m \in r2a' : m.cmd = "CONNECT" => m.to \in 1..nagents'
  BY <1>2 DEF RelaySide, RelayKept, ToldStep
<1>7. QED
  BY <1>3, <1>4, <1>5, <1>6 DEF RelaySide, Member, RelayKept, SessionsStep, ServicesStep

(* The fields of a service that an assignment to one of them leaves. *)
LEMMA ServiceFields ==
    ASSUME NEW r, ServiceOk(r), NEW X
    PROVE  /\ [r EXCEPT !.agents = X].agents = X /\ [r EXCEPT !.agents = X].sessions = r.sessions
           /\ [r EXCEPT !.sessions = X].sessions = X /\ [r EXCEPT !.sessions = X].agents = r.agents
           /\ [r EXCEPT !.conns = X].agents = r.agents /\ [r EXCEPT !.conns = X].sessions = r.sessions
           /\ [r EXCEPT !.inited = X].agents = r.agents /\ [r EXCEPT !.inited = X].sessions = r.sessions
           /\ [r EXCEPT !.next_seq = X].agents = r.agents /\ [r EXCEPT !.next_seq = X].sessions = r.sessions
BY DEF ServiceOk, Fields

(* Withdrawing an agent leaves the sessions and no other agent. *)
LEMMA RemoveAgentFields ==
    ASSUME NEW r, ServiceOk(r), NEW a
    PROVE  R!RemoveAgent(r, a).sessions = r.sessions /\ R!RemoveAgent(r, a).agents = r.agents \ {a}
<1> DEFINE t == [r EXCEPT !.agents = r.agents \ {a}]
           u == [t EXCEPT !.inited = FALSE]
           v == [u EXCEPT !.conns = << >>]
<1>1. ServiceOk(t) /\ t.sessions = r.sessions /\ t.agents = r.agents \ {a}
  <2>1. ServiceOk(t)
    BY ServiceUpdates
  <2>2. t.sessions = r.sessions /\ t.agents = r.agents \ {a}
    BY ServiceFields
  <2>3. QED
    BY <2>1, <2>2
<1>2. R!RemoveAgent(r, a) = t \/ R!RemoveAgent(r, a) = v
  BY <1>1 DEF R!RemoveAgent, R!CloseServer, ServiceOk, Fields
<1> HIDE DEF t
<1>3. ServiceOk(u) /\ u.sessions = t.sessions /\ u.agents = t.agents
  BY <1>1, ServiceUpdates, ServiceFields
<1> HIDE DEF u
<1>4. v.sessions = u.sessions /\ v.agents = u.agents
  BY <1>3, ServiceFields
<1> HIDE DEF v
<1>5. QED
  BY <1>1, <1>2, <1>3, <1>4

(* Erasing numbers from a table. *)
LEMMA DroppedTable ==
    ASSUME NEW r, ServiceOk(r), NEW D, Table(r, D), NEW X
    PROVE  Table([r EXCEPT !.sessions = R!Drop(r.sessions, X)], D)
<1>1. [r EXCEPT !.sessions = R!Drop(r.sessions, X)].sessions = R!Drop(r.sessions, X)
  BY ServiceFields
<1>2. QED
  BY <1>1 DEF Table, R!Drop

(* Services stay as they are, or one of them is assigned to. *)
LEMMA ServicesUntouched ==
    ASSUME RelaySide, DOMAIN rses \subseteq DOMAIN rses', svc' = svc, NEW B
    PROVE  ServicesStep(B)
BY DEF RelaySide, ServicesStep, Member, Table

LEMMA OneServiceStep ==
    ASSUME RelaySide, DOMAIN rses \subseteq DOMAIN rses', NEW B, NEW h, NEW r, svc' = [svc EXCEPT ![h] = r],
           h \in DOMAIN svc => Table(r, DOMAIN rses') /\ r.agents \subseteq svc[h].agents \cup B
    PROVE  ServicesStep(B)
BY DEF RelaySide, ServicesStep, Member, Table

(* Session objects stay as they are, or one of them is marked. *)
LEMMA SessionsUntouched ==
    ASSUME RelaySide, r2a \subseteq r2a', DOMAIN claim \subseteq DOMAIN claim', rses' = rses
    PROVE  SessionsStep
BY DEF RelaySide, SessionsStep, HearersOk, Heard

LEMMA OneSessionStep ==
    ASSUME RelaySide, r2a \subseteq r2a', DOMAIN claim \subseteq DOMAIN claim',
           NEW s, NEW r, rses' = [rses EXCEPT ![s] = r],
           s \in DOMAIN rses => "agent_id" \in DOMAIN r /\ Heard(r.agent_id, r2a', DOMAIN claim')
    PROVE  SessionsStep
BY DEF RelaySide, SessionsStep, HearersOk, Heard

LEMMA NewSessionStep ==
    ASSUME RelaySide, r2a \subseteq r2a', DOMAIN claim \subseteq DOMAIN claim',
           NEW s, NEW r, rses' = R!Put(rses, s, r),
           "agent_id" \in DOMAIN r, Heard(r.agent_id, r2a', DOMAIN claim')
    PROVE  SessionsStep /\ s \in DOMAIN rses'
BY DEF RelaySide, SessionsStep, HearersOk, Heard, R!Put

(* __CleanSession. *)
LEMMA CleanSessionStep ==
    ASSUME RelaySide, ServicesOk, DOMAIN rses \subseteq DOMAIN rses', NEW h, NEW r, NEW S, NEW Q,
           R!CleanSession(h, r, S, Q),
           S = svc \/ \E X : S = [svc EXCEPT ![h] = [svc[h] EXCEPT !.conns = X]]
    PROVE  ServicesStep({}) /\ DOMAIN agents' = DOMAIN agents
<1>1. DOMAIN agents' = DOMAIN agents
  BY DEF R!CleanSession
<1>2. svc' = S \/ svc' = [S EXCEPT ![h] = [S[h] EXCEPT !.sessions = R!Drop(S[h].sessions, {r.seq})]]
  BY DEF R!CleanSession
<1>3. /\ DOMAIN S = DOMAIN svc
      /\ \A k \in DOMAIN svc : ServiceOk(S[k]) /\ S[k].agents = svc[k].agents /\ S[k].sessions = svc[k].sessions
  <2>1. CASE S = svc
    BY <2>1 DEF ServicesOk
  <2>2. ASSUME NEW X, S = [svc EXCEPT ![h] = [svc[h] EXCEPT !.conns = X]] PROVE <1>3!:
    <3>1. \A k \in DOMAIN svc : S[k] = svc[k] \/ S[k] = [svc[k] EXCEPT !.conns = X]
      BY <2>2
    <3>2. \A k \in DOMAIN svc : /\ ServiceOk(svc[k]) /\ ServiceOk([svc[k] EXCEPT !.conns = X])
                                /\ [svc[k] EXCEPT !.conns = X].agents = svc[k].agents
                                /\ [svc[k] EXCEPT !.conns = X].sessions = svc[k].sessions
      BY ServiceUpdates, ServiceFields DEF ServicesOk
    <3>3. DOMAIN S = DOMAIN svc
      BY <2>2
    <3>4. QED
      BY <3>1, <3>2, <3>3
  <2>3. QED
    BY <2>1, <2>2
<1>4. \A k \in DOMAIN svc : Table(S[k], DOMAIN rses')
  BY <1>3 DEF RelaySide, Table
<1>5. ASSUME NEW k \in DOMAIN svc PROVE k \in DOMAIN svc' => Table(svc'[k], DOMAIN rses') /\ svc'[k].agents = svc[k].agents
  <2> DEFINE t == [S[k] EXCEPT !.sessions = R!Drop(S[k].sessions, {r.seq})]
  <2>1. k \in DOMAIN svc' => svc'[k] = S[k] \/ svc'[k] = t
    BY <1>2, <1>3
  <2>2. Table(t, DOMAIN rses') /\ t.agents = svc[k].agents
    BY <1>3, <1>4, DroppedTable, ServiceFields
  <2> HIDE DEF t
  <2>3. QED
    BY <1>3, <1>4, <2>1, <2>2
<1>6. DOMAIN svc' = DOMAIN svc
  BY <1>2, <1>3
<1>7. QED
  BY <1>1, <1>5, <1>6 DEF ServicesStep, Member

(* What a step leaves alone. *)
LEMMA RelayUntouched ==
    ASSUME RelayTold, RelaySide
    PROVE  /\ DOMAIN agents' \subseteq DOMAIN agents /\ nagents' = nagents /\ lost \subseteq lost' => NumbersStep
           /\ r2a' = r2a => ToldStep
           /\ claim' = claim => ClaimStep({})
           /\ claim' = claim /\ r2a \subseteq r2a' /\ rses' = rses => SessionsStep
           /\ SessionsStep /\ svc' = svc => \A B : ServicesStep(B)
<1>1. DOMAIN agents' \subseteq DOMAIN agents /\ nagents' = nagents /\ lost \subseteq lost' => NumbersStep
  BY DEF RelayTold, NumbersStep
<1>2. (r2a' = r2a => ToldStep) /\ (claim' = claim => ClaimStep({}))
  BY DEF ToldStep, ClaimStep
<1>3. claim' = claim /\ r2a \subseteq r2a' /\ rses' = rses => SessionsStep
  BY SessionsUntouched
<1>4. SessionsStep /\ svc' = svc => \A B : ServicesStep(B)
  BY ServicesUntouched DEF SessionsStep
<1>5. QED
  BY <1>1, <1>2, <1>3, <1>4

(* A handler that leaves sessions and services alone. *)
LEMMA QuietHandlers ==
    ASSUME RelayTold, RelaySide,
           \/ R!OnAgentConnect \/ (\E a : R!AgentLost(a)) \/ (\E a, p, id : R!Data(a, p, id))
           \/ (\E h : R!LateUserEvent(h)) \/ (\E h, id : R!UserSends(h, id))
    PROVE  RelayKept({}, {})
<1>1. UNCHANGED <<svc, rses, claim, r2a>>
  BY DEF R!OnAgentConnect, R!AgentLost, R!Data, R!LateUserEvent, R!UserSends
<1>2. NumbersStep
  <2>1. CASE R!OnAgentConnect
    <3>1. nagents' = nagents + 1 /\ DOMAIN agents' = DOMAIN agents \cup {nagents + 1} /\ lost' = lost
      BY <2>1 DEF R!OnAgentConnect, R!Put
    <3>2. QED
      BY <3>1 DEF RelayTold, NumbersStep
  <2>2. CASE ~R!OnAgentConnect
    <3>1. DOMAIN agents' \subseteq DOMAIN agents /\ nagents' = nagents /\ lost \subseteq lost'
      BY <2>2 DEF R!AgentLost, R!Data, R!LateUserEvent, R!UserSends, R!counts
    <3>2. QED
      BY <3>1, RelayUntouched
  <2>3. QED
    BY <2>1, <2>2
<1>3. QED
  BY <1>1, <1>2, RelayUntouched DEF RelayKept

(* The user connection of a listener ends, or is closed. *)
LEMMA ConnHandlers ==
    ASSUME RelayTold, RelaySide, NEW h, R!CloseConn(h) \/ \E id : R!UserLeaves(h, id)
    PROVE  RelayKept({}, {})
<1>1. UNCHANGED <<agents, nagents, lost, rses, claim, r2a>>
  BY DEF R!CloseConn, R!UserLeaves, R!counts
<1>2. SessionsStep
  BY <1>1, RelayUntouched
<1>3. svc' = svc \/ \E X : svc' = [svc EXCEPT ![h] = [svc[h] EXCEPT !.conns = X]]
  BY DEF R!CloseConn, R!UserLeaves
<1>4. ASSUME NEW X, svc' = [svc EXCEPT ![h] = [svc[h] EXCEPT !.conns = X]] PROVE ServicesStep({})
  <2> DEFINE r == [svc[h] EXCEPT !.conns = X]
  <2>1. h \in DOMAIN svc => r.sessions = svc[h].sessions /\ r.agents = svc[h].agents
    BY ServiceFields DEF RelayTold, ServicesOk
  <2> HIDE DEF r
  <2>2. h \in DOMAIN svc => Table(r, DOMAIN rses')
    BY <1>2, <2>1 DEF RelaySide, Table, SessionsStep
  <2>3. QED
    BY <1>2, <1>4, <2>1, <2>2, OneServiceStep DEF r, SessionsStep
<1>5. ServicesStep({})
  BY <1>2, <1>3, <1>4, RelayUntouched
<1>6. QED
  BY <1>1, <1>2, <1>5, RelayUntouched DEF RelayKept

(* One end of a session goes, or a send callback cleans. *)
LEMMA CleaningHandlers ==
    ASSUME RelayTold, RelaySide,
           (\E h, s : R!SendDone(h, s)) \/ (\E a, p, id : R!Disconnect(a, p, id)) \/ (\E h : R!OnUserDisconnect(h))
    PROVE  RelayKept({}, {})
<1>1. UNCHANGED <<nagents, lost, claim>> /\ ServicesOk
  BY DEF R!SendDone, R!Disconnect, R!OnUserDisconnect, R!counts, RelayTold
<1>2. r2a \subseteq r2a' /\ ToldStep
  <2>1. r2a' = r2a \/ \E a, p, id : r2a' = r2a \cup {R!Msg("DISCONNECT", a, p, id)}
    BY DEF R!SendDone, R!Disconnect, R!OnUserDisconnect
  <2>2. \A a, p, id : R!Msg("DISCONNECT", a, p, id).cmd # "CONNECT"
    BY DEF R!Msg
  <2>3. QED
    BY <2>1, <2>2 DEF ToldStep
<1>3. SessionsStep
  <2>1. rses' = rses \/ \E s : \/ rses' = [rses EXCEPT ![s] = [rses[s] EXCEPT !.tunnel_disconnected = TRUE]]
                               \/ rses' = [rses EXCEPT ![s] = [rses[s] EXCEPT !.user_disconnected = TRUE]]
    BY DEF R!SendDone, R!Disconnect, R!OnUserDisconnect
  <2>2. ASSUME NEW s, NEW r, rses' = [rses EXCEPT ![s] = r],
               \/ r = [rses[s] EXCEPT !.tunnel_disconnected = TRUE]
               \/ r = [rses[s] EXCEPT !.user_disconnected = TRUE]
        PROVE  SessionsStep
    <3>1. s \in DOMAIN rses => "agent_id" \in DOMAIN r /\ r.agent_id = rses[s].agent_id
      BY <2>2 DEF RelaySide, HearersOk
    <3>2. s \in DOMAIN rses => Heard(r.agent_id, r2a', DOMAIN claim')
      BY <1>1, <1>2, <3>1 DEF RelaySide, HearersOk, Heard
    <3>3. QED
      BY <1>1, <1>2, <2>2, <3>1, <3>2, OneSessionStep
  <2>3. QED
    BY <1>1, <1>2, <2>1, <2>2, RelayUntouched
<1>4. ServicesStep({}) /\ DOMAIN agents' = DOMAIN agents
  <2>1. ASSUME NEW h, NEW r, NEW Q, R!CleanSession(h, r, svc, Q) PROVE ServicesStep({}) /\ DOMAIN agents' = DOMAIN agents
    BY <1>1, <1>3, <2>1, CleanSessionStep DEF SessionsStep
  <2>2. ASSUME NEW h, R!OnUserDisconnect(h) PROVE ServicesStep({}) /\ DOMAIN agents' = DOMAIN agents
    <3> DEFINE X == R!Drop(svc[h].conns, {Head(rstrand[h]).seq})
               gone == [svc EXCEPT ![h] = [svc[h] EXCEPT !.conns = X]]
    <3>1. \/ \E r, Q : R!CleanSession(h, r, gone, Q)
          \/ svc' = gone /\ agents' = agents
      BY <2>2 DEF R!OnUserDisconnect
    <3>2. gone = svc \/ \E Y : gone = [svc EXCEPT ![h] = [svc[h] EXCEPT !.conns = Y]]
      OBVIOUS
    <3>3. CASE svc' = gone /\ agents' = agents
      <4> DEFINE r == [svc[h] EXCEPT !.conns = X]
      <4> HIDE DEF X
      <4>1. h \in DOMAIN svc => r.sessions = svc[h].sessions /\ r.agents = svc[h].agents
        BY ServiceFields DEF RelayTold, ServicesOk
      <4> HIDE DEF r
      <4>2. h \in DOMAIN svc => Table(r, DOMAIN rses')
        BY <1>3, <4>1 DEF RelaySide, Table, SessionsStep
      <4>3. QED
        BY <1>3, <3>3, <4>1, <4>2, OneServiceStep DEF r, SessionsStep
    <3> HIDE DEF gone
    <3>4. ASSUME NEW r, NEW Q, R!CleanSession(h, r, gone, Q)
          PROVE  ServicesStep({}) /\ DOMAIN agents' = DOMAIN agents
      BY <1>1, <1>3, <3>2, <3>4, CleanSessionStep DEF SessionsStep
    <3>5. QED
      BY <3>1, <3>3, <3>4
  <2>3. (\E h : R!OnUserDisconnect(h)) \/ (\E h, r, Q : R!CleanSession(h, r, svc, Q))
    BY DEF R!SendDone, R!Disconnect
  <2>4. QED
    BY <2>1, <2>2, <2>3
<1>5. QED
  BY <1>1, <1>2, <1>3, <1>4, RelayUntouched DEF RelayKept

(* An agent goes. *)
LEMMA AgentGoes ==
    ASSUME RelayTold, RelaySide, NEW a, R!OnAgentDisconnect(a)
    PROVE  RelayKept({}, {}) /\ a \in lost
<1> DEFINE live == agents[a].ports \cap DOMAIN services
           H == {services[p] : p \in live}
           mine == IF live = {} THEN {} ELSE R!Values(agents[a].sessions)
           X == {rses[s].seq : s \in {s \in mine : rses[s].user_disconnected}}
<1>1. /\ UNCHANGED <<nagents, lost, claim, r2a>> /\ DOMAIN agents' = DOMAIN agents \ {a} /\ a \in lost
  BY DEF R!OnAgentDisconnect, R!counts
<1>2. rses' = [s \in DOMAIN rses |-> IF s \in mine THEN [rses[s] EXCEPT !.tunnel_disconnected = TRUE,
                                                                    !.tunnel_hard_disconnected = TRUE]
                                     ELSE rses[s]]
  BY DEF R!OnAgentDisconnect
<1>3. svc' = [h \in DOMAIN svc |-> IF h \in H
                     THEN R!RemoveAgent([svc[h] EXCEPT !.sessions = R!Drop(@, X)], a) ELSE svc[h]]
  BY DEF R!OnAgentDisconnect
<1> HIDE DEF H, X, mine
<1>4. SessionsStep
  <2>1. DOMAIN rses' = DOMAIN rses
    BY <1>2
  <2>2. \A s \in DOMAIN rses : "agent_id" \in DOMAIN rses'[s] /\ rses'[s].agent_id = rses[s].agent_id
    BY <1>2 DEF RelaySide, HearersOk
  <2>3. QED
    BY <1>1, <2>1, <2>2 DEF SessionsStep, RelaySide, HearersOk, Heard
<1>5. ServicesStep({})
  <2>1. ASSUME NEW h \in DOMAIN svc PROVE Table(svc'[h], DOMAIN rses') /\ svc'[h].agents \subseteq svc[h].agents
    <3> DEFINE t == [svc[h] EXCEPT !.sessions = R!Drop(svc[h].sessions, X)]
    <3>1. ServiceOk(svc[h]) /\ Table(svc[h], DOMAIN rses')
      BY <1>4 DEF RelayTold, ServicesOk, RelaySide, SessionsStep, Table
    <3>2. ServiceOk(t) /\ Table(t, DOMAIN rses') /\ t.agents = svc[h].agents
      BY <3>1, ServiceUpdates, DroppedTable, ServiceFields
    <3>3. svc'[h] = svc[h] \/ svc'[h] = R!RemoveAgent(t, a)
      BY <1>3
    <3> HIDE DEF t
    <3>4. Table(R!RemoveAgent(t, a), DOMAIN rses') /\ R!RemoveAgent(t, a).agents \subseteq svc[h].agents
      BY <3>2, RemoveAgentFields DEF Table
    <3>5. QED
      BY <3>1, <3>3, <3>4
  <2>2. DOMAIN svc' = DOMAIN svc
    BY <1>3
  <2>3. QED
    BY <2>1, <2>2 DEF ServicesStep, Member
<1>6. QED
  BY <1>1, <1>4, <1>5, RelayUntouched DEF RelayKept

(* BIND. *)
LEMMA BindKeeps ==
    ASSUME RelayTold, RelaySide, NEW a, NEW p, R!Bind(a, p)
    PROVE  RelayKept({a}, {})
<1>1. /\ UNCHANGED <<nagents, lost, rses, claim, r2a>> /\ a \in DOMAIN agents
      /\ DOMAIN agents' = DOMAIN agents
  BY DEF R!Bind, R!counts
<1>2. SessionsStep
  BY <1>1, RelayUntouched
<1> DEFINE new == [port |-> p, agents |-> {a}, sessions |-> << >>,
                   inited |-> TRUE, next_seq |-> 0, conns |-> << >>]
<1>3. \/ svc' = svc
      \/ svc' = [svc EXCEPT ![services[p]] = [svc[services[p]] EXCEPT !.agents = svc[services[p]].agents \cup {a}]]
      \/ svc' = R!Put(svc, nsvc + 1, new)
  BY DEF R!Bind
<1>4. ASSUME svc' = [svc EXCEPT ![services[p]] = [svc[services[p]] EXCEPT !.agents = svc[services[p]].agents \cup {a}]]
      PROVE  ServicesStep({a})
  <2> DEFINE h == services[p]
             r == [svc[h] EXCEPT !.agents = svc[h].agents \cup {a}]
  <2>1. h \in DOMAIN svc => r.sessions = svc[h].sessions /\ r.agents = svc[h].agents \cup {a}
    BY ServiceFields DEF RelayTold, ServicesOk
  <2>2. svc' = [svc EXCEPT ![h] = r]
    BY <1>4
  <2> HIDE DEF r, h
  <2>3. h \in DOMAIN svc => Table(r, DOMAIN rses')
    BY <1>2, <2>1 DEF RelaySide, Table, SessionsStep
  <2>4. QED
    BY <1>2, <2>1, <2>2, <2>3, OneServiceStep DEF SessionsStep
<1>5. ASSUME svc' = R!Put(svc, nsvc + 1, new) PROVE ServicesStep({a})
  <2>1. new.agents = {a} /\ Table(new, DOMAIN rses')
    BY DEF Table
  <2> HIDE DEF new
  <2>2. \A h \in DOMAIN svc' : svc'[h] = new \/ (h \in DOMAIN svc /\ svc'[h] = svc[h])
    BY <1>5 DEF R!Put
  <2>3. QED
    BY <1>2, <2>1, <2>2 DEF ServicesStep, Member, RelaySide, SessionsStep, Table
<1>6. ServicesStep({a})
  BY <1>2, <1>3, <1>4, <1>5, RelayUntouched
<1>7. a \in 1..nagents
  BY <1>1 DEF RelaySide
<1>8. QED
  BY <1>1, <1>2, <1>6, <1>7, RelayUntouched DEF RelayKept

(* SESSION of user 1. *)
LEMMA SessionConnKeeps ==
    ASSUME RelayTold, RelaySide, NEW a, NEW p, NEW id, id = 1, R!SessionConn(a, p, id)
    PROVE  RelayKept({}, {a})
<1>1. /\ UNCHANGED <<lost, r2a>> /\ a \in 1..nagents /\ nagents' = nagents
      /\ claim' = R!Put(claim, a, <<p, id>>)
  BY DEF R!SessionConn, R!MayClaim, R!counts
<1>2. DOMAIN agents' = DOMAIN agents
  BY DEF R!SessionConn
<1>3. DOMAIN claim' = DOMAIN claim \cup {a}
  BY <1>1 DEF R!Put
<1> DEFINE h == services[p]
<1>4. \/ UNCHANGED <<svc, rses>>
      \/ \E s : /\ rses' = R!Put(rses, s, R!NewSession(0, a, TRUE))
                /\ svc' = [svc EXCEPT ![h] = [svc[h] EXCEPT !.sessions = R!Put(svc[h].sessions, id, s)]]
      \/ \E s : /\ rses' = [rses EXCEPT ![s] = [rses[s] EXCEPT !.agent_id = a, !.using_session_conn = TRUE]]
                /\ svc' = svc
  <2> DEFINE s == svc[h].sessions[a]
             v == [rses EXCEPT ![s].agent_id = a, ![s].using_session_conn = TRUE]
             w == [rses EXCEPT ![s] = [rses[s] EXCEPT !.agent_id = a, !.using_session_conn = TRUE]]
  <2>1. v = w
    OBVIOUS
  <2>2. CASE svc' = svc /\ rses' = v
    BY <2>1, <2>2
  <2>3. ASSUME NEW t, rses' = R!Put(rses, t, R!NewSession(0, a, TRUE)),
               svc' = [svc EXCEPT ![h].sessions = R!Put(@, id, t)]
        PROVE  svc' = [svc EXCEPT ![h] = [svc[h] EXCEPT !.sessions = R!Put(svc[h].sessions, id, t)]]
    BY <2>3
  <2>4. \/ UNCHANGED <<svc, rses>>
        \/ svc' = svc /\ rses' = v
        \/ \E t : /\ rses' = R!Put(rses, t, R!NewSession(0, a, TRUE))
                  /\ svc' = [svc EXCEPT ![h].sessions = R!Put(@, id, t)]
    BY DEF R!SessionConn
  <2> HIDE DEF v, w, s
  <2>5. QED
    BY <2>2, <2>3, <2>4
<1> HIDE DEF h
<1>5. CASE UNCHANGED <<svc, rses>>
  <2>1. SessionsStep
    BY <1>1, <1>3, <1>5, SessionsUntouched
  <2>2. QED
    BY <1>1, <1>2, <1>3, <1>5, <2>1, RelayUntouched DEF RelayKept, ClaimStep
<1>6. ASSUME NEW s, rses' = R!Put(rses, s, R!NewSession(0, a, TRUE)),
             svc' = [svc EXCEPT ![h] = [svc[h] EXCEPT !.sessions = R!Put(svc[h].sessions, id, s)]]
      PROVE  RelayKept({}, {a})
  <2>1. "agent_id" \in DOMAIN R!NewSession(0, a, TRUE) /\ R!NewSession(0, a, TRUE).agent_id = a
    BY DEF R!NewSession
  <2>2. Heard(a, r2a', DOMAIN claim')
    BY <1>3 DEF Heard
  <2>3. SessionsStep /\ s \in DOMAIN rses'
    BY <1>1, <1>3, <1>6, <2>1, <2>2, NewSessionStep
  <2> DEFINE r == [svc[h] EXCEPT !.sessions = R!Put(svc[h].sessions, id, s)]
  <2>4. h \in DOMAIN svc => r.sessions = R!Put(svc[h].sessions, id, s) /\ r.agents = svc[h].agents
    BY ServiceFields DEF RelayTold, ServicesOk
  <2> HIDE DEF r
  <2>5. h \in DOMAIN svc => Table(r, DOMAIN rses')
    BY <2>3, <2>4 DEF RelaySide, Table, SessionsStep, R!Put
  <2>6. ServicesStep({})
    BY <1>6, <2>3, <2>4, <2>5, OneServiceStep DEF r, SessionsStep
  <2>7. QED
    BY <1>1, <1>2, <1>3, <2>3, <2>6, RelayUntouched DEF RelayKept, ClaimStep
<1>7. ASSUME NEW s, rses' = [rses EXCEPT ![s] = [rses[s] EXCEPT !.agent_id = a, !.using_session_conn = TRUE]],
             svc' = svc
      PROVE  RelayKept({}, {a})
  <2> DEFINE r == [rses[s] EXCEPT !.agent_id = a, !.using_session_conn = TRUE]
  <2>1. s \in DOMAIN rses => "agent_id" \in DOMAIN r /\ r.agent_id = a
    BY DEF RelaySide, HearersOk
  <2> HIDE DEF r
  <2>2. Heard(a, r2a', DOMAIN claim')
    BY <1>3 DEF Heard
  <2>3. SessionsStep
    BY <1>1, <1>3, <1>7, <2>1, <2>2, OneSessionStep DEF r
  <2>4. QED
    BY <1>1, <1>2, <1>3, <1>7, <2>3, RelayUntouched DEF RelayKept, ClaimStep
<1>8. QED
  BY <1>4, <1>5, <1>6, <1>7

(* A user is accepted: whoever is told binds the port and is connected. *)
LEMMA OnUserConnectKeeps ==
    ASSUME RelayTold, RelaySide, NEW h, R!OnUserConnect(h)
    PROVE  RelayKept({}, {})
<1> DEFINE seq == svc[h].next_seq + 1
           r1 == [svc[h] EXCEPT !.next_seq = seq]
           r2 == [r1 EXCEPT !.conns = R!Put(r1.conns, seq, "open")]
           r3(X) == [r2 EXCEPT !.sessions = X]
<1>1. h \in DOMAIN svc /\ ServiceOk(svc[h]) /\ seq = 1 /\ svc[h].port = Port
  BY DEF R!OnUserConnect, R!OnAccept, R!RunningServer, R!NextSeq, ServicesOk, RelayTold, ServiceOk
<1>2. UNCHANGED <<nagents, lost, claim>> /\ DOMAIN agents' = DOMAIN agents
  BY DEF R!OnUserConnect, R!counts
<1>3. \/ svc' = [svc EXCEPT ![h] = r2] /\ UNCHANGED <<rses, r2a>>
      \/ \E a \in svc[h].agents \cap DOMAIN agents : \E s :
            /\ rses' = R!Put(rses, s, R!NewSession(seq, a, FALSE))
            /\ svc' = [svc EXCEPT ![h] = r3(R!Put(r2.sessions, seq, s))]
            /\ r2a' = r2a \cup {R!Msg("CONNECT", a, Port, 1)}
  <2> DEFINE conned == [svc EXCEPT ![h].next_seq = seq, ![h].conns = R!Put(@, seq, "open")]
  <2>1. conned = [svc EXCEPT ![h] = r2] /\ conned[h] = r2
    BY <1>1
  <2>2. \A X : [conned EXCEPT ![h].sessions = X] = [svc EXCEPT ![h] = r3(X)]
    BY <1>1, <2>1
  <2>3. \/ svc' = conned /\ UNCHANGED <<rses, r2a>>
        \/ \E i \in R!CliIndex(seq) : \E a \in R!Picked(svc[h].agents, i) : \E s :
              /\ a \in DOMAIN agents
              /\ rses' = R!Put(rses, s, R!NewSession(seq, a, FALSE))
              /\ svc' = [conned EXCEPT ![h].sessions = R!Put(conned[h].sessions, seq, s)]
              /\ r2a' = r2a \cup {R!Msg("CONNECT", a, svc[h].port, seq)}
    BY DEF R!OnUserConnect, R!NextSeq
  <2>4. \A i : R!Picked(svc[h].agents, i) \subseteq svc[h].agents
    BY DEF R!Picked
  <2>5. ASSUME NEW a, NEW s, svc' = [conned EXCEPT ![h].sessions = R!Put(conned[h].sessions, seq, s)],
               r2a' = r2a \cup {R!Msg("CONNECT", a, svc[h].port, seq)}
        PROVE  /\ svc' = [svc EXCEPT ![h] = r3(R!Put(r2.sessions, seq, s))]
               /\ r2a' = r2a \cup {R!Msg("CONNECT", a, Port, 1)}
    <3> HIDE DEF conned, r2, r3
    <3>1. QED
      BY <1>1, <2>1, <2>2, <2>5
  <2> HIDE DEF conned, r2, r3
  <2>6. QED
    BY <2>1, <2>3, <2>4, <2>5
<1> HIDE DEF r1
<1>4. ServiceOk(r1) /\ r1.agents = svc[h].agents /\ r1.sessions = svc[h].sessions
  BY <1>1, ServiceUpdates, ServiceFields DEF r1
<1>5. ServiceOk(r2) /\ r2.agents = svc[h].agents /\ r2.sessions = svc[h].sessions
  <2> DEFINE X == R!Put(r1.conns, seq, "open")
  <2> HIDE DEF X
  <2>1. LET t == [r1 EXCEPT !.conns = X] IN ServiceOk(t) /\ t.agents = r1.agents /\ t.sessions = r1.sessions
    BY <1>4, ServiceUpdates, ServiceFields
  <2>2. QED
    BY <1>4, <2>1 DEF X
<1> HIDE DEF r2
<1>6. \A X : r3(X).agents = svc[h].agents /\ r3(X).sessions = X
  BY <1>5, ServiceFields
<1> HIDE DEF r3, seq
<1>7. CASE svc' = [svc EXCEPT ![h] = r2] /\ UNCHANGED <<rses, r2a>>
  <2>1. SessionsStep
    BY <1>2, <1>7, RelayUntouched
  <2>2. Table(r2, DOMAIN rses')
    BY <1>1, <1>5, <2>1 DEF RelaySide, Table, SessionsStep
  <2>3. ServicesStep({})
    BY <1>5, <1>7, <2>1, <2>2, OneServiceStep DEF SessionsStep
  <2>4. QED
    BY <1>2, <1>7, <2>1, <2>3, RelayUntouched DEF RelayKept
<1>8. ASSUME NEW a \in svc[h].agents \cap DOMAIN agents, NEW s,
             rses' = R!Put(rses, s, R!NewSession(seq, a, FALSE)), svc' = [svc EXCEPT ![h] = r3(R!Put(r2.sessions, seq, s))],
             r2a' = r2a \cup {R!Msg("CONNECT", a, Port, 1)}
      PROVE  RelayKept({}, {})
  <2>1. "agent_id" \in DOMAIN R!NewSession(seq, a, FALSE) /\ R!NewSession(seq, a, FALSE).agent_id = a
    BY DEF R!NewSession
  <2>2. Heard(a, r2a', DOMAIN claim')
    BY <1>8 DEF Heard
  <2>3. SessionsStep /\ s \in DOMAIN rses'
    BY <1>2, <1>8, <2>1, <2>2, NewSessionStep
  <2> DEFINE r == r3(R!Put(r2.sessions, seq, s))
  <2>4. r.agents = svc[h].agents /\ r.sessions = R!Put(svc[h].sessions, 1, s)
    BY <1>1, <1>5, <1>6
  <2> HIDE DEF r
  <2>5. Table(r, DOMAIN rses')
    <3>1. Table(svc[h], DOMAIN rses') /\ s \in DOMAIN rses'
      BY <1>1, <2>3 DEF RelaySide, Table, SessionsStep
    <3>2. QED
      BY <2>4, <3>1 DEF Table, R!Put
  <2>6. ServicesStep({})
    BY <1>8, <2>3, <2>4, <2>5, OneServiceStep DEF SessionsStep, r
  <2>7. ToldStep
    <3>1. R!Msg("CONNECT", a, Port, 1).to = a
      BY DEF R!Msg
    <3>2. Member(a)
      BY <1>1 DEF Member
    <3>3. QED
      BY <1>8, <3>1, <3>2 DEF ToldStep
  <2>8. QED
    BY <1>2, <2>3, <2>6, <2>7, RelayUntouched DEF RelayKept
<1>9. QED
  BY <1>3, <1>7, <1>8

(* Data of a user. *)
LEMMA OnUserRecvKeeps ==
    ASSUME RelayTold, RelaySide, NEW h, R!OnUserRecv(h)
    PROVE  RelayKept({}, {})
<1>1. /\ UNCHANGED <<agents, nagents, lost, svc, rses, claim>>
      /\ r2a' = r2a \/ \E a, p, id : r2a' = r2a \cup {R!Msg("DATA", a, p, id)}
  BY DEF R!OnUserRecv, R!counts
<1>2. \A a, p, id : R!Msg("DATA", a, p, id).cmd # "CONNECT"
  BY DEF R!Msg
<1>3. r2a \subseteq r2a' /\ ToldStep
  BY <1>1, <1>2 DEF ToldStep
<1>4. QED
  BY <1>1, <1>3, RelayUntouched DEF RelayKept

----------------------------------------------------------------------------
(* The two sides joined.  Connections are numbered once; one with a number    *)
(* that binds or was told is a tunnel, one with a number that claims has said *)
(* SESSION; so have the messages on the way.                                  *)
Declared(c, W) == c \notin A!Tunnels /\ <<c, "SESSION", c[2]>> \in W
Announced(a) == R!Msg("CONNECT", a, Port, 1) \in r2a
NumsOk ==
    /\ \A c \in DOMAIN num : c \in Conns /\ num[c] \in 1..nagents
    /\ \A c, d \in DOMAIN num : num[c] = num[d] => c = d
    /\ \A c \in DOMAIN num \cap A!Tunnels : conn[c] \notin {"none", "connecting"}
    /\ \A c \in DOMAIN num : num[c] \in DOMAIN claim => Declared(c, wire)
    /\ \A c \in DOMAIN num : Member(num[c]) \/ Announced(num[c]) => c \in A!Tunnels
Said(c, m, W) == (m.cmd = "SESSION" => Declared(c, W)) /\ (m.cmd = "BIND" => c \in A!Tunnels)
AllSaid(c, q, W) == \E S : q \in Seq(S) /\ \A m \in S : Said(c, m, W)
UpsOk == DOMAIN up = Conns /\ \A c \in Conns : AllSaid(c, up[c], wire)

(* The messages to the agent: CONNECT comes first on a tunnel that has not    *)
(* been told, and nowhere else.  After it was sent it has arrived, is on its   *)
(* way, or was lost with the connection (Deaf), on which nothing follows.     *)
Expects(c) == c \in A!Tunnels => <<c[2], User1>> \in told
Deaf(c) == num[c] \in lost \/ num[c] \notin DOMAIN agents \/ conn[c] # "up"
Queue(q, T) ==
    /\ \E S : q \in Seq(S)
    /\ \A i \in 1..Len(q) : q[i].user = User1 /\ (q[i].cmd = "CONNECT" <=> i = 1 /\ ~T)
Told(c) == c \in DOMAIN num /\ Announced(num[c])
DownOk(c) ==
    /\ Queue(down[c], Expects(c))
    /\ down[c] # << >> /\ c \notin A!Tunnels => Declared(c, wire)
    /\ c \in A!Tunnels /\ (down[c] # << >> \/ Expects(c)) => Told(c)
    /\ c \in A!Tunnels /\ Told(c) => Expects(c) \/ down[c] # << >> \/ Deaf(c)
DownsOk == DOMAIN down = Conns /\ \A c \in Conns : DownOk(c)

(* Queues of what the agent has said. *)
LEMMA SaidQueues ==
    ASSUME NEW c, NEW q, NEW W, AllSaid(c, q, W)
    PROVE  /\ \A m : Said(c, m, W) => AllSaid(c, Append(q, m), W)
           /\ q # << >> => Said(c, Head(q), W) /\ AllSaid(c, Tail(q), W)
           /\ \A k \in 0..Len(q) : AllSaid(c, SubSeq(q, 1, k), W)
           /\ \A V : W \subseteq V => AllSaid(c, q, V)
<1>1. PICK S : q \in Seq(S) /\ \A m \in S : Said(c, m, W)
  BY DEF AllSaid
<1>2. ASSUME NEW m, Said(c, m, W) PROVE AllSaid(c, Append(q, m), W)
  <2>1. q \in Seq(S \cup {m}) /\ \A n \in S \cup {m} : Said(c, n, W)
    BY <1>1, <1>2
  <2>2. Append(q, m) \in Seq(S \cup {m})
    BY <2>1
  <2>3. QED
    BY <2>1, <2>2 DEF AllSaid
<1>3. ASSUME q # << >> PROVE Said(c, Head(q), W) /\ AllSaid(c, Tail(q), W)
  <2>1. Head(q) \in S /\ Tail(q) \in Seq(S)
    BY <1>1, <1>3
  <2>2. QED
    BY <1>1, <2>1 DEF AllSaid
<1>4. ASSUME NEW k \in 0..Len(q) PROVE AllSaid(c, SubSeq(q, 1, k), W)
  <2>1. SubSeq(q, 1, k) \in Seq(S)
    BY <1>1, <1>4
  <2>2. QED
    BY <1>1, <2>1 DEF AllSaid
<1>5. ASSUME NEW V, W \subseteq V PROVE AllSaid(c, q, V)
  <2>1. \A m \in S : Said(c, m, V)
    BY <1>1, <1>5 DEF Said, Declared
  <2>2. QED
    BY <1>1, <2>1 DEF AllSaid
<1>6. QED
  BY <1>2, <1>3, <1>4, <1>5

(* Queues of what the agent is told. *)
LEMMA ToldQueues ==
    ASSUME NEW q, NEW T \in BOOLEAN, Queue(q, T)
    PROVE  /\ q # << >> => /\ Head(q).user = User1 /\ (Head(q).cmd = "CONNECT" <=> ~T)
                           /\ Queue(Tail(q), TRUE)
           /\ \A m : m.user = User1 /\ m.cmd # "CONNECT" /\ (T \/ q # << >>) => Queue(Append(q, m), T)
           /\ \A m : Append(q, m) # << >>
           /\ \A k \in 0..Len(q) : Queue(SubSeq(q, 1, k), T) /\ (q = << >> => SubSeq(q, 1, k) = << >>)
<1>1. PICK S : q \in Seq(S)
  BY DEF Queue
<1>2. ASSUME q # << >>
      PROVE  /\ Head(q).user = User1 /\ (Head(q).cmd = "CONNECT" <=> ~T)
             /\ Queue(Tail(q), TRUE)
  <2>1. Head(q) = q[1] /\ 1 \in 1..Len(q) /\ Tail(q) \in Seq(S) /\ Len(Tail(q)) = Len(q) - 1
    BY <1>1, <1>2
  <2>2. \A i \in 1..Len(Tail(q)) : Tail(q)[i] = q[i + 1] /\ i + 1 \in 1..Len(q) /\ i + 1 # 1
    BY <1>1, <1>2
  <2>3. QED
    BY <2>1, <2>2 DEF Queue
<1>3. ASSUME NEW m PROVE /\ Append(q, m) \in Seq(S \cup {m}) /\ Len(Append(q, m)) = Len(q) + 1
                         /\ \A i \in 1..Len(q) : Append(q, m)[i] = q[i]
                         /\ Append(q, m)[Len(q) + 1] = m
                         /\ Len(q) \in Nat /\ (q = << >> <=> Len(q) = 0) /\ Append(q, m) # << >>
  <2>1. q \in Seq(S \cup {m})
    BY <1>1
  <2>2. QED
    BY <2>1
<1>4. ASSUME NEW m, m.user = User1, (m.cmd = "CONNECT" <=> q = << >> /\ ~T) PROVE Queue(Append(q, m), T)
  <2>1. \A i \in 1..(Len(q) + 1) : i \in 1..Len(q) \/ i = Len(q) + 1
    BY <1>3
  <2>2. \A i \in 1..Len(Append(q, m)) :
           /\ Append(q, m)[i].user = User1
           /\ Append(q, m)[i].cmd = "CONNECT" <=> i = 1 /\ ~T
    BY <1>3, <1>4, <2>1 DEF Queue
  <2>3. QED
    BY <1>3, <2>2 DEF Queue
<1>5. ASSUME NEW k \in 0..Len(q)
      PROVE  Queue(SubSeq(q, 1, k), T) /\ (q = << >> => SubSeq(q, 1, k) = << >>)
  <2>1. /\ SubSeq(q, 1, k) \in Seq(S) /\ Len(SubSeq(q, 1, k)) = k
        /\ \A i \in 1..k : i \in 1..Len(q) /\ SubSeq(q, 1, k)[i] = q[i]
    BY <1>1, <1>5
  <2>2. q = << >> => Len(q) = 0 /\ k = 0
    BY <1>1, <1>5
  <2>3. QED
    BY <2>1, <2>2 DEF Queue
<1>6. QED
  BY <1>2, <1>3, <1>4, <1>5

(* Every step of the system, seen from both sides: only tunnels bind, and     *)
(* only connections that have said SESSION claim.                             *)
StepKept(B, K) ==
    /\ RelayKept(B, K)
    /\ \A c \in DOMAIN num : (num[c] \in B => c \in A!Tunnels) /\ (num[c] \in K => Declared(c, wire))
RelayStep == \E B, K : StepKept(B, K)

LEMMA QuietStep ==
    ASSUME RelayTold, RelaySide
    PROVE  /\ RelayKept({}, {}) => RelayStep
           /\ UNCHANGED rvars => RelayStep
<1>1. RelayKept({}, {}) => RelayStep
  BY DEF RelayStep, StepKept
<1>2. ASSUME UNCHANGED rvars PROVE RelayKept({}, {})
  <2>1. UNCHANGED <<agents, svc, rses, lost, claim, r2a, nagents>>
    BY <1>2 DEF rvars
  <2>2. NumbersStep /\ ToldStep /\ ClaimStep({}) /\ SessionsStep
    BY <2>1, RelayUntouched
  <2>3. ServicesStep({})
    BY <2>1, <2>2, RelayUntouched
  <2>4. QED
    BY <2>2, <2>3 DEF RelayKept
<1>3. QED
  BY <1>1, <1>2

LEMMA RelayHandlesStep ==
    ASSUME Joined, RelaySide, NumsOk, UpsOk, NEW c \in Conns, RelayHandles(c)
    PROVE  RelayStep
<1> DEFINE m == Head(up[c])
           a == num[c]
           p == m.user[1]
           id == m.user[2]
<1>1. c \in DOMAIN num /\ up[c] # << >> /\ RelayTold
  BY DEF RelayHandles, Joined
<1>2. Said(c, m, wire)
  BY <1>1, SaidQueues DEF UpsOk
<1>3. \/ m.cmd = "BIND" /\ R!Bind(a, p)
      \/ m.cmd = "SESSION" /\ R!SessionConn(a, p, id)
      \/ R!Data(a, p, id) \/ R!Disconnect(a, p, id)
      \/ UNCHANGED rvars
  BY DEF RelayHandles
<1>4. \A d \in DOMAIN num : num[d] = a => d = c
  BY <1>1 DEF NumsOk
<1> HIDE DEF m, a, p, id
<1>5. CASE m.cmd = "BIND" /\ R!Bind(a, p)
  <2>1. RelayKept({a}, {})
    BY <1>1, <1>5, BindKeeps
  <2>2. c \in A!Tunnels
    BY <1>2, <1>5 DEF Said
  <2>3. StepKept({a}, {})
    BY <1>4, <2>1, <2>2 DEF StepKept
  <2>4. QED
    BY <2>3 DEF RelayStep
<1>6. CASE m.cmd = "SESSION" /\ R!SessionConn(a, p, id)
  <2>1. id = 1
    <3>1. R!MayClaim(a, p, id)
      BY <1>6 DEF R!SessionConn
    <3>2. id \in R!UserIds
      BY <1>1, <3>1, KnownToRelay
    <3>3. QED
      BY <3>2 DEF R!UserIds
  <2>2. RelayKept({}, {a})
    BY <1>1, <1>6, <2>1, SessionConnKeeps
  <2>3. Declared(c, wire)
    BY <1>2, <1>6 DEF Said
  <2>4. StepKept({}, {a})
    BY <1>4, <2>2, <2>3 DEF StepKept
  <2>5. QED
    BY <2>4 DEF RelayStep
<1>7. CASE R!Data(a, p, id) \/ R!Disconnect(a, p, id)
  BY <1>1, <1>7, QuietHandlers, CleaningHandlers, QuietStep
<1>8. QED
  BY <1>1, <1>3, <1>5, <1>6, <1>7, QuietStep

LEMMA RelayPart ==
    ASSUME Joined, RelaySide, NumsOk, UpsOk, Next
    PROVE  RelayStep
<1>1. RelayTold
  BY DEF Joined
<1>2. (RelayKept({}, {}) => RelayStep) /\ (UNCHANGED rvars => RelayStep)
  BY <1>1, QuietStep
<1>3. ASSUME NEW c \in Conns, Connection(c) PROVE RelayStep
  <2>1. CASE RelayHandles(c)
    BY <2>1, RelayHandlesStep
  <2>2. CASE Connect(c) \/ RelayLoses(c)
    BY <1>1, <1>2, <2>2, QuietHandlers DEF Connect, RelayLoses
  <2>3. CASE RelayDisconnects(c)
    BY <1>1, <1>2, <2>3, AgentGoes DEF RelayDisconnects
  <2>4. CASE AgentLoses(c) \/ AgentWrites(c) \/ AgentReceives(c)
    BY <1>2, <2>4 DEF AgentLoses, AgentWrites, AgentReceives
  <2>5. QED
    BY <1>3, <2>1, <2>2, <2>3, <2>4 DEF Connection
<1>4. ASSUME NEW h, RelayStrand(h) \/ User(h) PROVE RelayStep
  <2>1. \/ R!OnUserConnect(h) \/ R!OnUserRecv(h) \/ R!OnUserDisconnect(h)
        \/ R!CloseConn(h) \/ R!LateUserEvent(h) \/ R!UserSends(h, 1) \/ R!UserLeaves(h, 1)
    BY <1>4 DEF RelayStrand, User, UserDisconnects, UserData, UserConnects, RelayAlone
  <2>2. CASE R!OnUserConnect(h) \/ R!OnUserRecv(h)
    BY <1>1, <1>2, <2>2, OnUserConnectKeeps, OnUserRecvKeeps
  <2>3. CASE R!OnUserDisconnect(h)
    BY <1>1, <1>2, <2>3, CleaningHandlers
  <2>4. CASE R!CloseConn(h) \/ R!UserLeaves(h, 1)
    BY <1>1, <1>2, <2>4, ConnHandlers
  <2>5. CASE R!LateUserEvent(h) \/ R!UserSends(h, 1)
    BY <1>1, <1>2, <2>5, QuietHandlers
  <2>6. QED
    BY <2>1, <2>2, <2>3, <2>4, <2>5
<1>5. CASE AgentStrand
  BY <1>2, <1>5 DEF AgentStrand, AgentRecvData, AgentServiceData, AgentAlone
<1>6. ASSUME NEW s, Service(s) PROVE RelayStep
  BY <1>2, <1>6 DEF Service, AgentAlone
<1>7. CASE SendsDone
  <2>1. UNCHANGED rvars \/ \E h, s : R!SendDone(h, s)
    BY <1>7 DEF SendsDone, RelayAlone, AgentAlone
  <2>2. QED
    BY <1>1, <1>2, <2>1, CleaningHandlers
<1>8. QED
  BY <1>3, <1>4, <1>5, <1>6, <1>7 DEF Next

LEMMA AgentPart ==
    ASSUME Joined, AgentSide, Next
    PROVE  AgentKept /\ AgentSide'
<1>1. ASSUME UNCHANGED avars PROVE AgentKept /\ AgentSide'
  <2>1. UNCHANGED <<tunnel, ases, conn, astrand, io, wire>>
    BY <1>1 DEF avars
  <2>2. SessionsGrow /\ tunnel' \in 1..MaxTunnels
    BY <2>1, AgentUntouched
  <2>3. AgentKept
    BY <2>1, <2>2, AgentUntouched DEF AgentKept
  <2>4. QED
    BY <2>3 DEF AgentKept, AgentSide, SessionsGrow, ConnsKept, EventsKept, WorkKept, WireKept
<1>2. QED
  BY <1>1, AgentStepOrNone, AgentSideInductive

(* Numbers, while no connection is accepted and when one is. *)
LEMMA NumsKept ==
    ASSUME Joined, RelaySide, NumsOk, AgentKept, NEW B, NEW K, StepKept(B, K), num' = num
    PROVE  NumsOk'
<1>1. nagents \in Nat /\ nagents' \in Nat /\ nagents <= nagents'
  BY DEF Joined, RelayTold, StepKept, RelayKept, NumbersStep
<1>2. \A c \in DOMAIN num' : c \in Conns /\ num'[c] \in 1..nagents'
  BY <1>1 DEF NumsOk
<1>3. \A c \in DOMAIN num' \cap A!Tunnels : conn'[c] \notin {"none", "connecting"}
  BY DEF NumsOk, AgentKept, ConnsKept, TunnelsEnd
<1>4. \A c \in DOMAIN num' : num'[c] \in DOMAIN claim' => Declared(c, wire')
  BY DEF NumsOk, StepKept, RelayKept, ClaimStep, Declared, AgentKept, WireKept
<1>5. ASSUME NEW c \in DOMAIN num, Member(num[c])' PROVE c \in A!Tunnels
  BY <1>5 DEF NumsOk, StepKept, RelayKept, ServicesStep, Member
<1>6. ASSUME NEW c \in DOMAIN num, Announced(num[c])' PROVE c \in A!Tunnels
  <2>1. R!Msg("CONNECT", num[c], Port, 1) \in r2a'
    BY <1>6 DEF Announced
  <2>2. CASE Announced(num[c])
    BY <2>2 DEF NumsOk
  <2>3. CASE ~Announced(num[c])
    <3>1. Member(num[c])
      BY <2>1, <2>3 DEF Announced, StepKept, RelayKept, ToldStep, R!Msg
    <3>2. QED
      BY <3>1 DEF NumsOk
  <2>4. QED
    BY <2>2, <2>3
<1>7. \A c \in DOMAIN num' : (Member(num[c]) \/ Announced(num[c]))' => c \in A!Tunnels
  BY <1>5, <1>6
<1>8. QED
  BY <1>2, <1>3, <1>4, <1>7 DEF NumsOk, Member, Announced, Declared

LEMMA NumsConnected ==
    ASSUME Joined, RelaySide, NumsOk, AgentKept, NEW c \in Conns, Connect(c)
    PROVE  /\ NumsOk'
           /\ nagents' \notin 1..nagents /\ num' = A!Put(num, c, nagents')
           /\ UNCHANGED <<svc, claim, r2a, lost>>
           /\ c \in A!Tunnels => c \notin DOMAIN num
<1>1. /\ nagents \in Nat /\ nagents' = nagents + 1 /\ num' = A!Put(num, c, nagents')
      /\ UNCHANGED <<svc, claim, r2a, lost>>
      /\ conn[c] = "connecting" /\ conn' = [conn EXCEPT ![c] = "up"]
  BY DEF Joined, RelayTold, Connect, R!OnAgentConnect, A!Connected
<1>2. nagents' \notin 1..nagents /\ nagents' \in 1..nagents' /\ 1..nagents \subseteq 1..nagents'
  BY <1>1
<1>3. /\ DOMAIN num' = DOMAIN num \cup {c} /\ num'[c] = nagents'
      /\ \A d \in DOMAIN num : d # c => num'[d] = num[d]
  BY <1>1 DEF A!Put
<1>4. \A d \in DOMAIN num' : d \in Conns /\ num'[d] \in 1..nagents'
  BY <1>2, <1>3 DEF NumsOk
<1>5. \A d, e \in DOMAIN num' : num'[d] = num'[e] => d = e
  BY <1>2, <1>3 DEF NumsOk
<1>6. \A d \in DOMAIN num' \cap A!Tunnels : conn'[d] \notin {"none", "connecting"}
  <2>1. DOMAIN conn' = Conns
    BY DEF AgentKept, ConnsKept, ConnsOk
  <2>2. conn'[c] = "up" /\ \A d \in Conns : d # c => conn'[d] = conn[d]
    BY <1>1, <2>1
  <2>3. QED
    BY <1>3, <2>2 DEF NumsOk
<1>7. nagents' \notin DOMAIN claim /\ ~Member(nagents') /\ ~Announced(nagents')
  <2>1. ~Announced(nagents')
    BY <1>2 DEF RelaySide, Announced, R!Msg
  <2>2. QED
    BY <1>2, <2>1 DEF RelaySide
<1>8. wire \subseteq wire'
  BY DEF AgentKept, WireKept
<1>9. \A d \in DOMAIN num' : num'[d] \in DOMAIN claim' => Declared(d, wire')
  BY <1>1, <1>3, <1>7, <1>8 DEF NumsOk, Declared
<1>10. \A d \in DOMAIN num' : Member(num'[d]) \/ Announced(num'[d]) => d \in A!Tunnels
  BY <1>3, <1>7 DEF NumsOk
<1>11. \A d \in DOMAIN num' : (Member(num[d]) \/ Announced(num[d]))' => d \in A!Tunnels
  BY <1>1, <1>10 DEF Member, Announced
<1>12. NumsOk'
  BY <1>4, <1>5, <1>6, <1>9, <1>11 DEF NumsOk, Member, Announced, Declared
<1>13. c \in A!Tunnels => c \notin DOMAIN num
  BY <1>1 DEF NumsOk
<1>14. QED
  BY <1>1, <1>2, <1>12, <1>13

(* What the agent has said. *)
LEMMA UpsKept ==
    ASSUME Joined, AgentSide, AgentKept, UpsOk, Next
    PROVE  UpsOk'
<1>1. /\ DOMAIN up = Conns /\ wire \subseteq wire'
      /\ \A c \in Conns : AllSaid(c, up[c], wire) /\ AllSaid(c, up[c], wire')
  BY SaidQueues DEF UpsOk, AgentKept, WireKept
<1>2. up' = up => UpsOk'
  BY <1>1 DEF UpsOk, AllSaid, Said, Declared
<1>3. ASSUME NEW c \in Conns, NEW q, AllSaid(c, q, wire'), up' = [up EXCEPT ![c] = q] PROVE UpsOk'
  <2>1. DOMAIN up' = Conns /\ \A d \in Conns : AllSaid(d, up'[d], wire')
    BY <1>1, <1>3
  <2>2. QED
    BY <2>1 DEF UpsOk, AllSaid, Said, Declared
<1>4. ASSUME NEW c \in Conns, Connection(c) PROVE UpsOk'
  <2>1. CASE RelayLoses(c)
    <3>1. PICK k \in 0..Len(up[c]) : up' = [up EXCEPT ![c] = SubSeq(up[c], 1, k)]
      BY <2>1 DEF RelayLoses
    <3>2. AllSaid(c, SubSeq(up[c], 1, k), wire')
      BY <1>1, SaidQueues
    <3>3. QED
      BY <1>3, <3>1, <3>2
  <2>2. CASE RelayHandles(c)
    <3>1. up' = [up EXCEPT ![c] = Tail(up[c])] /\ up[c] # << >>
      BY <2>2 DEF RelayHandles
    <3>2. AllSaid(c, Tail(up[c]), wire')
      BY <1>1, <3>1, SaidQueues
    <3>3. QED
      BY <1>3, <3>1, <3>2
  <2>3. CASE AgentWrites(c)
    <3> DEFINE w == Head(io[c])
               x == Message(w.cmd, IF w.cmd = "BIND" THEN <<Port, 0>> ELSE ases[w.ses].user,
                            IF w.cmd = "DATA" THEN Head(ioData[c]) ELSE NoData)
    <3>1. \/ up' = up
          \/ up' = [up EXCEPT ![c] = Append(up[c], x)] /\ conn[c] \notin A!Ended \cup {"shut", "failed"}
      BY <2>3 DEF AgentWrites
    <3>2. OkWork(c, w, DOMAIN ases)
      <4>1. io[c] # << >> /\ AllWork(c, io[c], DOMAIN ases)
        BY <2>3 DEF AgentWrites, A!RunIo, AgentSide, WorkOk
      <4>2. QED
        BY <4>1, WorkQueues
    <3>3. x.cmd = w.cmd
      BY DEF Message
    <3>4. ASSUME conn[c] \notin A!Ended \cup {"shut", "failed"} PROVE Said(c, x, wire')
      <4>1. ASSUME w.cmd = "SESSION" PROVE Declared(c, wire')
        <5>1. <<c, "SESSION", w.ses>> \in wire'
          BY <2>3, <3>4, <4>1 DEF AgentWrites, A!RunIo, A!RunSend
        <5>2. c = A!SesConn(w.ses)
          BY <3>2, <4>1 DEF OkWork
        <5>3. QED
          BY <5>1, <5>2, KindsOfConns DEF Declared
      <4>2. QED
        BY <3>2, <3>3, <4>1 DEF Said, OkWork
    <3> HIDE DEF x
    <3>5. ASSUME conn[c] \notin A!Ended \cup {"shut", "failed"} PROVE AllSaid(c, Append(up[c], x), wire')
      BY <1>1, <3>4, <3>5, SaidQueues
    <3>6. QED
      BY <1>2, <1>3, <3>1, <3>5
  <2>4. CASE Connect(c) \/ AgentLoses(c) \/ RelayDisconnects(c) \/ AgentReceives(c)
    BY <1>2, <2>4 DEF Connect, AgentLoses, RelayDisconnects, AgentReceives
  <2>5. QED
    BY <1>4, <2>1, <2>2, <2>3, <2>4 DEF Connection
<1>5. ASSUME NEW h, RelayStrand(h) \/ User(h) PROVE UpsOk'
  BY <1>2, <1>5 DEF RelayStrand, User, UserDisconnects, UserData, UserConnects, RelayAlone
<1>6. CASE AgentStrand
  BY <1>2, <1>6 DEF AgentStrand, AgentRecvData, AgentServiceData, AgentAlone
<1>7. ASSUME NEW s, Service(s) PROVE UpsOk'
  BY <1>2, <1>7 DEF Service, AgentAlone
<1>8. CASE SendsDone
  BY <1>2, <1>8 DEF SendsDone, RelayAlone, AgentAlone
<1>9. QED
  BY <1>4, <1>5, <1>6, <1>7, <1>8 DEF Next

(* What stays true of a connection while it has its number. *)
LEMMA ConnStays ==
    ASSUME Joined, NumsOk, AgentKept, NEW B, NEW K, StepKept(B, K), NEW c, c \in DOMAIN num,
           c \in DOMAIN num', num'[c] = num[c]
    PROVE  /\ Told(c) => Told(c)'
           /\ c \in A!Tunnels /\ Deaf(c) => Deaf(c)'
<1>1. Told(c) => Told(c)'
  BY DEF Told, Announced, StepKept, RelayKept, ToldStep
<1>2. ASSUME c \in A!Tunnels, Deaf(c) PROVE Deaf(c)'
  <2>1. num[c] \in lost => num'[c] \in lost'
    BY DEF StepKept, RelayKept, NumbersStep
  <2>2. num[c] \notin DOMAIN agents => num'[c] \notin DOMAIN agents'
    BY DEF NumsOk, StepKept, RelayKept, NumbersStep
  <2>3. conn[c] # "up" => conn'[c] # "up"
    BY <1>2 DEF NumsOk, AgentKept, ConnsKept, TunnelsEnd
  <2>4. QED
    BY <1>2, <2>1, <2>2, <2>3 DEF Deaf
<1>3. QED
  BY <1>1, <1>2

(* A connection on which nothing is sent and nothing arrives. *)
LEMMA DownKept ==
    ASSUME Joined, NumsOk, AgentKept, NEW B, NEW K, StepKept(B, K), NEW c, DownOk(c),
           c \in DOMAIN num' <=> c \in DOMAIN num, c \in DOMAIN num => num'[c] = num[c],
           down'[c] = down[c], Expects(c)' <=> Expects(c),
           c \in DOMAIN num /\ Announced(num[c])' => Announced(num[c])
    PROVE  DownOk(c)'
<1>1. Queue(down[c], Expects(c))'
  <2>1. Queue(down'[c], Expects(c))
    BY DEF DownOk
  <2>2. QED
    BY <2>1 DEF Queue
<1>2. (down[c] # << >> /\ c \notin A!Tunnels => Declared(c, wire))'
  BY DEF DownOk, Declared, AgentKept, WireKept
<1>3. Told(c) <=> Told(c)'
  BY ConnStays DEF Told
<1>4. c \in A!Tunnels /\ Told(c) /\ Deaf(c) => Deaf(c)'
  BY ConnStays DEF Told
<1>5. (c \in A!Tunnels /\ (down[c] # << >> \/ Expects(c)) => Told(c))'
  BY <1>3 DEF DownOk
<1>6. (c \in A!Tunnels /\ Told(c) => Expects(c) \/ down[c] # << >> \/ Deaf(c))'
  BY <1>3, <1>4 DEF DownOk
<1>7. QED
  BY <1>1, <1>2, <1>5, <1>6 DEF DownOk

(* The same for all connections. *)
LEMMA DownsKept ==
    ASSUME Joined, NumsOk, DownsOk, AgentKept, NEW B, NEW K, StepKept(B, K),
           UNCHANGED <<num, down, told>>,
           \A a : R!Msg("CONNECT", a, Port, 1) \in r2a' => R!Msg("CONNECT", a, Port, 1) \in r2a
    PROVE  DownsOk'
<1>1. ASSUME NEW c \in Conns PROVE DownOk(c)'
  <2>1. (Expects(c)' <=> Expects(c)) /\ (c \in DOMAIN num /\ Announced(num[c])' => Announced(num[c]))
    BY DEF Expects, Announced
  <2>2. QED
    BY <2>1, DownKept DEF DownsOk
<1>2. QED
  BY <1>1 DEF DownsOk

(* The agent's connect completes. *)
LEMMA DownsConnected ==
    ASSUME Joined, RelaySide, NumsOk, DownsOk, AgentKept, NEW B, NEW K, StepKept(B, K), NEW c \in Conns, Connect(c)
    PROVE  DownsOk'
<1>1. /\ nagents' \notin 1..nagents /\ num' = A!Put(num, c, nagents') /\ UNCHANGED <<r2a, down, told>>
      /\ c \in A!Tunnels => c \notin DOMAIN num
  BY NumsConnected DEF Connect, A!Connected
<1>2. c \in DOMAIN num' /\ num'[c] = nagents'
  BY <1>1 DEF A!Put
<1>3. DownOk(c)'
  <2>1. ~Told(c)'
    BY <1>1, <1>2 DEF Told, Announced, RelaySide, R!Msg
  <2>2. DownOk(c) /\ (Expects(c)' <=> Expects(c)) /\ down' = down
    BY <1>1 DEF DownsOk, Expects
  <2>3. c \in A!Tunnels => down[c] = << >> /\ ~Expects(c)
    BY <1>1, <2>2 DEF DownOk, Told
  <2>4. Queue(down[c], Expects(c))'
    <3>1. Queue(down'[c], Expects(c))
      BY <2>2 DEF DownOk
    <3>2. QED
      BY <2>2, <3>1 DEF Queue
  <2>5. (down[c] # << >> /\ c \notin A!Tunnels => Declared(c, wire))'
    BY <2>2 DEF DownOk, Declared, AgentKept, WireKept
  <2>6. QED
    BY <2>1, <2>2, <2>3, <2>4, <2>5 DEF DownOk
<1>4. ASSUME NEW d \in Conns, d # c PROVE DownOk(d)'
  <2>1. /\ d \in DOMAIN num' <=> d \in DOMAIN num
        /\ d \in DOMAIN num => num'[d] = num[d]
    BY <1>1, <1>4 DEF A!Put
  <2>2. /\ down'[d] = down[d] /\ (Expects(d)' <=> Expects(d))
        /\ d \in DOMAIN num /\ Announced(num[d])' => Announced(num[d])
    BY <1>1, <2>1 DEF Expects, Announced
  <2>3. QED
    BY <2>1, <2>2, DownKept DEF DownsOk
<1>5. QED
  BY <1>1, <1>3, <1>4 DEF DownsOk

(* A message arrives at the agent. *)
LEMMA DownsReceived ==
    ASSUME Joined, AgentSide, NumsOk, DownsOk, AgentKept, NEW B, NEW K, StepKept(B, K),
           NEW c \in Conns, AgentReceives(c)
    PROVE  DownsOk'
<1> DEFINE m == Head(down[c])
<1>1. /\ down[c] # << >> /\ down' = [down EXCEPT ![c] = Tail(down[c])] /\ UNCHANGED <<num, r2a>>
      /\ \/ c = A!TunConn(tunnel) /\ A!RelaySends(m.cmd, m.user)
         \/ c \notin A!Tunnels /\ A!RelaySendsOnSession(m.cmd, c[2])
  BY DEF AgentReceives, rvars
<1>2. DOMAIN down = Conns /\ DownOk(c) /\ down'[c] = Tail(down[c])
  BY <1>1 DEF DownsOk
<1>3. Expects(c) \in BOOLEAN /\ Queue(down[c], Expects(c))
  BY <1>2 DEF Expects, DownOk
<1>4. m.user = User1 /\ (m.cmd = "CONNECT" <=> ~Expects(c)) /\ Queue(Tail(down[c]), TRUE)
  BY <1>1, <1>3, ToldQueues
<1> HIDE DEF m
<1>5. Expects(c)' /\ \A d \in Conns : d # c => (Expects(d)' <=> Expects(d))
  <2>1. CASE c = A!TunConn(tunnel) /\ A!RelaySends(m.cmd, m.user)
    <3>1. <<tunnel, User1>> \in told' /\ (told' = told \/ told' = told \cup {<<tunnel, User1>>})
      BY <1>4, <2>1 DEF A!RelaySends
    <3>2. c[2] = tunnel /\ \A d \in A!Tunnels : d[2] = tunnel => d = c
      BY <2>1, KindsOfConns DEF A!TunConn
    <3>3. QED
      BY <3>1, <3>2 DEF Expects
  <2>2. CASE c \notin A!Tunnels /\ A!RelaySendsOnSession(m.cmd, c[2])
    BY <2>2 DEF A!RelaySendsOnSession, Expects
  <2>3. QED
    BY <1>1, <2>1, <2>2
<1>6. DownOk(c)'
  <2>1. Queue(down[c], Expects(c))'
    <3>1. Queue(down'[c], TRUE)
      BY <1>2, <1>4
    <3>2. QED
      BY <1>5, <3>1 DEF Queue
  <2>2. (c \notin A!Tunnels => Declared(c, wire))'
    BY <1>1, <1>2 DEF DownOk, Declared, AgentKept, WireKept
  <2>3. (c \in A!Tunnels => Told(c))'
    BY <1>1, <1>2 DEF DownOk, Told, Announced
  <2>4. QED
    BY <1>5, <2>1, <2>2, <2>3 DEF DownOk
<1>7. ASSUME NEW d \in Conns, d # c PROVE DownOk(d)'
  <2>1. down'[d] = down[d] /\ DownOk(d) /\ (d \in DOMAIN num /\ Announced(num[d])' => Announced(num[d]))
    BY <1>1, <1>2, <1>7 DEF Announced, DownsOk
  <2>2. QED
    BY <1>1, <1>5, <1>7, <2>1, DownKept
<1>8. DOMAIN down' = Conns
  BY <1>1, <1>2
<1>9. QED
  BY <1>6, <1>7, <1>8 DEF DownsOk

(* The agent loses a connection, and with it the end of what had not arrived. *)
LEMMA DownsLost ==
    ASSUME Joined, NumsOk, DownsOk, AgentKept, NEW B, NEW K, StepKept(B, K), NEW c \in Conns, AgentLoses(c)
    PROVE  DownsOk'
<1>1. PICK k \in 0..Len(down[c]) : down' = [down EXCEPT ![c] = SubSeq(down[c], 1, k)]
  BY DEF AgentLoses
<1> DEFINE rest == SubSeq(down[c], 1, k)
<1>2. /\ DOMAIN down = Conns /\ DownOk(c) /\ down'[c] = rest /\ conn'[c] # "up"
      /\ UNCHANGED <<num, r2a, told>>
  <2>1. DOMAIN conn' = Conns /\ UNCHANGED <<num, r2a, told>>
    BY DEF AgentKept, ConnsKept, ConnsOk, AgentLoses, A!ConnFails, rvars
  <2>2. \E v \in {"shut", "failed"} : conn' = [conn EXCEPT ![c] = v]
    BY DEF AgentLoses, A!ConnFails
  <2>3. QED
    BY <1>1, <2>1, <2>2 DEF DownsOk
<1>3. Queue(rest, Expects(c)) /\ (down[c] = << >> => rest = << >>)
  <2> DEFINE q == down[c]
             T == Expects(c)
  <2>1. T \in BOOLEAN /\ Queue(q, T)
    BY <1>2 DEF Expects, DownOk
  <2> HIDE DEF q, T
  <2>2. \A i \in 0..Len(q) : Queue(SubSeq(q, 1, i), T) /\ (q = << >> => SubSeq(q, 1, i) = << >>)
    BY <2>1, ToldQueues
  <2>3. QED
    BY <1>1, <2>2 DEF q, T
<1> HIDE DEF rest
<1>4. \A d \in Conns : /\ Expects(d)' <=> Expects(d)
                       /\ d \in DOMAIN num /\ Announced(num[d])' => Announced(num[d])
  BY <1>2 DEF Expects, Announced
<1>5. DownOk(c)'
  <2>1. Queue(down[c], Expects(c))'
    <3>1. Queue(down'[c], Expects(c))
      BY <1>2, <1>3
    <3>2. QED
      BY <1>2, <1>4, <3>1 DEF Queue
  <2>2. Deaf(c)'
    BY <1>2 DEF Deaf
  <2>3. (c \in A!Tunnels /\ (down[c] # << >> \/ Expects(c)) => Told(c))'
    BY <1>2, <1>4, <1>3 DEF DownOk, Told, Announced
  <2>4. (down[c] # << >> /\ c \notin A!Tunnels => Declared(c, wire))'
    BY <1>2, <1>3 DEF DownOk, Declared, AgentKept, WireKept
  <2>5. QED
    BY <2>1, <2>2, <2>3, <2>4 DEF DownOk
<1>6. ASSUME NEW d \in Conns, d # c PROVE DownOk(d)'
  <2>1. down'[d] = down[d] /\ DownOk(d)
    BY <1>1, <1>2, <1>6 DEF DownsOk
  <2>2. QED
    BY <1>2, <1>4, <2>1, DownKept
<1>7. DOMAIN down' = Conns
  BY <1>1, <1>2
<1>8. QED
  BY <1>5, <1>6, <1>7 DEF DownsOk

(* To whom a message of the relay goes. *)
LEMMA SentTo ==
    ASSUME DownsOk, NEW m, NEW d, NEW c \in Conns, down' = Sent(m, d)
    PROVE  /\ DOMAIN down' = Conns
           /\ c \in DOMAIN num /\ num[c] = m.to /\ ~Deaf(c) =>
                 down'[c] = Append(down[c], Message(m.cmd, <<m.port, m.id>>, d))
           /\ ~(c \in DOMAIN num /\ num[c] = m.to /\ ~Deaf(c)) => down'[c] = down[c]
BY DEF Sent, Deaf

(* The relay announces a user to an agent. *)
LEMMA DownsAnnounced ==
    ASSUME Joined, NumsOk, DownsOk, AgentKept, NEW B, NEW K, StepKept(B, K),
           UNCHANGED <<num, told>>, NEW a, Member(a),
           NEW m, m = R!Msg("CONNECT", a, Port, 1), m \notin r2a, r2a' = r2a \cup {m},
           down' = Sent(m, NoData)
    PROVE  DownsOk'
<1>1. m.cmd = "CONNECT" /\ m.to = a /\ m.port = Port /\ m.id = 1
  BY DEF R!Msg
<1> DEFINE x == Message(m.cmd, <<m.port, m.id>>, NoData)
<1>2. x.cmd = "CONNECT" /\ x.user = User1
  BY <1>1 DEF Message, User1
<1> HIDE DEF x
<1>3. ASSUME NEW c \in Conns, c \in DOMAIN num, num[c] = a PROVE DownOk(c)'
  <2>1. c \in A!Tunnels /\ ~Told(c) /\ Told(c)'
    BY <1>3 DEF NumsOk, Told, Announced
  <2>2. down[c] = << >> /\ ~Expects(c) /\ Queue(down[c], Expects(c)) /\ Expects(c) \in BOOLEAN
    BY <2>1 DEF DownsOk, DownOk, Expects
  <2>3. ~Expects(c)'
    BY <2>2 DEF Expects
  <2>4. CASE Deaf(c)
    <3>1. Deaf(c)'
      BY <1>3, <2>1, <2>4, ConnStays
    <3>2. down'[c] = down[c]
      BY <2>4, SentTo
    <3>3. Queue(down[c], Expects(c))'
      BY <2>2, <2>3, <3>2 DEF Queue
    <3>4. QED
      BY <2>1, <2>3, <3>1, <3>3 DEF DownOk
  <2>5. CASE ~Deaf(c)
    <3>1. down'[c] = Append(down[c], x)
      BY <1>1, <1>3, <2>5, SentTo DEF x
    <3>2. Queue(down'[c], Expects(c)) /\ down'[c] # << >>
      <4>1. down'[c] = <<x>>
        BY <2>2, <3>1
      <4>2. <<x>> \in Seq({x}) /\ \A i \in 1..Len(<<x>>) : i = 1 /\ <<x>>[i] = x
        OBVIOUS
      <4>3. Queue(<<x>>, Expects(c)) /\ <<x>> # << >>
        BY <1>2, <2>2, <4>2 DEF Queue
      <4>4. QED
        BY <4>1, <4>3
    <3>3. Queue(down[c], Expects(c))'
      BY <2>2, <2>3, <3>2 DEF Queue
    <3>4. QED
      BY <2>1, <2>3, <3>2, <3>3 DEF DownOk
  <2>6. QED
    BY <2>4, <2>5
<1>4. ASSUME NEW c \in Conns, ~(c \in DOMAIN num /\ num[c] = a) PROVE DownOk(c)'
  <2>1. down'[c] = down[c] /\ DownOk(c) /\ (Expects(c)' <=> Expects(c))
    BY <1>1, <1>4, SentTo DEF DownsOk, Expects
  <2>2. c \in DOMAIN num /\ Announced(num[c])' => Announced(num[c])
    <3>1. \A b : R!Msg("CONNECT", b, Port, 1) = m => b = a
      BY DEF R!Msg
    <3>2. QED
      BY <1>4, <3>1 DEF Announced
  <2>3. QED
    BY <2>1, <2>2, DownKept
<1>5. DOMAIN down' = Conns
  BY DEF Sent
<1>6. QED
  BY <1>3, <1>4, <1>5 DEF DownsOk

(* The relay speaks of a user to a connection that knows of it. *)
LEMMA DownsSent ==
    ASSUME Joined, NumsOk, DownsOk, AgentKept, NEW B, NEW K, StepKept(B, K),
           UNCHANGED <<num, told>>, NEW a, Heard(a, r2a, DOMAIN claim),
           NEW cmd, cmd # "CONNECT", NEW d, NEW m, m = R!Msg(cmd, a, Port, 1),
           r2a' = r2a \/ r2a' = r2a \cup {m}, down' = Sent(m, d)
    PROVE  DownsOk'
<1>1. m.cmd = cmd /\ m.to = a /\ m.port = Port /\ m.id = 1 /\ \A b : R!Msg("CONNECT", b, Port, 1) # m
  BY DEF R!Msg
<1> DEFINE x == Message(m.cmd, <<m.port, m.id>>, d)
<1>2. x.cmd # "CONNECT" /\ x.user = User1
  BY <1>1 DEF Message, User1
<1> HIDE DEF x
<1>3. \A b : R!Msg("CONNECT", b, Port, 1) \in r2a' => R!Msg("CONNECT", b, Port, 1) \in r2a
  BY <1>1
<1>4. ASSUME NEW c \in Conns, c \in DOMAIN num, num[c] = a, ~Deaf(c) PROVE DownOk(c)'
  <2>1. DownOk(c) /\ Expects(c) \in BOOLEAN /\ (Expects(c)' <=> Expects(c))
    BY DEF DownsOk, Expects
  <2>2. /\ c \in A!Tunnels => Told(c) /\ (Expects(c) \/ down[c] # << >>)
        /\ c \notin A!Tunnels => Declared(c, wire) /\ Expects(c)
    <3>1. CASE Announced(a)
      BY <1>4, <2>1, <3>1 DEF NumsOk, DownOk, Told
    <3>2. CASE a \in DOMAIN claim
      BY <1>4, <3>2 DEF NumsOk, Declared, Expects
    <3>3. QED
      BY <3>1, <3>2 DEF Heard, Announced
  <2>3. down'[c] = Append(down[c], x)
    BY <1>1, <1>4, SentTo DEF x
  <2>4. Queue(down'[c], Expects(c)) /\ down'[c] # << >>
    <3>1. Queue(down[c], Expects(c)) /\ (Expects(c) \/ down[c] # << >>)
      BY <2>1, <2>2 DEF DownOk
    <3>2. \A y : y.user = User1 /\ y.cmd # "CONNECT" => Queue(Append(down[c], y), Expects(c))
      BY <2>1, <3>1, ToldQueues
    <3>3. \A y : Append(down[c], y) # << >>
      BY <2>1, <3>1, ToldQueues
    <3>4. QED
      BY <1>2, <2>3, <3>2, <3>3
  <2>5. Queue(down[c], Expects(c))'
    BY <2>1, <2>4 DEF Queue
  <2>6. (c \notin A!Tunnels => Declared(c, wire))'
    BY <2>2 DEF Declared, AgentKept, WireKept
  <2>7. (c \in A!Tunnels => Told(c))'
    BY <1>4, <2>2, ConnStays
  <2>8. QED
    BY <2>4, <2>5, <2>6, <2>7 DEF DownOk
<1>5. ASSUME NEW c \in Conns, ~(c \in DOMAIN num /\ num[c] = a /\ ~Deaf(c)) PROVE DownOk(c)'
  <2>1. down'[c] = down[c] /\ DownOk(c) /\ (Expects(c)' <=> Expects(c))
    BY <1>1, <1>5, SentTo DEF DownsOk, Expects
  <2>2. c \in DOMAIN num /\ Announced(num[c])' => Announced(num[c])
    BY <1>3 DEF Announced
  <2>3. QED
    BY <2>1, <2>2, DownKept
<1>6. DOMAIN down' = Conns
  BY DEF Sent
<1>7. QED
  BY <1>4, <1>5, <1>6 DEF DownsOk

(* The recipient that the relay finds for a user in its table. *)
LEMMA Recipient ==
    ASSUME Joined, RelaySide, NEW h \in DOMAIN svc, NEW id \in DOMAIN svc[h].sessions
    PROVE  LET s == svc[h].sessions[id] IN
           /\ id = 1 /\ svc[h].port = Port /\ "agent_id" \in DOMAIN rses[s]
           /\ Heard(rses[s].agent_id, r2a, DOMAIN claim)
<1>1. id = 1 /\ svc[h].sessions[id] \in DOMAIN rses
  BY DEF RelaySide, Table
<1>2. svc[h].port = Port
  BY DEF Joined, RelayTold, ServicesOk, ServiceOk
<1>3. QED
  BY <1>1, <1>2 DEF RelaySide, HearersOk

(* The steps on which the relay speaks. *)
LEMMA DownsUserConnects ==
    ASSUME Joined, NumsOk, DownsOk, AgentKept, NEW B, NEW K, StepKept(B, K), NEW h, UserConnects(h)
    PROVE  DownsOk'
<1>1. PICK m \in r2a' \ r2a : down' = Sent(m, NoData)
  BY DEF UserConnects
<1>2. R!OnUserConnect(h) /\ UNCHANGED <<num, told>>
  BY DEF UserConnects, avars
<1>3. PICK a : m = R!Msg("CONNECT", a, Port, 1)
  BY <1>1, <1>2, OnUserConnectOk DEF Joined, RelayTold
<1>4. r2a' = r2a \cup {m}
  <2>1. r2a' = r2a \/ \E x : r2a' = r2a \cup {x}
    BY <1>2 DEF R!OnUserConnect
  <2>2. QED
    BY <1>1, <2>1
<1>5. Member(a)
  <2>1. m.cmd = "CONNECT" /\ m.to = a
    BY <1>3 DEF R!Msg
  <2>2. QED
    BY <1>1, <2>1 DEF StepKept, RelayKept, ToldStep
<1>6. QED
  BY <1>1, <1>2, <1>3, <1>4, <1>5, DownsAnnounced

LEMMA DownsUserDisconnects ==
    ASSUME Joined, RelaySide, NumsOk, DownsOk, AgentKept, NEW B, NEW K, StepKept(B, K), NEW h, UserDisconnects(h)
    PROVE  DownsOk'
<1> DEFINE id == Head(rstrand[h]).seq
           s == svc[h].sessions[id]
           r == [rses[s] EXCEPT !.user_disconnected = TRUE]
<1>1. UNCHANGED <<num, told>> /\ h \in DOMAIN svc
  BY DEF UserDisconnects, avars, R!OnUserDisconnect, R!NextIs, R!RunningServer
<1>2. CASE r2a' = r2a /\ down' = down
  BY <1>1, <1>2, DownsKept
<1>3. ASSUME NEW m \in r2a' \ r2a, down' = Sent(m, NoData) PROVE DownsOk'
  <2>1. id \in DOMAIN svc[h].sessions /\ r2a' = r2a \cup {R!Msg("DISCONNECT", r.agent_id, svc[h].port, id)}
    BY <1>3 DEF UserDisconnects, R!OnUserDisconnect
  <2>2. /\ id = 1 /\ svc[h].port = Port /\ "agent_id" \in DOMAIN rses[s]
        /\ Heard(rses[s].agent_id, r2a, DOMAIN claim)
    BY <1>1, <2>1, Recipient
  <2>3. r.agent_id = rses[s].agent_id
    BY <2>2
  <2> HIDE DEF id, s, r
  <2>4. m = R!Msg("DISCONNECT", r.agent_id, Port, 1) /\ r2a' = r2a \cup {m} /\ Heard(r.agent_id, r2a, DOMAIN claim)
    BY <1>3, <2>1, <2>2, <2>3
  <2>5. "DISCONNECT" # "CONNECT"
    OBVIOUS
  <2>6. QED
    BY <1>1, <1>3, <2>4, <2>5, DownsSent
<1>4. QED
  BY <1>2, <1>3 DEF UserDisconnects

LEMMA DownsUserData ==
    ASSUME Joined, RelaySide, NumsOk, DownsOk, AgentKept, NEW B, NEW K, StepKept(B, K), NEW h, UserData(h)
    PROVE  DownsOk'
<1> DEFINE id == Head(rstrand[h]).seq
           s == svc[h].sessions[id]
           m == R!Msg("DATA", rses[s].agent_id, svc[h].port, id)
<1>1. UNCHANGED <<num, told>> /\ h \in DOMAIN svc
  BY DEF UserData, avars, R!OnUserRecv, R!NextIs, R!RunningServer
<1>2. CASE id \in DOMAIN svc[h].sessions
  <2>1. r2a' = r2a \cup {m} /\ \E d : down' = Sent(m, d)
    BY <1>2 DEF UserData, R!OnUserRecv, R!Route
  <2>2. id = 1 /\ svc[h].port = Port /\ Heard(rses[s].agent_id, r2a, DOMAIN claim)
    BY <1>1, <1>2, Recipient
  <2>3. m = R!Msg("DATA", rses[s].agent_id, Port, 1)
    BY <2>2
  <2> HIDE DEF m
  <2>4. "DATA" # "CONNECT"
    OBVIOUS
  <2>5. QED
    BY <1>1, <2>1, <2>2, <2>3, <2>4, DownsSent
<1>3. CASE id \notin DOMAIN svc[h].sessions
  <2>1. r2a' = r2a /\ down' = down
    BY <1>3 DEF UserData, R!OnUserRecv
  <2>2. QED
    BY <1>1, <2>1, DownsKept
<1>4. QED
  BY <1>2, <1>3

(* Every step keeps the messages to the agent in turn. *)
LEMMA DownsInductive ==
    ASSUME Joined, AgentSide, RelaySide, NumsOk, DownsOk, AgentKept, NEW B, NEW K, StepKept(B, K), Next
    PROVE  DownsOk'
<1>1. UNCHANGED <<num, down, told, r2a>> => DownsOk'
  BY DownsKept
<1>2. ASSUME NEW c \in Conns, Connection(c) PROVE DownsOk'
  <2>1. CASE Connect(c)
    BY <2>1, DownsConnected
  <2>2. CASE AgentLoses(c)
    BY <2>2, DownsLost
  <2>3. CASE AgentReceives(c)
    BY <2>3, DownsReceived
  <2>4. CASE RelayLoses(c) \/ RelayDisconnects(c)
    BY <1>1, <2>4 DEF RelayLoses, RelayDisconnects, R!AgentLost, R!OnAgentDisconnect, avars
  <2>5. CASE RelayHandles(c)
    <3>1. r2a' = r2a
      BY <2>5 DEF RelayHandles, R!Bind, R!SessionConn, R!Data, R!Disconnect, rvars
    <3>2. QED
      BY <1>1, <2>5, <3>1 DEF RelayHandles, avars
  <2>6. CASE AgentWrites(c)
    BY <1>1, <2>6 DEF AgentWrites, A!RunIo, rvars
  <2>7. QED
    BY <1>2, <2>1, <2>2, <2>3, <2>4, <2>5, <2>6 DEF Connection
<1>3. ASSUME NEW h, RelayStrand(h) \/ User(h) PROVE DownsOk'
  <2>1. CASE UserConnects(h)
    BY <2>1, DownsUserConnects
  <2>2. CASE UserDisconnects(h)
    BY <2>2, DownsUserDisconnects
  <2>3. CASE UserData(h)
    BY <2>3, DownsUserData
  <2>4. CASE RelayAlone(R!CloseConn(h)) \/ RelayAlone(R!LateUserEvent(h)) \/ RelayAlone(R!UserLeaves(h, 1)) \/ RelayAlone(R!UserSends(h, 1))
    BY <1>1, <2>4 DEF RelayAlone, R!CloseConn, R!LateUserEvent, R!UserLeaves, R!UserSends, avars
  <2>5. QED
    BY <1>3, <2>1, <2>2, <2>3, <2>4 DEF RelayStrand, User, RelayAlone
<1>4. CASE AgentStrand
  <2>1. UNCHANGED <<num, down, r2a>>
    BY <1>4 DEF AgentStrand, AgentRecvData, AgentServiceData, AgentAlone, rvars
  <2>2. A!RunStrand
    BY <1>4 DEF AgentStrand, AgentRecvData, AgentServiceData, AgentAlone, A!RunStrand
  <2>3. told' = told
    BY <2>2 DEF A!RunStrand, A!OnServerConnect, A!OnServerDisconnect, A!TunnelLost, A!Reconnect, A!RecvConnect,
                A!RecvData, A!RecvDisconnect, A!OnSessionConnect, A!SessionConnected, A!OnSessionDisconnect,
                A!OnUserRecv, A!OnUserDisconnect
  <2>4. QED
    BY <1>1, <2>1, <2>3
<1>5. ASSUME NEW s, Service(s) PROVE DownsOk'
  BY <1>1, <1>5 DEF Service, AgentAlone, A!ServiceConnected, A!ServiceEnds, A!ServiceSends, rvars
<1>6. CASE SendsDone
  <2>1. UNCHANGED <<num, down>>
    BY <1>6 DEF SendsDone, RelayAlone, AgentAlone
  <2>2. UNCHANGED <<told, r2a>>
    BY <1>6 DEF SendsDone, RelayAlone, AgentAlone, R!SendDone, A!SendDone, rvars, avars
  <2>3. QED
    BY <1>1, <2>1, <2>2
<1>7. QED
  BY <1>2, <1>3, <1>4, <1>5, <1>6 DEF Next

(* All of it together. *)
InTurn == AgentSide /\ RelaySide /\ NumsOk /\ UpsOk /\ DownsOk

LEMMA InTurnInductive ==
    ASSUME Joined, InTurn, Next
    PROVE  InTurn'
<1>1. AgentSide /\ RelaySide /\ NumsOk /\ UpsOk /\ DownsOk
  BY DEF InTurn
<1>2. AgentKept /\ AgentSide'
  BY <1>1, AgentPart
<1>3. PICK B, K : StepKept(B, K)
  BY <1>1, RelayPart DEF RelayStep
<1>4. RelaySide'
  BY <1>1, <1>3, RelaySideKept DEF Joined, StepKept
<1>5. NumsOk'
  <2>1. num' = num \/ \E c \in Conns : Connect(c)
    BY DEF Next, Connection, RelayLoses, AgentLoses, RelayDisconnects, AgentWrites, RelayHandles, AgentReceives,
           RelayStrand, User, UserConnects, UserDisconnects, UserData, AgentStrand, AgentRecvData,
           AgentServiceData, Service, SendsDone, RelayAlone, AgentAlone
  <2>2. QED
    BY <1>1, <1>2, <1>3, <2>1, NumsKept, NumsConnected
<1>6. UpsOk'
  BY <1>1, <1>2, UpsKept
<1>7. DownsOk'
  BY <1>1, <1>2, <1>3, DownsInductive
<1>8. QED
  BY <1>2, <1>4, <1>5, <1>6, <1>7 DEF InTurn

LEMMA InTurnInit ==
    ASSUME Init
    PROVE  InTurn
<1>1. AllEvents(<< >>, {}) /\ (\A c : AllWork(c, << >>, {}) /\ AllSaid(c, << >>, {}))
  <2>1. << >> \in Seq({})
    OBVIOUS
  <2>2. QED
    BY <2>1 DEF AllEvents, AllWork, AllSaid
<1>2. /\ tunnel = 1 /\ ases = << >> /\ astrand = << >> /\ io = [c \in Conns |-> << >>]
      /\ wire = {} /\ told = {}
      /\ conn = [c \in Conns |-> IF c = A!TunConn(1) THEN "connecting" ELSE "none"]
  BY DEF Init, A!Init, Conns
<1>3. DOMAIN ases = {}
  BY <1>2
<1>4. ConnsOk(conn, DOMAIN ases, tunnel)
  <2>1. \A n \in 1..MaxTunnels : A!TunConn(n) \in Conns /\ (n > 1 => A!TunConn(n) # A!TunConn(1))
    BY KindsOfConns
  <2>2. \A s \in A!SessionIds : A!SesConn(s) \in Conns /\ A!SesConn(s) # A!TunConn(1)
    BY KindsOfConns
  <2>3. QED
    BY <1>2, <2>1, <2>2 DEF ConnsOk
<1>5. AgentSide
  <2>1. tunnel \in 1..MaxTunnels
    BY <1>2, SystemAssumption
  <2>2. QED
    BY <1>1, <1>2, <1>3, <1>4, <2>1 DEF AgentSide, SessionsOk, WorkOk, WireOk
<1>6. /\ DOMAIN agents = {} /\ DOMAIN svc = {} /\ DOMAIN rses = {} /\ DOMAIN claim = {} /\ r2a = {}
      /\ DOMAIN num = {}
  BY DEF Init, R!Init
<1>7. RelaySide
  BY <1>6 DEF RelaySide, Member, HearersOk
<1>8. NumsOk
  BY <1>6 DEF NumsOk
<1>9. UpsOk
  BY <1>1, <1>2 DEF Init, UpsOk
<1>10. DownsOk
  <2>1. DOMAIN down = Conns /\ \A c \in Conns : down[c] = << >>
    BY DEF Init
  <2>2. ASSUME NEW c \in Conns PROVE DownOk(c)
    <3>1. Queue(down[c], Expects(c))
      <4>1. down[c] = << >> /\ << >> \in Seq({}) /\ 1..Len(<< >>) = {}
        BY <2>1
      <4>2. QED
        BY <4>1 DEF Queue
    <3>2. ~Told(c) /\ (c \in A!Tunnels => ~Expects(c))
      BY <1>2, <1>6 DEF Told, Expects
    <3>3. QED
      BY <2>1, <3>1, <3>2 DEF DownOk
  <2>3. QED
    BY <2>1, <2>2 DEF DownsOk
<1>11. QED
  BY <1>5, <1>7, <1>8, <1>9, <1>10 DEF InTurn

(* Then what comes next on a connection is what the agent may hear. *)
LEMMA InTurnIsHeard ==
    ASSUME InTurn
    PROVE  AgentHearsInTurn
<1>1. SUFFICES ASSUME NEW c \in Conns, down[c] # << >> PROVE AgentMayHear(c, Head(down[c]))
  BY DEF AgentHearsInTurn
<1> DEFINE m == Head(down[c])
<1>2. DownOk(c) /\ Expects(c) \in BOOLEAN
  BY DEF InTurn, DownsOk, Expects
<1>3. m.user = User1 /\ (m.cmd = "CONNECT" <=> ~Expects(c))
  BY <1>1, <1>2, ToldQueues DEF DownOk
<1> HIDE DEF m
<1>4. CASE c \in A!Tunnels
  BY <1>3, <1>4 DEF AgentMayHear, Expects, m
<1>5. CASE c \notin A!Tunnels
  <2>1. <<c, "SESSION", c[2]>> \in wire
    BY <1>1, <1>2, <1>5 DEF DownOk, Declared
  <2>2. ases[c[2]].user = User1
    BY <2>1 DEF InTurn, AgentSide, WireOk, SessionsOk
  <2>3. QED
    BY <1>3, <1>5, <2>1, <2>2 DEF AgentMayHear, Expects, m
<1>6. QED
  BY <1>4, <1>5

(* What the relay sends arrives in turn, for every number of tunnels,         *)
(* sessions, data and breaks: the first message of a tunnel is CONNECT, and   *)
(* there is no other; nothing of a user comes on a connection that neither    *)
(* was told of it nor has declared itself its session connection.  Agent's    *)
(* guards on what the relay sends therefore leave out no behaviour of         *)
(* __OnUserConnect, __OnUserRecv, __OnUserDisconnect and the SESSION handler. *)
THEOREM AgentAlwaysHearsInTurn == Spec => []AgentHearsInTurn
<1>1. Init => InTurn
  BY InTurnInit
<1>2. Joined /\ InTurn /\ [Next]_vars => InTurn'
  <2>1. SUFFICES ASSUME Joined, InTurn, [Next]_vars PROVE InTurn'
    OBVIOUS
  <2>2. CASE UNCHANGED vars
    <3>1. UNCHANGED <<tunnel, ases, conn, astrand, io, wire, agents, nagents, claim, svc, r2a, rses, lost,
                      num, up, down, told>>
      BY <2>2 DEF vars, rvars, avars
    <3>2. (AgentSide /\ RelaySide /\ NumsOk)'
      BY <2>1, <3>1 DEF InTurn, AgentSide, SessionsOk, ConnsOk, AllEvents, OkEvent, WorkOk, AllWork, OkWork, WireOk,
                        RelaySide, Member, HearersOk, Heard, Table, NumsOk, Announced, Declared
    <3>3. (UpsOk /\ DownsOk)'
      BY <2>1, <3>1 DEF InTurn, UpsOk, AllSaid, Said, Declared, DownsOk, DownOk, Queue, Expects, Told, Deaf, Announced
    <3>4. QED
      BY <3>2, <3>3 DEF InTurn
  <2>3. QED
    BY <2>1, <2>2, InTurnInductive
<1>3. InTurn => AgentHearsInTurn
  BY InTurnIsHeard
<1>4. QED
  BY <1>1, <1>2, <1>3, JoinedAlways, PTL DEF Spec
=============================================================================
