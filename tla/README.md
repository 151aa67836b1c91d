# A verification project for R-NAT

R-NAT makes services inside a private network reachable from the internet. A
relay (`r-nat-s`) runs on a public host; an agent (`r-nat-c`) next to the
services keeps connections to it, registers ports, and forwards the traffic of
users who connect to those ports. This directory holds TLA+ models of the two
programs, of the connections between them, of their flow control and of the two
programs together, TLC instances that check them, and proofs, checked by TLAPS,
about the relay, the agent, the connections, the flow control and the two programs
together.

## 1. Inventory

| part | code | state | operations |
|---|---|---|---|
| relay logic | `r-nat-s/app1/{tunnel,user,app1}.cpp`, `app1.h` | `agents_`, `services_`, a `ServiceInfo` per port, a `Session` per user | `__OnAgentConnect/Disconnect/Recv` (BIND, UNBIND, DATA, DISCONNECT, SESSION), `__OnUserConnect/Disconnect/Recv`, `__CleanSession` |
| user listener | `r-nat-s/network/rawtcpserver.*` | `conns_`, `next_seq_`, `inited_`, `strand_`, callbacks | `Start`, accept, `Close`, `Send`, `SendV`, `BlockRecv`, `Close(seq)` |
| agent listener | `r-nat-s/network/tcpserver.*` | the same | the same, framed |
| agent logic | `r-nat-c/app1/{tunnel,session_tunnel,user,app1}.cpp`, `app1.h` | `relays_`: per relay the tunnel and `users_`, a `Session` per user | `__OnServerConnect/Disconnect/Recv`, `__OnSessionConnect/Disconnect/Recv`, `__OnUserConnect/Disconnect/Recv`, `__CleanSession` |
| clients | `r-nat-c/network/{tcpclient,rawtcpclient}.*` | connect timer, `impl_`, callbacks | `Start`, `__OnConnect`, `__OnConnectTimeout`, `Send`, `SendV`, `Close`, destruction |
| connections | `network/{tcpconnection,rawtcpconnection}.hpp` (the same files in both programs) | `outgoing_queue_`, `sending_pkt_`, `recving_pkt_`, `blocking_recv_`, callbacks | `Send`, `SendV`, `BlockRecv`, `Close`, completion handlers |
| protocol | `include/protocol.h` | | A2R and R2A messages |
| flow control | counters and corked flags in both `Session` structs | `user_traffic_`, `tunnel_traffic_`, `*_corked_` | blocking above `queue_limit`, resuming at half of it |
| buffer pool | `__CreateIoBuffer` | `buffer_pool_`, `enable_buffer_pooling_` | take, give back |
| start-up, configuration | `main.cpp`, `server.*`, `config.*`, `deps/common` | | sequential |

**How the parts interact.** A tunnel (a framed TCP connection from agent to
relay) carries BIND for every configured port. The relay opens a listener for a
new port. A user who connects is given to one of the port's agents, which is
told with CONNECT; it connects to the local service and, in parallel, opens a
session connection to the relay, announced with SESSION, meant to replace the
tunnel for this user. DATA flows both ways; DISCONNECT tells either side that
the other end is gone. A session is dropped by `__CleanSession` once its user
and its tunnel are both marked as disconnected.

**Threads.** Both programs have one thread for `main_ioservice_`, on which
strands, acceptors and all handlers of the application logic run, and a pool of
`io_service`s with one thread each; a connection belongs to one pool thread. Pool
threads post events to a strand; handlers post sends to a pool thread. `Close()`
and `BlockRecv()` of a connection act directly from the caller's thread. No
thread catches exceptions of its handlers, so a throwing handler ends the process.

**What is hard.** Events that are already posted when the object they are for is
closed; two ends of a session and its agent going in any order with callbacks
outstanding; three tables that must agree; numbers (user, connection) used as
keys in more than one number space, and reused; reconnection while events of the
old tunnel are queued; one outstanding read and one outstanding write with
wake-ups from other threads. `PROJECT.json` lists these hazards line by line.

**What makes each part correct.**
*Relay:* its registry is consistent, listeners live as long as their services,
every accepted user is announced to a live agent, data goes to that agent,
sessions are dropped when and only when finished, lost agents are withdrawn.
*Agent:* lost tunnels are replaced, nothing of the old tunnel leaks into the new
one, sessions are closed on both sides and dropped exactly when finished, a
session connection opens with SESSION.
*Connections:* a FIFO channel, callbacks in queue order, at most one read after
blocking, no lost wake-up.
*Flow control:* the counters never go below zero, and a source that was stopped is
resumed.
*Both together:* each program does only what the other one expects, data reaches
the other end, a port is served again after its tunnel was lost, and the two ends
agree in the end that a session is over.

## 2. Modules

| module | models | used by |
|---|---|---|
| `Relay` | relay logic and the tables and strand of `RawTcpServer` | `MCRelay`, `RelayProofs`, `System` |
| `RelayProofs` | theorems about the registry and the listeners of `Relay` | `RelaySessionProofs` |
| `RelaySessionProofs` | theorems about the sessions of `Relay` | |
| `Agent` | agent logic over `TcpClient` and `RawTcpClient` | `MCAgent`, `AgentProofs`, `System` |
| `AgentProofs` | theorems about `Agent`, whatever numbers the relay gives | `AgentTunnelProofs` |
| `AgentTunnelProofs` | theorems about `Agent` when the relay does not reuse numbers | |
| `TcpConnection` | one direction of a `TCPConnection` or `RawTCPConnection` | `MCTcpConnection`, `TcpConnectionProofs` |
| `TcpConnectionProofs` | lemmas on `FlattenSeq`, for every sequence; theorems about the two ends of `TcpConnection`, taken apart | `TcpFramingProofs` |
| `TcpFramingProofs` | theorems about the stream between them; the refinement | |
| `FifoChannel` | what a connection promises | `TcpConnection` (refinement) |
| `FlowControl` | `queue_limit` of one session, in either program | `MCFlowControl`, `FlowControlProofs` |
| `FlowControlProofs` | theorems about `FlowControl` | |
| `System` | relay and agent, with the connections between them | `MCSystem`, `SystemProofs` |
| `SystemProofs` | theorems about the two programs together | |
| `MC*` | sets for the instances; a `.cfg` per run | |

### Relay
`agents`, `services`, `svc` and `ses` are the program's tables; `ServiceInfo` and
`Session` objects are shared by pointer in the code and have an identity here.
`strand[h]` is the queue of work posted to the strand of RawTcpServer `h`: user
events from pool threads and `Close(seq)`. A handler is one step, because all
handlers run on one thread; `strand_.wrap` runs `__OnUserConnect` inline in
`__OnAccept`. `pending` holds the callbacks of sends that are under way; a
callback may come at any time or never. `crashed` records the exceptions that end
the process: `acceptor->bind` on a port in use, and the empty callbacks called by
an event that was posted before `RawTcpServer::Close()`. `r2a` and `claim` are
histories: what agents were told, and which connections declared SESSION. Agents
are the environment, held to what r-nat-c does: they speak of a user only when
told of it (`Knows`), and a session connection is a fresh connection of an agent
that was told CONNECT, one for each CONNECT (`MayClaim`). What an agent had sent may be
handled after its end: `TCPConnection::__Shutdown` clears `on_disconnect` only, so a
message that was read, or is still in the socket, when a write fails is delivered
after `on_disconnect`. BIND, DATA and SESSION look the agent up and do nothing then;
DISCONNECT does not and takes effect (`Disconnect`). `System` shows that r-nat-c keeps
to this. Left out: acknowledgements of BIND and UNBIND, which the
agent only prints, and the traffic counters (see `FlowControl`).

### Agent
One `RemoteInfo`; `relays_` holds independent ones. `conn` has the state of every
framed connection and `serv` of every connection to a service, with the
intermediate states that matter: "late" (the timer fired, `__OnConnect` is still
to come), "failed" (the connect came to nothing), "shut" (was up, its end has been
reported, but what arrived before still goes to `on_recv`: `Delivers`) and "closing"
(closed before `__OnConnect`). `strand` is the queue of
`strand_`, `io[c]` the sends posted to connection `c`, `pending` the callbacks.
The service is chosen among several endpoints in the code; here it is one. The
relay is the environment: it announces users, never twice on one tunnel, and
speaks of users it announced, on a session connection only of its own user
(`System` shows that r-nat-s keeps to this). Messages of the tunnel arrive until the
lambda posted by `__OnServerDisconnect` replaces its `TcpClient`, so also when the
users of the tunnel have been dropped already; a CONNECT handled then makes a session
that is marked `late` (a note for the properties: the code has no such field). With `IdsRestart` it reuses numbers on the next
tunnel, which happens when this agent was the port's last and the listener was
made anew; as long as another agent keeps the port bound, numbers go on. `System`
sets it, the runs of `Agent` do not: see `SpeaksOnOwnConnections` in section 4. `crashed` is "sendv" when `__SendV` calls the `on_allocbuf` that
`Close()` cleared, "late connect" when `__OnConnect` of a framed connection does;
`RawTCPConnection::Close()` keeps `on_allocbuf`, so that a late connect to a service
only finds its socket shut.

### TcpConnection
Bytes carry their origin (message, buffer, position); a length header is one item.
The sending end has the posted messages, the queue of packets with their
callbacks, and the packet in flight, of which the socket takes any part at a time.
The receiving end has the posted `__Start`, the outstanding read, `blocking_recv_`
and the posted `__DoRecv`s. `Close` at either end clears the callbacks at once, from
another thread; `Fails` loses a suffix of what is on its way. `kind` is chosen in
`Init`: "raw", "framed", or "defragmented" (framed, one packet per message);
`NoDelay` and `MaxPacket` are the settings of the same names. (`TcpClient::Start`
does not pass `defragment_` and `nodelay_` on to its connection, so only the relay
ever defragments.) `crashed` is "sendv" and "read" where a framed connection calls
the cleared `on_allocbuf`, "option" where `set_option` throws on a closed socket.

### FlowControl
One `Session` of the relay or of the agent (`side`), with its two directions. A
direction has a source (the peer's messages `left`, the outstanding read, the flag
`blocking_recv_` and a posted `__DoRecv`), a handler on the main thread and a send
callback on the thread of the sink. The handler counts, tests, sets the flag, calls
`BlockRecv(true)` and sends; the callback discounts, tests, clears the flag and calls
`BlockRecv(false)`. Each access to the shared counter and flag is a step of its own.
The relay's `BlockRecv` and `Send` go through the strand of their server; the
agent's clients act on the connection at once. `Tested` is the counter that the
callback compares: the relay compares `tunnel_traffic_` in both directions
(`user.cpp:112`). Callbacks of one direction run on one thread; after a switch from
the tunnel to a session connection there can be two, which is left out. In the
agent the source of the direction "tunnel" is the session connection, which is what
`BlockRecv` acts on; data of the same session may also come over the tunnel, where
nothing stops it (`ArrivesOverTunnel`).

### System
The variables of `Relay` and of `Agent`, and what joins them: `num` is the relay's
number of every connection of the agent, `up[c]` and `down[c]` are the messages on
their way over connection `c`, in order (`TcpConnection` shows that a connection is
such a channel). Every step is an action of one of the two modules, or of both
(`Connect`), conjoined with what it puts into or takes out of a channel; where
`Relay` or `Agent` alone accepts any input its environment assumption allows, here
it gets the message that is at the head of a channel, so that a message the other
module did not expect would be stuck there; `RelayHearsItsAgents` and
`AgentHearsInTurn` say that there is none. Each end notices the end of a connection on its own. When an end is noticed, any
rest of what was on its way to that end is lost, and what is left is still delivered,
before or after the end has been handled (`RelayLoses`, `AgentLoses`,
`RelayDisconnects`, `AgentReceives`); at the agent, until the connection is closed.
What a relay that has forgotten the agent or the session passes over is `PassedOver`. A datum is tagged with the listener or the session it was read at;
`toUser` and `toService` record where it was passed on, and over which connection.
One service port and one user per listener; listeners and sessions are made anew
after a reconnection. Connect timeouts are left to `agent_sessions`.

## 3. Runs

Passing runs:

| run | instance | properties |
|---|---|---|
| `relay_registry` | 2 agents, 2 ports, 2 services ever, 2 users per listener, all commands but DATA | `TypeOK`, `RegistryInv`, `ListenerInv`, `AcceptedUserHasAgent`, `LostAgentIsWithdrawn` |
| `relay_sessions` | 2 agent connections, a free and a busy port, 2 users, load policy ip, commands BIND, DATA, DISCONNECT, SESSION | `NoFinishedSessionKept`, `DataToOwnAgentOrNamesake`, `SessionsDroppedOnlyWhenFinished` |
| `agent_sessions` | 1 user, 2 tunnels, every input | `TypeOK`, `SessionComesFirst`, `SpeaksOnOwnConnections`, `TunnelIsReplaced` |
| `agent_two_users` | 2 users, 2 tunnels, DISCONNECT from the relay | `NoConnectionForgotten`, `NoFinishedSessionKept`, `SessionsDroppedOnlyWhenFinished` |
| `tcp_connection` | every kind; 2 messages of 1 or 2 buffers of 0 or 2 bytes, limit 2, raw reads of up to 2 | `TypeOK`, `BlockedReadsAtMostOne`, `CallbacksFollowTheQueue`, `DeliversInOrder`, `NothingStuck` |
| `flow_control` | both programs, limit 2, loads 5/1, 1/5 and 2/2, sinks that fail | `TypeOK`, `StoppedSourceIsResumed`, `StopIsLifted` |
| `system_ends` | 1 tunnel, 1 session, 1 datum of the service, 1 break, user and service leave | `RelayHearsItsAgents`, `AgentHearsInTurn`, `EndedSessionIsForgotten`, `ServiceDataIsRelayed` |
| `system_reconnect` | 2 tunnels, 2 sessions, 1 datum of a user, 1 break, nobody leaves | `RelayHearsItsAgents`, `AgentHearsInTurn`, `ConnectionFeedsItsSessions`, `ServedAgain`, `UserDataIsRelayed`, `ImplementsRelay`, `ImplementsAgent` |

Runs that find a disagreement between the code and what the repository says of it:

| run | shows |
|---|---|
| `relay_crosswire` | SESSION looks up the session under the number of the connection instead of the user's; when the numbers coincide it moves somebody else's session, whose data then goes to an agent that does not know it. |
| `agent_sendv` | Data of a service that arrives after its session connection was closed goes to `__SendV`, which calls the cleared `on_allocbuf`; the agent ends. |
| `flow_stalled` | The relay resumes a user by the counter of the other direction: when data for the user is outstanding as the last callback of the user's data runs, the user stays blocked for ever. |
| `system_renumbered` | The tunnel is lost and replaced; the new listener numbers users from 1. Data of the old user's service, still on its way over the old session connection, goes to the new user. |

The models also contain, without a run that asks about them:
- a user's event that was posted before the last agent of its port left calls the
  emptied callbacks and ends the relay (`LateUserEvent`);
- A2R DISCONNECT does not close the user's connection, which stays open until the
  user leaves (`Disconnect`);
- when an agent with two ports disconnects, the finished session of one port takes
  the live session with the same number of the other with it
  (`OnAgentDisconnect`; this is why `relay_sessions` has one free port, and why
  `DroppedSessionsAreFinished` asks for one port each);
- BIND on a port in use ends the relay (`Bind`);
- a SESSION that finds nothing, which is the usual case, stores a second session with
  number 0, which `__CleanSession` can never remove: it stays in the service until the
  listener goes (so `NoFinishedSessionKept` speaks of the sessions that
  `__OnUserConnect` makes, which have their user's number);
- a CONNECT of a dead tunnel that is handled after `users_.clear()` makes a session
  that outlives its tunnel: no DISCONNECT will ever come for it, until its session
  connection is ready it speaks on the next tunnel, and if that announces a user of the
  same number, the CONNECT is ignored and the data of the new user is fed to the old
  session (`late`; `SpeaksOnOwnConnections`, `ConnectionFeedsItsSessions` and
  `EndedSessionIsForgotten` name this exception and no other);
- a connect or a read that completed before `Close()`, and a `__Start` that runs
  after it, end the process (`ConnectedLate`, `DoRecv`, `Start`);
- with reused numbers the late send callback of an old session, which cleans by key,
  erases the new session of the same number; its connections stay open, and what
  its service sends after the next reconnection goes out on a tunnel that never
  announced it (three tunnels and two sessions are needed; this is why
  `agent_sessions` and `agent_two_users` do not reuse numbers);
- with a limit of 2 or more, two callbacks between `corked = true` and
  `BlockRecv(true)` resume the source before it is stopped: the flag is clear, and the
  source stays blocked (`StopIsLifted` speaks of a source that is stopped while its flag
  is set);
- when a source has been stopped, what it had read and posted before is still counted:
  `BlockedReadsAtMostOne` bounds what a connection delivers, not by how much a counter
  may exceed `queue_limit`;
- the agent limits what comes over the session connection only, not what comes over
  the tunnel (`ArrivesOverTunnel`);
- with two breaks in `System`, the late BIND of a half-open old tunnel lets a user's
  data reach the wrong service as well.

**Bounds.** Every bound is a constant that appears in a guard. `MaxAgents`,
`MaxUsers`, `MaxServices`, `MaxSessions`, `MaxTunnels` and `MaxMessages` limit how
many of each are ever made: two agents and two services let a port be shared, left
by one agent, dropped and bound again; two users let one leave while the other
stays; two agent connections are a tunnel and its session connection, or two tunnels;
two tunnels let one replace the other with events of the first still queued. `MaxEvents` and `MaxWork` limit queue lengths: one event is enough to be
overtaken by a close, two to have data followed by a disconnect. Where a run
leaves an input out (`Commands`, `Inputs`) another one has it. `MaxWakes = 1`
together with the wake-up in progress lets unblocking overlap blocking. Five
messages against a limit of 2 let a direction be stopped and resumed twice, and the
other direction have data outstanding at the same time; `MaxPosted` bounds the
data, not the `BlockRecv` and `Send`, that wait in a strand. In `System`, one break is
enough to lose a message with its connection, to have either end notice first, and to
deliver what had arrived when the end has been handled;
`Leaving` separates the question how sessions end from the question what a lost
tunnel does, whose product is too large. Deadlock
is not checked: a bounded environment runs out of inputs, and a process that has
ended does nothing more.

**Fairness.** Relay: `on_disconnect` of a lost agent and the work of each strand
are run, since the thread of `main_ioservice_` runs what is posted. Agent: the
strand and the work posted to a connection. TcpConnection: the posted handlers
and the progress of a socket that is up. FlowControl: both threads run, a peer with
something to send sends it when it is read, and a sink that has not failed takes
what it is given. System: both programs run what is posted, connects to the relay
complete, connections deliver, and each end notices that the other is gone (TCP
keep-alive, `__SetOpt`); breaks and send callbacks are not obliged to happen. Nothing is assumed of users, services,
peers, callers of `Send` and `BlockRecv`, nor of send callbacks.

**Refinement.** `DeliversInOrder` is `FifoChannel!Spec` with `sent` mapped to the
bodies of the messages given to `Send` (framed) or to their concatenated bytes
(raw) and `got` to what `on_recv` was given. `ImplementsRelay` and `ImplementsAgent`
are `Relay!Spec` and `Agent!Spec` of the composition: the variables of each program are
kept in `System`, and every step of the two together is, for each of them, one of its
own steps or none.

## 4. Proofs

All theorems hold for all values of the constants that satisfy the
`ConstantsAssumption` of the module, `SystemAssumption` for `System` (bounds are
natural numbers, settings and sets of inputs are in range; nothing is assumed of
`Ports`, `Users` or the messages sent). Those of `AgentTunnelProofs` also assume
`~IdsRestart`; those of `RelaySessionProofs` have the hypotheses in the table, on the
behaviour and on `Commands`.

| module | theorem | statement |
|---|---|---|
| `RelayProofs` | `TypeCorrect` | `Spec => []TypeOK` |
| | `RegistryCorrect` | `Spec => []RegistryInv` |
| | `ListenerCorrect` | `Spec => []ListenerInv` |
| | `EveryUserIsServed` | `Spec => AcceptedUserHasAgent` |
| `RelaySessionProofs` | `DataGoesToOwnAgentOrNamesake` | `Spec => []DataToOwnAgentOrNamesake` |
| | `DataGoesToOwnAgent` | no SESSION takes over the session of another user: `Spec => []DataToOwnAgent` |
| | `FinishedSessionsAreDropped` | no UNBIND, or one port: `Spec => []NoFinishedSessionKept` |
| | `DroppedSessionsAreFinished` | no SESSION takes over a session; no UNBIND; each agent has one port: `Spec => SessionsDroppedOnlyWhenFinished` |
| `FlowControlProofs` | `FlowTypeCorrect` | `Spec => []TypeOK` (the counters never go below zero) |
| | `CountersCountMessages` | `Spec => []CountersExact` |
| | `StoppedIsResumed` | `Spec => []StoppedSourceIsResumed` |
| `AgentProofs` | `AgentTypeCorrect` | `Spec => []TypeOK` |
| | `SessionIsFirst` | `Spec => []SessionComesFirst` |
| | `FinishedSessionsGo` | `Spec => []NoFinishedSessionKept` |
| `AgentTunnelProofs` | `NothingForgotten` | `~IdsRestart`: `Spec => []NoConnectionForgotten` |
| | `SpeaksOnItsOwn` | `~IdsRestart`: `Spec => []SpeaksOnOwnConnections` |
| | `DroppedWhenFinished` | `~IdsRestart`: `Spec => SessionsDroppedOnlyWhenFinished` |
| `TcpConnectionProofs` | `BlockedReadsOnce` | `Spec => []BlockedReadsAtMostOne` |
| | `CallbacksFollow` | `Spec => []CallbacksFollowTheQueue` |
| `TcpFramingProofs` | `ConnectionTypeCorrect` | `Spec => []TypeOK` |
| | `ConnectionIsFifo` | `Spec => DeliversInOrder` (refinement of `FifoChannel`) |
| `SystemProofs` | `SystemImplementsRelay` | `Spec => ImplementsRelay` |
| | `SystemImplementsAgent` | `Spec => ImplementsAgent` |
| | `AgentAlwaysHearsInTurn` | `Spec => []AgentHearsInTurn` |

**Relay.** `TypeOK` is inductive, because it bounds every pointer by the number of
objects made so far and objects are never destroyed; the lemmas on maps say that
insertion and erasure keep a table's type and that a table keeps it when a new
object appears. `RegistryInv` is not inductive by itself: when the last agent of a
port goes, that its listener is the one in `services_` is needed, and for that
`ListenerInv`; when a service is made, that its identity is new, and for an agent
that connects, that its number is new. So the invariant proved is `RegistryIInv`,
the conjunction of `TypeOK`, `AgentsNumbered`, `RegistryInv` and `ListenerInv`.
Most actions touch neither ports, agents of services nor listeners
(`RegistryKept`), and one lemma serves them all; `BIND`, `UNBIND` and the loss of
an agent are proved separately. `EveryUserIsServed` then shows that none of the
early returns of `__OnUserConnect` is taken: the set of agents is not empty, the
index modulo its size picks a member, and that member is in `agents_`.

**Sessions of the relay.** All theorems allow SESSION as r-nat-c sends it, and
messages of agents that are gone. The usual SESSION makes a second session, of number 0,
under the user's key; the properties about dropping speak of the session that
`__OnUserConnect` made. What a theorem excludes beyond that breaks its property (TLC
finds a violation without it), and is either not sent by r-nat-c (UNBIND), a matter of
configuration (two ports), or the lookup under the wrong number (`TakesOver`), which is
the code's flaw of `relay_crosswire`.
- `DataGoesToOwnAgentOrNamesake` (from `OwnAgentOrNamesake`: the agent of every session in
  a table was told of its user, is another connection of the agent that was, or is a
  session connection with the user's number) needs nothing; `DataGoesToOwnAgent` drops the
  last case and excludes `TakesOver`. So that lookup is the only way to forward a user's
  data to a stranger.
- `FinishedSessionsAreDropped` (from `KeyIsSeq`, `UniqueHome` and `PortsListed`: the key
  of a session is its number or the number is 0, a session is in one service, and that
  service's port is listed with its agent). With several ports it excludes UNBIND: after
  it the sessions of that port are marked, but not found, when the agent goes.
- `DroppedSessionsAreFinished` (from `KeyIsSeq`, `TableHome`, `PendingHome` and
  `AgentHome`: whoever holds a session with a number, that is a table, a callback or an
  agent, finds under that number in the service it belongs to that very session, the one
  that SESSION made for the same user, or nothing, because numbers are not handed out
  twice; and the connection of a marked session's user is gone). With two ports per agent
  the same numbers exist twice; with `TakesOver` a session with a number belongs to a
  connection that outlives the listener, and the end of that connection erases whoever
  has the number at the next listener.

**Flow control.** That a counter stays a natural number says nothing that a step
could use; `CountersExact` does: each counter equals the number of messages that
were counted and not yet discounted (with the handler, posted in a strand, at the
sink). So a callback never finds its counter at zero, and when the handler sets the
flag its own message is still counted, which is what `StoppedSourceIsResumed` needs.
`CorkedNeedsLimit` (nothing is corked with limit 0) excludes a limit at which the
resuming test could never be true.

**Agent.** `Shape` is `TypeOK` with every reference in queues and tables restricted to
sessions made so far. `SessionComesFirst` needs `SessionNext`: on a session
connection with nothing written, SESSION is at the head of what is posted, or
nothing is posted and `session_ready_` is not set, or nothing will be written any
more. `NoFinishedSessionKept` needs only that `users_` has sessions under the number
of their user, and holds with reused numbers too.

The other three need the order of events in the strand (`Order`): the end of the
tunnel is in it at most once and only when the tunnel has ended (`EndsInOrder`); while
the lambda that makes the next tunnel waits, `users_` has only sessions whose CONNECT
came too late, and behind the lambda are only events of their services. CONNECT may
still follow the end of its tunnel, because `__Shutdown` leaves `on_recv` alone; a
session made then is `late`, and keeps that mark. So whatever is handled when a session
is looked up belongs to the tunnel of that time or to a late session (`OfThisTunnel`),
and what is posted to a connection is of that connection or of a late session (`Own`).
`NothingForgotten` and `DroppedWhenFinished` need no exception for late sessions.
Without `~IdsRestart` the three are false: the counterexample is described in section 3.
The hypothesis is a condition on the deployment that the code meets as long as
another agent of the port stays bound (`r-nat-s/app1/tunnel.cpp` drops listener and
numbering with the last agent only), and does not meet otherwise.

**Connections.** `BlockedReadsAtMostOne` needs that after the one delivery no read is
outstanding (`BlockIInv`). For `CallbacksFollowTheQueue` the packets of the queue get
numbers (`Numbers`): a function that starts after the messages called back, grows by
one after each packet that carries a callback, ends with the messages taken, and
says of which message a packet's bytes are at the earliest.
`ConnectionIsFifo` rests on `Stream`: what has arrived and was not read (`net`),
followed by what is in flight, queued and not yet taken by `__Send` (`Out`), is what
the messages after the last one delivered look like on the wire; between header and
body, the rest of the current message. When the connection has failed or was
closed, what has arrived is a prefix of that. Hence a header is read where a header
was written, its length is that of the next message, and `on_recv` is given that
message; in a raw connection, that the bytes given are a prefix of the bytes sent.
Each of these forms was first checked by TLC on the instance of `tcp_connection`.

`TcpConnection` joins buffers with `FlattenSeq`, whose definition is recursive. Facts
about it for every sequence (at the start of `TcpConnectionProofs`) are proved without an induction
theorem: the set of lengths at which the fact fails has a least element (`NatMin`,
from the well-foundedness of `<`), and one element less contradicts it. That the
recursive function exists at all is shown in the same way (`PrefixesExist`).

**The two programs together.** `System` takes only those steps of `Relay` and `Agent`
for which both sides agree. That each is still a step of its module needs an invariant
about what is in the channels and tables (`Joined`): the one service port and the one
user number of a listener in everything the relay was told and has told, and commands
that the receiver knows in every channel. `SystemImplementsRelay` and
`SystemImplementsAgent` then carry over what `RelayProofs`, `RelaySessionProofs` and
`AgentProofs` prove. (The substitution of the variables is the identity up to names;
tlapm 1.4.5 cannot cite a theorem of an instanced module, so the conclusions are not
restated here.)

`AgentAlwaysHearsInTurn` is the relay's half of what the two assume of each other. Its
invariant has five parts, each kept by every step:
- `AgentSide`: what is posted in the agent and written to its sockets is of sessions it
  has, and SESSION of a session is posted to that session's connection only;
- `RelaySide`: every session in the relay's tables has an `agent_id_` to which the relay
  sent CONNECT or which has said SESSION, and numbers are given out in order;
- `NumsOk`: a number belongs to one connection; one that binds, or that was told, is a
  tunnel, and one that has said SESSION is a session connection that did say it;
- `UpsOk`: the same of what is still on its way to the relay;
- `DownsOk`: on a tunnel, CONNECT is the first message and there is no other; once it
  was sent it has arrived, or something is on its way, or the connection is lost for
  good and nothing more is sent on it; what is left of a queue after a loss is the
  beginning of it, and CONNECT is still first. On a session connection there is something only
  after SESSION.

The last case is the one that matters: a message that was lost with its connection
must not be followed by one that arrives, so that a connection never comes up twice
(`TunnelsEnd`) and a number never returns to `agents_` (`NumbersStep`) belong to what
every step keeps. Each step of the system is reduced to what it leaves of the relay
(`RelayKept`, with the connections that bind or claim in it) and of the agent
(`AgentKept`), so that the handlers are looked at one by one only once.

**Only model-checked.** Liveness (`LostAgentIsWithdrawn`, `TunnelIsReplaced`,
`NothingStuck`, `StopIsLifted`, `EndedSessionIsForgotten`, `ServiceDataIsRelayed`,
`UserDataIsRelayed`, `ServedAgain`): fairness and ENABLED are beyond the prover.
`RelayHearsItsAgents` and `ConnectionFeedsItsSessions` of `System` hold on its
instances only and are false for larger constants: with three tunnels and two sessions
the agent's late send callback erases a session with a reused number, and the relay
later hears of a user on a tunnel that it never announced there; with two breaks, data
of an old connection reaches a session of the new tunnel (section 3). With one break
the only such sessions are the late ones, which `ConnectionFeedsItsSessions` names.

## 5. Not modelled

Start-up, configuration and the XML serializer (sequential, no state of their own
afterwards; that `hardware_concurrency()` may be 0 and that the `const char*` thrown
on a failed `Init` is not caught are seen by reading); `Stop()` (no caller in the
programs' life); the buffer pool (a free list of interchangeable buffers under one
lock, emptied by nobody but `Stop()`); failed accepts; the choice among several
endpoints of one service; byte layout of messages; the data race inside `std::map`
when `__CleanSession` runs on a pool thread; wrap-around of 32-bit numbers; logging;
the vendored asio, rapidxml and liblogger. With these left out for the reasons given,
no part of the programs that keeps state over time is without a module.

## 6. Plan

1. Done: `Relay`, `Agent`, `TcpConnection` with `FifoChannel`, and the proofs about
   the relay's registry. Order: the relay's tables carry the whole service, so they
   came first; then the agent, which has the retries and timeouts; then the
   connections both rest on.
2. Done: `FlowControl`, and `System`, which composes relay and agent and discharges
   what each assumes of the other.
3. Done, proofs: the counters of `FlowControl` for every limit; the agent's shape, the
   order of SESSION, and, without reused numbers, where it speaks and when sessions go;
   `TcpConnection` refines `FifoChannel`.
4. Done, proofs: the sessions of `Relay` under the hypotheses that make them true;
   `System` implements `Relay` and `Agent`, and what the relay sends arrives in turn for
   any number of tunnels, sessions and breaks.
5. Left: `RelayHearsItsAgents` under the condition that user numbers are not reused
   (then `SpeaksOnItsOwn` gives it for DATA and DISCONNECT, `SessionIsFirst` for SESSION),
   which needs a second listener or agent that keeps the port bound in `System`.
