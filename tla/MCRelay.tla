------------------------------ MODULE MCRelay ------------------------------
(* Instances of Relay for TLC: the sets of ports and of optional commands.  *)
EXTENDS Relay

OnePort == {8001}
TwoPorts == {8001, 8002}
FreeAndBusyPort == {8001, 9000}
BusyPort == {9000}
NoPort == {}
Hashes == {0, 1}

(* r-nat-c sends BIND, DATA, DISCONNECT and, on session connections, SESSION; *)
(* UNBIND is in the protocol and handled by the relay.                        *)
RegistryCommands == {"BIND", "UNBIND", "DISCONNECT", "SESSION"}
SessionCommands == {"BIND", "DATA", "DISCONNECT", "SESSION"}
=============================================================================
