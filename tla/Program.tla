------------------------------ MODULE Program ------------------------------
(***************************************************************************)
(* app/main.cpp: the options choose one of the two proxies, which is made, *)
(* started and run on the default loop.                                    *)
(***************************************************************************)
EXTENDS TcpProxy

CONSTANTS
  ClientHost, ClientPort, ServerIp, BadIp, Local, PortText, PortRange,
  FrontIp, FrontPort, NoText, MaxSockets, MaxInFlight

ASSUME PortAssumption ==
  /\ PortText \subseteq Nat /\ ClientPort \subseteq Nat
  /\ PortRange \in Nat \ {0}
ASSUME LimitAssumption == MaxSockets \in Nat /\ MaxInFlight \in Nat
ASSUME AddressAssumption ==
  /\ BadIp \notin ServerIp
  /\ <<FrontIp, FrontPort>> \notin ClientHost \X ClientPort

VARIABLES
  mode,   \* args_t::mode
  server, agents, reading, net, got   \* of the UdpProxy

udpVars == <<server, agents, reading, net, got>>
allVars == <<mode, proxyVars, udpVars>>

Udp == INSTANCE UdpProxy WITH session <- agents

ProgramInit ==
  /\ mode \in {"tcp", "udp"}
  /\ ProxyInit
  /\ Udp!Init

ProgramNext ==
  /\ \/ mode = "tcp" /\ ProxyNext /\ UNCHANGED udpVars
     \/ mode = "udp" /\ Udp!Next /\ UNCHANGED proxyVars
  /\ UNCHANGED mode

ProgramSpec ==
  /\ ProgramInit /\ [][ProgramNext]_allVars
  /\ \/ mode = "tcp" /\ ProxyFairness
     \/ mode = "udp" /\ Udp!Fairness

-----------------------------------------------------------------------------
(* Properties of the proxy that runs                                        *)

Routed == Udp!Routed
Answered == Udp!Answered
=============================================================================
