------------------------------ MODULE UdpProxy ------------------------------
(***************************************************************************)
(* UdpProxy (app/udp_proxy.cpp) with its UdpAgents and the UdpSocket they  *)
(* share (ae/udp_socket.cpp), between clients and servers on a network that*)
(* loses, duplicates and reorders datagrams.  Clients, servers and the     *)
(* proxy may be on one host, and a request may name the proxy itself.      *)
(*                                                                         *)
(* A session is an agent with a socket of its own, found by a key made of  *)
(* the sender's address and the server the sender names; what comes back   *)
(* to that socket goes to the sender.  A step is one datagram received,    *)
(* with everything its callback does.  Of the contents of a datagram the   *)
(* model keeps the server it names and, as a history, the requests it was  *)
(* sent for: the last one is the one its sender took it for.               *)
(***************************************************************************)
EXTENDS Naturals, FiniteSets, Sequences, SequencesExt

CONSTANTS
  ClientHost, ClientPort,   \* clients are sockets on these hosts and ports
  ServerIp,                 \* the addresses clients name as their server's
  BadIp,                    \* a text uv_ip4_addr() cannot read, such as ""
  Local,                    \* where 0.0.0.0 leads, which is what it makes of it
  PortText,                 \* the integers clients give as the server's port
  PortRange,                \* 2^16: a sockaddr has room for so many ports
  FrontIp, FrontPort,       \* the address the proxy is bound to
  NoText,                   \* what a datagram unpack() cannot read names
  MaxSockets,               \* how many agents the process has descriptors for
  MaxInFlight               \* bound: datagrams in flight

VARIABLES
  server,    \* "none" before start(); "deaf" if uv_udp_bind() failed, unnoticed
  session,   \* UdpProxy::session_: by key, an agent's ca_ and sa_
  reading,   \* the keys of the agents that have a socket and read
  net,       \* the datagrams in flight, those libuv holds for a socket among them
  got        \* history: the requests whose reply has reached the client

vars == <<server, session, reading, net, got>>

Client == ClientHost \X ClientPort
FrontAddr == <<FrontIp, FrontPort>>

\* The server a whole request names, and those unpack() may make of any other
\* datagram: where a field is missing the ip is empty and the port whatever the
\* stack held.
Text == ServerIp \X PortText
Unpacked(text) ==
  IF text \in Text THEN {text} ELSE (ServerIp \union {BadIp}) \X PortText

\* What forward() makes of a datagram: the client is who sent it.
RequestOf(from, text) == [client |-> from, ip |-> text[1], port |-> text[2]]

\* The requests clients make.
Request == {RequestOf(c, text) : c \in Client, text \in Text}

\* Mutant: the key forgets the client's port.
KeyByHost(r) == <<r.client[1], r.ip, r.port>>

\* "cip:cport@sip:sport", with the port as the client gave it.
Key(r) == <<r.client, r.ip, r.port>>

\* SocketAddr(ip, port): the port is cut to an unsigned short.
Address(r) ==
  <<IF r.ip = BadIp THEN Local ELSE r.ip, r.port % PortRange>>

\* A "request" to the proxy, a "message" to a server, or a "reply".
Datagram(what, src, dst, text, of) ==
  [what |-> what, src |-> src, dst |-> dst, text |-> text, of |-> of]

AskFor(c, text) == Datagram("request", c, FrontAddr, text, <<>>)
Message(k, dst, of) == Datagram("message", k, dst, NoText, of)
Reply(src, dst, of) == Datagram("reply", src, dst, NoText, of)

\* UdpAgent's ca_ and sa_.
NewAgent(r) == [ca |-> r.client, sa |-> Address(r)]

Init ==
  /\ server = "none"
  /\ session = [k \in {} |-> NewAgent(k)]
  /\ reading = {}
  /\ net = {}
  /\ got = {}

\* start(): what try_bind_and_read() returns is looked at by nobody.
Start ==
  /\ server = "none"
  /\ server' \in {"bound", "deaf"}
  /\ UNCHANGED <<session, reading, net, got>>

-----------------------------------------------------------------------------
(* Sending and receiving                                                    *)

\* A datagram leaves the network when it is received, or stays as a duplicate.
Received(d, sent) ==
  /\ \/ net' = (net \ {d}) \union sent
     \/ net' = net \union sent
  /\ Cardinality(net') <= MaxInFlight

\* UdpSocket::send(): the datagram is on its way, at once or when the socket takes
\* it, or an error is returned, which nobody looks at.  Without a socket there is
\* nothing but the error.
Send(k, d, m) ==
  \/ k \in reading' /\ Received(d, {m})
  \/ Received(d, {})

\* Mutant: the agent never reads.
ReadingOld(k) == reading

\* try_read() opens the agent's socket, if there is a descriptor left for it.
ReadingNew(k) ==
  IF Cardinality(reading) < MaxSockets THEN reading \union {k} ELSE reading

\* get_agent(): nothing ever removes a session.
GetAgent(r) ==
  IF Key(r) \in DOMAIN session
  THEN UNCHANGED <<session, reading>>
  ELSE /\ session' = [k \in DOMAIN session \union {Key(r)} |->
                        IF k \in DOMAIN session THEN session[k] ELSE NewAgent(r)]
       /\ reading' = ReadingNew(Key(r))

\* forward(): the message goes out of the agent's socket to its server.  What an
\* agent sends to the proxy itself is a request to it like any other.
Forward(d) ==
  /\ server = "bound"
  /\ d.dst = FrontAddr
  /\ \E text \in Unpacked(d.text) :
       LET r == RequestOf(d.src, text)
       IN  /\ GetAgent(r)
           /\ Send(Key(r), d, Message(Key(r), session'[Key(r)].sa, Append(d.of, r)))
  /\ UNCHANGED <<server, got>>

\* The requests that are still open at an agent's socket: the one this socket has
\* itself made of the proxy, if any, is answered.
OpenAt(k, of) == IF Last(of).client = k THEN Front(of) ELSE of

\* The agent's message callback.  Where the datagram comes from is not looked at.
AgentReceive(k, d) ==
  /\ k \in reading
  /\ d.dst = k
  /\ UNCHANGED <<server, session, reading, got>>
  /\ Send(k, d, Reply(k, session[k].ca, OpenAt(k, d.of)))

-----------------------------------------------------------------------------
(* Clients, servers and the network                                         *)

\* A client sends a request, again or for the first time, or something unreadable.
Ask(c) ==
  /\ \E text \in Text \union {NoText} : net' = net \union {AskFor(c, text)}
  /\ Cardinality(net') <= MaxInFlight
  /\ UNCHANGED <<server, session, reading, got>>

\* Any other socket a message may be sent to answers to where it came from.
ServerReply(d) ==
  /\ d.dst \in (ServerIp \union {Local}) \X (0 .. PortRange - 1)
  /\ d.dst \notin Client \union {FrontAddr}
  /\ Received(d, {Reply(d.dst, d.src, d.of)})
  /\ UNCHANGED <<server, session, reading, got>>

\* A client may also be named as somebody's server; to such a message it does not
\* answer.
ClientReceive(d) ==
  /\ d.dst \in Client
  /\ got' = got \union {r \in Request : d.what = "reply" /\ r = Last(d.of)}
  /\ Received(d, {})
  /\ UNCHANGED <<server, session, reading>>

Lose(d) ==
  /\ net' = net \ {d}
  /\ UNCHANGED <<server, session, reading, got>>

Next ==
  \/ Start
  \/ \E c \in Client : Ask(c)
  \/ \E d \in net :
       \/ Forward(d) \/ ServerReply(d) \/ ClientReceive(d) \/ Lose(d)
       \/ \E k \in reading : AgentReceive(k, d)

\* What is sent again and again gets through at last, at every hop.
GetsThrough(r) ==
  LET k == Key(r)
      request == AskFor(r.client, <<r.ip, r.port>>)
      toServer == Message(k, Address(r), <<r>>)
      toAgent == Reply(Address(r), k, <<r>>)
      toClient == Reply(k, r.client, <<r>>)
  IN  /\ SF_vars(/\ request \in net /\ Forward(request)
                 /\ toServer \in net' \/ k \notin reading')
      /\ SF_vars(toServer \in net /\ ServerReply(toServer))
      /\ SF_vars(toAgent \in net /\ AgentReceive(k, toAgent) /\ toClient \in net')
      /\ SF_vars(toClient \in net /\ ClientReceive(toClient))

Fairness == \A r \in Request : GetsThrough(r)

Spec == Init /\ [][Next]_vars

FairSpec == Spec /\ Fairness

-----------------------------------------------------------------------------
(* Properties                                                               *)

\* Every variable has its type.
TypeOK ==
  /\ server \in {"none", "bound", "deaf"}
  /\ \A k \in DOMAIN session :
       /\ k[2] \in ServerIp \union {BadIp} /\ k[3] \in PortText
       /\ k[1] \in Client \union DOMAIN session
       /\ session[k] = NewAgent([client |-> k[1], ip |-> k[2], port |-> k[3]])
  /\ reading \subseteq DOMAIN session
  /\ got \subseteq Request

\* Nothing is crossed over: with several clients on a host, servers and proxy on the
\* same one, ports that overflow, unreadable requests, requests that lead to the
\* proxy itself, replies out of order and sessions that live for ever, what an
\* agent sends to a server goes to the one the request names, and what it sends
\* back goes to who made the request.
Routed ==
  \A m \in net :
    m.src \in DOMAIN session =>
      m.dst = IF m.what = "message" THEN Address(Last(m.of)) ELSE Last(m.of).client

\* The server a request names is neither the proxy nor a client of it.
NamesServer(r) == Address(r) \notin Client \union {FrontAddr}

\* A request that is repeated is answered, as long as there was a descriptor for
\* its session; past the limit the session is there and stays mute for ever.
Answered ==
  \A r \in Request :
    NamesServer(r) =>
      (<>(server = "bound") /\ []<>(AskFor(r.client, <<r.ip, r.port>>) \in net) =>
        <>(\/ r \in got
           \/ /\ Key(r) \in DOMAIN session \ reading
              /\ Cardinality(reading) = MaxSockets))
=============================================================================
