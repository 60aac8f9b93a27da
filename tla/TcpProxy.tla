------------------------------ MODULE TcpProxy ------------------------------
(***************************************************************************)
(* TcpProxy (app/tcp_proxy.cpp) over its TcpServer: a client that binds    *)
(* gets a TcpAgent, which is a TcpClient that connects to the real server. *)
(* Of the agents the proxy sees what ClientLink says of a TcpClient.       *)
(*                                                                         *)
(* The callback of an agent keeps the client's shared pointer for ever, as *)
(* nobody deletes an agent; and it closes the client directly, past        *)
(* TcpServer, so that the server's map is never told.                      *)
(***************************************************************************)
EXTENDS TcpServer

CONSTANT Agent   \* bound: TcpAgent objects, one for each bind

ASSUME ProxyAssumption == DirectClose /\ Timeout = 0 /\ None \notin Agent

VARIABLES
  link,      \* the one connect() of each agent
  client,    \* the client_conn_ptr its callback has captured
  session,   \* TcpProxy::session_, by the client's name
  echoed     \* history: the bind's message was written back to the client

agentVars == <<link, client, session, echoed>>
proxyVars == <<vars, agentVars>>

Links == INSTANCE ClientLink WITH Attempt <- Agent

ProxyInit ==
  /\ Init
  /\ Links!Init
  /\ client = [a \in Agent |-> None]
  /\ session = [n \in Name |-> None]
  /\ echoed = [a \in Agent |-> FALSE]

\* Mutant: the callback refers to the connection without owning it.
CapturedNot(c) == held

\* The connections agents keep alive.
Captured(c) == held \union {c}

\* A message whose command is 0x00, or one cut short before the command, which is
\* then whatever the stack held: connect_real_server().  Where the agent connects
\* to is the environment's affair, as is what a cut message makes of it.
Bind(c) ==
  /\ ReadBytes(c)
  /\ \E a \in Agent :
       /\ Links!Begin(a)
       /\ client' = [client EXCEPT ![a] = c]
  /\ held' = Captured(c)
  /\ UNCHANGED <<session, echoed>>

\* The agent is connected: the message goes back to the client, unless the socket
\* is closed by now, and may wait for the socket to take it.
AgentConnected(a) ==
  LET c == client[a]
      writes == connected[c] /\ handle[c] = "open"
  IN  /\ phase = "poll"
      /\ Links!Succeed(a)
      /\ session' = [session EXCEPT ![name[c]] = a]
      /\ echoed' = [echoed EXCEPT ![a] = writes]
      /\ \E waits \in BOOLEAN :
           unsent' = [unsent EXCEPT ![c] = @ \/ (writes /\ waits)]
      /\ UNCHANGED <<phase, serverVars, wheelVars, closeVars, connected, shutdown,
                     peer, name, held, idle, client>>

\* Mutant: the callback looks at ConnectSuccess only.
NothingClosed(c) == UNCHANGED vars

\* client_conn_ptr->close(nullptr)
CloseClient(c) == UserDirectClose(c)

\* The connect failed, or the link is over.  Either is told in the close callback
\* of the agent's socket.
AgentEnded(a) ==
  /\ phase = "closing"
  /\ Links!Fail(a) \/ Links!Lose(a)
  /\ CloseClient(client[a])
  /\ UNCHANGED <<client, session, echoed>>

\* The loop runs once start() has given it something to wait for.
Turn == acceptor = "open" /\ (PollDone \/ ClosingDone \/ TimersDone)

\* start() listens with no timeout and never closes the server again; every other
\* command is read and ignored.
ServerStep ==
  \/ Listen
  \/ \E c \in Conn, n \in Name : Accept(c, n)
  \/ \E c \in Conn :
       \/ Read(c) \/ WriteDone(c) \/ ShutdownDone(c) \/ FinishConnection(c)
       \/ PeerFin(c) \/ PeerGone(c)
  \/ Turn

ProxyNext ==
  \/ ServerStep /\ UNCHANGED agentVars
  \/ \E c \in Conn : Bind(c)
  \/ \E a \in Agent : AgentConnected(a) \/ AgentEnded(a)

\* As for the server.  A connect that is pending comes to an end: TcpClient's
\* ConnectAnswered.
ProxyFairness ==
  /\ WF_proxyVars(Turn /\ UNCHANGED agentVars)
  /\ \A c \in Conn :
       /\ WF_proxyVars(FinishConnection(c) /\ UNCHANGED agentVars)
       /\ SF_proxyVars(ReadEof(c) /\ UNCHANGED agentVars)
       /\ SF_proxyVars(ReadError(c) /\ UNCHANGED agentVars)
       /\ SF_proxyVars(ShutdownDone(c) /\ UNCHANGED agentVars)
  /\ \A a \in Agent :
       SF_proxyVars(AgentConnected(a) \/ (AgentEnded(a) /\ Links!Fail(a)))

ProxySpec == ProxyInit /\ [][ProxyNext]_proxyVars /\ ProxyFairness

-----------------------------------------------------------------------------
(* Properties                                                               *)

Ended(a) == link[a] \in {"failed", "over"}

\* Whatever an agent's callback may still touch is there, though the map has long
\* let go of it; and a uv_tcp_t libuv knows has an owner.
CallbackOnLiveClient ==
  /\ \A a \in Agent : link[a] \in {"pending", "up"} => Alive(client[a])
  /\ HandleOutlivesLibuv

\* The map keeps a closed connection, and with it the peer's name, only where an
\* agent of that connection has ended: EOF, read errors, failed shutdowns and
\* their races with a bind all clear the entry.
StaleEntryByAgent ==
  \A n \in Name :
    LET c == connnections[n]
    IN  c # None /\ handle[c] = "closed" =>
          \E a \in Agent : client[a] = c /\ Ended(a)

\* From the bind on: its message comes back or the client's connection is closed,
\* also when the client has bound before or is going away.  Two clients may go
\* without for ever: one whose agent's uv_tcp_connect() failed at once, which the
\* agent is never told; and one that has half closed, as what was written to it
\* before may hold up the shutdown, and the proxy has no idle timeout.
BindAnswered ==
  \A a \in Agent :
    client[a] # None ~>
      \/ link[a] = "refused"
      \/ echoed[a]
      \/ \E c \in Conn : client[a] = c /\ (handle[c] # "open" \/ ~connected[c])

\* A client does not outlive the connection to its real server, nor a failure to
\* connect to it.  (The agent outlives its client: nothing ever ends it.)
EndsWithAgent ==
  \A a \in Agent :
    Ended(a) ~> \E c \in Conn : client[a] = c /\ handle[c] = "closed"
=============================================================================
