------------------------------ MODULE TcpServer ------------------------------
(***************************************************************************)
(* TcpServer (ae/tcp_server.cpp) with the objects it is made of:           *)
(* TcpAcceptor, TcpConnection, ConnectionWrapper and the TimerWheel that   *)
(* closes idle connections.                                                *)
(*                                                                         *)
(* Everything runs on the loop thread ("no thread safe", tcp_server.h), so *)
(* a step is one libuv callback with every call it makes, or one call of   *)
(* the user.  User code runs inside some callback of the loop; what it     *)
(* calls commutes with the rest of that callback, so it is a step too.     *)
(*                                                                         *)
(* The libuv loop goes through timers, poll and closing handles.  A handle *)
(* uv_close() was called on is finished in the next closing phase; until   *)
(* then libuv works on the uv_tcp_t, which dies with its TcpConnection.    *)
(***************************************************************************)
EXTENDS Naturals, FiniteSets

CONSTANTS
  Conn,          \* connection objects, one for each accepted socket
  Name,          \* peer names, "ip:port"
  None,          \* no connection, or no name yet
  Timeout,       \* set_timeout(), seconds; 0 if it is not called
  CloseTwice,    \* may close_connection() come for a connection that is being
                 \* closed, by whomever?
  DirectClose,   \* may the user call TcpConnection::close(nullptr)?
  PortReuse      \* may a peer name come back while the map still has it?

ASSUME NoneAssumption == None \notin Conn /\ None \notin Name
ASSUME TimeoutAssumption == Timeout \in Nat
ASSUME UsageAssumption ==
  CloseTwice \in BOOLEAN /\ DirectClose \in BOOLEAN /\ PortReuse \in BOOLEAN

VARIABLES
  phase,        \* the part of the uv_run() iteration the loop is in
  acceptor,     \* libuv's view of TcpAcceptor::server_
  serverDone,   \* history: the callback given to TcpServer::close() has run
  connnections, \* TcpServer::connnections_, the map by peer name
  held,         \* connections the user keeps a shared pointer to
  name,         \* TcpConnection::name_
  handle,       \* libuv's view of TcpConnection::handle_
  connected,    \* TcpConnection::connected_
  attached,     \* onMessageCallback_ and onConnectCloseCallback_ are set
  completion,   \* closeCompleteCallback_ is the one of close_connection()
  shutdown,     \* a uv_shutdown() is pending
  unsent,       \* a uv_write() is pending
  peer,         \* what the other end of an unfinished handle has done
  reported,     \* history: onConnectCloseCallback_ calls of the server
  index, timeoutSec, wheel, started,  \* timerWheel_, of ConnectionWrappers
  idle          \* history: wheel ticks since the last message

serverVars == <<acceptor, serverDone>>
wheelVars == <<index, timeoutSec, wheel, started>>
closeVars == <<attached, completion, handle, connnections, reported>>
streamVars == <<connected, shutdown, unsent, peer>>

vars == <<phase, serverVars, wheelVars, closeVars, streamVars, name, held, idle>>

\* A connection has one wrapper, so a slot of the wheel is a set of connections.
Wheel == INSTANCE TimerWheel WITH
  Value <- Conn, MaxTimeout <- Timeout, MayReconfigure <- FALSE

\* uv_close() was called: "closing" waits for the next closing phase,
\* "finishing" is in the one that runs, "closed" had its close callback.
HandleState == {"none", "open", "closing", "finishing", "closed"}

Init ==
  /\ phase = "poll"
  /\ acceptor = "none"
  /\ serverDone = FALSE
  /\ connnections = [n \in Name |-> None]
  /\ held = {}
  /\ name = [c \in Conn |-> None]
  /\ handle = [c \in Conn |-> "none"]
  /\ connected = [c \in Conn |-> FALSE]
  /\ attached = [c \in Conn |-> FALSE]
  /\ completion = [c \in Conn |-> FALSE]
  /\ shutdown = [c \in Conn |-> FALSE]
  /\ unsent = [c \in Conn |-> FALSE]
  /\ peer = [c \in Conn |-> "none"]
  /\ reported = [c \in Conn |-> 0]
  /\ idle = [c \in Conn |-> 0]
  /\ Wheel!Init

-----------------------------------------------------------------------------
(* Closing                                                                  *)

InMap(c) == \E n \in Name : connnections[n] = c

\* The TcpConnection, and the uv_tcp_t it owns, has not been deleted.
Alive(c) == InMap(c) \/ c \in held

\* Mutant: close() leaves onConnectCloseCallback_ in place.
KeepCallbacks(conns) == attached

\* close() drops the callbacks of the connection.
DropCallbacks(conns) == [c \in Conn |-> attached[c] /\ c \notin conns]

\* Mutant: the completion reports the connection and leaves it in the map.
MapUnchanged(conns) == connnections

\* remove_connection() of each of the connections.
MapWithout(conns) ==
  [n \in Name |-> IF connnections[n] \in conns THEN None ELSE connnections[n]]

\* Mutant: close() does not wait for libuv to finish the handle.
CompletesAlways(c) == TRUE

\* uv_is_closing(): close() does not wait for a handle that is closing already.
CompletesAtOnce(c) == handle[c] # "open"

\* TcpServer::close_connection() of each of the names, which differ: the
\* connection drops its callbacks and calls uv_close(), or, when that was done
\* before, runs the completion on the spot, which reports the connection and
\* removes it from the map.
CloseConnections(names) ==
  LET targets == {connnections[n] : n \in names} \ {None}
      atOnce == {c \in targets : CompletesAtOnce(c)}
  IN  /\ attached' = DropCallbacks(targets)
      /\ completion' = [c \in Conn |-> completion[c] \/ c \in targets]
      /\ handle' = [c \in Conn |->
                      IF c \in targets /\ handle[c] = "open"
                      THEN "closing" ELSE handle[c]]
      /\ connnections' = MapWithout(atOnce)
      /\ reported' = [c \in Conn |->
                        IF c \in atOnce THEN reported[c] + 1 ELSE reported[c]]

\* TcpConnection::on_socket_close() of each connection: nothing, once close()
\* has taken its callback away.
OnSocketClose(conns) ==
  CloseConnections({name[c] : c \in {d \in conns : attached[d]}})

\* Mutant: the callback runs, the connections stay.
OnServerClosedOnly == serverDone' = TRUE /\ UNCHANGED closeVars

\* TcpAcceptor::on_close_complete(), with the callback of TcpServer::close().
OnServerClosed ==
  /\ OnSocketClose({connnections[n] : n \in Name} \ {None})
  /\ serverDone' = TRUE

-----------------------------------------------------------------------------
(* The user's calls, from any callback of the loop                          *)

SetTimeout ==
  /\ acceptor = "none"
  /\ Wheel!SetTimeout(Timeout)
  /\ UNCHANGED <<phase, serverVars, closeVars, streamVars, name, held, idle>>

\* The one listen(), which succeeds; the wheel starts with it.
Listen ==
  /\ acceptor = "none"
  /\ acceptor' = "open"
  /\ Wheel!Start
  /\ UNCHANGED <<phase, serverDone, closeVars, streamVars, name, held, idle>>

ServerClose ==
  /\ \/ /\ acceptor = "open"
        /\ acceptor' = "closing"
        /\ UNCHANGED <<serverDone, closeVars>>
     \/ /\ acceptor \in {"closing", "finishing", "closed"}
        /\ OnServerClosed
        /\ UNCHANGED acceptor
  /\ UNCHANGED <<phase, wheelVars, streamVars, name, held, idle>>

\* close_connection(name).  The user cannot know whether the wheel, an error or
\* the server has begun the close already; without CloseTwice he is lucky.
UserCloseConnection(n) ==
  /\ connnections[n] # None
  /\ CloseTwice \/ handle[connnections[n]] \notin {"closing", "finishing"}
  /\ CloseConnections({n})
  /\ UNCHANGED <<phase, serverVars, wheelVars, streamVars, name, held, idle>>

\* conn->close(nullptr), which also replaces the completion of a
\* close_connection() under way.
UserDirectClose(c) ==
  /\ DirectClose
  /\ Alive(c)
  /\ attached' = DropCallbacks({c})
  /\ completion' = [completion EXCEPT ![c] = FALSE]
  /\ handle' = [handle EXCEPT ![c] = IF @ = "open" THEN "closing" ELSE @]
  /\ UNCHANGED <<phase, serverVars, wheelVars, connnections, reported,
                 streamVars, name, held, idle>>

\* A write the socket did not take whole.  Any other write is answered at once:
\* sent, Disconnected, or with the error of uv_write() on a closing handle.
Write(c) ==
  /\ Alive(c)
  /\ connected[c]
  /\ handle[c] = "open"
  /\ unsent' = [unsent EXCEPT ![c] = TRUE]
  /\ UNCHANGED <<phase, serverVars, wheelVars, closeVars, connected, shutdown,
                 peer, name, held, idle>>

\* get_connection(), or the pointer a callback hands out, kept or dropped.
Keep(n) ==
  /\ connnections[n] # None
  /\ held' = held \union {connnections[n]}
  /\ UNCHANGED <<phase, serverVars, wheelVars, closeVars, streamVars, name, idle>>

Drop(c) ==
  /\ c \in held
  /\ held' = held \ {c}
  /\ UNCHANGED <<phase, serverVars, wheelVars, closeVars, streamVars, name, idle>>

-----------------------------------------------------------------------------
(* The poll phase                                                           *)

\* A peer has one connection at a time from an address.
NameFree(n) ==
  \A c \in Conn : name[c] = n => peer[c] \in {"none", "gone"}

\* insert() of the wrapper; nothing is inserted when there is no timeout.
Rewind(c) ==
  IF timeoutSec > 0 THEN Wheel!Insert(c) ELSE UNCHANGED wheelVars

\* TcpAcceptor's connection callback and TcpServer::on_accept().  The map keeps
\* the connection it has under that name, if any; nobody owns the new one then.
Accept(c, n) ==
  /\ phase = "poll"
  /\ acceptor = "open"
  /\ handle[c] = "none"
  /\ NameFree(n)
  /\ PortReuse \/ connnections[n] = None
  /\ connnections' = [connnections EXCEPT ![n] = IF @ = None THEN c ELSE @]
  /\ name' = [name EXCEPT ![c] = n]
  /\ handle' = [handle EXCEPT ![c] = "open"]
  /\ connected' = [connected EXCEPT ![c] = TRUE]
  /\ attached' = [attached EXCEPT ![c] = TRUE]
  /\ peer' = [peer EXCEPT ![c] = "up"]
  /\ Rewind(c)
  /\ UNCHANGED <<phase, serverVars, completion, reported, shutdown, unsent,
                 held, idle>>

\* What the connection reads is for an object that is still there, and until
\* the first EOF or error.
Reads(c) ==
  /\ phase = "poll"
  /\ Alive(c)
  /\ handle[c] = "open"
  /\ connected[c]

\* Mutant: a message does not count as activity.
NoActivity(c) == UNCHANGED wheelVars

\* The wrapper, if some slot still keeps it, goes into the current slot.
Activity(c) == IF c \in Wheel!Kept THEN Rewind(c) ELSE UNCHANGED wheelVars

\* nread > 0, up to the user's callback, and TcpServer::on_message() after it.
ReadBytes(c) ==
  /\ Reads(c)
  /\ peer[c] \in {"up", "fin"}
  /\ Activity(c)
  /\ idle' = [idle EXCEPT ![c] = 0]
  /\ UNCHANGED <<phase, serverVars, closeVars, streamVars, name>>

ReadData(c) == ReadBytes(c) /\ UNCHANGED held

\* Mutant: EOF is noted and nothing else.
ReadEofOnly(c) ==
  /\ Reads(c)
  /\ peer[c] = "fin"
  /\ connected' = [connected EXCEPT ![c] = FALSE]
  /\ UNCHANGED <<phase, serverVars, wheelVars, closeVars, shutdown, unsent, peer,
                 name, held, idle>>

ReadEof(c) ==
  /\ Reads(c)
  /\ peer[c] = "fin"
  /\ connected' = [connected EXCEPT ![c] = FALSE]
  /\ shutdown' = [shutdown EXCEPT ![c] = TRUE]
  /\ UNCHANGED <<phase, serverVars, wheelVars, closeVars, unsent, peer, name,
                 held, idle>>

ReadError(c) ==
  /\ Reads(c)
  /\ peer[c] = "gone"
  /\ connected' = [connected EXCEPT ![c] = FALSE]
  /\ OnSocketClose({c})
  /\ UNCHANGED <<phase, serverVars, wheelVars, shutdown, unsent, peer, name,
                 held, idle>>

WriteDone(c) ==
  /\ phase = "poll"
  /\ unsent[c]
  /\ handle[c] = "open"
  /\ unsent' = [unsent EXCEPT ![c] = FALSE]
  /\ UNCHANGED <<phase, serverVars, wheelVars, closeVars, connected, shutdown,
                 peer, name, held, idle>>

\* The shutdown callback, once the writes before it are through.
ShutdownDone(c) ==
  /\ phase = "poll"
  /\ shutdown[c]
  /\ handle[c] = "open"
  /\ unsent[c] => peer[c] = "gone"
  /\ shutdown' = [shutdown EXCEPT ![c] = FALSE]
  /\ OnSocketClose({c})
  /\ UNCHANGED <<phase, serverVars, wheelVars, connected, unsent, peer, name,
                 held, idle>>

\* The closing phase takes the handles that are closing now.
PollDone ==
  LET Taken(state) == IF state = "closing" THEN "finishing" ELSE state
  IN  /\ phase = "poll"
      /\ phase' = "closing"
      /\ handle' = [c \in Conn |-> Taken(handle[c])]
      /\ acceptor' = Taken(acceptor)
      /\ UNCHANGED <<serverDone, wheelVars, attached, completion, connnections,
                     reported, streamVars, name, held, idle>>

-----------------------------------------------------------------------------
(* The closing phase and the timers                                         *)

\* The requests still pending are cancelled -- their callbacks find nothing to
\* do -- and close_complete() looks the connection up by its name.
FinishConnection(c) ==
  LET found == connnections[name[c]]
      completes == Alive(c) /\ completion[c] /\ found # None
  IN  /\ phase = "closing"
      /\ handle[c] = "finishing"
      /\ handle' = [handle EXCEPT ![c] = "closed"]
      /\ shutdown' = [shutdown EXCEPT ![c] = FALSE]
      /\ unsent' = [unsent EXCEPT ![c] = FALSE]
      /\ peer' = [peer EXCEPT ![c] = "none"]
      /\ IF completes
         THEN /\ connnections' = MapWithout({found})
              /\ reported' = [reported EXCEPT ![found] = @ + 1]
         ELSE UNCHANGED <<connnections, reported>>
      /\ UNCHANGED <<phase, serverVars, wheelVars, attached, completion,
                     connected, name, held, idle>>

FinishAcceptor ==
  /\ phase = "closing"
  /\ acceptor = "finishing"
  /\ acceptor' = "closed"
  /\ OnServerClosed
  /\ UNCHANGED <<phase, wheelVars, streamVars, name, held, idle>>

ClosingDone ==
  /\ phase = "closing"
  /\ acceptor # "finishing"
  /\ \A c \in Conn : handle[c] # "finishing"
  /\ phase' = "timers"
  /\ UNCHANGED <<serverVars, wheelVars, closeVars, streamVars, name, held, idle>>

\* The wheel turns; the wrappers nothing keeps any more are destroyed, and each
\* closes its connection if that is still there.
Tick ==
  /\ phase = "timers"
  /\ Wheel!WheelCallback
  /\ OnSocketClose({c \in Wheel!Kept \ Wheel!Kept' : Alive(c)})
  /\ idle' = [c \in Conn |-> IF attached'[c] THEN idle[c] + 1 ELSE 0]
  /\ phase' = "poll"
  /\ UNCHANGED <<serverVars, streamVars, name, held>>

\* The second is not over yet.
TimersDone ==
  /\ phase = "timers"
  /\ phase' = "poll"
  /\ UNCHANGED <<serverVars, wheelVars, closeVars, streamVars, name, held, idle>>

-----------------------------------------------------------------------------
(* The other end                                                            *)

PeerFin(c) ==
  /\ handle[c] = "open"
  /\ peer[c] = "up"
  /\ peer' = [peer EXCEPT ![c] = "fin"]
  /\ UNCHANGED <<phase, serverVars, wheelVars, closeVars, connected, shutdown,
                 unsent, name, held, idle>>

PeerGone(c) ==
  /\ handle[c] = "open"
  /\ peer[c] \in {"up", "fin"}
  /\ peer' = [peer EXCEPT ![c] = "gone"]
  /\ UNCHANGED <<phase, serverVars, wheelVars, closeVars, connected, shutdown,
                 unsent, name, held, idle>>

-----------------------------------------------------------------------------
UserCall ==
  \/ SetTimeout \/ Listen \/ ServerClose
  \/ \E n \in Name : UserCloseConnection(n) \/ Keep(n)
  \/ \E c \in Conn : UserDirectClose(c) \/ Write(c) \/ Drop(c)

Read(c) == ReadData(c) \/ ReadEof(c) \/ ReadError(c)

LoopStep == PollDone \/ FinishAcceptor \/ ClosingDone \/ Tick \/ TimersDone

Next ==
  \/ UserCall
  \/ LoopStep
  \/ \E c \in Conn : \E n \in Name : Accept(c, n)
  \/ \E c \in Conn :
       \/ Read(c) \/ WriteDone(c) \/ ShutdownDone(c) \/ FinishConnection(c)
       \/ PeerFin(c) \/ PeerGone(c)

\* The loop turns, its timer comes round, and poll reports what every socket has
\* to say, again and again until it is read.  Neither the peers nor the user
\* have to do anything; in particular a peer need not read what it is sent.
Fairness ==
  /\ WF_vars(LoopStep)
  /\ SF_vars(Tick)
  /\ \A c \in Conn :
       /\ WF_vars(FinishConnection(c))
       /\ SF_vars(ReadEof(c))
       /\ SF_vars(ReadError(c))
       /\ SF_vars(ShutdownDone(c))

Spec == Init /\ [][Next]_vars

FairSpec == Spec /\ Fairness

-----------------------------------------------------------------------------
(* Properties                                                               *)

\* Every variable has its type.
TypeOK ==
  /\ phase \in {"timers", "poll", "closing"}
  /\ acceptor \in HandleState
  /\ serverDone \in BOOLEAN
  /\ connnections \in [Name -> Conn \union {None}]
  /\ held \subseteq Conn
  /\ name \in [Conn -> Name \union {None}]
  /\ handle \in [Conn -> HandleState]
  /\ connected \in [Conn -> BOOLEAN]
  /\ attached \in [Conn -> BOOLEAN]
  /\ completion \in [Conn -> BOOLEAN]
  /\ shutdown \in [Conn -> BOOLEAN]
  /\ unsent \in [Conn -> BOOLEAN]
  /\ peer \in [Conn -> {"none", "up", "fin", "gone"}]
  /\ reported \in [Conn -> Nat]
  /\ idle \in [Conn -> Nat]
  /\ Wheel!TypeOK

\* The comment at uv_close() in TcpConnection::close(): libuv checks closing
\* handles in its polling, so deleting one earlier makes the program exit
\* abnormally.  While libuv works on a uv_tcp_t, someone owns it.
HandleOutlivesLibuv ==
  \A c \in Conn : handle[c] \in {"open", "closing", "finishing"} => Alive(c)

\* A connection that can still ask the server to close it is open and is the one
\* its name leads to.  Hence the loop over connnections_ in TcpServer::close()
\* and clear() in the wheel never remove a map entry they are walking over.
AttachedIsOpen ==
  \A c \in Conn :
    attached[c] => handle[c] = "open" /\ connnections[name[c]] = c

\* However reads, shutdown, wheel, user and server close race: a connection is
\* reported closed at most once, when its handle is closed and not before, and
\* the map lets go of it then.  The report is made unless the user has put a
\* completion of his own in place of the server's.
ReportedOnce ==
  \A c \in Conn :
    /\ reported[c] <= (IF handle[c] = "closed" THEN 1 ELSE 0)
    /\ handle[c] = "closed" /\ completion[c] => reported[c] = 1
    /\ reported[c] = 1 => ~InMap(c)

\* A tick closes the connections whose last message is Timeout ticks back,
\* messages in any slot of the wheel and half-closed connections included, and
\* no other.
IdleClosedOnTime ==
  [][Tick => \A c \in Conn :
       attached[c] => (attached'[c] <=> idle[c] + 1 < Timeout)]_vars

\* A connection whose peer is gone leaves the map.  One that is half closed does
\* so when there is a timeout, even if its peer never reads what it was sent and
\* uv_shutdown() never completes: then the wheel closes it.
GoneIsRemoved ==
  \A c \in Conn :
    peer[c] = "gone" \/ (peer[c] = "fin" /\ timeoutSec > 0) ~> ~InMap(c)

\* After the callback of TcpServer::close() the map empties.
ServerCloseDrains ==
  serverDone ~> \A n \in Name : connnections[n] = None
=============================================================================
