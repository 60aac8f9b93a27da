----------------------------- MODULE TcpClient -----------------------------
(***************************************************************************)
(* TcpClient (ae/tcp_client.cpp): a socket per connect(), a TcpConnection  *)
(* once the connect succeeds, and a user who is told about both through    *)
(* one status callback and the callback given to close().                  *)
(*                                                                         *)
(* Everything runs on the loop thread.  A step is one libuv callback with  *)
(* all it calls, or one call of the user.  A handle uv_close() was called  *)
(* on is finished in the closing phase of the loop's iteration; the        *)
(* uv_tcp_t itself lives as long as socket_ or the connection refer to it. *)
(***************************************************************************)
EXTENDS FiniteSets, Naturals, Sequences

CONSTANTS
  Sock,         \* uv_tcp_t objects, one for each connect()
  CloseCall,    \* bound: the calls of close(), each with its own callback
  None,         \* no socket, no connection, no callback
  OnClose,      \* the completion on_connect_close() sets
  OnFail,       \* the completion on_connect(false) sets
  CloseEarly,   \* may the user call close() while the connect is pending?
  ActsAtOnce    \* does the user take an answer that comes before close()
                \* returns for the end of his last connect()?

ASSUME NoneAssumption == None \notin Sock /\ None \notin CloseCall
ASSUME CompletionAssumption ==
  /\ None \notin {OnClose, OnFail}
  /\ OnClose # OnFail
  /\ {OnClose, OnFail} \intersect CloseCall = {}
ASSUME UsageAssumption == CloseEarly \in BOOLEAN /\ ActsAtOnce \in BOOLEAN

VARIABLES
  phase,        \* the part of the uv_run() iteration the loop is in
  destroyed,    \* the client has been deleted
  socket,       \* TcpClient::socket_
  connection,   \* TcpClient::connection_, named by its socket
  handle,       \* libuv's view of each uv_tcp_t
  connected,    \* TcpConnection::connected_
  attached,     \* onConnectCloseCallback_ is set
  completion,   \* what libuv's close callback will call
  shutdown,     \* a uv_shutdown() is pending
  unsent,       \* a uv_write() is pending
  peer,         \* what the other end has done
  told,         \* history: the statuses the user got for each socket
  target,       \* history: connection_ at each call of close() so far
  answered,     \* history: how often the callback of each close() ran
  over          \* history: the user has been told that his last connect() is
                \* over: it failed, it was closed, or a close() is answered

netVars == <<shutdown, unsent, peer>>
userVars == <<told, answered, over>>
closeVars == <<handle, attached, completion, userVars>>

vars == <<phase, destroyed, socket, connection, connected, netVars, closeVars,
          target>>

\* "refused": initialised, but uv_tcp_connect() itself returned an error.
HandleState ==
  {"none", "refused", "connecting", "open", "closing", "finishing", "closed"}

Init ==
  /\ phase = "poll"
  /\ destroyed = FALSE
  /\ socket = None
  /\ connection = None
  /\ handle = [s \in Sock |-> "none"]
  /\ connected = [s \in Sock |-> FALSE]
  /\ attached = [s \in Sock |-> FALSE]
  /\ completion = [s \in Sock |-> None]
  /\ shutdown = [s \in Sock |-> FALSE]
  /\ unsent = [s \in Sock |-> FALSE]
  /\ peer = [s \in Sock |-> "none"]
  /\ told = [s \in Sock |-> <<>>]
  /\ target = [k \in {} |-> None]
  /\ answered = [k \in CloseCall |-> 0]
  /\ over = TRUE

Alive(s) == ~destroyed /\ s \in {socket, connection}

-----------------------------------------------------------------------------
(* Closing                                                                  *)

\* What the user gets to know when the completion runs for socket s.
Completes(s, what) ==
  /\ told' = [told EXCEPT ![s] =
                CASE what = OnClose -> Append(@, "close")
                  [] what = OnFail -> Append(@, "fail")
                  [] OTHER -> @]
  /\ answered' = [k \in CloseCall |->
                    IF what = k THEN answered[k] + 1 ELSE answered[k]]

\* Mutant: close() does not wait for libuv to finish the handle.
CompletesAlways(s) == TRUE

\* uv_is_closing(): close() does not wait for a handle that is closing already.
CompletesAtOnce(s) == handle[s] # "open"

\* Mutant: close() keeps the completion of a close under way.
FirstCompletion(s, what) == IF completion[s] = None THEN what ELSE completion[s]

\* closeCompleteCallback_ = callback
NewCompletion(s, what) == what

\* Mutant: close() leaves onConnectCloseCallback_ in place.
KeepCallbacks(s) == attached

\* close() drops the callbacks of the connection.
DropCallbacks(s) == [attached EXCEPT ![s] = FALSE]

\* TcpConnection::close() of the connection on socket s.
CloseConnection(s, what) ==
  /\ attached' = DropCallbacks(s)
  /\ completion' = [completion EXCEPT ![s] = NewCompletion(s, what)]
  /\ handle' = [handle EXCEPT ![s] = IF @ = "open" THEN "closing" ELSE @]
  /\ IF CompletesAtOnce(s)
     THEN Completes(s, completion'[s]) /\ over' = (over \/ ActsAtOnce)
     ELSE UNCHANGED userVars

\* TcpConnection::on_socket_close() and TcpClient::on_connect_close().
OnSocketClose(s) ==
  IF attached[s] THEN CloseConnection(connection, OnClose)
                 ELSE UNCHANGED closeVars

-----------------------------------------------------------------------------
(* The user's calls, from any callback of the loop                          *)

\* The user goes by what he was told: the client keeps no account of its handles
\* and does not check them.
MayReuse == ~destroyed /\ over

\* connect() looks away when uv_tcp_connect() fails.
Connect(s) ==
  /\ MayReuse
  /\ handle[s] = "none"
  /\ socket' = s
  /\ \E state \in {"connecting", "refused"} : handle' = [handle EXCEPT ![s] = state]
  /\ over' = FALSE
  /\ UNCHANGED <<phase, destroyed, connection, connected, attached, completion,
                 netVars, told, answered, target>>

\* close() knows the connection, and nothing of a connect that is pending.
Close(k) ==
  /\ ~destroyed
  /\ k \notin DOMAIN target
  /\ CloseEarly \/ connection = socket
  /\ target' = [j \in DOMAIN target \union {k} |->
                  IF j = k THEN connection ELSE target[j]]
  /\ IF connection # None
     THEN CloseConnection(connection, k)
     ELSE /\ answered' = [answered EXCEPT ![k] = @ + 1]
          /\ over' = (over \/ ActsAtOnce)
          /\ UNCHANGED <<handle, attached, completion, told>>
  /\ UNCHANGED <<phase, destroyed, socket, connection, connected, netVars>>

\* A write() the socket did not take whole; any other is answered at once.
Write ==
  /\ ~destroyed
  /\ connection # None
  /\ connected[connection]
  /\ handle[connection] = "open"
  /\ unsent' = [unsent EXCEPT ![connection] = TRUE]
  /\ UNCHANGED <<phase, destroyed, socket, connection, connected, shutdown, peer,
                 closeVars, target>>

Destroy ==
  /\ MayReuse
  /\ destroyed' = TRUE
  /\ UNCHANGED <<phase, socket, connection, connected, netVars, closeVars, target>>

-----------------------------------------------------------------------------
(* The poll phase                                                           *)

Polls(s, state) == phase = "poll" /\ Alive(s) /\ handle[s] = state

\* on_connect(true): connection_ now holds the socket; what it held is dropped.
Connected(s) ==
  /\ Polls(s, "connecting")
  /\ handle' = [handle EXCEPT ![s] = "open"]
  /\ connection' = socket
  /\ connected' = [connected EXCEPT ![socket] = TRUE]
  /\ attached' = [attached EXCEPT ![socket] = TRUE]
  /\ peer' = [peer EXCEPT ![s] = "up"]
  /\ told' = [told EXCEPT ![socket] = Append(@, "success")]
  /\ UNCHANGED <<phase, destroyed, socket, completion, shutdown, unsent, answered,
                 over, target>>

\* Mutant: nobody is told.
ToldNothing == None

\* after_connect_fail(), when the handle is closed
AfterFailure == OnFail

\* Mutant: the user is told of the failure before the handle is closed.
ConnectFailedTellsAtOnce(s) ==
  /\ Polls(s, "connecting")
  /\ handle' = [handle EXCEPT ![socket] = "closing"]
  /\ told' = [told EXCEPT ![socket] = Append(@, "fail")]
  /\ over' = TRUE
  /\ UNCHANGED <<phase, destroyed, socket, connection, connected, attached,
                 completion, netVars, answered, target>>

\* on_connect(false): the user is told when the handle is closed.
ConnectFailed(s) ==
  /\ Polls(s, "connecting")
  /\ handle' = [handle EXCEPT ![socket] = "closing"]
  /\ completion' = [completion EXCEPT ![socket] = AfterFailure]
  /\ UNCHANGED <<phase, destroyed, socket, connection, connected, attached,
                 netVars, userVars, target>>

ReadEof(s) ==
  /\ Polls(s, "open")
  /\ connected[s]
  /\ peer[s] = "fin"
  /\ connected' = [connected EXCEPT ![s] = FALSE]
  /\ shutdown' = [shutdown EXCEPT ![s] = TRUE]
  /\ UNCHANGED <<phase, destroyed, socket, connection, unsent, peer, closeVars,
                 target>>

\* Mutant: a read error is noted and nothing else.
ReadErrorOnly(s) ==
  /\ Polls(s, "open")
  /\ connected[s]
  /\ peer[s] = "gone"
  /\ connected' = [connected EXCEPT ![s] = FALSE]
  /\ UNCHANGED <<phase, destroyed, socket, connection, netVars, closeVars, target>>

ReadError(s) ==
  /\ Polls(s, "open")
  /\ connected[s]
  /\ peer[s] = "gone"
  /\ connected' = [connected EXCEPT ![s] = FALSE]
  /\ OnSocketClose(s)
  /\ UNCHANGED <<phase, destroyed, socket, connection, netVars, target>>

WriteDone(s) ==
  /\ Polls(s, "open")
  /\ unsent[s]
  /\ unsent' = [unsent EXCEPT ![s] = FALSE]
  /\ UNCHANGED <<phase, destroyed, socket, connection, connected, shutdown, peer,
                 closeVars, target>>

\* The shutdown callback, once the writes before it are through.
ShutdownDone(s) ==
  /\ Polls(s, "open")
  /\ shutdown[s]
  /\ unsent[s] => peer[s] = "gone"
  /\ shutdown' = [shutdown EXCEPT ![s] = FALSE]
  /\ OnSocketClose(s)
  /\ UNCHANGED <<phase, destroyed, socket, connection, connected, unsent, peer,
                 target>>

PollDone ==
  /\ phase = "poll"
  /\ phase' = "closing"
  /\ handle' = [s \in Sock |->
                  IF handle[s] = "closing" THEN "finishing" ELSE handle[s]]
  /\ UNCHANGED <<destroyed, socket, connection, connected, attached, completion,
                 netVars, userVars, target>>

-----------------------------------------------------------------------------
(* The closing phase                                                        *)

\* The requests still pending are cancelled, then the close callback runs.
Finish(s) ==
  /\ phase = "closing"
  /\ Alive(s)
  /\ handle[s] = "finishing"
  /\ handle' = [handle EXCEPT ![s] = "closed"]
  /\ shutdown' = [shutdown EXCEPT ![s] = FALSE]
  /\ unsent' = [unsent EXCEPT ![s] = FALSE]
  /\ Completes(s, completion[s])
  /\ over' = (over \/ completion[s] # None)
  /\ UNCHANGED <<phase, destroyed, socket, connection, connected, attached,
                 completion, peer, target>>

ClosingDone ==
  /\ phase = "closing"
  /\ \A s \in Sock : handle[s] # "finishing"
  /\ phase' = "poll"
  /\ UNCHANGED <<destroyed, socket, connection, connected, netVars, closeVars,
                 target>>

-----------------------------------------------------------------------------
(* The other end                                                            *)

PeerEnds(s) ==
  /\ handle[s] = "open"
  /\ \E end \in {"fin", "gone"} : /\ peer[s] \notin {end, "gone"}
                                  /\ peer' = [peer EXCEPT ![s] = end]
  /\ UNCHANGED <<phase, destroyed, socket, connection, connected, shutdown, unsent,
                 closeVars, target>>

-----------------------------------------------------------------------------
Next ==
  \/ \E s \in Sock :
       \/ Connect(s) \/ Connected(s) \/ ConnectFailed(s)
       \/ ReadEof(s) \/ ReadError(s) \/ WriteDone(s) \/ ShutdownDone(s)
       \/ Finish(s) \/ PeerEnds(s)
  \/ \E k \in CloseCall : Close(k)
  \/ Write \/ Destroy \/ PollDone \/ ClosingDone

\* The loop turns, a pending connect comes to an end, and poll reports what a
\* socket has to say until it is read.  Peers, writes and the user may do nothing.
Fairness ==
  /\ WF_vars(PollDone \/ ClosingDone)
  /\ \A s \in Sock :
       /\ WF_vars(Finish(s))
       /\ SF_vars(Connected(s) \/ ConnectFailed(s))
       /\ SF_vars(ReadEof(s))
       /\ SF_vars(ReadError(s))
       /\ SF_vars(ShutdownDone(s))

Spec == Init /\ [][Next]_vars

FairSpec == Spec /\ Fairness

-----------------------------------------------------------------------------
(* Properties                                                               *)

\* Every variable has its type.  A user is told about an attempt in one of four
\* ways, and never about its end before its beginning.
TypeOK ==
  /\ phase \in {"poll", "closing"}
  /\ destroyed \in BOOLEAN
  /\ {socket, connection} \subseteq Sock \union {None}
  /\ handle \in [Sock -> HandleState]
  /\ connected \in [Sock -> BOOLEAN]
  /\ attached \in [Sock -> BOOLEAN]
  /\ completion \in [Sock -> CloseCall \union {OnClose, OnFail, None}]
  /\ shutdown \in [Sock -> BOOLEAN]
  /\ unsent \in [Sock -> BOOLEAN]
  /\ peer \in [Sock -> {"none", "up", "fin", "gone"}]
  /\ told \in [Sock -> {<<>>, <<"fail">>, <<"success">>, <<"success", "close">>}]
  /\ \E made \in SUBSET CloseCall : target \in [made -> Sock \union {None}]
  /\ answered \in [CloseCall -> 0 .. 2]
  /\ over \in BOOLEAN

\* The comment at uv_close() in TcpConnection::close(): libuv checks closing
\* handles in its polling, so deleting one earlier makes the program exit
\* abnormally.  A uv_tcp_t libuv knows has an owner, across failed connects, closes
\* from either side and reconnects or deletes as soon as the loop has told the user
\* that the connection is over.
HandleOutlivesLibuv ==
  \A s \in Sock : handle[s] \notin {"none", "closed"} => Alive(s)

\* on_connect_close() closes connection_, whichever connection calls it: that is
\* the right one, because only the current connection is still attached.
AttachedIsCurrent ==
  \A s \in Sock : attached[s] => s = connection /\ handle[s] = "open"

\* How a connect() stands that the user has not heard of.
Unheard(s) ==
  CASE handle[s] = "none" -> "idle"
    [] handle[s] = "refused" -> "refused"
    [] OTHER -> "pending"

\* To the user each connect() is a ClientLink: one status for its outcome, one for
\* its end, in this order, and after close() he hears of that connection through
\* the callback of close() alone, even when the peer had ended it before.
Link == INSTANCE ClientLink WITH
  Attempt <- Sock,
  link <- [s \in Sock |->
    CASE told[s] = <<>> -> Unheard(s)
      [] told[s] = <<"fail">> -> "failed"
      [] told[s] = <<"success">> ->
           IF \E k \in DOMAIN target : target[k] = s THEN "silent" ELSE "up"
      [] told[s] = <<"success", "close">> -> "over"
      [] OTHER -> "told too much"]

ImplementsLink == Link!Spec

\* The callback of a close() runs twice only for a connection whose peer has ended
\* it or for which another close() was made.
AnsweredOnce ==
  \A k \in CloseCall :
    answered[k] > 1 =>
      \/ peer[target[k]] \in {"fin", "gone"}
      \/ \E j \in DOMAIN target \ {k} : target[j] = target[k]

\* A connect that uv_tcp_connect() accepted is answered, also when it is closed
\* while it is pending.
ConnectAnswered == \A s \in Sock : handle[s] = "connecting" ~> told[s] # <<>>

\* The loss of the peer ends in the close of the connection, and the user hears
\* of it, as a status or as the answer to a close() of his.
LossTold ==
  \A s \in Sock :
    peer[s] = "gone" ~>
      \/ told[s] = <<"success", "close">>
      \/ \E k \in DOMAIN target : target[k] = s /\ answered[k] > 0

\* A close() is answered, unless a later one has taken its place.
CloseAnswered ==
  \A k \in CloseCall :
    k \in DOMAIN target ~>
      /\ k \in DOMAIN target
      /\ \E j \in DOMAIN target : target[j] = target[k] /\ answered[j] > 0
=============================================================================
