--------------------------- MODULE TcpClientProofs ---------------------------
(***************************************************************************)
(* Theorems about TcpClient, for any number of sockets and calls of        *)
(* close(), when the user connects again, or deletes the client, on what   *)
(* the loop told him, and not on an answer close() gave before it returned *)
(* (~ActsAtOnce).                                                          *)
(***************************************************************************)
EXTENDS TcpClient, TLAPS, SequenceTheorems

-----------------------------------------------------------------------------
(* The invariant                                                            *)

\* All a user can be told about a socket.
Said == {<<>>, <<"fail">>, <<"success">>, <<"success", "close">>}

\* The types.
Typed ==
  /\ phase \in {"poll", "closing"}
  /\ destroyed \in BOOLEAN
  /\ {socket, connection} \subseteq Sock \union {None}
  /\ handle \in [Sock -> HandleState]
  /\ connected \in [Sock -> BOOLEAN]
  /\ attached \in [Sock -> BOOLEAN]
  /\ completion \in [Sock -> CloseCall \union {OnClose, OnFail, None}]
  /\ shutdown \in [Sock -> BOOLEAN]
  /\ unsent \in [Sock -> BOOLEAN]
  /\ peer \in [Sock -> {"none", "up", "fin", "gone"}]
  /\ told \in [Sock -> Said]
  /\ DOMAIN target \subseteq CloseCall
  /\ target \in [DOMAIN target -> Sock \union {None}]
  /\ answered \in [CloseCall -> 0 .. 2]
  /\ over \in BOOLEAN

\* What the user is told, he is told when libuv has let go of the handle.
OverIsClosed == over => \A s \in Sock : handle[s] \in {"none", "closed"}

\* One connection at a time: what libuv still knows is the client's own socket.
OneLink ==
  \A s \in Sock : handle[s] \notin {"none", "closed"} => s = socket /\ ~destroyed

\* connection_ is a socket that was connected.
WasConnected ==
  connection # None => handle[connection] \notin {"none", "refused", "connecting"}

\* The connection that is open, and no other, can tell the client of its end.
OpenIsAttached ==
  \A s \in Sock : /\ attached[s] <=> handle[s] = "open"
                  /\ attached[s] => s = connection

\* A close() was called for the connection on socket s.
Asked(s) == \E k \in DOMAIN target : target[k] = s

Silenced(s) ==
  /\ completion[s] \in DOMAIN target
  /\ target[completion[s]] = s

PeerEnded(s) == peer[s] \in {"fin", "gone"}

\* How far a socket has come decides what the user has been told and what the
\* close callback of libuv will tell him.
Fresh(s) == /\ handle[s] \in {"none", "refused", "connecting"}
            /\ told[s] = <<>> /\ completion[s] = None /\ ~Asked(s)

Up(s) == /\ handle[s] = "open"
         /\ told[s] = <<"success">> /\ completion[s] = None /\ ~Asked(s)

Failing(s) == /\ handle[s] \in {"closing", "finishing"}
              /\ told[s] = <<>> /\ completion[s] = OnFail /\ ~Asked(s)
              /\ s # connection

Losing(s) == /\ handle[s] \in {"closing", "finishing"}
             /\ told[s] = <<"success">> /\ completion[s] = OnClose /\ ~Asked(s)
             /\ PeerEnded(s) /\ s = connection

Silencing(s) == /\ handle[s] \in {"closing", "finishing"}
                /\ told[s] = <<"success">> /\ Silenced(s)
                /\ s = connection

Failed(s) == /\ handle[s] = "closed"
             /\ told[s] = <<"fail">> /\ completion[s] = OnFail /\ ~Asked(s)
             /\ s # connection

Lost(s) == /\ handle[s] = "closed"
           /\ told[s] = <<"success", "close">> /\ completion[s] = OnClose /\ ~Asked(s)

Over(s) == /\ handle[s] = "closed"
           /\ told[s] \in {<<"success">>, <<"success", "close">>} /\ Silenced(s)

Stands(s) ==
  \/ Fresh(s) \/ Up(s) \/ Failing(s) \/ Losing(s) \/ Silencing(s)
  \/ Failed(s) \/ Lost(s) \/ Over(s)

\* What AnsweredOnce takes for an excuse.
Excused(k) ==
  /\ target[k] \in Sock
  /\ \/ PeerEnded(target[k])
     \/ \E j \in DOMAIN target \ {k} : target[j] = target[k]

\* The callback of a close() runs once more at most, when the handle is closed.
Answers(k) ==
  /\ k \notin DOMAIN target => answered[k] = 0
  /\ answered[k] > 1 => Excused(k)
  /\ \A s \in Sock :
       handle[s] \in {"closing", "finishing"} /\ completion[s] = k =>
         answered[k] <= 1 /\ (answered[k] = 1 => Excused(k))

\* A connection is shut down after the peer's EOF.
EndedFirst ==
  \A s \in Sock :
    shutdown[s] => PeerEnded(s) /\ handle[s] \in {"open", "closing", "finishing"}

Inv ==
  /\ Typed
  /\ OverIsClosed
  /\ OneLink
  /\ WasConnected
  /\ OpenIsAttached
  /\ \A s \in Sock : Stands(s)
  /\ \A k \in CloseCall : Answers(k)
  /\ EndedFirst

-----------------------------------------------------------------------------
(* Lemmas                                                                   *)

\* What a second status makes of the first.
LEMMA AppendToOne ==
  ASSUME NEW a, NEW b
  PROVE  Append(<<a>>, b) = <<a, b>>
<1> DEFINE pair == Append(<<a>>, b)
<1>1. pair \in Seq({a, b}) /\ Len(pair) = 2 /\ pair[1] = a /\ pair[2] = b
  BY AppendProperties
<1> HIDE DEF pair
<1>2. pair \in [1 .. 2 -> {a, b}]
  BY <1>1
<1>3. pair = [i \in 1 .. 2 |-> IF i = 2 THEN b ELSE <<a>>[i]]
  BY <1>1, <1>2
<1>4. [i \in 1 .. 2 |-> IF i = 2 THEN b ELSE <<a>>[i]] = <<a, b>>
  OBVIOUS
<1> QED BY <1>3, <1>4 DEF pair

\* Nothing happened to socket s, unless its peer ended the connection.
LEMMA StandsKept ==
  ASSUME NEW s \in Sock, Stands(s),
         handle'[s] = handle[s], told'[s] = told[s], completion'[s] = completion[s],
         s = connection' <=> s = connection,
         Asked(s)' => Asked(s), Silenced(s) => Silenced(s)', PeerEnded(s) => PeerEnded(s)'
  PROVE  Stands(s)'
<1>1. Fresh(s) => Fresh(s)'
  BY DEF Fresh
<1>2. Up(s) => Up(s)'
  BY DEF Up
<1>3. Failing(s) => Failing(s)'
  BY DEF Failing
<1>4. Losing(s) => Losing(s)'
  BY DEF Losing
<1>5. Silencing(s) => Silencing(s)'
  BY DEF Silencing
<1>6. Failed(s) => Failed(s)'
  BY DEF Failed
<1>7. Lost(s) => Lost(s)'
  BY DEF Lost
<1>8. Over(s) => Over(s)'
  BY DEF Over
<1> QED BY <1>1, <1>2, <1>3, <1>4, <1>5, <1>6, <1>7, <1>8 DEF Stands

LEMMA StandsFrame ==
  ASSUME NEW s \in Sock, Stands(s), target' = target,
         handle'[s] = handle[s], told'[s] = told[s], completion'[s] = completion[s],
         s = connection' <=> s = connection, PeerEnded(s) => PeerEnded(s)'
  PROVE  Stands(s)'
<1>1. (Asked(s)' => Asked(s)) /\ (Silenced(s) => Silenced(s)')
  BY DEF Asked, Silenced
<1> QED BY <1>1, StandsKept

\* The peer of a connection a close() was for may end it, and no new close() is
\* made: an excuse stays one.
LEMMA ExcusedFrame ==
  ASSUME NEW k, Excused(k), target' = target,
         \A s \in Sock : PeerEnded(s) => PeerEnded(s)'
  PROVE  Excused(k)'
  BY DEF Excused, PeerEnded

\* What a socket that is asked to close has been through.
LEMMA AskedSocket ==
  ASSUME NEW s \in Sock, Stands(s), Asked(s)
  PROVE  Silencing(s) \/ Over(s)
  BY DEF Stands, Fresh, Up, Failing, Losing, Failed, Lost

LEMMA InitInv == Init => Inv
<1> SUFFICES ASSUME Init PROVE Inv
  OBVIOUS
<1>1. Typed
  <2>1. DOMAIN target \subseteq CloseCall /\ target \in [DOMAIN target -> Sock \union {None}]
    BY DEF Init
  <2>2. told \in [Sock -> Said]
    BY DEF Init, Said
  <2>3. handle \in [Sock -> HandleState] /\ peer \in [Sock -> {"none", "up", "fin", "gone"}]
    BY DEF Init, HandleState
  <2>4. /\ answered \in [CloseCall -> 0 .. 2]
        /\ completion \in [Sock -> CloseCall \union {OnClose, OnFail, None}]
    BY DEF Init
  <2>5. connected \in [Sock -> BOOLEAN] /\ attached \in [Sock -> BOOLEAN]
    BY DEF Init
  <2>6. shutdown \in [Sock -> BOOLEAN] /\ unsent \in [Sock -> BOOLEAN]
    BY DEF Init
  <2>7. phase \in {"poll", "closing"} /\ destroyed \in BOOLEAN /\ over \in BOOLEAN
    BY DEF Init
  <2>8. {socket, connection} \subseteq Sock \union {None}
    BY DEF Init
  <2> QED BY <2>1, <2>2, <2>3, <2>4, <2>5, <2>6, <2>7, <2>8 DEF Typed
<1>2. OverIsClosed /\ OneLink /\ WasConnected /\ OpenIsAttached /\ EndedFirst
  BY DEF Init, OverIsClosed, OneLink, WasConnected, OpenIsAttached, EndedFirst
<1>3. \A s \in Sock : Stands(s)
  <2>1. ASSUME NEW s \in Sock PROVE Fresh(s)
    BY DEF Init, Fresh, Asked
  <2> QED BY <2>1 DEF Stands
<1>4. \A k \in CloseCall : Answers(k)
  BY NoneAssumption, SMT DEF Init, Answers
<1> QED BY <1>1, <1>2, <1>3, <1>4 DEF Inv

\* What opens, closes and finishes no socket.
LEMMA InvFrame ==
  ASSUME Inv, UNCHANGED <<destroyed, socket, connection, closeVars, target>>, Typed',
         \A s \in Sock : /\ PeerEnded(s) => PeerEnded(s)'
                         /\ shutdown'[s] => shutdown[s] \/ (PeerEnded(s)' /\ handle[s] = "open")
  PROVE  Inv'
<1>1. UNCHANGED <<destroyed, socket, connection, handle, attached, completion,
                  told, answered, over, target>>
  BY DEF closeVars, userVars
<1>2. OverIsClosed' /\ OneLink' /\ WasConnected' /\ OpenIsAttached' /\ EndedFirst'
  BY <1>1 DEF Inv, OverIsClosed, OneLink, WasConnected, OpenIsAttached, EndedFirst
<1>3. \A s \in Sock : Stands(s)'
  BY <1>1, StandsFrame DEF Inv
<1>4. ASSUME NEW k \in CloseCall PROVE Answers(k)'
  <2>1. Excused(k) => Excused(k)'
    BY <1>1, ExcusedFrame
  <2> QED BY <1>1, <2>1 DEF Inv, Answers
<1> QED BY <1>2, <1>3, <1>4 DEF Inv

-----------------------------------------------------------------------------
(* The steps                                                                *)

LEMMA ConnectInv ==
  ASSUME Inv, ~ActsAtOnce, NEW s \in Sock, Connect(s)
  PROVE  Inv'
<1>1. /\ ~destroyed /\ \A t \in Sock : handle[t] \in {"none", "closed"}
      /\ handle[s] = "none" /\ socket' = s
      /\ handle'[s] \in {"connecting", "refused"}
      /\ \A t \in Sock \ {s} : handle'[t] = handle[t]
      /\ UNCHANGED <<destroyed, connection, connected, attached, completion, peer,
                     shutdown, told, answered, target>>
      /\ over' = FALSE
  BY DEF Connect, MayReuse, netVars, Inv, Typed, OverIsClosed
<1>2. Typed'
  BY DEF Connect, netVars, HandleState, Inv, Typed
<1>3. OverIsClosed' /\ OneLink' /\ WasConnected' /\ OpenIsAttached' /\ EndedFirst'
  BY <1>1 DEF Inv, Typed, OverIsClosed, OneLink, WasConnected, OpenIsAttached, EndedFirst, PeerEnded
<1>4. ASSUME NEW t \in Sock PROVE Stands(t)'
  <2>1. CASE t = s
    <3>1. Fresh(s)
      BY <1>1 DEF Inv, Stands, Up, Failing, Losing, Silencing, Failed, Lost, Over
    <3>2. Fresh(s)'
      BY <1>1, <3>1 DEF Fresh, Asked
    <3> QED BY <2>1, <3>2 DEF Stands
  <2>2. CASE t # s
    BY <1>1, <2>2, StandsFrame DEF Inv, PeerEnded
  <2> QED BY <2>1, <2>2
<1>5. ASSUME NEW k \in CloseCall PROVE Answers(k)'
  <2>1. Excused(k) => Excused(k)'
    BY <1>1, ExcusedFrame DEF PeerEnded
  <2> QED BY <1>1, <2>1 DEF Inv, Answers
<1> QED BY <1>2, <1>3, <1>4, <1>5 DEF Inv

LEMMA ConnectedInv ==
  ASSUME Inv, NEW s \in Sock, Connected(s)
  PROVE  Inv'
<1>1. /\ handle[s] = "connecting" /\ s = socket /\ ~destroyed
      /\ connection' = s
      /\ handle' = [handle EXCEPT ![s] = "open"]
      /\ attached' = [attached EXCEPT ![s] = TRUE]
      /\ told' = [told EXCEPT ![s] = Append(@, "success")]
      /\ peer' = [peer EXCEPT ![s] = "up"]
      /\ UNCHANGED <<destroyed, socket, completion, shutdown, answered, over, target>>
  BY DEF Connected, Polls, Inv, OneLink
<1>2. Fresh(s)
  BY <1>1 DEF Inv, Stands, Up, Failing, Losing, Silencing, Failed, Lost, Over
<1>3. Typed'
  <2>1. told'[s] = <<"success">>
    BY <1>1, <1>2 DEF Fresh, Inv, Typed
  <2>2. told' \in [Sock -> Said]
    BY <1>1, <2>1 DEF Inv, Typed, Said
  <2> QED BY <1>1, <2>2 DEF Connected, HandleState, Inv, Typed
<1>4. \A t \in Sock \ {s} : handle[t] \in {"none", "closed"}
  BY <1>1 DEF Inv, OneLink
<1>5. OverIsClosed' /\ OneLink' /\ WasConnected' /\ OpenIsAttached'
  BY <1>1, <1>4 DEF Inv, Typed, OverIsClosed, OneLink, WasConnected, OpenIsAttached
<1>6. \A t \in Sock \ {s} : PeerEnded(t)' <=> PeerEnded(t)
  BY <1>1 DEF PeerEnded, Inv, Typed
<1>7. ASSUME NEW t \in Sock PROVE Stands(t)'
  <2>1. CASE t = s
    <3>1. told'[s] = <<"success">>
      BY <1>1, <1>2 DEF Fresh, Inv, Typed
    <3>2. Up(s)'
      BY <1>1, <1>2, <3>1 DEF Fresh, Up, Asked, Inv, Typed
    <3> QED BY <2>1, <3>2 DEF Stands
  <2>2. CASE t # s
    <3>1. handle'[t] = handle[t] /\ told'[t] = told[t] /\ completion'[t] = completion[t]
      BY <1>1, <2>2 DEF Inv, Typed
    <3>2. CASE t # connection
      BY <1>1, <1>6, <2>2, <3>1, <3>2, StandsFrame DEF Inv
    <3>3. CASE t = connection
      <4>1. Lost(t) \/ Over(t)
        BY <1>1, <1>4, <2>2, <3>3, NoneAssumption DEF Inv, WasConnected, Stands, Fresh, Up, Failing,
           Losing, Silencing, Failed
      <4>2. Lost(t)' \/ Over(t)'
        BY <1>1, <3>1, <4>1 DEF Lost, Over, Asked, Silenced
      <4> QED BY <4>2 DEF Stands
    <3> QED BY <3>2, <3>3
  <2> QED BY <2>1, <2>2
<1>8. ASSUME NEW k \in CloseCall PROVE Answers(k)'
  <2>1. k \in DOMAIN target => target[k] # s
    BY <1>2 DEF Fresh, Asked
  <2>2. k \in DOMAIN target /\ Excused(k) => Excused(k)'
    BY <1>1, <1>6, <2>1 DEF Excused
  <2> QED BY <1>1, <2>2 DEF Inv, Answers, Typed
<1>9. EndedFirst'
  BY <1>1, <1>2, <1>6 DEF Inv, EndedFirst, PeerEnded
<1> QED BY <1>3, <1>5, <1>7, <1>8, <1>9 DEF Inv

LEMMA ConnectFailedInv ==
  ASSUME Inv, NEW s \in Sock, ConnectFailed(s)
  PROVE  Inv'
<1>1. /\ handle[s] = "connecting" /\ s = socket /\ ~destroyed
      /\ handle' = [handle EXCEPT ![s] = "closing"]
      /\ completion' = [completion EXCEPT ![s] = OnFail]
      /\ UNCHANGED <<destroyed, socket, connection, attached, peer, shutdown, told,
                     answered, over, target>>
  BY DEF ConnectFailed, Polls, Inv, OneLink, AfterFailure, netVars, userVars
<1>2. Fresh(s)
  BY <1>1 DEF Inv, Stands, Up, Failing, Losing, Silencing, Failed, Lost, Over
<1>3. s # connection
  BY <1>1, NoneAssumption DEF Inv, WasConnected
<1>4. Typed'
  BY <1>1 DEF ConnectFailed, netVars, userVars, HandleState, Inv, Typed
<1>5. OverIsClosed' /\ OneLink' /\ WasConnected' /\ OpenIsAttached' /\ EndedFirst'
  BY <1>1, <1>3 DEF Inv, Typed, OverIsClosed, OneLink, WasConnected, OpenIsAttached, EndedFirst, PeerEnded
<1>6. ASSUME NEW t \in Sock PROVE Stands(t)'
  <2>1. CASE t = s
    <3>1. Failing(s)'
      BY <1>1, <1>2, <1>3 DEF Fresh, Failing, Asked, Inv, Typed
    <3> QED BY <2>1, <3>1 DEF Stands
  <2>2. CASE t # s
    <3>1. handle'[t] = handle[t] /\ told'[t] = told[t] /\ completion'[t] = completion[t]
      BY <1>1, <2>2 DEF Inv, Typed
    <3> QED BY <1>1, <3>1, StandsFrame DEF Inv, PeerEnded
  <2> QED BY <2>1, <2>2
<1>7. ASSUME NEW k \in CloseCall PROVE Answers(k)'
  <2>1. Excused(k) => Excused(k)'
    BY <1>1, ExcusedFrame DEF PeerEnded
  <2>2. k # OnFail
    BY CompletionAssumption
  <2> QED BY <1>1, <2>1, <2>2 DEF Inv, Answers, Typed
<1> QED BY <1>4, <1>5, <1>6, <1>7 DEF Inv

\* The peer's end closes the connection.
LEMMA OnSocketCloseInv ==
  ASSUME Inv, NEW s \in Sock, handle[s] = "open", PeerEnded(s), OnSocketClose(s), Typed',
         UNCHANGED <<destroyed, socket, connection, peer, target>>,
         \A t \in Sock : shutdown'[t] => shutdown[t]
  PROVE  Inv'
<1>1. /\ attached[s] /\ s = connection
      /\ handle' = [handle EXCEPT ![s] = "closing"]
      /\ attached' = [attached EXCEPT ![s] = FALSE]
      /\ completion' = [completion EXCEPT ![s] = OnClose]
      /\ UNCHANGED <<told, answered, over>>
  BY DEF OnSocketClose, CloseConnection, DropCallbacks, NewCompletion, CompletesAtOnce,
     userVars, Inv, OpenIsAttached, Typed
<1>2. Up(s)
  BY DEF Inv, Stands, Fresh, Failing, Losing, Silencing, Failed, Lost, Over
<1>3. OverIsClosed' /\ OneLink' /\ WasConnected' /\ OpenIsAttached' /\ EndedFirst'
  BY <1>1 DEF Inv, Typed, OverIsClosed, OneLink, WasConnected, OpenIsAttached, EndedFirst, PeerEnded
<1>4. ASSUME NEW t \in Sock PROVE Stands(t)'
  <2>1. CASE t = s
    <3>1. Losing(s)'
      BY <1>1, <1>2 DEF Up, Losing, Asked, PeerEnded, Inv, Typed
    <3> QED BY <2>1, <3>1 DEF Stands
  <2>2. CASE t # s
    <3>1. handle'[t] = handle[t] /\ told'[t] = told[t] /\ completion'[t] = completion[t]
      BY <1>1, <2>2 DEF Inv, Typed
    <3> QED BY <1>1, <3>1, StandsFrame DEF Inv, PeerEnded
  <2> QED BY <2>1, <2>2
<1>5. ASSUME NEW k \in CloseCall PROVE Answers(k)'
  <2>1. Excused(k) => Excused(k)'
    BY <1>1, ExcusedFrame DEF PeerEnded
  <2>2. k # OnClose
    BY CompletionAssumption
  <2> QED BY <1>1, <2>1, <2>2 DEF Inv, Answers, Typed
<1> QED BY <1>3, <1>4, <1>5 DEF Inv

LEMMA PollDoneInv ==
  ASSUME Inv, PollDone
  PROVE  Inv'
<1>1. /\ handle' = [s \in Sock |->
                      IF handle[s] = "closing" THEN "finishing" ELSE handle[s]]
      /\ UNCHANGED <<destroyed, socket, connection, attached, completion, peer, shutdown,
                     told, answered, over, target>>
  BY DEF PollDone, netVars, userVars
<1>2. Typed'
  BY <1>1 DEF PollDone, netVars, userVars, HandleState, Inv, Typed
<1>3. OverIsClosed' /\ OneLink' /\ OpenIsAttached' /\ EndedFirst'
  BY <1>1 DEF Inv, OverIsClosed, OneLink, OpenIsAttached, EndedFirst, PeerEnded
<1>4. WasConnected'
  BY <1>1 DEF Inv, Typed, WasConnected
<1>5. ASSUME NEW s \in Sock PROVE Stands(s)'
  <2>1. CASE handle[s] = "closing"
    <3>1. Failing(s) \/ Losing(s) \/ Silencing(s)
      BY <2>1 DEF Inv, Stands, Fresh, Up, Failed, Lost, Over
    <3>2. Failing(s)' \/ Losing(s)' \/ Silencing(s)'
      BY <1>1, <2>1, <3>1 DEF Failing, Losing, Silencing, Silenced, Asked, PeerEnded
    <3> QED BY <3>2 DEF Stands
  <2>2. CASE handle[s] # "closing"
    BY <1>1, <2>2, StandsFrame DEF Inv, PeerEnded
  <2> QED BY <2>1, <2>2
<1>6. ASSUME NEW k \in CloseCall PROVE Answers(k)'
  <2>1. Excused(k) => Excused(k)'
    BY <1>1, ExcusedFrame DEF PeerEnded
  <2> QED BY <1>1, <2>1 DEF Inv, Answers
<1> QED BY <1>2, <1>3, <1>4, <1>5, <1>6 DEF Inv

LEMMA FinishInv ==
  ASSUME Inv, NEW s \in Sock, Finish(s)
  PROVE  Inv'
<1>1. /\ handle[s] = "finishing"
      /\ handle' = [handle EXCEPT ![s] = "closed"]
      /\ shutdown' = [shutdown EXCEPT ![s] = FALSE]
      /\ Completes(s, completion[s])
      /\ UNCHANGED <<destroyed, socket, connection, attached, completion, peer, target>>
  BY DEF Finish
<1>2. /\ told' = [told EXCEPT ![s] =
                    CASE completion[s] = OnClose -> Append(@, "close")
                      [] completion[s] = OnFail -> Append(@, "fail")
                      [] OTHER -> @]
      /\ answered' = [k \in CloseCall |->
                        IF completion[s] = k THEN answered[k] + 1 ELSE answered[k]]
  BY <1>1 DEF Completes, Inv, Typed
<1>3. ASSUME NEW t \in Sock, t # s PROVE Stands(t)'
  <2>1. handle'[t] = handle[t] /\ told'[t] = told[t] /\ completion'[t] = completion[t]
    BY <1>1, <1>2, <1>3 DEF Inv, Typed
  <2> QED BY <1>1, <2>1, StandsFrame DEF Inv, PeerEnded
<1>4. Failing(s) \/ Losing(s) \/ Silencing(s)
  BY <1>1 DEF Inv, Stands, Fresh, Up, Failed, Lost, Over
<1>5. Stands(s)' /\ told'[s] \in Said
  <2> USE CompletionAssumption DEF Said
  <2>1. CASE Failing(s)
    <3>1. told'[s] = <<"fail">>
      BY <1>2, <2>1 DEF Failing, Inv, Typed
    <3>2. Failed(s)'
      BY <1>1, <2>1, <3>1 DEF Failing, Failed, Asked, Inv, Typed
    <3> QED BY <3>1, <3>2 DEF Stands
  <2>2. CASE Losing(s)
    <3>1. told'[s] = Append(<<"success">>, "close")
      BY <1>2, <2>2 DEF Losing, Inv, Typed
    <3>2. told'[s] = <<"success", "close">>
      BY <3>1, AppendToOne
    <3>3. Lost(s)'
      BY <1>1, <2>2, <3>2 DEF Losing, Lost, Asked, Inv, Typed
    <3> QED BY <3>2, <3>3 DEF Stands
  <2>3. CASE Silencing(s)
    <3>1. completion[s] \in CloseCall
      BY <2>3 DEF Silencing, Silenced, Inv, Typed
    <3>2. told'[s] = <<"success">>
      BY <1>2, <2>3, <3>1 DEF Silencing, Inv, Typed
    <3>3. Over(s)'
      BY <1>1, <2>3, <3>2 DEF Silencing, Over, Silenced, Inv, Typed
    <3> QED BY <3>2, <3>3 DEF Stands
  <2> QED BY <1>4, <2>1, <2>2, <2>3
<1>6. \A k \in CloseCall : completion[s] = k => answered[k] <= 1
  BY <1>1 DEF Inv, Answers
<1>7. Typed'
  <2>1. told' \in [Sock -> Said]
    BY <1>2, <1>5 DEF Inv, Typed
  <2>2. answered' \in [CloseCall -> 0 .. 2]
    BY <1>2, <1>6 DEF Inv, Typed
  <2> QED BY <1>1, <1>2, <2>1, <2>2 DEF Finish, HandleState, Inv, Typed
<1>8. OverIsClosed' /\ OneLink' /\ WasConnected' /\ OpenIsAttached' /\ EndedFirst'
  BY <1>1 DEF Inv, Typed, OverIsClosed, OneLink, WasConnected, OpenIsAttached, EndedFirst, PeerEnded
<1>9. ASSUME NEW k \in CloseCall PROVE Answers(k)'
  <2>1. Excused(k) => Excused(k)'
    BY <1>1, ExcusedFrame DEF PeerEnded
  <2>2. CASE completion[s] # k
    BY <1>1, <1>2, <2>1, <2>2 DEF Inv, Answers, Typed
  <2>3. CASE completion[s] = k
    <3>1. k \in DOMAIN target /\ target[k] = s
      BY <1>4, <2>3, CompletionAssumption DEF Failing, Losing, Silencing, Silenced
    <3>2. answered'[k] = answered[k] + 1 /\ answered[k] \in 0 .. 2
      BY <1>2, <2>3 DEF Inv, Typed
    <3>3. answered'[k] > 1 => Excused(k)'
      BY <1>1, <2>1, <2>3, <3>2 DEF Inv, Answers
    <3>4. \A t \in Sock : handle'[t] \in {"closing", "finishing"} => completion'[t] # k
      <4>1. ASSUME NEW t \in Sock, handle'[t] \in {"closing", "finishing"},
                   completion'[t] = k
            PROVE  FALSE
        <5>1. t # s /\ handle[t] \in {"closing", "finishing"} /\ completion[t] = k
          BY <1>1, <4>1 DEF Inv, Typed
        <5>2. handle[s] \in {"closing", "finishing"} => s = socket
          BY DEF Inv, OneLink
        <5> QED BY <1>1, <5>1, <5>2 DEF Inv, OneLink
      <4> QED BY <4>1
    <3> QED BY <1>1, <3>1, <3>3, <3>4 DEF Answers
  <2> QED BY <2>2, <2>3
<1> QED BY <1>3, <1>5, <1>7, <1>8, <1>9 DEF Inv

LEMMA CloseInv ==
  ASSUME Inv, ~ActsAtOnce, NEW k \in CloseCall, Close(k)
  PROVE  Inv'
<1>1. /\ k \notin DOMAIN target /\ DOMAIN target' = DOMAIN target \union {k}
      /\ target'[k] = connection
      /\ \A j \in DOMAIN target : target'[j] = target[j]
      /\ UNCHANGED <<phase, destroyed, socket, connection, connected, shutdown, unsent,
                     peer>>
  BY DEF Close, netVars, Inv, Typed
<1>2. target' \in [DOMAIN target' -> Sock \union {None}] /\ DOMAIN target' \subseteq CloseCall
  BY <1>1 DEF Close, Inv, Typed
<1>3. ASSUME NEW t \in Sock, t # connection,
             handle'[t] = handle[t], told'[t] = told[t], completion'[t] = completion[t]
      PROVE  Stands(t)'
  <2>1. (Asked(t)' => Asked(t)) /\ (Silenced(t) => Silenced(t)')
    BY <1>1, <1>3 DEF Asked, Silenced
  <2> QED BY <1>1, <1>3, <2>1, StandsKept DEF Inv, PeerEnded
<1>4. \A j \in DOMAIN target : Excused(j) => Excused(j)'
  BY <1>1 DEF Excused, PeerEnded
<1>5. answered[k] = 0
  BY <1>1 DEF Inv, Answers
<1>6. \A s \in Sock : handle[s] \in {"closing", "finishing"} => completion[s] # k
  <2>1. ASSUME NEW s \in Sock, handle[s] \in {"closing", "finishing"}, completion[s] = k
        PROVE  FALSE
    <3>1. Failing(s) \/ Losing(s) \/ Silencing(s)
      BY <2>1 DEF Inv, Stands, Fresh, Up, Failed, Lost, Over
    <3> QED BY <1>1, <2>1, <3>1, CompletionAssumption DEF Failing, Losing, Silencing, Silenced
  <2> QED BY <2>1
<1>7. CASE connection = None
  <2>1. /\ answered' = [answered EXCEPT ![k] = 1]
        /\ over' = over
        /\ UNCHANGED <<handle, attached, completion, told>>
    BY <1>5, <1>7 DEF Close, Inv, Typed
  <2>2. Typed'
    BY <1>1, <1>2, <2>1 DEF Inv, Typed
  <2>3. OverIsClosed' /\ OneLink' /\ WasConnected' /\ OpenIsAttached' /\ EndedFirst'
    BY <1>1, <2>1 DEF Inv, OverIsClosed, OneLink, WasConnected, OpenIsAttached, EndedFirst, PeerEnded
  <2>4. \A t \in Sock : Stands(t)'
    BY <1>3, <1>7, <2>1, NoneAssumption
  <2>5. ASSUME NEW j \in CloseCall PROVE Answers(j)'
    <3>1. CASE j = k
      BY <1>1, <1>6, <2>1, <3>1 DEF Inv, Typed, Answers
    <3>2. CASE j # k
      BY <1>1, <1>4, <2>1, <3>2 DEF Inv, Typed, Answers
    <3> QED BY <3>1, <3>2
  <2> QED BY <2>2, <2>3, <2>4, <2>5 DEF Inv
<1>8. ASSUME NEW s \in Sock, connection = s PROVE Inv'
  <2>1. /\ attached' = [attached EXCEPT ![s] = FALSE]
        /\ completion' = [completion EXCEPT ![s] = k]
        /\ handle' = [handle EXCEPT ![s] = IF @ = "open" THEN "closing" ELSE @]
        /\ IF handle[s] # "open" THEN Completes(s, k) ELSE UNCHANGED userVars
        /\ over' = over
    BY <1>8, NoneAssumption DEF Close, CloseConnection, DropCallbacks, NewCompletion,
       CompletesAtOnce, userVars, Inv, Typed
  <2>2. Up(s) \/ Losing(s) \/ Silencing(s) \/ Lost(s) \/ Over(s)
    BY <1>8, NoneAssumption DEF Inv, WasConnected, Stands, Fresh, Failing, Failed
  <2>3. /\ UNCHANGED told
        /\ answered' = IF handle[s] = "open" THEN answered ELSE [answered EXCEPT ![k] = 1]
    <3>1. CASE handle[s] = "open"
      BY <2>1, <3>1 DEF userVars, Inv, Typed
    <3>2. CASE handle[s] # "open"
      <4>1. told' = [told EXCEPT ![s] = @]
        BY <2>1, <3>2, CompletionAssumption DEF Completes
      <4>2. told' = told
        BY <4>1 DEF Inv, Typed
      <4>3. answered' = [answered EXCEPT ![k] = 1]
        BY <1>5, <2>1, <3>2 DEF Completes, Inv, Typed
      <4> QED BY <3>2, <4>1, <4>2, <4>3
    <3> QED BY <3>1, <3>2
  <2>4. Typed'
    <3>1. answered' \in [CloseCall -> 0 .. 2]
      BY <2>3 DEF Inv, Typed
    <3> QED BY <1>1, <1>2, <2>1, <2>3, <3>1 DEF HandleState, Inv, Typed
  <2>5. OverIsClosed' /\ OneLink' /\ WasConnected' /\ OpenIsAttached' /\ EndedFirst'
    BY <1>1, <1>8, <2>1 DEF Inv, Typed, OverIsClosed, OneLink, WasConnected, OpenIsAttached, EndedFirst,
       PeerEnded
  <2>6. ASSUME NEW t \in Sock PROVE Stands(t)'
    <3>1. CASE t # s
      BY <1>3, <1>8, <2>1, <2>3, <3>1 DEF Inv, Typed
    <3>2. CASE t = s
      <4>1. Silenced(s)'
        BY <1>1, <1>8, <2>1 DEF Silenced, Inv, Typed
      <4>2. CASE Up(s) \/ Losing(s) \/ Silencing(s)
        <5>1. Silencing(s)'
          BY <1>1, <1>8, <2>1, <2>3, <4>1, <4>2 DEF Up, Losing, Silencing, Inv, Typed
        <5> QED BY <3>2, <5>1 DEF Stands
      <4>3. CASE Lost(s) \/ Over(s)
        <5>1. Over(s)'
          BY <2>1, <2>3, <4>1, <4>3 DEF Lost, Over, Inv, Typed
        <5> QED BY <3>2, <5>1 DEF Stands
      <4> QED BY <2>2, <4>2, <4>3
    <3> QED BY <3>1, <3>2
  <2>7. ASSUME NEW j \in CloseCall PROVE Answers(j)'
    <3>1. CASE j # k
      <4>1. \A t \in Sock :
              handle'[t] \in {"closing", "finishing"} /\ completion'[t] = j =>
                handle[t] \in {"closing", "finishing"} /\ completion[t] = j
        BY <2>1, <3>1 DEF Inv, Typed
      <4>2. answered'[j] = answered[j]
        BY <2>3, <3>1 DEF Inv, Typed
      <4> QED BY <1>1, <1>4, <3>1, <4>1, <4>2 DEF Inv, Typed, Answers
    <3>2. CASE j = k
      <4>1. answered'[k] = IF handle[s] = "open" THEN 0 ELSE 1
        BY <1>5, <2>3 DEF Inv, Typed
      <4>2. \A t \in Sock : handle'[t] \in {"closing", "finishing"} /\ completion'[t] = k => t = s
        BY <1>6, <2>1 DEF Inv, Typed
      <4>3. CASE Losing(s) \/ Silencing(s)
        <5>1. Losing(s) => Excused(k)'
          BY <1>1, <1>8 DEF Losing, Excused, PeerEnded
        <5>2. Silencing(s) => Excused(k)'
          BY <1>1, <1>8 DEF Silencing, Silenced, Excused
        <5> QED BY <1>1, <3>2, <4>1, <4>2, <4>3, <5>1, <5>2 DEF Answers
      <4>4. CASE Up(s)
        BY <1>1, <3>2, <4>1, <4>4 DEF Answers, Up
      <4>5. CASE Lost(s) \/ Over(s)
        <5>1. handle'[s] = "closed"
          BY <2>1, <4>5 DEF Lost, Over, Inv, Typed
        <5> QED BY <1>1, <3>2, <4>1, <4>2, <5>1 DEF Answers
      <4> QED BY <2>2, <4>3, <4>4, <4>5
    <3> QED BY <3>1, <3>2
  <2> QED BY <2>4, <2>5, <2>6, <2>7 DEF Inv
<1> QED BY <1>7, <1>8 DEF Inv, Typed

\* What is left: steps that open, close and finish no socket.
LEMMA QuietInv ==
  ASSUME Inv,
         \/ Write \/ ClosingDone \/ UNCHANGED vars
         \/ \E s \in Sock : ReadEof(s) \/ WriteDone(s) \/ PeerEnds(s)
  PROVE  Inv'
<1>1. ASSUME NEW s \in Sock, ReadEof(s) PROVE Inv'
  <2>1. Typed'
    BY <1>1 DEF ReadEof, closeVars, userVars, Inv, Typed
  <2>2. UNCHANGED <<destroyed, socket, connection, closeVars, target, peer>>
    BY <1>1 DEF ReadEof
  <2>3. \A t \in Sock : shutdown'[t] => shutdown[t] \/ (PeerEnded(t)' /\ handle[t] = "open")
    BY <1>1 DEF ReadEof, Polls, PeerEnded, Inv, Typed
  <2> QED BY <2>1, <2>2, <2>3, InvFrame DEF PeerEnded
<1>2. ASSUME NEW s \in Sock, WriteDone(s) PROVE Inv'
  <2>1. Typed'
    BY <1>2 DEF WriteDone, closeVars, userVars, Inv, Typed
  <2> QED BY <1>2, <2>1, InvFrame DEF WriteDone, PeerEnded
<1>3. ASSUME NEW s \in Sock, PeerEnds(s) PROVE Inv'
  <2>1. PICK end \in {"fin", "gone"} : peer[s] \notin {end, "gone"} /\ peer' = [peer EXCEPT ![s] = end]
    BY <1>3 DEF PeerEnds
  <2>2. Typed'
    BY <1>3, <2>1 DEF PeerEnds, closeVars, userVars, Inv, Typed
  <2>3. \A t \in Sock : PeerEnded(t) => PeerEnded(t)'
    BY <2>1 DEF PeerEnded, Inv, Typed
  <2> QED BY <1>3, <2>2, <2>3, InvFrame DEF PeerEnds
<1>4. CASE Write
  <2>1. Typed'
    BY <1>4, NoneAssumption DEF Write, closeVars, userVars, Inv, Typed
  <2> QED BY <1>4, <2>1, InvFrame DEF Write, PeerEnded
<1>5. CASE ClosingDone
  <2>1. Typed'
    BY <1>5 DEF ClosingDone, closeVars, userVars, netVars, Inv, Typed
  <2> QED BY <1>5, <2>1, InvFrame DEF ClosingDone, netVars, PeerEnded
<1>6. CASE UNCHANGED vars
  <2>1. Typed'
    BY <1>6 DEF vars, closeVars, userVars, netVars, Inv, Typed
  <2> QED BY <1>6, <2>1, InvFrame DEF vars, netVars, PeerEnded
<1> QED BY <1>1, <1>2, <1>3, <1>4, <1>5, <1>6

\* The client is deleted when libuv knows none of its sockets.
LEMMA DestroyInv ==
  ASSUME Inv, ~ActsAtOnce, Destroy
  PROVE  Inv'
<1>1. /\ \A s \in Sock : handle[s] \in {"none", "closed"}
      /\ UNCHANGED <<socket, connection, handle, attached, completion, peer, shutdown,
                     told, answered, over, target>>
  BY DEF Destroy, MayReuse, closeVars, userVars, netVars, Inv, OverIsClosed
<1>2. Typed'
  BY DEF Destroy, closeVars, userVars, netVars, Inv, Typed
<1>3. OverIsClosed' /\ OneLink' /\ WasConnected' /\ OpenIsAttached' /\ EndedFirst'
  BY <1>1 DEF Inv, OverIsClosed, OneLink, WasConnected, OpenIsAttached, EndedFirst, PeerEnded
<1>4. \A s \in Sock : Stands(s)'
  BY <1>1, StandsFrame DEF Inv, PeerEnded
<1>5. ASSUME NEW k \in CloseCall PROVE Answers(k)'
  <2>1. Excused(k) => Excused(k)'
    BY <1>1, ExcusedFrame DEF PeerEnded
  <2> QED BY <1>1, <2>1 DEF Inv, Answers
<1> QED BY <1>2, <1>3, <1>4, <1>5 DEF Inv

LEMMA StepInv ==
  ASSUME Inv, ~ActsAtOnce, [Next]_vars
  PROVE  Inv'
<1>1. ASSUME NEW s \in Sock, ReadError(s) \/ ShutdownDone(s) PROVE Inv'
  <2>1. /\ handle[s] = "open" /\ PeerEnded(s) /\ OnSocketClose(s)
        /\ UNCHANGED <<destroyed, socket, connection, peer, target>>
        /\ \A t \in Sock : shutdown'[t] => shutdown[t]
    BY <1>1 DEF ReadError, ShutdownDone, Polls, PeerEnded, netVars, Inv, Typed, EndedFirst
  <2>2. /\ attached[s] /\ s = connection
    BY <2>1 DEF Inv, OpenIsAttached
  <2>3. /\ attached' = [attached EXCEPT ![s] = FALSE]
        /\ completion' = [completion EXCEPT ![s] = OnClose]
        /\ handle' = [handle EXCEPT ![s] = "closing"]
        /\ UNCHANGED userVars
    BY <2>1, <2>2 DEF OnSocketClose, CloseConnection, DropCallbacks, NewCompletion,
       CompletesAtOnce, Inv, Typed
  <2>4. /\ connected' \in [Sock -> BOOLEAN] /\ shutdown' \in [Sock -> BOOLEAN]
        /\ UNCHANGED <<phase, unsent>>
    BY <1>1 DEF ReadError, ShutdownDone, netVars, Inv, Typed
  <2>5. Typed'
    BY <2>1, <2>3, <2>4 DEF userVars, HandleState, Inv, Typed
  <2> QED BY <2>1, <2>5, OnSocketCloseInv
<1> QED BY <1>1, ConnectInv, ConnectedInv, ConnectFailedInv, PollDoneInv, FinishInv,
       CloseInv, QuietInv, DestroyInv DEF Next

LEMMA InvHolds ==
  ASSUME ~ActsAtOnce
  PROVE  Spec => []Inv
<1>1. Inv /\ [Next]_vars => Inv'
  BY StepInv
<1> QED BY <1>1, InitInv, PTL DEF Spec

-----------------------------------------------------------------------------
(* Theorems                                                                 *)

\* Every variable has its type: of a connect() the user is told nothing, its failure,
\* its success, or its success and then its end, and the callback of a close() runs
\* twice at most.
THEOREM TypeCorrect ==
  ASSUME ~ActsAtOnce
  PROVE  Spec => []TypeOK
<1>1. Inv => TypeOK
  <2> SUFFICES ASSUME Inv PROVE TypeOK
    OBVIOUS
  <2>1. \E made \in SUBSET CloseCall : target \in [made -> Sock \union {None}]
    <3>1. DOMAIN target \in SUBSET CloseCall
      BY DEF Inv, Typed
    <3> QED BY <3>1 DEF Inv, Typed
  <2> QED BY <2>1 DEF Inv, Typed, TypeOK, Said
<1> QED BY <1>1, InvHolds, PTL

\* A uv_tcp_t libuv knows is socket_ of a client that has not been deleted, across
\* reconnects, failed connects and closes from either side.
THEOREM HandleOutlivesLibuvHolds ==
  ASSUME ~ActsAtOnce
  PROVE  Spec => []HandleOutlivesLibuv
<1>1. Inv => HandleOutlivesLibuv
  BY DEF Inv, OneLink, HandleOutlivesLibuv, Alive
<1> QED BY <1>1, InvHolds, PTL

\* The one connection that can call on_connect_close() is the one it closes.
THEOREM AttachedIsCurrentHolds ==
  ASSUME ~ActsAtOnce
  PROVE  Spec => []AttachedIsCurrent
<1>1. Inv => AttachedIsCurrent
  BY DEF Inv, OpenIsAttached, AttachedIsCurrent
<1> QED BY <1>1, InvHolds, PTL

\* The callback of a close() runs twice only where the connection was being closed
\* already, by the peer's end or by another close().
THEOREM AnsweredOnceHolds ==
  ASSUME ~ActsAtOnce
  PROVE  Spec => []AnsweredOnce
<1>1. Inv => AnsweredOnce
  BY DEF Inv, Answers, Excused, PeerEnded, AnsweredOnce
<1> QED BY <1>1, InvHolds, PTL

-----------------------------------------------------------------------------
(* The refinement                                                           *)

\* What Link takes for the standing of a connect().
LinkOf(s) ==
  CASE told[s] = <<>> -> Unheard(s)
    [] told[s] = <<"fail">> -> "failed"
    [] told[s] = <<"success">> -> IF Asked(s) THEN "silent" ELSE "up"
    [] told[s] = <<"success", "close">> -> "over"
    [] OTHER -> "told too much"

Links == [s \in Sock |-> LinkOf(s)]

\* How a socket stands is what Link says of it.
LEMMA LinkIs ==
  ASSUME NEW s \in Sock
  PROVE  /\ Fresh(s) => LinkOf(s) = Unheard(s)
         /\ Up(s) \/ Losing(s) => LinkOf(s) = "up"
         /\ Failing(s) => LinkOf(s) = "pending"
         /\ Silencing(s) => LinkOf(s) = "silent"
         /\ Failed(s) => LinkOf(s) = "failed"
         /\ Lost(s) => LinkOf(s) = "over"
         /\ Over(s) => \/ told[s] = <<"success">> /\ LinkOf(s) = "silent"
                       \/ told[s] = <<"success", "close">> /\ LinkOf(s) = "over"
<1>1. Silenced(s) => Asked(s)
  BY DEF Silenced, Asked
<1>2. Fresh(s) => LinkOf(s) = Unheard(s)
  BY DEF Fresh, LinkOf
<1>3. Up(s) \/ Losing(s) => LinkOf(s) = "up"
  BY DEF Up, Losing, LinkOf
<1>4. Failing(s) => LinkOf(s) = "pending"
  BY DEF Failing, LinkOf, Unheard
<1>5. Silencing(s) => LinkOf(s) = "silent"
  BY <1>1 DEF Silencing, LinkOf
<1>6. Failed(s) => LinkOf(s) = "failed"
  BY DEF Failed, LinkOf
<1>7. Lost(s) => LinkOf(s) = "over"
  BY DEF Lost, LinkOf
<1>8. Over(s) /\ told[s] = <<"success">> => LinkOf(s) = "silent"
  BY <1>1 DEF Over, LinkOf
<1>9. told[s] = <<"success", "close">> => LinkOf(s) = "over"
  BY DEF LinkOf
<1> QED BY <1>2, <1>3, <1>4, <1>5, <1>6, <1>7, <1>8, <1>9 DEF Over

\* A link that nothing happened to stands where it stood.
LEMMA LinkKept ==
  ASSUME NEW s \in Sock, told'[s] = told[s], handle'[s] = handle[s],
         Asked(s)' <=> Asked(s)
  PROVE  LinkOf(s)' = LinkOf(s)
  BY DEF LinkOf, Unheard

\* What is needed of a step of one socket to be a step of its link.
LEMMA LinkMoves ==
  ASSUME NEW s \in Sock, NEW from, NEW to,
         LinkOf(s) = from, LinkOf(s)' = to,
         \A t \in Sock \ {s} : LinkOf(t)' = LinkOf(t)
  PROVE  Link!Move(s, from, to)
<1>1. Links[s] = from
  BY DEF Links
<1>2. Links' = [Links EXCEPT ![s] = to]
  BY DEF Links
<1>3. Links[s] = from /\ Links' = [Links EXCEPT ![s] = to] <=> Link!Move(s, from, to)
  BY Zenon DEF Links, LinkOf, Link!Move, Asked
<1> QED BY <1>1, <1>2, <1>3

\* A step that tells the user nothing and closes nothing for him leaves the links.
LEMMA LinksKept ==
  ASSUME \A s \in Sock : LinkOf(s)' = LinkOf(s)
  PROVE  Links' = Links
  BY DEF Links

LEMMA ConnectLink ==
  ASSUME Inv, NEW s \in Sock, Connect(s)
  PROVE  Link!Begin(s)
<1>1. /\ handle[s] = "none" /\ handle'[s] \in {"connecting", "refused"}
      /\ \A t \in Sock \ {s} : handle'[t] = handle[t]
      /\ UNCHANGED <<told, target>>
  BY DEF Connect, Inv, Typed
<1>2. Fresh(s)
  BY <1>1 DEF Inv, Stands, Up, Failing, Losing, Silencing, Failed, Lost, Over
<1>3. \A t \in Sock \ {s} : LinkOf(t)' = LinkOf(t)
  BY <1>1, LinkKept DEF Asked
<1>4. LinkOf(s) = "idle"
  BY <1>1, <1>2, LinkIs DEF Unheard
<1>5. told'[s] = <<>>
  BY <1>1, <1>2 DEF Fresh
<1>6. LinkOf(s)' = Unheard(s)'
  BY <1>5 DEF LinkOf
<1>7. LinkOf(s)' \in {"pending", "refused"}
  BY <1>1, <1>6 DEF Unheard
<1> QED BY <1>3, <1>4, <1>7, LinkMoves DEF Link!Begin

LEMMA ConnectedLink ==
  ASSUME Inv, NEW s \in Sock, Connected(s)
  PROVE  Link!Succeed(s)
<1>1. /\ handle[s] = "connecting" /\ handle' = [handle EXCEPT ![s] = "open"]
      /\ told' = [told EXCEPT ![s] = Append(@, "success")]
      /\ UNCHANGED target
  BY DEF Connected, Polls, Inv, OneLink
<1>2. Fresh(s)
  BY <1>1 DEF Inv, Stands, Up, Failing, Losing, Silencing, Failed, Lost, Over
<1>3. \A t \in Sock \ {s} : LinkOf(t)' = LinkOf(t)
  BY <1>1, LinkKept DEF Asked, Inv, Typed
<1>4. LinkOf(s) = "pending"
  BY <1>1, <1>2, LinkIs DEF Unheard
<1>5. told'[s] = <<"success">> /\ ~Asked(s)'
  BY <1>1, <1>2 DEF Fresh, Asked, Inv, Typed
<1>6. LinkOf(s)' = "up"
  BY <1>5 DEF LinkOf
<1> QED BY <1>3, <1>4, <1>6, LinkMoves DEF Link!Succeed

\* What the close callback of libuv tells the user is the failure or the loss of
\* the link, or nothing of a link he has closed.
LEMMA FinishLink ==
  ASSUME Inv, NEW s \in Sock, Finish(s)
  PROVE  Link!Fail(s) \/ Link!Lose(s) \/ Links' = Links
<1>1. /\ handle[s] = "finishing" /\ handle' = [handle EXCEPT ![s] = "closed"]
      /\ UNCHANGED <<connection, completion, target>>
      /\ told' = [told EXCEPT ![s] =
                    CASE completion[s] = OnClose -> Append(@, "close")
                      [] completion[s] = OnFail -> Append(@, "fail")
                      [] OTHER -> @]
  BY DEF Finish, Completes
<1>2. \A t \in Sock \ {s} : LinkOf(t)' = LinkOf(t)
  BY <1>1, LinkKept DEF Asked, Inv, Typed
<1>3. Failing(s) \/ Losing(s) \/ Silencing(s)
  BY <1>1 DEF Inv, Stands, Fresh, Up, Failed, Lost, Over
<1>4. CASE Failing(s)
  <2>1. told'[s] = <<"fail">>
    BY <1>1, <1>4, CompletionAssumption DEF Failing, Inv, Typed
  <2>2. LinkOf(s)' = "failed"
    BY <2>1 DEF LinkOf
  <2> QED BY <1>2, <1>4, <2>2, LinkIs, LinkMoves DEF Link!Fail
<1>5. CASE Losing(s)
  <2>1. told'[s] = Append(<<"success">>, "close")
    BY <1>1, <1>5, CompletionAssumption DEF Losing, Inv, Typed
  <2>2. told'[s] = <<"success", "close">>
    BY <2>1, AppendToOne
  <2>3. LinkOf(s)' = "over"
    BY <2>2 DEF LinkOf
  <2> QED BY <1>2, <1>5, <2>3, LinkIs, LinkMoves DEF Link!Lose
<1>6. CASE Silencing(s)
  <2>1. completion[s] \in CloseCall
    BY <1>6 DEF Silencing, Silenced, Inv, Typed
  <2>2. told'[s] = <<"success">> /\ Asked(s)'
    BY <1>1, <1>6, <2>1, CompletionAssumption DEF Silencing, Silenced, Asked, Inv, Typed
  <2>3. LinkOf(s)' = "silent"
    BY <2>2 DEF LinkOf
  <2>4. LinkOf(s) = "silent"
    BY <1>6, LinkIs
  <2> QED BY <1>2, <2>3, <2>4, LinksKept
<1> QED BY <1>3, <1>4, <1>5, <1>6

\* A close() silences the link, unless it is over or silent already.
LEMMA CloseLink ==
  ASSUME Inv, NEW k \in CloseCall, Close(k)
  PROVE  (\E s \in Sock : Link!Silence(s)) \/ Links' = Links
<1>1. /\ k \notin DOMAIN target /\ DOMAIN target' = DOMAIN target \union {k}
      /\ target'[k] = connection
      /\ \A j \in DOMAIN target : target'[j] = target[j]
  BY DEF Close, Inv, Typed
<1>2. \A t \in Sock : t # connection => (Asked(t)' <=> Asked(t))
  BY <1>1 DEF Asked
<1>3. CASE connection = None
  <2>1. UNCHANGED <<handle, told>>
    BY <1>3 DEF Close
  <2> QED BY <1>2, <1>3, <2>1, NoneAssumption, LinkKept, LinksKept
<1>4. ASSUME NEW s \in Sock, connection = s
      PROVE  Link!Silence(s) \/ Links' = Links
  <2>1. /\ handle' = [handle EXCEPT ![s] = IF @ = "open" THEN "closing" ELSE @]
        /\ told' = told \/ told' = [told EXCEPT ![s] = @]
    BY <1>4, NoneAssumption, CompletionAssumption DEF Close, CloseConnection, NewCompletion,
       CompletesAtOnce, Completes, userVars, Inv, Typed
  <2>2. told' = told
    BY <2>1 DEF Inv, Typed
  <2>3. \A t \in Sock \ {s} : LinkOf(t)' = LinkOf(t)
    BY <1>2, <1>4, <2>1, <2>2, LinkKept DEF Inv, Typed
  <2>4. Asked(s)'
    BY <1>1, <1>4 DEF Asked
  <2>5. Up(s) \/ Losing(s) \/ Silencing(s) \/ Lost(s) \/ Over(s)
    BY <1>4, NoneAssumption DEF Inv, WasConnected, Stands, Fresh, Failing, Failed
  <2>6. CASE told[s] = <<"success">>
    <3>1. LinkOf(s)' = "silent"
      BY <2>2, <2>4, <2>6 DEF LinkOf
    <3>2. LinkOf(s) = "up" \/ LinkOf(s) = "silent"
      BY <2>6 DEF LinkOf
    <3> QED BY <2>3, <3>1, <3>2, LinkMoves, LinksKept DEF Link!Silence
  <2>7. CASE told[s] = <<"success", "close">>
    <3>1. LinkOf(s)' = "over" /\ LinkOf(s) = "over"
      BY <2>2, <2>7 DEF LinkOf
    <3> QED BY <2>3, <3>1, LinksKept
  <2> QED BY <2>5, <2>6, <2>7 DEF Up, Losing, Silencing, Lost, Over
<1> QED BY <1>3, <1>4 DEF Inv, Typed

\* A socket that closes in silence.
LEMMA LinkSettled ==
  ASSUME NEW s \in Sock, told'[s] = told[s], Asked(s)' <=> Asked(s),
         handle'[s] = handle[s] \/
           {handle[s], handle'[s]} \intersect {"none", "refused"} = {}
  PROVE  LinkOf(s)' = LinkOf(s)
<1>1. Unheard(s)' = Unheard(s)
  BY DEF Unheard
<1> QED BY <1>1 DEF LinkOf

\* Each step of the client is a step of one of its links, or of none.
LEMMA StepImplements ==
  ASSUME Inv, [Next]_vars
  PROVE  (\E s \in Sock : \/ Link!Begin(s) \/ Link!Succeed(s) \/ Link!Fail(s)
                          \/ Link!Lose(s) \/ Link!Silence(s))
         \/ Links' = Links
<1>1. ASSUME NEW s \in Sock, ReadError(s) \/ ShutdownDone(s) \/ ConnectFailed(s)
      PROVE  Links' = Links
  <2>1. handle[s] \in {"open", "connecting"} /\ UNCHANGED <<told, target>>
    BY <1>1 DEF ReadError, ShutdownDone, ConnectFailed, Polls, OnSocketClose,
       CloseConnection, CompletesAtOnce, closeVars, userVars, Inv, OpenIsAttached
  <2>2. handle' = [handle EXCEPT ![s] = "closing"] \/ handle' = handle
    BY <1>1, <2>1 DEF ReadError, ShutdownDone, ConnectFailed, Polls, OnSocketClose,
       CloseConnection, closeVars, Inv, OneLink, OpenIsAttached
  <2>3. \A t \in Sock : LinkOf(t)' = LinkOf(t)
    BY <2>1, <2>2, LinkSettled DEF Asked, Inv, Typed
  <2> QED BY <2>3, LinksKept
<1>2. CASE PollDone
  <2>1. /\ handle' = [s \in Sock |->
                        IF handle[s] = "closing" THEN "finishing" ELSE handle[s]]
        /\ UNCHANGED <<told, target>>
    BY <1>2 DEF PollDone, userVars
  <2>2. \A t \in Sock : LinkOf(t)' = LinkOf(t)
    BY <2>1, LinkSettled DEF Asked
  <2> QED BY <2>2, LinksKept
<1>3. ASSUME \/ Write \/ Destroy \/ ClosingDone \/ UNCHANGED vars
             \/ \E s \in Sock : ReadEof(s) \/ WriteDone(s) \/ PeerEnds(s)
      PROVE  Links' = Links
  <2>1. UNCHANGED <<handle, told, target>>
    BY <1>3 DEF Write, Destroy, ClosingDone, ReadEof, WriteDone, PeerEnds, vars,
       closeVars, userVars
  <2>2. \A t \in Sock : LinkOf(t)' = LinkOf(t)
    BY <2>1, LinkKept DEF Asked
  <2> QED BY <2>2, LinksKept
<1> QED BY <1>1, <1>2, <1>3, ConnectLink, ConnectedLink, FinishLink, CloseLink DEF Next

\* To the user of connect() and close() every connection is a ClientLink: one status
\* for the outcome, one for the end, in this order, and none after his close().
THEOREM ImplementsLinkHolds ==
  ASSUME ~ActsAtOnce
  PROVE  Spec => ImplementsLink
<1>1. Init => Link!Init
  BY DEF Init, Link!Init, Unheard
<1>2. Inv /\ [Next]_vars => [Link!Next]_Links
  BY StepImplements DEF Link!Next
<1>3. Link!Spec <=> Link!Init /\ [][Link!Next]_Links
  BY DEF Link!Spec, Links, LinkOf, Asked
<1> QED BY <1>1, <1>2, <1>3, InvHolds, PTL DEF Spec, ImplementsLink
=============================================================================
