--------------------------- MODULE TcpServerProofs ---------------------------
(***************************************************************************)
(* Theorems about TcpServer, for any number of connections and names, when *)
(* no one closes a connection that is being closed and no peer name comes  *)
(* back while the map has it.                                              *)
(***************************************************************************)
EXTENDS TcpServer, TLAPS

\* The theorems of the wheel, about the wheel of the server.
Proved == INSTANCE TimerWheelProofs WITH
  Value <- Conn, MaxTimeout <- Timeout, MayReconfigure <- FALSE

-----------------------------------------------------------------------------
(* Types                                                                    *)

\* The types of what says who owns a connection and who is told about it.
Typed ==
  /\ connnections \in [Name -> Conn \union {None}]
  /\ name \in [Conn -> Name \union {None}]
  /\ handle \in [Conn -> HandleState]
  /\ attached \in [Conn -> BOOLEAN]
  /\ completion \in [Conn -> BOOLEAN]
  /\ reported \in [Conn -> Nat]

\* The types of the rest, the wheel's apart.
Plain ==
  /\ phase \in {"timers", "poll", "closing"}
  /\ acceptor \in HandleState
  /\ serverDone \in BOOLEAN
  /\ held \subseteq Conn
  /\ connected \in [Conn -> BOOLEAN]
  /\ shutdown \in [Conn -> BOOLEAN]
  /\ unsent \in [Conn -> BOOLEAN]
  /\ peer \in [Conn -> {"none", "up", "fin", "gone"}]
  /\ idle \in [Conn -> Nat]

\* What calls the server back has a name to be called back with.
HasName ==
  \A c \in Conn :
    /\ handle[c] # "none" => name[c] \in Name
    /\ attached[c] => handle[c] # "none"

TypeInv == Typed /\ HasName /\ Plain /\ Proved!Ring

\* A step of the server is a step of its wheel, or none.
LEMMA WheelStep ==
  ASSUME [Next]_vars
  PROVE  [Proved!Next]_wheelVars
<1> USE DEF wheelVars
<1>1. ASSUME NEW seconds, Wheel!SetTimeout(seconds) PROVE Proved!SetTimeout(seconds)
  BY <1>1 DEF Wheel!SetTimeout, Proved!SetTimeout
<1>2. Wheel!Start => Proved!Start
  BY DEF Wheel!Start, Proved!Start, Wheel!Slots, Proved!Slots
<1>3. ASSUME NEW c, Wheel!Insert(c) PROVE Proved!Insert(c)
  BY <1>3 DEF Wheel!Insert, Proved!Insert
<1>4. Wheel!WheelCallback => Proved!WheelCallback
  BY DEF Wheel!WheelCallback, Proved!WheelCallback, Wheel!NextIndex, Proved!NextIndex
<1>5. CASE UserCall
  <2>1. CASE SetTimeout
    BY <2>1, <1>1, TimeoutAssumption DEF SetTimeout, Proved!Next
  <2>2. CASE Listen
    BY <2>2, <1>2 DEF Listen, Proved!Next
  <2>3. ASSUME ~SetTimeout, ~Listen PROVE UNCHANGED wheelVars
    BY <1>5, <2>3 DEF UserCall, ServerClose, UserCloseConnection, Keep,
       UserDirectClose, Write, Drop
  <2> QED BY <2>1, <2>2, <2>3
<1>6. CASE LoopStep
  <2>1. CASE Tick
    BY <2>1, <1>4 DEF Tick, Proved!Next
  <2>2. ASSUME ~Tick PROVE UNCHANGED wheelVars
    BY <1>6, <2>2 DEF LoopStep, PollDone, FinishAcceptor, ClosingDone, TimersDone
  <2> QED BY <2>1, <2>2
<1>7. ASSUME NEW c \in Conn, Rewind(c) PROVE [Proved!Next]_wheelVars
  BY <1>7, <1>3 DEF Rewind, Proved!Next
<1>8. ASSUME NEW c \in Conn, NEW n \in Name, Accept(c, n)
      PROVE  [Proved!Next]_wheelVars
  BY <1>8, <1>7 DEF Accept
<1>9. ASSUME NEW c \in Conn, ReadData(c) PROVE [Proved!Next]_wheelVars
  BY <1>9, <1>7 DEF ReadData, ReadBytes, Activity
<1>10. ASSUME NEW c \in Conn,
              \/ ReadEof(c) \/ ReadError(c) \/ WriteDone(c) \/ ShutdownDone(c)
              \/ FinishConnection(c) \/ PeerFin(c) \/ PeerGone(c)
       PROVE  UNCHANGED wheelVars
  BY <1>10 DEF ReadEof, ReadError, WriteDone, ShutdownDone, FinishConnection, PeerFin,
     PeerGone
<1>11. CASE UNCHANGED vars
  BY <1>11 DEF vars
<1> QED BY <1>5, <1>6, <1>8, <1>9, <1>10, <1>11 DEF Next, Read

LEMMA CloseConnectionsTypes ==
  ASSUME Typed, HasName, NEW names \in SUBSET Name, CloseConnections(names),
         name' = name
  PROVE  Typed' /\ HasName'
<1> DEFINE targets == {connnections[n] : n \in names} \ {None}
           atOnce == {c \in targets : CompletesAtOnce(c)}
<1>1. /\ attached' = [c \in Conn |-> attached[c] /\ c \notin targets]
      /\ completion' = [c \in Conn |-> completion[c] \/ c \in targets]
      /\ handle' = [c \in Conn |->
                      IF c \in targets /\ handle[c] = "open"
                      THEN "closing" ELSE handle[c]]
      /\ connnections' =
           [n \in Name |-> IF connnections[n] \in atOnce THEN None ELSE connnections[n]]
      /\ reported' = [c \in Conn |->
                        IF c \in atOnce THEN reported[c] + 1 ELSE reported[c]]
  BY DEF CloseConnections, DropCallbacks, MapWithout
<1> HIDE DEF targets, atOnce
<1>2. Typed'
  BY <1>1 DEF Typed, HandleState
<1>3. HasName'
  BY <1>1 DEF HasName
<1> QED BY <1>2, <1>3

LEMMA OnSocketCloseTypes ==
  ASSUME Typed, HasName, NEW conns \in SUBSET Conn, OnSocketClose(conns), name' = name
  PROVE  Typed' /\ HasName'
<1> DEFINE names == {name[c] : c \in {d \in conns : attached[d]}}
<1>1. names \in SUBSET Name
  BY DEF HasName
<1>2. CloseConnections(names)
  BY DEF OnSocketClose
<1> HIDE DEF names
<1> QED BY <1>1, <1>2, CloseConnectionsTypes

\* The wheel of the server and the wheel of the theorems keep the same values.
LEMMA SameKept == Wheel!Kept = Proved!Kept /\ Wheel!Kept' = Proved!Kept'
  BY DEF Wheel!Kept, Proved!Kept

\* Whom on_socket_close() is called for are connections of the server.
LEMMA ClosedByServer ==
  ASSUME TypeInv
  PROVE  /\ {connnections[n] : n \in Name} \ {None} \in SUBSET Conn
         /\ {c \in Wheel!Kept \ Wheel!Kept' : Alive(c)} \in SUBSET Conn
<1>1. Wheel!Kept \subseteq Conn
  BY SameKept, TimeoutAssumption, Proved!KeptType DEF TypeInv
<1> QED BY <1>1 DEF TypeInv, Typed

\* What neither accepts, closes nor finishes a connection.
LEMMA TypesFrame ==
  ASSUME Typed, HasName, UNCHANGED <<name, closeVars>>
  PROVE  Typed' /\ HasName'
  BY DEF closeVars, Typed, HasName

LEMMA StepTypes ==
  ASSUME TypeInv, [Next]_vars
  PROVE  TypeInv'
<1>1. Proved!Ring'
  BY WheelStep, TimeoutAssumption, Proved!NextRing DEF TypeInv, wheelVars, Proved!vars
<1> SUFFICES (Typed /\ HasName)' /\ Plain'
  BY <1>1 DEF TypeInv
<1> USE DEF TypeInv
<1>2. CASE UserCall
  <2>1. CASE SetTimeout
    BY <2>1, TypesFrame DEF SetTimeout, serverVars, streamVars, Plain
  <2>2. CASE Listen
    BY <2>2, TypesFrame DEF Listen, streamVars, Plain, HandleState
  <2>3. CASE ServerClose
    <3>1. Plain'
      BY <2>3 DEF ServerClose, OnServerClosed, streamVars, Plain, HandleState
    <3>2. (Typed /\ HasName)'
      BY <2>3, TypesFrame, ClosedByServer, OnSocketCloseTypes DEF ServerClose, OnServerClosed
    <3> QED BY <3>1, <3>2
  <2>4. ASSUME NEW n \in Name, UserCloseConnection(n) PROVE (Typed /\ HasName)' /\ Plain'
    <3>1. Plain'
      BY <2>4 DEF UserCloseConnection, serverVars, streamVars, Plain
    <3> QED BY <2>4, <3>1, {n} \in SUBSET Name, CloseConnectionsTypes DEF UserCloseConnection
  <2>5. ASSUME NEW n \in Name, Keep(n) PROVE (Typed /\ HasName)' /\ Plain'
    BY <2>5, TypesFrame DEF Keep, serverVars, streamVars, Plain, Typed
  <2>6. ASSUME NEW c \in Conn, UserDirectClose(c) PROVE (Typed /\ HasName)' /\ Plain'
    BY <2>6 DEF UserDirectClose, DropCallbacks, serverVars, streamVars, Plain, Typed, HasName,
       HandleState
  <2>7. ASSUME NEW c \in Conn, Write(c) PROVE (Typed /\ HasName)' /\ Plain'
    BY <2>7, TypesFrame DEF Write, serverVars, Plain
  <2>8. ASSUME NEW c \in Conn, Drop(c) PROVE (Typed /\ HasName)' /\ Plain'
    BY <2>8, TypesFrame DEF Drop, serverVars, streamVars, Plain
  <2> QED BY <1>2, <2>1, <2>2, <2>3, <2>4, <2>5, <2>6, <2>7, <2>8 DEF UserCall
<1>3. CASE LoopStep
  <2>1. CASE PollDone
    <3>1. Plain'
      BY <2>1 DEF PollDone, streamVars, Plain, HandleState
    <3>2. (Typed /\ HasName)'
      BY <2>1 DEF PollDone, Typed, HasName, HandleState
    <3> QED BY <3>1, <3>2
  <2>2. CASE FinishAcceptor
    <3>1. Plain'
      BY <2>2 DEF FinishAcceptor, OnServerClosed, streamVars, Plain, HandleState
    <3> QED BY <2>2, <3>1, ClosedByServer, OnSocketCloseTypes DEF FinishAcceptor, OnServerClosed
  <2>3. CASE ClosingDone
    BY <2>3, TypesFrame DEF ClosingDone, serverVars, streamVars, Plain
  <2>4. CASE Tick
    <3>1. (Typed /\ HasName)'
      BY <2>4, ClosedByServer, OnSocketCloseTypes DEF Tick
    <3>2. Plain'
      BY <2>4 DEF Tick, serverVars, streamVars, Plain
    <3> QED BY <3>1, <3>2
  <2>5. CASE TimersDone
    BY <2>5, TypesFrame DEF TimersDone, serverVars, streamVars, Plain
  <2> QED BY <1>3, <2>1, <2>2, <2>3, <2>4, <2>5 DEF LoopStep
<1>4. ASSUME NEW c \in Conn, NEW n \in Name, Accept(c, n)
      PROVE  (Typed /\ HasName)' /\ Plain'
  <2>1. Plain'
    BY <1>4 DEF Accept, serverVars, Plain
  <2>2. (Typed /\ HasName)'
    BY <1>4 DEF Accept, Typed, HasName, HandleState
  <2> QED BY <2>1, <2>2
<1>5. ASSUME NEW c \in Conn, Read(c) PROVE (Typed /\ HasName)' /\ Plain'
  <2>1. CASE ReadData(c)
    BY <2>1, TypesFrame DEF ReadData, ReadBytes, serverVars, streamVars, Plain
  <2>2. CASE ReadEof(c)
    BY <2>2, TypesFrame DEF ReadEof, serverVars, Plain
  <2>3. CASE ReadError(c)
    BY <2>3, {c} \in SUBSET Conn, OnSocketCloseTypes DEF ReadError, serverVars, Plain
  <2> QED BY <1>5, <2>1, <2>2, <2>3 DEF Read
<1>6. ASSUME NEW c \in Conn, WriteDone(c) PROVE (Typed /\ HasName)' /\ Plain'
  BY <1>6, TypesFrame DEF WriteDone, serverVars, Plain
<1>7. ASSUME NEW c \in Conn, ShutdownDone(c) PROVE (Typed /\ HasName)' /\ Plain'
  BY <1>7, {c} \in SUBSET Conn, OnSocketCloseTypes DEF ShutdownDone, serverVars, Plain
<1>8. ASSUME NEW c \in Conn, FinishConnection(c) PROVE (Typed /\ HasName)' /\ Plain'
  <2>1. Plain'
    BY <1>8 DEF FinishConnection, serverVars, Plain
  <2>2. connnections[name[c]] \in Conn \union {None}
    BY <1>8 DEF FinishConnection, Typed, HasName
  <2>3. (Typed /\ HasName)'
    BY <1>8, <2>2 DEF FinishConnection, MapWithout, Typed, HasName, HandleState
  <2> QED BY <2>1, <2>3
<1>9. ASSUME NEW c \in Conn, PeerFin(c) \/ PeerGone(c)
      PROVE  (Typed /\ HasName)' /\ Plain'
  BY <1>9, TypesFrame DEF PeerFin, PeerGone, serverVars, Plain
<1>10. CASE UNCHANGED vars
  BY <1>10, TypesFrame DEF vars, serverVars, streamVars, Plain
<1> QED BY <1>2, <1>3, <1>4, <1>5, <1>6, <1>7, <1>8, <1>9, <1>10 DEF Next

LEMMA InitTypes == Init => TypeInv
<1> SUFFICES ASSUME Init PROVE TypeInv
  OBVIOUS
<1>1. Proved!Ring
  <2>1. Proved!Init
    BY DEF Init, Wheel!Init, Proved!Init, Wheel!NoSlots, Proved!NoSlots
  <2> QED BY <2>1, TimeoutAssumption, Proved!InitRing
<1>2. Typed /\ HasName /\ Plain
  BY DEF Init, Typed, HasName, Plain, HandleState
<1> QED BY <1>1, <1>2 DEF TypeInv

\* Whatever the user and the peers do, every variable of the server, its
\* connections and its wheel keeps its type.
THEOREM TypeCorrect == Spec => []TypeOK
<1>1. TypeInv => TypeOK
  <2>1. Proved!TypeOK => Wheel!TypeOK
    BY DEF Proved!TypeOK, Wheel!TypeOK
  <2> QED BY <2>1, TimeoutAssumption, Proved!RingTypes DEF TypeInv, Typed, Plain, TypeOK
<1>2. TypeInv /\ [Next]_vars => TypeInv'
  BY StepTypes
<1> QED BY <1>1, <1>2, InitTypes, PTL DEF Spec

-----------------------------------------------------------------------------
(* Who owns a connection                                                    *)

\* What the user and the peers are held to.  Without either there is a
\* counterexample to HandleOutlivesLibuv.
Disciplined == ~CloseTwice /\ ~PortReuse

\* A connection is fresh until it is accepted, and has a name from then on.
Named ==
  \A c \in Conn :
    IF handle[c] = "none"
    THEN ~attached[c] /\ ~completion[c] /\ reported[c] = 0
    ELSE name[c] \in Name

\* The map has each connection under its own name.
MapByName ==
  \A n \in Name :
    connnections[n] # None => name[connnections[n]] = n /\ handle[connnections[n]] # "none"

\* While libuv works on the handle, the map has the connection.
OwnedByMap ==
  \A c \in Conn :
    handle[c] \in {"open", "closing", "finishing"} => connnections[name[c]] = c

Ownership ==
  /\ Typed
  /\ Named
  /\ MapByName
  /\ OwnedByMap
  /\ AttachedIsOpen
  /\ ReportedOnce

-----------------------------------------------------------------------------
(* Lemmas                                                                   *)

\* A connection is in the map under one name at most, its own.
LEMMA OneEntry ==
  ASSUME Ownership, NEW c \in Conn, NEW n \in Name, connnections[n] = c
  PROVE  name[c] = n /\ handle[c] # "none" /\ InMap(c) /\ reported[c] = 0
<1>1. name[c] = n /\ handle[c] # "none" /\ InMap(c)
  BY NoneAssumption DEF Ownership, MapByName, InMap
<1>2. reported[c] = 0
  BY <1>1 DEF Ownership, ReportedOnce, Typed
<1> QED BY <1>1, <1>2

\* close_connection() of connections that are open, or have been closed past the
\* server.
LEMMA CloseConnectionsInv ==
  ASSUME Ownership, NEW names \in SUBSET Name, CloseConnections(names),
         \A n \in names : connnections[n] # None =>
                            handle[connnections[n]] \in {"open", "closed"},
         name' = name
  PROVE  Ownership'
<1> DEFINE targets == {connnections[n] : n \in names} \ {None}
           atOnce == {c \in targets : CompletesAtOnce(c)}
<1>1. targets \subseteq Conn
  BY DEF Ownership, Typed
<1>2. \A c \in atOnce : handle[c] = "closed" /\ InMap(c) /\ reported[c] = 0
  BY <1>1, OneEntry DEF CompletesAtOnce
<1>3. \A c \in targets \ atOnce : handle[c] = "open"
  BY DEF CompletesAtOnce
<1>4. /\ attached' = [c \in Conn |-> attached[c] /\ c \notin targets]
      /\ completion' = [c \in Conn |-> completion[c] \/ c \in targets]
      /\ handle' = [c \in Conn |->
                      IF c \in targets /\ handle[c] = "open"
                      THEN "closing" ELSE handle[c]]
      /\ connnections' =
           [n \in Name |-> IF connnections[n] \in atOnce THEN None ELSE connnections[n]]
      /\ reported' = [c \in Conn |->
                        IF c \in atOnce THEN reported[c] + 1 ELSE reported[c]]
  BY DEF CloseConnections, DropCallbacks, MapWithout
<1> HIDE DEF targets, atOnce
<1>5. Typed'
  BY <1>4 DEF Ownership, Typed, HandleState
<1>6. Named'
  BY <1>1, <1>2, <1>3, <1>4 DEF Ownership, Named
<1>7. MapByName'
  BY <1>4 DEF Ownership, Typed, MapByName
<1>8. OwnedByMap'
  BY <1>2, <1>4 DEF Ownership, Typed, Named, OwnedByMap
<1>9. AttachedIsOpen'
  BY <1>2, <1>4 DEF Ownership, Typed, Named, AttachedIsOpen
<1>10. ReportedOnce'
  <2> SUFFICES ASSUME NEW c \in Conn
               PROVE  /\ reported'[c] <= (IF handle'[c] = "closed" THEN 1 ELSE 0)
                      /\ handle'[c] = "closed" /\ completion'[c] => reported'[c] = 1
                      /\ reported'[c] = 1 => ~InMap(c)'
    BY DEF ReportedOnce
  <2>1. CASE c \in atOnce
    <3>1. ~InMap(c)'
      BY <2>1, <1>4, NoneAssumption DEF InMap
    <3> QED BY <2>1, <3>1, <1>2, <1>4
  <2>2. CASE c \notin atOnce
    <3>1. InMap(c)' => InMap(c)
      BY <2>2, <1>4, NoneAssumption DEF InMap
    <3>2. handle'[c] = "closed" => handle[c] = "closed" /\ c \notin targets
      BY <2>2, <1>3, <1>4
    <3> QED BY <2>2, <3>1, <3>2, <1>4 DEF Ownership, ReportedOnce, Typed
  <2> QED BY <2>1, <2>2
<1> QED BY <1>5, <1>6, <1>7, <1>8, <1>9, <1>10 DEF Ownership

\* What still calls the server back is open and under its name.
LEMMA OnSocketCloseInv ==
  ASSUME Ownership, NEW conns \in SUBSET Conn, OnSocketClose(conns), name' = name
  PROVE  Ownership'
<1> DEFINE names == {name[c] : c \in {d \in conns : attached[d]}}
<1>1. \A c \in conns : attached[c] =>
        handle[c] = "open" /\ name[c] \in Name /\ connnections[name[c]] = c
  BY DEF Ownership, Named, AttachedIsOpen
<1>2. names \in SUBSET Name
  BY <1>1
<1>3. \A n \in names : handle[connnections[n]] = "open"
  BY <1>1
<1>4. CloseConnections(names)
  BY DEF OnSocketClose
<1> HIDE DEF names
<1> QED BY <1>2, <1>3, <1>4, CloseConnectionsInv

-----------------------------------------------------------------------------
(* The invariant holds                                                      *)

LEMMA InitOwnership == Init => Ownership
<1> SUFFICES ASSUME Init PROVE Ownership
  OBVIOUS
<1>1. Typed
  BY DEF Init, Typed, HandleState
<1>2. Named /\ MapByName /\ OwnedByMap /\ AttachedIsOpen /\ ReportedOnce
  BY DEF Init, Named, MapByName, OwnedByMap, AttachedIsOpen, ReportedOnce
<1> QED BY <1>1, <1>2 DEF Ownership

\* What neither accepts, closes nor finishes a connection.
LEMMA OwnershipFrame ==
  ASSUME Ownership, UNCHANGED <<name, closeVars>>
  PROVE  Ownership'
  BY DEF closeVars, Ownership, Typed, Named, MapByName, OwnedByMap, AttachedIsOpen,
         ReportedOnce, InMap

LEMMA AcceptInv ==
  ASSUME Ownership, ~PortReuse, NEW c \in Conn, NEW n \in Name, Accept(c, n)
  PROVE  Ownership'
<1>1. /\ handle[c] = "none" /\ connnections[n] = None
      /\ connnections' = [connnections EXCEPT ![n] = c]
      /\ name' = [name EXCEPT ![c] = n]
      /\ handle' = [handle EXCEPT ![c] = "open"]
      /\ attached' = [attached EXCEPT ![c] = TRUE]
      /\ UNCHANGED <<completion, reported>>
  BY DEF Accept, Ownership, Typed
<1>2. Typed'
  BY <1>1 DEF Ownership, Typed, HandleState
<1>3. \A m \in Name : connnections[m] # c
  BY <1>1, OneEntry
<1>4. Named'
  BY <1>1 DEF Ownership, Typed, Named
<1>5. MapByName'
  BY <1>1, <1>3 DEF Ownership, Typed, MapByName
<1>6. OwnedByMap'
  <2> SUFFICES ASSUME NEW d \in Conn, handle'[d] \in {"open", "closing", "finishing"}
               PROVE  connnections'[name'[d]] = d
    BY DEF OwnedByMap
  <2>1. CASE d = c
    BY <2>1, <1>1 DEF Ownership, Typed
  <2>2. CASE d # c
    <3>1. /\ handle[d] \in {"open", "closing", "finishing"}
          /\ name'[d] = name[d] /\ name[d] \in Name
      BY <2>2, <1>1 DEF Ownership, Typed, Named
    <3>2. connnections[name[d]] = d
      BY <3>1 DEF Ownership, OwnedByMap
    <3>3. name[d] # n
      BY <3>2, <1>1, NoneAssumption
    <3> QED BY <3>1, <3>2, <3>3, <1>1 DEF Ownership, Typed
  <2> QED BY <2>1, <2>2
<1>7. AttachedIsOpen'
  <2>1. \A d \in Conn : attached'[d] => handle'[d] = "open"
    BY <1>1 DEF Ownership, Typed, AttachedIsOpen
  <2> QED BY <2>1, <1>6 DEF OwnedByMap, AttachedIsOpen
<1>8. ReportedOnce'
  <2> SUFFICES ASSUME NEW d \in Conn
               PROVE  /\ reported[d] <= (IF handle'[d] = "closed" THEN 1 ELSE 0)
                      /\ handle'[d] = "closed" /\ completion[d] => reported[d] = 1
                      /\ reported[d] = 1 => ~InMap(d)'
    BY <1>1 DEF ReportedOnce
  <2>1. CASE d = c
    BY <2>1, <1>1 DEF Ownership, Typed, Named
  <2>2. CASE d # c
    <3>1. handle'[d] = handle[d]
      BY <2>2, <1>1 DEF Ownership, Typed
    <3>2. InMap(d)' => InMap(d)
      BY <2>2, <1>1 DEF Ownership, Typed, InMap
    <3> QED BY <3>1, <3>2 DEF Ownership, ReportedOnce
  <2> QED BY <2>1, <2>2
<1> QED BY <1>2, <1>4, <1>5, <1>6, <1>7, <1>8 DEF Ownership

LEMMA DirectCloseInv ==
  ASSUME Ownership, NEW c \in Conn, UserDirectClose(c)
  PROVE  Ownership'
<1>1. /\ attached' = [d \in Conn |-> attached[d] /\ d \notin {c}]
      /\ completion' = [completion EXCEPT ![c] = FALSE]
      /\ handle' = [handle EXCEPT ![c] = IF @ = "open" THEN "closing" ELSE @]
      /\ UNCHANGED <<connnections, reported, name>>
  BY DEF UserDirectClose, DropCallbacks
<1>2. Typed'
  BY <1>1 DEF Ownership, Typed, HandleState
<1>3. Named' /\ MapByName'
  BY <1>1 DEF Ownership, Typed, Named, MapByName
<1>4. OwnedByMap'
  BY <1>1 DEF Ownership, Typed, OwnedByMap
<1>5. AttachedIsOpen'
  BY <1>1 DEF Ownership, Typed, AttachedIsOpen
<1>6. ReportedOnce'
  BY <1>1 DEF Ownership, Typed, ReportedOnce, InMap
<1> QED BY <1>2, <1>3, <1>4, <1>5, <1>6 DEF Ownership

LEMMA PollDoneInv ==
  ASSUME Ownership, PollDone
  PROVE  Ownership'
<1>1. /\ handle' = [c \in Conn |->
                      IF handle[c] = "closing" THEN "finishing" ELSE handle[c]]
      /\ UNCHANGED <<attached, completion, connnections, reported, name>>
  BY DEF PollDone
<1>2. Typed'
  BY <1>1 DEF Ownership, Typed, HandleState
<1>3. Named' /\ MapByName' /\ OwnedByMap' /\ AttachedIsOpen'
  BY <1>1 DEF Ownership, Typed, Named, MapByName, OwnedByMap, AttachedIsOpen
<1>4. ReportedOnce'
  BY <1>1 DEF Ownership, Typed, ReportedOnce, InMap
<1> QED BY <1>2, <1>3, <1>4 DEF Ownership

\* close_complete() finds under its name the very connection that is finished.
LEMMA FinishInv ==
  ASSUME Ownership, NEW c \in Conn, FinishConnection(c)
  PROVE  Ownership'
<1>1. /\ handle[c] = "finishing" /\ connnections[name[c]] = c /\ name[c] \in Name
      /\ reported[c] = 0
  BY DEF FinishConnection, Ownership, Typed, Named, OwnedByMap, ReportedOnce
<1>2. Alive(c)
  BY <1>1 DEF Alive, InMap
<1>3. /\ handle' = [handle EXCEPT ![c] = "closed"]
      /\ UNCHANGED <<attached, completion, name>>
  BY DEF FinishConnection
<1>4. CASE completion[c]
  <2>1. /\ connnections' = [n \in Name |->
                              IF connnections[n] \in {c} THEN None ELSE connnections[n]]
        /\ reported' = [reported EXCEPT ![c] = @ + 1]
    BY <1>1, <1>2, <1>4, NoneAssumption DEF FinishConnection, MapWithout
  <2>2. Typed'
    BY <1>3, <2>1 DEF Ownership, Typed, HandleState
  <2>3. Named' /\ MapByName' /\ OwnedByMap' /\ AttachedIsOpen'
    BY <1>1, <1>3, <2>1 DEF Ownership, Typed, Named, MapByName, OwnedByMap, AttachedIsOpen
  <2>4. ~InMap(c)'
    BY <2>1, NoneAssumption DEF InMap
  <2>5. \A d \in Conn \ {c} : InMap(d)' => InMap(d)
    BY <2>1, NoneAssumption DEF InMap
  <2>6. ReportedOnce'
    BY <1>1, <1>3, <2>1, <2>4, <2>5 DEF Ownership, Typed, ReportedOnce
  <2> QED BY <2>2, <2>3, <2>6 DEF Ownership
<1>5. CASE ~completion[c]
  <2>1. UNCHANGED <<connnections, reported>>
    BY <1>5 DEF FinishConnection
  <2>2. Typed'
    BY <1>3, <2>1 DEF Ownership, Typed, HandleState
  <2>3. Named' /\ MapByName' /\ OwnedByMap' /\ AttachedIsOpen'
    BY <1>1, <1>3, <2>1 DEF Ownership, Typed, Named, MapByName, OwnedByMap, AttachedIsOpen
  <2>4. ReportedOnce'
    BY <1>1, <1>3, <1>5, <2>1 DEF Ownership, Typed, ReportedOnce, InMap
  <2> QED BY <2>2, <2>3, <2>4 DEF Ownership
<1> QED BY <1>4, <1>5 DEF Ownership, Typed

LEMMA StepOwnership ==
  ASSUME Disciplined, TypeInv, Ownership, [Next]_vars
  PROVE  Ownership'
<1>1. CASE UserCall
  <2>1. CASE SetTimeout
    BY <2>1, OwnershipFrame DEF SetTimeout
  <2>2. CASE Listen
    BY <2>2, OwnershipFrame DEF Listen
  <2>3. CASE ServerClose
    <3>1. CASE UNCHANGED closeVars
      BY <2>3, <3>1, OwnershipFrame DEF ServerClose
    <3>2. CASE OnServerClosed
      <4>1. {connnections[n] : n \in Name} \ {None} \in SUBSET Conn
        BY DEF Ownership, Typed
      <4> QED BY <2>3, <3>2, <4>1, OnSocketCloseInv DEF ServerClose, OnServerClosed
    <3> QED BY <2>3, <3>1, <3>2 DEF ServerClose
  <2>4. ASSUME NEW n \in Name, UserCloseConnection(n) PROVE Ownership'
    <3>1. connnections[n] \in Conn
      BY <2>4 DEF UserCloseConnection, Ownership, Typed
    <3>2. handle[connnections[n]] \in {"open", "closed"}
      BY <2>4, <3>1, OneEntry DEF UserCloseConnection, Disciplined, Ownership, Typed,
         HandleState
    <3> QED BY <2>4, <3>2, CloseConnectionsInv DEF UserCloseConnection
  <2>5. ASSUME NEW n \in Name, Keep(n) PROVE Ownership'
    BY <2>5, OwnershipFrame DEF Keep
  <2>6. ASSUME NEW c \in Conn, UserDirectClose(c) PROVE Ownership'
    BY <2>6, DirectCloseInv
  <2>7. ASSUME NEW c \in Conn, Write(c) PROVE Ownership'
    BY <2>7, OwnershipFrame DEF Write
  <2>8. ASSUME NEW c \in Conn, Drop(c) PROVE Ownership'
    BY <2>8, OwnershipFrame DEF Drop
  <2> QED BY <1>1, <2>1, <2>2, <2>3, <2>4, <2>5, <2>6, <2>7, <2>8 DEF UserCall
<1>2. CASE LoopStep
  <2>1. CASE PollDone
    BY <2>1, PollDoneInv
  <2>2. CASE FinishAcceptor
    <3>1. {connnections[n] : n \in Name} \ {None} \in SUBSET Conn
      BY DEF Ownership, Typed
    <3> QED BY <2>2, <3>1, OnSocketCloseInv DEF FinishAcceptor, OnServerClosed
  <2>3. CASE ClosingDone
    BY <2>3, OwnershipFrame DEF ClosingDone
  <2>4. CASE Tick
    BY <2>4, ClosedByServer, OnSocketCloseInv DEF Tick
  <2>5. CASE TimersDone
    BY <2>5, OwnershipFrame DEF TimersDone
  <2> QED BY <1>2, <2>1, <2>2, <2>3, <2>4, <2>5 DEF LoopStep
<1>3. ASSUME NEW c \in Conn, NEW n \in Name, Accept(c, n) PROVE Ownership'
  BY <1>3, AcceptInv DEF Disciplined
<1>4. ASSUME NEW c \in Conn, Read(c) PROVE Ownership'
  <2>1. CASE ReadData(c)
    BY <2>1, OwnershipFrame DEF ReadData, ReadBytes
  <2>2. CASE ReadEof(c)
    BY <2>2, OwnershipFrame DEF ReadEof
  <2>3. CASE ReadError(c)
    BY <2>3, {c} \in SUBSET Conn, OnSocketCloseInv DEF ReadError
  <2> QED BY <1>4, <2>1, <2>2, <2>3 DEF Read
<1>5. ASSUME NEW c \in Conn, WriteDone(c) PROVE Ownership'
  BY <1>5, OwnershipFrame DEF WriteDone
<1>6. ASSUME NEW c \in Conn, ShutdownDone(c) PROVE Ownership'
  BY <1>6, {c} \in SUBSET Conn, OnSocketCloseInv DEF ShutdownDone
<1>7. ASSUME NEW c \in Conn, FinishConnection(c) PROVE Ownership'
  BY <1>7, FinishInv
<1>8. ASSUME NEW c \in Conn, PeerFin(c) \/ PeerGone(c) PROVE Ownership'
  BY <1>8, OwnershipFrame DEF PeerFin, PeerGone
<1>9. CASE UNCHANGED vars
  BY <1>9, OwnershipFrame DEF vars
<1> QED BY <1>1, <1>2, <1>3, <1>4, <1>5, <1>6, <1>7, <1>8, <1>9 DEF Next

LEMMA OwnershipHolds ==
  ASSUME Disciplined
  PROVE  Spec => [](TypeInv /\ Ownership)
<1>1. Init => TypeInv /\ Ownership
  BY InitTypes, InitOwnership
<1>2. TypeInv /\ Ownership /\ [Next]_vars => (TypeInv /\ Ownership)'
  BY StepTypes, StepOwnership
<1> QED BY <1>1, <1>2, PTL DEF Spec

\* While libuv works on the uv_tcp_t of a connection, the map owns the connection,
\* whoever closes it, directly or through the server, and whatever the user keeps.
THEOREM HandleOutlivesLibuvHolds ==
  ASSUME Disciplined
  PROVE  Spec => []HandleOutlivesLibuv
<1>1. TypeInv /\ Ownership => HandleOutlivesLibuv
  BY DEF TypeInv, HasName, Ownership, OwnedByMap, HandleOutlivesLibuv, Alive, InMap
<1> QED BY <1>1, OwnershipHolds, PTL

\* A connection that can still call on_socket_close() is open and is the one its
\* name leads to.
THEOREM AttachedIsOpenHolds ==
  ASSUME Disciplined
  PROVE  Spec => []AttachedIsOpen
<1>1. TypeInv /\ Ownership => AttachedIsOpen
  BY DEF Ownership
<1> QED BY <1>1, OwnershipHolds, PTL

\* close_connection() reports a connection once, when its handle is closed, and the
\* map lets go of it then.
THEOREM ReportedOnceHolds ==
  ASSUME Disciplined
  PROVE  Spec => []ReportedOnce
<1>1. TypeInv /\ Ownership => ReportedOnce
  BY DEF Ownership
<1> QED BY <1>1, OwnershipHolds, PTL

-----------------------------------------------------------------------------
(* Idle connections                                                         *)

\* The wheel keeps what may still be closed, and its age there is the ticks since
\* the last message.
Watched ==
  /\ timeoutSec \in {0, Timeout}
  /\ started <=> acceptor # "none"
  /\ ~started => \A c \in Conn : handle[c] = "none"
  /\ \A c \in Conn : handle[c] = "none" => idle[c] = 0
  /\ timeoutSec > 0 =>
       \A c \in Conn : attached[c] => c \in Proved!Kept /\ Proved!Age(c) = idle[c]

IdleInv == TypeInv /\ Ownership /\ Watched

LEMMA InitWatched == Init => Watched
  BY DEF Init, Wheel!Init, Watched

\* No connection comes, and none is attached.
BringsNone ==
  \A c \in Conn :
    /\ handle'[c] = "none" <=> handle[c] = "none"
    /\ attached'[c] => attached[c]

\* Closing connections brings none.
LEMMA CloseConnectionsDrops ==
  ASSUME NEW names, CloseConnections(names)
  PROVE  BringsNone
  BY DEF CloseConnections, DropCallbacks, BringsNone

LEMMA OnSocketCloseDrops ==
  ASSUME NEW conns, OnSocketClose(conns)
  PROVE  BringsNone
  BY CloseConnectionsDrops DEF OnSocketClose

\* While the wheel stands still, nothing in it ages.
LEMMA SameAges ==
  ASSUME UNCHANGED wheelVars
  PROVE  Proved!Kept' = Proved!Kept /\ \A c : Proved!Age(c)' = Proved!Age(c)
<1>1. index' = index /\ timeoutSec' = timeoutSec /\ wheel' = wheel
  BY DEF wheelVars
<1>2. Proved!Kept' = Proved!Kept
  BY <1>1 DEF Proved!Kept
<1>3. ASSUME NEW c PROVE Proved!Age(c)' = Proved!Age(c)
  <2>1. \A i : Proved!SlotAge(i)' = Proved!SlotAge(i)
    BY <1>1 DEF Proved!SlotAge
  <2> QED BY <1>1, <2>1, Zenon DEF Proved!Age
<1> QED BY <1>2, <1>3

\* What leaves the wheel alone and brings no connection.
LEMMA WatchedFrame ==
  ASSUME Watched, UNCHANGED <<wheelVars, idle>>,
         acceptor' = "none" <=> acceptor = "none",
         BringsNone
  PROVE  Watched'
  BY SameAges DEF wheelVars, Watched, BringsNone

\* on_socket_close() detaches the connections it is called for, and no other.
LEMMA OnSocketCloseDetaches ==
  ASSUME Ownership, NEW conns \in SUBSET Conn, OnSocketClose(conns)
  PROVE  \A c \in Conn : attached[c] => (attached'[c] <=> c \notin conns)
<1> DEFINE names == {name[c] : c \in {d \in conns : attached[d]}}
           targets == {connnections[n] : n \in names} \ {None}
<1>1. attached' = [c \in Conn |-> attached[c] /\ c \notin targets]
  BY DEF OnSocketClose, CloseConnections, DropCallbacks
<1>2. \A c \in Conn : attached[c] => (c \in targets <=> c \in conns)
  BY NoneAssumption DEF Ownership, AttachedIsOpen
<1> HIDE DEF names, targets
<1> QED BY <1>1, <1>2

\* A message puts its connection at age 0.
LEMMA InsertWatched ==
  ASSUME TypeInv, NEW c \in Conn, Wheel!Insert(c)
  PROVE  /\ UNCHANGED <<timeoutSec, started>>
         /\ c \in Proved!Kept' /\ Proved!Age(c)' = 0
         /\ \A d \in Conn \ {c} : /\ d \in Proved!Kept => d \in Proved!Kept'
                                 /\ Proved!Age(d)' = Proved!Age(d)
<1>1. Proved!Insert(c)
  BY DEF Wheel!Insert, Proved!Insert
<1>2. Proved!Turning
  BY DEF Wheel!Insert, TypeInv, Proved!Turning
<1>3. UNCHANGED <<timeoutSec, started>>
  BY DEF Wheel!Insert
<1> QED BY <1>1, <1>2, <1>3, TimeoutAssumption, Proved!InsertAges

\* A tick detaches exactly the connections whose time is up, and ages the others.
LEMMA TickDetaches ==
  ASSUME IdleInv, Tick, NEW c \in Conn, attached[c]
  PROVE  /\ attached'[c] <=> idle[c] + 1 < Timeout
         /\ attached'[c] => c \in Proved!Kept' /\ Proved!Age(c)' = idle[c] + 1
<1>1. /\ Proved!WheelCallback /\ Proved!Turning
      /\ timeoutSec = Timeout
  <2>1. Proved!WheelCallback
    BY DEF Tick, Wheel!WheelCallback, Proved!WheelCallback, Wheel!NextIndex,
       Proved!NextIndex
  <2>2. timeoutSec > 0 /\ DOMAIN wheel # {}
    BY DEF Tick, Wheel!WheelCallback
  <2>3. started
    BY <2>2 DEF IdleInv, TypeInv, Proved!Ring, Proved!NoSlots
  <2>4. timeoutSec = Timeout
    BY <2>2 DEF IdleInv, Watched
  <2> QED BY <2>1, <2>2, <2>3, <2>4 DEF IdleInv, TypeInv, Proved!Turning
<1>2. c \in Proved!Kept /\ Proved!Age(c) = idle[c]
  BY <1>1 DEF IdleInv, Watched, Proved!Turning
<1>3. idle[c] \in Nat /\ idle[c] < Timeout
  BY <1>1, <1>2, TimeoutAssumption, Proved!AgeType DEF IdleInv, TypeInv, Plain
<1>4. /\ c \in Proved!Kept' <=> idle[c] + 1 # Timeout
      /\ c \in Proved!Kept' => Proved!Age(c)' = idle[c] + 1
  BY <1>1, <1>2, TimeoutAssumption, Proved!TickAges
<1>5. attached'[c] <=> c \in Proved!Kept'
  <2>1. Alive(c)
    BY DEF IdleInv, TypeInv, HasName, Ownership, AttachedIsOpen, Alive, InMap
  <2>2. {d \in Wheel!Kept \ Wheel!Kept' : Alive(d)} \in SUBSET Conn
    BY ClosedByServer DEF IdleInv
  <2> QED BY <1>2, <2>1, <2>2, SameKept, OnSocketCloseDetaches DEF IdleInv, Tick
<1> QED BY <1>3, <1>4, <1>5, TimeoutAssumption

LEMMA StepWatched ==
  ASSUME IdleInv, [Next]_vars
  PROVE  Watched'
<1>1. \A c \in Conn : attached[c] => handle[c] # "none"
  BY DEF IdleInv, TypeInv, HasName
<1>2. CASE SetTimeout
  <2>1. ~started
    BY <1>2 DEF SetTimeout, IdleInv, Watched
  <2>2. /\ UNCHANGED <<acceptor, started, handle, attached, idle>>
        /\ timeoutSec' = Timeout
    BY <1>2 DEF SetTimeout, Wheel!SetTimeout, serverVars, closeVars
  <2> QED BY <1>1, <2>1, <2>2 DEF IdleInv, Watched
<1>3. CASE Listen
  <2>1. ~started
    BY <1>3 DEF Listen, IdleInv, Watched
  <2> QED BY <1>1, <1>3, <2>1 DEF Listen, Wheel!Start, closeVars, IdleInv, Watched
<1>4. ASSUME NEW c \in Conn, NEW n \in Name, Accept(c, n) PROVE Watched'
  <2>1. /\ started /\ acceptor' = acceptor /\ idle' = idle /\ idle[c] = 0
        /\ handle' = [handle EXCEPT ![c] = "open"]
        /\ attached' = [attached EXCEPT ![c] = TRUE]
    BY <1>4 DEF Accept, serverVars, IdleInv, Watched
  <2>2. CASE timeoutSec > 0
    <3>1. Wheel!Insert(c)
      BY <1>4, <2>2 DEF Accept, Rewind
    <3> QED BY <2>1, <2>2, <3>1, InsertWatched DEF IdleInv, TypeInv, Typed, Watched
  <2>3. CASE ~(timeoutSec > 0)
    <3>1. UNCHANGED wheelVars
      BY <1>4, <2>3 DEF Accept, Rewind
    <3> QED BY <2>1, <2>3, <3>1 DEF wheelVars, IdleInv, TypeInv, Typed, Watched
  <2> QED BY <2>2, <2>3
<1>5. ASSUME NEW c \in Conn, ReadData(c) PROVE Watched'
  <2>1. /\ UNCHANGED <<acceptor, handle, attached>>
        /\ idle' = [idle EXCEPT ![c] = 0]
    BY <1>5 DEF ReadData, ReadBytes, serverVars, closeVars
  <2>2. CASE c \in Wheel!Kept /\ timeoutSec > 0
    <3>1. Wheel!Insert(c)
      BY <1>5, <2>2 DEF ReadData, ReadBytes, Activity, Rewind
    <3> QED BY <2>1, <3>1, InsertWatched DEF IdleInv, TypeInv, Plain, Watched
  <2>3. CASE ~(c \in Wheel!Kept /\ timeoutSec > 0)
    <3>1. UNCHANGED wheelVars
      BY <1>5, <2>3 DEF ReadData, ReadBytes, Activity, Rewind
    <3>2. timeoutSec > 0 => ~attached[c]
      BY <2>3, SameKept DEF IdleInv, Watched
    <3> QED BY <2>1, <3>1, <3>2, SameAges DEF wheelVars, IdleInv, TypeInv, Plain, Watched
  <2> QED BY <2>2, <2>3
<1>6. CASE Tick
  <2>1. /\ UNCHANGED <<acceptor, timeoutSec, started>>
        /\ idle' = [c \in Conn |-> IF attached'[c] THEN idle[c] + 1 ELSE 0]
    BY <1>6 DEF Tick, Wheel!WheelCallback, serverVars
  <2>2. BringsNone
    BY <1>6, OnSocketCloseDrops DEF Tick
  <2>3. \A c \in Conn : attached'[c] => c \in Proved!Kept' /\ Proved!Age(c)' = idle'[c]
    BY <1>6, <2>1, <2>2, TickDetaches DEF BringsNone
  <2>4. \A c \in Conn : handle'[c] = "none" => idle'[c] = 0
    BY <1>1, <2>1, <2>2 DEF BringsNone
  <2> QED BY <2>1, <2>2, <2>3, <2>4 DEF IdleInv, Watched, BringsNone
<1>7. ASSUME ~SetTimeout, ~Listen, ~Tick,
             \A c \in Conn : ~ReadData(c) /\ \A n \in Name : ~Accept(c, n)
      PROVE  Watched'
  <2>1. UNCHANGED <<wheelVars, idle>> /\ (acceptor' = "none" <=> acceptor = "none")
    BY <1>7 DEF Next, UserCall, ServerClose, UserCloseConnection, Keep, UserDirectClose,
       Write, Drop, LoopStep, PollDone, FinishAcceptor, ClosingDone, TimersDone, Read,
       ReadEof, ReadError, WriteDone, ShutdownDone, FinishConnection, PeerFin, PeerGone,
       serverVars, vars
  <2>2. UNCHANGED closeVars => BringsNone
    BY DEF closeVars, BringsNone
  <2>3. \A conns : OnSocketClose(conns) => BringsNone
    BY OnSocketCloseDrops
  <2>4. BringsNone
    <3>1. CASE UserCall
      <4>1. ASSUME NEW n \in Name, UserCloseConnection(n) PROVE BringsNone
        BY <4>1, CloseConnectionsDrops DEF UserCloseConnection
      <4>2. ASSUME NEW c \in Conn, UserDirectClose(c) PROVE BringsNone
        BY <4>2 DEF UserDirectClose, DropCallbacks, IdleInv, TypeInv, Typed, BringsNone
      <4>3. ServerClose => BringsNone
        BY <2>2, <2>3 DEF ServerClose, OnServerClosed
      <4> QED BY <1>7, <2>2, <3>1, <4>1, <4>2, <4>3 DEF UserCall, Keep, Write, Drop
    <3>2. CASE LoopStep
      <4>1. PollDone => BringsNone
        BY DEF PollDone, BringsNone
      <4>2. FinishAcceptor => BringsNone
        BY <2>3 DEF FinishAcceptor, OnServerClosed
      <4> QED BY <1>7, <2>2, <3>2, <4>1, <4>2 DEF LoopStep, ClosingDone, TimersDone
    <3>3. ASSUME NEW c \in Conn, ReadError(c) \/ ShutdownDone(c) PROVE BringsNone
      BY <3>3, <2>3 DEF ReadError, ShutdownDone
    <3>4. ASSUME NEW c \in Conn, FinishConnection(c) PROVE BringsNone
      BY <3>4 DEF FinishConnection, IdleInv, TypeInv, Typed, BringsNone
    <3>5. ASSUME NEW c \in Conn, ReadEof(c) \/ WriteDone(c) \/ PeerFin(c) \/ PeerGone(c)
          PROVE  BringsNone
      BY <3>5, <2>2 DEF ReadEof, WriteDone, PeerFin, PeerGone
    <3>6. UNCHANGED vars => BringsNone
      BY <2>2 DEF vars
    <3> QED BY <1>7, <3>1, <3>2, <3>3, <3>4, <3>5, <3>6 DEF Next, Read
  <2> QED BY <2>1, <2>4, WatchedFrame DEF IdleInv
<1> QED BY <1>2, <1>3, <1>4, <1>5, <1>6, <1>7

\* A tick of the wheel closes the connections whose last message is Timeout ticks
\* back and no other, wherever index_ stands, in however many slots their wrappers
\* are, and whatever else has closed or is closing (on_message(), ~ConnectionWrapper).
THEOREM IdleClosedOnTimeHolds ==
  ASSUME Disciplined
  PROVE  Spec => IdleClosedOnTime
<1>1. Init => IdleInv
  BY InitTypes, InitOwnership, InitWatched DEF IdleInv
<1>2. IdleInv /\ [Next]_vars => IdleInv'
  BY StepTypes, StepOwnership, StepWatched DEF IdleInv
<1>3. IdleInv /\ [Next]_vars =>
        [Tick => \A c \in Conn :
           attached[c] => (attached'[c] <=> idle[c] + 1 < Timeout)]_vars
  BY TickDetaches
<1> QED BY <1>1, <1>2, <1>3, PTL DEF Spec, IdleClosedOnTime
=============================================================================
