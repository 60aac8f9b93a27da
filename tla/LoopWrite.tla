----------------------------- MODULE LoopWrite -----------------------------
(***************************************************************************)
(* TcpConnection::write_in_loop() (ae/tcp_connection.cpp), which TcpClient *)
(* and TcpServer hand their writes to: every callback the EventLoop is     *)
(* given here is the lambda that holds a buffer and a weak pointer to one  *)
(* connection, and calls write() when its turn comes.                      *)
(*                                                                         *)
(* By then the connection may have lost its peer, be closing, or be gone;  *)
(* the loop may have stopped, and the lambda run on its caller's thread.   *)
(* The caller may use the buffer again once its AfterWriteCallback has run.*)
(***************************************************************************)
EXTENDS EventLoop

VARIABLES
  conn,       \* the TcpConnection: "none", "up", "lost" (~connected_), "closing",
              \* "closed", and "gone" with its last shared pointer
  kept,       \* the user has a shared pointer; until it is closed so has the map
  inflight,   \* the uv_write()s libuv still has a buffer of, oldest first
  sent,       \* history: all that uv_write() took
  answers     \* how often the AfterWriteCallback of a write has run

connVars == <<conn, kept>>
writeVars == <<inflight, sent, answers>>
allVars == <<vars, connVars, writeVars>>

\* The n-th write of a thread is the n-th callback it posts.
Write == Submitter \X (1 .. MaxPosts)

WriteInit ==
  /\ Init
  /\ conn = "none"
  /\ kept = FALSE
  /\ inflight = <<>>
  /\ sent = <<>>
  /\ answers = [w \in Write |-> 0]

-----------------------------------------------------------------------------
(* The write and its answer                                                 *)

\* Mutant: the lambda does nothing when its weak pointer has expired.
AnswerToLiving(W) ==
  answers' = [w \in Write |->
    IF w \in W /\ conn # "gone" THEN answers[w] + 1 ELSE answers[w]]

\* callback(info) for each write of W.
Answer(W) ==
  answers' = [w \in Write |-> IF w \in W THEN answers[w] + 1 ELSE answers[w]]

\* Mutant: the callback is called when uv_write() has been.
TakenAndAnswered(w) ==
  /\ conn = "up"
  /\ inflight' = Append(inflight, w)
  /\ sent' = Append(sent, w)
  /\ Answer({w})

\* uv_write() is given the buffer, with the callback in a WriteReq.
Taken(w) ==
  /\ conn = "up"
  /\ inflight' = Append(inflight, w)
  /\ sent' = Append(sent, w)
  /\ UNCHANGED answers

\* The lambda: the connection is gone, or not connected, or uv_write() fails, as
\* it does on a handle that is closing; or it has the buffer now.
Perform(w) ==
  /\ UNCHANGED connVars
  /\ \/ Taken(w)
     \/ Answer({w}) /\ UNCHANGED <<inflight, sent>>

\* The name no longer leads to a connection: Disconnected, on the spot.
WriteNowhere(t) ==
  /\ pc[t] = "idle"
  /\ posted[t] < MaxPosts
  /\ conn \in {"closed", "gone"}
  /\ posted' = [posted EXCEPT ![t] = @ + 1]
  /\ Answer({<<t, posted'[t]>>})
  /\ UNCHANGED <<status, handle, pending, callbacks, batch, pc, running, loopVars,
                 executed, fault, connVars, inflight, sent>>

\* Who calls write_in_loop() has a shared pointer, his own or, on the loop
\* thread, the map's.
WriteInLoop(t) ==
  /\ kept \/ (t = Main /\ conn \in {"up", "lost", "closing"})
  /\ RunInThisLoop(t)
  /\ UNCHANGED <<connVars, writeVars>>

WriteNested ==
  /\ kept \/ conn \in {"up", "lost", "closing"}
  /\ RunNested
  /\ Perform(<<Main, posted'[Main]>>)

-----------------------------------------------------------------------------
(* The connection, on the loop thread                                       *)

Connect ==
  /\ pc[Main] = "poll"
  /\ conn = "none"
  /\ conn' = "up"
  /\ kept' \in BOOLEAN
  /\ UNCHANGED <<vars, writeVars>>

\* EOF or a read error: set_connect_status(false).
LosePeer ==
  /\ pc[Main] = "poll"
  /\ conn = "up"
  /\ conn' = "lost"
  /\ UNCHANGED <<vars, kept, writeVars>>

\* libuv has written the oldest buffer, or failed to.
WriteDone ==
  /\ pc[Main] = "poll"
  /\ conn \in {"up", "lost"}
  /\ inflight # <<>>
  /\ inflight' = Tail(inflight)
  /\ Answer({Head(inflight)})
  /\ UNCHANGED <<vars, connVars, sent>>

\* close() from any callback of the loop; connected_ keeps its value.
Close ==
  /\ InLoopCallback
  /\ conn \in {"up", "lost"}
  /\ conn' = "closing"
  /\ UNCHANGED <<vars, kept, writeVars>>

\* A handle that waits to be closed keeps poll from blocking.
PollClosing ==
  /\ pc[Main] = "poll"
  /\ conn = "closing"
  /\ GoTo(Main, "closing")
  /\ UNCHANGED <<status, handle, pending, callbacks, batch, running, loopVars,
                 posted, executed, fault, connVars, writeVars>>

\* libuv cancels what it had not written, then calls close_complete(), and the
\* server or client lets go of the connection.
ConnectionClosed ==
  /\ pc[Main] = "closing"
  /\ conn = "closing"
  /\ Answer({inflight[i] : i \in DOMAIN inflight})
  /\ inflight' = <<>>
  /\ conn' = IF kept THEN "closed" ELSE "gone"
  /\ UNCHANGED <<vars, kept, sent>>

\* The user lets go of his shared pointer.
Release ==
  /\ kept
  /\ kept' = FALSE
  /\ conn' = IF conn = "closed" THEN "gone" ELSE conn
  /\ UNCHANGED <<vars, writeVars>>

-----------------------------------------------------------------------------
\* The callback of a thread runs the lambda, in the loop or on the thread itself.
BeginWrite ==
  \/ BeginTask /\ Perform(Head(batch))
  \/ \E t \in Submitter : BeginInline(t) /\ Perform(<<t, posted[t]>>)

Submit(t) == EndInline(t) \/ Push(t) \/ Signal(t)

\* The closing phase finishes every handle that is closing.
OtherLoopStep ==
  \/ AsyncInit \/ SetStarted \/ SetReturned
  \/ Wake \/ Swap \/ EndTask \/ EndDrain \/ PollEmpty
  \/ conn # "closing" /\ (CloseCompleted \/ EndIteration)

Plain ==
  \/ \E t \in Submitter : Submit(t)
  \/ OtherLoopStep
  \/ \E m \in {"default", "nowait"} : Run(m)
  \/ Stop

WriteNext ==
  \/ Plain /\ UNCHANGED <<connVars, writeVars>>
  \/ BeginWrite
  \/ \E t \in Submitter : WriteInLoop(t) \/ WriteNowhere(t)
  \/ WriteNested
  \/ Connect \/ LosePeer \/ WriteDone \/ Close
  \/ PollClosing \/ ConnectionClosed
  \/ Release

\* As for the loop.  The peer need not read, nor anybody close the connection.
WriteFairness ==
  /\ WF_allVars(BeginWrite)
  /\ WF_allVars(OtherLoopStep /\ UNCHANGED <<connVars, writeVars>>)
  /\ WF_allVars(PollClosing \/ ConnectionClosed)
  /\ \A t \in Submitter : WF_allVars(Submit(t) /\ UNCHANGED <<connVars, writeVars>>)

WriteSpec == WriteInit /\ [][WriteNext]_allVars /\ WriteFairness

-----------------------------------------------------------------------------
(* Properties                                                               *)

InFlight(w) == \E i \in DOMAIN inflight : inflight[i] = w

\* The buffer belongs to the caller again when the callback runs, and it runs
\* once: by then neither libuv nor a queued lambda has the buffer, whatever the
\* connection and the loop have been through.
AnsweredOnce ==
  \A w \in Write :
    /\ answers[w] <= 1
    /\ answers[w] = 1 => ~InFlight(w) /\ (Holds(callbacks \o batch, w) =>
                                            running[Main] = w)

\* What a thread writes to the connection is sent in the order it was written,
\* also when the loop stops and later writes no longer go through the queue.
SentInOrder ==
  \A i, j \in DOMAIN sent :
    i < j /\ sent[i][1] = sent[j][1] /\ sent[i][1] # Main => sent[i][2] < sent[j][2]

\* A write is answered, though the connection may be gone before its turn, unless
\* the loop is stopped or the peer does not read; and then when it is closed.
WriteAnswered ==
  \A w \in Write :
    LET waits == Holds(callbacks \o batch, w) \/ (InFlight(w) /\ conn = "closing")
    IN  waits /\ status = "Started" /\ mode = "default" ~>
          \/ answers[w] = 1
          \/ InFlight(w) /\ conn \in {"up", "lost"}
          \/ handle \in {"closing", "freed"}
=============================================================================
