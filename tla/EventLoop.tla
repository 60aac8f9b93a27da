------------------------------ MODULE EventLoop ------------------------------
(***************************************************************************)
(* EventLoop (ae/event_loop.cpp) and the Async it owns (ae/async_task.cpp):*)
(* one thread runs the libuv loop, any thread hands callbacks to it with   *)
(* run_in_this_loop(), and stop() ends it from a callback on the loop.     *)
(*                                                                         *)
(* Every step below is what one thread does between two accesses to state  *)
(* the other threads can see: an access to status_, a critical section of  *)
(* Async::mutex_, an access to handle_.  uv_async_send() sets the `pending'*)
(* flag of the uv_async_t; several sends before the loop looks coalesce.   *)
(***************************************************************************)
EXTENDS Naturals, Sequences

CONSTANTS
  Thread,            \* threads other than the one that runs the loop
  Main,              \* the thread that calls run() or run_no_wait()
  NoTask,            \* "this thread is not executing a callback"
  MaxPosts,          \* bound: run_in_this_loop() calls per thread
  MaxRuns,           \* bound: calls of run()/run_no_wait()
  PostBeforeStart,   \* may other threads post before the first Started?
  MayStop            \* may callbacks call stop()?

ASSUME ThreadAssumption == Main \notin Thread
ASSUME BoundAssumption == MaxPosts \in Nat /\ MaxRuns \in Nat
ASSUME FlagAssumption == PostBeforeStart \in BOOLEAN /\ MayStop \in BOOLEAN

Submitter == Thread \union {Main}

\* A callback, identified by who posted it and as which of its posts.
Task == Submitter \X (Nat \ {0})

ASSUME NoTaskAssumption == NoTask \notin Task

Status == {"NotStarted", "Started", "Stopped"}

\* Async::handle_: null, allocated but not yet given to uv_async_init(), a
\* libuv handle, one uv_close() was called on, or a pointer left dangling by
\* the close callback.
HandleState == {"null", "raw", "open", "closing", "freed"}

SubmitterPc == {"idle", "inline", "push", "signal"}
LoopPc == {"init", "start", "poll", "process", "drain", "closing", "return"}

VARIABLES
  status,      \* EventLoop::status_
  handle,      \* state of what Async::handle_ points to
  pending,     \* the uv_async_t has an undelivered wake-up
  callbacks,   \* Async::callbacks_
  batch,       \* the local queue of Async::process()
  pc,          \* where each thread is
  running,     \* the callback a thread is executing, or NoTask
  mode,        \* UV_RUN_DEFAULT or UV_RUN_NOWAIT, of the current uv_run()
  runs,        \* how often run()/run_no_wait() started the loop
  posted,      \* run_in_this_loop() calls made by each thread
  executed,    \* history: the callbacks executed, oldest first
  fault        \* history: uv_async_send()/uv_is_closing() on a handle that
               \* is not initialised ("raw") or no longer there ("freed")

vars == <<status, handle, pending, callbacks, batch, pc, running, mode,
          runs, posted, executed, fault>>

loopVars == <<mode, runs>>

GoTo(t, label) == pc' = [pc EXCEPT ![t] = label]

Init ==
  /\ status = "NotStarted"
  /\ handle = "null"
  /\ pending = FALSE
  /\ callbacks = <<>>
  /\ batch = <<>>
  /\ pc = [t \in Submitter |-> "idle"]
  /\ running = [t \in Submitter |-> NoTask]
  /\ mode = "default"
  /\ runs = 0
  /\ posted = [t \in Submitter |-> 0]
  /\ executed = <<>>
  /\ fault = {}

-----------------------------------------------------------------------------
(* run_in_this_loop() called outside the loop's callbacks                   *)

\* Mutant: stop() alone makes the loop count as stopped.
RunsInlineStopping == handle \in {"closing", "freed"}

\* is_stopped()
RunsInline == status = "Stopped"

\* status_ has been Started once: the first run() or run_no_wait() has come that
\* far.  run_no_wait() leaves status_ at NotStarted again.
BeenStarted == runs > 1 \/ (runs = 1 /\ pc[Main] \notin {"init", "start"})

\* is_run_in_loop_thread() is false for every caller of this action: either it
\* is not the loop thread, or the loop is not running.  What decides is the
\* one read of status_ in is_stopped().
RunInThisLoop(t) ==
  /\ pc[t] = "idle"
  /\ posted[t] < MaxPosts
  /\ t = Main \/ PostBeforeStart \/ BeenStarted
  /\ posted' = [posted EXCEPT ![t] = @ + 1]
  /\ GoTo(t, IF RunsInline THEN "inline" ELSE "push")
  /\ UNCHANGED <<status, handle, pending, callbacks, batch, running, loopVars,
                 executed, fault>>

\* func() on the caller's own thread, because the loop has stopped.
BeginInline(t) ==
  /\ pc[t] = "inline"
  /\ running[t] = NoTask
  /\ running' = [running EXCEPT ![t] = <<t, posted[t]>>]
  /\ executed' = Append(executed, <<t, posted[t]>>)
  /\ UNCHANGED <<status, handle, pending, callbacks, batch, pc, loopVars,
                 posted, fault>>

EndInline(t) ==
  /\ pc[t] = "inline"
  /\ running[t] # NoTask
  /\ running' = [running EXCEPT ![t] = NoTask]
  /\ GoTo(t, "idle")
  /\ UNCHANGED <<status, handle, pending, callbacks, batch, loopVars, posted,
                 executed, fault>>

\* Mutant: the queue is a stack.
PushFront(t) ==
  /\ pc[t] = "push"
  /\ callbacks' = <<<<t, posted[t]>>>> \o callbacks
  /\ GoTo(t, "signal")
  /\ UNCHANGED <<status, handle, pending, batch, running, loopVars, posted,
                 executed, fault>>

\* The critical section of Async::runInThisLoop().
Push(t) ==
  /\ pc[t] = "push"
  /\ callbacks' = Append(callbacks, <<t, posted[t]>>)
  /\ GoTo(t, "signal")
  /\ UNCHANGED <<status, handle, pending, batch, running, loopVars, posted,
                 executed, fault>>

\* Mutant: handle_ is used without a test.
UnfitUnchecked == {handle} \ {"open", "closing"}

\* What libuv would be given if handle_, not being null, were used now.
Unfit == {handle} \intersect {"raw", "freed"}

\* if (handle_ != nullptr) uv_async_send(handle_), outside the mutex.
Signal(t) ==
  /\ pc[t] = "signal"
  /\ pending' = (pending \/ handle \in {"open", "closing"})
  /\ fault' = fault \union Unfit
  /\ GoTo(t, "idle")
  /\ UNCHANGED <<status, handle, callbacks, batch, running, loopVars, posted,
                 executed>>

-----------------------------------------------------------------------------
(* run() and run_no_wait()                                                  *)

\* Mutant: run() goes on without Async::init() having registered the handle.
RunFromStart == "start"

\* Async::init() does its work once.
RunFrom == IF handle = "null" THEN "init" ELSE "start"

\* Only a loop that is NotStarted runs.
Run(m) ==
  /\ pc[Main] = "idle"
  /\ status = "NotStarted"
  /\ runs < MaxRuns
  /\ runs' = runs + 1
  /\ mode' = m
  /\ handle' = IF handle = "null" THEN "raw" ELSE handle
  /\ GoTo(Main, RunFrom)
  /\ UNCHANGED <<status, pending, callbacks, batch, running, posted,
                 executed, fault>>

\* uv_async_init(), and the uv_async_send() for what was posted earlier.
AsyncInit ==
  /\ pc[Main] = "init"
  /\ handle' = "open"
  /\ pending' = TRUE
  /\ GoTo(Main, "start")
  /\ UNCHANGED <<status, callbacks, batch, running, loopVars, posted, executed,
                 fault>>

SetStarted ==
  /\ pc[Main] = "start"
  /\ status' = "Started"
  /\ GoTo(Main, "poll")
  /\ UNCHANGED <<handle, pending, callbacks, batch, running, loopVars, posted,
                 executed, fault>>

\* uv_run() returned.
SetReturned ==
  /\ pc[Main] = "return"
  /\ status' = IF mode = "default" THEN "Stopped" ELSE "NotStarted"
  /\ GoTo(Main, "idle")
  /\ UNCHANGED <<handle, pending, callbacks, batch, running, mode, runs,
                 posted, executed, fault>>

-----------------------------------------------------------------------------
(* One iteration of uv_run(): the poll phase, then the closing phase        *)

\* The loop sees the wake-up: libuv clears the flag, then calls
\* Async::Callback().
Wake ==
  /\ pc[Main] = "poll"
  /\ handle = "open"
  /\ pending
  /\ pending' = FALSE
  /\ GoTo(Main, "process")
  /\ UNCHANGED <<status, handle, callbacks, batch, running, loopVars, posted,
                 executed, fault>>

\* The critical section of Async::process().
Swap ==
  /\ pc[Main] = "process"
  /\ batch' = callbacks
  /\ callbacks' = <<>>
  /\ GoTo(Main, "drain")
  /\ UNCHANGED <<status, handle, pending, running, loopVars, posted, executed,
                 fault>>

BeginTask ==
  /\ pc[Main] = "drain"
  /\ running[Main] = NoTask
  /\ batch # <<>>
  /\ running' = [running EXCEPT ![Main] = Head(batch)]
  /\ executed' = Append(executed, Head(batch))
  /\ UNCHANGED <<status, handle, pending, callbacks, batch, pc, loopVars,
                 posted, fault>>

EndTask ==
  /\ pc[Main] = "drain"
  /\ running[Main] # NoTask
  /\ running' = [running EXCEPT ![Main] = NoTask]
  /\ batch' = Tail(batch)
  /\ UNCHANGED <<status, handle, pending, callbacks, pc, loopVars, posted,
                 executed, fault>>

\* Mutant: process() runs one callback for each wake-up.
DrainedEarly == running[Main] = NoTask

\* callbacks.empty()
Drained == running[Main] = NoTask /\ batch = <<>>

\* Mutant: the wake-up is cleared after the callbacks instead of before.
EndDrainClears ==
  /\ pc[Main] = "drain"
  /\ Drained
  /\ pending' = FALSE
  /\ GoTo(Main, "closing")
  /\ UNCHANGED <<status, handle, callbacks, batch, running, loopVars, posted,
                 executed, fault>>

EndDrain ==
  /\ pc[Main] = "drain"
  /\ Drained
  /\ GoTo(Main, "closing")
  /\ UNCHANGED <<status, handle, pending, callbacks, batch, running, loopVars,
                 posted, executed, fault>>

\* The poll does not block: UV_RUN_NOWAIT, a handle waits to be closed, or no
\* wake-up handle is left and the loop lives on other handles, if any.
PollEmpty ==
  /\ pc[Main] = "poll"
  /\ handle = "open" => mode = "nowait" /\ ~pending
  /\ GoTo(Main, "closing")
  /\ UNCHANGED <<status, handle, pending, callbacks, batch, running, loopVars,
                 posted, executed, fault>>

\* Mutant: the close callback does not call uv_stop().
CloseCompletedNoStop ==
  /\ pc[Main] = "closing"
  /\ handle = "closing"
  /\ handle' = "freed"
  /\ GoTo(Main, "poll")
  /\ UNCHANGED <<status, pending, callbacks, batch, running, mode, runs,
                 posted, executed, fault>>

\* The close callback of Async::close(): uv_stop() makes this iteration the
\* last one, then the handle is deleted.  handle_ keeps its value.
CloseCompleted ==
  /\ pc[Main] = "closing"
  /\ handle = "closing"
  /\ handle' = "freed"
  /\ GoTo(Main, "return")
  /\ UNCHANGED <<status, pending, callbacks, batch, running, mode, runs,
                 posted, executed, fault>>

\* uv_run() goes round again unless it was NOWAIT or nothing keeps it alive.
EndIteration ==
  /\ pc[Main] = "closing"
  /\ handle # "closing"
  /\ \/ mode = "default" /\ GoTo(Main, "poll")
     \/ (mode = "nowait" \/ handle = "freed") /\ GoTo(Main, "return")
  /\ UNCHANGED <<status, handle, pending, callbacks, batch, running, loopVars,
                 posted, executed, fault>>

-----------------------------------------------------------------------------
(* What user code does inside a callback on the loop thread                 *)

\* A posted callback, or the callback of any other handle of the loop.
InLoopCallback ==
  \/ pc[Main] = "drain" /\ running[Main] # NoTask
  \/ pc[Main] = "poll"

\* run_in_this_loop() on the loop thread: func() at once, ahead of the queue.
RunNested ==
  /\ InLoopCallback
  /\ posted[Main] < MaxPosts
  /\ posted' = [posted EXCEPT ![Main] = @ + 1]
  /\ executed' = Append(executed, <<Main, posted[Main] + 1>>)
  /\ UNCHANGED <<status, handle, pending, callbacks, batch, pc, running,
                 loopVars, fault>>

\* stop(): Async::close() closes the handle unless it is closing already.
Stop ==
  /\ MayStop
  /\ InLoopCallback
  /\ status = "Started"
  /\ handle' = IF handle = "open" THEN "closing" ELSE handle
  /\ fault' = fault \union Unfit
  /\ UNCHANGED <<status, pending, callbacks, batch, pc, running, loopVars,
                 posted, executed>>

-----------------------------------------------------------------------------
SubmitterStep(t) ==
  BeginInline(t) \/ EndInline(t) \/ Push(t) \/ Signal(t)

LoopStep ==
  \/ AsyncInit \/ SetStarted \/ SetReturned
  \/ Wake \/ Swap \/ BeginTask \/ EndTask \/ EndDrain
  \/ PollEmpty \/ CloseCompleted \/ EndIteration

Next ==
  \/ \E t \in Submitter : RunInThisLoop(t) \/ SubmitterStep(t)
  \/ \E m \in {"default", "nowait"} : Run(m)
  \/ LoopStep
  \/ RunNested
  \/ Stop

Spec == Init /\ [][Next]_vars

-----------------------------------------------------------------------------
(* Properties                                                               *)

\* Every variable has its type; the loop's own labels are Main's alone.
TypeOK ==
  /\ status \in Status
  /\ handle \in HandleState
  /\ pending \in BOOLEAN
  /\ callbacks \in Seq(Task)
  /\ batch \in Seq(Task)
  /\ pc \in [Submitter -> SubmitterPc \union LoopPc]
  /\ \A t \in Thread : pc[t] \in SubmitterPc
  /\ running \in [Submitter -> Task \union {NoTask}]
  /\ mode \in {"default", "nowait"}
  /\ runs \in 0 .. MaxRuns
  /\ posted \in [Submitter -> 0 .. MaxPosts]
  /\ executed \in Seq(Task)
  /\ fault \subseteq {"raw", "freed"}

\* run_in_this_loop() runs a callback on the caller's thread once the loop has
\* stopped.  That never overlaps a callback the loop thread is still running:
\* status_ becomes Stopped only after uv_run() has returned.
LoopExclusive ==
  pc[Main] = "drain" /\ running[Main] # NoTask =>
    \A t \in Thread : running[t] = NoTask

\* The wake-up of a queued callback is never lost: while the wake-up handle is
\* open, a non-empty queue comes with a wake-up that is set, being handled, or
\* about to be sent -- although runInThisLoop() tests handle_ without the lock
\* and sends coalesce.
WakeupNotLost ==
  handle = "open" /\ callbacks # <<>> =>
    \/ pending
    \/ pc[Main] = "process"
    \/ \E t \in Submitter : pc[t] = "signal"

Holds(seq, task) == \E i \in DOMAIN seq : seq[i] = task

\* No callback disappears between run_in_this_loop(), the queue, the local batch
\* of process() and its execution, whoever posts and whenever the loop swaps
\* the queue: if it has not run, it is waiting somewhere.
NoneLost ==
  \A t \in Submitter : \A n \in 1 .. posted[t] :
    \/ Holds(executed \o batch \o callbacks, <<t, n>>)
    \/ n = posted[t] /\ pc[t] \in {"push", "inline"}

\* When the other threads post only once status_ has been Started -- then at any
\* time, also between two calls of run_no_wait() -- no call of uv_async_send() or
\* uv_is_closing() meets a handle that is not initialised: init() comes before
\* Started, and no later run makes a new one.  And until stop() has closed the
\* handle, none meets one that is gone.
SendsOnLiveHandle ==
  ~PostBeforeStart => fault \subseteq {"freed"} \intersect {handle}

\* stop() ends the loop: once the wake-up handle is being closed, uv_run()
\* returns, whatever other handles keep the loop alive.
StopTerminates == handle = "closing" ~> status # "Started"

\* The queue, the mutex and the wake-up implement a serial executor: per
\* posting thread, callbacks run at most once and in the order posted, with no
\* gap until stop() is called.
Executor == INSTANCE SerialExecutor WITH
  submitted <- posted,
  closed <- handle \in {"closing", "freed"}

ImplementsExecutor == Executor!Spec
=============================================================================
