--------------------------- MODULE EventLoopProofs ---------------------------
(***************************************************************************)
(* Theorems about EventLoop, for any number of threads, posts and runs,    *)
(* and about the writes LoopWrite adds to it, whatever becomes of their    *)
(* connection.                                                             *)
(***************************************************************************)
EXTENDS LoopWrite, TLAPS

USE DEF loopVars, RunsInline, Unfit, RunFrom, Drained

\* A thread that is about to run or queue a callback has posted it.
Posted == \A t \in Submitter : pc[t] \in {"push", "inline"} => posted[t] # 0

\* Off the loop, callbacks run inline only once the loop has stopped, and then
\* uv_run() is over.
InlineAfterStop ==
  /\ \A t \in Submitter : pc[t] = "inline" => status = "Stopped"
  /\ \A t \in Thread : running[t] # NoTask => pc[t] = "inline"
  /\ status = "Stopped" => pc[Main] \in SubmitterPc

\* The callback process() is executing is still at the front of its batch.
Draining ==
  running[Main] # NoTask =>
    pc[Main] = "inline" \/ (pc[Main] = "drain" /\ batch # <<>>)

\* The inductive invariant.
IInv == TypeOK /\ Posted /\ Draining /\ InlineAfterStop /\ WakeupNotLost

\* The initial state satisfies the invariant.
LEMMA InitIInv == Init => IInv
<1> SUFFICES ASSUME Init PROVE IInv
  OBVIOUS
<1>1. TypeOK
  <2>1. status \in Status /\ handle \in HandleState /\ pending \in BOOLEAN
    BY DEF Init, Status, HandleState
  <2>2. callbacks \in Seq(Task) /\ batch \in Seq(Task) /\ executed \in Seq(Task)
    BY DEF Init
  <2>3. /\ pc \in [Submitter -> SubmitterPc \union LoopPc]
        /\ \A t \in Thread : pc[t] \in SubmitterPc
    BY DEF Init, SubmitterPc, LoopPc, Submitter
  <2>4. running \in [Submitter -> Task \union {NoTask}]
    BY DEF Init
  <2>5. mode \in {"default", "nowait"} /\ runs \in 0 .. MaxRuns
    BY BoundAssumption DEF Init
  <2>6. posted \in [Submitter -> 0 .. MaxPosts]
    BY BoundAssumption DEF Init
  <2>7. fault \subseteq {"raw", "freed"}
    BY DEF Init
  <2> QED
    BY <2>1, <2>2, <2>3, <2>4, <2>5, <2>6, <2>7 DEF TypeOK
<1>2. Posted /\ Draining /\ InlineAfterStop /\ WakeupNotLost
  BY DEF Init, Posted, Draining, InlineAfterStop, WakeupNotLost, SubmitterPc, Submitter
<1> QED
  BY <1>1, <1>2 DEF IInv

\* What one thread does in run_in_this_loop() keeps every variable in its type.
LEMMA SubmitterTypeOK ==
  ASSUME TypeOK, Posted, NEW t \in Submitter,
         RunInThisLoop(t) \/ SubmitterStep(t)
  PROVE  TypeOK'
<1>1. CASE RunInThisLoop(t)
  <2>1. posted[t] + 1 \in 0 .. MaxPosts
    BY <1>1, BoundAssumption DEF TypeOK, RunInThisLoop
  <2> QED
    BY <1>1, <2>1 DEF TypeOK, RunInThisLoop, GoTo, SubmitterPc
<1>2. CASE BeginInline(t)
  <2>1. <<t, posted[t]>> \in Task
    BY <1>2, BoundAssumption DEF TypeOK, Posted, BeginInline, Task
  <2> QED
    BY <1>2, <2>1 DEF TypeOK, BeginInline
<1>3. CASE EndInline(t)
  BY <1>3 DEF TypeOK, EndInline, GoTo, SubmitterPc
<1>4. CASE Push(t)
  <2>1. <<t, posted[t]>> \in Task
    BY <1>4, BoundAssumption DEF TypeOK, Posted, Push, Task
  <2> QED
    BY <1>4, <2>1 DEF TypeOK, Push, GoTo, SubmitterPc
<1>5. CASE Signal(t)
  BY <1>5 DEF TypeOK, Signal, GoTo, SubmitterPc, HandleState
<1> QED
  BY <1>1, <1>2, <1>3, <1>4, <1>5 DEF SubmitterStep

\* Moving the loop thread to another of its labels keeps pc in its type.
LEMMA MainGoesTo ==
  ASSUME TypeOK, NEW label \in LoopPc \union {"idle"}, GoTo(Main, label)
  PROVE  /\ pc' \in [Submitter -> SubmitterPc \union LoopPc]
         /\ \A t \in Thread : pc'[t] \in SubmitterPc
         /\ pc'[Main] = label
         /\ \A t \in Thread : pc'[t] = pc[t]
BY ThreadAssumption DEF TypeOK, GoTo, SubmitterPc, LoopPc, Submitter

\* So does what the loop thread does, from run() to the return of uv_run().
LEMMA LoopTypeOK ==
  ASSUME TypeOK, Draining, LoopStep
  PROVE  TypeOK'
<1>0. Main \in Submitter
  BY DEF Submitter
<1>1. CASE AsyncInit
  BY <1>1, MainGoesTo DEF AsyncInit, TypeOK, HandleState, LoopPc
<1>2. CASE SetStarted
  BY <1>2, MainGoesTo DEF SetStarted, TypeOK, Status, LoopPc
<1>3. CASE SetReturned
  BY <1>3, MainGoesTo DEF SetReturned, TypeOK, Status
<1>4. CASE Wake
  BY <1>4, MainGoesTo DEF Wake, TypeOK, LoopPc
<1>5. CASE Swap
  BY <1>5, MainGoesTo DEF Swap, TypeOK, LoopPc
<1>6. CASE BeginTask
  <2>1. Head(batch) \in Task
    BY <1>6 DEF BeginTask, TypeOK
  <2> QED
    BY <1>0, <1>6, <2>1 DEF BeginTask, TypeOK
<1>7. CASE EndTask
  <2>1. running' \in [Submitter -> Task \union {NoTask}]
    BY <1>7 DEF EndTask, TypeOK
  <2>2. batch # <<>>
    BY <1>7 DEF EndTask, Draining
  <2>3. batch' \in Seq(Task)
    BY <1>7, <2>2 DEF EndTask, TypeOK
  <2> QED
    BY <1>7, <2>1, <2>3 DEF EndTask, TypeOK
<1>8. CASE EndDrain
  BY <1>8, MainGoesTo DEF EndDrain, TypeOK, LoopPc
<1>9. CASE PollEmpty
  BY <1>9, MainGoesTo DEF PollEmpty, TypeOK, LoopPc
<1>10. CASE CloseCompleted
  BY <1>10, MainGoesTo DEF CloseCompleted, TypeOK, HandleState, LoopPc
<1>11. CASE EndIteration
  <2>1. GoTo(Main, "poll") \/ GoTo(Main, "return")
    BY <1>11 DEF EndIteration
  <2>2. /\ pc' \in [Submitter -> SubmitterPc \union LoopPc]
        /\ \A t \in Thread : pc'[t] \in SubmitterPc
    BY <2>1, MainGoesTo DEF LoopPc
  <2> QED
    BY <1>11, <2>2 DEF EndIteration, TypeOK
<1> QED
  BY <1>1, <1>2, <1>3, <1>4, <1>5, <1>6, <1>7, <1>8, <1>9, <1>10, <1>11
  DEF LoopStep

\* And what user code does inside a callback of the loop, and run().
LEMMA CallTypeOK ==
  ASSUME TypeOK, RunNested \/ Stop \/ \E m \in {"default", "nowait"} : Run(m)
  PROVE  TypeOK'
<1>0. Main \in Submitter /\ Main \notin Thread
  BY ThreadAssumption DEF Submitter
<1>1. CASE RunNested
  <2>1. posted[Main] \in 0 .. MaxPosts /\ posted[Main] < MaxPosts
    BY <1>0, <1>1 DEF TypeOK, RunNested
  <2>2. posted[Main] + 1 \in 0 .. MaxPosts /\ posted[Main] + 1 \in Nat \ {0}
    BY <2>1, BoundAssumption
  <2>3. <<Main, posted[Main] + 1>> \in Task
    BY <1>0, <2>2 DEF Task
  <2>4. executed' \in Seq(Task)
    BY <1>1, <2>3 DEF TypeOK, RunNested
  <2>5. posted' \in [Submitter -> 0 .. MaxPosts]
    BY <1>1, <2>2 DEF TypeOK, RunNested
  <2> QED
    BY <1>1, <2>4, <2>5 DEF TypeOK, RunNested
<1>2. CASE Stop
  BY <1>2 DEF TypeOK, Stop, HandleState
<1>3. CASE \E m \in {"default", "nowait"} : Run(m)
  <2>1. PICK m \in {"default", "nowait"} : Run(m)
    BY <1>3
  <2>2. runs + 1 \in 0 .. MaxRuns
    BY <2>1, BoundAssumption DEF TypeOK, Run
  <2> QED
    BY <1>0, <2>1, <2>2 DEF TypeOK, Run, GoTo, HandleState, SubmitterPc, LoopPc
<1> QED
  BY <1>1, <1>2, <1>3

\* Every step keeps the types.
LEMMA NextTypeOK == IInv /\ [Next]_vars => TypeOK'
<1> SUFFICES ASSUME IInv, [Next]_vars PROVE TypeOK'
  OBVIOUS
<1>1. TypeOK /\ Posted /\ Draining
  BY DEF IInv
<1>2. CASE Next
  BY <1>1, <1>2, SubmitterTypeOK, LoopTypeOK, CallTypeOK DEF Next
<1>3. CASE UNCHANGED vars
  BY <1>1, <1>3 DEF TypeOK, vars
<1> QED
  BY <1>2, <1>3

\* A thread reaches "push", "signal" or "inline" only by posting, and its count
\* of posts never shrinks.
LEMMA NextPosted == IInv /\ [Next]_vars => Posted'
<1> SUFFICES ASSUME IInv, [Next]_vars, NEW u \in Submitter,
                    pc'[u] \in {"push", "inline"}
             PROVE  posted'[u] # 0
  BY DEF Posted
<1> USE DEF IInv, TypeOK, Posted
<1>0. Main \in Submitter
  BY DEF Submitter
<1>1. ASSUME NEW t \in Submitter, RunInThisLoop(t)
      PROVE  posted'[u] # 0
  BY <1>1, BoundAssumption DEF RunInThisLoop, GoTo
<1>2. ASSUME NEW t \in Submitter, SubmitterStep(t)
      PROVE  posted'[u] # 0
  BY <1>2 DEF SubmitterStep, BeginInline, EndInline, Push, Signal, GoTo
<1>3. ASSUME NEW m, Run(m)
      PROVE  posted'[u] # 0
  BY <1>0, <1>3 DEF Run, GoTo
<1>4. ASSUME LoopStep
      PROVE  posted'[u] # 0
  BY <1>0, <1>4
  DEF LoopStep, AsyncInit, SetStarted, SetReturned, Wake, Swap, BeginTask,
      EndTask, EndDrain, PollEmpty, CloseCompleted, EndIteration, GoTo
<1>5. CASE RunNested
  BY <1>0, <1>5, BoundAssumption DEF RunNested
<1>6. CASE Stop \/ UNCHANGED vars
  BY <1>6 DEF Stop, vars
<1> QED
  BY <1>1, <1>2, <1>3, <1>4, <1>5, <1>6 DEF Next

\* Only EndTask takes the front of the batch away, and it ends the callback.
LEMMA NextDraining == IInv /\ [Next]_vars => Draining'
<1> SUFFICES ASSUME IInv, [Next]_vars PROVE Draining'
  OBVIOUS
<1> USE DEF IInv, TypeOK, Draining
<1>0. Main \in Submitter
  BY DEF Submitter
<1>1. ASSUME NEW t \in Submitter, RunInThisLoop(t) \/ SubmitterStep(t)
      PROVE  Draining'
  BY <1>0, <1>1
  DEF RunInThisLoop, SubmitterStep, BeginInline, EndInline, Push, Signal, GoTo
<1>2. ASSUME NEW m, Run(m)
      PROVE  Draining'
  BY <1>0, <1>2 DEF Run, GoTo
<1>3. CASE LoopStep
  BY <1>0, <1>3
  DEF LoopStep, AsyncInit, SetStarted, SetReturned, Wake, Swap, BeginTask,
      EndTask, EndDrain, PollEmpty, CloseCompleted, EndIteration, GoTo
<1>4. CASE RunNested \/ Stop \/ UNCHANGED vars
  BY <1>4 DEF RunNested, Stop, vars
<1> QED
  BY <1>1, <1>2, <1>3, <1>4 DEF Next

\* status_ becomes Stopped when uv_run() is over, and run() then does nothing.
LEMMA NextInlineAfterStop == IInv /\ [Next]_vars => InlineAfterStop'
<1> SUFFICES ASSUME IInv, [Next]_vars PROVE InlineAfterStop'
  OBVIOUS
<1> USE DEF IInv, TypeOK, InlineAfterStop
<1>0. Main \in Submitter /\ Main \notin Thread /\ Thread \subseteq Submitter
  BY ThreadAssumption DEF Submitter
<1>1. ASSUME NEW t \in Submitter, RunInThisLoop(t)
      PROVE  InlineAfterStop'
  BY <1>0, <1>1 DEF RunInThisLoop, GoTo, SubmitterPc
<1>2. ASSUME NEW t \in Submitter, SubmitterStep(t)
      PROVE  InlineAfterStop'
  BY <1>0, <1>2
  DEF SubmitterStep, BeginInline, EndInline, Push, Signal, GoTo, SubmitterPc
<1>3. ASSUME NEW m, Run(m)
      PROVE  InlineAfterStop'
  BY <1>0, <1>3 DEF Run, GoTo
<1>4. CASE LoopStep
  <2> USE <1>0 DEF GoTo, SubmitterPc
  <2>1. CASE AsyncInit \/ SetStarted \/ SetReturned
    BY <2>1 DEF AsyncInit, SetStarted, SetReturned
  <2>2. CASE Wake \/ Swap \/ BeginTask \/ EndTask \/ EndDrain
    BY <2>2 DEF Wake, Swap, BeginTask, EndTask, EndDrain
  <2>3. CASE PollEmpty \/ CloseCompleted \/ EndIteration
    BY <2>3 DEF PollEmpty, CloseCompleted, EndIteration
  <2> QED
    BY <1>4, <2>1, <2>2, <2>3 DEF LoopStep
<1>5. CASE RunNested \/ Stop \/ UNCHANGED vars
  BY <1>5 DEF RunNested, Stop, vars
<1> QED
  BY <1>1, <1>2, <1>3, <1>4, <1>5 DEF Next

\* The heart of it: push before send, and clear the wake-up before the swap.
LEMMA NextWakeupNotLost == IInv /\ [Next]_vars => WakeupNotLost'
<1> SUFFICES ASSUME IInv, [Next]_vars PROVE WakeupNotLost'
  OBVIOUS
<1> USE DEF IInv, TypeOK, WakeupNotLost
<1>0. Main \in Submitter
  BY DEF Submitter
<1>1. ASSUME NEW t \in Submitter, RunInThisLoop(t)
      PROVE  WakeupNotLost'
  BY <1>0, <1>1 DEF RunInThisLoop, GoTo
<1>2. ASSUME NEW t \in Submitter, SubmitterStep(t)
      PROVE  WakeupNotLost'
  <2>1. CASE BeginInline(t) \/ EndInline(t)
    BY <1>0, <2>1 DEF BeginInline, EndInline, GoTo
  <2>2. CASE Push(t)
    BY <2>2 DEF Push, GoTo
  <2>3. CASE Signal(t)
    BY <1>0, <2>3 DEF Signal, GoTo
  <2> QED
    BY <1>2, <2>1, <2>2, <2>3 DEF SubmitterStep
<1>3. ASSUME NEW m, Run(m)
      PROVE  WakeupNotLost'
  BY <1>0, <1>3 DEF Run, GoTo
<1>4. CASE LoopStep
  <2> USE <1>0 DEF GoTo
  <2>1. CASE AsyncInit \/ SetStarted \/ SetReturned
    BY <2>1 DEF AsyncInit, SetStarted, SetReturned
  <2>2. CASE Wake \/ Swap \/ BeginTask \/ EndTask \/ EndDrain
    BY <2>2 DEF Wake, Swap, BeginTask, EndTask, EndDrain
  <2>3. CASE PollEmpty \/ CloseCompleted \/ EndIteration
    BY <2>3 DEF PollEmpty, CloseCompleted, EndIteration
  <2> QED
    BY <1>4, <2>1, <2>2, <2>3 DEF LoopStep
<1>5. CASE RunNested \/ Stop \/ UNCHANGED vars
  BY <1>5 DEF RunNested, Stop, vars
<1> QED
  BY <1>1, <1>2, <1>3, <1>4, <1>5 DEF Next

\* The invariant holds in every reachable state.
LEMMA Invariance == Spec => []IInv
<1>1. Init => IInv
  BY InitIInv
<1>2. IInv /\ [Next]_vars => IInv'
  BY NextTypeOK, NextPosted, NextDraining, NextInlineAfterStop,
     NextWakeupNotLost
  DEF IInv
<1> QED
  BY <1>1, <1>2, PTL DEF Spec

\* Every variable of the event loop keeps its type.
THEOREM TypeCorrect == Spec => []TypeOK
<1>1. IInv => TypeOK
  BY DEF IInv
<1> QED
  BY <1>1, Invariance, PTL

\* A callback that run_in_this_loop() runs on a caller's thread after stop()
\* never overlaps one the loop thread is running.
THEOREM LoopExclusiveHolds == Spec => []LoopExclusive
<1>1. IInv => LoopExclusive
  BY DEF IInv, InlineAfterStop, LoopExclusive, SubmitterPc, Submitter
<1> QED
  BY <1>1, Invariance, PTL

\* While the wake-up handle is open, a queued callback has its wake-up.
THEOREM WakeupNotLostHolds == Spec => []WakeupNotLost
<1>1. IInv => WakeupNotLost
  BY DEF IInv
<1> QED
  BY <1>1, Invariance, PTL

-----------------------------------------------------------------------------
(* uv_async_send() meets live handles only                                  *)

\* The handle is raw only inside init(), in the first run, which the loop thread
\* passes before status_ is first Started, and threads that wait for that find
\* it registered.  A use of a deleted handle is recorded only once it is deleted,
\* and it stays so.
Registered ==
  /\ handle = "raw" <=> pc[Main] = "init"
  /\ handle = "null" => pc[Main] \in SubmitterPc
  /\ handle \in {"null", "raw"} => status = "NotStarted"
  /\ handle = "null" => runs = 0
  /\ handle = "raw" => runs = 1
  /\ ~PostBeforeStart /\ handle \in {"null", "raw"} =>
       \A t \in Thread : pc[t] = "idle"
  /\ SendsOnLiveHandle

\* The initial state has no handle and has used none.
LEMMA InitRegistered == Init => Registered
BY ThreadAssumption
DEF Init, Registered, SendsOnLiveHandle, SubmitterPc, Submitter

\* Every step keeps the handle registered.
LEMMA NextRegistered == TypeOK /\ Registered /\ [Next]_vars => Registered'
<1> SUFFICES ASSUME TypeOK, Registered, [Next]_vars PROVE Registered'
  OBVIOUS
<1> USE DEF TypeOK, Registered, SendsOnLiveHandle
<1>0. Main \in Submitter /\ Main \notin Thread /\ Thread \subseteq Submitter
  BY ThreadAssumption DEF Submitter
<1>1. ASSUME NEW t \in Submitter, RunInThisLoop(t)
      PROVE  Registered'
  BY <1>0, <1>1 DEF RunInThisLoop, BeenStarted, GoTo, SubmitterPc, Submitter
<1>2. ASSUME NEW t \in Submitter, SubmitterStep(t)
      PROVE  Registered'
  <2> USE <1>0 DEF GoTo, SubmitterPc
  <2>1. CASE BeginInline(t) \/ EndInline(t)
    BY <2>1 DEF BeginInline, EndInline
  <2>2. CASE Push(t)
    BY <2>2 DEF Push
  <2>3. CASE Signal(t)
    <3>1. ~PostBeforeStart => Unfit \subseteq {"freed"} \intersect {handle}
      BY <2>3 DEF Signal, Submitter
    <3> QED
      BY <2>3, <3>1 DEF Signal
  <2> QED
    BY <1>2, <2>1, <2>2, <2>3 DEF SubmitterStep
<1>3. ASSUME NEW m, Run(m)
      PROVE  Registered'
  BY <1>0, <1>3 DEF Run, GoTo, SubmitterPc
<1>4. CASE LoopStep
  <2> USE <1>0 DEF GoTo, SubmitterPc
  <2>1. CASE AsyncInit \/ SetStarted \/ SetReturned
    BY <2>1 DEF AsyncInit, SetStarted, SetReturned
  <2>2. CASE Wake \/ Swap \/ BeginTask \/ EndTask \/ EndDrain
    BY <2>2 DEF Wake, Swap, BeginTask, EndTask, EndDrain
  <2>3. CASE PollEmpty \/ CloseCompleted \/ EndIteration
    BY <2>3 DEF PollEmpty, CloseCompleted, EndIteration
  <2> QED
    BY <1>4, <2>1, <2>2, <2>3 DEF LoopStep
<1>5. CASE RunNested \/ UNCHANGED vars
  BY <1>5 DEF RunNested, vars
<1>6. CASE Stop
  BY <1>0, <1>6 DEF Stop, InLoopCallback
<1> QED
  BY <1>1, <1>2, <1>3, <1>4, <1>5, <1>6 DEF Next

\* When the other threads post only after the first Started, no uv_async_send() or
\* uv_is_closing() meets a handle that is not initialised or, before stop() has
\* deleted it, one that is gone.
THEOREM SendsOnLiveHandleHolds == Spec => []SendsOnLiveHandle
<1>1. Init => Registered
  BY InitRegistered
<1>2. TypeOK /\ Registered /\ [Next]_vars => Registered'
  BY NextRegistered
<1>3. Registered => SendsOnLiveHandle
  BY DEF Registered
<1> QED
  BY <1>1, <1>2, <1>3, TypeCorrect, PTL DEF Spec

-----------------------------------------------------------------------------
(* No callback disappears                                                   *)

\* An element of a sequence is one of a longer sequence, and so is the new one.
LEMMA HoldsAppend ==
  ASSUME NEW seq \in Seq(Task), NEW last \in Task, NEW task
  PROVE  /\ Holds(Append(seq, last), last)
         /\ Holds(seq, task) => Holds(Append(seq, last), task)
<1>1. /\ Len(seq) + 1 \in DOMAIN Append(seq, last)
      /\ Append(seq, last)[Len(seq) + 1] = last
  OBVIOUS
<1>2. ASSUME NEW i \in DOMAIN seq
      PROVE  i \in DOMAIN Append(seq, last) /\ Append(seq, last)[i] = seq[i]
  OBVIOUS
<1> QED
  BY <1>1, <1>2 DEF Holds

\* The elements of a sequence are its head and those of its tail.
LEMMA HoldsTail ==
  ASSUME NEW seq \in Seq(Task), seq # <<>>, NEW task, Holds(seq, task)
  PROVE  task = Head(seq) \/ Holds(Tail(seq), task)
<1>1. PICK i \in DOMAIN seq : seq[i] = task
  BY DEF Holds
<1>2. CASE i = 1
  BY <1>1, <1>2
<1>3. CASE i # 1
  <2>1. i - 1 \in DOMAIN Tail(seq) /\ Tail(seq)[i - 1] = seq[i]
    BY <1>3
  <2> QED
    BY <1>1, <2>1 DEF Holds
<1> QED
  BY <1>2, <1>3

\* The elements of two sequences are those of their concatenation.
LEMMA HoldsConcat ==
  ASSUME NEW left \in Seq(Task), NEW right \in Seq(Task), NEW task
  PROVE  Holds(left, task) \/ Holds(right, task) => Holds(left \o right, task)
<1>1. ASSUME NEW i \in DOMAIN left
      PROVE  i \in DOMAIN (left \o right) /\ (left \o right)[i] = left[i]
  OBVIOUS
<1>2. ASSUME NEW i \in DOMAIN right
      PROVE  /\ Len(left) + i \in DOMAIN (left \o right)
             /\ (left \o right)[Len(left) + i] = right[i]
  OBVIOUS
<1> QED
  BY <1>1, <1>2 DEF Holds

\* Where a callback is that has been posted.
Somewhere(task) ==
  Holds(executed, task) \/ Holds(batch, task) \/ Holds(callbacks, task)

\* process() swaps an empty batch, and a callback leaves the batch, or its
\* thread run_in_this_loop(), after it has been executed.
Accounted ==
  /\ \A t \in Submitter : \A n \in 1 .. posted[t] :
       Somewhere(<<t, n>>) \/ (n = posted[t] /\ pc[t] \in {"push", "inline"})
  /\ pc[Main] # "drain" => batch = <<>>
  /\ pc[Main] = "drain" /\ running[Main] # NoTask =>
       Holds(executed, Head(batch))
  /\ \A t \in Submitter :
       pc[t] = "inline" /\ running[t] # NoTask =>
         Holds(executed, <<t, posted[t]>>)

\* A thread that executes nothing is about to post or has the loop to run.
LEMMA IdleRunsNothing ==
  ASSUME IInv, NEW t \in Submitter, pc[t] \in {"idle", "push", "signal"}
  PROVE  running[t] = NoTask
BY DEF IInv, InlineAfterStop, Draining, Submitter

\* The initial state has nothing to account for.
LEMMA InitAccounted == Init => Accounted
<1> SUFFICES ASSUME Init PROVE Accounted
  OBVIOUS
<1>1. Main \in Submitter /\ batch = <<>>
  BY DEF Init, Submitter
<1>2. \A t \in Submitter : posted[t] = 0 /\ pc[t] = "idle"
  BY DEF Init
<1> QED
  BY <1>1, <1>2 DEF Accounted

\* What a thread does in run_in_this_loop() loses no callback.
LEMMA SubmitterAccounted ==
  ASSUME IInv, Accounted, NEW u \in Submitter,
         RunInThisLoop(u) \/ SubmitterStep(u)
  PROVE  Accounted'
<1> USE DEF TypeOK
<1>0. TypeOK /\ Posted /\ Main \in Submitter
  BY DEF IInv, Submitter
<1>1. CASE RunInThisLoop(u)
  <2>1. running[u] = NoTask
    BY <1>1, IdleRunsNothing DEF RunInThisLoop
  <2> QED
    BY <1>0, <1>1, <2>1, BoundAssumption
    DEF RunInThisLoop, GoTo, Accounted, Somewhere
<1>2. CASE BeginInline(u)
  <2>1. <<u, posted[u]>> \in Task
    BY <1>0, <1>2, BoundAssumption DEF Posted, BeginInline, Task
  <2>2. /\ Holds(executed', <<u, posted[u]>>)
        /\ \A task : Holds(executed, task) => Holds(executed', task)
    BY <1>0, <1>2, <2>1, HoldsAppend DEF BeginInline
  <2> QED
    BY <1>0, <1>2, <2>2 DEF BeginInline, Accounted, Somewhere
<1>3. CASE EndInline(u)
  BY <1>0, <1>3 DEF EndInline, GoTo, Accounted, Somewhere
<1>4. CASE Push(u)
  <2>1. <<u, posted[u]>> \in Task
    BY <1>0, <1>4, BoundAssumption DEF Posted, Push, Task
  <2>2. /\ Holds(callbacks', <<u, posted[u]>>)
        /\ \A task : Holds(callbacks, task) => Holds(callbacks', task)
    BY <1>0, <1>4, <2>1, HoldsAppend DEF Push
  <2> QED
    BY <1>0, <1>4, <2>2 DEF Push, GoTo, Accounted, Somewhere
<1>5. CASE Signal(u)
  BY <1>0, <1>5 DEF Signal, GoTo, Accounted, Somewhere
<1> QED
  BY <1>1, <1>2, <1>3, <1>4, <1>5 DEF SubmitterStep

\* Neither does the loop.
LEMMA LoopAccounted ==
  ASSUME IInv, Accounted, LoopStep
  PROVE  Accounted'
<1> USE DEF TypeOK, Accounted, Somewhere
<1>0. TypeOK /\ Draining /\ Main \in Submitter
  BY DEF IInv, Submitter
<1>1. CASE AsyncInit \/ SetStarted \/ SetReturned
  <2>1. /\ UNCHANGED <<executed, batch, callbacks, posted, running>>
        /\ pc[Main] \in {"init", "start", "return"}
        /\ pc'[Main] \in {"start", "poll", "idle"}
        /\ \A t \in Submitter \ {Main} : pc'[t] = pc[t]
    BY <1>0, <1>1 DEF AsyncInit, SetStarted, SetReturned, GoTo
  <2> QED
    BY <1>0, <2>1
<1>2. CASE Wake
  BY <1>0, <1>2 DEF Wake, GoTo
<1>3. CASE Swap
  <2>1. running[Main] = NoTask /\ batch = <<>>
    BY <1>0, <1>3 DEF Swap, Draining
  <2>2. /\ UNCHANGED <<executed, posted, running>>
        /\ pc[Main] = "process" /\ pc'[Main] = "drain"
        /\ \A t \in Submitter \ {Main} : pc'[t] = pc[t]
    BY <1>0, <1>3 DEF Swap, GoTo
  <2>3. \A task : Holds(callbacks, task) => Holds(batch', task)
    BY <1>3 DEF Swap, Holds
  <2>4. \A task : ~Holds(batch, task)
    BY <2>1 DEF Holds
  <2> QED
    BY <1>0, <2>1, <2>2, <2>3, <2>4
<1>4. CASE BeginTask
  <2>1. Head(batch) \in Task
    BY <1>0, <1>4 DEF BeginTask
  <2>2. /\ Holds(executed', Head(batch))
        /\ \A task : Holds(executed, task) => Holds(executed', task)
    BY <1>0, <1>4, <2>1, HoldsAppend DEF BeginTask
  <2> QED
    BY <1>0, <1>4, <2>2 DEF BeginTask
<1>5. CASE EndTask
  <2>1. batch # <<>> /\ Holds(executed, Head(batch))
    BY <1>0, <1>5 DEF EndTask, Draining
  <2>2. \A task : Holds(batch, task) => task = Head(batch) \/ Holds(batch', task)
    BY <1>0, <1>5, <2>1, HoldsTail DEF EndTask
  <2> QED
    BY <1>0, <1>5, <2>1, <2>2 DEF EndTask
<1>6. CASE EndDrain
  BY <1>0, <1>6 DEF EndDrain, GoTo
<1>7. CASE PollEmpty \/ CloseCompleted \/ EndIteration
  <2>1. /\ UNCHANGED <<executed, batch, callbacks, posted, running>>
        /\ pc[Main] \in {"poll", "closing"}
        /\ pc'[Main] \in {"poll", "closing", "return"}
        /\ \A t \in Submitter \ {Main} : pc'[t] = pc[t]
    BY <1>0, <1>7 DEF PollEmpty, CloseCompleted, EndIteration, GoTo
  <2> QED
    BY <1>0, <2>1
<1> QED
  BY <1>1, <1>2, <1>3, <1>4, <1>5, <1>6, <1>7 DEF LoopStep

\* Nor does what user code does inside a callback of the loop, nor run().
LEMMA CallAccounted ==
  ASSUME IInv, Accounted,
         RunNested \/ Stop \/ \E m \in {"default", "nowait"} : Run(m)
  PROVE  Accounted'
<1> USE DEF TypeOK, Accounted, Somewhere
<1>0. TypeOK /\ Main \in Submitter
  BY DEF IInv, Submitter
<1>1. CASE RunNested
  <2>1. posted[Main] \in Nat /\ <<Main, posted[Main] + 1>> \in Task
    BY <1>0, BoundAssumption DEF Task
  <2>2. /\ Holds(executed', <<Main, posted[Main] + 1>>)
        /\ \A task : Holds(executed, task) => Holds(executed', task)
    BY <1>0, <1>1, <2>1, HoldsAppend DEF RunNested
  <2>3. pc[Main] \in {"drain", "poll"}
    BY <1>1 DEF RunNested, InLoopCallback
  <2>4. \A t \in Submitter : \A n \in 1 .. posted'[t] :
           \/ n \in 1 .. posted[t]
           \/ t = Main /\ n = posted[Main] + 1
    BY <1>0, <1>1, <2>1, BoundAssumption DEF RunNested
  <2>5. \A t \in Submitter : pc[t] = "inline" => posted'[t] = posted[t]
    BY <1>0, <1>1, <2>3 DEF RunNested
  <2>6. UNCHANGED <<pc, running, batch, callbacks>>
    BY <1>1 DEF RunNested
  <2> QED
    <3>1. \A t \in Submitter : \A n \in 1 .. posted'[t] :
             Somewhere(<<t, n>>)' \/ (n = posted'[t] /\ pc[t] \in {"push", "inline"})
      <4> SUFFICES ASSUME NEW t \in Submitter, NEW n \in 1 .. posted'[t]
                   PROVE  \/ Somewhere(<<t, n>>)'
                          \/ n = posted'[t] /\ pc[t] \in {"push", "inline"}
        OBVIOUS
      <4>1. CASE n \in 1 .. posted[t]
        BY <1>1, <2>2, <2>3, <2>6, <4>1 DEF RunNested
      <4>2. CASE t = Main /\ n = posted[Main] + 1
        BY <2>2, <4>2
      <4> QED
        BY <2>4, <4>1, <4>2
    <3> QED
      BY <2>2, <2>5, <2>6, <3>1
<1>2. CASE Stop
  BY <1>0, <1>2 DEF Stop
<1>3. ASSUME NEW m, Run(m)
      PROVE  Accounted'
  BY <1>0, <1>3 DEF Run, GoTo
<1> QED
  BY <1>1, <1>2, <1>3

\* Every step accounts for every callback.
LEMMA NextAccounted == IInv /\ Accounted /\ [Next]_vars => Accounted'
<1> SUFFICES ASSUME IInv, Accounted, [Next]_vars PROVE Accounted'
  OBVIOUS
<1>1. CASE Next
  BY <1>1, SubmitterAccounted, LoopAccounted, CallAccounted DEF Next
<1>2. CASE UNCHANGED vars
  BY <1>2 DEF vars, Accounted, Somewhere
<1> QED
  BY <1>1, <1>2

\* Every callback that was posted has been executed, is in a queue, or is about
\* to get there.
THEOREM NoneLostHolds == Spec => []NoneLost
<1>1. Init => Accounted
  BY InitAccounted
<1>2. IInv /\ Accounted /\ [Next]_vars => Accounted'
  BY NextAccounted
<1>3. IInv /\ Accounted => NoneLost
  <2> SUFFICES ASSUME IInv, Accounted, NEW task, Somewhere(task)
               PROVE  Holds(executed \o batch \o callbacks, task)
    BY DEF NoneLost, Accounted
  <2>1. /\ executed \in Seq(Task) /\ batch \in Seq(Task)
        /\ callbacks \in Seq(Task) /\ executed \o batch \in Seq(Task)
    BY DEF IInv, TypeOK
  <2> QED
    BY <2>1, HoldsConcat DEF Somewhere
<1> QED
  BY <1>1, <1>2, <1>3, Invariance, PTL DEF Spec

-----------------------------------------------------------------------------
(* The order of the callbacks                                               *)

\* A callback of a thread comes before those the thread posted later.
Before(task, later) == task[1] = later[1] => task[2] < later[2]

Ordered(seq) == \A i, j \in DOMAIN seq : i < j => Before(seq[i], seq[j])

\* process() has taken what was posted first.
QueueOrder ==
  /\ Ordered(batch)
  /\ Ordered(callbacks)
  /\ \A i \in DOMAIN batch, j \in DOMAIN callbacks : Before(batch[i], callbacks[j])

\* What the n-th callback of a thread that has posted it is, if it is not the one
\* run_in_this_loop() has at hand.
Queued(task) ==
  \/ task[2] < posted[task[1]]
  \/ task[2] = posted[task[1]] /\ pc[task[1]] \notin {"push", "inline"}

Begun(task) ==
  \/ task[2] < posted[task[1]]
  \/ /\ task[2] = posted[task[1]]
     /\ pc[task[1]] # "push"
     /\ pc[task[1]] = "inline" => running[task[1]] # NoTask

\* Only what was posted is in a queue or has been executed.
InPast ==
  /\ \A i \in DOMAIN batch : Queued(batch[i])
  /\ \A i \in DOMAIN callbacks : Queued(callbacks[i])
  /\ \A i \in DOMAIN executed : Begun(executed[i])

\* It has not run, and unless the loop thread posted it, nor has anything that
\* its thread posted later.
Fresh(task) ==
  \A k \in DOMAIN executed :
    executed[k][1] = task[1] =>
      executed[k][2] # task[2] /\ (task[1] # Main => executed[k][2] < task[2])

\* While the loop can still run it, what waits is fresh.
NotYet ==
  status # "Stopped" =>
    /\ \A i \in DOMAIN callbacks : Fresh(callbacks[i])
    /\ \A i \in DOMAIN batch : (running[Main] # NoTask /\ i = 1) \/ Fresh(batch[i])

\* The batch is that of process(), which executes its front.
AtFront ==
  /\ batch # <<>> => pc[Main] = "drain"
  /\ pc[Main] = "drain" /\ running[Main] # NoTask => running[Main] = Head(batch)

OrderInv == QueueOrder /\ InPast /\ NotYet /\ AtFront

\* The elements of a sequence and what is appended to it.
LEMMA AppendElements ==
  ASSUME NEW seq \in Seq(Task), NEW last \in Task
  PROVE  /\ DOMAIN Append(seq, last) = DOMAIN seq \union {Len(seq) + 1}
         /\ \A i \in DOMAIN seq :
              Append(seq, last)[i] = seq[i] /\ i < Len(seq) + 1 /\ i \in Nat
         /\ Append(seq, last)[Len(seq) + 1] = last
         /\ Len(seq) \in Nat
OBVIOUS

\* The elements of a sequence after its first.
LEMMA TailElements ==
  ASSUME NEW seq \in Seq(Task), seq # <<>>
  PROVE  /\ 1 \in DOMAIN seq /\ Head(seq) = seq[1]
         /\ \A i \in DOMAIN Tail(seq) :
              i \in Nat \ {0} /\ i + 1 \in DOMAIN seq /\ Tail(seq)[i] = seq[i + 1]
OBVIOUS

\* The initial state has no callbacks.
LEMMA InitOrder == Init => OrderInv
<1> SUFFICES ASSUME Init PROVE OrderInv
  OBVIOUS
<1>1. batch = <<>> /\ callbacks = <<>> /\ executed = <<>> /\ running[Main] = NoTask
  BY DEF Init, Submitter
<1>2. pc[Main] # "drain"
  BY DEF Init, Submitter
<1> QED
  BY <1>1, <1>2 DEF OrderInv, QueueOrder, Ordered, InPast, NotYet, AtFront

\* Steps that queue, execute and post nothing keep the order, if the threads that
\* have a callback at hand had it before.
LEMMA QuietOrder ==
  ASSUME IInv, OrderInv, UNCHANGED <<batch, callbacks, executed, posted>>,
         \A t \in Submitter :
           pc'[t] \in {"push", "inline"} => pc'[t] = pc[t] /\ running'[t] = running[t],
         running'[Main] = running[Main],
         status' = "Stopped" \/ status # "Stopped",
         batch # <<>> => pc'[Main] = "drain",
         pc'[Main] = "drain" /\ running[Main] # NoTask => pc[Main] = "drain"
  PROVE  OrderInv'
<1> USE DEF OrderInv
<1>1. \A i \in DOMAIN batch : batch[i][1] \in Submitter
  BY DEF IInv, TypeOK, Task
<1>2. \A i \in DOMAIN callbacks : callbacks[i][1] \in Submitter
  BY DEF IInv, TypeOK, Task
<1>3. \A i \in DOMAIN executed : executed[i][1] \in Submitter
  BY DEF IInv, TypeOK, Task
<1>4. InPast'
  BY <1>1, <1>2, <1>3 DEF InPast, Queued, Begun
<1>5. QueueOrder'
  BY DEF QueueOrder, Ordered, Before
<1>6. NotYet'
  BY DEF NotYet, Fresh
<1>7. AtFront'
  BY DEF AtFront
<1> QED
  BY <1>4, <1>5, <1>6, <1>7

\* A step that executes a fresh callback keeps the order: what its thread has
\* waiting was posted later.
LEMMA ExecuteOrder ==
  ASSUME IInv, OrderInv, NEW task \in Task, executed' = Append(executed, task),
         UNCHANGED <<batch, callbacks, pc, status>>,
         \A t \in Submitter : posted'[t] = posted[t] \/ (t = Main /\ posted'[t] > posted[t]),
         \A t \in Submitter : running[t] # NoTask => running'[t] # NoTask,
         Begun(task)',
         status # "Stopped" =>
           /\ \A i \in DOMAIN callbacks :
                /\ callbacks[i] # task
                /\ task[1] # Main => Before(task, callbacks[i])
           /\ \A i \in DOMAIN batch :
                \/ running'[Main] # NoTask /\ i = 1
                \/ /\ batch[i] # task
                   /\ task[1] # Main => Before(task, batch[i]),
         pc[Main] = "drain" /\ running'[Main] # NoTask => running'[Main] = Head(batch),
         \A t \in Submitter : posted[t] \in Nat /\ posted'[t] \in Nat
  PROVE  OrderInv'
<1> USE DEF OrderInv
<1>0. /\ executed \in Seq(Task) /\ batch \in Seq(Task) /\ callbacks \in Seq(Task)
      /\ Main \in Submitter
  BY DEF IInv, TypeOK, Submitter
<1>1. /\ \A i \in DOMAIN batch : batch[i] \in Task
      /\ \A i \in DOMAIN callbacks : callbacks[i] \in Task
      /\ \A i \in DOMAIN executed : executed[i] \in Task
  BY <1>0
<1>2. \A k \in DOMAIN executed' :
        executed'[k] = task \/ (k \in DOMAIN executed /\ executed'[k] = executed[k])
  BY <1>0, AppendElements
<1>3. \A w \in Task : Queued(w) => Queued(w)'
  <2> SUFFICES ASSUME NEW w \in Task, Queued(w) PROVE Queued(w)'
    OBVIOUS
  <2>1. w[1] \in Submitter /\ w[2] \in Nat
    BY DEF Task
  <2> QED
    BY <2>1 DEF Queued
<1>4. \A w \in Task : Begun(w) => Begun(w)'
  <2> SUFFICES ASSUME NEW w \in Task, Begun(w) PROVE Begun(w)'
    OBVIOUS
  <2>1. w[1] \in Submitter /\ w[2] \in Nat
    BY DEF Task
  <2> QED
    BY <2>1 DEF Begun
<1>5. InPast'
  <2>1. (\A i \in DOMAIN batch : Queued(batch[i]))'
    BY <1>1, <1>3 DEF InPast
  <2>2. (\A i \in DOMAIN callbacks : Queued(callbacks[i]))'
    BY <1>1, <1>3 DEF InPast
  <2>3. \A i \in DOMAIN executed' : Begun(executed[i])'
    <3> SUFFICES ASSUME NEW i \in DOMAIN executed' PROVE Begun(executed[i])'
      OBVIOUS
    <3>1. CASE executed'[i] = task
      BY <3>1 DEF Begun
    <3>2. CASE i \in DOMAIN executed /\ executed'[i] = executed[i]
      <4>1. Begun(executed[i])
        BY <3>2 DEF InPast
      <4>2. executed[i][1] \in Submitter /\ executed[i][2] \in Nat
        BY <1>1, <3>2 DEF Task
      <4> QED
        BY <3>2, <4>1, <4>2 DEF Begun
    <3> QED
      BY <1>2, <3>1, <3>2
  <2> QED
    BY <2>1, <2>2, <2>3 DEF InPast
<1>6. QueueOrder'
  BY DEF QueueOrder, Ordered, Before
<1>7. ASSUME NEW w \in Task, Fresh(w), w # task, task[1] # Main => Before(task, w)
      PROVE  Fresh(w)'
  <2>1. w = <<w[1], w[2]>> /\ task = <<task[1], task[2]>>
    BY DEF Task
  <2> QED
    BY <1>2, <1>7, <2>1 DEF Fresh, Before
<1>8. NotYet'
  <2> SUFFICES ASSUME status # "Stopped"
               PROVE  /\ \A i \in DOMAIN callbacks : Fresh(callbacks[i])'
                      /\ \A i \in DOMAIN batch :
                           (running'[Main] # NoTask /\ i = 1) \/ Fresh(batch[i])'
    BY DEF NotYet
  <2>1. ASSUME NEW i \in DOMAIN callbacks
        PROVE  Fresh(callbacks[i])'
    <3> PICK w \in Task : w = callbacks[i]
      BY <1>1
    <3>1. Fresh(w)'
      BY <1>7 DEF NotYet
    <3> QED
      BY <3>1 DEF Fresh
  <2>2. ASSUME NEW i \in DOMAIN batch, ~(running'[Main] # NoTask /\ i = 1)
        PROVE  Fresh(batch[i])'
    <3> PICK w \in Task : w = batch[i]
      BY <1>1
    <3>1. Fresh(w)
      BY <1>0, <2>2 DEF NotYet
    <3>2. Fresh(w)'
      BY <1>7, <2>2, <3>1
    <3> QED
      BY <3>2 DEF Fresh
  <2> QED
    BY <2>1, <2>2
<1>9. AtFront'
  BY DEF AtFront
<1> QED
  BY <1>5, <1>6, <1>8, <1>9

\* What a thread does in run_in_this_loop() keeps the order.
LEMMA SubmitterOrder ==
  ASSUME IInv, OrderInv, NEW u \in Submitter,
         RunInThisLoop(u) \/ SubmitterStep(u)
  PROVE  OrderInv'
<1>0. TypeOK /\ Posted /\ Main \in Submitter /\ (\A t \in Submitter : posted[t] \in Nat)
  BY BoundAssumption DEF IInv, TypeOK, Submitter
<1>1. /\ \A i \in DOMAIN batch : batch[i] \in Task
      /\ \A i \in DOMAIN callbacks : callbacks[i] \in Task
      /\ \A i \in DOMAIN executed : executed[i] \in Task
  BY <1>0 DEF TypeOK
<1>2. CASE RunInThisLoop(u)
  <2> USE DEF OrderInv
  <2>1. UNCHANGED <<batch, callbacks, executed, running, status>>
    BY <1>2 DEF RunInThisLoop
  <2>2. \A t \in Submitter : posted'[t] = IF t = u THEN posted[t] + 1 ELSE posted[t]
    BY <1>0, <1>2 DEF RunInThisLoop, TypeOK
  <2>3. pc[u] = "idle" /\ \A t \in Submitter \ {u} : pc'[t] = pc[t]
    BY <1>0, <1>2 DEF RunInThisLoop, GoTo, TypeOK
  <2>4. pc'[u] \in {"push", "inline"}
    BY <1>0, <1>2 DEF RunInThisLoop, GoTo, TypeOK
  <2>5. \A w \in Task : (Queued(w) => Queued(w)') /\ (Begun(w) => Begun(w)')
    <3> SUFFICES ASSUME NEW w \in Task
                 PROVE  (Queued(w) => Queued(w)') /\ (Begun(w) => Begun(w)')
      OBVIOUS
    <3>1. w[1] \in Submitter /\ w[2] \in Nat
      BY DEF Task
    <3> QED
      BY <1>0, <2>1, <2>2, <2>3, <3>1 DEF Queued, Begun
  <2>6. InPast'
    BY <1>1, <2>1, <2>5 DEF InPast
  <2>7. QueueOrder' /\ NotYet'
    BY <2>1 DEF QueueOrder, Ordered, Before, NotYet, Fresh
  <2>8. AtFront'
    BY <1>0, <2>1, <2>3, <2>4 DEF AtFront
  <2> QED
    BY <2>6, <2>7, <2>8
<1>3. CASE BeginInline(u)
  <2>0. <<u, posted[u]>> \in Task
    BY <1>0, <1>3, BoundAssumption DEF Posted, BeginInline, Task
  <2>1. PICK task \in Task : task = <<u, posted[u]>>
    BY <2>0
  <2>2. executed' = Append(executed, task) /\ UNCHANGED <<batch, callbacks, pc, status, posted>>
    BY <1>3, <2>1 DEF BeginInline
  <2>3. pc[u] = "inline" /\ status = "Stopped"
    BY <1>3 DEF BeginInline, IInv, InlineAfterStop
  <2>4. running'[u] # NoTask /\ \A t \in Submitter \ {u} : running'[t] = running[t]
    <3>1. task # NoTask
      BY <2>1, NoTaskAssumption
    <3> QED
      BY <1>0, <1>3, <2>1, <3>1 DEF BeginInline, TypeOK
  <2>5. Begun(task)'
    BY <1>0, <2>1, <2>2, <2>3, <2>4 DEF Begun
  <2>6. pc[Main] # "drain"
    BY <2>3 DEF IInv, InlineAfterStop, SubmitterPc
  <2> QED
    BY <1>0, <2>1, <2>2, <2>3, <2>4, <2>5, <2>6, ExecuteOrder
<1>4. CASE EndInline(u)
  <2> USE DEF OrderInv
  <2>1. UNCHANGED <<batch, callbacks, executed, posted, status>>
    BY <1>4 DEF EndInline
  <2>2. pc[u] = "inline" /\ pc'[u] = "idle" /\ status = "Stopped"
    BY <1>0, <1>4 DEF EndInline, GoTo, TypeOK, IInv, InlineAfterStop
  <2>3. \A t \in Submitter \ {u} : pc'[t] = pc[t] /\ running'[t] = running[t]
    BY <1>0, <1>4 DEF EndInline, GoTo, TypeOK
  <2>4. \A w \in Task : (Queued(w) => Queued(w)') /\ (Begun(w) => Begun(w)')
    <3> SUFFICES ASSUME NEW w \in Task
                 PROVE  (Queued(w) => Queued(w)') /\ (Begun(w) => Begun(w)')
      OBVIOUS
    <3>1. w[1] \in Submitter /\ w[2] \in Nat
      BY DEF Task
    <3> QED
      BY <1>0, <2>1, <2>2, <2>3, <3>1 DEF Queued, Begun
  <2>5. InPast'
    BY <1>1, <2>1, <2>4 DEF InPast
  <2>6. QueueOrder' /\ NotYet'
    BY <2>1, <2>2 DEF QueueOrder, Ordered, Before, NotYet
  <2>7. AtFront'
    BY <1>0, <2>1, <2>2, <2>3 DEF AtFront
  <2> QED
    BY <2>5, <2>6, <2>7
<1>5. CASE Push(u)
  <2>0. <<u, posted[u]>> \in Task
    BY <1>0, <1>5, BoundAssumption DEF Posted, Push, Task
  <2>1. PICK task \in Task : task = <<u, posted[u]>>
    BY <2>0
  <2>2. callbacks' = Append(callbacks, task) /\ UNCHANGED <<batch, executed, posted, running, status>>
    BY <1>5, <2>1 DEF Push
  <2>3. /\ pc[u] = "push" /\ pc'[u] = "signal"
        /\ \A t \in Submitter \ {u} : pc'[t] = pc[t]
    BY <1>0, <1>5 DEF Push, GoTo, TypeOK
  <2>4. \A j \in DOMAIN callbacks' :
          \/ j = Len(callbacks) + 1 /\ callbacks'[j] = task
          \/ j \in DOMAIN callbacks /\ callbacks'[j] = callbacks[j] /\ j < Len(callbacks) + 1
    BY <1>0, <2>1, <2>2, AppendElements DEF TypeOK
  <2>5. \A w \in Task : Queued(w) => Before(w, task) /\ Queued(w)'
    <3> SUFFICES ASSUME NEW w \in Task, Queued(w)
                 PROVE  Before(w, task) /\ Queued(w)'
      OBVIOUS
    <3>1. w[1] \in Submitter /\ w[2] \in Nat
      BY DEF Task
    <3> QED
      BY <1>0, <2>1, <2>2, <2>3, <3>1 DEF Queued, Before
  <2>6. \A w \in Task : Begun(w) => /\ Begun(w)'
                                    /\ w[1] = u => w[2] < posted[u]
    <3> SUFFICES ASSUME NEW w \in Task, Begun(w)
                 PROVE  Begun(w)' /\ (w[1] = u => w[2] < posted[u])
      OBVIOUS
    <3>1. w[1] \in Submitter /\ w[2] \in Nat
      BY DEF Task
    <3> QED
      BY <1>0, <2>1, <2>2, <2>3, <3>1 DEF Begun
  <2>7. Queued(task)'
    BY <2>1, <2>2, <2>3 DEF Queued
  <2>8. Fresh(task)'
    BY <1>0, <1>1, <2>1, <2>2, <2>6 DEF Fresh, OrderInv, InPast
  <2>9. InPast'
    <3>1. \A j \in DOMAIN callbacks' : Queued(callbacks[j])'
      <4> SUFFICES ASSUME NEW j \in DOMAIN callbacks' PROVE Queued(callbacks[j])'
        OBVIOUS
      <4>1. CASE callbacks'[j] = task
        BY <2>1, <2>2, <2>3, <4>1 DEF Queued
      <4>2. CASE j \in DOMAIN callbacks /\ callbacks'[j] = callbacks[j]
        <5>1. Queued(callbacks[j]) /\ callbacks[j][1] \in Submitter
          BY <1>1, <4>2 DEF OrderInv, InPast, Task
        <5> QED
          BY <1>0, <2>2, <2>3, <4>2, <5>1 DEF Queued
      <4> QED
        BY <2>4, <4>1, <4>2
    <3>2. (\A j \in DOMAIN batch : Queued(batch[j]))'
      BY <1>1, <2>2, <2>5 DEF OrderInv, InPast
    <3>3. (\A j \in DOMAIN executed : Begun(executed[j]))'
      BY <1>1, <2>2, <2>6 DEF OrderInv, InPast
    <3> QED
      BY <3>1, <3>2, <3>3 DEF InPast
  <2>10. QueueOrder'
    <3>1. Ordered(batch)'
      BY <2>2 DEF OrderInv, QueueOrder, Ordered, Before
    <3>2. Ordered(callbacks')
      <4> SUFFICES ASSUME NEW i \in DOMAIN callbacks', NEW j \in DOMAIN callbacks', i < j
                   PROVE  Before(callbacks'[i], callbacks'[j])
        BY DEF Ordered
      <4>1. i \in DOMAIN callbacks /\ callbacks'[i] = callbacks[i]
        <5>1. i \in Nat /\ j \in Nat /\ Len(callbacks) \in Nat
          BY <1>0, <2>1, <2>2, AppendElements DEF TypeOK
        <5> QED
          BY <2>4, <5>1
      <4>2. CASE callbacks'[j] = task
        BY <1>1, <2>5, <4>1, <4>2 DEF OrderInv, InPast
      <4>3. CASE j \in DOMAIN callbacks /\ callbacks'[j] = callbacks[j]
        BY <4>1, <4>3 DEF OrderInv, QueueOrder, Ordered
      <4> QED
        BY <2>4, <4>2, <4>3
    <3>3. \A i \in DOMAIN batch, j \in DOMAIN callbacks' : Before(batch[i], callbacks'[j])
      BY <1>1, <2>4, <2>5 DEF OrderInv, InPast, QueueOrder
    <3> QED
      BY <2>2, <3>1, <3>2, <3>3 DEF QueueOrder, Ordered, Before
  <2>11. NotYet'
    BY <2>2, <2>4, <2>8 DEF OrderInv, NotYet, Fresh
  <2>12. AtFront'
    BY <1>0, <2>2, <2>3 DEF OrderInv, AtFront
  <2> QED
    BY <2>9, <2>10, <2>11, <2>12 DEF OrderInv
<1>6. CASE Signal(u)
  <2>1. UNCHANGED <<batch, callbacks, executed, posted, running, status>>
    BY <1>6 DEF Signal
  <2>2. /\ pc[u] = "signal" /\ pc'[u] = "idle"
        /\ \A t \in Submitter \ {u} : pc'[t] = pc[t]
    BY <1>0, <1>6 DEF Signal, GoTo, TypeOK
  <2> QED
    BY <1>0, <2>1, <2>2, QuietOrder DEF OrderInv, AtFront
<1> QED
  BY <1>2, <1>3, <1>4, <1>5, <1>6 DEF SubmitterStep

\* So does what the loop does.
LEMMA LoopOrder ==
  ASSUME IInv, OrderInv, LoopStep
  PROVE  OrderInv'
<1>0. /\ TypeOK /\ Draining /\ InlineAfterStop /\ Main \in Submitter
      /\ \A t \in Submitter : posted[t] \in Nat
  BY BoundAssumption DEF IInv, TypeOK, Submitter
<1>1. /\ \A i \in DOMAIN batch : batch[i] \in Task
      /\ \A i \in DOMAIN callbacks : callbacks[i] \in Task
      /\ \A i \in DOMAIN executed : executed[i] \in Task
  BY <1>0 DEF TypeOK
<1>2. CASE AsyncInit \/ SetStarted \/ SetReturned \/ Wake \/ EndDrain \/ PollEmpty
            \/ CloseCompleted \/ EndIteration
  <2>1. UNCHANGED <<batch, callbacks, executed, posted, running>>
    BY <1>2 DEF AsyncInit, SetStarted, SetReturned, Wake, EndDrain, PollEmpty,
                CloseCompleted, EndIteration
  <2>2. /\ \A t \in Submitter \ {Main} : pc'[t] = pc[t]
        /\ pc'[Main] \in {"idle", "start", "poll", "process", "closing", "return"}
    BY <1>0, <1>2 DEF AsyncInit, SetStarted, SetReturned, Wake, EndDrain, PollEmpty,
                      CloseCompleted, EndIteration, GoTo, TypeOK
  <2>3. batch = <<>>
    BY <1>0, <1>2 DEF AsyncInit, SetStarted, SetReturned, Wake, EndDrain, PollEmpty,
                      CloseCompleted, EndIteration, OrderInv, AtFront
  <2>4. status # "Stopped"
    BY <1>0, <1>2 DEF AsyncInit, SetStarted, SetReturned, Wake, EndDrain, PollEmpty,
                      CloseCompleted, EndIteration, InlineAfterStop, SubmitterPc
  <2> QED
    BY <2>1, <2>2, <2>3, <2>4, QuietOrder
<1>3. CASE Swap
  <2>1. running[Main] = NoTask /\ batch = <<>>
    BY <1>0, <1>3 DEF Swap, Draining, OrderInv, AtFront
  <2>2. batch' = callbacks /\ callbacks' = <<>> /\ UNCHANGED <<executed, posted, running, status>>
    BY <1>3 DEF Swap
  <2>3. /\ \A t \in Submitter \ {Main} : pc'[t] = pc[t]
        /\ pc[Main] = "process" /\ pc'[Main] = "drain"
    BY <1>0, <1>3 DEF Swap, GoTo, TypeOK
  <2>4. \A w \in Task : (Queued(w) => Queued(w)') /\ (Begun(w) => Begun(w)')
    <3> SUFFICES ASSUME NEW w \in Task
                 PROVE  (Queued(w) => Queued(w)') /\ (Begun(w) => Begun(w)')
      OBVIOUS
    <3>1. w[1] \in Submitter
      BY DEF Task
    <3> QED
      BY <1>0, <2>2, <2>3, <3>1 DEF Queued, Begun
  <2>5. InPast'
    <3>1. \A i \in DOMAIN batch' : Queued(batch[i])'
      <4> SUFFICES ASSUME NEW i \in DOMAIN callbacks PROVE Queued(batch[i])'
        BY <2>2
      <4>1. Queued(callbacks[i]) /\ callbacks[i][1] \in Submitter
        BY <1>1 DEF OrderInv, InPast, Task
      <4> QED
        BY <1>0, <2>2, <2>3, <4>1 DEF Queued
    <3>2. (\A i \in DOMAIN executed : Begun(executed[i]))'
      BY <1>1, <2>2, <2>4 DEF OrderInv, InPast
    <3> QED
      BY <2>2, <3>1, <3>2 DEF InPast
  <2>6. QueueOrder' /\ NotYet'
    BY <2>1, <2>2 DEF OrderInv, QueueOrder, Ordered, Before, NotYet, Fresh
  <2>7. AtFront'
    BY <2>1, <2>2, <2>3 DEF AtFront
  <2> QED
    BY <2>5, <2>6, <2>7 DEF OrderInv
<1>4. CASE BeginTask
  <2>1. batch # <<>> /\ running[Main] = NoTask /\ pc[Main] = "drain"
    BY <1>4 DEF BeginTask
  <2>2. PICK task \in Task : task = Head(batch) /\ task = batch[1] /\ 1 \in DOMAIN batch
    BY <1>0, <1>1, <2>1, TailElements DEF TypeOK
  <2>3. /\ executed' = Append(executed, task)
        /\ UNCHANGED <<batch, callbacks, pc, status, posted>>
        /\ running'[Main] = task
        /\ \A t \in Submitter \ {Main} : running'[t] = running[t]
    BY <1>0, <1>4, <2>2 DEF BeginTask, TypeOK
  <2>4. running'[Main] # NoTask
    BY <2>3, NoTaskAssumption
  <2>5. Begun(task)'
    <3>1. Queued(task) /\ task[1] \in Submitter
      BY <2>2 DEF OrderInv, InPast, Task
    <3> QED
      BY <2>3, <3>1 DEF Queued, Begun
  <2>6. \A i \in DOMAIN callbacks : Before(task, callbacks[i])
    BY <2>2 DEF OrderInv, QueueOrder
  <2>7. \A i \in DOMAIN batch : i = 1 \/ Before(task, batch[i])
    <3>1. \A i \in DOMAIN batch : i = 1 \/ 1 < i
      BY <1>0 DEF TypeOK
    <3> QED
      BY <2>2, <3>1 DEF OrderInv, QueueOrder, Ordered
  <2>8. ASSUME NEW w \in Task, Before(task, w)
        PROVE  w # task
    <3>1. task[2] \in Nat
      BY DEF Task
    <3> QED
      BY <2>8, <3>1 DEF Before
  <2> QED
    BY <1>0, <1>1, <2>2, <2>3, <2>4, <2>5, <2>6, <2>7, <2>8, ExecuteOrder
<1>5. CASE EndTask
  <2>1. /\ batch # <<>> /\ batch' = Tail(batch)
        /\ pc[Main] = "drain" /\ running[Main] # NoTask
    BY <1>0, <1>5 DEF EndTask, Draining
  <2>2. UNCHANGED <<callbacks, executed, posted, status, pc>>
    BY <1>5 DEF EndTask
  <2>3. running'[Main] = NoTask /\ \A t \in Submitter \ {Main} : running'[t] = running[t]
    BY <1>0, <1>5 DEF EndTask, TypeOK
  <2>4. \A i \in DOMAIN batch' :
          i \in Nat \ {0} /\ i + 1 \in DOMAIN batch /\ batch'[i] = batch[i + 1]
    BY <1>0, <2>1, TailElements DEF TypeOK
  <2>5. InPast'
    <3>1. \A i \in DOMAIN batch' : Queued(batch[i])'
      BY <2>2, <2>4 DEF OrderInv, InPast, Queued
    <3>2. (\A i \in DOMAIN callbacks : Queued(callbacks[i]))'
      BY <2>2 DEF OrderInv, InPast, Queued
    <3>3. (\A i \in DOMAIN executed : Begun(executed[i]))'
      <4> SUFFICES ASSUME NEW i \in DOMAIN executed PROVE Begun(executed[i])'
        BY <2>2
      <4>1. Begun(executed[i]) /\ executed[i][1] \in Submitter
        BY <1>1 DEF OrderInv, InPast, Task
      <4> QED
        BY <2>1, <2>2, <2>3, <4>1 DEF Begun
    <3> QED
      BY <3>1, <3>2, <3>3 DEF InPast
  <2>6. QueueOrder'
    <3>1. Ordered(batch')
      BY <2>4 DEF OrderInv, QueueOrder, Ordered
    <3> QED
      BY <2>2, <2>4, <3>1 DEF OrderInv, QueueOrder, Ordered, Before
  <2>7. NotYet'
    <3> SUFFICES ASSUME status # "Stopped"
                 PROVE  /\ \A i \in DOMAIN callbacks : Fresh(callbacks[i])'
                        /\ \A i \in DOMAIN batch' : Fresh(batch[i])'
      BY <2>2 DEF NotYet
    <3>1. \A i \in DOMAIN callbacks : Fresh(callbacks[i])'
      BY <2>2 DEF OrderInv, NotYet, Fresh
    <3>2. \A i \in DOMAIN batch' : i + 1 # 1
      BY <2>4
    <3>3. \A i \in DOMAIN batch' : Fresh(batch[i + 1])
      BY <2>4, <3>2 DEF OrderInv, NotYet
    <3> QED
      BY <2>2, <2>4, <3>1, <3>3 DEF Fresh
  <2>8. AtFront'
    BY <2>1, <2>2, <2>3 DEF AtFront
  <2> QED
    BY <2>5, <2>6, <2>7, <2>8 DEF OrderInv
<1> QED
  BY <1>2, <1>3, <1>4, <1>5 DEF LoopStep

\* And what user code does inside a callback of the loop, and run().
LEMMA CallOrder ==
  ASSUME IInv, OrderInv,
         RunNested \/ Stop \/ \E m \in {"default", "nowait"} : Run(m)
  PROVE  OrderInv'
<1>0. /\ TypeOK /\ Main \in Submitter
      /\ \A t \in Submitter : posted[t] \in Nat
  BY BoundAssumption DEF IInv, TypeOK, Submitter
<1>1. /\ \A i \in DOMAIN batch : batch[i] \in Task
      /\ \A i \in DOMAIN callbacks : callbacks[i] \in Task
  BY <1>0 DEF TypeOK
<1>2. CASE RunNested
  <2>1. <<Main, posted[Main] + 1>> \in Task
    BY <1>0 DEF Task
  <2>2. PICK task \in Task : task = <<Main, posted[Main] + 1>>
    BY <2>1
  <2>3. /\ executed' = Append(executed, task)
        /\ UNCHANGED <<batch, callbacks, pc, status, running>>
        /\ posted'[Main] = posted[Main] + 1
        /\ \A t \in Submitter \ {Main} : posted'[t] = posted[t]
    BY <1>0, <1>2, <2>2 DEF RunNested, TypeOK
  <2>4. pc[Main] \in {"drain", "poll"}
    BY <1>2 DEF RunNested, InLoopCallback
  <2>5. Begun(task)'
    BY <2>2, <2>3, <2>4 DEF Begun
  <2>6. \A w \in Task : Queued(w) => w # task
    <3> SUFFICES ASSUME NEW w \in Task, Queued(w) PROVE w # task
      OBVIOUS
    <3>1. w[1] \in Submitter /\ w[2] \in Nat
      BY DEF Task
    <3> QED
      BY <1>0, <2>2, <3>1 DEF Queued
  <2>7. /\ \A i \in DOMAIN batch : batch[i] # task
        /\ \A i \in DOMAIN callbacks : callbacks[i] # task
    BY <1>1, <2>6 DEF OrderInv, InPast
  <2>8. pc[Main] = "drain" /\ running'[Main] # NoTask => running'[Main] = Head(batch)
    BY <2>3 DEF OrderInv, AtFront
  <2> QED
    BY <1>0, <2>2, <2>3, <2>5, <2>7, <2>8, ExecuteOrder
<1>3. CASE Stop
  <2>1. UNCHANGED <<batch, callbacks, executed, posted, running, pc, status>>
    BY <1>3 DEF Stop
  <2> QED
    BY <2>1, QuietOrder DEF OrderInv, AtFront
<1>4. ASSUME NEW m, Run(m)
      PROVE  OrderInv'
  <2>1. UNCHANGED <<batch, callbacks, executed, posted, running, status>>
    BY <1>4 DEF Run
  <2>2. /\ \A t \in Submitter \ {Main} : pc'[t] = pc[t]
        /\ pc'[Main] \in {"init", "start"} /\ pc[Main] = "idle"
    BY <1>0, <1>4 DEF Run, GoTo, TypeOK
  <2> QED
    BY <1>0, <2>1, <2>2, QuietOrder DEF OrderInv, AtFront
<1> QED
  BY <1>2, <1>3, <1>4

\* Every step keeps the order.
LEMMA NextOrder == IInv /\ OrderInv /\ [Next]_vars => OrderInv'
<1> SUFFICES ASSUME IInv, OrderInv, [Next]_vars PROVE OrderInv'
  OBVIOUS
<1>1. CASE Next
  BY <1>1, SubmitterOrder, LoopOrder, CallOrder DEF Next
<1>2. CASE UNCHANGED vars
  <2>1. UNCHANGED <<batch, callbacks, executed, posted, running, pc, status>>
    BY <1>2 DEF vars
  <2> QED
    BY <2>1, QuietOrder DEF OrderInv, AtFront
<1> QED
  BY <1>1, <1>2

-----------------------------------------------------------------------------
(* The loop is a serial executor                                            *)

\* Once status_ is Stopped the wake-up handle is gone: uv_run() does not return
\* from UV_RUN_DEFAULT while it is there.
Shut ==
  /\ status = "Stopped" => handle = "freed"
  /\ pc[Main] = "return" /\ mode = "default" => handle = "freed"

LEMMA NextShut == IInv /\ Registered /\ Shut /\ [Next]_vars => Shut'
<1> SUFFICES ASSUME IInv, Registered, Shut, [Next]_vars PROVE Shut'
  OBVIOUS
<1> USE DEF Shut
<1>0. TypeOK /\ InlineAfterStop /\ Main \in Submitter
  BY DEF IInv, Submitter
<1>1. ASSUME NEW t \in Submitter, RunInThisLoop(t) \/ SubmitterStep(t)
      PROVE  Shut'
  BY <1>0, <1>1 DEF RunInThisLoop, SubmitterStep, BeginInline, EndInline, Push, Signal,
                    GoTo, TypeOK
<1>2. ASSUME NEW m, Run(m)
      PROVE  Shut'
  BY <1>0, <1>2 DEF Run, GoTo, TypeOK
<1>3. CASE LoopStep
  <2> USE <1>0 DEF GoTo, TypeOK
  <2>1. CASE AsyncInit \/ SetStarted \/ SetReturned
    BY <2>1 DEF AsyncInit, SetStarted, SetReturned, InlineAfterStop, SubmitterPc
  <2>2. CASE Wake \/ Swap \/ BeginTask \/ EndTask \/ EndDrain
    BY <2>2 DEF Wake, Swap, BeginTask, EndTask, EndDrain
  <2>3. CASE PollEmpty \/ CloseCompleted \/ EndIteration
    BY <2>3 DEF PollEmpty, CloseCompleted, EndIteration
  <2> QED
    BY <1>3, <2>1, <2>2, <2>3 DEF LoopStep
<1>4. CASE RunNested \/ Stop \/ UNCHANGED vars
  BY <1>4 DEF RunNested, Stop, vars
<1> QED
  BY <1>1, <1>2, <1>3, <1>4 DEF Next

\* What the loop takes from the front of the batch is the turn of its thread:
\* whatever the thread posted before is accounted for and no longer waits.
LEMMA FrontInTurn ==
  ASSUME IInv, Accounted, OrderInv, status # "Stopped", running[Main] = NoTask,
         NEW t \in Submitter, NEW n \in Nat \ {0},
         batch # <<>>, Head(batch) = <<t, n>>
  PROVE  /\ n \in 1 .. posted[t]
         /\ ~Executor!HasRun(<<t, n>>)
         /\ t # Main => Executor!InTurn(t, n)
<1>0. /\ batch \in Seq(Task) /\ callbacks \in Seq(Task) /\ executed \in Seq(Task)
      /\ \A u \in Submitter : posted[u] \in Nat
      /\ 1 \in DOMAIN batch /\ batch[1] = <<t, n>>
  BY BoundAssumption, TailElements DEF IInv, TypeOK
<1>1. Queued(<<t, n>>)
  BY <1>0 DEF OrderInv, InPast
<1>2. Fresh(<<t, n>>)
  BY <1>0 DEF OrderInv, NotYet
<1>3. n \in 1 .. posted[t]
  BY <1>0, <1>1 DEF Queued
<1>4. ~Executor!HasRun(<<t, n>>)
  BY <1>2 DEF Fresh, Executor!HasRun
<1>5. ASSUME t # Main, NEW m \in n .. posted[t], Executor!HasRun(<<t, m>>)
      PROVE  FALSE
  BY <1>0, <1>2, <1>5 DEF Fresh, Executor!HasRun
<1>6. ASSUME NEW m \in 1 .. n - 1
      PROVE  Executor!HasRun(<<t, m>>)
  <2>1. m \in 1 .. posted[t] /\ ~(m = posted[t] /\ pc[t] \in {"push", "inline"})
    BY <1>0, <1>1, <1>3
  <2>2. Somewhere(<<t, m>>)
    BY <2>1 DEF Accounted
  <2>3. ~Holds(batch, <<t, m>>)
    <3> SUFFICES ASSUME NEW i \in DOMAIN batch, batch[i] = <<t, m>>
                 PROVE  FALSE
      BY DEF Holds
    <3>1. i = 1 \/ 1 < i
      BY <1>0
    <3>2. CASE 1 < i
      BY <1>0, <3>2 DEF OrderInv, QueueOrder, Ordered, Before
    <3>3. CASE i = 1
      BY <1>0, <3>3
    <3> QED
      BY <3>1, <3>2, <3>3
  <2>4. ~Holds(callbacks, <<t, m>>)
    <3> SUFFICES ASSUME NEW i \in DOMAIN callbacks, callbacks[i] = <<t, m>>
                 PROVE  FALSE
      BY DEF Holds
    <3> QED
      BY <1>0 DEF OrderInv, QueueOrder, Before
  <2> QED
    BY <2>2, <2>3, <2>4 DEF Somewhere, Holds, Executor!HasRun
<1> QED
  BY <1>3, <1>4, <1>5, <1>6 DEF Executor!InTurn

\* What a thread runs itself is the last it posted, and its turn once the loop
\* is shut.
LEMMA InlineInTurn ==
  ASSUME IInv, OrderInv, Shut, NEW t \in Submitter, BeginInline(t)
  PROVE  /\ posted[t] \in 1 .. posted[t]
         /\ ~Executor!HasRun(<<t, posted[t]>>)
         /\ Executor!InTurn(t, posted[t])
<1>1. posted[t] \in Nat \ {0} /\ pc[t] = "inline" /\ running[t] = NoTask
  BY BoundAssumption DEF IInv, TypeOK, Posted, BeginInline
<1>2. handle = "freed"
  BY <1>1 DEF IInv, InlineAfterStop, Shut
<1>3. ~Executor!HasRun(<<t, posted[t]>>)
  BY <1>1 DEF OrderInv, InPast, Begun, Executor!HasRun
<1>4. posted[t] .. posted[t] = {posted[t]}
  BY <1>1
<1> QED
  BY <1>1, <1>2, <1>3, <1>4 DEF Executor!InTurn

\* Every step is a step of the executor or none.
LEMMA StepExecutes ==
  IInv /\ Registered /\ Accounted /\ OrderInv /\ Shut /\ [Next]_vars
    => [Executor!Next]_(Executor!vars)
<1> SUFFICES ASSUME IInv, Registered, Accounted, OrderInv, Shut, [Next]_vars
             PROVE  [Executor!Next]_(Executor!vars)
  OBVIOUS
<1> DEFINE shut == handle \in {"closing", "freed"}
<1>0. /\ TypeOK /\ Main \in Submitter /\ Submitter = Executor!Submitter
      /\ \A t \in Submitter : posted[t] \in Nat
  BY BoundAssumption DEF IInv, TypeOK, Submitter, Executor!Submitter
<1>1. ASSUME NEW t \in Submitter, RunInThisLoop(t)
      PROVE  Executor!Next
  BY <1>0, <1>1 DEF RunInThisLoop, Executor!Next, Executor!Submit
<1>2. ASSUME NEW t \in Submitter, SubmitterStep(t)
      PROVE  [Executor!Next]_(Executor!vars)
  <2>1. CASE BeginInline(t)
    <3>1. Executor!Execute(t, posted[t])
      BY <2>1, InlineInTurn DEF BeginInline, Executor!Execute
    <3>2. posted[t] \in 1 .. posted[t]
      BY <2>1, InlineInTurn
    <3> QED
      BY <1>0, <3>1, <3>2 DEF Executor!Next
  <2>2. CASE EndInline(t) \/ Push(t) \/ Signal(t)
    BY <2>2 DEF EndInline, Push, Signal, Executor!vars
  <2> QED
    BY <1>2, <2>1, <2>2 DEF SubmitterStep
<1>3. ASSUME NEW m, Run(m)
      PROVE  UNCHANGED Executor!vars
  <2>1. shut' = shut
    BY <1>3 DEF Run
  <2> QED
    BY <1>3, <2>1 DEF Run, Executor!vars
<1>4. CASE LoopStep
  <2>1. CASE AsyncInit
    <3>1. shut' = shut
      BY <2>1 DEF AsyncInit, Registered
    <3> QED
      BY <2>1, <3>1 DEF AsyncInit, Executor!vars
  <2>2. CASE BeginTask
    <3>1. status # "Stopped"
      BY <2>2 DEF BeginTask, IInv, InlineAfterStop, SubmitterPc
    <3>2. Head(batch) \in Task
      BY <1>0, <2>2 DEF BeginTask, TypeOK
    <3>3. PICK t \in Submitter, n \in Nat \ {0} : Head(batch) = <<t, n>>
      BY <3>2 DEF Task
    <3>4. /\ n \in 1 .. posted[t]
          /\ ~Executor!HasRun(<<t, n>>)
          /\ t # Main => Executor!InTurn(t, n)
      BY <2>2, <3>1, <3>3, FrontInTurn DEF BeginTask
    <3>5. Executor!Execute(t, n)
      BY <2>2, <3>3, <3>4 DEF BeginTask, Executor!Execute
    <3> QED
      BY <1>0, <3>4, <3>5 DEF Executor!Next
  <2>3. CASE CloseCompleted
    <3>1. shut' = shut
      BY <2>3 DEF CloseCompleted
    <3> QED
      BY <2>3, <3>1 DEF CloseCompleted, Executor!vars
  <2>4. CASE \/ SetStarted \/ SetReturned \/ Wake \/ Swap \/ EndTask \/ EndDrain
             \/ PollEmpty \/ EndIteration
    BY <2>4 DEF SetStarted, SetReturned, Wake, Swap, EndTask, EndDrain, PollEmpty,
                EndIteration, Executor!vars
  <2> QED
    BY <1>4, <2>1, <2>2, <2>3, <2>4 DEF LoopStep
<1>5. CASE RunNested
  BY <1>5 DEF RunNested, Executor!Next, Executor!SubmitAndExecute
<1>6. CASE Stop
  <2>1. UNCHANGED <<posted, executed>> /\ (shut' = shut \/ shut' = TRUE)
    BY <1>6 DEF Stop
  <2>2. CASE shut' = shut
    BY <2>1, <2>2 DEF Executor!vars
  <2>3. CASE shut' = TRUE
    BY <2>1, <2>3 DEF Executor!Next, Executor!Close
  <2> QED
    BY <2>1, <2>2, <2>3
<1>7. CASE UNCHANGED vars
  BY <1>7 DEF vars, Executor!vars
<1> QED
  BY <1>1, <1>2, <1>3, <1>4, <1>5, <1>6, <1>7 DEF Next

\* Through the queue, the mutex, the coalesced wake-ups and stop(), callbacks run
\* at most once, in the order their thread posted them, with no gap until stop().
THEOREM ImplementsExecutorHolds == Spec => ImplementsExecutor
<1>1. Init => Executor!Init
  BY DEF Init, Executor!Init, Submitter, Executor!Submitter
<1>2. Init => Registered /\ Accounted /\ OrderInv
  BY InitRegistered, InitAccounted, InitOrder
<1>3. Init => Shut
  BY DEF Init, Shut, Submitter
<1>4. IInv /\ Registered /\ [Next]_vars => Registered'
  BY NextRegistered DEF IInv
<1>5. IInv /\ Accounted /\ [Next]_vars => Accounted'
  BY NextAccounted
<1> QED
  BY <1>1, <1>2, <1>3, <1>4, <1>5, Invariance, NextOrder, NextShut, StepExecutes, PTL
  DEF Spec, ImplementsExecutor, Executor!Spec

-----------------------------------------------------------------------------
(* Writes through the loop                                                  *)

LoopInv == IInv /\ OrderInv

\* A write that finds no connection counts as one of its thread's posts.
LEMMA NowhereLoopInv ==
  ASSUME LoopInv, NEW t \in Submitter, WriteNowhere(t)
  PROVE  LoopInv'
<1>0. /\ TypeOK /\ Posted /\ Draining /\ InlineAfterStop /\ WakeupNotLost
      /\ \A u \in Submitter : posted[u] \in Nat
  BY BoundAssumption DEF LoopInv, IInv, TypeOK
<1>1. /\ pc[t] = "idle" /\ posted[t] + 1 \in 0 .. MaxPosts
      /\ UNCHANGED <<status, handle, pending, callbacks, batch, pc, running, mode, runs,
                     executed, fault>>
      /\ posted' = [posted EXCEPT ![t] = posted[t] + 1]
  BY <1>0, BoundAssumption DEF WriteNowhere
<1>2. \A u \in Submitter : posted'[u] = IF u = t THEN posted[u] + 1 ELSE posted[u]
  BY <1>0, <1>1 DEF TypeOK
<1>3. TypeOK'
  BY <1>0, <1>1 DEF TypeOK
<1>4. Posted' /\ Draining' /\ InlineAfterStop' /\ WakeupNotLost'
  BY <1>0, <1>1, <1>2 DEF Posted, Draining, InlineAfterStop, WakeupNotLost
<1>5. \A w \in Task : (Queued(w) => Queued(w)') /\ (Begun(w) => Begun(w)')
  <2> SUFFICES ASSUME NEW w \in Task
               PROVE  (Queued(w) => Queued(w)') /\ (Begun(w) => Begun(w)')
    OBVIOUS
  <2>1. w[1] \in Submitter /\ w[2] \in Nat
    BY DEF Task
  <2> QED
    BY <1>0, <1>1, <1>2, <2>1 DEF Queued, Begun
<1>6. /\ \A i \in DOMAIN batch : batch[i] \in Task
      /\ \A i \in DOMAIN callbacks : callbacks[i] \in Task
      /\ \A i \in DOMAIN executed : executed[i] \in Task
  BY <1>0 DEF TypeOK
<1>7. InPast'
  BY <1>1, <1>5, <1>6 DEF LoopInv, OrderInv, InPast
<1>8. QueueOrder' /\ NotYet' /\ AtFront'
  BY <1>1 DEF LoopInv, OrderInv, QueueOrder, Ordered, Before, NotYet, Fresh, AtFront
<1> QED
  BY <1>3, <1>4, <1>7, <1>8 DEF LoopInv, IInv, OrderInv

\* The loop goes on to its closing phase for a connection too.
LEMMA PollClosingLoopInv ==
  ASSUME LoopInv, PollClosing
  PROVE  LoopInv'
<1>0. TypeOK /\ Posted /\ Draining /\ InlineAfterStop /\ WakeupNotLost /\ Main \in Submitter
  BY DEF LoopInv, IInv, Submitter
<1>1. /\ pc[Main] = "poll" /\ GoTo(Main, "closing")
      /\ UNCHANGED <<status, handle, pending, callbacks, batch, running, mode, runs,
                     posted, executed, fault>>
  BY DEF PollClosing
<1>2. /\ pc' \in [Submitter -> SubmitterPc \union LoopPc]
      /\ \A t \in Thread : pc'[t] \in SubmitterPc
      /\ pc'[Main] = "closing"
      /\ \A t \in Submitter \ {Main} : pc'[t] = pc[t]
  BY <1>0, <1>1, MainGoesTo DEF LoopPc, Submitter
<1>3. TypeOK'
  BY <1>0, <1>1, <1>2 DEF TypeOK
<1>4. Posted' /\ Draining' /\ WakeupNotLost'
  BY <1>0, <1>1, <1>2 DEF Posted, Draining, WakeupNotLost
<1>5. InlineAfterStop'
  BY <1>0, <1>1, <1>2, ThreadAssumption DEF InlineAfterStop, SubmitterPc, Submitter
<1>6. OrderInv'
  BY <1>0, <1>1, <1>2, QuietOrder DEF LoopInv, OrderInv, AtFront
<1> QED
  BY <1>3, <1>4, <1>5, <1>6 DEF LoopInv, IInv

\* The EventLoop's own steps keep its invariant.
LEMMA NextLoopInv == LoopInv /\ [Next]_vars => LoopInv'
BY NextTypeOK, NextPosted, NextDraining, NextInlineAfterStop, NextWakeupNotLost, NextOrder
DEF LoopInv, IInv

\* The turn of this write has come: no queue has it any more, except the batch
\* while it runs.
Past(w) ==
  /\ Begun(w)
  /\ \A i \in DOMAIN callbacks : callbacks[i] # w
  /\ \A i \in DOMAIN batch : batch[i] = w => running[Main] # NoTask /\ i = 1

Done(w) == answers[w] = 1 \/ InFlight(w)

WriteTypes ==
  /\ inflight \in Seq(Write)
  /\ sent \in Seq(Write)
  /\ answers \in [Write -> {0, 1}]

OneBuffer == \A i, j \in DOMAIN inflight : inflight[i] = inflight[j] => i = j

\* A write that uv_write() was given has not been answered, and none of those
\* is to come again; what uv_write() was given a callback has been executed for.
WriteInv ==
  /\ WriteTypes
  /\ OneBuffer
  /\ \A w \in Write : ~(answers[w] = 1 /\ InFlight(w)) /\ (Done(w) => Past(w))
  /\ \A i \in DOMAIN sent : Holds(executed, sent[i])
  /\ SentInOrder

LEMMA InitWrite == WriteInit => WriteInv
<1> SUFFICES ASSUME WriteInit PROVE WriteInv
  OBVIOUS
<1>1. inflight = <<>> /\ sent = <<>> /\ \A w \in Write : answers[w] = 0
  BY DEF WriteInit
<1>2. WriteTypes
  BY DEF WriteInit, WriteTypes
<1> QED
  BY <1>1, <1>2 DEF WriteInv, OneBuffer, Done, InFlight, SentInOrder

\* Whose turn has come does not come again.
LEMMA PastStays ==
  ASSUME LoopInv, NEW w \in Write, Past(w),
         [Next]_vars \/ PollClosing \/ \E t \in Submitter : WriteNowhere(t)
  PROVE  Past(w)'
<1>0. /\ TypeOK /\ Main \in Submitter /\ Draining
      /\ \A u \in Submitter : posted[u] \in Nat
      /\ w[1] \in Submitter /\ w[2] \in Nat /\ w = <<w[1], w[2]>>
  BY BoundAssumption DEF LoopInv, IInv, TypeOK, Submitter, Write
<1> USE DEF Past, Begun
<1>1. ASSUME NEW t \in Submitter, RunInThisLoop(t) \/ WriteNowhere(t)
      PROVE  Past(w)'
  <2>1. /\ \A u \in Submitter : posted'[u] = IF u = t THEN posted[u] + 1 ELSE posted[u]
        /\ pc[t] = "idle" /\ \A u \in Submitter \ {t} : pc'[u] = pc[u]
        /\ UNCHANGED <<callbacks, batch, running>>
    BY <1>0, <1>1 DEF RunInThisLoop, WriteNowhere, GoTo, TypeOK
  <2> QED
    BY <1>0, <2>1
<1>2. ASSUME NEW t \in Submitter, SubmitterStep(t)
      PROVE  Past(w)'
  <2>1. CASE BeginInline(t)
    <3>1. <<t, posted[t]>> # NoTask
      BY <1>0, <2>1, NoTaskAssumption DEF BeginInline, LoopInv, IInv, Posted, Task
    <3>2. /\ \A u \in Submitter : running'[u] = running[u] \/ running'[u] # NoTask
          /\ UNCHANGED <<callbacks, batch, pc, posted>>
      BY <1>0, <2>1, <3>1 DEF BeginInline, TypeOK
    <3> QED
      BY <1>0, <3>2
  <2>2. CASE EndInline(t)
    <3>1. /\ \A u \in Submitter \ {t} : running'[u] = running[u] /\ pc'[u] = pc[u]
          /\ pc[t] = "inline" /\ pc'[t] = "idle"
          /\ UNCHANGED <<callbacks, batch, posted>>
      BY <1>0, <2>2 DEF EndInline, GoTo, TypeOK
    <3>2. t = Main => batch = <<>>
      BY <3>1 DEF LoopInv, OrderInv, AtFront
    <3> QED
      BY <1>0, <3>1, <3>2
  <2>3. CASE Push(t)
    <3>1. /\ callbacks' = Append(callbacks, <<t, posted[t]>>)
          /\ pc[t] = "push" /\ pc'[t] = "signal"
          /\ \A u \in Submitter \ {t} : pc'[u] = pc[u]
          /\ UNCHANGED <<batch, running, posted>>
      BY <1>0, <2>3 DEF Push, GoTo, TypeOK
    <3>2. <<t, posted[t]>> # w
      BY <1>0, <3>1
    <3>3. <<t, posted[t]>> \in Task
      BY <1>0, <3>1 DEF LoopInv, IInv, Posted, Task
    <3>4. \A i \in DOMAIN callbacks' : callbacks'[i] # w
      BY <1>0, <3>1, <3>2, <3>3, AppendElements DEF TypeOK
    <3> QED
      BY <1>0, <3>1, <3>4
  <2>4. CASE Signal(t)
    <3>1. /\ \A u \in Submitter \ {t} : pc'[u] = pc[u]
          /\ pc[t] = "signal" /\ pc'[t] = "idle"
          /\ UNCHANGED <<callbacks, batch, running, posted>>
      BY <1>0, <2>4 DEF Signal, GoTo, TypeOK
    <3> QED
      BY <1>0, <3>1
  <2> QED
    BY <1>2, <2>1, <2>2, <2>3, <2>4 DEF SubmitterStep
<1>3. CASE AsyncInit \/ SetStarted \/ SetReturned \/ Wake \/ EndDrain \/ PollEmpty
            \/ CloseCompleted \/ EndIteration \/ PollClosing
            \/ \E m \in {"default", "nowait"} : Run(m)
  <2>1. UNCHANGED <<batch, callbacks, posted, running>>
    BY <1>3 DEF AsyncInit, SetStarted, SetReturned, Wake, EndDrain, PollEmpty,
                CloseCompleted, EndIteration, PollClosing, Run
  <2>2. /\ \A t \in Submitter \ {Main} : pc'[t] = pc[t]
        /\ pc'[Main] \notin {"push", "inline"}
    BY <1>0, <1>3 DEF AsyncInit, SetStarted, SetReturned, Wake, EndDrain, PollEmpty,
                      CloseCompleted, EndIteration, PollClosing, Run, GoTo, TypeOK
  <2> QED
    BY <1>0, <2>1, <2>2
<1>4. CASE Swap
  <2>1. /\ batch' = callbacks /\ callbacks' = <<>> /\ UNCHANGED <<posted, running>>
        /\ \A t \in Submitter \ {Main} : pc'[t] = pc[t]
        /\ pc'[Main] = "drain"
    BY <1>0, <1>4 DEF Swap, GoTo, TypeOK
  <2> QED
    BY <1>0, <2>1
<1>5. CASE BeginTask
  <2>1. /\ UNCHANGED <<batch, callbacks, posted, pc>>
        /\ \A t \in Submitter \ {Main} : running'[t] = running[t]
        /\ running[Main] = NoTask /\ pc[Main] = "drain"
    BY <1>0, <1>5 DEF BeginTask, TypeOK
  <2> QED
    BY <1>0, <2>1
<1>6. CASE EndTask
  <2>1. batch # <<>> /\ batch' = Tail(batch)
    BY <1>0, <1>6 DEF EndTask, Draining
  <2>2. /\ UNCHANGED <<callbacks, posted, pc>> /\ pc[Main] = "drain"
        /\ \A t \in Submitter \ {Main} : running'[t] = running[t]
    BY <1>0, <1>6 DEF EndTask, TypeOK
  <2>3. \A i \in DOMAIN batch' :
          i \in Nat \ {0} /\ i + 1 \in DOMAIN batch /\ batch'[i] = batch[i + 1]
    BY <1>0, <2>1, TailElements DEF TypeOK
  <2>4. \A i \in DOMAIN batch' : batch'[i] # w
    BY <2>3
  <2> QED
    BY <1>0, <2>2, <2>4
<1>7. CASE RunNested
  <2>1. /\ \A u \in Submitter : posted'[u] = IF u = Main THEN posted[u] + 1 ELSE posted[u]
        /\ UNCHANGED <<callbacks, batch, running, pc>>
    BY <1>0, <1>7 DEF RunNested, TypeOK
  <2>2. pc[Main] \in {"drain", "poll"}
    BY <1>7 DEF RunNested, InLoopCallback
  <2> QED
    BY <1>0, <2>1, <2>2
<1>8. CASE Stop \/ UNCHANGED vars
  BY <1>8 DEF Stop, vars
<1> QED
  BY <1>1, <1>2, <1>3, <1>4, <1>5, <1>6, <1>7, <1>8 DEF Next, LoopStep

\* The turn of a write comes once, after that of all its thread wrote before.
LEMMA TurnComes ==
  ASSUME LoopInv, NEW w,
         \/ BeginTask /\ w = Head(batch)
         \/ \E t \in Submitter : BeginInline(t) /\ w = <<t, posted[t]>>
         \/ RunNested /\ w = <<Main, posted[Main] + 1>>
  PROVE  /\ w \in Write
         /\ ~Past(w)
         /\ Past(w)'
         /\ executed' = Append(executed, w)
         /\ \A k \in DOMAIN executed :
              executed[k][1] = w[1] /\ w[1] # Main => executed[k][2] < w[2]
<1>0. /\ TypeOK /\ Posted /\ Main \in Submitter
      /\ \A u \in Submitter : posted[u] \in 0 .. MaxPosts /\ posted[u] \in Nat
      /\ MaxPosts \in Nat
  BY BoundAssumption DEF LoopInv, IInv, TypeOK, Submitter
<1>1. /\ \A i \in DOMAIN batch : batch[i] \in Task
      /\ \A i \in DOMAIN callbacks : callbacks[i] \in Task
  BY <1>0 DEF TypeOK
<1>2. CASE BeginTask /\ w = Head(batch)
  <2>1. /\ batch # <<>> /\ running[Main] = NoTask /\ pc[Main] = "drain"
        /\ 1 \in DOMAIN batch /\ w = batch[1] /\ w \in Task
    BY <1>0, <1>1, <1>2, TailElements DEF BeginTask, TypeOK
  <2>2. w[1] \in Submitter /\ w[2] \in Nat \ {0} /\ w = <<w[1], w[2]>>
    BY <2>1 DEF Task
  <2>3. Queued(w) /\ (status # "Stopped" => Fresh(w))
    BY <2>1 DEF LoopInv, OrderInv, InPast, NotYet
  <2>4. w \in Write
    BY <1>0, <2>2, <2>3 DEF Queued, Write
  <2>5. /\ executed' = Append(executed, w)
        /\ running'[Main] # NoTask
        /\ UNCHANGED <<batch, callbacks, pc, posted>>
    BY <1>0, <1>2, <2>1, NoTaskAssumption DEF BeginTask, TypeOK
  <2>6. \A i \in DOMAIN callbacks : callbacks[i] # w
    BY <2>1, <2>2 DEF LoopInv, OrderInv, QueueOrder, Before
  <2>7. \A i \in DOMAIN batch : i = 1 \/ batch[i] # w
    <3>1. \A i \in DOMAIN batch : i = 1 \/ 1 < i
      BY <1>0 DEF TypeOK
    <3> QED
      BY <2>1, <2>2, <3>1 DEF LoopInv, OrderInv, QueueOrder, Ordered, Before
  <2>8. Begun(w)'
    <3>1. \A t \in Submitter \ {Main} : running'[t] = running[t]
      BY <1>0, <1>2 DEF BeginTask, TypeOK
    <3> QED
      BY <2>1, <2>2, <2>3, <2>5, <3>1 DEF Queued, Begun
  <2>9. Past(w)'
    BY <2>5, <2>6, <2>7, <2>8 DEF Past
  <2>10. ~Past(w)
    BY <2>1 DEF Past
  <2>11. status # "Stopped"
    BY <2>1 DEF LoopInv, IInv, InlineAfterStop, SubmitterPc
  <2> QED
    BY <2>3, <2>4, <2>5, <2>9, <2>10, <2>11 DEF Fresh
<1>3. ASSUME NEW t \in Submitter, BeginInline(t), w = <<t, posted[t]>>
      PROVE  /\ w \in Write
             /\ ~Past(w)
             /\ Past(w)'
             /\ executed' = Append(executed, w)
             /\ \A k \in DOMAIN executed :
                  executed[k][1] = w[1] /\ w[1] # Main => executed[k][2] < w[2]
  <2>1. pc[t] = "inline" /\ running[t] = NoTask /\ posted[t] # 0
    BY <1>0, <1>3 DEF BeginInline, Posted
  <2>2. w \in Write /\ w \in Task /\ w[1] = t /\ w[2] = posted[t]
    BY <1>0, <1>3, <2>1 DEF Write, Task
  <2>3. /\ executed' = Append(executed, w)
        /\ running'[t] # NoTask
        /\ UNCHANGED <<batch, callbacks, pc, posted>>
    BY <1>0, <1>3, <2>2, NoTaskAssumption DEF BeginInline, TypeOK
  <2>4. ~Begun(w)
    BY <1>0, <2>1, <2>2 DEF Begun
  <2>5. Begun(w)'
    BY <1>0, <2>1, <2>2, <2>3 DEF Begun
  <2>6. \A v \in Task : Queued(v) => v # w
    BY <1>0, <2>1, <2>2 DEF Queued
  <2>7. Past(w)'
    BY <1>1, <2>3, <2>5, <2>6 DEF LoopInv, OrderInv, InPast, Past
  <2>8. \A k \in DOMAIN executed : executed[k][1] = t => executed[k][2] < posted[t]
    BY <1>0, <2>1 DEF LoopInv, OrderInv, InPast, Begun
  <2> QED
    BY <2>2, <2>3, <2>4, <2>7, <2>8 DEF Past
<1>4. CASE RunNested /\ w = <<Main, posted[Main] + 1>>
  <2>1. posted[Main] < MaxPosts /\ pc[Main] \in {"drain", "poll"}
    BY <1>4 DEF RunNested, InLoopCallback
  <2>2. w \in Write /\ w \in Task /\ w[1] = Main /\ w[2] = posted[Main] + 1
    BY <1>0, <1>4, <2>1 DEF Write, Task
  <2>3. /\ executed' = Append(executed, w)
        /\ UNCHANGED <<batch, callbacks, pc, running>>
        /\ posted'[Main] = posted[Main] + 1
    BY <1>0, <1>4, <2>2 DEF RunNested, TypeOK
  <2>4. ~Begun(w)
    BY <1>0, <2>2 DEF Begun
  <2>5. Begun(w)'
    BY <1>0, <2>1, <2>2, <2>3 DEF Begun
  <2>6. \A v \in Task : Queued(v) => v # w
    BY <1>0, <2>2 DEF Queued
  <2>7. Past(w)'
    BY <1>1, <2>3, <2>5, <2>6 DEF LoopInv, OrderInv, InPast, Past
  <2> QED
    BY <2>2, <2>3, <2>4, <2>7 DEF Past
<1> QED
  BY <1>2, <1>3, <1>4

\* The same with a sequence of writes.
LEMMA AppendWrite ==
  ASSUME NEW seq \in Seq(Write), NEW last \in Write
  PROVE  /\ Append(seq, last) \in Seq(Write)
         /\ DOMAIN Append(seq, last) = DOMAIN seq \union {Len(seq) + 1}
         /\ \A i \in DOMAIN seq :
              Append(seq, last)[i] = seq[i] /\ i < Len(seq) + 1 /\ i \in Nat
         /\ Append(seq, last)[Len(seq) + 1] = last
         /\ Len(seq) \in Nat
OBVIOUS

\* What is answered now was not answered before.
LEMMA AnswerTypes ==
  ASSUME WriteTypes, NEW W \in SUBSET Write, Answer(W), \A w \in W : answers[w] # 1
  PROVE  /\ answers' \in [Write -> {0, 1}]
         /\ \A w \in Write : answers'[w] = IF w \in W THEN 1 ELSE answers[w]
BY DEF WriteTypes, Answer

\* Performing a write whose turn has come: uv_write() has it, or it is answered.
LEMMA PerformWrite ==
  ASSUME LoopInv, WriteInv, NEW w, Perform(w), [Next]_vars,
         w \in Write, ~Past(w), Past(w)', executed' = Append(executed, w),
         \A k \in DOMAIN executed :
           executed[k][1] = w[1] /\ w[1] # Main => executed[k][2] < w[2]
  PROVE  WriteInv'
<1>0. /\ WriteTypes /\ executed \in Seq(Task) /\ w \in Task
      /\ answers[w] = 0 /\ ~InFlight(w)
  BY DEF LoopInv, IInv, TypeOK, WriteInv, WriteTypes, Done, Write, Task
<1>1. \A v \in Write : Past(v) => Past(v)'
  BY PastStays
<1>2. Holds(executed', w) /\ \A v : Holds(executed, v) => Holds(executed', v)
  BY <1>0, HoldsAppend
<1>3. CASE Taken(w)
  <2>1. inflight' = Append(inflight, w) /\ sent' = Append(sent, w) /\ answers' = answers
    BY <1>3 DEF Taken
  <2>2. /\ \A i \in DOMAIN inflight' :
             \/ i \in DOMAIN inflight /\ inflight'[i] = inflight[i] /\ i # Len(inflight) + 1
             \/ i = Len(inflight) + 1 /\ inflight'[i] = w
        /\ inflight' \in Seq(Write)
    BY <1>0, <2>1, AppendWrite DEF WriteTypes
  <2>3. /\ \A i \in DOMAIN sent' :
             \/ i \in DOMAIN sent /\ sent'[i] = sent[i] /\ i < Len(sent) + 1 /\ i \in Nat
             \/ i = Len(sent) + 1 /\ sent'[i] = w
        /\ sent' \in Seq(Write) /\ Len(sent) \in Nat
    BY <1>0, <2>1, AppendWrite DEF WriteTypes
  <2>4. WriteTypes'
    BY <1>0, <2>1, <2>2, <2>3 DEF WriteTypes
  <2>5. OneBuffer'
    <3>1. \A i \in DOMAIN inflight : inflight[i] # w
      BY <1>0 DEF InFlight
    <3> QED
      BY <2>2, <3>1 DEF WriteInv, OneBuffer
  <2>6. \A v \in Write : InFlight(v)' => InFlight(v) \/ v = w
    BY <2>2 DEF InFlight
  <2>7. \A v \in Write : ~(answers'[v] = 1 /\ InFlight(v)') /\ (Done(v)' => Past(v)')
    BY <1>0, <1>1, <2>1, <2>6 DEF WriteInv, Done
  <2>8. \A i \in DOMAIN sent' : Holds(executed', sent'[i])
    BY <1>2, <2>3 DEF WriteInv
  <2>9. SentInOrder'
    <3> SUFFICES ASSUME NEW i \in DOMAIN sent', NEW j \in DOMAIN sent', i < j,
                        sent'[i][1] = sent'[j][1], sent'[i][1] # Main
                 PROVE  sent'[i][2] < sent'[j][2]
      BY DEF SentInOrder
    <3>1. i \in DOMAIN sent /\ sent'[i] = sent[i]
      BY <2>3
    <3>2. CASE j \in DOMAIN sent /\ sent'[j] = sent[j]
      BY <3>1, <3>2 DEF WriteInv, SentInOrder
    <3>3. CASE sent'[j] = w
      <4>1. PICK k \in DOMAIN executed : executed[k] = sent[i]
        BY <3>1 DEF WriteInv, Holds
      <4> QED
        BY <3>1, <3>3, <4>1
    <3> QED
      BY <2>3, <3>2, <3>3
  <2> QED
    BY <2>4, <2>5, <2>7, <2>8, <2>9 DEF WriteInv
<1>4. CASE Answer({w}) /\ UNCHANGED <<inflight, sent>>
  <2>1. /\ answers' \in [Write -> {0, 1}]
        /\ \A v \in Write : answers'[v] = IF v = w THEN 1 ELSE answers[v]
    BY <1>0, <1>4, AnswerTypes
  <2>2. WriteTypes' /\ OneBuffer' /\ SentInOrder'
    BY <1>0, <1>4, <2>1 DEF WriteInv, WriteTypes, OneBuffer, SentInOrder
  <2>3. \A v \in Write : ~(answers'[v] = 1 /\ InFlight(v)') /\ (Done(v)' => Past(v)')
    BY <1>0, <1>1, <1>4, <2>1 DEF WriteInv, Done, InFlight
  <2>4. \A i \in DOMAIN sent' : Holds(executed', sent'[i])
    BY <1>2, <1>4 DEF WriteInv
  <2> QED
    BY <2>2, <2>3, <2>4 DEF WriteInv
<1> QED
  BY <1>3, <1>4 DEF Perform

\* Steps of the loop that execute nothing, and of the connection, leave the
\* writes as they are or answer what was in flight.
LEMMA QuietWrite ==
  ASSUME LoopInv, WriteInv, [Next]_vars \/ PollClosing, executed' = executed,
         UNCHANGED writeVars
  PROVE  WriteInv'
<1>1. \A v \in Write : Past(v) => Past(v)'
  BY PastStays
<1>2. UNCHANGED <<inflight, sent, answers>>
  BY DEF writeVars
<1> QED
  BY <1>1, <1>2 DEF WriteInv, WriteTypes, OneBuffer, Done, InFlight, SentInOrder

LEMMA WriteDoneWrite ==
  ASSUME LoopInv, WriteInv, WriteDone
  PROVE  WriteInv'
<1>0. UNCHANGED vars /\ sent' = sent /\ inflight' = Tail(inflight) /\ inflight # <<>>
  BY DEF WriteDone
<1>1. \A v \in Write : Past(v) => Past(v)'
  BY <1>0, PastStays
<1>2. PICK w \in Write : w = Head(inflight)
  BY <1>0 DEF WriteInv, WriteTypes
<1>3. /\ 1 \in DOMAIN inflight /\ inflight[1] = w
      /\ inflight' \in Seq(Write)
      /\ \A i \in DOMAIN inflight' :
           i \in Nat \ {0} /\ i + 1 \in DOMAIN inflight /\ inflight'[i] = inflight[i + 1]
  BY <1>0, <1>2 DEF WriteInv, WriteTypes
<1>4. InFlight(w) /\ answers[w] # 1
  BY <1>3 DEF WriteInv, InFlight
<1>5. /\ answers' \in [Write -> {0, 1}]
      /\ \A v \in Write : answers'[v] = IF v = w THEN 1 ELSE answers[v]
  <2>1. Answer({w})
    BY <1>2 DEF WriteDone
  <2> QED
    BY <1>4, <2>1, AnswerTypes DEF WriteInv
<1>6. \A v \in Write : InFlight(v)' => InFlight(v) /\ v # w
  <2> SUFFICES ASSUME NEW v \in Write, NEW i \in DOMAIN inflight', inflight'[i] = v
               PROVE  InFlight(v) /\ v # w
    BY DEF InFlight
  <2>1. i + 1 \in DOMAIN inflight /\ inflight[i + 1] = v /\ i + 1 # 1
    BY <1>3
  <2> QED
    BY <1>3, <2>1 DEF InFlight, WriteInv, OneBuffer
<1>7. OneBuffer'
  <2> SUFFICES ASSUME NEW i \in DOMAIN inflight', NEW j \in DOMAIN inflight',
                      inflight'[i] = inflight'[j]
               PROVE  i = j
    BY DEF OneBuffer
  <2>1. i + 1 = j + 1
    BY <1>3 DEF WriteInv, OneBuffer
  <2> QED
    BY <1>3, <2>1
<1>8. WriteTypes' /\ SentInOrder'
  BY <1>0, <1>3, <1>5 DEF WriteInv, WriteTypes, SentInOrder
<1>9. \A v \in Write : ~(answers'[v] = 1 /\ InFlight(v)') /\ (Done(v)' => Past(v)')
  BY <1>1, <1>4, <1>5, <1>6 DEF WriteInv, Done
<1>10. \A i \in DOMAIN sent' : Holds(executed', sent'[i])
  BY <1>0 DEF WriteInv, vars
<1> QED
  BY <1>7, <1>8, <1>9, <1>10 DEF WriteInv

LEMMA ConnectionClosedWrite ==
  ASSUME LoopInv, WriteInv, ConnectionClosed
  PROVE  WriteInv'
<1>0. UNCHANGED vars /\ sent' = sent /\ inflight' = <<>>
  BY DEF ConnectionClosed
<1>1. \A v \in Write : Past(v) => Past(v)'
  BY <1>0, PastStays
<1> DEFINE W == {inflight[i] : i \in DOMAIN inflight}
<1>2. W \in SUBSET Write /\ \A v \in Write : v \in W <=> InFlight(v)
  BY DEF WriteInv, WriteTypes, InFlight
<1>3. \A v \in W : answers[v] # 1
  BY <1>2 DEF WriteInv
<1>4. Answer(W)
  BY DEF ConnectionClosed
<1> HIDE DEF W
<1>5. /\ answers' \in [Write -> {0, 1}]
      /\ \A v \in Write : answers'[v] = IF v \in W THEN 1 ELSE answers[v]
  BY <1>2, <1>3, <1>4, AnswerTypes DEF WriteInv
<1>6. \A v \in Write : ~InFlight(v)'
  BY <1>0 DEF InFlight
<1>7. WriteTypes' /\ OneBuffer' /\ SentInOrder'
  BY <1>0, <1>5 DEF WriteInv, WriteTypes, OneBuffer, SentInOrder
<1>8. \A v \in Write : Done(v)' => Past(v)'
  BY <1>1, <1>2, <1>5, <1>6 DEF WriteInv, Done
<1>9. \A i \in DOMAIN sent' : Holds(executed', sent'[i])
  BY <1>0 DEF WriteInv, vars
<1> QED
  BY <1>6, <1>7, <1>8, <1>9 DEF WriteInv

\* A write that finds no connection is the next of its thread, and answered.
LEMMA NowhereWrite ==
  ASSUME LoopInv, WriteInv, NEW t \in Submitter, WriteNowhere(t)
  PROVE  WriteInv'
<1>0. /\ TypeOK /\ (\A u \in Submitter : posted[u] \in Nat) /\ MaxPosts \in Nat
      /\ \A i \in DOMAIN batch : batch[i] \in Task
      /\ \A i \in DOMAIN callbacks : callbacks[i] \in Task
  BY BoundAssumption DEF LoopInv, IInv, TypeOK
<1>1. /\ posted'[t] = posted[t] + 1 /\ posted[t] < MaxPosts /\ pc[t] = "idle"
      /\ UNCHANGED <<callbacks, batch, pc, running, executed, inflight, sent>>
  BY <1>0 DEF WriteNowhere, TypeOK
<1>2. <<t, posted[t] + 1>> \in Write
  BY <1>0, <1>1 DEF Write
<1>3. PICK w \in Write : w = <<t, posted[t] + 1>>
  BY <1>2
<1>4. Answer({w})
  BY <1>1, <1>3 DEF WriteNowhere
<1>5. \A v \in Write : Past(v) => Past(v)'
  BY PastStays
<1>6. ~Past(w)
  BY <1>0, <1>3 DEF Past, Begun
<1>7. Past(w)'
  <2>1. \A v \in Task : Queued(v) => v # w
    BY <1>0, <1>3 DEF Queued
  <2>2. Begun(w)'
    BY <1>1, <1>3 DEF Begun
  <2> QED
    BY <1>0, <1>1, <2>1, <2>2 DEF LoopInv, OrderInv, InPast, Past
<1>8. answers[w] # 1 /\ ~InFlight(w)
  BY <1>6 DEF WriteInv, Done
<1>9. /\ answers' \in [Write -> {0, 1}]
      /\ \A v \in Write : answers'[v] = IF v = w THEN 1 ELSE answers[v]
  BY <1>4, <1>8, AnswerTypes DEF WriteInv
<1>10. WriteTypes' /\ OneBuffer' /\ SentInOrder'
  BY <1>1, <1>9 DEF WriteInv, WriteTypes, OneBuffer, SentInOrder
<1>11. \A v \in Write : ~(answers'[v] = 1 /\ InFlight(v)') /\ (Done(v)' => Past(v)')
  BY <1>1, <1>5, <1>7, <1>8, <1>9 DEF WriteInv, Done, InFlight
<1>12. \A i \in DOMAIN sent' : Holds(executed', sent'[i])
  BY <1>1 DEF WriteInv
<1> QED
  BY <1>10, <1>11, <1>12 DEF WriteInv

\* Every step keeps the invariant of the loop and of the writes.
LEMMA NextWrite == LoopInv /\ WriteInv /\ [WriteNext]_allVars => LoopInv' /\ WriteInv'
<1> SUFFICES ASSUME LoopInv, WriteInv, [WriteNext]_allVars PROVE LoopInv' /\ WriteInv'
  OBVIOUS
<1>1. CASE Plain /\ UNCHANGED <<connVars, writeVars>>
  <2>1. Next
    BY <1>1 DEF Plain, Submit, OtherLoopStep, Next, SubmitterStep, LoopStep
  <2>2. executed' = executed
    BY <1>1 DEF Plain, Submit, OtherLoopStep, EndInline, Push, Signal, AsyncInit,
                SetStarted, SetReturned, Wake, Swap, EndTask, EndDrain, PollEmpty,
                CloseCompleted, EndIteration, Run, Stop
  <2> QED
    BY <1>1, <2>1, <2>2, NextLoopInv, QuietWrite
<1>2. CASE BeginWrite
  <2>1. PICK w : /\ Perform(w)
                 /\ \/ BeginTask /\ w = Head(batch)
                    \/ \E t \in Submitter : BeginInline(t) /\ w = <<t, posted[t]>>
    BY <1>2 DEF BeginWrite
  <2>2. Next
    BY <2>1 DEF Next, SubmitterStep, LoopStep
  <2> QED
    BY <2>1, <2>2, NextLoopInv, TurnComes, PerformWrite
<1>3. ASSUME NEW t \in Submitter, WriteInLoop(t)
      PROVE  LoopInv' /\ WriteInv'
  <2>1. Next /\ executed' = executed /\ UNCHANGED writeVars
    BY <1>3 DEF WriteInLoop, Next, RunInThisLoop
  <2> QED
    BY <2>1, NextLoopInv, QuietWrite
<1>4. ASSUME NEW t \in Submitter, WriteNowhere(t)
      PROVE  LoopInv' /\ WriteInv'
  BY <1>4, NowhereLoopInv, NowhereWrite
<1>5. CASE WriteNested
  <2>1. posted'[Main] = posted[Main] + 1
    BY <1>5 DEF WriteNested, RunNested, LoopInv, IInv, TypeOK, Submitter
  <2>2. PICK w : Perform(w) /\ RunNested /\ w = <<Main, posted[Main] + 1>>
    BY <1>5, <2>1 DEF WriteNested
  <2>3. Next
    BY <2>2 DEF Next
  <2> QED
    BY <2>2, <2>3, NextLoopInv, TurnComes, PerformWrite
<1>6. CASE Connect \/ LosePeer \/ Close \/ Release \/ UNCHANGED allVars
  <2>1. UNCHANGED vars /\ UNCHANGED writeVars
    BY <1>6 DEF Connect, LosePeer, Close, Release, allVars
  <2>2. executed' = executed
    BY <2>1 DEF vars
  <2> QED
    BY <2>1, <2>2, NextLoopInv, QuietWrite
<1>7. CASE WriteDone
  <2>1. UNCHANGED vars
    BY <1>7 DEF WriteDone
  <2> QED
    BY <1>7, <2>1, NextLoopInv, WriteDoneWrite
<1>8. CASE ConnectionClosed
  <2>1. UNCHANGED vars
    BY <1>8 DEF ConnectionClosed
  <2> QED
    BY <1>8, <2>1, NextLoopInv, ConnectionClosedWrite
<1>9. CASE PollClosing
  <2>1. executed' = executed /\ UNCHANGED writeVars
    BY <1>9 DEF PollClosing
  <2> QED
    BY <1>9, <2>1, PollClosingLoopInv, QuietWrite
<1> QED
  BY <1>1, <1>2, <1>3, <1>4, <1>5, <1>6, <1>7, <1>8, <1>9 DEF WriteNext

LEMMA WriteInvariance == WriteSpec => [](LoopInv /\ WriteInv)
<1>1. WriteInit => LoopInv /\ WriteInv
  BY InitIInv, InitOrder, InitWrite DEF WriteInit, LoopInv
<1> QED
  BY <1>1, NextWrite, PTL DEF WriteSpec

\* write_in_loop() answers a write at most once, and when it does neither libuv
\* nor a lambda that is still to run has the buffer.
THEOREM AnsweredOnceHolds == WriteSpec => []AnsweredOnce
<1>1. LoopInv /\ WriteInv => AnsweredOnce
  <2> SUFFICES ASSUME LoopInv, WriteInv, NEW w \in Write
               PROVE  /\ answers[w] <= 1
                      /\ answers[w] = 1 =>
                           ~InFlight(w) /\ (Holds(callbacks \o batch, w) => running[Main] = w)
    BY DEF AnsweredOnce
  <2>1. answers[w] \in {0, 1}
    BY DEF WriteInv, WriteTypes
  <2>2. ASSUME answers[w] = 1, NEW i \in DOMAIN (callbacks \o batch), (callbacks \o batch)[i] = w
        PROVE  running[Main] = w
    <3>0. callbacks \in Seq(Task) /\ batch \in Seq(Task) /\ Past(w)
      BY <2>2 DEF LoopInv, IInv, TypeOK, WriteInv, Done
    <3>1. \/ i \in DOMAIN callbacks /\ callbacks[i] = w
          \/ i - Len(callbacks) \in DOMAIN batch /\ batch[i - Len(callbacks)] = w
      BY <2>2, <3>0
    <3>2. 1 \in DOMAIN batch /\ batch[1] = w /\ running[Main] # NoTask
      BY <3>0, <3>1 DEF Past
    <3>3. batch # <<>> /\ Head(batch) = w
      BY <3>0, <3>2
    <3> QED
      BY <3>2, <3>3 DEF LoopInv, OrderInv, AtFront
  <2> QED
    BY <2>1, <2>2 DEF WriteInv, Holds
<1> QED
  BY <1>1, WriteInvariance, PTL

\* uv_write() is given what a thread writes in the order it was written, also
\* when the loop stops in between.
THEOREM SentInOrderHolds == WriteSpec => []SentInOrder
<1>1. WriteInv => SentInOrder
  BY DEF WriteInv
<1> QED
  BY <1>1, WriteInvariance, PTL
=============================================================================
