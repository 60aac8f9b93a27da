--------------------------- MODULE SerialExecutor ---------------------------
(***************************************************************************)
(* What EventLoop::run_in_this_loop promises to its callers, with no queue,*)
(* mutex, wake-up or status flag in sight: callbacks submitted by a thread *)
(* other than the loop's own are executed one after another, each at most  *)
(* once, in the order that thread submitted them.  Only once the executor  *)
(* is being shut down may a submitted callback be passed over.             *)
(*                                                                         *)
(* The loop thread itself is excepted from the order: what it submits from *)
(* inside a loop callback is executed on the spot, ahead of everything     *)
(* that is waiting.                                                        *)
(***************************************************************************)
EXTENDS Naturals, Sequences

CONSTANTS
  Thread,      \* threads that submit callbacks from outside the loop
  Main         \* the thread that runs the loop

VARIABLES
  submitted,   \* submitted[t]: how many callbacks t has submitted
  executed,    \* the callbacks executed so far, oldest first
  closed       \* TRUE once a shutdown was requested

vars == <<submitted, executed, closed>>

Submitter == Thread \union {Main}

\* The n-th callback submitted by t.
Task == Submitter \X (Nat \ {0})

HasRun(task) == \E i \in DOMAIN executed : executed[i] = task

Init ==
  /\ submitted = [t \in Submitter |-> 0]
  /\ executed = <<>>
  /\ closed = FALSE

Submit(t) ==
  /\ submitted' = [submitted EXCEPT ![t] = @ + 1]
  /\ UNCHANGED <<executed, closed>>

\* Nothing t submitted after its n-th callback has run, and nothing it
\* submitted before is still waiting unless the executor is closed.
InTurn(t, n) ==
  /\ \A m \in n .. submitted[t] : ~HasRun(<<t, m>>)
  /\ closed \/ \A m \in 1 .. n - 1 : HasRun(<<t, m>>)

Execute(t, n) ==
  /\ IF t = Main THEN ~HasRun(<<t, n>>) ELSE InTurn(t, n)
  /\ executed' = Append(executed, <<t, n>>)
  /\ UNCHANGED <<submitted, closed>>

\* The loop thread submits and executes in one go.
SubmitAndExecute ==
  /\ submitted' = [submitted EXCEPT ![Main] = @ + 1]
  /\ executed' = Append(executed, <<Main, submitted[Main] + 1>>)
  /\ UNCHANGED closed

Close ==
  /\ closed' = TRUE
  /\ UNCHANGED <<submitted, executed>>

Next ==
  \/ \E t \in Submitter : Submit(t)
  \/ \E t \in Submitter : \E n \in 1 .. submitted[t] : Execute(t, n)
  \/ SubmitAndExecute
  \/ Close

Spec == Init /\ [][Next]_vars
=============================================================================
