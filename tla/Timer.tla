-------------------------------- MODULE Timer --------------------------------
(***************************************************************************)
(* The Timer objects (ae/timer.cpp) of one loop.  A Timer allocates its    *)
(* uv_timer_t and never looks after it: the close callback deletes the     *)
(* handle while handle_ keeps pointing to it, and ~Timer() does nothing.   *)
(* What keeps a program out of freed memory is how its user counts the     *)
(* answers to close().                                                     *)
(*                                                                         *)
(* Everything runs on the loop thread.  The loop goes through due timers,  *)
(* polling, and the close callbacks; how late a timer is due is left open. *)
(***************************************************************************)
EXTENDS Naturals, Sequences

CONSTANTS
  Object,       \* Timer objects
  MaxCloses     \* bound: calls of close() on one Timer

VARIABLES
  phase,           \* the part of the uv_run() iteration the loop is in
  timerStarted,    \* Timer::started_
  timer,           \* libuv's view of Timer::handle_
  repeat,          \* the interval of the uv_timer_t is not 0
  closeComplete,   \* closeComplete_: the call of close() it came with, 0: none
  destroyed,       \* the Timers that have been deleted
  calls,           \* history: calls of close() on each Timer
  answers          \* history: the close() each run of a close callback was of

closeVars == <<closeComplete, calls, answers>>
vars == <<phase, timerStarted, timer, repeat, destroyed, closeVars>>

\* "closing" waits for the closing phase, "finishing" is in the one that runs.
HandleState == {"idle", "active", "closing", "finishing", "freed"}

\* A Timer repeats if it was constructed so.
Init ==
  /\ phase = "poll"
  /\ timerStarted = [t \in Object |-> FALSE]
  /\ timer = [t \in Object |-> "idle"]
  /\ repeat \in [Object -> BOOLEAN]
  /\ closeComplete = [t \in Object |-> 0]
  /\ destroyed = {}
  /\ calls = [t \in Object |-> 0]
  /\ answers = [t \in Object |-> <<>>]

-----------------------------------------------------------------------------
(* The user's calls, from any callback of the loop                          *)

\* Every close() so far has had its answer.
Answered(t) == calls[t] > 0 /\ Len(answers[t]) = calls[t]

\* A user that counts goes on using a Timer until then.
InUse(t) == t \notin destroyed /\ ~Answered(t)

\* libuv refuses to start a handle that is being closed; started_ is set all
\* the same, and a Timer starts once in its life.
Start(t) ==
  /\ InUse(t)
  /\ timerStarted' = [timerStarted EXCEPT ![t] = TRUE]
  /\ timer' = [timer EXCEPT ![t] =
                 IF ~timerStarted[t] /\ @ = "idle" THEN "active" ELSE @]
  /\ UNCHANGED <<phase, repeat, destroyed, closeVars>>

SetTimerRepeat(t, on) ==
  /\ InUse(t)
  /\ repeat' = [repeat EXCEPT ![t] = on]
  /\ UNCHANGED <<phase, timerStarted, timer, destroyed, closeVars>>

\* Mutant: close() never waits for libuv.
CompletesAlways(t) == TRUE

\* uv_is_closing(): the callback runs at once when the handle is closing already.
CompletesAtOnce(t) == timer[t] \in {"closing", "finishing"}

\* Mutant: close() stores the callback and leaves the handle alone.
StoppedNever(state) == state

\* Mutant: only a running timer is closed.
StoppedIfActive(state) == IF state = "active" THEN "closing" ELSE state

\* uv_timer_stop() and uv_close(), unless the handle is closing.
Stopped(state) == IF state \in {"idle", "active"} THEN "closing" ELSE state

Close(t) ==
  /\ InUse(t)
  /\ calls[t] < MaxCloses
  /\ calls' = [calls EXCEPT ![t] = @ + 1]
  /\ closeComplete' = [closeComplete EXCEPT ![t] = calls'[t]]
  /\ timer' = [timer EXCEPT ![t] = Stopped(@)]
  /\ answers' = IF CompletesAtOnce(t)
                THEN [answers EXCEPT ![t] = Append(@, closeComplete'[t])]
                ELSE answers
  /\ UNCHANGED <<phase, timerStarted, repeat, destroyed>>

\* A Timer is deleted when its handle is done with, or was never in use.
Destroy(t) ==
  /\ t \notin destroyed
  /\ Answered(t) \/ (~timerStarted[t] /\ calls[t] = 0)
  /\ destroyed' = destroyed \union {t}
  /\ UNCHANGED <<phase, timerStarted, timer, repeat, closeVars>>

UserCall(t) ==
  \/ Start(t) \/ Close(t) \/ Destroy(t)
  \/ \E on \in BOOLEAN : SetTimerRepeat(t, on)

-----------------------------------------------------------------------------
(* The loop                                                                 *)

\* Mutant: the timer is not armed again.
RearmedNever(t) == "idle"

\* uv_timer_again(), before the callback.
Rearmed(t) == IF repeat[t] THEN "active" ELSE "idle"

\* Timer::process() of a timer that is due.
Process(t) ==
  /\ phase = "timers"
  /\ timer[t] = "active"
  /\ timer' = [timer EXCEPT ![t] = Rearmed(t)]
  /\ UNCHANGED <<phase, timerStarted, repeat, destroyed, closeVars>>

TimersDone ==
  /\ phase = "timers"
  /\ phase' = "poll"
  /\ UNCHANGED <<timerStarted, timer, repeat, destroyed, closeVars>>

\* The closing phase takes the handles that are closing now.
PollDone ==
  /\ phase = "poll"
  /\ phase' = "closing"
  /\ timer' = [t \in Object |->
                 IF timer[t] = "closing" THEN "finishing" ELSE timer[t]]
  /\ UNCHANGED <<timerStarted, repeat, destroyed, closeVars>>

\* The close callback: close_complete(), then the handle is deleted.
CloseCompleted(t) ==
  /\ phase = "closing"
  /\ timer[t] = "finishing"
  /\ answers' = [answers EXCEPT ![t] = Append(@, closeComplete[t])]
  /\ timer' = [timer EXCEPT ![t] = "freed"]
  /\ UNCHANGED <<phase, timerStarted, repeat, destroyed, closeComplete, calls>>

ClosingDone ==
  /\ phase = "closing"
  /\ \A t \in Object : timer[t] # "finishing"
  /\ phase' = "timers"
  /\ UNCHANGED <<timerStarted, timer, repeat, destroyed, closeVars>>

LoopStep ==
  \/ TimersDone \/ PollDone \/ ClosingDone
  \/ \E t \in Object : CloseCompleted(t)

Next ==
  \/ LoopStep
  \/ \E t \in Object : UserCall(t) \/ Process(t)

Spec == Init /\ [][Next]_vars

-----------------------------------------------------------------------------
(* Properties                                                               *)

\* Every variable has its type.
TypeOK ==
  /\ phase \in {"timers", "poll", "closing"}
  /\ timerStarted \in [Object -> BOOLEAN]
  /\ timer \in [Object -> HandleState]
  /\ repeat \in [Object -> BOOLEAN]
  /\ closeComplete \in [Object -> 0 .. MaxCloses]
  /\ destroyed \subseteq Object
  /\ calls \in [Object -> 0 .. MaxCloses]
  /\ answers \in [Object -> Seq(0 .. MaxCloses)]

\* A user that counts the runs of its close callbacks -- a second close() while
\* the handle is closing runs the new callback twice and the first one never --
\* never calls a Timer whose uv_timer_t is deleted, and never deletes a Timer
\* that libuv will still call.
UseIsSafe ==
  \A t \in Object :
    /\ InUse(t) => timer[t] # "freed"
    /\ timer[t] \in {"active", "closing", "finishing"} => t \notin destroyed

\* close() stops the timer for good: not even start() brings it back.
NoTickAfterClose ==
  [][\A t \in Object : Process(t) => calls[t] = 0]_vars

\* However often it is called, close() is answered with the last callback given.
CloseAnswered ==
  \A t \in Object :
    calls[t] > 0 ~> Answered(t) /\ answers[t][calls[t]] = calls[t]
=============================================================================
