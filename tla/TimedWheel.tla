----------------------------- MODULE TimedWheel -----------------------------
(***************************************************************************)
(* A TimerWheel with the Timer that turns it (timer_ in ae/timer_wheel.h), *)
(* on a loop on which a program uses another Timer, as the test clients do.*)
(* The wheel's Timer is constructed with an interval of a second, started  *)
(* by start() and never closed.                                            *)
(***************************************************************************)
EXTENDS TimerWheel

CONSTANTS
  Object,       \* the Timers of the loop
  WheelTimer,   \* TimerWheel::timer_
  MaxCloses     \* bound: calls of close() on one Timer

ASSUME WheelTimerAssumption == WheelTimer \in Object
ASSUME MaxClosesAssumption == MaxCloses \in Nat

VARIABLES
  phase, timerStarted, timer, repeat, closeComplete, destroyed, calls, answers

timerVars == <<phase, timerStarted, timer, repeat, closeComplete, destroyed,
               calls, answers>>
timedVars == <<vars, timerVars>>

Timers == INSTANCE Timer

TimedInit ==
  /\ Init
  /\ Timers!Init
  /\ repeat[WheelTimer]

\* With a timeout, TimerWheel::start() starts timer_ as well.
StartBoth ==
  /\ Start
  /\ IF timeoutSec > 0 THEN Timers!Start(WheelTimer) ELSE UNCHANGED timerVars

\* wheel_callback() when timer_ is due; without a timeout it returns at once.
Turn ==
  /\ Timers!Process(WheelTimer)
  /\ IF timeoutSec > 0 THEN WheelCallback ELSE UNCHANGED vars

WheelStep ==
  \/ \E seconds \in 0 .. MaxTimeout : SetTimeout(seconds) /\ UNCHANGED timerVars
  \/ \E value \in Value : Insert(value) /\ UNCHANGED timerVars
  \/ StartBoth
  \/ Turn

OtherTimers ==
  /\ \E t \in Object \ {WheelTimer} : Timers!UserCall(t) \/ Timers!Process(t)
  /\ UNCHANGED vars

Loop == Timers!LoopStep /\ UNCHANGED vars

TimedNext == WheelStep \/ OtherTimers \/ Loop

\* The loop goes round, and what is due is called at last.
TimedFairness ==
  /\ WF_timedVars(Timers!TimersDone /\ UNCHANGED vars)
  /\ WF_timedVars(Timers!PollDone /\ UNCHANGED vars)
  /\ WF_timedVars(Timers!ClosingDone /\ UNCHANGED vars)
  /\ \A t \in Object : WF_timedVars(Timers!CloseCompleted(t) /\ UNCHANGED vars)
  /\ SF_timedVars(Turn)

TimedSpec == TimedInit /\ [][TimedNext]_timedVars /\ TimedFairness

-----------------------------------------------------------------------------
(* Properties                                                               *)

UseIsSafe == Timers!UseIsSafe
NoTickAfterClose == Timers!NoTickAfterClose
CloseAnswered == Timers!CloseAnswered

\* The wheel goes on turning, through start() called again and whatever is done
\* to the other timers of the loop: a value that is not inserted again is let go
\* at last.
IdleIsLetGo ==
  \A v \in Value :
    []<><<Insert(v)>>_vars \/ (v \in Kept ~> v \notin Kept)
=============================================================================
