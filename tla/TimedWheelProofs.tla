-------------------------- MODULE TimedWheelProofs --------------------------
(***************************************************************************)
(* Proofs about TimedWheel.  Each of its steps is a step of the wheel or   *)
(* leaves the wheel alone, and likewise for the Timers of the loop: what   *)
(* holds of TimerWheel holds of the wheel that its Timer turns, and the    *)
(* properties of the Timers follow from what their user has counted.       *)
(***************************************************************************)
EXTENDS TimedWheel, TimerWheelProofs, Sequences

-----------------------------------------------------------------------------
(* The two components                                                       *)

\* Whatever is done to the Timers, the wheel sees one of its own operations.
LEMMA WheelSteps ==
  [TimedNext]_timedVars => [Next]_vars
<1> SUFFICES ASSUME [TimedNext]_timedVars
             PROVE  [Next]_vars
  OBVIOUS
<1>1. CASE WheelStep
  BY <1>1 DEF WheelStep, StartBoth, Turn, Next, vars
<1>2. CASE OtherTimers \/ Loop \/ UNCHANGED timedVars
  BY <1>2 DEF OtherTimers, Loop, timedVars, vars
<1> QED
  BY <1>1, <1>2 DEF TimedNext

\* Whatever the wheel does, the Timers see a call of their user or of the loop.
LEMMA TimersSteps ==
  [TimedNext]_timedVars => [Timers!Next]_(Timers!vars)
<1> SUFFICES ASSUME [TimedNext]_timedVars
             PROVE  [Timers!Next]_(Timers!vars)
  OBVIOUS
<1>1. CASE WheelStep
  <2>1. CASE UNCHANGED timerVars
    BY <2>1 DEF timerVars, Timers!vars, Timers!closeVars
  <2>2. CASE Timers!Start(WheelTimer)
    BY <2>2, WheelTimerAssumption DEF Timers!Next, Timers!UserCall
  <2>3. CASE Timers!Process(WheelTimer)
    BY <2>3, WheelTimerAssumption DEF Timers!Next
  <2> QED
    BY <1>1, <2>1, <2>2, <2>3 DEF WheelStep, StartBoth, Turn
<1>2. CASE OtherTimers
  BY <1>2 DEF OtherTimers, Timers!Next
<1>3. CASE Loop
  BY <1>3 DEF Loop, Timers!Next
<1>4. CASE UNCHANGED timedVars
  BY <1>4 DEF timedVars, timerVars, Timers!vars, Timers!closeVars
<1> QED
  BY <1>1, <1>2, <1>3, <1>4 DEF TimedNext

-----------------------------------------------------------------------------
(* The Timers                                                               *)

\* How far close() is with a Timer can be read off its handle: libuv has it as
\* long as one answer is missing.
Counted(t) ==
  /\ timer[t] \in {"idle", "active"} => calls[t] = 0 /\ answers[t] = <<>>
  /\ timer[t] \in {"closing", "finishing"} =>
       calls[t] > 0 /\ Len(answers[t]) + 1 = calls[t]
  /\ timer[t] = "freed" => calls[t] > 0 /\ Len(answers[t]) = calls[t]

\* What libuv may still call is there, and was started.
Alive(t) ==
  /\ timer[t] \in {"active", "closing", "finishing"} => t \notin destroyed
  /\ timer[t] = "active" => timerStarted[t]

\* The callback a Timer keeps is that of the last close(), and once all have
\* been answered the last answer was its.
LastAnswers(t) ==
  /\ closeComplete[t] = calls[t]
  /\ timer[t] = "freed" => answers[t][calls[t]] = calls[t]

TimersInv ==
  /\ Timers!TypeOK
  /\ \A t \in Object : Counted(t) /\ Alive(t) /\ LastAnswers(t)

LEMMA InitTimers == Timers!Init => TimersInv
<1> SUFFICES ASSUME Timers!Init
             PROVE  TimersInv
  OBVIOUS
<1>1. 0 \in 0 .. MaxCloses
  BY MaxClosesAssumption
<1>2. Timers!TypeOK
  BY <1>1 DEF Timers!Init, Timers!TypeOK, Timers!HandleState
<1>3. \A t \in Object : Counted(t) /\ Alive(t) /\ LastAnswers(t)
  BY DEF Timers!Init, Counted, Alive, LastAnswers
<1> QED
  BY <1>2, <1>3 DEF TimersInv

\* An answer is the next of those the user counts.
LEMMA OneMoreAnswer ==
  ASSUME TimersInv, NEW t \in Object, NEW n \in 0 .. MaxCloses
  PROVE  /\ Append(answers[t], n) \in Seq(0 .. MaxCloses)
         /\ Len(Append(answers[t], n)) = Len(answers[t]) + 1
         /\ Append(answers[t], n)[Len(answers[t]) + 1] = n
<1>1. answers[t] \in Seq(0 .. MaxCloses)
  BY DEF TimersInv, Timers!TypeOK
<1> QED
  BY <1>1

LEMMA StartTimers ==
  ASSUME TimersInv, NEW t \in Object, Timers!Start(t)
  PROVE  TimersInv'
<1> USE DEF Timers!Start, Timers!closeVars, Timers!InUse, TimersInv
<1>1. Timers!TypeOK'
  BY DEF Timers!TypeOK, Timers!HandleState
<1>2. \A u \in Object : timer'[u] = timer[u] \/ (u = t /\ timer[u] = "idle" /\ timer'[u] = "active")
  BY DEF Timers!TypeOK
<1>3. \A u \in Object : timerStarted'[u] = (timerStarted[u] \/ u = t)
  BY DEF Timers!TypeOK
<1>4. \A u \in Object : Counted(u)'
  BY <1>2 DEF Counted
<1>5. \A u \in Object : Alive(u)'
  BY <1>2, <1>3 DEF Alive
<1>6. \A u \in Object : LastAnswers(u)'
  BY <1>2 DEF LastAnswers
<1> QED
  BY <1>1, <1>4, <1>5, <1>6

LEMMA CloseTimers ==
  ASSUME TimersInv, NEW t \in Object, Timers!Close(t)
  PROVE  TimersInv'
<1> USE DEF TimersInv
<1>1. /\ calls' = [calls EXCEPT ![t] = calls[t] + 1]
      /\ calls[t] \in 0 .. MaxCloses /\ calls'[t] = calls[t] + 1
      /\ calls'[t] \in 0 .. MaxCloses
  BY MaxClosesAssumption DEF Timers!Close, Timers!TypeOK
<1>2. closeComplete' = [closeComplete EXCEPT ![t] = calls[t] + 1]
  BY <1>1 DEF Timers!Close
<1>3. UNCHANGED <<phase, timerStarted, repeat, destroyed>>
  BY DEF Timers!Close
<1>4. timer' = [timer EXCEPT ![t] = IF timer[t] \in {"idle", "active"} THEN "closing" ELSE timer[t]]
  BY DEF Timers!Close, Timers!Stopped
<1>5. answers' = IF timer[t] \in {"closing", "finishing"}
                 THEN [answers EXCEPT ![t] = Append(answers[t], calls[t] + 1)]
                 ELSE answers
  BY <1>1, <1>2 DEF Timers!Close, Timers!CompletesAtOnce, Timers!TypeOK
<1>6. t \notin destroyed /\ timer[t] # "freed"
  BY DEF Timers!Close, Timers!InUse, Timers!Answered, Counted
<1>7. Timers!TypeOK'
  BY <1>1, <1>2, <1>3, <1>4, <1>5, OneMoreAnswer DEF Timers!TypeOK, Timers!HandleState
<1>8. \A u \in Object \ {t} : /\ timer'[u] = timer[u] /\ calls'[u] = calls[u]
                              /\ answers'[u] = answers[u]
                              /\ closeComplete'[u] = closeComplete[u]
  BY <1>1, <1>2, <1>4, <1>5 DEF Timers!TypeOK
<1>9. timer[t] \in {"idle", "active", "closing", "finishing"}
  BY <1>6 DEF Timers!TypeOK, Timers!HandleState
<1>10. Counted(t)' /\ Alive(t)' /\ LastAnswers(t)'
  <2>1. closeComplete'[t] = calls'[t]
    BY <1>1, <1>2 DEF Timers!TypeOK
  <2>2. CASE timer[t] \in {"idle", "active"}
    <3>1. timer'[t] = "closing" /\ answers'[t] = <<>> /\ calls[t] = 0
      BY <1>4, <1>5, <2>2 DEF Timers!TypeOK, Counted
    <3> QED
      BY <1>1, <1>3, <1>6, <2>1, <3>1 DEF Counted, Alive, LastAnswers
  <2>3. CASE timer[t] \in {"closing", "finishing"}
    <3>1. timer'[t] = timer[t] /\ answers'[t] = Append(answers[t], calls[t] + 1)
      BY <1>4, <1>5, <2>3 DEF Timers!TypeOK
    <3>2. Len(answers'[t]) = Len(answers[t]) + 1 /\ Len(answers[t]) \in Nat
      BY <1>1, <3>1, OneMoreAnswer DEF Timers!TypeOK
    <3> QED
      BY <1>1, <1>3, <1>6, <2>1, <2>3, <3>1, <3>2 DEF Counted, Alive, LastAnswers
  <2> QED
    BY <1>9, <2>2, <2>3
<1>11. \A u \in Object \ {t} : Counted(u)' /\ Alive(u)' /\ LastAnswers(u)'
  BY <1>3, <1>8 DEF Counted, Alive, LastAnswers
<1> QED
  BY <1>7, <1>10, <1>11

LEMMA DestroyTimers ==
  ASSUME TimersInv, NEW t \in Object, Timers!Destroy(t)
  PROVE  TimersInv'
<1> USE DEF TimersInv
<1>1. UNCHANGED <<phase, timerStarted, timer, repeat, closeComplete, calls, answers>>
  BY DEF Timers!Destroy, Timers!closeVars
<1>2. destroyed' = destroyed \union {t}
  BY DEF Timers!Destroy
<1>3. timer[t] \in {"idle", "freed"}
  <2>1. /\ Counted(t) /\ Alive(t)
        /\ timer[t] \in {"idle", "active", "closing", "finishing", "freed"}
        /\ calls[t] \in 0 .. MaxCloses
    BY DEF Timers!TypeOK, Timers!HandleState
  <2>2. Timers!Answered(t) \/ (~timerStarted[t] /\ calls[t] = 0)
    BY DEF Timers!Destroy
  <2>3. CASE Timers!Answered(t)
    BY <2>1, <2>3, MaxClosesAssumption DEF Timers!Answered, Counted
  <2>4. CASE ~timerStarted[t] /\ calls[t] = 0
    BY <2>1, <2>4 DEF Counted, Alive
  <2> QED
    BY <2>2, <2>3, <2>4
<1>4. Timers!TypeOK'
  BY <1>1, <1>2 DEF Timers!TypeOK
<1>5. \A u \in Object : Counted(u)' /\ LastAnswers(u)'
  BY <1>1 DEF Counted, LastAnswers
<1>6. \A u \in Object : Alive(u)'
  BY <1>1, <1>2, <1>3 DEF Alive
<1> QED
  BY <1>4, <1>5, <1>6

LEMMA ProcessTimers ==
  ASSUME TimersInv, NEW t \in Object, Timers!Process(t)
  PROVE  TimersInv'
<1> USE DEF TimersInv
<1>1. UNCHANGED <<phase, timerStarted, repeat, destroyed, closeComplete, calls, answers>>
  BY DEF Timers!Process, Timers!closeVars
<1>2. \A u \in Object : timer'[u] = timer[u] \/ (timer[u] = "active" /\ timer'[u] \in {"active", "idle"})
  BY DEF Timers!Process, Timers!Rearmed, Timers!TypeOK
<1>3. Timers!TypeOK'
  BY <1>1 DEF Timers!TypeOK, Timers!Process, Timers!Rearmed, Timers!HandleState
<1>4. \A u \in Object : Counted(u)' /\ LastAnswers(u)'
  BY <1>1, <1>2 DEF Counted, LastAnswers
<1>5. \A u \in Object : Alive(u)'
  BY <1>1, <1>2 DEF Alive
<1> QED
  BY <1>3, <1>4, <1>5

LEMMA CloseCompletedTimers ==
  ASSUME TimersInv, NEW t \in Object, Timers!CloseCompleted(t)
  PROVE  TimersInv'
<1> USE DEF TimersInv
<1>1. UNCHANGED <<phase, timerStarted, repeat, destroyed, closeComplete, calls>>
  BY DEF Timers!CloseCompleted
<1>2. /\ timer[t] = "finishing"
      /\ timer' = [timer EXCEPT ![t] = "freed"]
      /\ answers' = [answers EXCEPT ![t] = Append(answers[t], closeComplete[t])]
  BY DEF Timers!CloseCompleted
<1>3. closeComplete[t] = calls[t] /\ calls[t] \in 0 .. MaxCloses
  BY DEF LastAnswers, Timers!TypeOK
<1>4. Timers!TypeOK'
  BY <1>1, <1>2, <1>3, OneMoreAnswer DEF Timers!TypeOK, Timers!HandleState
<1>5. \A u \in Object \ {t} : timer'[u] = timer[u] /\ answers'[u] = answers[u]
  BY <1>2 DEF Timers!TypeOK
<1>6. timer'[t] = "freed" /\ answers'[t] = Append(answers[t], calls[t])
  BY <1>2, <1>3 DEF Timers!TypeOK
<1>7. calls[t] > 0 /\ Len(answers[t]) + 1 = calls[t]
  BY <1>2 DEF Counted
<1>8. Len(answers'[t]) = calls[t] /\ answers'[t][calls[t]] = calls[t]
  BY <1>3, <1>6, <1>7, OneMoreAnswer
<1>9. Counted(t)' /\ Alive(t)' /\ LastAnswers(t)'
  BY <1>1, <1>3, <1>6, <1>7, <1>8 DEF Counted, Alive, LastAnswers
<1>10. \A u \in Object \ {t} : Counted(u)' /\ Alive(u)' /\ LastAnswers(u)'
  BY <1>1, <1>5 DEF Counted, Alive, LastAnswers
<1> QED
  BY <1>4, <1>9, <1>10

\* Between two callbacks the loop only goes on to its next phase.
LEMMA PhaseTimers ==
  ASSUME TimersInv, Timers!TimersDone \/ Timers!PollDone \/ Timers!ClosingDone
  PROVE  TimersInv'
<1> USE DEF TimersInv
<1>1. UNCHANGED <<timerStarted, repeat, destroyed, closeComplete, calls, answers>>
  BY DEF Timers!TimersDone, Timers!PollDone, Timers!ClosingDone, Timers!closeVars
<1>2. \A u \in Object : timer'[u] = timer[u] \/ (timer[u] = "closing" /\ timer'[u] = "finishing")
  BY DEF Timers!TimersDone, Timers!PollDone, Timers!ClosingDone
<1>3. Timers!TypeOK'
  <2>1. timer' \in [Object -> Timers!HandleState]
    BY DEF Timers!TimersDone, Timers!PollDone, Timers!ClosingDone, Timers!TypeOK,
           Timers!HandleState
  <2>2. phase' \in {"timers", "poll", "closing"}
    BY DEF Timers!TimersDone, Timers!PollDone, Timers!ClosingDone
  <2> QED
    BY <1>1, <2>1, <2>2 DEF Timers!TypeOK
<1>4. \A u \in Object : Counted(u)' /\ LastAnswers(u)'
  BY <1>1, <1>2 DEF Counted, LastAnswers
<1>5. \A u \in Object : Alive(u)'
  BY <1>1, <1>2 DEF Alive
<1> QED
  BY <1>3, <1>4, <1>5

LEMMA NextTimers ==
  TimersInv /\ [Timers!Next]_(Timers!vars) => TimersInv'
<1> SUFFICES ASSUME TimersInv, [Timers!Next]_(Timers!vars)
             PROVE  TimersInv'
  OBVIOUS
<1>1. ASSUME NEW t \in Object, Timers!UserCall(t)
      PROVE  TimersInv'
  <2>1. ASSUME NEW on \in BOOLEAN, Timers!SetTimerRepeat(t, on)
        PROVE  TimersInv'
    <3>1. UNCHANGED <<phase, timerStarted, timer, destroyed, closeComplete, calls, answers>>
      BY <2>1 DEF Timers!SetTimerRepeat, Timers!closeVars
    <3>2. repeat' \in [Object -> BOOLEAN]
      BY <2>1 DEF Timers!SetTimerRepeat, TimersInv, Timers!TypeOK
    <3> QED
      BY <3>1, <3>2 DEF TimersInv, Timers!TypeOK, Counted, Alive, LastAnswers
  <2> QED
    BY <1>1, <2>1, StartTimers, CloseTimers, DestroyTimers DEF Timers!UserCall
<1>2. CASE Timers!LoopStep
  BY <1>2, PhaseTimers, CloseCompletedTimers DEF Timers!LoopStep
<1>3. CASE UNCHANGED Timers!vars
  BY <1>3 DEF Timers!vars, Timers!closeVars, TimersInv, Timers!TypeOK, Counted, Alive,
              LastAnswers
<1> QED
  BY <1>1, <1>2, <1>3, ProcessTimers DEF Timers!Next

-----------------------------------------------------------------------------
(* What a program with a wheel and other Timers may rely on                 *)

LEMMA TimedInvariant == TimedSpec => []TimersInv
<1>1. TimedInit => TimersInv
  BY InitTimers DEF TimedInit
<1>2. TimersInv /\ [TimedNext]_timedVars => TimersInv'
  BY NextTimers, TimersSteps
<1> QED
  BY <1>1, <1>2, PTL DEF TimedSpec

\* A user that counts the answers to close() never calls a Timer whose
\* uv_timer_t the close callback has deleted, nor deletes one that libuv will
\* still call, though the Timer itself looks after neither.
THEOREM UseIsSafeHolds == TimedSpec => []UseIsSafe
<1>1. TimersInv => UseIsSafe
  BY DEF TimersInv, Counted, Alive, UseIsSafe, Timers!UseIsSafe, Timers!InUse,
         Timers!Answered
<1> QED
  BY <1>1, TimedInvariant, PTL

\* After close() a Timer is not called again, not even if it is started again
\* or was due already.
THEOREM NoTickAfterCloseHolds == TimedSpec => NoTickAfterClose
<1>1. TimersInv => \A t \in Object : Timers!Process(t) => calls[t] = 0
  BY DEF TimersInv, Counted, Timers!Process
<1> QED
  BY <1>1, TimedInvariant, PTL DEF NoTickAfterClose, Timers!NoTickAfterClose

\* The wheel its Timer turns is a TimerWheel: what wheel_callback() finds is
\* what start(), set_timeout() and insert() have left.
THEOREM TimedWheelIsWheel == TimedSpec => Spec
<1>1. TimedInit => Init
  BY DEF TimedInit
<1> QED
  BY <1>1, WheelSteps, PTL DEF TimedSpec, Spec

\* insert() and the wheel_callback() of a due timer_ stay inside wheel_.
THEOREM TimedInBoundsHolds == TimedSpec => []InBounds
  BY TimedWheelIsWheel, InBoundsHolds

\* With timer_ turning the wheel, a value is let go when it has been idle for
\* the timeout, neither earlier nor later.
THEOREM TimedImplementsIdleTimeout ==
  ASSUME ~MayReconfigure
  PROVE  TimedSpec => ImplementsIdleTimeout
  BY TimedWheelIsWheel, ImplementsIdleTimeoutHolds
=============================================================================
