----------------------------- MODULE TimerWheel -----------------------------
(***************************************************************************)
(* TimerWheel<T> (ae/timer_wheel.h): a ring of sets of shared pointers that*)
(* a one-second Timer turns.  A value lives as long as some slot holds it; *)
(* clearing a slot drops its references, and the last one to go runs the   *)
(* value's destructor.                                                     *)
(***************************************************************************)
EXTENDS Naturals, FiniteSets, FiniteSetsExt

CONSTANTS
  Value,            \* the objects shared pointers are inserted of
  MaxTimeout,       \* bound: the longest timeout set, in seconds
  MayReconfigure    \* may set_timeout() be called after start()?

ASSUME MaxTimeoutAssumption == MaxTimeout \in Nat
ASSUME MayReconfigureAssumption == MayReconfigure \in BOOLEAN

VARIABLES
  index,        \* index_
  timeoutSec,   \* timeoutSec_
  wheel,        \* wheel_, a vector of sets, indexed from 0
  started       \* start() has been called

vars == <<index, timeoutSec, wheel, started>>

NoSlots == [i \in {} |-> {}]

Init ==
  /\ index = 0
  /\ timeoutSec = 0
  /\ wheel = NoSlots
  /\ started = FALSE

SetTimeout(seconds) ==
  /\ MayReconfigure \/ ~started
  /\ timeoutSec' = seconds
  /\ UNCHANGED <<index, wheel, started>>

\* Mutant: a slot too many.
SlotsOneMore == 0 .. timeoutSec

\* The slots wheel_ is resized to.
Slots == 0 .. timeoutSec - 1

\* wheel_.resize() keeps the slots there are; with no timeout there is neither
\* a wheel nor a timer.
Start ==
  /\ started' = TRUE
  /\ wheel' = IF timeoutSec = 0
              THEN wheel
              ELSE [i \in Slots |->
                      IF i \in DOMAIN wheel THEN wheel[i] ELSE {}]
  /\ UNCHANGED <<index, timeoutSec>>

\* An index outside the vector touches memory that is not the wheel's.
Insert(value) ==
  /\ started
  /\ timeoutSec > 0
  /\ wheel' = [i \in DOMAIN wheel |->
                 IF i = index THEN wheel[i] \union {value} ELSE wheel[i]]
  /\ UNCHANGED <<index, timeoutSec, started>>

\* Mutant: index_++ == timeoutSec_.
NextIndexLate == IF index = timeoutSec THEN 0 ELSE index + 1

\* Mutant: the ring is taken to be a slot shorter.
NextIndexEarly == IF index + 2 >= timeoutSec THEN 0 ELSE index + 1

\* ++index_, and back to 0 at the end of the ring.
NextIndex == IF index + 1 = timeoutSec THEN 0 ELSE index + 1

\* wheel_callback(), once a second from the first start() with a timeout on.
WheelCallback ==
  /\ DOMAIN wheel # {}
  /\ timeoutSec > 0
  /\ index' = NextIndex
  /\ wheel' = [i \in DOMAIN wheel |-> IF i = index' THEN {} ELSE wheel[i]]
  /\ UNCHANGED <<timeoutSec, started>>

Next ==
  \/ \E seconds \in 0 .. MaxTimeout : SetTimeout(seconds)
  \/ Start
  \/ \E value \in Value : Insert(value)
  \/ WheelCallback

Spec == Init /\ [][Next]_vars

-----------------------------------------------------------------------------
(* Properties                                                               *)

\* The values some slot keeps alive.
Kept == UNION {wheel[i] : i \in DOMAIN wheel}

\* Every variable has its type; the slots of wheel_ are numbered from 0.
TypeOK ==
  /\ timeoutSec \in 0 .. MaxTimeout
  /\ index \in 0 .. MaxTimeout
  /\ started \in BOOLEAN
  /\ \E size \in 0 .. MaxTimeout : wheel \in [0 .. size - 1 -> SUBSET Value]

\* insert() and wheel_callback() index the vector without a check: as long as
\* the timeout is set before start(), index_ stays inside the resized wheel_.
InBounds ==
  ~MayReconfigure /\ started /\ timeoutSec > 0 => index \in DOMAIN wheel

\* Ticks since the slot was the current one.
SlotAge(i) == (index + timeoutSec - i) % timeoutSec

Age(v) == Min({SlotAge(i) : i \in {s \in DOMAIN wheel : v \in wheel[s]}})

\* The wheel implements an exact idle timeout: a value re-inserted at any slot,
\* any number of times, is dropped at the timeout-th tick after its last
\* insert(), whatever the position of index_ and the older copies of it.
Idle == INSTANCE IdleTimeout WITH
  timeout <- timeoutSec,
  watched <- Kept,
  age <- [v \in Value |-> IF v \in Kept THEN Age(v) ELSE 0]

ImplementsIdleTimeout == Idle!Spec
=============================================================================
