-------------------------- MODULE TimerWheelProofs --------------------------
(***************************************************************************)
(* Theorems about TimerWheel, for any set of values and any timeout.       *)
(***************************************************************************)
EXTENDS TimerWheel, TLAPS, NaturalsInduction, WellFoundedInduction

\* wheel_ has one slot per second of the timeout it was started with, and with a
\* timeout that is settled at start() the ring and the timeout agree.
Ring ==
  /\ timeoutSec \in 0 .. MaxTimeout
  /\ started \in BOOLEAN
  /\ IF started
     THEN /\ wheel \in [0 .. timeoutSec - 1 -> SUBSET Value]
          /\ index \in Nat
          /\ timeoutSec = 0 => index = 0
          /\ timeoutSec > 0 => index < timeoutSec
     ELSE /\ wheel = NoSlots
          /\ index = 0

\* The vector of no slots is the function on an empty interval.
LEMMA NoSlotsType == NoSlots \in [0 .. 0 - 1 -> SUBSET Value]
BY DEF NoSlots

\* Before start() there are no slots.
LEMMA InitRing == Init => Ring
<1> SUFFICES ASSUME Init PROVE Ring
  OBVIOUS
<1>1. started \in BOOLEAN /\ ~started
  BY DEF Init
<1>2. timeoutSec \in 0 .. MaxTimeout
  BY MaxTimeoutAssumption DEF Init
<1>3. wheel = NoSlots /\ index = 0
  BY DEF Init
<1> QED
  BY <1>1, <1>2, <1>3 DEF Ring

\* insert() leaves the ring as it is.
LEMMA NextRingInsert ==
  ASSUME Ring, NEW value \in Value, Insert(value)
  PROVE  Ring'
<1>1. wheel' \in [0 .. timeoutSec - 1 -> SUBSET Value]
  BY DEF Ring, Insert
<1> QED
  BY <1>1 DEF Ring, Insert

\* Configured before start(), the ring keeps its shape in every step.
LEMMA NextRing ==
  ASSUME ~MayReconfigure
  PROVE  Ring /\ [Next]_vars => Ring'
<1> SUFFICES ASSUME Ring, [Next]_vars PROVE Ring'
  OBVIOUS
<1> USE MaxTimeoutAssumption DEF Ring, Slots, NextIndex
<1>1. ASSUME NEW seconds \in 0 .. MaxTimeout, SetTimeout(seconds)
      PROVE  Ring'
  BY <1>1 DEF SetTimeout
<1>2. CASE Start
  <2>1. CASE timeoutSec = 0
    <3>1. wheel \in [0 .. timeoutSec - 1 -> SUBSET Value]
      BY <2>1, NoSlotsType
    <3> QED
      BY <1>2, <2>1, <3>1 DEF Start
  <2>2. CASE timeoutSec # 0
    <3>1. \A i \in DOMAIN wheel : wheel[i] \subseteq Value
      BY DEF NoSlots
    <3>2. wheel' \in [0 .. timeoutSec - 1 -> SUBSET Value]
      BY <1>2, <2>2, <3>1 DEF Start
    <3>3. index \in Nat /\ index < timeoutSec
      BY <2>2
    <3> QED
      BY <1>2, <2>2, <3>2, <3>3 DEF Start
  <2> QED
    BY <2>1, <2>2
<1>3. ASSUME NEW value \in Value, Insert(value)
      PROVE  Ring'
  BY <1>3, NextRingInsert
<1>4. CASE WheelCallback
  <2>1. started
    BY <1>4 DEF WheelCallback, NoSlots
  <2>2. wheel' \in [0 .. timeoutSec - 1 -> SUBSET Value]
    BY <1>4, <2>1 DEF WheelCallback
  <2>3. index' \in Nat /\ index' < timeoutSec
    BY <1>4, <2>1 DEF WheelCallback
  <2> QED
    BY <1>4, <2>1, <2>2, <2>3 DEF WheelCallback
<1>5. CASE UNCHANGED vars
  BY <1>5 DEF vars
<1> QED
  BY <1>1, <1>2, <1>3, <1>4, <1>5 DEF Next

\* The ring has the types of TypeOK.
LEMMA RingTypes == Ring => TypeOK
<1> SUFFICES ASSUME Ring PROVE TypeOK
  OBVIOUS
<1>1. \E size \in 0 .. MaxTimeout : wheel \in [0 .. size - 1 -> SUBSET Value]
  <2>1. CASE started
    BY <2>1 DEF Ring
  <2>2. CASE ~started
    <3>1. wheel \in [0 .. 0 - 1 -> SUBSET Value] /\ 0 \in 0 .. MaxTimeout
      BY <2>2, NoSlotsType, MaxTimeoutAssumption DEF Ring
    <3> QED
      BY <3>1
  <2> QED
    BY <2>1, <2>2 DEF Ring
<1>2. index \in 0 .. MaxTimeout
  BY MaxTimeoutAssumption DEF Ring
<1> QED
  BY <1>1, <1>2 DEF Ring, TypeOK

\* With the timeout set before start(), every variable keeps its type.
THEOREM TypeCorrect ==
  ASSUME ~MayReconfigure
  PROVE  Spec => []TypeOK
<1>1. Ring /\ [Next]_vars => Ring'
  BY NextRing
<1> QED
  BY <1>1, InitRing, RingTypes, PTL DEF Spec

\* insert() and wheel_callback() stay inside wheel_ when set_timeout() comes
\* before start().
THEOREM InBoundsHolds == Spec => []InBounds
<1>1. CASE MayReconfigure
  <2>1. InBounds
    BY <1>1 DEF InBounds
  <2> QED
    BY <2>1, PTL
<1>2. CASE ~MayReconfigure
  <2>1. Ring => InBounds
    BY DEF Ring, InBounds
  <2>2. Ring /\ [Next]_vars => Ring'
    BY <1>2, NextRing
  <2> QED
    BY <2>1, <2>2, InitRing, PTL DEF Spec
<1> QED
  BY <1>1, <1>2, MayReconfigureAssumption

-----------------------------------------------------------------------------
(* Ages                                                                     *)

\* Whatever naturals there are, one is the least.
LEMMA LeastNatural ==
  ASSUME NEW S \in SUBSET Nat, S # {}
  PROVE  \E k \in S : \A j \in S : k <= j
<1>1. PICK k \in S : \A j \in S : ~ (<<j, k>> \in OpToRel(<, Nat))
  BY NatLessThanWellFounded, WFMin
<1>2. ASSUME NEW j \in S PROVE ~ (j < k)
  BY <1>1, <1>2, Zenon DEF OpToRel
<1> QED BY <1>2

LEMMA MinIs ==
  ASSUME NEW S \in SUBSET Nat, NEW k \in S, \A j \in S : k <= j
  PROVE  Min(S) = k
<1>1. \A m \in S : (\A j \in S : m <= j) => m = k
  OBVIOUS
<1> QED BY <1>1, Zenon DEF Min

\* With a timeout on, the wheel turns on a ring of slots.
Turning == Ring /\ started /\ timeoutSec > 0

\* The distance on a ring without the remainder.
LEMMA RingDistance ==
  ASSUME NEW size \in Nat, NEW p \in 0 .. size - 1, NEW i \in 0 .. size - 1
  PROVE  (p + size - i) % size = IF i <= p THEN p - i ELSE p + size - i
<1>1. \A x \in Nat : x < size => x % size = x
  OBVIOUS
<1>2. \A x \in Nat : size <= x /\ x < 2 * size => x % size = x - size
  OBVIOUS
<1> QED BY <1>1, <1>2

LEMMA SlotAgeIs ==
  ASSUME Turning, NEW i \in DOMAIN wheel
  PROVE  SlotAge(i) = IF i <= index THEN index - i ELSE index + timeoutSec - i
<1>1. i \in 0 .. timeoutSec - 1 /\ index \in 0 .. timeoutSec - 1 /\ timeoutSec \in Nat
  BY MaxTimeoutAssumption DEF Turning, Ring
<1> QED BY <1>1, RingDistance DEF SlotAge

LEMMA SlotAgeType ==
  ASSUME Turning, NEW i \in DOMAIN wheel
  PROVE  SlotAge(i) \in 0 .. timeoutSec - 1
  BY SlotAgeIs, MaxTimeoutAssumption DEF Turning, Ring

\* A tick ages every slot by one, but the one that becomes the current slot, which
\* was the oldest.
LEMMA SlotAgeTick ==
  ASSUME Turning, WheelCallback, NEW i \in DOMAIN wheel
  PROVE  /\ index' \in DOMAIN wheel
         /\ SlotAge(i) = timeoutSec - 1 <=> i = index'
         /\ i # index' => SlotAge(i)' = SlotAge(i) + 1
<1>1. /\ i \in 0 .. timeoutSec - 1 /\ index \in 0 .. timeoutSec - 1
      /\ index' \in 0 .. timeoutSec - 1 /\ timeoutSec \in Nat
  BY MaxTimeoutAssumption DEF WheelCallback, NextIndex, Turning, Ring
<1>2. SlotAge(i)' = IF i <= index' THEN index' - i ELSE index' + timeoutSec - i
  BY <1>1, RingDistance DEF SlotAge, WheelCallback
<1>3. timeoutSec' = timeoutSec /\ index' = NextIndex
  BY DEF WheelCallback
<1> QED BY <1>1, <1>2, <1>3, SlotAgeIs DEF Turning, Ring, NextIndex

\* The slots that hold a value, and the youngest of them.
Youngest(v, i) ==
  /\ i \in DOMAIN wheel /\ v \in wheel[i]
  /\ \A j \in DOMAIN wheel : v \in wheel[j] => SlotAge(i) <= SlotAge(j)

LEMMA AgeIs ==
  ASSUME Turning, NEW v, NEW i, Youngest(v, i)
  PROVE  Age(v) = SlotAge(i)
<1> DEFINE S == {SlotAge(j) : j \in {s \in DOMAIN wheel : v \in wheel[s]}}
<1>1. S \in SUBSET Nat
  BY SlotAgeType
<1>2. SlotAge(i) \in S /\ \A a \in S : SlotAge(i) <= a
  BY DEF Youngest
<1>3. Min(S) = SlotAge(i)
  <2> HIDE DEF S
  <2> QED BY <1>1, <1>2, MinIs
<1> QED BY <1>3 DEF Age

LEMMA YoungestExists ==
  ASSUME Turning, NEW v \in Kept
  PROVE  \E i : Youngest(v, i)
<1> DEFINE S == {SlotAge(j) : j \in {s \in DOMAIN wheel : v \in wheel[s]}}
<1>1. S \in SUBSET Nat
  BY SlotAgeType
<1>2. S # {}
  BY DEF Kept
<1>3. PICK a \in S : \A b \in S : a <= b
  <2> HIDE DEF S
  <2> QED BY <1>1, <1>2, LeastNatural
<1>4. PICK i \in DOMAIN wheel : v \in wheel[i] /\ a = SlotAge(i)
  BY <1>3
<1> QED BY <1>3, <1>4 DEF Youngest

LEMMA AgeType ==
  ASSUME Turning, NEW v \in Kept
  PROVE  Age(v) \in 0 .. timeoutSec - 1
<1>1. PICK i : Youngest(v, i)
  BY YoungestExists
<1> QED BY <1>1, AgeIs, SlotAgeType DEF Youngest

\* insert() makes a value as young as can be and leaves the others alone.
LEMMA InsertAges ==
  ASSUME Turning, NEW value \in Value, Insert(value)
  PROVE  /\ Kept' = Kept \union {value}
         /\ Age(value)' = 0
         /\ \A v \in Value \ {value} : Age(v)' = Age(v)
<1>1. Turning'
  BY NextRingInsert DEF Turning, Insert
<1>2. /\ DOMAIN wheel' = DOMAIN wheel /\ index \in DOMAIN wheel
      /\ UNCHANGED <<index, timeoutSec>>
      /\ \A i \in DOMAIN wheel :
           wheel'[i] = IF i = index THEN wheel[i] \union {value} ELSE wheel[i]
  BY DEF Insert, Turning, Ring
<1>3. Kept' = Kept \union {value}
  BY <1>2 DEF Kept
<1>4. \A i \in DOMAIN wheel : SlotAge(i)' = SlotAge(i)
  BY <1>2 DEF SlotAge
<1>5. Age(value)' = 0
  <2>1. SlotAge(index) = 0
    BY <1>2, SlotAgeIs DEF Turning, Ring
  <2>2. \A i \in DOMAIN wheel : SlotAge(i) >= 0
    BY SlotAgeType
  <2> DEFINE S == {SlotAge(j) : j \in {s \in DOMAIN wheel : value \in wheel'[s]}}
  <2>3. Age(value)' = Min(S)
    BY <1>2, <1>4, Zenon DEF Age
  <2>4. S \in SUBSET Nat
    BY SlotAgeType
  <2>5. 0 \in S /\ \A a \in S : 0 <= a
    BY <2>1, <2>2, <1>2
  <2> HIDE DEF S
  <2> QED BY <2>3, <2>4, <2>5, MinIs
<1>6. ASSUME NEW v \in Value \ {value} PROVE Age(v)' = Age(v)
  <2>1. {s \in DOMAIN wheel' : v \in wheel'[s]} = {s \in DOMAIN wheel : v \in wheel[s]}
    BY <1>2
  <2>2. {SlotAge(j)' : j \in {s \in DOMAIN wheel' : v \in wheel'[s]}} =
        {SlotAge(j) : j \in {s \in DOMAIN wheel : v \in wheel[s]}}
    BY <2>1, <1>4
  <2> QED BY <2>2, Zenon DEF Age
<1> QED BY <1>3, <1>5, <1>6

\* A tick ages what is kept by one, and lets go of what is as old as can be.
LEMMA TickAges ==
  ASSUME Turning, WheelCallback
  PROVE  /\ Kept' = {v \in Kept : Age(v) + 1 # timeoutSec}
         /\ \A v \in Kept' : Age(v)' = Age(v) + 1
<1>1. /\ DOMAIN wheel' = DOMAIN wheel /\ index' \in DOMAIN wheel
      /\ \A i \in DOMAIN wheel : wheel'[i] = IF i = index' THEN {} ELSE wheel[i]
  BY SlotAgeTick DEF WheelCallback
<1>2. ASSUME NEW v \in Kept, NEW i, Youngest(v, i)
      PROVE  /\ v \in Kept' <=> Age(v) + 1 # timeoutSec
             /\ v \in Kept' => Age(v)' = Age(v) + 1
  <2>1. Age(v) = SlotAge(i) /\ i \in DOMAIN wheel
    BY <1>2, AgeIs DEF Youngest
  <2>2. CASE i = index'
    <3>1. \A j \in DOMAIN wheel : v \in wheel[j] => SlotAge(j) >= timeoutSec - 1
      BY <1>2, <2>2, SlotAgeTick DEF Youngest
    <3>2. \A j \in DOMAIN wheel : v \in wheel[j] => j = index'
      BY <3>1, SlotAgeType, SlotAgeTick, MaxTimeoutAssumption DEF Turning, Ring
    <3>3. v \notin Kept'
      BY <1>1, <3>2 DEF Kept
    <3> QED BY <3>3, <2>1, <2>2, SlotAgeTick, MaxTimeoutAssumption DEF Turning, Ring
  <2>3. CASE i # index'
    <3>1. v \in wheel'[i]
      BY <1>1, <1>2, <2>3 DEF Youngest
    <3>2. v \in Kept'
      BY <1>1, <2>1, <3>1 DEF Kept
    <3>3. Age(v) + 1 # timeoutSec
      BY <2>1, <2>3, SlotAgeTick, SlotAgeType, MaxTimeoutAssumption DEF Turning, Ring
    <3> DEFINE S == {SlotAge(j)' : j \in {s \in DOMAIN wheel' : v \in wheel'[s]}}
    <3>4. \A j \in DOMAIN wheel' : v \in wheel'[j] =>
            j \in DOMAIN wheel /\ v \in wheel[j] /\ SlotAge(j)' = SlotAge(j) + 1
      BY <1>1, SlotAgeTick
    <3>5. S \in SUBSET Nat
      BY <3>4, SlotAgeType
    <3>6. SlotAge(i) + 1 \in S
      BY <3>1, <3>4, <1>1, <2>1
    <3>7. \A a \in S : SlotAge(i) + 1 <= a
      BY <3>4, <1>2, SlotAgeType DEF Youngest
    <3>8. Age(v)' = Min(S)
      BY Zenon DEF Age
    <3>9. Min(S) = SlotAge(i) + 1
      <4> HIDE DEF S
      <4> QED BY <3>5, <3>6, <3>7, MinIs
    <3> QED BY <3>2, <3>3, <3>8, <3>9, <2>1
  <2> QED BY <2>2, <2>3
<1>3. Kept' \subseteq Kept
  BY <1>1 DEF Kept
<1> QED BY <1>2, <1>3, YoungestExists

-----------------------------------------------------------------------------
(* The refinement                                                           *)

\* What Idle takes for age.
AgeOf == [v \in Value |-> IF v \in Kept THEN Age(v) ELSE 0]

LEMMA KeptType ==
  ASSUME Ring
  PROVE  Kept \subseteq Value /\ (~started \/ timeoutSec = 0 => Kept = {})
<1>1. ASSUME NEW v \in Kept PROVE v \in Value /\ started /\ timeoutSec # 0
  <2>1. PICK i \in DOMAIN wheel : v \in wheel[i]
    BY DEF Kept
  <2> QED BY <2>1 DEF Ring, NoSlots
<1> QED BY <1>1

\* Each step of the wheel is a step of an exact idle timeout, or none.
LEMMA StepImplements ==
  ASSUME ~MayReconfigure, Ring, [Next]_vars
  PROVE  [Idle!Next]_(Idle!vars)
<1>1. ASSUME NEW seconds \in 0 .. MaxTimeout, SetTimeout(seconds)
      PROVE  Idle!SetTimeout(seconds)
  <2>1. Kept = {} /\ Kept' = {}
    BY <1>1, KeptType DEF SetTimeout, Kept
  <2> QED BY <1>1, <2>1 DEF SetTimeout, Idle!SetTimeout
<1>2. CASE Start
  <2>1. CASE started
    <3>1. wheel' = wheel
      BY <1>2, <2>1 DEF Start, Ring, Slots
    <3>2. UNCHANGED <<timeoutSec, started, index, wheel>>
      BY <1>2, <2>1, <3>1 DEF Start
    <3> QED BY <3>2 DEF Idle!vars, Kept, Age, SlotAge
  <2>2. CASE ~started
    <3>1. \A i \in DOMAIN wheel' : wheel'[i] = {}
      BY <1>2, <2>2 DEF Start, Ring, NoSlots
    <3>2. Kept = {} /\ Kept' = {}
      BY <2>2, <3>1, KeptType DEF Kept
    <3> QED BY <1>2, <3>2 DEF Start, Idle!Start, Idle!Next
  <2> QED BY <2>1, <2>2
<1>3. ASSUME NEW value \in Value, Insert(value)
      PROVE  Idle!Touch(value)
  <2>1. Turning
    BY <1>3, MaxTimeoutAssumption DEF Turning, Ring, Insert
  <2>2. AgeOf' = [AgeOf EXCEPT ![value] = 0]
    BY <1>3, <2>1, InsertAges DEF AgeOf
  <2> QED BY <1>3, <2>1, <2>2, InsertAges DEF Insert, Idle!Touch, AgeOf
<1>4. CASE WheelCallback
  <2>1. Turning
    BY <1>4, MaxTimeoutAssumption DEF Turning, Ring, WheelCallback, NoSlots
  <2>2. Kept \subseteq Value
    BY KeptType DEF Turning
  <2>3. \A v \in Kept : AgeOf[v] = Age(v)
    BY <2>2 DEF AgeOf
  <2>4. Kept' = Kept \ {v \in Kept : AgeOf[v] + 1 = timeoutSec}
    BY <1>4, <2>1, <2>3, TickAges
  <2>5. AgeOf' = [v \in Value |-> IF v \in Kept' THEN AgeOf[v] + 1 ELSE 0]
    BY <1>4, <2>1, <2>3, <2>4, TickAges DEF AgeOf
  <2>6. started /\ timeoutSec > 0 /\ UNCHANGED <<timeoutSec, started>>
    BY <1>4, <2>1 DEF Turning, WheelCallback
  <2>7. Idle!Tick
    BY <2>4, <2>5, <2>6 DEF Idle!Tick, Idle!Expiring, AgeOf
  <2> QED BY <2>7 DEF Idle!Next
<1>5. CASE UNCHANGED vars
  BY <1>5 DEF vars, Idle!vars, Kept, Age, SlotAge
<1> QED BY <1>1, <1>2, <1>3, <1>4, <1>5 DEF Next, Idle!Next

\* With the timeout set before start(), a wheel of slots is an exact idle timeout
\* (insert(), wheel_callback()): whatever the position of index_ and however many
\* slots still hold a value, it goes at the timeout-th tick after its last insert().
THEOREM ImplementsIdleTimeoutHolds ==
  ASSUME ~MayReconfigure
  PROVE  Spec => ImplementsIdleTimeout
<1>1. Init => Idle!Init
  BY DEF Init, Idle!Init, Kept, NoSlots
<1>2. Ring /\ [Next]_vars => Ring'
  BY NextRing
<1>3. Ring /\ [Next]_vars => [Idle!Next]_(Idle!vars)
  BY StepImplements
<1> QED BY <1>1, <1>2, <1>3, InitRing, PTL DEF Spec, ImplementsIdleTimeout, Idle!Spec
=============================================================================
