---------------------------- MODULE IdleTimeout ----------------------------
(***************************************************************************)
(* What TimerWheel promises: a value is let go at the timeout-th tick after*)
(* it was last touched, not a tick earlier and not a tick later.  There is *)
(* one age per value here, and no wheel.                                   *)
(***************************************************************************)
EXTENDS Naturals

CONSTANTS
  Value,       \* what is watched for idleness
  MaxTimeout   \* bound: the longest timeout

VARIABLES
  timeout,     \* idle ticks a value survives, 0: nothing is watched
  started,     \* ticking has begun and the timeout is settled
  watched,     \* the values that are being watched
  age          \* age[v]: ticks since v was last touched, 0 if not watched

vars == <<timeout, started, watched, age>>

Init ==
  /\ timeout = 0
  /\ started = FALSE
  /\ watched = {}
  /\ age = [v \in Value |-> 0]

SetTimeout(n) ==
  /\ ~started
  /\ timeout' = n
  /\ UNCHANGED <<started, watched, age>>

Start ==
  /\ started' = TRUE
  /\ UNCHANGED <<timeout, watched, age>>

Touch(v) ==
  /\ started
  /\ timeout > 0
  /\ watched' = watched \union {v}
  /\ age' = [age EXCEPT ![v] = 0]
  /\ UNCHANGED <<timeout, started>>

\* The values whose time is up at the next tick.
Expiring == {v \in watched : age[v] + 1 = timeout}

Tick ==
  /\ started
  /\ timeout > 0
  /\ watched' = watched \ Expiring
  /\ age' = [v \in Value |-> IF v \in watched' THEN age[v] + 1 ELSE 0]
  /\ UNCHANGED <<timeout, started>>

Next ==
  \/ \E n \in 0 .. MaxTimeout : SetTimeout(n)
  \/ Start
  \/ \E v \in Value : Touch(v)
  \/ Tick

Spec == Init /\ [][Next]_vars
=============================================================================
