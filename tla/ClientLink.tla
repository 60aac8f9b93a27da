----------------------------- MODULE ClientLink -----------------------------
(***************************************************************************)
(* What TcpClient promises a user about each of its connect() calls, with  *)
(* no socket, handle or connection in sight: the connect succeeds or fails *)
(* and the user is told so once; of a link that came up he is told once    *)
(* that it is over, unless he has closed it, which silences it for good.   *)
(***************************************************************************)
CONSTANT Attempt   \* the connect() calls

VARIABLE link      \* how each of them stands

\* "refused": uv_tcp_connect() returned an error, which connect() looks away from.
Standing ==
  {"idle", "pending", "refused", "up", "failed", "over", "silent"}

Init == link = [a \in Attempt |-> "idle"]

Move(a, from, to) == link[a] = from /\ link' = [link EXCEPT ![a] = to]

Begin(a) == Move(a, "idle", "pending") \/ Move(a, "idle", "refused")
Succeed(a) == Move(a, "pending", "up")
Fail(a) == Move(a, "pending", "failed")
Lose(a) == Move(a, "up", "over")
Silence(a) == Move(a, "up", "silent")

Next ==
  \E a \in Attempt :
    Begin(a) \/ Succeed(a) \/ Fail(a) \/ Lose(a) \/ Silence(a)

Spec == Init /\ [][Next]_link
=============================================================================
