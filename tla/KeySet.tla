------------------------------- MODULE KeySet -------------------------------
(***************************************************************************)
(* What a Trie promises: a set of keys, with insertion and deletion.       *)
(***************************************************************************)
CONSTANT Key

VARIABLE keys

Init == keys = {}

Insert(key) == keys' = keys \union {key}

Delete(key) == keys' = keys \ {key}

Next == \E key \in Key : Insert(key) \/ Delete(key)

Spec == Init /\ [][Next]_keys
=============================================================================
