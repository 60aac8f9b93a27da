-------------------------------- MODULE Trie --------------------------------
(***************************************************************************)
(* Trie (base/trie.hpp), the structure of the domain rules: a node is the  *)
(* path that leads to it, and a rule may end in a wildcard.                *)
(***************************************************************************)
EXTENDS Naturals, Sequences, FiniteSetsExt

CONSTANTS
  Char,    \* the characters of keys
  Star,    \* '*'
  MaxLen   \* bound: the longest key

ASSUME StarAssumption == Star \in Char
ASSUME MaxLenAssumption == MaxLen \in Nat

Key == UNION {[1 .. n -> Char] : n \in 0 .. MaxLen}

VARIABLES
  nodes,   \* the paths of the nodes that exist; <<>> is the root
  leaf     \* the paths of the nodes with isLeaf

vars == <<nodes, leaf>>

\* new Trie()
Init == nodes = {<<>>} /\ leaf = {}

\* Mutant: the walk stops before the last character.
PathShort(key) == {SubSeq(key, 1, n) : n \in 0 .. Len(key) - 1}

\* The nodes on the way to a key.
Path(key) == {SubSeq(key, 1, n) : n \in 0 .. Len(key)}

-----------------------------------------------------------------------------
\* insert() is called on a root that exists.
Insert(key) ==
  /\ <<>> \in nodes
  /\ nodes' = nodes \union Path(key)
  /\ leaf' = leaf \union {key}

\* Mutant: deletion() looks at the children of the key's node only.
PrunedAlways(key) ==
  IF \E node \in nodes \ {key} : key \in Path(node) THEN {} ELSE Path(key)

\* Mutant: deletion() does not go back up.
PrunedKeyOnly(key) ==
  IF \E node \in nodes \ {key} : key \in Path(node) THEN {} ELSE {key}

\* Going back from the node of the key: what has neither other children nor a
\* key of its own is deleted, as far up as the root.
Pruned(key) ==
  {p \in Path(key) :
     \A node \in nodes :
       p \in Path(node) => node \in Path(key) /\ (node \in leaf => node = key)}

\* deletion() of a key that is there.
Delete(key) ==
  /\ key \in leaf
  /\ nodes' = nodes \ Pruned(key)
  /\ leaf' = leaf \ (Pruned(key) \union {key})

\* The last deletion has deleted the root as well; the user makes a new one.
Renew ==
  /\ nodes = {}
  /\ nodes' = {<<>>}
  /\ UNCHANGED leaf

Next == (\E key \in Key : Insert(key) \/ Delete(key)) \/ Renew

Spec == Init /\ [][Next]_vars

-----------------------------------------------------------------------------
\* Where search() ends: the last node on the way to the key.
Stop(key) == SubSeq(key, 1, Max({n \in 0 .. Len(key) : SubSeq(key, 1, n) \in nodes}))

\* A key that leads off the trie is looked up as the wildcard below that node.
Search(key) ==
  /\ <<>> \in nodes
  /\ IF Stop(key) = key
     THEN key \in leaf
     ELSE Append(Stop(key), Star) \in nodes

-----------------------------------------------------------------------------
(* Properties                                                               *)

\* Every node is a path of characters, and every key has its node.
TypeOK == nodes \subseteq Key /\ leaf \subseteq nodes

\* deletion() leaves neither a node without a key below it nor a key without
\* its path, whatever keys share the path and in whatever order they go.
NoStrayNodes ==
  nodes \ {<<>>} = (UNION {Path(key) : key \in leaf}) \ {<<>>}

\* search() answers from the keys alone, not from what was deleted before: a key
\* is found if it is there, or if a rule has a wildcard exactly where the key
\* parts from all the others.
SearchByKeys ==
  \A key \in Key :
    Search(key) <=>
      \/ key \in leaf
      \/ \E n \in 0 .. Len(key) - 1 :
           /\ \E rule \in leaf : Append(SubSeq(key, 1, n), Star) \in Path(rule)
           /\ \A rule \in leaf : SubSeq(key, 1, n + 1) \notin Path(rule)

\* The trie implements a set of keys: no insert() or deletion() touches another
\* key.
Keys == INSTANCE KeySet WITH keys <- leaf

ImplementsKeySet == Keys!Spec
=============================================================================
