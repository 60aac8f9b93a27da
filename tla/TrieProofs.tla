----------------------------- MODULE TrieProofs -----------------------------
(***************************************************************************)
(* Theorems about Trie, for any alphabet and any length of keys.           *)
(***************************************************************************)
EXTENDS Trie, TLAPS, NaturalsInduction, WellFoundedInduction

\* The nodes form a tree, every one but the root has a key at or below it, and
\* every key has its node.
IInv ==
  /\ nodes \subseteq Key
  /\ leaf \subseteq nodes
  /\ \A node \in nodes : Path(node) \subseteq nodes
  /\ \A node \in nodes \ {<<>>} : \E key \in leaf : node \in Path(key)

-----------------------------------------------------------------------------
(* Paths                                                                    *)

\* A key is a sequence of at most MaxLen characters.
LEMMA KeyIsSeq ==
  ASSUME NEW key \in Key
  PROVE  key \in Seq(Char) /\ Len(key) \in 0 .. MaxLen
<1>1. PICK n \in 0 .. MaxLen : key \in [1 .. n -> Char]
  BY DEF Key
<1>2. key \in Seq(Char) /\ Len(key) = n
  BY <1>1, MaxLenAssumption
<1> QED
  BY <1>2

\* The prefixes of a key are keys.
LEMMA PrefixIsKey ==
  ASSUME NEW key \in Key, NEW n \in 0 .. Len(key)
  PROVE  /\ SubSeq(key, 1, n) \in Key
         /\ Len(SubSeq(key, 1, n)) = n
<1>1. key \in Seq(Char) /\ Len(key) \in 0 .. MaxLen
  BY KeyIsSeq
<1>2. SubSeq(key, 1, n) = [i \in 1 .. n |-> key[i]]
  BY <1>1
<1>3. SubSeq(key, 1, n) \in [1 .. n -> Char]
  <2>1. \A i \in 1 .. n : key[i] \in Char
    BY <1>1
  <2> QED
    BY <1>2, <2>1
<1>4. n \in 0 .. MaxLen
  BY <1>1, MaxLenAssumption
<1> QED
  BY <1>1, <1>2, <1>3, <1>4 DEF Key

\* So the path of a key consists of keys.
LEMMA PathInKey ==
  ASSUME NEW key \in Key
  PROVE  Path(key) \subseteq Key
BY PrefixIsKey DEF Path

\* A path has both of its ends.
LEMMA PathEnds ==
  ASSUME NEW key \in Key
  PROVE  key \in Path(key) /\ <<>> \in Path(key)
<1>1. key \in Seq(Char) /\ Len(key) \in 0 .. MaxLen
  BY KeyIsSeq
<1>2. SubSeq(key, 1, Len(key)) = key
  BY <1>1
<1>3. SubSeq(key, 1, 0) = <<>>
  BY <1>1
<1>4. Len(key) \in 0 .. Len(key) /\ 0 \in 0 .. Len(key)
  BY <1>1, MaxLenAssumption
<1> QED
  BY <1>2, <1>3, <1>4 DEF Path

\* The root has nothing above it.
LEMMA RootPath == <<>> \in Key /\ Path(<<>>) = {<<>>}
<1>1. <<>> \in Key
  BY MaxLenAssumption DEF Key
<1>2. SubSeq(<<>>, 1, 0) = <<>>
  OBVIOUS
<1>3. 0 .. Len(<<>>) = {0}
  OBVIOUS
<1>4. Path(<<>>) = {SubSeq(<<>>, 1, n) : n \in {0}}
  BY <1>3, Zenon DEF Path
<1>5. Path(<<>>) = {<<>>}
  BY <1>2, <1>4, Zenon
<1> QED
  BY <1>1, <1>5

\* A prefix of a prefix is a prefix.
LEMMA PathTransitive ==
  ASSUME NEW r \in Key, NEW q \in Path(r), NEW p \in Path(q)
  PROVE  p \in Path(r)
<1>1. PICK m \in 0 .. Len(r) : q = SubSeq(r, 1, m)
  BY DEF Path
<1>2. q \in Key /\ Len(q) = m
  BY <1>1, PrefixIsKey
<1>3. PICK n \in 0 .. m : p = SubSeq(q, 1, n)
  BY <1>2 DEF Path
<1>4. r \in Seq(Char) /\ q \in Seq(Char)
  BY <1>2, KeyIsSeq
<1>5. n \in 0 .. Len(r)
  BY <1>1, <1>3, <1>4
<1>6. SubSeq(q, 1, n) = SubSeq(r, 1, n)
  BY <1>1, <1>3, <1>4, <1>5
<1> QED
  BY <1>3, <1>5, <1>6 DEF Path

-----------------------------------------------------------------------------
\* A new trie has its root and no keys.
LEMMA InitIInv == Init => IInv
<1> SUFFICES ASSUME Init PROVE IInv
  OBVIOUS
<1> QED
  BY RootPath DEF Init, IInv

\* insert() adds the whole way to the new key.
LEMMA InsertIInv ==
  ASSUME IInv, NEW key \in Key, Insert(key)
  PROVE  IInv'
<1>1. Path(key) \subseteq Key /\ key \in Path(key)
  BY PathInKey, PathEnds
<1>2. nodes' = nodes \union Path(key) /\ leaf' = leaf \union {key}
  BY DEF Insert
<1>3. nodes' \subseteq Key /\ leaf' \subseteq nodes'
  BY <1>1, <1>2 DEF IInv
<1>4. ASSUME NEW node \in nodes' PROVE Path(node) \subseteq nodes'
  <2>1. CASE node \in nodes
    BY <1>2, <2>1 DEF IInv
  <2>2. CASE node \in Path(key)
    BY <1>2, <2>2, PathTransitive
  <2> QED
    BY <1>2, <2>1, <2>2
<1>5. ASSUME NEW node \in nodes' \ {<<>>}
      PROVE  \E k \in leaf' : node \in Path(k)
  <2>1. CASE node \in nodes
    BY <1>2, <2>1 DEF IInv
  <2>2. CASE node \in Path(key)
    BY <1>2, <2>2
  <2> QED
    BY <1>2, <2>1, <2>2
<1> QED
  BY <1>3, <1>4, <1>5 DEF IInv

\* A node other keys need is not pruned.
LEMMA PrunedAreFree ==
  ASSUME IInv, NEW key \in leaf, NEW k \in leaf, k # key
  PROVE  Path(k) \intersect Pruned(key) = {}
<1> SUFFICES ASSUME NEW p \in Path(k), p \in Pruned(key) PROVE FALSE
  OBVIOUS
<1>1. k \in nodes
  BY DEF IInv
<1> QED
  BY <1>1 DEF Pruned

\* deletion() keeps the tree: below a node that goes nothing stays, and a node
\* that stays has a key that stays.
LEMMA DeleteIInv ==
  ASSUME IInv, NEW key \in Key, Delete(key)
  PROVE  IInv'
<1>1. key \in leaf /\ key \in nodes
  BY DEF Delete, IInv
<1>2. nodes' = nodes \ Pruned(key) /\ leaf' = leaf \ (Pruned(key) \union {key})
  BY DEF Delete
<1>3. nodes' \subseteq Key /\ leaf' \subseteq nodes'
  BY <1>2 DEF IInv
<1>4. ASSUME NEW node \in nodes' PROVE Path(node) \subseteq nodes'
  <2>1. SUFFICES ASSUME NEW p \in Path(node), p \in Pruned(key) PROVE FALSE
    BY <1>2 DEF IInv
  <2>2. node \in nodes /\ node \in Key /\ node \notin Pruned(key)
    BY <1>2 DEF IInv
  <2>3. node \in Path(key)
    BY <2>1, <2>2 DEF Pruned
  <2>4. PICK n \in nodes : /\ node \in Path(n)
                           /\ ~(n \in Path(key) /\ (n \in leaf => n = key))
    BY <2>2, <2>3 DEF Pruned
  <2>5. p \in Path(n)
    BY <2>1, <2>4, PathTransitive DEF IInv
  <2> QED
    BY <2>1, <2>4, <2>5 DEF Pruned
<1>5. ASSUME NEW node \in nodes' \ {<<>>}
      PROVE  \E k \in leaf' : node \in Path(k)
  <2>1. node \in nodes /\ node \in Key /\ node \notin Pruned(key)
    BY <1>2 DEF IInv
  <2>2. SUFFICES \E k \in leaf : k # key /\ node \in Path(k)
    <3>1. PICK k \in leaf : k # key /\ node \in Path(k)
      BY <2>2
    <3>2. k \in Path(k)
      BY PathEnds DEF IInv
    <3>3. k \notin Pruned(key)
      BY <1>1, <3>1, <3>2, PrunedAreFree
    <3> QED
      BY <1>2, <3>1, <3>3
  <2>3. PICK k1 \in leaf : node \in Path(k1)
    BY <2>1 DEF IInv
  <2>4. CASE k1 # key
    BY <2>3, <2>4
  <2>5. CASE k1 = key
    <3>1. PICK n \in nodes : /\ node \in Path(n)
                             /\ ~(n \in Path(key) /\ (n \in leaf => n = key))
      BY <2>1, <2>3, <2>5 DEF Pruned
    <3>2. CASE n \in Path(key)
      BY <3>1, <3>2
    <3>3. CASE n \notin Path(key)
      <4>1. n # <<>>
        BY <1>1, <3>3, PathEnds DEF IInv
      <4>2. PICK k2 \in leaf : n \in Path(k2)
        BY <4>1 DEF IInv
      <4>3. k2 # key
        BY <3>3, <4>2
      <4>4. node \in Path(k2)
        BY <3>1, <4>2, PathTransitive DEF IInv
      <4> QED
        BY <4>2, <4>3, <4>4
    <3> QED
      BY <3>2, <3>3
  <2> QED
    BY <2>4, <2>5
<1> QED
  BY <1>3, <1>4, <1>5 DEF IInv

\* A new root takes the place of the one deletion() took.
LEMMA RenewIInv ==
  ASSUME IInv, Renew
  PROVE  IInv'
<1>1. leaf' = {} /\ nodes' = {<<>>}
  BY DEF Renew, IInv
<1> QED
  BY <1>1, RootPath DEF IInv

\* The tree invariant holds in every reachable state.
LEMMA Invariance == Spec => []IInv
<1>1. IInv /\ [Next]_vars => IInv'
  <2> SUFFICES ASSUME IInv, [Next]_vars PROVE IInv'
    OBVIOUS
  <2>1. CASE UNCHANGED vars
    BY <2>1 DEF vars, IInv
  <2> QED
    BY <2>1, InsertIInv, DeleteIInv, RenewIInv DEF Next
<1> QED
  BY InitIInv, <1>1, PTL DEF Spec

-----------------------------------------------------------------------------
\* Nodes are paths of characters, and every key has its node.
THEOREM TypeCorrect == Spec => []TypeOK
<1>1. IInv => TypeOK
  BY DEF IInv, TypeOK
<1> QED
  BY <1>1, Invariance, PTL

\* deletion() prunes exactly the nodes no key needs any more.
THEOREM NoStrayNodesHolds == Spec => []NoStrayNodes
<1>1. IInv => NoStrayNodes
  <2> SUFFICES ASSUME IInv PROVE NoStrayNodes
    OBVIOUS
  <2> DEFINE Needed == UNION {Path(key) : key \in leaf}
  <2>1. ASSUME NEW node \in nodes, node # <<>>
        PROVE  node \in Needed
    BY <2>1 DEF IInv
  <2>2. ASSUME NEW node \in Needed
        PROVE  node \in nodes
    <3>1. PICK key \in leaf : node \in Path(key)
      BY Zenon
    <3> QED
      BY <3>1 DEF IInv
  <2>3. ASSUME nodes \ {<<>>} = Needed \ {<<>>} PROVE NoStrayNodes
    BY <2>3 DEF NoStrayNodes
  <2> HIDE DEF Needed
  <2> QED
    BY <2>1, <2>2, <2>3
<1> QED
  BY <1>1, Invariance, PTL

\* insert() and deletion() change the set of keys by their key alone: the trie
\* implements KeySet.
THEOREM ImplementsKeySetHolds == Spec => ImplementsKeySet
<1>1. Init => Keys!Init
  BY DEF Init, Keys!Init
<1>2. IInv /\ [Next]_vars => [Keys!Next]_leaf
  <2> SUFFICES ASSUME IInv, [Next]_vars PROVE [Keys!Next]_leaf
    OBVIOUS
  <2>1. ASSUME NEW key \in Key, Insert(key) PROVE Keys!Insert(key)
    BY <2>1 DEF Insert, Keys!Insert
  <2>2. ASSUME NEW key \in Key, Delete(key) PROVE Keys!Delete(key)
    <3>1. key \in leaf
      BY <2>2 DEF Delete
    <3>2. ASSUME NEW k \in leaf, k # key PROVE k \notin Pruned(key)
      <4>1. k \in Path(k)
        BY PathEnds DEF IInv
      <4> QED
        BY <3>1, <3>2, <4>1, PrunedAreFree
    <3>3. leaf' = leaf \ {key}
      BY <2>2, <3>2 DEF Delete
    <3> QED
      BY <3>3 DEF Keys!Delete
  <2>3. CASE Renew
    BY <2>3 DEF Renew
  <2>4. CASE UNCHANGED vars
    BY <2>4 DEF vars
  <2> QED
    BY <2>1, <2>2, <2>3, <2>4 DEF Next, Keys!Next
<1> QED
  BY <1>1, <1>2, Invariance, PTL DEF Spec, ImplementsKeySet, Keys!Spec

-----------------------------------------------------------------------------
(* search()                                                                 *)

\* Of the numbers up to some bound one is the greatest, and Max is it.
LEMMA GreatestBelow ==
  ASSUME NEW bound \in Nat, NEW S \in SUBSET (0 .. bound), S # {}
  PROVE  Max(S) \in S /\ \A j \in S : j <= Max(S)
<1> DEFINE T == {bound - j : j \in S}
<1>1. T \in SUBSET Nat /\ T # {}
  <2>1. \A j \in S : bound - j \in Nat
    OBVIOUS
  <2> QED
    BY <2>1
<1>2. PICK k \in T : \A j \in T : ~ (<<j, k>> \in OpToRel(<, Nat))
  BY <1>1, NatLessThanWellFounded, WFMin
<1>3. PICK n \in S : k = bound - n
  BY <1>2
<1>4. \A j \in S : j <= n
  <2> SUFFICES ASSUME NEW j \in S, n < j PROVE FALSE
    OBVIOUS
  <2>1. bound - j \in T /\ bound - j \in Nat /\ k \in Nat /\ bound - j < k
    BY <1>3
  <2>2. <<bound - j, k>> \in OpToRel(<, Nat)
    BY <2>1, Zenon DEF OpToRel
  <2> QED
    BY <1>2, <2>1, <2>2
<1>5. \E m \in S : \A j \in S : m >= j
  BY <1>4
<1>6. Max(S) \in S /\ \A j \in S : Max(S) >= j
  BY <1>5, Zenon DEF Max
<1> QED
  BY <1>6

\* search() walks down as long as there are nodes.
LEMMA StopIsLast ==
  ASSUME IInv, <<>> \in nodes, NEW key \in Key
  PROVE  \E m \in 0 .. Len(key) :
           /\ Stop(key) = SubSeq(key, 1, m)
           /\ SubSeq(key, 1, m) \in nodes
           /\ \A n \in 0 .. Len(key) : SubSeq(key, 1, n) \in nodes => n <= m
<1> DEFINE S == {n \in 0 .. Len(key) : SubSeq(key, 1, n) \in nodes}
<1>1. key \in Seq(Char) /\ Len(key) \in Nat
  BY KeyIsSeq
<1>2. 0 \in S
  <2>1. SubSeq(key, 1, 0) = <<>>
    BY <1>1
  <2>2. SubSeq(key, 1, 0) \in nodes
    BY <2>1, Zenon
  <2>3. 0 \in 0 .. Len(key)
    BY <1>1
  <2> QED
    BY <2>2, <2>3, Zenon
<1>3. Max(S) \in S /\ \A j \in S : j <= Max(S)
  BY <1>1, <1>2, GreatestBelow
<1> QED
  BY <1>3 DEF Stop

\* A node below the root is one that some key needs.
LEMMA NodeIsNeeded ==
  ASSUME IInv, NEW node, node # <<>>
  PROVE  node \in nodes <=> \E rule \in leaf : node \in Path(rule)
BY DEF IInv

\* A shorter prefix lies on the way to a longer one.
LEMMA ShorterPrefix ==
  ASSUME NEW key \in Key, NEW n \in 0 .. Len(key), NEW m \in 0 .. n
  PROVE  SubSeq(key, 1, m) \in Path(SubSeq(key, 1, n))
<1>1. key \in Seq(Char) /\ Len(key) \in Nat
  BY KeyIsSeq
<1>2. Len(SubSeq(key, 1, n)) = n
  BY PrefixIsKey
<1>3. SubSeq(SubSeq(key, 1, n), 1, m) = SubSeq(key, 1, m)
  BY <1>1
<1> QED
  BY <1>2, <1>3 DEF Path

\* Dropping the wildcard leads back to the node above it.
LEMMA AboveStar ==
  ASSUME NEW key \in Key
  PROVE  key \in Path(Append(key, Star)) /\ Append(key, Star) # <<>>
<1>1. key \in Seq(Char) /\ Len(key) \in Nat /\ Append(key, Star) \in Seq(Char)
  BY KeyIsSeq, StarAssumption
<1>2. Len(Append(key, Star)) = Len(key) + 1 /\ SubSeq(Append(key, Star), 1, Len(key)) = key
  BY <1>1, StarAssumption
<1>3. Len(key) \in 0 .. Len(Append(key, Star))
  BY <1>1, <1>2
<1>4. key \in Path(Append(key, Star))
  BY <1>2, <1>3, Zenon DEF Path
<1>5. Append(key, Star) # <<>>
  BY <1>1, <1>2
<1> QED
  BY <1>4, <1>5

\* What search() says of a key follows from the keys that are there, whatever
\* was inserted and deleted before.
THEOREM SearchByKeysHolds == Spec => []SearchByKeys
<1>1. IInv => SearchByKeys
  <2> SUFFICES ASSUME IInv, NEW key \in Key
               PROVE  Search(key) <=>
                        \/ key \in leaf
                        \/ \E n \in 0 .. Len(key) - 1 :
                             /\ \E rule \in leaf : Append(SubSeq(key, 1, n), Star) \in Path(rule)
                             /\ \A rule \in leaf : SubSeq(key, 1, n + 1) \notin Path(rule)
    BY DEF SearchByKeys
  <2> DEFINE Prefix(n) == SubSeq(key, 1, n)
             Parts(n) == /\ \E rule \in leaf : Append(Prefix(n), Star) \in Path(rule)
                         /\ \A rule \in leaf : Prefix(n + 1) \notin Path(rule)
  <2>0. Len(key) \in Nat
    BY KeyIsSeq
  <2>1. key \in Seq(Char) /\ Len(key) \in Nat /\ Prefix(Len(key)) = key
    BY KeyIsSeq
  <2>2. \A n \in 0 .. Len(key) : Prefix(n) \in Key /\ Len(Prefix(n)) = n
    BY PrefixIsKey
  <2>3. \A n \in 0 .. Len(key) : n # 0 => Prefix(n) # <<>>
    BY <2>2
  <2>4. ASSUME NEW n \in 0 .. Len(key) - 1
        PROVE  Parts(n) <=> Append(Prefix(n), Star) \in nodes /\ Prefix(n + 1) \notin nodes
    <3>1. n \in 0 .. Len(key) /\ n + 1 \in 0 .. Len(key) /\ n + 1 # 0
      BY <2>1
    <3>2. Append(Prefix(n), Star) # <<>> /\ Prefix(n + 1) # <<>>
      BY <2>2, <2>3, <3>1, AboveStar
    <3> QED
      BY <3>2, NodeIsNeeded
  <2>5. \A n \in 0 .. Len(key), m \in 0 .. Len(key) :
           Prefix(n) \in nodes /\ m <= n => Prefix(m) \in nodes
    <3> SUFFICES ASSUME NEW n \in 0 .. Len(key), NEW m \in 0 .. Len(key),
                        Prefix(n) \in nodes, m <= n
                 PROVE  Prefix(m) \in nodes
      OBVIOUS
    <3>1. Prefix(m) \in Path(Prefix(n))
      BY <2>1, ShorterPrefix
    <3> QED
      BY <3>1 DEF IInv
  <2>6. CASE <<>> \notin nodes
    <3>1. leaf = {}
      <4>1. \A k \in leaf : k \in nodes /\ k \in Key /\ <<>> \in Path(k)
        BY PathEnds DEF IInv
      <4> QED
        BY <2>6, <4>1 DEF IInv
    <3> QED
      BY <2>6, <3>1 DEF Search
  <2>7. CASE <<>> \in nodes
    <3>1. PICK m \in 0 .. Len(key) :
             /\ Stop(key) = Prefix(m)
             /\ Prefix(m) \in nodes
             /\ \A n \in 0 .. Len(key) : Prefix(n) \in nodes => n <= m
      BY <2>7, StopIsLast
    <3>2. CASE m = Len(key)
      <4>1. Search(key) <=> key \in leaf
        BY <2>1, <2>7, <3>1, <3>2 DEF Search
      <4>2. \A n \in 0 .. Len(key) - 1 : ~Parts(n)
        <5> SUFFICES ASSUME NEW n \in 0 .. Len(key) - 1 PROVE ~Parts(n)
          OBVIOUS
        <5>1. n + 1 \in 0 .. Len(key) /\ n + 1 <= m
          BY <2>1, <3>2
        <5>2. Prefix(n + 1) \in nodes
          BY <2>5, <3>1, <5>1
        <5> QED
          BY <2>4, <5>2
      <4> QED
        BY <4>1, <4>2
    <3>3. CASE m # Len(key)
      <4>0. m \in 0 .. Len(key) - 1 /\ m \in 0 .. Len(key) /\ Len(key) \in 0 .. Len(key)
        BY <2>0, <3>3
      <4>1. m \in 0 .. Len(key) - 1 /\ Stop(key) # key
        <5>1. Len(Prefix(m)) = m
          BY <2>2, <4>0, Zenon
        <5> QED
          BY <3>1, <3>3, <4>0, <5>1, Zenon
      <4>2. key \notin leaf
        <5>1. ~(Len(key) <= m)
          BY <2>1, <4>0
        <5>2. Prefix(Len(key)) \notin nodes
          BY <3>1, <4>0, <5>1, Zenon
        <5> QED
          BY <2>1, <5>2, Zenon DEF IInv
      <4>3. Search(key) <=> Append(Prefix(m), Star) \in nodes
        BY <2>7, <3>1, <4>1 DEF Search
      <4>4. m + 1 \in 0 .. Len(key) /\ Prefix(m + 1) \notin nodes
        <5>1. m + 1 \in 0 .. Len(key) /\ ~(m + 1 <= m)
          BY <2>1, <4>1
        <5> QED
          BY <3>1, <5>1, Zenon
      <4>5. ASSUME NEW n \in 0 .. Len(key) - 1, Parts(n)
            PROVE  n = m
        <5>1. n \in 0 .. Len(key) /\ n + 1 \in 0 .. Len(key)
          BY <2>1
        <5>2. Append(Prefix(n), Star) \in nodes /\ Prefix(n + 1) \notin nodes
          BY <2>4, <4>5
        <5>3. Prefix(n) \in nodes
          <6>1. Prefix(n) \in Path(Append(Prefix(n), Star))
            BY <2>2, <5>1, AboveStar
          <6> QED
            BY <5>2, <6>1 DEF IInv
        <5>4. n <= m /\ ~(n + 1 <= m)
          BY <2>5, <3>1, <5>1, <5>2, <5>3
        <5> QED
          BY <2>1, <5>4
      <4>6. Search(key) <=> \E n \in 0 .. Len(key) - 1 : Parts(n)
        <5>1. Parts(m) <=> Append(Prefix(m), Star) \in nodes
          BY <2>4, <4>1, <4>4
        <5>2. (\E n \in 0 .. Len(key) - 1 : Parts(n)) <=> Parts(m)
          BY <4>1, <4>5
        <5> QED
          BY <4>3, <5>1, <5>2
      <4> QED
        BY <4>2, <4>6
    <3> QED
      BY <3>2, <3>3
  <2> QED
    BY <2>6, <2>7
<1> QED
  BY <1>1, Invariance, PTL
=============================================================================
