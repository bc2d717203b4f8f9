-------------------------- MODULE MerkleMatrix_proofs --------------------------
(***************************************************************************)
(* Every node of the framed Merkle tree is hashed once, from finished      *)
(* children and at its own point, for every number of leaves, chunk width   *)
(* and schedule of the tasks; the sequential and the parallel search of     *)
(* grind_pow agree, both return the least hit; and the same in a matrix     *)
(* that is built, ground for and opened.  Its root is the one that openings *)
(* are verified against, and only the honest opening of a set passes.       *)
(***************************************************************************)
EXTENDS MerkleMatrix, TLAPS

(* The nodes of a level that starts at first and has been written as far as the   *)
(* tasks have run.                                                                *)
Reached(first, len) == {k \in first..(first + len - 1) : TaskOf(k - first) \in tasks}

(* The nodes of S lie at the given level, in order from first.                     *)
Located(S, lev, first) ==
    \A k \in S : tree[k].level = lev /\ tree[k].index = k - first

Shape ==
    /\ numLeaves \in Sizes
    /\ DOMAIN tree = 0..(2 * numLeaves - 2)
    /\ stage \in {"leaves", "nodes", "done"}

(* A level has as many nodes before it and after it as make the whole array. *)
Layout ==
    /\ stage = "leaves" =>
        /\ readStart = 0 /\ readLen = numLeaves /\ nodeLevel = LeafLevel
        /\ written = Reached(0, numLeaves)
        /\ Located(written, nodeLevel, 0)
    /\ stage = "nodes" =>
        /\ readLen \in Sizes /\ readLen # 1 /\ readStart \in Nat
        /\ readStart + 2 * readLen = 2 * numLeaves
        /\ nodeLevel = TrailingZeros[readLen] - 1
        /\ written = (0..(WriteStart - 1)) \cup Reached(WriteStart, NextLen)
        /\ Located(readStart..(WriteStart - 1), nodeLevel + 1, readStart)
        /\ Located(Reached(WriteStart, NextLen), nodeLevel, WriteStart)

TreeInv == Shape /\ Layout /\ WellFormed

LEMMA TreeInit == Init => TreeInv
  BY TreeAssumption DEF Init, TreeInv, Shape, Layout, WellFormed, Reached, Located, LeafLevel

LEMMA Fields ==
  ASSUME NEW role, NEW lev, NEW ix, NEW payload
  PROVE  Hash(role, lev, ix, payload).level = lev /\ Hash(role, lev, ix, payload).index = ix
  BY DEF Hash

LEMMA Halving ==
  ASSUME NEW n \in Sizes
  PROVE  /\ n \in Nat \ {0} /\ TrailingZeros[n] \in Nat
         /\ n # 1 => /\ n \div 2 \in Sizes /\ n \div 2 \in Nat \ {0}
                     /\ n = 2 * (n \div 2)
                     /\ TrailingZeros[n] = TrailingZeros[n \div 2] + 1
  BY TreeAssumption

(* What a task writes, with the second-order definition of Write unfolded. *)
LEMMA LeafTask ==
  ASSUME NEW c \in Leaves(numLeaves), HashLeaves(c)
  PROVE  /\ stage = "leaves" /\ c \notin tasks /\ tasks' = tasks \cup {c}
         /\ written' = written \cup Chunk(c, numLeaves)
         /\ tree' = [k \in DOMAIN tree |-> IF k \in Chunk(c, numLeaves)
                        THEN Hash("leaf", LeafLevel, k, data[k]) ELSE tree[k]]
         /\ UNCHANGED <<numLeaves, data, stage, readStart, readLen, nodeLevel>>
<1>1. {0 + m : m \in Chunk(c, numLeaves)} = Chunk(c, numLeaves)
  BY DEF Chunk
<1>2. \A k : k \in Chunk(c, numLeaves) => k - 0 = k
  BY DEF Chunk
<1>. QED
  BY <1>1, <1>2 DEF HashLeaves, Write

(* No task writes what another has written. *)
Kept == \A k \in written : tree'[k] = tree[k]

LEMMA HashLeavesInv ==
  ASSUME TreeInv, NEW c \in Leaves(numLeaves), HashLeaves(c) PROVE TreeInv' /\ Kept
<1>1. /\ numLeaves' = numLeaves /\ data' = data
      /\ stage = "leaves" /\ stage' = "leaves" /\ LeafLevel' = LeafLevel
      /\ nodeLevel = LeafLevel /\ nodeLevel' = LeafLevel
      /\ readStart = 0 /\ readStart' = 0 /\ readLen = numLeaves /\ readLen' = numLeaves
      /\ written = Reached(0, numLeaves)
      /\ Located(written, LeafLevel, 0)
      /\ c \notin tasks /\ tasks' = tasks \cup {c}
      /\ written' = written \cup Chunk(c, numLeaves)
      /\ tree' = [k \in DOMAIN tree |-> IF k \in Chunk(c, numLeaves)
                        THEN Hash("leaf", LeafLevel, k, data[k]) ELSE tree[k]]
  BY LeafTask DEF Layout, LeafLevel, TreeInv
<1>2. /\ numLeaves \in Nat \ {0} /\ numLeaves \in Sizes
      /\ DOMAIN tree = 0..(2 * numLeaves - 2)
  BY Halving DEF TreeInv, Shape
<1>3. Shape'
  BY <1>1, <1>2 DEF Shape
<1>4. /\ Chunk(c, numLeaves) \subseteq 0..(numLeaves - 1)
      /\ written \subseteq 0..(numLeaves - 1)
      /\ written \cap Chunk(c, numLeaves) = {}
      /\ written' = Reached(0, numLeaves)'
  <2>1. \A k \in 0..(numLeaves - 1) : k - 0 = k /\ k \in 0..(0 + numLeaves - 1)
    BY <1>2
  <2>2. \A k \in 0..(0 + numLeaves - 1) : k - 0 = k /\ k \in 0..(numLeaves - 1)
    BY <1>2
  <2>. QED
    BY <1>1, <2>1, <2>2 DEF Reached, Chunk
<1>5. /\ \A k \in written : tree'[k] = tree[k]
      /\ \A k \in Chunk(c, numLeaves) : tree'[k] = Hash("leaf", LeafLevel, k, data[k])
  <2>1. 0..(numLeaves - 1) \subseteq 0..(2 * numLeaves - 2)
    BY <1>2
  <2>. QED
    BY <1>1, <1>2, <1>4, <2>1
<1>6. Located(written, LeafLevel, 0)'
  <2>1. ASSUME NEW k \in Chunk(c, numLeaves) PROVE tree'[k].level = LeafLevel /\ tree'[k].index = k - 0
    <3>1. k - 0 = k
      BY <1>2, <1>4
    <3>2. tree'[k] = Hash("leaf", LeafLevel, k, data[k])
      BY <1>5
    <3>. QED
      BY <3>1, <3>2, Fields
  <2>. QED
    BY <2>1, <1>1, <1>5 DEF Located
<1>7. Layout'
  BY <1>1, <1>4, <1>6 DEF Layout
<1>8. ASSUME NEW k \in written' PROVE k < numLeaves /\ tree'[k] = Hash("leaf", LeafLevel, k, data[k])
  <2>1. k < numLeaves
    BY <1>1, <1>2, <1>4
  <2>2. CASE k \in written
    BY <1>5, <2>1, <2>2 DEF TreeInv, WellFormed
  <2>. QED
    BY <1>1, <1>5, <2>1, <2>2
<1>9. WellFormed'
  BY <1>1, <1>8 DEF WellFormed
<1>. QED
  BY <1>3, <1>5, <1>7, <1>9 DEF TreeInv, Kept

LEMMA NodeTask ==
  ASSUME NEW c \in Leaves(numLeaves), HashNodes(c)
  PROVE  LET at == {WriteStart + m : m \in Chunk(c, NextLen)}
         IN  /\ stage = "nodes" /\ c \notin tasks /\ tasks' = tasks \cup {c}
             /\ written' = written \cup at
             /\ tree' = [k \in DOMAIN tree |-> IF k \in at THEN Node(k - WriteStart) ELSE tree[k]]
             /\ UNCHANGED <<numLeaves, data, stage, readStart, readLen, nodeLevel>>
  BY DEF HashNodes, Write

LEMMA HashNodesInv ==
  ASSUME TreeInv, NEW c \in Leaves(numLeaves), HashNodes(c) PROVE TreeInv' /\ Kept
<1>. DEFINE at == {WriteStart + m : m \in Chunk(c, NextLen)}
<1>1. /\ stage = "nodes" /\ c \notin tasks /\ tasks' = tasks \cup {c}
      /\ written' = written \cup at
      /\ tree' = [k \in DOMAIN tree |-> IF k \in at THEN Node(k - WriteStart) ELSE tree[k]]
      /\ UNCHANGED <<numLeaves, data, stage, readStart, readLen, nodeLevel>>
      /\ UNCHANGED <<WriteStart, NextLen, LeafLevel>>
  BY NodeTask DEF WriteStart, NextLen, LeafLevel
<1>2. /\ readLen \in Sizes /\ readLen # 1 /\ readStart \in Nat
      /\ readStart + 2 * readLen = 2 * numLeaves
      /\ nodeLevel = TrailingZeros[readLen] - 1
      /\ written = (0..(WriteStart - 1)) \cup Reached(WriteStart, NextLen)
      /\ Located(readStart..(WriteStart - 1), nodeLevel + 1, readStart)
      /\ Located(Reached(WriteStart, NextLen), nodeLevel, WriteStart)
      /\ numLeaves \in Sizes
      /\ DOMAIN tree = 0..(2 * numLeaves - 2)
  BY <1>1 DEF TreeInv, Layout, Shape
<1>3. /\ numLeaves \in Nat \ {0} /\ readLen = 2 * NextLen /\ NextLen \in Nat \ {0}
      /\ nodeLevel \in Nat /\ WriteStart \in Nat /\ WriteStart = readStart + 2 * NextLen
      /\ WriteStart + NextLen <= 2 * numLeaves - 1
  <2>1. numLeaves \in Nat \ {0} /\ readLen = 2 * NextLen /\ NextLen \in Nat \ {0} /\ nodeLevel \in Nat
    <3>1. numLeaves \in Nat \ {0}
      BY <1>2, Halving
    <3>2. /\ NextLen \in Sizes /\ NextLen \in Nat \ {0} /\ readLen = 2 * NextLen
          /\ TrailingZeros[readLen] = TrailingZeros[NextLen] + 1
      BY <1>2, Halving DEF NextLen
    <3>3. TrailingZeros[NextLen] \in Nat
      BY <3>2, Halving
    <3>. QED
      BY <1>2, <3>1, <3>2, <3>3
  <2>. QED
    BY <1>2, <2>1 DEF WriteStart
<1>4. ASSUME NEW k \in at PROVE k \in WriteStart..(WriteStart + NextLen - 1) /\ TaskOf(k - WriteStart) = c
  <2>1. PICK m \in Chunk(c, NextLen) : k = WriteStart + m
    OBVIOUS
  <2>2. m \in 0..(NextLen - 1) /\ TaskOf(m) = c
    BY DEF Chunk
  <2>3. k - WriteStart = m /\ k \in WriteStart..(WriteStart + NextLen - 1)
    BY <1>3, <2>1, <2>2
  <2>. QED
    BY <2>2, <2>3
<1>5. ASSUME NEW k \in WriteStart..(WriteStart + NextLen - 1), TaskOf(k - WriteStart) = c
      PROVE  k \in at
  <2>1. k - WriteStart \in 0..(NextLen - 1) /\ k = WriteStart + (k - WriteStart)
    BY <1>3
  <2>2. k - WriteStart \in Chunk(c, NextLen)
    BY <1>5, <2>1 DEF Chunk
  <2>. QED
    BY <2>1, <2>2
<1>. HIDE DEF at
<1>6. /\ Reached(WriteStart, NextLen) \subseteq WriteStart..(WriteStart + NextLen - 1)
      /\ Reached(WriteStart, NextLen) \cap at = {}
      /\ Reached(WriteStart, NextLen)' = Reached(WriteStart, NextLen) \cup at
  BY <1>1, <1>4, <1>5 DEF Reached
<1>7. /\ written \subseteq DOMAIN tree /\ at \subseteq DOMAIN tree /\ written \cap at = {}
  <2>1. /\ (0..(WriteStart - 1)) \cap (WriteStart..(WriteStart + NextLen - 1)) = {}
        /\ 0..(WriteStart - 1) \subseteq DOMAIN tree
        /\ WriteStart..(WriteStart + NextLen - 1) \subseteq DOMAIN tree
    BY <1>2, <1>3
  <2>. QED
    BY <1>2, <1>4, <1>6, <2>1
<1>8. /\ \A k \in written : tree'[k] = tree[k]
      /\ \A k \in at : tree'[k] = Node(k - WriteStart)
  BY <1>1, <1>7
<1>9. ASSUME NEW k \in at
      PROVE  /\ ChildAt(k, 0) = readStart + 2 * (k - WriteStart)
             /\ ChildAt(k, 1) = readStart + 2 * (k - WriteStart) + 1
             /\ k >= numLeaves /\ k \in Nat
             /\ ChildAt(k, 0) \in readStart..(WriteStart - 1)
             /\ ChildAt(k, 1) \in readStart..(WriteStart - 1)
  <2>1. k \in WriteStart..(WriteStart + NextLen - 1)
    BY <1>4
  <2>. QED
    BY <1>2, <1>3, <2>1 DEF ChildAt
<1>10. ASSUME NEW k \in at
       PROVE  /\ tree'[k] = Hash("node", nodeLevel, k - WriteStart, <<tree[ChildAt(k, 0)], tree[ChildAt(k, 1)]>>)
              /\ tree'[k].level = nodeLevel /\ tree'[k].index = k - WriteStart
  <2>1. tree'[k] = Hash("node", nodeLevel, k - WriteStart, <<tree[ChildAt(k, 0)], tree[ChildAt(k, 1)]>>)
    BY <1>8, <1>9 DEF Node
  <2>. QED
    BY <2>1, Fields
<1>11. Layout'
  <2>1. written' = (0..(WriteStart - 1)) \cup Reached(WriteStart, NextLen)'
    BY <1>1, <1>2, <1>6
  <2>2. readStart..(WriteStart - 1) \subseteq written
    BY <1>2, <1>3
  <2>3. Located(readStart..(WriteStart - 1), nodeLevel + 1, readStart)'
    BY <2>2, <1>1, <1>2, <1>8 DEF Located
  <2>4. ASSUME NEW k \in Reached(WriteStart, NextLen)'
        PROVE  tree'[k].level = nodeLevel /\ tree'[k].index = k - WriteStart
    <3>1. CASE k \in at
      BY <3>1, <1>10
    <3>2. CASE k \in Reached(WriteStart, NextLen)
      BY <3>2, <1>2, <1>8 DEF Located
    <3>. QED
      BY <3>1, <3>2, <1>6
  <2>5. Located(Reached(WriteStart, NextLen), nodeLevel, WriteStart)'
    BY <1>1, <2>4 DEF Located
  <2>6. written' = ((0..(WriteStart - 1)) \cup Reached(WriteStart, NextLen))'
    BY <2>1, <1>1
  <2>. QED
    BY <1>1, <1>2, <2>3, <2>5, <2>6 DEF Layout
<1>12. ASSUME NEW k \in written' PROVE (IF k < numLeaves THEN tree[k] = Hash("leaf", LeafLevel, k, data[k]) ELSE Joins(k))'
  <2>1. CASE k \in written
    <3>1. CASE k < numLeaves
      BY <2>1, <3>1, <1>1, <1>8 DEF TreeInv, WellFormed
    <3>2. CASE ~(k < numLeaves)
      <4>1. Joins(k)
        BY <2>1, <3>2 DEF TreeInv, WellFormed
      <4>2. /\ tree'[k] = tree[k]
            /\ \A b \in {0, 1} : /\ ChildAt(k, b)' = ChildAt(k, b)
                                 /\ ChildAt(k, b) \in written' /\ tree'[ChildAt(k, b)] = tree[ChildAt(k, b)]
        BY <2>1, <4>1, <1>1, <1>8 DEF Joins, ChildAt
      <4>3. Joins(k)'
        BY <4>1, <4>2 DEF Joins
      <4>. QED
        BY <3>2, <4>3, <1>1
    <3>. QED
      BY <3>1, <3>2
  <2>2. CASE k \in at
    <3>1. ASSUME NEW b \in {0, 1}
          PROVE  /\ ChildAt(k, b)' = ChildAt(k, b) /\ ChildAt(k, b) \in written
                 /\ tree'[ChildAt(k, b)] = tree[ChildAt(k, b)]
                 /\ tree[ChildAt(k, b)].level = nodeLevel + 1
                 /\ tree[ChildAt(k, b)].index = 2 * (k - WriteStart) + b
      <4>1. /\ ChildAt(k, b) \in readStart..(WriteStart - 1)
            /\ ChildAt(k, b) - readStart = 2 * (k - WriteStart) + b
        <5>1. k \in Nat /\ k - WriteStart \in Int
          BY <2>2, <1>3, <1>9
        <5>2. CASE b = 0
          BY <5>1, <5>2, <2>2, <1>2, <1>9
        <5>3. CASE b = 1
          BY <5>1, <5>3, <2>2, <1>2, <1>9
        <5>. QED
          BY <5>2, <5>3
      <4>2. ChildAt(k, b) \in written
        BY <4>1, <1>2, <1>3
      <4>. QED
        BY <4>1, <4>2, <1>1, <1>2, <1>8 DEF Located, ChildAt
    <3>2. Joins(k)'
      <4>1. tree'[k] = Hash("node", tree'[k].level, tree'[k].index, <<tree'[ChildAt(k, 0)'], tree'[ChildAt(k, 1)']>>)
        BY <2>2, <3>1, <1>10
      <4>. QED
        BY <2>2, <3>1, <4>1, <1>1, <1>10 DEF Joins
    <3>3. ~(k < numLeaves)'
      BY <2>2, <1>1, <1>3, <1>9
    <3>. QED
      BY <3>2, <3>3
  <2>. QED
    BY <2>1, <2>2, <1>1
<1>13. WellFormed'
  BY <1>12 DEF WellFormed
<1>. QED
  BY <1>1, <1>2, <1>8, <1>11, <1>13 DEF TreeInv, Kept, Shape

LEMMA LeavesDoneInv == ASSUME TreeInv, LeavesDone PROVE TreeInv' /\ Kept
<1>1. /\ stage = "leaves" /\ numLeaves \in Sizes /\ DOMAIN tree = 0..(2 * numLeaves - 2)
      /\ readStart = 0 /\ readLen = numLeaves /\ nodeLevel = LeafLevel
      /\ written = Reached(0, numLeaves) /\ Located(written, nodeLevel, 0)
      /\ UNCHANGED <<numLeaves, data, tree, readStart, readLen, written, LeafLevel>>
      /\ tasks' = {} /\ Complete(numLeaves)
      /\ IF numLeaves > 1 THEN stage' = "nodes" /\ nodeLevel' = nodeLevel - 1
         ELSE stage' = "done" /\ nodeLevel' = nodeLevel
  BY DEF TreeInv, Shape, Layout, LeavesDone, Ascend, LeafLevel
<1>2. numLeaves \in Nat \ {0} /\ numLeaves + 2 * numLeaves # 0 /\ LeafLevel \in Nat
  BY <1>1, Halving DEF LeafLevel
<1>3. written = 0..(numLeaves - 1)
  <2>1. \A k \in 0..(numLeaves - 1) : k - 0 = k
    BY <1>2
  <2>2. 0..(0 + numLeaves - 1) = 0..(numLeaves - 1)
    BY <1>2
  <2>. QED
    BY <1>1, <2>1, <2>2 DEF Reached, Complete
<1>4. Layout'
  <2>1. CASE numLeaves > 1
    <3>1. stage' = "nodes" /\ readLen' # 1 /\ readStart' + 2 * readLen' = 2 * numLeaves'
      BY <1>1, <1>2, <2>1
    <3>2. /\ nodeLevel' = TrailingZeros[readLen'] - 1 /\ nodeLevel' + 1 = nodeLevel
      BY <1>1, <1>2, <2>1 DEF LeafLevel
    <3>3. WriteStart' = numLeaves
      BY <1>1, <1>2 DEF WriteStart
    <3>4. Reached(WriteStart, NextLen)' = {}
      BY <1>1 DEF Reached
    <3>5. readStart'..(WriteStart' - 1) = written /\ 0..(WriteStart' - 1) = written
      BY <1>1, <1>3, <3>3
    <3>6. Located(readStart..(WriteStart - 1), nodeLevel + 1, readStart)'
      BY <1>1, <3>2, <3>5 DEF Located
    <3>7. Located(Reached(WriteStart, NextLen), nodeLevel, WriteStart)'
      BY <3>4 DEF Located
    <3>8. written' = ((0..(WriteStart - 1)) \cup Reached(WriteStart, NextLen))'
      BY <1>1, <3>4, <3>5
    <3>. QED
      BY <1>1, <1>2, <3>1, <3>2, <3>6, <3>7, <3>8 DEF Layout
  <2>2. CASE ~(numLeaves > 1)
    BY <1>1, <2>2 DEF Layout
  <2>. QED
    BY <2>1, <2>2
<1>. QED
  BY <1>1, <1>4 DEF TreeInv, Shape, Kept, WellFormed, Joins, ChildAt

LEMMA LevelDoneInv == ASSUME TreeInv, LevelDone PROVE TreeInv' /\ Kept
<1>1. /\ stage = "nodes" /\ numLeaves \in Sizes /\ DOMAIN tree = 0..(2 * numLeaves - 2)
      /\ readLen \in Sizes /\ readLen # 1 /\ readStart \in Nat
      /\ readStart + 2 * readLen = 2 * numLeaves
      /\ nodeLevel = TrailingZeros[readLen] - 1
      /\ written = (0..(WriteStart - 1)) \cup Reached(WriteStart, NextLen)
      /\ Located(Reached(WriteStart, NextLen), nodeLevel, WriteStart)
      /\ UNCHANGED <<numLeaves, data, tree, written, LeafLevel>>
      /\ readStart' = WriteStart /\ readLen' = NextLen /\ tasks' = {} /\ Complete(NextLen)
      /\ IF NextLen > 1 THEN stage' = "nodes" /\ nodeLevel' = nodeLevel - 1
         ELSE stage' = "done" /\ nodeLevel' = nodeLevel
  BY DEF TreeInv, Shape, Layout, LevelDone, Ascend, LeafLevel, Advance, WriteStart
<1>2. /\ NextLen \in Sizes /\ NextLen \in Nat \ {0} /\ readLen = 2 * NextLen
      /\ TrailingZeros[readLen] = TrailingZeros[NextLen] + 1
  BY <1>1, Halving DEF NextLen
<1>3. /\ TrailingZeros[NextLen] \in Nat /\ numLeaves \in Nat \ {0}
      /\ WriteStart \in Nat /\ WriteStart = readStart + readLen
  BY <1>1, <1>2, Halving DEF WriteStart
<1>4. Reached(WriteStart, NextLen) = WriteStart..(WriteStart + NextLen - 1)
  <2>1. \A k \in WriteStart..(WriteStart + NextLen - 1) : k - WriteStart \in 0..(NextLen - 1)
    BY <1>2, <1>3
  <2>. QED
    BY <1>1, <2>1 DEF Reached, Complete
<1>5. written = 0..(WriteStart + NextLen - 1)
  BY <1>1, <1>2, <1>3, <1>4
<1>6. Layout'
  <2>1. CASE NextLen > 1
    <3>1. /\ stage' = "nodes" /\ readLen' # 1 /\ readStart' + 2 * readLen' = 2 * numLeaves'
          /\ nodeLevel' = TrailingZeros[readLen'] - 1 /\ nodeLevel' + 1 = nodeLevel
          /\ readLen' \in Sizes /\ readStart' \in Nat
      BY <1>1, <1>2, <1>3, <2>1
    <3>2. /\ WriteStart' = WriteStart + NextLen
          /\ readStart'..(WriteStart' - 1) = Reached(WriteStart, NextLen)
          /\ 0..(WriteStart' - 1) = written
      <4>1. WriteStart' = WriteStart + NextLen
        BY <1>1 DEF WriteStart
      <4>2. readStart' = WriteStart
        BY <1>1
      <4>3. WriteStart' - 1 = WriteStart + NextLen - 1
        BY <1>2, <1>3, <4>1
      <4>4. readStart'..(WriteStart' - 1) = WriteStart..(WriteStart + NextLen - 1)
        BY <4>2, <4>3
      <4>5. 0..(WriteStart' - 1) = 0..(WriteStart + NextLen - 1)
        BY <4>3
      <4>. QED
        BY <4>1, <4>4, <4>5, <1>4, <1>5
    <3>3. Reached(WriteStart, NextLen)' = {}
      BY <1>1 DEF Reached
    <3>4. Located(readStart..(WriteStart - 1), nodeLevel + 1, readStart)'
      BY <1>1, <3>1, <3>2 DEF Located
    <3>5. Located(Reached(WriteStart, NextLen), nodeLevel, WriteStart)'
      BY <3>3 DEF Located
    <3>6. written' = ((0..(WriteStart - 1)) \cup Reached(WriteStart, NextLen))'
      BY <1>1, <3>2, <3>3
    <3>. QED
      BY <3>1, <3>4, <3>5, <3>6 DEF Layout
  <2>2. CASE ~(NextLen > 1)
    BY <1>1, <2>2 DEF Layout
  <2>. QED
    BY <2>1, <2>2
<1>. QED
  BY <1>1, <1>6 DEF TreeInv, Shape, Kept, WellFormed, Joins, ChildAt

LEMMA TreeNext == ASSUME TreeInv, [Next]_vars PROVE TreeInv' /\ Kept
<1>1. CASE UNCHANGED vars
  BY <1>1 DEF vars, TreeInv, Shape, Layout, WellFormed, Joins, ChildAt, Kept, Reached, Located,
              WriteStart, NextLen, LeafLevel
<1>2. CASE Done
  BY <1>1, <1>2 DEF Done
<1>3. CASE LeavesDone \/ LevelDone
  BY <1>3, LeavesDoneInv, LevelDoneInv
<1>4. CASE \E c \in Leaves(numLeaves) : HashLeaves(c) \/ HashNodes(c)
  BY <1>4, HashLeavesInv, HashNodesInv
<1>. QED
  BY <1>1, <1>2, <1>3, <1>4 DEF Next

(* Every node of every tree is the framed hash of two finished nodes right below   *)
(* it: for every size, chunk width and interleaving of the tasks.                   *)
THEOREM TreeIsWellFormed == Spec => []WellFormed
<1>1. TreeInv => WellFormed
  BY DEF TreeInv
<1>. QED
  BY <1>1, TreeInit, TreeNext, PTL DEF Spec

(* No node is written a second time (merkle.rs 155-156).                           *)
THEOREM NodesAreWrittenOnce == Spec => WrittenOnce
<1>1. ASSUME TreeInv, [Next]_vars PROVE [\A k \in written : tree'[k] = tree[k]]_vars
  BY <1>1, TreeNext DEF Kept
<1>. QED
  BY <1>1, TreeInit, TreeNext, PTL DEF Spec, WrittenOnce

-----------------------------------------------------------------------------
(* What is swept stays below every hit, and a result is the last nonce tried or  *)
(* the least hit of the block that ended the search.                             *)
GrindInv ==
    /\ Swept /\ hits \subseteq Nonces
    /\ found # None => found \in hits /\ found = nonce
    /\ result # None => result \in hits /\ \A n \in hits : result <= n

LEMMA GrindInitInv == GrindInit => GrindInv
  BY GrindAssumption DEF GrindInit, GrindInv, Swept, Nonces, None, InBlock, SaturatingAdd

LEMMA TryInv == ASSUME GrindInv, Try PROVE GrindInv'
<1>. USE GrindAssumption DEF GrindInv, Swept, Nonces, None, InBlock, SaturatingAdd
<1>1. CASE nonce \in hits
  BY <1>1 DEF Try, parVars
<1>2. CASE nonce \notin hits /\ nonce < MAXU
  <2>1. (nonce + 1) % (MAXU + 1) = nonce + 1
    BY <1>2
  <2>. QED
    BY <1>2, <2>1 DEF Try, parVars
<1>3. CASE nonce \notin hits /\ nonce = MAXU
  <2>1. (nonce + 1) % (MAXU + 1) = 0
    BY <1>3
  <2>. QED
    BY <1>3, <2>1 DEF Try, parVars
<1>. QED
  BY <1>1, <1>2, <1>3

LEMMA TestInv == ASSUME GrindInv, NEW m \in Nonces, Test(m) PROVE GrindInv'
<1>. USE GrindAssumption DEF GrindInv, Swept, Nonces, None, InBlock, SaturatingAdd
<1>1. CASE m \in hits
  BY <1>1 DEF Test, seqVars
<1>2. CASE m \notin hits
  BY <1>2 DEF Test, seqVars
<1>. QED
  BY <1>1, <1>2

LEMMA EndBlockInv == ASSUME GrindInv, EndBlock PROVE GrindInv'
<1>. USE GrindAssumption DEF GrindInv, Swept, Nonces, None, InBlock, SaturatingAdd
<1>1. CASE best # None
  <2>1. \A n \in hits : best <= n
    BY <1>1 DEF EndBlock, BlockDone
  <2>2. /\ result' = best /\ best \in hits /\ best' = None /\ tested' = {}
        /\ UNCHANGED <<hits, nonce, found, start>>
    BY <1>1 DEF EndBlock, seqVars
  <2>3. Swept'
    BY <2>2
  <2>. QED
    BY <2>1, <2>2, <2>3
<1>2. CASE best = None
  <2>1. \A n \in hits : n >= NextStart
    BY <1>2 DEF EndBlock, BlockDone, NextStart
  <2>. QED
    BY <1>2, <2>1 DEF EndBlock, seqVars, NextStart
<1>. QED
  BY <1>1, <1>2

LEMMA GrindNextInv == ASSUME GrindInv, [GrindNext]_grindVars PROVE GrindInv'
<1>1. CASE UNCHANGED grindVars
  BY <1>1 DEF grindVars, seqVars, parVars, GrindInv, Swept, InBlock, SaturatingAdd
<1>2. CASE GrindNext
  BY <1>2, TryInv, TestInv, EndBlockInv DEF GrindNext
<1>. QED
  BY <1>1, <1>2

(* grind_pow returns the least satisfying nonce whichever search it chose, and    *)
(* whatever its threads do (challenger.rs 320-323).                                *)
THEOREM SearchesAgree == GrindSpec => []LeastHit
<1>1. GrindInv => LeastHit
  BY GrindAssumption DEF GrindInv, LeastHit, Swept
<1>. QED
  BY <1>1, GrindInitInv, GrindNextInv, PTL DEF GrindSpec

-----------------------------------------------------------------------------
(* A matrix takes steps of its tree, of its search and of its openings, one at a   *)
(* time, and each leaves the others' state alone.                                  *)
LEMMA MatrixSteps ==
  ASSUME [MatrixNext]_matrix PROVE [Next]_vars /\ [GrindNext]_grindVars
BY DEF MatrixNext, Build, Grind, Serve, matrix

LEMMA MatrixStarts == MatrixInit => Init /\ GrindInit
BY DEF MatrixInit

(* The tree of a matrix is well-formed while it is built, ground for and opened.   *)
THEOREM MatrixIsWellFormed == MatrixSpec => []WellFormed
<1>1. TreeInv => WellFormed
  BY DEF TreeInv
<1>. QED
  BY <1>1, TreeInit, TreeNext, MatrixSteps, MatrixStarts, PTL DEF MatrixSpec

(* No opening and no search writes to a finished node.                             *)
THEOREM MatrixIsWrittenOnce == MatrixSpec => WrittenOnce
<1>1. ASSUME TreeInv, [Next]_vars PROVE [\A k \in written : tree'[k] = tree[k]]_vars
  BY <1>1, TreeNext DEF Kept
<1>. QED
  BY <1>1, TreeInit, TreeNext, MatrixSteps, MatrixStarts, PTL DEF MatrixSpec, WrittenOnce

(* The nonce that the queries of a matrix are ground for is the least hit.         *)
THEOREM MatrixGrindIsLeast == MatrixSpec => []LeastHit
<1>1. GrindInv => LeastHit
  BY GrindAssumption DEF GrindInv, LeastHit, Swept
<1>. QED
  BY <1>1, GrindInitInv, GrindNextInv, MatrixSteps, MatrixStarts, PTL DEF MatrixSpec

-----------------------------------------------------------------------------
(* The openings of a matrix are those of MultiProof, whatever its proofs call them. *)
Batch == INSTANCE MultiProof_proofs WITH Depths <- {TrailingZeros[n] : n \in Sizes}

LEMMA SameDigests == Opening!Digests = Batch!Digests
  BY Zenon DEF Opening!Digests, Batch!Digests, Opening!Hash, Batch!Hash

LEMMA SameRequest == Opening!Request = Batch!Request
<1>1. \A ps : Opening!Ascending(Opening!ToSet(ps)) = Batch!Ascending(Batch!ToSet(ps))
  BY Zenon DEF Opening!Ascending, Batch!Ascending, Opening!ToSet, Batch!ToSet,
               Opening!Cardinality, Batch!Cardinality
<1>2. \A s : Opening!Nodes(s) = Batch!Nodes(s)
  BY DEF Opening!Nodes, Batch!Nodes
<1>3. \A ps : Opening!Open(ps) = Batch!Open(ps)
  BY <1>1, <1>2 DEF Opening!Open, Batch!Open
<1> QED
  BY <1>3 DEF Opening!Request, Batch!Request, Opening!SeqsUpTo, Batch!SeqsUpTo, Opening!NumRows, Batch!NumRows

LEMMA SameWalks == Opening!Emit = Batch!Emit /\ Opening!Ascend = Batch!Ascend
<1>1. Opening!Emit = Batch!Emit
  BY SameDigests DEF Opening!Emit, Batch!Emit, Opening!Digest, Batch!Digest, Opening!Paired, Batch!Paired,
                     Opening!Sibling, Batch!Sibling, Opening!Parent, Batch!Parent
<1>2. Opening!Ascend = Batch!Ascend
  BY DEF Opening!Ascend, Batch!Ascend
<1> QED
  BY <1>1, <1>2

LEMMA SameShows == Opening!Deliver = Batch!Deliver /\ Opening!Alter = Batch!Alter /\ Opening!Forge = Batch!Forge
<1>1. Opening!Deliver = Batch!Deliver /\ Opening!Alter = Batch!Alter
  BY DEF Opening!Deliver, Batch!Deliver, Opening!Alter, Batch!Alter, Opening!Start, Batch!Start,
         Opening!Junk, Batch!Junk, Opening!Hash, Batch!Hash, Opening!Drop, Batch!Drop,
         Opening!Reverse, Batch!Reverse, Opening!Front, Batch!Front
<1>2. Opening!Forge = Batch!Forge
  BY SameDigests DEF Opening!Forge, Batch!Forge, Opening!Present, Batch!Present, Opening!Start, Batch!Start,
     Opening!SeqsUpTo, Batch!SeqsUpTo, Opening!NumRows, Batch!NumRows, Opening!NodeDigests, Batch!NodeDigests,
     Opening!Digest, Batch!Digest, Opening!Junk, Batch!Junk, Opening!Hash, Batch!Hash
<1> QED
  BY <1>1, <1>2

LEMMA SameVerifies ==
  Opening!CheckShape = Batch!CheckShape /\ Opening!JoinNext = Batch!JoinNext /\ Opening!CheckRoot = Batch!CheckRoot
<1>1. Opening!CheckShape = Batch!CheckShape
  BY DEF Opening!CheckShape, Batch!CheckShape, Opening!WellShaped, Batch!WellShaped, Opening!NumRows, Batch!NumRows,
         Opening!Reject, Batch!Reject, Opening!Conclude, Batch!Conclude, Opening!Hash, Batch!Hash,
         Opening!walk, Batch!walk
<1>2. Opening!JoinNext = Batch!JoinNext
  BY DEF Opening!JoinNext, Batch!JoinNext, Opening!Join, Batch!Join, Opening!Paired, Batch!Paired,
         Opening!Sibling, Batch!Sibling, Opening!Parent, Batch!Parent, Opening!Reject, Batch!Reject,
         Opening!Hash, Batch!Hash, Opening!walk, Batch!walk
<1>3. Opening!CheckRoot = Batch!CheckRoot
  BY SameDigests DEF Opening!CheckRoot, Batch!CheckRoot, Opening!Matches, Batch!Matches, Opening!Root, Batch!Root,
                     Opening!Digest, Batch!Digest, Opening!Conclude, Batch!Conclude, Opening!walk, Batch!walk
<1> QED
  BY <1>1, <1>2, <1>3

LEMMA SameOpenings ==
  Opening!Init = Batch!Init /\ Opening!Next = Batch!Next /\ Opening!vars = Batch!vars
<1>1. Opening!Init = Batch!Init
  BY DEF Opening!Init, Batch!Init, Opening!NoOpening, Batch!NoOpening
<1>2. Opening!Done = Batch!Done /\ Opening!vars = Batch!vars
  BY DEF Opening!Done, Batch!Done, Opening!vars, Batch!vars
<1> QED
  BY <1>1, <1>2, SameRequest, SameWalks, SameShows, SameVerifies DEF Opening!Next, Batch!Next

LEMMA SameClaims ==
  Opening!OpensTheSet = Batch!OpensTheSet /\ Opening!AcceptsOnlyHonest = Batch!AcceptsOnlyHonest
<1>1. \A P : Opening!Ascending(P) = Batch!Ascending(P)
  BY Zenon DEF Opening!Ascending, Batch!Ascending, Opening!Cardinality, Batch!Cardinality
<1>2. \A P, l : Opening!NeededAt(P, l) = Batch!NeededAt(P, l)
  BY <1>1 DEF Opening!NeededAt, Batch!NeededAt, Opening!Above, Batch!Above, Opening!Sibling, Batch!Sibling
<1>3. \A s : Opening!FlattenSeq(s) = Batch!FlattenSeq(s)
  BY Zenon DEF Opening!FlattenSeq, Batch!FlattenSeq
<1>4. \A P : Opening!Needed(P) = Batch!Needed(P)
  BY <1>2, <1>3, SameDigests DEF Opening!Needed, Batch!Needed, Opening!Digest, Batch!Digest
<1>5. \A P : Opening!HonestOpening(P) = Batch!HonestOpening(P)
  BY <1>1, <1>4 DEF Opening!HonestOpening, Batch!HonestOpening
<1> QED
  BY <1>5 DEF Opening!OpensTheSet, Batch!OpensTheSet, Opening!AcceptsOnlyHonest, Batch!AcceptsOnlyHonest,
              Opening!ToSet, Batch!ToSet, Opening!NumRows, Batch!NumRows

-----------------------------------------------------------------------------
(* The levels of a tree double, as its sizes halve.                                *)
LEMMA LevelSize ==
  ASSUME NEW n \in Sizes, NEW l \in 0..TrailingZeros[n]
  PROVE  \E m \in Sizes : TrailingZeros[m] = l
<1> DEFINE U == {q \in Sizes : l <= TrailingZeros[q] /\ \A m \in Sizes : TrailingZeros[m] # l}
<1>1. U \subseteq Nat
  BY Halving
<1>2. SUFFICES ASSUME n \in U PROVE FALSE
  BY Halving
<1>3. PICK q \in U : \A m \in U : q <= m
  BY <1>1, <1>2, Batch!LeastNat
<1>4. q \in Sizes /\ l <= TrailingZeros[q] /\ TrailingZeros[q] # l /\ q \in Nat \ {0} /\ TrailingZeros[q] \in Nat
  BY <1>3, Halving
<1>5. q # 1
  <2>1. q = 1 => TrailingZeros[q] = 0
    BY <1>4, TreeAssumption
  <2> QED
    BY <1>4, <2>1
<1>6. PICK h : h = q \div 2
  OBVIOUS
<1>7. h \in Sizes /\ h \in Nat \ {0} /\ q = 2 * h /\ TrailingZeros[q] = TrailingZeros[h] + 1 /\ TrailingZeros[h] \in Nat
  BY <1>4, <1>5, <1>6, Halving
<1>8. l <= TrailingZeros[h]
  BY <1>4, <1>7
<1>9. h \in U
  BY <1>3, <1>7, <1>8
<1>10. q <= h
  BY <1>3, <1>9
<1> QED
  BY <1>7, <1>10

LEMMA TreesDouble ==
  ASSUME NEW n \in Sizes, NEW d, d = TrailingZeros[n]
  PROVE  Batch!Doubling(d)
<1>1. d \in Nat
  BY Halving
<1>2. \A l \in 0..d : \E m \in Sizes : TrailingZeros[m] = l /\ 2 ^ l = m
  BY LevelSize, TreeAssumption
<1>3. \A l \in 0..d : 2 ^ l \in Nat \ {0}
  BY <1>2, TreeAssumption
<1>4. \A m \in Sizes : TrailingZeros[m] = 0 => m = 1
  BY Halving
<1>5. 2 ^ 0 = 1
  <2>1. 0 \in 0..d
    BY <1>1
  <2> QED
    BY <1>2, <1>4, <2>1
<1>6. ASSUME NEW l \in 1..d
      PROVE  2 ^ l = 2 * 2 ^ (l - 1)
  <2>1. PICK m \in Sizes : TrailingZeros[m] = l /\ 2 ^ l = m
    BY <1>1, <1>2
  <2>2. m # 1
    BY <2>1, TreeAssumption
  <2>3. PICK h : h = m \div 2
    OBVIOUS
  <2>4. h \in Sizes /\ m = 2 * h /\ TrailingZeros[m] = TrailingZeros[h] + 1 /\ TrailingZeros[h] \in Nat
    BY <2>2, <2>3, Halving
  <2>5. TrailingZeros[h] = l - 1
    BY <2>1, <2>4
  <2>6. h = 2 ^ (l - 1)
    BY <2>4, <2>5, TreeAssumption
  <2> QED
    BY <2>1, <2>4, <2>6
<1> QED
  BY <1>1, <1>3, <1>5, <1>6 DEF Batch!Doubling

LEMMA BatchFits == Batch!Fits
  BY OpenAssumption, TreesDouble DEF Batch!Fits

-----------------------------------------------------------------------------
(* The digests of the openings are the nodes that the pool has written.            *)
IsDigest(t, k) ==
    /\ t[k].level \in 0..depth /\ t[k].index \in 0..(2 ^ t[k].level - 1)
    /\ t[k] = Batch!Digest(t[k].level, t[k].index)

Hashed ==
    /\ data = [k \in Leaves(numLeaves) |-> <<k, k>>]
    /\ depth = LeafLevel
    /\ \A k \in written : IsDigest(tree, k)
    /\ stage = "done" =>
        /\ 2 * numLeaves - 2 \in written
        /\ tree[2 * numLeaves - 2].level = 0 /\ tree[2 * numLeaves - 2].index = 0

LEMMA DepthDoubles ==
  ASSUME TreeInv, Hashed
  PROVE  depth \in {TrailingZeros[n] : n \in Sizes} /\ Batch!Doubling(depth) /\ 2 ^ depth = numLeaves
<1>1. numLeaves \in Sizes /\ depth = TrailingZeros[numLeaves]
  BY DEF TreeInv, Shape, Hashed, LeafLevel
<1>2. Batch!Doubling(depth)
  BY <1>1, TreesDouble
<1> QED
  BY <1>1, <1>2, TreeAssumption

(* A leaf is hashed as the openings have it. *)
LEMMA LeafDigests ==
  ASSUME TreeInv, Hashed, NEW t, NEW k \in Leaves(numLeaves), t[k] = Hash("leaf", LeafLevel, k, data[k])
  PROVE  IsDigest(t, k)
<1>1. depth \in {TrailingZeros[n] : n \in Sizes} /\ Batch!Doubling(depth) /\ 2 ^ depth = numLeaves /\ depth = LeafLevel
  BY DepthDoubles DEF Hashed
<1>2. t[k].level = depth /\ t[k].index = k /\ data[k] = <<k, k>>
  BY <1>1, Fields DEF Hashed
<1>3. PICK l : l = depth
  OBVIOUS
<1>4. l \in 0..depth /\ k \in 0..(2 ^ l - 1)
  BY <1>1, <1>3 DEF Leaves, Batch!Doubling
<1>5. Batch!Digest(l, k) = Batch!Hash("leaf", l, k, <<k, k>>)
  BY <1>1, <1>3, <1>4, Batch!DigestIs
<1>6. t[k] = Batch!Digest(l, k)
  BY <1>1, <1>2, <1>3, <1>5 DEF Hash, Batch!Hash
<1> QED
  BY <1>2, <1>3, <1>4, <1>6 DEF IsDigest

(* And so is a node, if its children are. *)
LEMMA NodeDigests ==
  ASSUME TreeInv, Hashed, NEW t, NEW k, NEW c, NEW d, NEW l \in Nat, NEW m \in Nat,
         t[k] = Hash("node", l, m, <<tree[c], tree[d]>>), IsDigest(tree, c), IsDigest(tree, d),
         tree[c].level = l + 1, tree[d].level = l + 1, tree[c].index = 2 * m, tree[d].index = 2 * m + 1
  PROVE  IsDigest(t, k)
<1>1. depth \in {TrailingZeros[n] : n \in Sizes} /\ Batch!Doubling(depth) /\ depth \in Nat
  BY DepthDoubles DEF Batch!Doubling
<1>2. t[k].level = l /\ t[k].index = m
  BY Fields
<1>3. PICK j : j = l + 1
  OBVIOUS
<1>4. /\ j \in 0..depth /\ 2 * m + 1 \in 0..(2 ^ j - 1)
      /\ tree[c] = Batch!Digest(j, 2 * m) /\ tree[d] = Batch!Digest(j, 2 * m + 1)
  BY <1>3 DEF IsDigest
<1>5. l \in 0..depth /\ l # depth /\ j \in 1..depth /\ l = j - 1
  BY <1>1, <1>3, <1>4
<1>6. 2 ^ j = 2 * 2 ^ l /\ 2 ^ l \in Nat
  BY <1>1, <1>5 DEF Batch!Doubling
<1>7. m \in 0..(2 ^ l - 1)
  <2>1. PICK a, b : a = 2 ^ l /\ b = 2 ^ j
    OBVIOUS
  <2>2. a \in Nat /\ b = 2 * a /\ 2 * m + 1 \in 0..(b - 1)
    BY <1>4, <1>6, <2>1
  <2>3. m \in 0..(a - 1)
    BY <2>2
  <2> QED
    BY <2>1, <2>3
<1>8. Batch!Digest(l, m) = Batch!Hash("node", l, m, <<Batch!Digest(l + 1, 2 * m), Batch!Digest(l + 1, 2 * m + 1)>>)
  BY <1>1, <1>5, <1>7, Batch!DigestIs
<1>9. t[k] = Batch!Digest(l, m)
  BY <1>3, <1>4, <1>8 DEF Hash, Batch!Hash
<1> QED
  BY <1>2, <1>5, <1>7, <1>9 DEF IsDigest

(* A step leaves a digest where it is.                                             *)
LEMMA DigestStays ==
  ASSUME depth' = depth, NEW k, tree'[k] = tree[k], IsDigest(tree, k)
  PROVE  IsDigest(tree, k)'
  BY DEF IsDigest, Batch!Digest

LEMMA HashLeavesHashed ==
  ASSUME TreeInv, Hashed, depth' = depth, NEW c \in Leaves(numLeaves), HashLeaves(c)
  PROVE  Hashed'
<1>1. TreeInv' /\ Kept
  BY HashLeavesInv
<1>2. /\ stage = "leaves" /\ UNCHANGED <<numLeaves, data, stage>> /\ LeafLevel' = LeafLevel
      /\ written' = written \cup Chunk(c, numLeaves)
      /\ tree' = [k \in DOMAIN tree |-> IF k \in Chunk(c, numLeaves)
                        THEN Hash("leaf", LeafLevel, k, data[k]) ELSE tree[k]]
  BY LeafTask DEF LeafLevel
<1>3. ASSUME NEW k \in Chunk(c, numLeaves)
      PROVE  IsDigest(tree, k)'
  <2>1. k \in Leaves(numLeaves)
    BY DEF Chunk, Leaves
  <2>2. numLeaves \in Nat \ {0} /\ DOMAIN tree = 0..(2 * numLeaves - 2)
    BY Halving DEF TreeInv, Shape
  <2>3. k \in DOMAIN tree
    BY <2>1, <2>2 DEF Leaves
  <2>4. PICK t : t = tree'
    OBVIOUS
  <2>5. t[k] = Hash("leaf", LeafLevel, k, data[k])
    BY <1>2, <2>3, <2>4
  <2>6. IsDigest(t, k)
    BY <2>1, <2>5, LeafDigests
  <2> QED
    BY <2>4, <2>6 DEF IsDigest, Batch!Digest
<1>4. ASSUME NEW k \in written
      PROVE  IsDigest(tree, k)'
  BY <1>1, DigestStays DEF Hashed, Kept
<1>5. \A k \in written' : IsDigest(tree, k)'
  BY <1>2, <1>3, <1>4
<1>6. data' = [k \in Leaves(numLeaves)' |-> <<k, k>>]
  BY <1>2 DEF Hashed, Leaves
<1> QED
  BY <1>2, <1>5, <1>6 DEF Hashed

LEMMA HashNodesHashed ==
  ASSUME TreeInv, Hashed, depth' = depth, NEW c \in Leaves(numLeaves), HashNodes(c)
  PROVE  Hashed'
<1>1. TreeInv' /\ Kept
  BY HashNodesInv
<1>2. /\ stage = "nodes" /\ UNCHANGED <<numLeaves, data, stage, readStart, readLen, nodeLevel>>
      /\ UNCHANGED <<WriteStart, NextLen, LeafLevel>>
  BY NodeTask DEF WriteStart, NextLen, LeafLevel
<1>3. /\ readLen \in Sizes /\ readLen # 1 /\ readStart \in Nat
      /\ nodeLevel = TrailingZeros[readLen] - 1 /\ readStart + 2 * readLen = 2 * numLeaves
      /\ written = (0..(WriteStart - 1)) \cup Reached(WriteStart, NextLen)
  BY <1>2 DEF TreeInv, Layout
<1>4. /\ written' = (0..(WriteStart - 1)) \cup Reached(WriteStart, NextLen)'
      /\ \A k \in Reached(WriteStart, NextLen)' : tree'[k].level = nodeLevel /\ tree'[k].index = k - WriteStart
  <2>1. /\ (written = (0..(WriteStart - 1)) \cup Reached(WriteStart, NextLen))'
        /\ Located(Reached(WriteStart, NextLen), nodeLevel, WriteStart)'
    BY <1>1, <1>2 DEF TreeInv, Layout
  <2> QED
    BY <1>2, <2>1 DEF Located
<1>5. /\ nodeLevel \in Nat /\ NextLen \in Nat \ {0} /\ WriteStart \in Nat /\ numLeaves \in Nat \ {0}
      /\ numLeaves <= WriteStart
  <2>1. /\ NextLen \in Sizes /\ NextLen \in Nat \ {0} /\ readLen = 2 * NextLen /\ readLen \in Nat
        /\ TrailingZeros[readLen] = TrailingZeros[NextLen] + 1 /\ TrailingZeros[NextLen] \in Nat
    BY <1>3, Halving DEF NextLen
  <2>2. numLeaves \in Nat \ {0}
    BY Halving DEF TreeInv, Shape
  <2>3. nodeLevel \in Nat
    BY <1>3, <2>1
  <2>4. WriteStart = readStart + readLen
    BY DEF WriteStart
  <2> QED
    BY <1>3, <2>1, <2>2, <2>3, <2>4
<1>6. ASSUME NEW k \in written', k \notin written
      PROVE  IsDigest(tree, k)'
  <2>1. k \in Reached(WriteStart, NextLen)'
    BY <1>3, <1>4, <1>6
  <2>2. tree'[k].level = nodeLevel /\ tree'[k].index = k - WriteStart
    BY <1>4, <2>1
  <2>3. k \in WriteStart..(WriteStart + NextLen - 1)
    BY <1>2, <2>1 DEF Reached
  <2>4. ~(k < numLeaves) /\ k - WriteStart \in Nat
    BY <1>5, <2>3
  <2>5. Joins(k)'
    BY <1>1, <1>2, <2>4 DEF TreeInv, WellFormed
  <2>6. PICK t, m, p, q : t = tree' /\ m = k - WriteStart /\ p = ChildAt(k, 0) /\ q = ChildAt(k, 1)
    OBVIOUS
  <2>7. ChildAt(k, 0)' = p /\ ChildAt(k, 1)' = q
    BY <1>2, <2>6 DEF ChildAt
  <2>8. /\ t[k] = Hash("node", nodeLevel, m, <<t[p], t[q]>>)
        /\ p \in written' /\ q \in written'
        /\ t[p].level = nodeLevel + 1 /\ t[q].level = nodeLevel + 1
        /\ t[p].index = 2 * m + 0 /\ t[q].index = 2 * m + 1
    BY <2>2, <2>5, <2>6, <2>7 DEF Joins
  <2>9. p \in written /\ q \in written
    <3>1. nodeLevel # nodeLevel + 1
      BY <1>5
    <3> QED
      BY <1>3, <1>4, <2>6, <2>8, <3>1
  <2>10. t[p] = tree[p] /\ t[q] = tree[q]
    BY <1>1, <2>6, <2>9 DEF Kept
  <2>11. IsDigest(tree, p) /\ IsDigest(tree, q)
    BY <2>9 DEF Hashed
  <2>12. m \in Nat /\ nodeLevel \in Nat /\ 2 * m + 0 = 2 * m
    BY <1>5, <2>4, <2>6
  <2>13. PICK l : l = nodeLevel
    OBVIOUS
  <2>14. IsDigest(t, k)
    <3>1. l \in Nat /\ m \in Nat /\ t[k] = Hash("node", l, m, <<tree[p], tree[q]>>)
      BY <2>8, <2>10, <2>12, <2>13
    <3>2. tree[p].level = l + 1 /\ tree[q].level = l + 1 /\ tree[p].index = 2 * m /\ tree[q].index = 2 * m + 1
      BY <2>8, <2>10, <2>12, <2>13
    <3> QED
      BY <2>11, <3>1, <3>2, NodeDigests
  <2> QED
    BY <2>6, <2>14 DEF IsDigest, Batch!Digest
<1>7. ASSUME NEW k \in written
      PROVE  IsDigest(tree, k)'
  BY <1>1, DigestStays DEF Hashed, Kept
<1>8. \A k \in written' : IsDigest(tree, k)'
  BY <1>6, <1>7
<1>9. data' = [k \in Leaves(numLeaves)' |-> <<k, k>>]
  BY <1>2 DEF Hashed, Leaves
<1> QED
  BY <1>2, <1>8, <1>9 DEF Hashed

(* The last level is one node, the root.                                           *)
LEMMA EndHashed ==
  ASSUME TreeInv, Hashed, depth' = depth, LeavesDone \/ LevelDone
  PROVE  Hashed'
<1>1. numLeaves \in Sizes /\ numLeaves \in Nat \ {0}
  BY Halving DEF TreeInv, Shape
<1>2. UNCHANGED <<numLeaves, data, tree, written>> /\ LeafLevel' = LeafLevel
  BY DEF LeavesDone, LevelDone, LeafLevel
<1>3. \A k \in written' : IsDigest(tree, k)'
  BY <1>2, DigestStays DEF Hashed
<1>4. data' = [k \in Leaves(numLeaves)' |-> <<k, k>>]
  BY <1>2 DEF Hashed, Leaves
<1>5. PICK r : r = 2 * numLeaves - 2
  OBVIOUS
<1>6. TrailingZeros[1] = 0 \/ 1 \notin Sizes
  BY TreeAssumption
<1>7. ASSUME stage' = "done"
      PROVE  r \in written /\ tree[r].level = 0 /\ tree[r].index = 0
  <2>1. CASE LeavesDone
    <3>1. /\ stage = "leaves" /\ readLen = numLeaves /\ nodeLevel = TrailingZeros[numLeaves]
          /\ written = Reached(0, numLeaves) /\ Located(written, nodeLevel, 0) /\ Complete(numLeaves)
      BY <2>1 DEF LeavesDone, TreeInv, Layout, LeafLevel
    <3>2. ~(readLen > 1)
      BY <1>7, <2>1 DEF LeavesDone, Ascend
    <3>3. numLeaves = 1 /\ r = 0 /\ nodeLevel = 0
      BY <1>1, <1>5, <1>6, <3>1, <3>2
    <3>4. 0 \in 0..(numLeaves - 1) /\ 0 \in 0..(0 + numLeaves - 1) /\ 0 - 0 = 0
      BY <3>3
    <3>5. TaskOf(0) \in tasks
      BY <3>1, <3>4 DEF Complete
    <3>6. 0 \in Reached(0, numLeaves)
      BY <3>4, <3>5 DEF Reached
    <3> QED
      BY <3>1, <3>3, <3>4, <3>6 DEF Located
  <2>2. CASE LevelDone
    <3>1. /\ stage = "nodes" /\ readLen \in Sizes /\ readLen # 1 /\ readStart \in Nat
          /\ readStart + 2 * readLen = 2 * numLeaves /\ nodeLevel = TrailingZeros[readLen] - 1
          /\ written = (0..(WriteStart - 1)) \cup Reached(WriteStart, NextLen)
          /\ Located(Reached(WriteStart, NextLen), nodeLevel, WriteStart) /\ Complete(NextLen)
      BY <2>2 DEF LevelDone, TreeInv, Layout
    <3>2. /\ NextLen \in Sizes /\ NextLen \in Nat \ {0} /\ readLen = 2 * NextLen
          /\ TrailingZeros[readLen] = TrailingZeros[NextLen] + 1
      BY <3>1, Halving DEF NextLen
    <3>3. ~(NextLen > 1)
      BY <1>7, <2>2 DEF LevelDone, Ascend
    <3>4. NextLen = 1 /\ readLen = 2 /\ nodeLevel = 0
      BY <1>6, <3>1, <3>2, <3>3
    <3>5. WriteStart = r /\ r \in Nat
      BY <1>1, <1>5, <3>1, <3>4 DEF WriteStart
    <3>6. r - r = 0 /\ 0 \in 0..(NextLen - 1) /\ r \in r..(r + NextLen - 1)
      BY <3>4, <3>5
    <3>7. TaskOf(0) \in tasks
      BY <3>1, <3>6 DEF Complete
    <3>8. r \in Reached(r, NextLen)
      BY <3>6, <3>7 DEF Reached
    <3> QED
      BY <3>1, <3>4, <3>5, <3>6, <3>8 DEF Located
  <2> QED
    BY <2>1, <2>2
<1> QED
  BY <1>2, <1>3, <1>4, <1>5, <1>7 DEF Hashed

LEMMA StillHashed ==
  ASSUME Hashed, depth' = depth, UNCHANGED vars
  PROVE  Hashed'
<1>1. \A k \in written : IsDigest(tree, k)'
  BY DigestStays DEF Hashed, vars
<1> QED
  BY <1>1 DEF Hashed, vars, Leaves, LeafLevel

LEMMA NextHashed ==
  ASSUME TreeInv, Hashed, depth' = depth, [Next]_vars
  PROVE  Hashed'
  BY HashLeavesHashed, HashNodesHashed, EndHashed, StillHashed DEF Next, Done

-----------------------------------------------------------------------------
MatrixInv == TreeInv /\ Hashed /\ Batch!IInv

LEMMA SameDepth == ASSUME [Opening!Next]_served PROVE depth' = depth
  BY DEF Opening!Next, Opening!Request, Opening!Open, Opening!Emit, Opening!Ascend, Opening!Deliver, Opening!Alter,
         Opening!Forge, Opening!Present, Opening!Start, Opening!CheckShape, Opening!Reject, Opening!Conclude,
         Opening!JoinNext, Opening!Join, Opening!CheckRoot, Opening!Done, Opening!vars, served

LEMMA MatrixInitInv == MatrixInit => MatrixInv
<1> SUFFICES ASSUME MatrixInit PROVE MatrixInv
  OBVIOUS
<1>1. TreeInv
  BY TreeInit DEF MatrixInit
<1>2. Hashed
  BY DEF MatrixInit, Init, Hashed
<1>3. Batch!IInv
  BY SameOpenings, Batch!InitIInv DEF MatrixInit
<1> QED
  BY <1>1, <1>2, <1>3 DEF MatrixInv

LEMMA MatrixNextInv == ASSUME MatrixInv, [MatrixNext]_matrix PROVE MatrixInv'
<1>1. [Next]_vars /\ [Opening!Next]_served
  BY DEF MatrixNext, Build, Grind, Serve, matrix
<1>2. TreeInv' /\ Hashed'
  BY <1>1, TreeNext, SameDepth, NextHashed DEF MatrixInv
<1>3. [Batch!Next]_(Batch!vars)
  BY <1>1, SameOpenings DEF served, Batch!vars
<1>4. Batch!IInv'
  BY <1>3, BatchFits, Batch!NextIInv DEF MatrixInv
<1> QED
  BY <1>2, <1>4 DEF MatrixInv

LEMMA RootIsOpened == MatrixInv => RootIsTheOpened
<1> SUFFICES ASSUME MatrixInv, stage = "done" PROVE tree[2 * numLeaves - 2] = Opening!Root
  BY DEF RootIsTheOpened
<1>1. PICK r : r = 2 * numLeaves - 2
  OBVIOUS
<1>2. r \in written /\ tree[r].level = 0 /\ tree[r].index = 0 /\ IsDigest(tree, r)
  BY <1>1 DEF MatrixInv, Hashed
<1>3. tree[r] = Batch!Digest(0, 0)
  BY <1>2 DEF IsDigest
<1> QED
  BY <1>1, <1>3, SameDigests DEF Opening!Root, Opening!Digest, Batch!Digest

(* The root that the pool computes is the one that openings are verified against, and *)
(* every opening is that of the set of positions asked for, at every number of        *)
(* rows, schedule of the pool, order and repetition of the request (merkle.rs 721).    *)
THEOREM RowsAreOpened == MatrixSpec => []OpensTheSet
<1>1. MatrixInv => OpensTheSet
  BY RootIsOpened, BatchFits, SameClaims, Batch!IInvSays DEF MatrixInv, OpensTheSet
<1> QED
  BY <1>1, MatrixInitInv, MatrixNextInv, PTL DEF MatrixSpec

(* The verifier accepts the honest opening of a set and nothing else, whatever it is   *)
(* shown: any rows, salts, positions and siblings (commitment.rs 115-147, merkle.rs        *)
(* 545-630).                                                                            *)
THEOREM OnlyTheRowsPass == MatrixSpec => []AcceptsOnlyHonest
<1>1. MatrixInv => AcceptsOnlyHonest
  BY BatchFits, SameClaims, Batch!IInvSays DEF MatrixInv, AcceptsOnlyHonest
<1> QED
  BY <1>1, MatrixInitInv, MatrixNextInv, PTL DEF MatrixSpec
=============================================================================
