----------------------------- MODULE MerkleTree -----------------------------
(***************************************************************************)
(* The framed Merkle tree (merkle_tree_framed, flock-core/src/merkle.rs):  *)
(* a flat array, leaves first and the root last, in uninitialised memory.  *)
(* A thread pool writes a level in chunks of Lanes nodes, in any order;     *)
(* the next level starts when the one below is complete.                   *)
(*                                                                         *)
(* A digest is the point it was hashed at: role, level, index and payload.  *)
(* The header of the tree (channel, depth, nonce, leaf length) is the same  *)
(* for all of them and left out.                                            *)
(***************************************************************************)
EXTENDS Integers

CONSTANTS
    Sizes,          \* the numbers of leaves: powers of two, with their halves
    TrailingZeros,  \* u64::trailing_zeros of a size
    Lanes,          \* nodes a task hashes at a time: 4
    Payload,        \* leaf payloads
    Garbage         \* what uninitialised memory holds

ASSUME TreeAssumption ==
    /\ Sizes \subseteq Nat \ {0}
    /\ TrailingZeros \in [Sizes -> Nat]
    /\ \A n \in Sizes :
        IF n = 1 THEN TrailingZeros[n] = 0
        ELSE /\ n % 2 = 0 /\ n \div 2 \in Sizes
             /\ TrailingZeros[n] = TrailingZeros[n \div 2] + 1
    /\ \A n \in Sizes : n = 2 ^ TrailingZeros[n]
    /\ Lanes \in Nat \ {0}

VARIABLES
    numLeaves,   \* the arguments: the number of leaves
    data,        \* and their payloads
    tree,        \* the flat array
    tasks,       \* the tasks of the level that have run
    stage,       \* "leaves", "nodes" or "done"
    readStart,   \* where the level below starts
    readLen,     \* and how long it is
    nodeLevel,   \* level of the nodes being written
    written      \* history: the nodes some task has written

vars == <<numLeaves, data, tree, tasks, stage, readStart, readLen, nodeLevel, written>>

Hash(role, level, index, payload) ==
    [role |-> role, level |-> level, index |-> index, payload |-> payload]

Leaves(n) == 0..(n - 1)
LeafLevel == TrailingZeros[numLeaves]

Init ==
    /\ numLeaves \in Sizes /\ data \in [Leaves(numLeaves) -> Payload]
    /\ tree = [k \in 0..(2 * numLeaves - 2) |-> Garbage]
    /\ tasks = {} /\ written = {}
    /\ stage = "leaves"
    /\ readStart = 0 /\ readLen = numLeaves /\ nodeLevel = LeafLevel

(* par_chunks: the task that hashes node i of a level, and its nodes. *)
TaskOf(i) == i \div Lanes
Chunk(c, len) == {i \in 0..(len - 1) : TaskOf(i) = c}

(* Task c of a level that starts at first writes its nodes i as H(i). *)
Write(c, first, len, H(_)) ==
    LET at == {first + i : i \in Chunk(c, len)}
    IN  /\ at # {} /\ c \notin tasks
        /\ tasks' = tasks \cup {c}
        /\ tree' = [k \in DOMAIN tree |-> IF k \in at THEN H(k - first) ELSE tree[k]]
        /\ written' = written \cup at

HashLeaves(c) ==
    /\ stage = "leaves"
    /\ Write(c, 0, numLeaves, LAMBDA i : Hash("leaf", LeafLevel, i, data[i]))
    /\ UNCHANGED <<numLeaves, data, stage, readStart, readLen, nodeLevel>>

NextLen == readLen \div 2
WriteStart == readStart + readLen

(* Mutant: the index within the chunk is framed, not the one in the level. *)
MutNode(i) ==
    Hash("node", nodeLevel, i % Lanes, <<tree[readStart + 2 * i], tree[readStart + 2 * i + 1]>>)

Node(i) ==
    Hash("node", nodeLevel, i, <<tree[readStart + 2 * i], tree[readStart + 2 * i + 1]>>)

HashNodes(c) ==
    /\ stage = "nodes"
    /\ Write(c, WriteStart, NextLen, Node)
    /\ UNCHANGED <<numLeaves, data, stage, readStart, readLen, nodeLevel>>

(* Mutant: the loop over the levels does not wait for every task. *)
MutComplete(len) == 0 \in tasks

(* for_each has returned. *)
Complete(len) == \A i \in 0..(len - 1) : TaskOf(i) \in tasks

(* The loop goes on with a level of len nodes below, or ends. *)
Ascend(len) ==
    /\ tasks' = {}
    /\ IF len > 1 THEN stage' = "nodes" /\ nodeLevel' = nodeLevel - 1
       ELSE stage' = "done" /\ UNCHANGED nodeLevel

LeavesDone ==
    /\ stage = "leaves" /\ Complete(numLeaves)
    /\ Ascend(readLen)
    /\ UNCHANGED <<numLeaves, data, tree, readStart, readLen, written>>

(* Mutant: the next level is read from where it is to be written next. *)
MutAdvance == readStart + NextLen

Advance == readStart + readLen

LevelDone ==
    /\ stage = "nodes" /\ Complete(NextLen)
    /\ readStart' = Advance
    /\ readLen' = NextLen
    /\ Ascend(NextLen)
    /\ UNCHANGED <<numLeaves, data, tree, written>>

Done == stage = "done" /\ UNCHANGED vars

Next ==
    \/ \E c \in Leaves(numLeaves) : HashLeaves(c) \/ HashNodes(c)
    \/ LeavesDone \/ LevelDone \/ Done

Spec == Init /\ [][Next]_vars

-----------------------------------------------------------------------------
(* Child b of node k of the flat array. *)
ChildAt(k, b) == 2 * (k - numLeaves) + b

(* Node k is the hash of its two children, at twice its index one level down. *)
Joins(k) ==
    /\ tree[k] = Hash("node", tree[k].level, tree[k].index,
                      <<tree[ChildAt(k, 0)], tree[ChildAt(k, 1)]>>)
    /\ \A b \in {0, 1} :
        /\ ChildAt(k, b) \in written
        /\ tree[ChildAt(k, b)].level = tree[k].level + 1
        /\ tree[ChildAt(k, b)].index = 2 * tree[k].index + b

(* However the tasks interleave, a node is hashed from two nodes that were written *)
(* before it and sit right below it; so every node is hashed at a point of its     *)
(* own, and no uninitialised memory is ever read (merkle.rs 155-158, 282-284).      *)
WellFormed ==
    \A k \in written :
        IF k < numLeaves THEN tree[k] = Hash("leaf", LeafLevel, k, data[k]) ELSE Joins(k)

(* "every node is written exactly once" (merkle.rs 155-156). *)
WrittenOnce == [][\A k \in written : tree'[k] = tree[k]]_vars
=============================================================================
