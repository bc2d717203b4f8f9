---------------------------- MODULE MerkleMatrix ----------------------------
(* A committed matrix: its tree is built by the thread pool, a nonce is ground     *)
(* for the queries, by both searches, and sets of its rows are opened and          *)
(* verified. The payload of a leaf is the pair of its salt and its row, here the   *)
(* pair of the row's number with itself.                                          *)
EXTENDS MerkleTree, Grinding

CONSTANTS Foreign, MAX_OPEN, FREE_DEPTH, FREE_OPEN,
          HitsOf  \* number of leaves -> the sets of hits its grind may meet

ASSUME OpenAssumption == MAX_OPEN \in Nat /\ FREE_OPEN \in Nat

VARIABLES depth, pc, opening, level, active, i, next, used

Opening == INSTANCE MultiProof WITH Depths <- {TrailingZeros[n] : n \in Sizes}

served == <<depth, pc, opening, level, active, i, next, used>>
matrix == <<vars, grindVars, served>>

MatrixInit ==
    /\ numLeaves \in Sizes
    /\ data = [k \in Leaves(numLeaves) |-> <<k, k>>]
    /\ Init
    /\ GrindInit /\ hits \in HitsOf[numLeaves]
    /\ depth = LeafLevel
    /\ Opening!Init

(* The challenges that a nonce is ground for bind the root, and the queries the nonce. *)
Ground == found # None /\ result # None
Build == stage # "done" /\ Next /\ UNCHANGED <<grindVars, served>>
Grind == stage = "done" /\ ~Ground /\ GrindNext /\ UNCHANGED <<vars, served>>
Serve == stage = "done" /\ Ground /\ Opening!Next /\ UNCHANGED <<vars, grindVars>>

MatrixNext == Build \/ Grind \/ Serve
(* The threads of the pool go on building and hashing until they are done. *)
MatrixFairness == WF_matrix(Build) /\ WF_matrix(Grind /\ Try) /\ WF_matrix(Grind /\ EndBlock)
                    /\ WF_matrix(Grind /\ \E n \in Nonces : Test(n))
MatrixSpec == MatrixInit /\ [][MatrixNext]_matrix /\ MatrixFairness

-----------------------------------------------------------------------------
RootIsTheOpened == stage = "done" => tree[2 * numLeaves - 2] = Opening!Root

(* The last node the pool writes is the root that openings are verified against,   *)
(* the digest of the rows by the definition of a Merkle tree (merkle.rs 451); an    *)
(* opening of MultiProof is, on the tree as it was built, that of the set asked for. *)
OpensTheSet == RootIsTheOpened /\ Opening!OpensTheSet
(* No opening but the one that was made is accepted for a set on that tree. *)
AcceptsOnlyHonest == Opening!AcceptsOnlyHonest

-----------------------------------------------------------------------------
(* The run's instance: matrices of one to eight rows, so that a level is cut into   *)
(* several tasks, into one, and into part of one; eight nonces in blocks of three,  *)
(* the last cut short. The matrix of one row meets every set of hits, the others    *)
(* the first nonce alone.                                                          *)
MCTrailingZeros == [n \in Sizes |-> CHOOSE k \in 0..n : 2 ^ k = n]
MCPayload == {<<k, k>> : k \in 0..7}
MCForeign == -1
MCHitsOf == [n \in Sizes |-> IF n = 1 THEN SUBSET Nonces ELSE {{0}}]
=============================================================================
