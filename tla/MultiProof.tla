----------------------------- MODULE MultiProof -----------------------------
(***************************************************************************)
(* Batched openings of a Merkle tree: MerkleMatrix::open with               *)
(* merkle_multi_proof, and MerkleMatrixOpening::verify with                 *)
(* verify_merkle_multi_proof_framed.  Prover and verifier walk the tree     *)
(* from the leaves up with the same loop over a sorted list of positions;    *)
(* the prover emits a sibling where the verifier will miss one.             *)
(*                                                                         *)
(* A digest is the point it was hashed at (see MerkleTree), so there are no *)
(* collisions.  Leaf p has salt p and row p: what matters is which is which. *)
(***************************************************************************)
EXTENDS Integers, Sequences, FiniteSets, SequencesExt

CONSTANTS
    Depths,     \* depths of the trees
    Foreign,    \* a salt or row that no leaf has
    MAX_OPEN,   \* bound: longest request
    FREE_DEPTH, \* bound: depth of the trees with arbitrary openings
    FREE_OPEN   \* bound: positions of an arbitrary opening

Hash(role, level, index, payload) ==
    [role |-> role, level |-> level, index |-> index, payload |-> payload]

VARIABLES
    depth,            \* of the committed matrix
    pc,               \* "ask", "open", "sent", "shape", "check", "accept" or "reject"
    opening,          \* what the prover builds and the verifier is shown
    level,            \* level of the active nodes
    active,           \* positions still to be joined at this level, the verifier's with digests
    i,                \* index of the next of them
    next,             \* those of the level above
    used              \* siblings the verifier has taken

vars == <<depth, pc, opening, level, active, i, next, used>>
walk == <<level, active, i, next, used>>

NumRows == 2 ^ depth

(* The committed trees: level by level, the leaves at the last. *)
Digests ==
    [n \in Depths |->
        LET d[l \in 0..n] ==
                [k \in 0..(2 ^ l - 1) |->
                    IF l = n THEN Hash("leaf", l, k, <<k, k>>)
                    ELSE Hash("node", l, k, <<d[l + 1][2 * k], d[l + 1][2 * k + 1]>>)]
        IN  d]

Digest(l, k) == Digests[depth][l][k]

Root == Digest(0, 0)

(* p ^ 1 *)
Sibling(p) == IF p % 2 = 0 THEN p + 1 ELSE p - 1

(* Mutant: position 2 counts as the sibling of position 1. *)
MutPaired(a, k) == k < Len(a) /\ a[k + 1].pos = a[k].pos + 1

Paired(a, k) == k < Len(a) /\ a[k + 1].pos = Sibling(a[k].pos)

Parent(p) == p \div 2

Nodes(ps) == [k \in DOMAIN ps |-> [pos |-> ps[k]]]
NoOpening == [positions |-> <<>>, rows |-> <<>>, salts |-> <<>>, siblings |-> <<>>]

Init ==
    /\ depth \in Depths
    /\ pc = "ask" /\ opening = NoOpening
    /\ level = depth /\ active = <<>> /\ i = 1 /\ next = <<>> /\ used = 0

(* The elements of a set of numbers in order: the k-th has k - 1 below it. *)
Ascending(S) == [k \in 1..Cardinality(S) |-> CHOOSE x \in S : Cardinality({y \in S : y < x}) = k - 1]

-----------------------------------------------------------------------------
(* MerkleMatrix::open sorts and deduplicates, and takes rows and salts. *)
Open(ps) ==
    LET sorted == Ascending(ToSet(ps))
    IN  /\ opening' = [positions |-> sorted,
                       rows |-> sorted,
                       salts |-> sorted,
                       siblings |-> <<>>]
        /\ active' = IF depth = 0 THEN <<>> ELSE Nodes(sorted)
        /\ pc' = IF sorted = <<>> \/ depth = 0 THEN "sent" ELSE "open"
        /\ UNCHANGED <<depth, level, i, next, used>>

(* merkle_multi_proof: a pair needs nothing, a lone node needs its sibling. *)
Emit ==
    LET p == active[i].pos
    IN  /\ pc = "open" /\ i <= Len(active)
        /\ IF Paired(active, i)
           THEN i' = i + 2 /\ UNCHANGED opening
           ELSE /\ opening' = [opening EXCEPT !.siblings = Append(@, Digest(level, Sibling(p)))]
                /\ i' = i + 1
        /\ next' = Append(next, [pos |-> Parent(p)])
        /\ UNCHANGED <<depth, pc, level, active, used>>

(* Both loops go up a level once the list is exhausted. *)
Ascend ==
    /\ pc \in {"open", "check"} /\ i > Len(active) /\ level > 0
    /\ level' = level - 1 /\ active' = next /\ next' = <<>> /\ i' = 1
    /\ pc' = IF pc = "open" /\ level = 1 THEN "sent" ELSE pc
    /\ UNCHANGED <<depth, opening, used>>

-----------------------------------------------------------------------------
(* The opening reaches the verifier as it is, or anything else does. *)
Junk == Hash("junk", 0, 0, <<>>)
Start(o) ==
    /\ opening' = o
    /\ pc' = "shape" /\ level' = depth /\ active' = <<>> /\ i' = 1 /\ next' = <<>> /\ used' = 0
    /\ UNCHANGED depth

Deliver == pc = "sent" /\ Start(opening)

Drop(s) == IF s = <<>> THEN s ELSE Front(s)

(* Something close to an honest opening. *)
Alter ==
    /\ pc = "sent"
    /\ \/ Start([opening EXCEPT !.siblings = Append(@, Junk)])
       \/ Start([opening EXCEPT !.siblings = Drop(@)])
       \/ Start([opening EXCEPT !.siblings = Reverse(@)])
       \/ Start([opening EXCEPT !.rows = Drop(@)])
       \/ Start([opening EXCEPT !.salts = Drop(@)])
       \/ Start([opening EXCEPT !.positions = Reverse(@)])

(* Any positions, with any siblings, and with the salts and rows of these or others. *)
Present(ps, salts, rows, siblings) ==
    Start([positions |-> ps, rows |-> rows, salts |-> salts, siblings |-> siblings])

-----------------------------------------------------------------------------
Reject == pc' = "reject" /\ UNCHANGED <<depth, opening, walk>>
Conclude(b) == pc' = (IF b THEN "accept" ELSE "reject") /\ UNCHANGED <<depth, opening, walk>>

(* The lengths agree, and the positions are in range and strictly ascending. *)
WellShaped(o) ==
    /\ Len(o.rows) = Len(o.positions) /\ Len(o.salts) = Len(o.positions)
    /\ \A k \in DOMAIN o.positions :
        /\ o.positions[k] < NumRows
        /\ k > 1 => o.positions[k - 1] < o.positions[k]

CheckShape ==
    /\ pc = "shape"
    /\ IF ~WellShaped(opening) THEN Reject
       ELSE IF opening.positions = <<>> THEN Conclude(opening.siblings = <<>>)
       ELSE /\ pc' = "check"
            /\ active' = [k \in DOMAIN opening.positions |->
                  LET p == opening.positions[k]
                  IN  [pos |-> p,
                       hash |-> Hash("leaf", depth, p, <<opening.salts[k], opening.rows[k]>>)]]
            /\ UNCHANGED <<depth, opening, level, i, next, used>>

(* Two active siblings are joined; a lone node is joined with the next sibling of  *)
(* the proof, if there is one.                                                     *)
Join(left, right, p, step, taken) ==
    /\ next' = Append(next, [pos |-> Parent(p), hash |-> Hash("node", level - 1, Parent(p), <<left, right>>)])
    /\ i' = i + step /\ used' = used + taken
    /\ UNCHANGED <<depth, pc, opening, level, active>>

JoinNext ==
    LET p == active[i].pos
        h == active[i].hash
    IN  /\ pc = "check" /\ level > 0 /\ i <= Len(active)
        /\ IF Paired(active, i)
           THEN IF p % 2 # 0 THEN Reject ELSE Join(h, active[i + 1].hash, p, 2, 0)
           ELSE IF used = Len(opening.siblings) THEN Reject
           ELSE LET s == opening.siblings[used + 1]
                IN  IF p % 2 = 0 THEN Join(h, s, p, 1, 1) ELSE Join(s, h, p, 1, 1)

(* Mutant: siblings may be left over. *)
MutMatches == Len(active) = 1 /\ active[1].hash = Root

(* No sibling is left over and the root is the commitment's. *)
Matches == used = Len(opening.siblings) /\ Len(active) = 1 /\ active[1].hash = Root

CheckRoot == pc = "check" /\ level = 0 /\ Conclude(Matches)

Done == pc \in {"accept", "reject"} /\ UNCHANGED vars

SeqsUpTo(S, n) == UNION {[1..m -> S] : m \in 0..n}
NodeDigests == UNION {{Digest(l, k) : k \in 0..(2 ^ l - 1)} : l \in 0..depth}

Request ==
    /\ pc = "ask"
    /\ \E ps \in SeqsUpTo(0..(NumRows - 1), MAX_OPEN) : Open(ps)

Forge ==
    /\ pc = "ask" /\ depth <= FREE_DEPTH
    /\ \E ps \in SeqsUpTo(0..NumRows, FREE_OPEN) :
       \E salts, rows \in {ps, [k \in DOMAIN ps |-> 0], [k \in DOMAIN ps |-> Foreign]} :
       \E siblings \in SeqsUpTo(NodeDigests \cup {Junk}, depth) :
          Present(ps, salts, rows, siblings)

Next ==
    \/ Request \/ Emit \/ Ascend \/ Deliver \/ Alter \/ Forge
    \/ CheckShape \/ JoinNext \/ CheckRoot \/ Done

Spec == Init /\ [][Next]_vars

-----------------------------------------------------------------------------
(* The opening of a set of positions by its definition: level by level, in order,  *)
(* the siblings of the nodes above the positions that are not such nodes.           *)
Above(P, l) == {p \div 2 ^ (depth - l) : p \in P}

NeededAt(P, l) ==
    Ascending({Sibling(p) : p \in Above(P, l)} \ Above(P, l))

Needed(P) ==
    FlattenSeq([k \in 1..depth |->
        LET l == depth + 1 - k IN [j \in DOMAIN NeededAt(P, l) |-> Digest(l, NeededAt(P, l)[j])]])

HonestOpening(P) ==
    LET ps == Ascending(P)
    IN  [positions |-> ps, rows |-> ps, salts |-> ps, siblings |-> Needed(P)]

(* Whatever positions are asked for, in whatever order and how often, the opening is  *)
(* the one of their set: every missing sibling once, none that can be computed        *)
(* (merkle.rs 721-724).                                                               *)
OpensTheSet == pc = "sent" => opening = HonestOpening(ToSet(opening.positions))

(* The one opening of a set of positions that is accepted is the honest one: no other *)
(* row, salt, order, sibling or length passes, and the honest one always does.        *)
AcceptsOnlyHonest ==
    pc \in {"accept", "reject"} =>
        (pc = "accept" <=> opening = HonestOpening(ToSet(opening.positions) \cap (0..(NumRows - 1))))
=============================================================================
