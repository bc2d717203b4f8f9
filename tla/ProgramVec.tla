----------------------------- MODULE ProgramVec -----------------------------
(***************************************************************************)
(* A vector squeeze and its programming (OracleChallenger::program_next_vec *)
(* and sample_f128_vec).  The lock is taken and dropped for each block, so   *)
(* that other holders of the oracle come in between; a block holds two field *)
(* elements, of which the last block of an odd vector uses the first.        *)
(***************************************************************************)
EXTENDS ProgrammableOracle, Sequences

CONSTANTS
    Field,         \* field elements
    Lengths,       \* lengths of the vectors
    SqueezePoint   \* [n][k]: the point of block k of a squeeze of n elements

ASSUME VecAssumption ==
    /\ Value = Field \X Field
    /\ Lengths \subseteq Nat \ {0}
    /\ \A m \in Lengths : \A k, l \in 1..((m + 1) \div 2) :
        /\ SqueezePoint[m][k] \in Point
        /\ SqueezePoint[m][k] = SqueezePoint[m][l] => k = l

VARIABLES
    pc,        \* "program", "sample", "refused" or "done"
    values,    \* the vector the next squeeze is to give
    block,     \* the next block
    out,       \* what was squeezed
    touched    \* history: points others have asked or programmed

vecVars == <<pc, values, block, out, touched>>
vars == <<oracleVars, vecVars>>

n == Len(values)
Blocks == (n + 1) \div 2

Init ==
    /\ OracleInit
    /\ pc = "program" /\ block = 1 /\ out = <<>> /\ touched = {}
    /\ values \in UNION {[1..l -> Field] : l \in Lengths}

(* Mutant: the counter is not advanced. *)
MutNextPoint == SqueezePoint[n][1]

(* The point of the next block; program_next_vec finds it on a copy of the transcript. *)
NextPoint == SqueezePoint[n][block]

NextBlock == IF block = Blocks THEN 1 ELSE block + 1

(* Mutant: the suffix is fixed too. *)
MutSuffix(p) == CHOOSE f \in Field : f # Hash[p][2]

(* The second half of the last block of an odd vector keeps its own value. *)
Suffix(p) == Hash[p][2]

(* Mutant: the offset is that of the block before. *)
MutPlanned(p) == <<values[block], IF block + 1 <= n THEN values[block + 1] ELSE Suffix(p)>>

Planned(p) ==
    <<values[2 * block - 1], IF 2 * block <= n THEN values[2 * block] ELSE Suffix(p)>>

(* program_next_vec, a block under the lock: a refusal leaves the earlier ones as they  *)
(* are.                                                                                *)
ProgramBlock ==
    /\ pc = "program"
    /\ \/ /\ ProgramFresh(NextPoint, Planned(NextPoint))
          /\ block' = NextBlock
          /\ pc' = IF block = Blocks THEN "sample" ELSE pc
       \/ /\ ~Fresh(NextPoint)
          /\ pc' = "refused"
          /\ UNCHANGED <<oracleVars, block>>
    /\ UNCHANGED <<values, out, touched>>

(* The part of an answer that is wanted. *)
Take(a) == IF 2 * block <= n THEN a ELSE <<a[1]>>

(* sample_f128_vec, a block under the lock. *)
SampleBlock ==
    /\ pc = "sample"
    /\ Ask(NextPoint)
    /\ out' = out \o Take(Answer(NextPoint))
    /\ block' = NextBlock
    /\ pc' = IF block = Blocks THEN "done" ELSE pc
    /\ UNCHANGED <<values, touched>>

(* Another holder of the SharedOracle, between two blocks. *)
Other(p) ==
    /\ pc \in {"program", "sample"}
    /\ Ask(p) \/ \E v \in Value : ProgramFresh(p, v)
    /\ touched' = touched \cup {p}
    /\ UNCHANGED <<pc, values, block, out>>

Done == pc \in {"refused", "done"} /\ UNCHANGED vars

Next == ProgramBlock \/ SampleBlock \/ (\E p \in Point : Other(p)) \/ Done

Spec == Init /\ [][Next]_vars

-----------------------------------------------------------------------------
Points == {SqueezePoint[n][k] : k \in 1..Blocks}

(* Once every block is programmed the squeeze gives the vector, whatever the other      *)
(* holders ask or try to program between its blocks (sim_oracle.rs 428-436).            *)
SqueezeGivesValues == pc = "done" => out = values

(* Nothing else is fixed or refused. What the squeeze does not read stays as random as  *)
(* it was (sim_oracle.rs 455-457): an answer nobody else fixed differs from the hash in *)
(* the planned elements only. A refusal is the bad event of the argument alone          *)
(* (sim_oracle.rs 429): somebody else had asked or programmed a point of the squeeze,   *)
(* or one with its digest.                                                             *)
NothingElseChanges ==
    /\ \A p \in Points \ touched :
         n % 2 = 1 /\ p = SqueezePoint[n][Blocks] => Answer(p)[2] = Hash[p][2]
    /\ pc = "refused" => \E p \in Points, t \in touched : Hash[p] = Hash[t]

(* "Returns `None` - having programmed nothing" (sim_oracle.rs 428), which the vector   *)
(* form claims as the "Same contract" (sim_oracle.rs 431).                               *)
NothingOnRefusal == pc = "refused" => DOMAIN table \subseteq touched

-----------------------------------------------------------------------------
(* Vectors of one and of three elements to check: a point for the one block of the first, *)
(* two for the blocks of the second; and a point of nobody's with the digest of another.   *)
FourPoints == {"one", "three1", "three2", "stray"}
BitPairs == {0, 1} \X {0, 1}
SharedDigests == [p \in FourPoints |->
    CASE p = "one" -> <<1, 0>> [] p = "three1" -> <<0, 0>> [] p = "three2" -> <<0, 1>> [] OTHER -> <<0, 1>>]
OneAndThree == [l \in {1, 3} |-> [k \in 1..2 |->
    IF l = 1 THEN "one" ELSE IF k = 1 THEN "three1" ELSE "three2"]]
=============================================================================
