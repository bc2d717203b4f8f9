------------------------------ MODULE Grinding ------------------------------
(***************************************************************************)
(* The two proof-of-work searches of FsChallenger::grind_pow               *)
(* (flock-core/src/challenger.rs 311-362): nonces in order for a small      *)
(* grind, blocks of nonces tested by a thread pool for a large one.  Which  *)
(* of them runs is decided by a work threshold; the proof must not depend   *)
(* on it.  Both search here for the same hits.                             *)
(***************************************************************************)
EXTENDS Integers

CONSTANTS
    MAXU,   \* u64::MAX
    BLOCK   \* nonces per block, 2^(min(bits, 24) + 1)

ASSUME GrindAssumption == MAXU \in Nat \ {0} /\ BLOCK \in Nat \ {0}

Nonces == 0..MAXU
None == MAXU + 1

VARIABLES
    hits,          \* the nonces that satisfy the state digest
    nonce, found,  \* sequential: next nonce, and the result
    start,         \* parallel: first nonce of the block
    tested,        \* the nonces of the block some thread has hashed
    best,          \* the least hit among them
    result         \* the result

seqVars == <<nonce, found>>
parVars == <<start, tested, best, result>>
grindVars == <<hits, seqVars, parVars>>

GrindInit ==
    /\ hits \in SUBSET Nonces
    /\ nonce = 0 /\ found = None
    /\ start = 0 /\ tested = {} /\ best = None /\ result = None

(* The sequential search: wrapping_add. *)
Try ==
    /\ found = None
    /\ IF nonce \in hits
       THEN found' = nonce /\ UNCHANGED nonce
       ELSE nonce' = (nonce + 1) % (MAXU + 1) /\ UNCHANGED found
    /\ UNCHANGED <<hits, parVars>>

SaturatingAdd(n) == IF n + BLOCK > MAXU THEN MAXU ELSE n + BLOCK

InBlock == start..(SaturatingAdd(start) - 1)

NextStart == SaturatingAdd(start)

(* A thread hashes a nonce; find_first gives up those beyond a hit. *)
Test(n) ==
    /\ result = None /\ n \in InBlock \ tested /\ n < best
    /\ tested' = tested \cup {n}
    /\ best' = IF n \in hits THEN n ELSE best
    /\ UNCHANGED <<hits, seqVars, start, result>>

(* Mutants: any hit ends the block (find_any); a block without one never ends. *)
MutFindAny == best # None \/ InBlock \subseteq tested
MutNeverLeft == best # None /\ \A n \in InBlock : n < best => n \in tested

(* find_first returns: nothing before its hit is left to hash. *)
BlockDone == \A n \in InBlock : n < best => n \in tested

(* The next block, or the result; what the threads of the block knew is gone. *)
EndBlock ==
    /\ result = None /\ BlockDone
    /\ IF best # None
       THEN result' = best /\ best' = None /\ UNCHANGED start
       ELSE start' = NextStart /\ UNCHANGED <<best, result>>
    /\ tested' = {}
    /\ UNCHANGED <<hits, seqVars>>

GrindNext == Try \/ EndBlock \/ \E n \in Nonces : Test(n)

(* The threads of the pool go on hashing until the block is done. *)
GrindFairness == WF_grindVars(Try) /\ WF_grindVars(EndBlock) /\ WF_grindVars(\E n \in Nonces : Test(n))

GrindSpec == GrindInit /\ [][GrindNext]_grindVars /\ GrindFairness

-----------------------------------------------------------------------------
(* What the searches know: nothing below the sequential nonce or the block is a  *)
(* hit, and the threads' best is the least hit they have hashed.                  *)
Swept ==
    /\ nonce \in Nonces /\ found \in Nonces \cup {None}
    /\ start \in Nonces /\ best \in Nonces \cup {None} /\ result \in Nonces \cup {None}
    /\ tested \subseteq InBlock
    /\ \A n \in hits : n >= nonce /\ n >= start
    /\ \A n \in tested \cap hits : best <= n
    /\ best # None => best \in hits /\ best \in tested

(* Both searches return the least hit, so the proof does not depend on which one  *)
(* ran nor on the order in which the threads hashed (challenger.rs 320-323,         *)
(* "deterministic proofs"), and verify_pow accepts it.                              *)
LeastHit ==
    \A r \in {found, result} \ {None} : r \in hits /\ \A n \in hits : r <= n

(* A search for which there is a hit comes to an end.  The very last nonce is left  *)
(* out: start saturates there and the parallel search never hashes it, while the     *)
(* sequential one does.                                                             *)
SearchesEnd ==
    (\E n \in hits : n < MAXU) => <>(found # None) /\ <>(result # None)
=============================================================================
