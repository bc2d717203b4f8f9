------------------------- MODULE ProgrammableOracle -------------------------
(***************************************************************************)
(* The programmable random oracle (flock-prover/src/sim_oracle.rs).  One   *)
(* object answers every Fiat-Shamir, Merkle and proof-of-work query of a   *)
(* game; a simulator may fix an answer before anybody asks for it.         *)
(*                                                                         *)
(* Every method runs under the SharedOracle mutex, so each is one step.    *)
(* Points are opaque; Hash is SHA-256 of a point and need not be           *)
(* injective: `seen` stores digests, as the code does, so was_queried may  *)
(* err, but only by saying yes too often.                                  *)
(***************************************************************************)
EXTENDS Naturals, FiniteSets

CONSTANTS
    Point,      \* oracle points
    PowPoint,   \* those framed with ROLE_POW
    Value,      \* oracle answers
    Hash,       \* hash_point
    MAX_COUNT   \* largest value of a u64 counter

ASSUME OracleAssumption ==
    /\ PowPoint \subseteq Point
    /\ Hash \in [Point -> Value]
    /\ MAX_COUNT \in Nat

VARIABLES
    table,        \* programmed points and their values
    seen,         \* digests of the points queried so far
    totalAnswers, \* saturating counters behind the per-proof query budget
    powAnswers,
    asked         \* history: the points queried so far

oracleVars == <<table, seen, totalAnswers, powAnswers, asked>>

OracleInit ==
    /\ table = [p \in {} |-> {}]
    /\ seen = {}
    /\ totalAnswers = 0
    /\ powAnswers = 0
    /\ asked = {}

-----------------------------------------------------------------------------
(* The value `answer` returns for p. *)
Answer(p) == IF p \in DOMAIN table THEN table[p] ELSE Hash[p]

WasQueried(p) == Hash[p] \in seen

(* Mutant: a wrapping counter. *)
MutIncr(n) == n + 1

SaturatingIncr(n) == IF n = MAX_COUNT THEN n ELSE n + 1

(* ProgrammableOracle::answer *)
Ask(p) ==
    /\ totalAnswers' = SaturatingIncr(totalAnswers)
    /\ powAnswers' = IF p \in PowPoint THEN SaturatingIncr(powAnswers) ELSE powAnswers
    /\ seen' = seen \cup {Hash[p]}
    /\ asked' = asked \cup {p}
    /\ UNCHANGED table

(* ProgrammableOracle::program: insert, whatever was there. *)
Program(p, v) ==
    /\ table' = [q \in DOMAIN table \cup {p} |-> IF q = p THEN v ELSE table[q]]
    /\ UNCHANGED <<seen, totalAnswers, powAnswers, asked>>

(* Mutant: only the programmed table is consulted before programming. *)
MutFreshTableOnly(p) == p \notin DOMAIN table

(* Mutant: only the queries are consulted before programming. *)
MutFreshQueriesOnly(p) == ~WasQueried(p)

(* The test program_fresh makes before it inserts. *)
Fresh(p) == ~WasQueried(p) /\ p \notin DOMAIN table

(* Mutant: program instead of program_fresh. *)
MutProgramAny(p, v) == Program(p, v)

(* ProgrammableOracle::program_fresh when it returns true; when it returns  *)
(* false it changes nothing.                                                *)
ProgramFresh(p, v) == Fresh(p) /\ Program(p, v)

(* checkpoint, and what it lets a caller attribute to itself later. *)
Checkpoint == [points |-> DOMAIN table, total |-> totalAnswers, pow |-> powAnswers]

(* Mutant: the audit counts every programmed point. *)
MutPointsSince(cp) == DOMAIN table

PointsSince(cp) == DOMAIN table \ cp.points

AnswersSince(cp) == totalAnswers - cp.total
PowAnswersSince(cp) == powAnswers - cp.pow

-----------------------------------------------------------------------------
(* The oracle on its own, driven by any client that programs through          *)
(* program_fresh, as every caller in the crate but its tests does.            *)
OracleNext ==
    \/ \E p \in Point : Ask(p)
    \/ \E p \in Point, v \in Value : ProgramFresh(p, v)

OracleSpec == OracleInit /\ [][OracleNext]_oracleVars

OracleTypeOK ==
    /\ DOMAIN table \subseteq Point
    /\ table \in [DOMAIN table -> Value]
    /\ seen \subseteq Value
    /\ totalAnswers \in 0..MAX_COUNT
    /\ powAnswers \in 0..MAX_COUNT
    /\ asked \subseteq Point

(* No client ever sees two answers at one point: what was answered once is     *)
(* the answer for good, whoever programs in between (sim_oracle.rs 144-155).    *)
AnswersNeverChange == [][\A p \in asked : Answer(p)' = Answer(p)]_oracleVars

(* The oracle implements a lazily sampled random oracle: a point has its value  *)
(* once it was asked or programmed, and no step changes or withdraws one.       *)
Assigned == [p \in asked \cup DOMAIN table |-> Answer(p)]

Lazy == INSTANCE RandomOracle WITH assigned <- Assigned

ImplementsRandomOracle == Lazy!Spec
=============================================================================
