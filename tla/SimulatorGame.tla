--------------------------- MODULE SimulatorGame ---------------------------
(***************************************************************************)
(* The zero-knowledge game on one shared oracle: simulations that program  *)
(* it (simulate_with_rng in r1cs_hashes/blake3_preimage.rs, with the       *)
(* zerocheck simulator of succinct_veil.rs), a verifier that replays their *)
(* proofs against it, and everybody else who holds the SharedOracle.       *)
(*                                                                         *)
(* Each lock of the oracle mutex is one step; between two of them any      *)
(* other party may move.  A transcript is the sequence of items it has     *)
(* absorbed: the proof nonce, masked messages and challenges; the point of *)
(* the next squeeze is that sequence.  The statement, the labels and the   *)
(* commitment roots are the same for every party and are left out, and so  *)
(* is everything the simulator computes from its challenges: the masks     *)
(* make each message an arbitrary value.                                   *)
(***************************************************************************)
EXTENDS ProgrammableOracle, Sequences

CONSTANTS
    Sims,        \* calls of simulate
    Nonces,      \* values of proof_nonce
    Challenges,  \* field elements a scalar squeeze can return
    One,         \* the challenge an equality point must not have
    Messages,    \* masked prover messages
    Suffixes,    \* the half of a block a scalar squeeze does not read
    ROUNDS,      \* programmed squeezes: 1 + m - K_SKIP
    MAX_ORACLE_QUERIES, \* MAX_PROTOCOL_ORACLE_QUERIES_PER_PROOF
    AskPoints,   \* bound: points the other parties ask
    MAX_ASKS,    \* bound: how often they ask
    Modes        \* ways the oracle is shared: TRUE, FALSE or both

ASSUME GameAssumption ==
    /\ Value = Challenges \X Suffixes
    /\ One \in Challenges
    /\ AskPoints \subseteq Point
    /\ MAX_ASKS \in Nat
    /\ ROUNDS \in Nat \ {0}
    /\ Modes \subseteq BOOLEAN

VARIABLES
    pc,      \* pc[s]: where the simulation s is
    nonce,   \* nonce[s]: the proof_nonce of the simulation
    plan,    \* plan[s]: z and the rhos drawn by RomZerocheckSimulator::new
    tr,      \* tr[s]: the absorbed transcript
    log,     \* log[s]: the squeezes of the transcript, as <<point, challenge>>
    skip,    \* skip[s]: how many of them drew the equality point
    cp,      \* cp[s]: the OracleCheckpoint of the simulation
    cert,    \* history: cert[s]: the points the final audit counted
    own,     \* history: own[s]: the points the simulation programmed
    vpos,    \* vpos[s]: squeezes of s's proof the verifier has replayed
    verdict, \* verdict[s]: what the verifier says of s's proof
    asks,    \* queries of the other parties so far
    shared   \* FALSE: nobody else touches the oracle during a simulation

simVars == <<pc, nonce, plan, tr, log, skip, cp, cert, own, shared>>
gameVars == <<oracleVars, simVars, vpos, verdict, asks>>

Running(s) == pc[s] \notin {"idle", "done", "collision", "audit"}

NobodyRuns == \A s \in Sims : ~Running(s)

(* s may take a step of its simulation. *)
MayMove(s) == shared \/ \A u \in Sims \ {s} : ~Running(u)

GameInit ==
    /\ OracleInit
    /\ pc = [s \in Sims |-> "idle"]
    /\ nonce \in [Sims -> Nonces]
    /\ plan \in [Sims -> [1..ROUNDS -> Challenges]]
    /\ tr = [s \in Sims |-> <<>>]
    /\ log = [s \in Sims |-> <<>>]
    /\ skip = [s \in Sims |-> 0]
    /\ cp = [s \in Sims |-> Checkpoint]
    /\ cert = [s \in Sims |-> {}]
    /\ own = [s \in Sims |-> {}]
    /\ vpos = [s \in Sims |-> 0]
    /\ verdict = [s \in Sims |-> "none"]
    /\ asks = 0
    /\ shared \in Modes

-----------------------------------------------------------------------------
(* The field element a scalar squeeze reads from an oracle block. *)
ChallengeOf(v) == v[1]

(* The block that makes the squeeze at p return c: the bytes the squeeze does *)
(* not read keep their hash value.                                            *)
Block(p, c) == <<c, Hash[p][2]>>

(* How many of its planned challenges the simulation has sampled; those of   *)
(* the equality point are not programmed.                                    *)
Sampled(s) == Len(log[s]) - skip[s]

(* Squeeze: ask the point, absorb the challenge. *)
Squeeze(s) ==
    LET c == ChallengeOf(Answer(tr[s]))
    IN  /\ Ask(tr[s])
        /\ log' = [log EXCEPT ![s] = Append(@, <<tr[s], c>>)]
        /\ tr' = [tr EXCEPT ![s] = Append(@, c)]

(* Mutant: the transcript does not bind the nonce. *)
MutNoNonce(n) == <<CHOOSE x \in Nonces : TRUE>>

(* bind_statement absorbs the proof nonce before any challenge is drawn. *)
Bound(n) == <<n>>

(* Entry of simulate_with_rng: the checkpoint is taken and the lock released;  *)
(* then the nonce and the planned challenges, drawn at random, are fixed (here  *)
(* in GameInit, arbitrarily).                                                   *)
Begin(s) ==
    /\ pc[s] = "idle" /\ MayMove(s)
    /\ cp' = [cp EXCEPT ![s] = Checkpoint]
    /\ tr' = [tr EXCEPT ![s] = Bound(nonce[s])]
    /\ pc' = [pc EXCEPT ![s] = "equality"]
    /\ UNCHANGED <<oracleVars, nonce, plan, log, skip, cert, own, vpos, verdict, asks, shared>>

(* sample_eq_point: honest squeezes, until none of the sampled coordinates is 1 *)
(* (the sumcheck rounds divide by 1 + r).                                        *)
SampleEquality(s) ==
    /\ pc[s] = "equality" /\ MayMove(s)
    /\ Squeeze(s)
    /\ skip' = [skip EXCEPT ![s] = @ + 1]
    /\ pc' = [pc EXCEPT ![s] = IF ChallengeOf(Answer(tr[s])) = One THEN "equality" ELSE "program"]
    /\ UNCHANGED <<nonce, plan, cp, cert, own, vpos, verdict, asks, shared>>

(* Mutant: the point is computed before the message is absorbed. *)
MutStalePoint(s, m) == tr[s]

(* The point the squeeze after message m will ask. *)
NextPoint(s, m) == Append(tr[s], m)

(* Absorb a masked message, then program_next_scalar for the squeeze after it; *)
(* a refusal ends the simulation and leaves its earlier points programmed.     *)
ProgramRound(s) ==
    /\ pc[s] = "program" /\ MayMove(s)
    /\ \E m \in Messages :
        LET p == NextPoint(s, m)
            c == plan[s][Sampled(s) + 1]
        IN  /\ tr' = [tr EXCEPT ![s] = Append(tr[s], m)]
            /\ \/ /\ ProgramFresh(p, Block(p, c))
                  /\ own' = [own EXCEPT ![s] = @ \cup {p}]
                  /\ pc' = [pc EXCEPT ![s] = "sample"]
               \/ /\ ~Fresh(p)
                  /\ pc' = [pc EXCEPT ![s] = "collision"]
                  /\ UNCHANGED <<oracleVars, own>>
    /\ UNCHANGED <<nonce, plan, log, skip, cp, cert, vpos, verdict, asks, shared>>

(* sample_f128 after a programmed point. *)
SampleRound(s) ==
    /\ pc[s] = "sample" /\ MayMove(s)
    /\ Squeeze(s)
    /\ pc' = [pc EXCEPT ![s] = IF Sampled(s) + 1 = ROUNDS THEN "tail" ELSE "program"]
    /\ UNCHANGED <<nonce, plan, skip, cp, cert, own, vpos, verdict, asks, shared>>

(* The production path downstream of the zerocheck: honest squeezes. *)
SampleTail(s) ==
    /\ pc[s] = "tail" /\ MayMove(s)
    /\ Squeeze(s)
    /\ pc' = [pc EXCEPT ![s] = "auditing"]
    /\ UNCHANGED <<nonce, plan, skip, cp, cert, own, vpos, verdict, asks, shared>>

(* Mutant: more points than expected are as good. *)
MutAuditAtLeast(s) == Cardinality(PointsSince(cp[s])) >= ROUNDS

(* audit_programming: the points programmed since the checkpoint are as many as *)
(* expected and contain the proof nonce (here: begin with it).                  *)
AuditIsValid(s) ==
    /\ Cardinality(PointsSince(cp[s])) = ROUNDS
    /\ \A p \in PointsSince(cp[s]) : p[1] = nonce[s]

(* The end of simulate_with_rng: audit and query budget, under one lock. *)
Audit(s) ==
    /\ pc[s] = "auditing" /\ MayMove(s)
    /\ cert' = [cert EXCEPT ![s] = PointsSince(cp[s])]
    /\ pc' = [pc EXCEPT ![s] =
                IF AuditIsValid(s) /\ AnswersSince(cp[s]) <= MAX_ORACLE_QUERIES
                THEN "done" ELSE "audit"]
    /\ UNCHANGED <<oracleVars, nonce, plan, tr, log, skip, cp, own, vpos, verdict, asks, shared>>

SimNext(s) ==
    \/ Begin(s) \/ SampleEquality(s)
    \/ ProgramRound(s) \/ SampleRound(s) \/ SampleTail(s) \/ Audit(s)

-----------------------------------------------------------------------------
(* The unmodified verifier on the same oracle: it absorbs the nonce and the    *)
(* messages of the proof and squeezes its own challenges, one lock each.  It   *)
(* goes on while they are the ones the proof was made for, since its next      *)
(* point is the prover's exactly then.                                         *)
VerifySqueeze(s) ==
    /\ pc[s] = "done" /\ verdict[s] = "none" /\ (shared \/ NobodyRuns)
    /\ LET entry == log[s][vpos[s] + 1]
           same == ChallengeOf(Answer(entry[1])) = entry[2]
       IN  /\ Ask(entry[1])
           /\ vpos' = [vpos EXCEPT ![s] = @ + 1]
           /\ verdict' = [verdict EXCEPT ![s] =
                            IF ~same THEN "reject"
                            ELSE IF vpos[s] + 1 = Len(log[s]) THEN "accept"
                            ELSE "none"]
    /\ UNCHANGED <<simVars, asks>>

(* Anyone else with the oracle: honest provers, verifiers of other proofs, the  *)
(* distinguisher.                                                               *)
AskAnything ==
    /\ asks < MAX_ASKS /\ (shared \/ NobodyRuns)
    /\ \E p \in AskPoints : Ask(p)
    /\ asks' = asks + 1
    /\ UNCHANGED <<simVars, vpos, verdict>>

GameNext ==
    \/ \E s \in Sims : SimNext(s) \/ VerifySqueeze(s)
    \/ AskAnything

GameSpec == GameInit /\ [][GameNext]_gameVars

-----------------------------------------------------------------------------
(* What a simulation programs is what it samples: the debug_assert on rho in    *)
(* RomZerocheckSimulator::emit (succinct_veil.rs 452-457), with every other      *)
(* party free to use the oracle between the two locks.                           *)
ChallengesAsPlanned ==
    \A s \in Sims :
        /\ pc[s] = "sample" =>
            ChallengeOf(Answer(tr[s])) = plan[s][Sampled(s) + 1]
        /\ \A i \in 1..ROUNDS :
            Sampled(s) >= i => log[s][skip[s] + i][2] = plan[s][i]

(* A simulated proof replays: the verifier squeezes the challenges the proof    *)
(* was made for, no matter how long after and what was programmed in between.    *)
SimulatedProofsVerify == \A s \in Sims : verdict[s] # "reject"

(* Freshness: while nobody else asks, a simulation is refused a point only        *)
(* because another one has drawn the same nonce (bind_statement before any        *)
(* challenge; succinct_veil.rs 406, 452).                                         *)
CollisionNeedsSharedNonce ==
    \A s \in Sims : pc[s] = "collision" /\ asks = 0 =>
        \E u \in Sims \ {s} : pc[u] # "idle" /\ nonce[u] = nonce[s]

(* The audit and the query budget measure one proof: a simulation that got all    *)
(* its points is not failed by them (sim_oracle.rs 84-85, blake3_preimage.rs        *)
(* 957-971).                                                                        *)
AuditAttributesOwnWork == \A s \in Sims : pc[s] # "audit"

(* A certified proof programmed exactly the points its audit counted: a valid    *)
(* audit is never valid by another simulation's points (sim_oracle.rs 205-237).   *)
CertifiedIsOwn ==
    \A s \in Sims : pc[s] = "done" => cert[s] = own[s] /\ Cardinality(own[s]) = ROUNDS

(* What a simulation that ran alone programmed passes its audit, whatever was    *)
(* programmed before it (blake3_preimage.rs 957-966).                              *)
ValidAlone == ~shared => \A s \in Sims : pc[s] = "auditing" => AuditIsValid(s)

(* A certificate is about its own proof. Of simulations that do not overlap none is failed by its audit, whatever came  *)
(* before, and a nonce of its own keeps every simulation from being refused.      *)
AuditCertifiesOwn ==
    /\ CertifiedIsOwn /\ ValidAlone
    /\ ~shared => AuditAttributesOwnWork
    /\ CollisionNeedsSharedNonce
=============================================================================
