----------------------------- MODULE VeilFlock -----------------------------
(***************************************************************************)
(* The succinct VEIL protocol (flock-prover/src/succinct_veil.rs): prover  *)
(* and verifier walk the same Fiat-Shamir transcript, the prover sees only *)
(* its own messages and the verifier only the proof.                       *)
(*                                                                         *)
(* Field elements are opaque.  A message is the coordinate it stands for,  *)
(* the mask that pads it and the challenge it was computed with; the       *)
(* random oracle answers each point with a fresh element, of which only    *)
(* its class matters: "good", or "bad" when the loop that drew it draws    *)
(* again (a one in the equality point, a zero blinding challenge, a        *)
(* proof-of-work miss).                                                    *)
(***************************************************************************)
EXTENDS Naturals, Sequences, FiniteSets, Functions

CONSTANTS
    Ell,         \* length of each round-1 message
    ZcRounds,    \* multilinear zerocheck rounds
    LcRounds,    \* lincheck rounds
    ZPartial,    \* length of the lincheck's final message
    RingWidth,   \* slices per ring claim
    ConstPin,    \* the lincheck circuit pins a constant column
    FoldSites,   \* positive fold grinds of the PCS opening
    MAX_BLIND_GRIND_TRIALS,
    MAX_LIGERITO_GRIND_TRIALS,
    MAX_LIGERITO_GRIND_SITES,
    MAX_BAD      \* bound: bad answers of the oracle

ASSUME LayoutAssumption ==
    /\ {Ell, ZPartial, RingWidth} \subseteq Nat \ {0}
    /\ {ZcRounds, LcRounds, FoldSites, MAX_BAD} \subseteq Nat
    /\ {MAX_BLIND_GRIND_TRIALS, MAX_LIGERITO_GRIND_TRIALS, MAX_LIGERITO_GRIND_SITES} \subseteq Nat
    /\ ConstPin \in BOOLEAN

(* validate_batch_opening refuses a schedule with more fold grinds than that. *)
ASSUME SitesAssumption == FoldSites <= MAX_LIGERITO_GRIND_SITES

VARIABLES
    oracle,    \* the points asked so far, with the class of the answer
    pc,        \* where each thread is
    tr,        \* the transcript of each thread's challenger
    blk,       \* the block of the PIOP transcript each thread is in
    chal,      \* the challenges each thread has drawn in the PIOP
    cursor,    \* MaskingChallenger::cursor
    start,     \* circuit_start of the prover and of the verifier
    link,      \* the digest and blinding challenges of either side
    trial,     \* the proof-of-work nonce each thread tries next
    proof,     \* the proof in the making, and as the verifier receives it
    attest     \* what the PCS opening and the VEIL proof were made for

vars == <<oracle, pc, tr, blk, chal, cursor, start, link, trial, proof, attest>>

Main == {"prover", "verifier"}
Replay == {"replay", "recheck"}       \* the second circuit walk of either side
Terminal == {"pcs", "veil"}           \* the branches after the fork
Threads == Main \cup Replay \cup Terminal

(* The side a thread belongs to, and the second walk of a side. *)
Owner == [b \in Main \cup Replay |-> IF b \in {"prover", "replay"} THEN "prover" ELSE "verifier"]
Second == [b \in Main |-> IF b = "prover" THEN "replay" ELSE "recheck"]

-----------------------------------------------------------------------------
(* Proof layout.  multilinear_rounds and lincheck rounds are pairs, flattened.    *)
(* The opening's query nonces are part of pcs_body (the secure profile grinds no *)
(* query phase, they are 0), those past its last phase are `surplus`: prove      *)
(* sends none.                                                                   *)
FieldLen == [
    statement |-> 1, root |-> 1, proof_nonce |-> 1, outer |-> 1,
    veil_linear |-> 1, veil_hadamard |-> 1, veil_root |-> 1,
    round1_ab |-> Ell, round1_c |-> Ell, rounds |-> 2 * ZcRounds, finals |-> 2,
    lc_rounds |-> 2 * LcRounds, z_partial |-> ZPartial,
    ring1_witness |-> RingWidth, ring1_blind |-> RingWidth,
    ring2_witness |-> RingWidth, ring2_blind |-> RingWidth,
    direct_blinds |-> 1, blind_nonce |-> 1,
    q1 |-> RingWidth, q2 |-> RingWidth, fold_nonces |-> FoldSites,
    surplus |-> 0, pcs_body |-> 1, veil_body |-> 1]

Field == DOMAIN FieldLen

(* One element: coordinate i of a field, the index of its pad (0: none), the   *)
(* challenge it was computed with (0: none), and whether it arrived intact.    *)
V(f, i) == [name |-> f, i |-> i, mask |-> 0, at |-> 0, intact |-> TRUE]
Honest(f) == [i \in 1..FieldLen[f] |-> V(f, i)]

(* How many elements of consecutive fields come before each of them. *)
Before(fields) ==
    LET upTo[k \in DOMAIN fields] == IF k = 1 THEN 0 ELSE upTo[k - 1] + FieldLen[fields[k - 1]]
    IN  [f \in Range(fields) |-> upTo[CHOOSE k \in DOMAIN fields : fields[k] = f]]

(* MaskLayout::piop_count and observed_count *)
PiopCount == 2 * Ell + 2 * ZcRounds + 2 + 2 * LcRounds + ZPartial
ObservedCount == PiopCount + 2 * 2 * RingWidth

(* The elements of consecutive fields, padded by consecutive masks. *)
Masked(fields, first) ==
    [f \in Range(fields) |->
        [i \in 1..FieldLen[f] |-> [V(f, i) EXCEPT !.mask = first + Before(fields)[f] + i]]]

(* mask_proofs and mask_ring_claims *)
MaskProofs ==
    Masked(<<"round1_ab", "round1_c", "rounds", "finals", "lc_rounds", "z_partial">>, 0)

MaskRingClaims ==
    Masked(<<"ring1_witness", "ring1_blind", "ring2_witness", "ring2_blind">>, PiopCount)

MaskedProof(q) ==
    [f \in Field |-> IF f \in DOMAIN MaskProofs THEN MaskProofs[f]
                     ELSE IF f \in DOMAIN MaskRingClaims THEN MaskRingClaims[f] ELSE q[f]]

-----------------------------------------------------------------------------
(* Transcripts.  What was absorbed before the last squeeze is named by that     *)
(* squeeze's point, its index in `oracle`; the rest is spelled out.             *)
Item(op, vals) == [op |-> op, vals |-> vals]
Label(l) == Item("label", <<V(l, 0)>>)
Absorb(t, items) == [t EXCEPT !.since = @ \o items]

Known(p) == \E k \in DOMAIN oracle : oracle[k].point = p
IdOf(p) == IF Known(p) THEN CHOOSE k \in DOMAIN oracle : oracle[k].point = p
           ELSE Len(oracle) + 1

(* The oracle answers p with an element of class c. *)
Answered(p, c) ==
    IF Known(p) THEN c = oracle[IdOf(p)].class /\ UNCHANGED oracle
    ELSE /\ c = "bad" => Cardinality({k \in DOMAIN oracle : oracle[k].class = "bad"}) < MAX_BAD
         /\ oracle' = Append(oracle, [point |-> p, class |-> c])

Class == {"good", "bad"}

(* The transcript after a squeeze at t. *)
Squeezed(t) == [at |-> IdOf(t), since |-> <<>>]

(* The point of one proof-of-work trial, and what is absorbed afterwards. *)
PowPoint(t, n) == Absorb(t, <<Item("pow", <<V("nonce", n)>>)>>)
PowBytes(v) == Item("bytes", <<v>>)

-----------------------------------------------------------------------------
(* The PIOP transcript as the prover produces it (zerocheck.rs, lincheck.rs): in *)
(* every block, messages are observed and then a challenge is drawn.            *)
Slice(f) == [op |-> "slice", field |-> f, from |-> 1, to |-> FieldLen[f]]
Scalar(f, i) == [op |-> "scalar", field |-> f, from |-> i, to |-> i]
Mark(l) == [op |-> "label", field |-> l, from |-> 1, to |-> 0]
Block(says, draws) == [says |-> says, draws |-> draws]

RoundBlocks(f, n, draws) ==
    [i \in 1..n |-> Block(<<Scalar(f, 2 * i - 1), Scalar(f, 2 * i)>>, draws)]

ProverBlocks ==
    <<Block(<<Mark("flock-zerocheck")>>, "eq"),
      Block(<<Slice("round1_ab"), Slice("round1_c")>>, "z")>>
    \o RoundBlocks("rounds", ZcRounds, "rho")
    \o <<Block(<<Scalar("finals", 1), Scalar("finals", 2), Mark("flock-lincheck")>>, "alpha")>>
    \o (IF ConstPin THEN <<Block(<<>>, "beta")>> ELSE <<>>)
    \o RoundBlocks("lc_rounds", LcRounds, "rho")
    \o <<Block(<<Slice("z_partial")>>, "r_inner_skip")>>

(* Mutant: alpha is drawn before the final evaluations are observed. *)
MutCircuitBlocks ==
    <<Block(<<Mark("flock-zerocheck")>>, "eq"),
      Block(<<Slice("round1_ab"), Slice("round1_c")>>, "z")>>
    \o RoundBlocks("rounds", ZcRounds, "rho")
    \o <<Block(<<Mark("flock-lincheck")>>, "alpha"),
         Block(<<Scalar("finals", 1), Scalar("finals", 2)>>, "rho")>>
    \o RoundBlocks("lc_rounds", LcRounds, "rho")
    \o <<Block(<<Slice("z_partial")>>, "r_inner_skip")>>

(* The same transcript as shifted_verifier_circuit replays it from a proof. *)
CircuitBlocks ==
    <<Block(<<Mark("flock-zerocheck")>>, "eq"),
      Block(<<Slice("round1_ab"), Slice("round1_c")>>, "z")>>
    \o RoundBlocks("rounds", ZcRounds, "rho")
    \o <<Block(<<Scalar("finals", 1), Scalar("finals", 2), Mark("flock-lincheck")>>, "alpha")>>
    \o (IF ConstPin THEN <<Block(<<>>, "beta")>> ELSE <<>>)
    \o RoundBlocks("lc_rounds", LcRounds, "rho")
    \o <<Block(<<Slice("z_partial")>>, "r_inner_skip")>>

Blocks(b) == IF b = "prover" THEN ProverBlocks ELSE CircuitBlocks

(* Mutant: the lincheck's MaskingChallenger starts over. *)
MutLincheckCursor == 0

(* The cursor the lincheck's MaskingChallenger starts from. *)
LincheckCursor == 2 * Ell + 2 * ZcRounds + 2

(* How many masks the zerocheck must have taken. *)
ZerocheckMasks == 2 * Ell + 2 * ZcRounds + 2

SayWidth(say) == say.to + 1 - say.from

(* The masks taken by the messages of a block before the j-th; there are at most three. *)
Taken(says, j) ==
    (IF j > 1 THEN SayWidth(says[1]) ELSE 0) + (IF j > 2 THEN SayWidth(says[2]) ELSE 0)
        + (IF j > 3 THEN SayWidth(says[3]) ELSE 0)

(* MaskingChallenger::observe_f128 and observe_f128_slice: pad with the next mask. *)
MaskedSay(say, first) ==
    IF say.op = "label" THEN Label(say.field)
    ELSE Item(say.op, [k \in 1..SayWidth(say) |->
                          [V(say.field, say.from + k - 1) EXCEPT !.mask = first + k]])

(* The circuit observes the proof's elements as they are. *)
ProofSay(q, say) ==
    IF say.op = "label" THEN Label(say.field)
    ELSE Item(say.op, [k \in 1..SayWidth(say) |-> q[say.field][say.from + k - 1]])

(* What a thread observes in a block. *)
Observed(b, says) ==
    [j \in DOMAIN says |->
        IF b = "prover" THEN MaskedSay(says[j], cursor + Taken(says, j))
        ELSE ProofSay(proof[Owner[b]], says[j])]

-----------------------------------------------------------------------------
(* absorb_statement, then bind_statement, observe_tree_nonces and the mask root. *)
StatementItems(p) == <<Label("flock-blake3-preimage"), Item("bytes", p.statement)>>

(* Mutant: the proof nonce is not absorbed. *)
MutBindItems(p) ==
    <<Label("flock-r1cs"), Item("bytes", p.root), Label("veil-flock-tree-nonces"),
      Item("bytes", p.outer), Item("bytes", p.veil_linear), Item("bytes", p.veil_hadamard),
      Label("veil-flock-mask-root"), Item("bytes", p.veil_root)>>

BindItems(p) ==
    <<Label("flock-r1cs"), Item("bytes", p.proof_nonce), Item("bytes", p.root),
      Label("veil-flock-tree-nonces"),
      Item("bytes", p.outer), Item("bytes", p.veil_linear), Item("bytes", p.veil_hadamard),
      Label("veil-flock-mask-root"), Item("bytes", p.veil_root)>>

RingItems(p) ==
    <<Label("veil-flock-ring-masks"),
      Item("slice", p.ring1_witness), Item("slice", p.ring1_blind),
      Item("slice", p.ring2_witness), Item("slice", p.ring2_blind)>>

DirectItems(p) == <<Label("veil-flock-public-pcs-blind"), Item("slice", p.direct_blinds)>>

BlindedItems(p) ==
    <<Label("veil-flock-blinded-ring"), Item("slice", p.q1), Item("slice", p.q2)>>

(* The two sides of the ring linkage: q = witness + challenge * blind. *)
QSlice(f) == [i \in 1..RingWidth |-> [V(f, i) EXCEPT !.at = link.prover.blind]]

(* The claim points: both are functions of the PIOP's challenges. *)
ClaimPoints(b) == chal[b]

(* Mutant: blind and witness slices are unmasked in the other order. *)
MutUnmaskOrder ==
    <<"round1_ab", "round1_c", "rounds", "finals", "lc_rounds", "z_partial",
      "ring1_blind", "ring1_witness", "ring2_witness", "ring2_blind">>

(* The order in which the circuit takes its variables (ExpressionCursor). *)
UnmaskOrder ==
    <<"round1_ab", "round1_c", "rounds", "finals", "lc_rounds", "z_partial",
      "ring1_witness", "ring1_blind", "ring2_witness", "ring2_blind">>

(* The circuit C'(h) = C(masked + h): every element with the variable that       *)
(* unmasks it, the challenges, the blinded slices and the linking challenge.     *)
Circuit(b) ==
    [wires |-> [f \in Range(UnmaskOrder) |->
                  [i \in 1..FieldLen[f] |-> <<proof[b][f][i], Before(UnmaskOrder)[f] + i>>]],
     challenges |-> chal[b],
     q |-> <<proof[b].q1, proof[b].q2>>,
     link |-> link[b].blind]

(* The masks satisfy it: every element is unmasked to the honest value, and the  *)
(* slices are the ones blinded by the linking challenge.                         *)
Satisfied(c) ==
    /\ \A f \in DOMAIN c.wires : \A i \in DOMAIN c.wires[f] :
        c.wires[f][i][1].mask = c.wires[f][i][2] /\ c.wires[f][i][1].intact
    /\ \A s \in 1..2 : \A i \in DOMAIN c.q[s] : c.q[s][i].at = c.link /\ c.q[s][i].intact

(* What a PCS opening is about: the tree, the points, the blinded slices and the *)
(* direct claim; and where its transcript ended.                                 *)
PcsClaim(b, id) ==
    [tree |-> <<proof[b].root, proof[b].outer>>, points |-> ClaimPoints(b),
     slices |-> <<proof[b].q1, proof[b].q2>>, blind |-> link[b].blind,
     direct |-> <<proof[b].statement, link[b].digest, proof[b].direct_blinds>>,
     transcript |-> id]

VeilClaim(b, id) ==
    [trees |-> <<proof[b].veil_root, proof[b].veil_linear, proof[b].veil_hadamard>>,
     circuit |-> Circuit(b), transcript |-> id]

-----------------------------------------------------------------------------
(* Mutant: the bound is off by one. *)
MutBlindInBounds(n) == n <= MAX_BLIND_GRIND_TRIALS

(* The prover's bound on the nonce it found. *)
BlindInBounds(n) == n < MAX_BLIND_GRIND_TRIALS

(* ligerito_grinding_is_bounded: every nonce of the opening and the number of     *)
(* the fold nonces; nothing bounds the number of the query nonces.               *)
GrindingIsBounded(b) ==
    /\ \A f \in {"fold_nonces", "surplus"} : \A k \in DOMAIN proof[b][f] :
        proof[b][f][k].i < MAX_LIGERITO_GRIND_TRIALS
    /\ Len(proof[b].fold_nonces) <= MAX_LIGERITO_GRIND_SITES

(* Mutant: fold nonces left over are not refused. *)
MutOpeningIsWhole(q) == q.pcs_body = Honest("pcs_body")

(* The opening is the prover's and leaves no fold nonce over.  The query nonces   *)
(* are not counted: surplus ones are never looked at.                            *)
OpeningIsWhole(q) == q.pcs_body = Honest("pcs_body") /\ Len(q.fold_nonces) = FoldSites

(* A one in the equality point, or a zero challenge, is drawn again. *)
DrawAgain(c) == c = "bad"

Errors == {"InvalidShape", "InvalidParameters", "GrindingLimitExceeded",
           "UnsatisfiedCircuit", "PcsRejected", "VeilRejected"}

(* The side that runs the terminal branches now. *)
Side == IF pc["prover"] = "shipped" THEN "verifier" ELSE "prover"

Goto(b, place) == pc' = [pc EXCEPT ![b] = place]
Says(b, t) == tr' = [tr EXCEPT ![b] = t]

Init ==
    /\ oracle = <<>>
    /\ pc = [b \in Threads |-> IF b = "prover" THEN "bind" ELSE "idle"]
    /\ tr = [b \in Threads |-> [at |-> 0, since |-> <<>>]]
    /\ blk = [b \in Threads |-> 1]
    /\ chal = [b \in Main \cup Replay |-> <<>>]
    /\ cursor = 0
    /\ start = [b \in Main |-> [at |-> 0, since |-> <<>>]]
    /\ link = [b \in Main |-> [digest |-> 0, blind |-> 0]]
    /\ trial = [b \in {"prover", "pcs"} |-> 0]
    /\ proof = [b \in Main |-> [f \in Field |-> Honest(f)]]
    /\ attest = [pcs |-> <<>>, veil |-> <<>>]

(* Statement, roots and nonces are absorbed; what follows is replayed from here. *)
Bind(b) ==
    /\ pc[b] = "bind"
    /\ LET t == Absorb(tr[b], StatementItems(proof[b]) \o BindItems(proof[b]))
       IN  Says(b, t) /\ start' = [start EXCEPT ![b] = t]
    /\ Goto(b, "walk")
    /\ UNCHANGED <<oracle, blk, chal, cursor, link, trial, proof, attest>>

PiopFields == {"round1_ab", "round1_c", "rounds", "finals", "lc_rounds", "z_partial"}
RingFields == {"ring1_witness", "ring1_blind", "ring2_witness", "ring2_blind", "q1", "q2"}
Shaped(b, fields) == \A f \in fields : Len(proof[Owner[b]][f]) = FieldLen[f]

(* The circuit refuses a wrong geometry before it observes anything. *)
RefuseShape(b) ==
    /\ b # "prover" /\ pc[b] = "walk" /\ blk[b] = 1
    /\ ~Shaped(b, PiopFields)
    /\ Goto(b, "InvalidShape")
    /\ UNCHANGED <<oracle, tr, blk, chal, cursor, start, link, trial, proof, attest>>

(* sumcheck_round_weights has no answer for a one in the equality point. *)
Degenerate(b) ==
    b # "prover" /\ blk[b] \in 3..(2 + ZcRounds) /\ oracle[chal[b][1]].class = "bad"

(* One block of the PIOP: observe its messages and draw its challenge.  A one in *)
(* the equality point is drawn again.                                            *)
DrawBlock(b, c) ==
    LET block == Blocks(b)[blk[b]]
        again == pc[b] = "redraw"
        t == IF again THEN tr[b] ELSE Absorb(tr[b], Observed(b, block.says))
        advance == cursor + Taken(block.says, Len(block.says) + 1)
    IN  /\ pc[b] \in {"walk", "redraw"} /\ blk[b] <= Len(Blocks(b))
        /\ b # "prover" => Shaped(b, PiopFields)
        /\ block.draws # "eq" => c = "good"
        /\ Answered(t, c)
        /\ Says(b, Squeezed(t))
        /\ IF DrawAgain(c)
           THEN Goto(b, "redraw") /\ UNCHANGED <<blk, chal>>
           ELSE /\ Goto(b, IF Degenerate(b) THEN "InvalidShape" ELSE "walk")
                /\ blk' = [blk EXCEPT ![b] = @ + 1]
                /\ chal' = [chal EXCEPT ![b] = Append(@, IdOf(t))]
        /\ cursor' = IF b # "prover" \/ again THEN cursor
                     ELSE IF Mark("flock-lincheck") \in Range(block.says) THEN LincheckCursor
                     ELSE advance
        /\ UNCHANGED <<start, link, trial, proof, attest>>

(* At the block where the lincheck begins: the zerocheck took other masks. *)
Miscounted(b) ==
    /\ b = "prover" /\ pc[b] = "walk" /\ blk[b] <= Len(Blocks(b))
    /\ LET says == Blocks(b)[blk[b]].says
       IN  /\ Mark("flock-lincheck") \in Range(says)
           /\ cursor + Taken(says, Len(says) + 1) # ZerocheckMasks

(* The prover counts the zerocheck's masks before the lincheck draws. *)
WalkBlock(b, c) ==
    IF Miscounted(b)
    THEN /\ c = "good" /\ Goto(b, "InvalidShape")
         /\ UNCHANGED <<oracle, tr, blk, chal, cursor, start, link, trial, proof, attest>>
    ELSE DrawBlock(b, c)

(* mask_proofs and mask_ring_claims pad the messages for the proof, once the     *)
(* masks taken have been counted.                                               *)
MaskMessages ==
    /\ pc["prover"] = "walk" /\ blk["prover"] > Len(Blocks("prover"))
    /\ IF cursor = PiopCount
       THEN /\ proof' = [proof EXCEPT !["prover"] = MaskedProof(@)]
            /\ Goto("prover", "rings")
       ELSE Goto("prover", "InvalidShape") /\ UNCHANGED proof
    /\ UNCHANGED <<oracle, tr, blk, chal, cursor, start, link, trial, attest>>

(* The verifier reaches the ring claims. *)
Walked ==
    /\ pc["verifier"] = "walk" /\ blk["verifier"] > Len(Blocks("verifier"))
    /\ Goto("verifier", "rings")
    /\ UNCHANGED <<oracle, tr, blk, chal, cursor, start, link, trial, proof, attest>>

(* Ring claims are observed, DigestChallenges are drawn, the direct blinds observed. *)
Rings(b) ==
    LET t == Absorb(tr[b], RingItems(proof[b]) \o <<Label("flock-digest-bind")>>)
    IN  /\ pc[b] = "rings"
        /\ Answered(t, "good")
        /\ link' = [link EXCEPT ![b].digest = IdOf(t)]
        /\ IF Shaped(b, {"direct_blinds"})
           THEN Says(b, Absorb(Squeezed(t), DirectItems(proof[b]))) /\ Goto(b, "pow")
           ELSE Says(b, Squeezed(t)) /\ Goto(b, "InvalidShape")
        /\ UNCHANGED <<blk, chal, cursor, start, trial, proof, attest>>

(* Mutant: a missed nonce is tried again. *)
MutNextTrial(n) == n

NextTrial(n) == n + 1

(* grind_pow: nonces are tried from 0; the hit is absorbed, and only then held   *)
(* against the bound.                                                           *)
GrindBlind(c) ==
    /\ pc["prover"] = "pow"
    /\ Answered(PowPoint(tr["prover"], trial["prover"]), c)
    /\ IF c = "bad"
       THEN /\ trial' = [trial EXCEPT !["prover"] = NextTrial(@)]
            /\ UNCHANGED <<pc, tr, proof>>
       ELSE LET v == V("blind_nonce", trial["prover"])
            IN  /\ proof' = [proof EXCEPT !.prover.blind_nonce = <<v>>]
                /\ Says("prover", Absorb(tr["prover"], <<PowBytes(v)>>))
                /\ Goto("prover", IF BlindInBounds(v.i) THEN "nonzero" ELSE "GrindingLimitExceeded")
                /\ UNCHANGED trial
    /\ UNCHANGED <<blk, chal, cursor, start, link, attest>>

(* The bound, then verify_pow, which absorbs the nonce whatever it finds. *)
VerifyBlind(c) ==
    LET v == proof.verifier.blind_nonce[1]
    IN  /\ pc["verifier"] = "pow"
        /\ IF v.i < MAX_BLIND_GRIND_TRIALS
           THEN /\ Answered(PowPoint(tr["verifier"], v.i), c)
                /\ Says("verifier", Absorb(tr["verifier"], <<PowBytes(v)>>))
                /\ Goto("verifier", IF c = "good" THEN "nonzero" ELSE "InvalidParameters")
           ELSE c = "good" /\ Goto("verifier", "InvalidParameters") /\ UNCHANGED <<oracle, tr>>
        /\ UNCHANGED <<blk, chal, cursor, start, link, trial, proof, attest>>

(* sample_nonzero: a zero is drawn again. *)
SampleNonzero(b, c) ==
    /\ pc[b] = "nonzero"
    /\ Answered(tr[b], c)
    /\ Says(b, Squeezed(tr[b]))
    /\ IF DrawAgain(c)
       THEN UNCHANGED <<pc, link>>
       ELSE Goto(b, "blinded") /\ link' = [link EXCEPT ![b].blind = IdOf(tr[b])]
    /\ UNCHANGED <<blk, chal, cursor, start, trial, proof, attest>>

(* The blinded slices are observed, and the circuit is built by a second walk    *)
(* from circuit_start.                                                          *)
StartCircuit(b) ==
    LET q == IF b = "prover" THEN [proof[b] EXCEPT !.q1 = QSlice("q1"), !.q2 = QSlice("q2")]
             ELSE proof[b]
    IN  /\ pc[b] = "blinded"
        /\ proof' = [proof EXCEPT ![b] = q]
        /\ tr' = [tr EXCEPT ![b] = Absorb(@, BlindedItems(q)), ![Second[b]] = start[b]]
        /\ pc' = [pc EXCEPT ![b] = "circuit", ![Second[b]] = "walk"]
        /\ UNCHANGED <<oracle, blk, chal, cursor, start, link, trial, attest>>

CircuitIsFine(b) ==
    /\ Shaped(b, RingFields)
    /\ oracle[link[b].blind].class = "good"
    /\ chal[Second[b]] = chal[b]

(* The second walk must have met the first one's challenges; then the terminal   *)
(* branches are forked.  The verifier first bounds the opening's grinding.      *)
Fork(b) ==
    LET s == Second[b]
        fork(l) == Absorb(tr[b], <<Label(l)>>)
    IN  /\ pc[b] = "circuit"
        /\ pc[s] = "InvalidShape" \/ (pc[s] = "walk" /\ blk[s] > Len(Blocks(s)))
        /\ IF pc[s] = "InvalidShape" \/ ~CircuitIsFine(b)
           THEN Goto(b, "InvalidShape") /\ UNCHANGED <<tr, blk>>
           ELSE IF b = "verifier" /\ ~GrindingIsBounded(b)
           THEN Goto(b, "GrindingLimitExceeded") /\ UNCHANGED <<tr, blk>>
           ELSE /\ tr' = [tr EXCEPT !["pcs"] = fork("veil-flock-pcs-fork"),
                                    !["veil"] = fork("veil-flock-inner-fork")]
                /\ blk' = [blk EXCEPT !["pcs"] = 1]
                /\ pc' = [pc EXCEPT ![b] = "join", !["pcs"] = "draw",
                                    !["veil"] = IF b = "prover" THEN "open" ELSE "idle"]
        /\ UNCHANGED <<oracle, chal, cursor, start, link, trial, proof, attest>>

(* The PCS branch: draws with a proof of work before each but the first.        *)
PcsDraw ==
    LET t == tr["pcs"]
        claim == PcsClaim(Side, IdOf(t))
    IN  /\ pc["pcs"] = "draw" /\ pc[Side] = "join"
        /\ Answered(t, "good")
        /\ Says("pcs", Squeezed(t))
        /\ IF blk["pcs"] <= FoldSites
           THEN /\ Goto("pcs", "pow")
                /\ trial' = [trial EXCEPT !["pcs"] = 0]
                /\ UNCHANGED attest
           ELSE IF Side = "prover"
           THEN Goto("pcs", "done") /\ attest' = [attest EXCEPT !.pcs = claim] /\ UNCHANGED trial
           ELSE /\ IF attest.pcs = claim /\ OpeningIsWhole(proof.verifier)
                   THEN pc' = [pc EXCEPT !["pcs"] = "done", !["veil"] = "open"]
                   ELSE Goto("verifier", "PcsRejected")
                /\ UNCHANGED <<trial, attest>>
        /\ UNCHANGED <<blk, chal, cursor, start, link, proof>>

PcsGrind(c) ==
    LET n == trial["pcs"]
        v == V("fold_nonces", n)
    IN  /\ Side = "prover" /\ pc["pcs"] = "pow"
        /\ Answered(PowPoint(tr["pcs"], n), c)
        /\ IF c = "bad"
           THEN trial' = [trial EXCEPT !["pcs"] = NextTrial(@)] /\ UNCHANGED <<pc, tr, blk, proof>>
           ELSE /\ proof' = [proof EXCEPT !.prover.fold_nonces[blk["pcs"]] = v]
                /\ Says("pcs", Absorb(tr["pcs"], <<PowBytes(v)>>))
                /\ blk' = [blk EXCEPT !["pcs"] = @ + 1]
                /\ Goto("pcs", "draw") /\ UNCHANGED trial
        /\ UNCHANGED <<chal, cursor, start, link, attest>>

VerifyFold(c) ==
    LET v == proof.verifier.fold_nonces[blk["pcs"]]
    IN  /\ Answered(PowPoint(tr["pcs"], v.i), c)
        /\ Says("pcs", Absorb(tr["pcs"], <<PowBytes(v)>>))
        /\ blk' = [blk EXCEPT !["pcs"] = @ + 1]
        /\ IF c = "good" THEN Goto("pcs", "draw") ELSE Goto("verifier", "PcsRejected")

(* The next fold nonce is verified, if the proof has one more. *)
PcsVerifyPow(c) ==
    /\ Side = "verifier" /\ pc["pcs"] = "pow" /\ pc["verifier"] = "join"
    /\ IF blk["pcs"] <= Len(proof.verifier.fold_nonces)
       THEN VerifyFold(c)
       ELSE c = "good" /\ Goto("verifier", "PcsRejected") /\ UNCHANGED <<oracle, tr, blk>>
    /\ UNCHANGED <<chal, cursor, start, link, trial, proof, attest>>

(* The constraint proof: the prover refuses a circuit its masks do not satisfy. *)
VeilBranch ==
    LET t == Absorb(tr["veil"], <<Label("veil-f128-constraint-system"),
                                  Item("bytes", proof[Side].veil_root)>>)
        claim == VeilClaim(Side, IdOf(t))
    IN  /\ pc["veil"] = "open" /\ pc[Side] = "join"
        /\ IF Side = "prover" /\ ~Satisfied(Circuit("prover"))
           THEN Goto("veil", "UnsatisfiedCircuit") /\ UNCHANGED <<oracle, tr, attest>>
           ELSE /\ Answered(t, "good")
                /\ Says("veil", Squeezed(t))
                /\ IF Side = "prover"
                   THEN Goto("veil", "done") /\ attest' = [attest EXCEPT !.veil = claim]
                   ELSE /\ Goto("verifier", IF attest.veil = claim
                                               /\ proof.verifier.veil_body = Honest("veil_body")
                                            THEN "accept" ELSE "VeilRejected")
                        /\ UNCHANGED attest
        /\ UNCHANGED <<blk, chal, cursor, start, link, trial, proof>>

(* rayon::join, the bound on the opening's nonces, the constraint proof's result. *)
Join ==
    /\ pc["prover"] = "join" /\ pc["pcs"] = "done"
    /\ pc["veil"] \in {"done", "UnsatisfiedCircuit"}
    /\ Goto("prover", IF ~GrindingIsBounded("prover") THEN "GrindingLimitExceeded"
                      ELSE IF pc["veil"] = "done" THEN "shipped" ELSE "UnsatisfiedCircuit")
    /\ UNCHANGED <<oracle, tr, blk, chal, cursor, start, link, trial, proof, attest>>

-----------------------------------------------------------------------------
(* The proof on its way: an element is changed, a nonce is another one, a field     *)
(* that has a length loses its last item, or the opening has one or two more nonces *)
(* of either kind.                                                                  *)
Nonces == {"blind_nonce", "fold_nonces", "surplus"}
Extendable == {"fold_nonces", "surplus"}
Cuttable == (PiopFields \ {"finals"}) \cup RingFields \cup {"direct_blinds", "fold_nonces"}

Truncated(q, f) == SubSeq(q[f], 1, Len(q[f]) - (IF f \in {"rounds", "lc_rounds"} THEN 2 ELSE 1))

Extended(q, f, k, n) == q[f] \o [i \in 1..k |-> V(f, n)]

Altered(q) ==
    (UNION {{[q EXCEPT ![f][i].intact = FALSE] : i \in DOMAIN q[f]} : f \in Field \ Nonces})
    \cup (UNION {{[q EXCEPT ![f][i] = V(f, n)] : i \in DOMAIN q[f], n \in 0..MAX_BAD} : f \in Nonces})
    \cup {[q EXCEPT ![f] = Truncated(q, f)] : f \in {g \in Cuttable : q[g] # <<>>}}
    \cup {[q EXCEPT ![f] = Extended(q, f, k, n)] : f \in Extendable, k \in 1..2, n \in 0..MAX_BAD}

Deliver ==
    /\ pc["prover"] = "shipped" /\ pc["verifier"] = "idle"
    /\ Goto("verifier", "bind")
    /\ \E q \in {proof["prover"]} \cup Altered(proof["prover"]) : proof' = [proof EXCEPT !["verifier"] = q]
    /\ UNCHANGED <<oracle, tr, blk, chal, cursor, start, link, trial, attest>>

Done ==
    /\ pc["prover"] \in Errors \/ pc["verifier"] \in Errors \cup {"accept"}
    /\ UNCHANGED vars

Step ==
    \/ \E b \in Main : Bind(b) \/ Rings(b) \/ StartCircuit(b) \/ Fork(b)
    \/ \E b \in Main \cup Replay : RefuseShape(b)
    \/ \E b \in Main \cup Replay, c \in Class : WalkBlock(b, c)
    \/ \E b \in Main, c \in Class : SampleNonzero(b, c)
    \/ \E c \in Class : GrindBlind(c) \/ VerifyBlind(c) \/ PcsGrind(c) \/ PcsVerifyPow(c)
    \/ MaskMessages \/ Walked \/ PcsDraw \/ VeilBranch \/ Join \/ Deliver

Next == Step \/ Done

(* Every thread runs on; Done only marks the end. *)
Spec == Init /\ [][Next]_vars /\ WF_vars(Step)

-----------------------------------------------------------------------------
(* The prover, which walks its own masked transcript a second time and builds    *)
(* the constraint circuit from the masked proof, never refuses its own work: its *)
(* only failure is a grind that ran past its bound (succinct_veil.rs 1454-1547). *)
ProverFailsOnlyByGrinding ==
    pc["prover"] \in Errors =>
        /\ pc["prover"] = "GrindingLimitExceeded"
        /\ \/ trial["prover"] >= MAX_BLIND_GRIND_TRIALS
           \/ \E k \in DOMAIN proof["prover"].fold_nonces :
                proof["prover"].fold_nonces[k].i >= MAX_LIGERITO_GRIND_TRIALS

(* A proof that prove returned and that arrives as it was sent is never rejected *)
(* by verify: not by a bound, a shape, a proof of work or a sub-proof; and prove *)
(* returns one unless a grind ran past its bound.                                *)
Completeness ==
    ProverFailsOnlyByGrinding
    /\ (proof["verifier"] = proof["prover"] => pc["verifier"] \notin Errors)

(* A proof with any one element, root or nonce changed, or with a field cut short *)
(* or fold nonces added, is rejected, and so is a whole one for another statement: *)
(* everything verify does not check directly reaches a transcript (challenger.rs   *)
(* 372-381 on malleability).  The one exception is what verify never looks at,     *)
(* query nonces added past the last query phase.                                   *)
CorruptionCaught ==
    pc["verifier"] = "accept" =>
        \A f \in Field \ {"surplus"} : proof["verifier"][f] = proof["prover"][f]

Elements(items) == UNION {Range(items[j].vals) : j \in DOMAIN items}

(* What the challenge drawn at point k depends on. *)
History ==
    LET h[k \in 0..Len(oracle)] ==
            IF k = 0 THEN {} ELSE h[oracle[k].point.at] \cup Elements(oracle[k].point.since)
    IN  h

Binds(b, h, k, f) ==
    IF f = "blind_nonce" THEN \E v \in h[k] : v.name = f
    ELSE \A i \in DOMAIN proof[Owner[b]][f] : \E v \in h[k] : v.name = f /\ v.i = i

Commitments == {"statement", "root", "proof_nonce", "outer", "veil_linear",
                "veil_hadamard", "veil_root"}
RingClaims == {"ring1_witness", "ring1_blind", "ring2_witness", "ring2_blind"}

Needs(draw) ==
    CASE draw = "eq" -> Commitments
      [] draw = "z" -> {"round1_ab", "round1_c"}
      [] draw = "alpha" -> {"rounds", "finals"}
      [] draw = "r_inner_skip" -> {"lc_rounds", "z_partial"}
      [] OTHER -> {}

(* No challenge, of either side or of either side's second walk, is drawn before *)
(* what it must not be chosen by: every commitment before the first draw, the    *)
(* final evaluations before alpha (zerocheck.rs 661-672), the commitments before *)
(* the digest challenges (digest_bind.rs 266-269), the blinds and the nonce      *)
(* before the blinding challenge, the blinded slices before either branch.       *)
BindingOrder ==
    LET h == History
    IN  /\ \A b \in Main \cup Replay : \A k \in DOMAIN chal[b] :
            \A f \in Needs(Blocks(b)[k].draws) : Binds(b, h, chal[b][k], f)
        /\ \A b \in Main :
            /\ link[b].digest # 0 =>
                \A f \in Commitments \cup RingClaims : Binds(b, h, link[b].digest, f)
            /\ link[b].blind # 0 =>
                \A f \in {"direct_blinds", "blind_nonce"} : Binds(b, h, link[b].blind, f)
        /\ \A a \in {attest.pcs, attest.veil} \ {<<>>} :
            \A f \in {"q1", "q2"} : Binds("prover", h, a.transcript, f)

(* Every mask is a one-time pad: in all that is observed or sent, a private      *)
(* message is always padded, always by the same mask, and no mask pads two.      *)
MasksPadOnce ==
    LET private == PiopFields \cup RingClaims
        sent == IF pc["prover"] \in {"bind", "walk", "redraw", "InvalidShape"} THEN {}
                ELSE UNION {Range(proof["prover"][f]) : f \in private}
        said == (UNION {Elements(oracle[k].point.since) : k \in DOMAIN oracle}) \cup sent
        padded == {v \in said : v.name \in private}
    IN  \A v, w \in padded :
            v.mask # 0 /\ (v.mask = w.mask <=> <<v.name, v.i>> = <<w.name, w.i>>)

(* Both sides come to an end: no grind, redraw, second walk or join waits for    *)
(* ever, if the oracle answers badly only finitely often.                        *)
Decides == <>(pc["prover"] \in Errors \/ pc["verifier"] \in Errors \cup {"accept"})
=============================================================================
