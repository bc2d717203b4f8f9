------------------------------ MODULE Zerocheck ------------------------------
(* The zerocheck: that a * b + c vanishes on all the rows. The first message is  *)
(* skipped to, then the sumcheck of the product a * b runs over the rest; the    *)
(* zero-knowledge form adds a mask, p * q, and masks on the first message. One   *)
(* action per message of the prover and per message the verifier takes in, each  *)
(* with a transcript of its own.                                                 *)
EXTENDS Calls, Multilinear

CONSTANTS FUSED_LOG,       \* log of the length from which a fold and a message are fused
          MAX_TRIES,       \* bound on the equality points drawn in vain
          Statements,      \* [zk, m, w: packed a, b, c, bits: a, b, c, good, padding, kernel, capture,
                           \*  p_small, mask: <<>> or <<[c, h]>>, tape]
          QuarticRows      \* [factors: four vectors of bits, z: bits, r: the equality's point]

Dense(m) == [k_log |-> m, useful |-> 2 ^ m]
Extension == Strict(ByteTable(ByteBits, K_SKIP, K_SKIP, ELL))
Zeros(v) == [i \in DOMAIN v |-> 0]

-----------------------------------------------------------------------------
(* The equality's point: fixed on the inner coordinates, drawn again while a     *)
(* coordinate of the outer part is one.                                          *)

OuterPoint(m, ch, k) == Sampled(After(ch, K_SKIP + k * (m - K_SKIP - N_INNER)), m - K_SKIP - N_INNER)
Admissible(v) == \A i \in DOMAIN v : v[i] # 1
Redrawn(m, ch) ==
  CHOOSE k \in 0 .. MAX_TRIES :
    Admissible(OuterPoint(m, ch, k)) /\ \A j \in 0 .. k - 1 : ~Admissible(OuterPoint(m, ch, j))
sample_eq_point(m, ch) ==
  Given(Redrawn(m, ch), LAMBDA k :
    LET after[j \in 0 .. k + 1] ==
          IF j = 0 THEN After(ch, K_SKIP) ELSE After(after[j - 1], m - K_SKIP - N_INNER)
    IN  [r |-> Strict(Cat(Cat(Sampled(ch, K_SKIP), Cat(small_challenges, medium_challenges)),
                          OuterPoint(m, ch, k))),
         ch |-> after[k + 1]])

\* How the running claim goes on: weights of the claim itself and of the two messages.
sumcheck_round_weights(r_eq, rho) ==
  IF r_eq = 1 THEN <<>>
  ELSE Given((1 ++ rho) ** Inv(1 ++ r_eq), LAMBDA w : <<w, (r_eq ** w) ++ rho, rho ** (1 ++ rho)>>)
fold_sumcheck_round(running, msg, w) == ((running ** w[1]) ++ (msg[1] ** w[2])) ++ (msg[2] ** w[3])

-----------------------------------------------------------------------------
(* The prover.                                                                   *)

\* The message of the first round, freed of the factor of the small challenges.
Scaled(e) == [e EXCEPT !.ab = Strict(Scale(c_s_f128, @)), !.c = Strict(Scale(c_s_f128, @))]
Round1(w, r, padding, kernel) ==
  Scaled(round1_shift_reduce(w.a, w.b, w.c, r, Extension, padding, kernel))
Captured(w, r, padding, kernel) ==
  Scaled(round1_shift_reduce_with_s_hat_v(w.a, w.b, w.c, r, Extension, padding, kernel))
\* Rows of c alone, extended.
OnLambda(rows, r, padding, kernel) ==
  Round1([a |-> Zeros(rows), b |-> Zeros(rows), c |-> rows], r, padding, kernel).c

\* The equality's point of the rounds from number k on, with one in place of its first entry:
\* that factor is left to the verifier.
RoundPoint(r, k) ==
  [i \in 0 .. Size(r) - K_SKIP - k - 1 |-> IF i = 0 THEN 1 ELSE r[K_SKIP + k + i]]
FoldAtZ(w, z, r, padding, kernel) ==
  uni_skip_fold_and_round_pair_optimized_packed_padded(
    w.a, w.b, UniSkipFoldTable(z), RoundPoint(r, 0), padding, kernel)

Sent(ch, msg) == observe(observe(ch, msg[1]), msg[2])
\* The prover after a message on folded tables.
AfterRound(s, f, msg) ==
  LET ch == Sent(s.ch, msg)
  IN  [s EXCEPT !.stage = "proving", !.a = f.a, !.b = f.b, !.msgs = Strict(Cat(@, Single(msg))),
                !.rhos = Strict(Cat(@, Single(Next1(ch)))), !.ch = After(ch, 1)]
Proving(r, first, masks, z, ch) ==
  [stage |-> "first", r |-> r, first |-> first, z |-> z, a |-> None, b |-> None, p |-> None, q |-> None,
   at_z |-> IF masks = <<>> THEN <<>>
            ELSE <<Strict([k \in {"c", "h"} |-> interpolate_at_z_on_lambda(masks[1][k], z)])>>,
   init |-> 0, gamma |-> 0, msgs |-> [i \in {} |-> None], rhos |-> [i \in {} |-> 0], ch |-> ch]
Labelled ==
  observe_label(new_transcript(Input.tape), IF Input.zk THEN "flock-zerocheck-zk" ELSE "flock-zerocheck")
FirstSent(ch, first) == observe_slice(observe_slice(ch, first.ab), first.c)
ZeroOpen == Pending("zerocheck", Statements) \/ Pending("deg4", QuarticRows)

\* The masks of the first message: <<>>, or rows s_c, added to c, and s_h, added times the
\* polynomial of S.
RowMasks(r) ==
  IF Input.mask = <<>> THEN <<>>
  ELSE <<Strict([k \in {"c", "h"} |-> OnLambda(Input.mask[1][k], r, Dense(Input.m), Input.kernel)])>>
MaskedFirst(plain, masks) ==
  IF masks = <<>> THEN plain
  ELSE Given(vanishing_s_on_lambda, LAMBDA vs :
         [ab |-> Strict([i \in DOMAIN vs |-> (plain.ab[i] ++ masks[1]["c"][i]) ++ (vs[i] ** masks[1]["h"][i])]),
          c |-> Strict(VecAdd(plain.c, masks[1]["c"]))])
FirstMessage(r) ==
  IF Input.capture THEN Captured(Input.w, r, Input.padding, Input.kernel)
  ELSE Round1(Input.w, r, Input.padding, Input.kernel)

ProveFirst ==
  /\ Asked("zerocheck")
  /\ \E eq \in {sample_eq_point(Input.m, Labelled)} :
     \E masks \in {RowMasks(eq.r)} :
     \E first \in {MaskedFirst(FirstMessage(eq.r), masks)} :
     \E ch \in {FirstSent(eq.ch, first)} :
       result' = Proving(eq.r, first, masks, Next1(ch), After(ch, 1))

ProveFold ==
  /\ At("zerocheck", "first") /\ ~Input.zk
  /\ \E f \in {FoldAtZ(Input.w, result.z, result.r, Input.padding, Input.kernel)} :
       result' = AfterRound(result, f, f.msg)

Rounds(s) == Size(s.r) - K_SKIP
LastRho(s) == s.rhos[Size(s.rhos) - 1]
ProveRound ==
  /\ At("zerocheck", "proving") /\ ~Input.zk
  /\ Size(result.rhos) < Rounds(result)
  /\ \E point \in {RoundPoint(result.r, Size(result.rhos))} :
     \E f \in {IF Log2(Size(result.a)) >= FUSED_LOG
               THEN fold_and_compute_round_pair_into(result.a, result.b, LastRho(result), point, Input.kernel)
               ELSE fold_and_compute_round_pair(result.a, result.b, LastRho(result), point)} :
       result' = AfterRound(result, f, f.msg)

\* The proof, the claim and the transcript; the three last values are the folded tables'.
Claim(s, last, c_eval) ==
  [z |-> s.z, mlv_challenges |-> s.rhos, r_rest |-> Slice(s.r, K_SKIP, Rounds(s)),
   a_eval |-> last.a[0], b_eval |-> last.b[0], c_eval |-> c_eval]
Proved(s, last, final_p, c_eval, observed) ==
  LET Observing[i \in 0 .. Len(observed)] ==
        IF i = 0 THEN s.ch ELSE observe(Observing[i - 1], observed[i])
  IN  [stage |-> "proved", r |-> s.r, claim |-> Claim(s, last, c_eval), at_z |-> s.at_z, gamma |-> s.gamma,
       script |-> Observing[Len(observed)].script,
       proof |-> [round1_ab |-> s.first.ab, round1_c |-> s.first.c, mask_init |-> s.init, rounds |-> s.msgs,
                  final_a |-> last.a[0], final_b |-> last.b[0],
                  final_c |-> interpolate_at_z_on_lambda(s.first.c, s.z), final_p |-> final_p]]
ProveEnd ==
  /\ At("zerocheck", "proving") /\ ~Input.zk
  /\ Size(result.rhos) = Rounds(result)
  /\ \E last \in {fold_in_place_pair(result.a, result.b, LastRho(result))} :
       result' = Proved(result, last, 0, interpolate_at_z_on_lambda(result.first.c, result.z),
                        <<last.a[0], last.b[0]>>)

-----------------------------------------------------------------------------
(* The zero-knowledge prover.                                                    *)

MaskSum(p, q, r) ==
  Given(build_eq(RowPoint(r)), LAMBDA eq : Total(Size(eq), LAMBDA x : eq[x] ** p[x] ** q[x]))
AddMask(gamma, g, mm) == <<g[1] ++ (gamma ** mm[1]), g[2] ++ (gamma ** mm[2])>>

ProveZkFold ==
  /\ At("zerocheck", "first") /\ Input.zk
  /\ \E f \in {FoldAtZ(Input.w, result.z, result.r, Input.padding, Input.kernel)},
        p \in {expand(Input.p_small, Input.m)}, q \in {q_star_dense(Input.m)} :
     \E init \in {MaskSum(p, q, result.r)} :
     \E ch \in {observe(result.ch, init)} :
       result' =
         AfterRound([result EXCEPT !.p = p, !.q = q, !.init = init, !.gamma = Next1(ch), !.ch = After(ch, 1)],
                    f, AddMask(Next1(ch), f.msg, round_pair_naive(p, q, RoundPoint(result.r, 0))))

ProveZkRound ==
  /\ At("zerocheck", "proving") /\ Input.zk
  /\ Size(result.rhos) < Rounds(result)
  /\ \E point \in {RoundPoint(result.r, Size(result.rhos))} :
     \E f \in {fold_and_compute_round_pair(result.a, result.b, LastRho(result), point)},
        g \in {fold_and_compute_round_pair(result.p, result.q, LastRho(result), point)} :
       result' = [AfterRound(result, f, AddMask(result.gamma, f.msg, g.msg)) EXCEPT !.p = g.a, !.q = g.b]

ProveZkEnd ==
  /\ At("zerocheck", "proving") /\ Input.zk
  /\ Size(result.rhos) = Rounds(result)
  /\ \E last \in {fold_in_place_pair(result.a, result.b, LastRho(result))},
        p \in {fold_in_place_single(result.p, LastRho(result))[0]},
        c \in {interpolate_at_z_on_lambda(result.first.c, result.z)} :
       result' = Proved(result, last, p, IF Input.mask = <<>> THEN c ELSE c ++ result.at_z[1]["c"],
                        <<last.a[0], last.b[0], p>>)

\* The values the claims end in, computed from the witness alone.
FoldedBy(v, rhos) ==
  LET f[k \in 0 .. Size(rhos)] == IF k = 0 THEN v ELSE fold_in_place_single(f[k - 1], rhos[k - 1])
  IN  f[Size(rhos)][0]
evaluate_zk_terminals_packed_padded(in, rows, r, z, rhos) ==
  Given(FoldAtZ(in.w, z, r, in.padding, in.kernel), LAMBDA f :
    Given(Two(expand(in.p_small, in.m), q_star_dense(in.m)), LAMBDA mask :
      Given([k \in DOMAIN rows |-> interpolate_at_z_on_lambda(
               OnLambda(rows[k], r, IF k = "w" THEN in.padding ELSE Dense(in.m), in.kernel), z)], LAMBDA at_z :
        [a_eval |-> FoldedBy(f.a, rhos), b_eval |-> FoldedBy(f.b, rhos), c_eval |-> at_z["w"],
         p_eval |-> FoldedBy(mask[0], rhos), mask_init |-> MaskSum(mask[0], mask[1], r),
         mc_at_z |-> at_z["c"], h_at_z |-> at_z["h"]])))

\* The mask's own messages, without a witness.
mask_round_pairs(p_small, m, tape) ==
  Given(sample_eq_point(m, observe_label(new_transcript(tape), "flock-zerocheck-zk")), LAMBDA eq :
    Given([k \in 0 .. m - K_SKIP - 1 |-> tape[eq.ch.at + 1 + k]], LAMBDA rhos :
      LET pq[k \in 0 .. m - K_SKIP - 1] ==
            IF k = 0 THEN [a |-> expand(p_small, m), b |-> q_star_dense(m)]
            ELSE fold_in_place_pair(pq[k - 1].a, pq[k - 1].b, rhos[k - 1])
      IN  Strict([k \in DOMAIN pq |-> round_pair_naive(pq[k].a, pq[k].b, RoundPoint(eq.r, k))])))

-----------------------------------------------------------------------------
(* The verifier. It is given the proof of the prover or one changed in a place.  *)

Changes(proof) ==
  {[name |-> "none", proof |-> proof],
   [name |-> "final_a", proof |-> [proof EXCEPT !.final_a = @ ++ 1]],
   [name |-> "final_c", proof |-> [proof EXCEPT !.final_c = @ ++ 3]],
   [name |-> "short", proof |-> [proof EXCEPT !.rounds = Slice(@, 0, Size(@) - 1)]]}

Shape(m, proof) ==
  IF m < K_SKIP + N_INNER THEN "LogNTooSmall"
  ELSE IF Size(proof.round1_ab) # ELL \/ Size(proof.round1_c) # ELL THEN "BadRound1Length"
  ELSE IF Size(proof.rounds) # m - K_SKIP THEN "BadMultilinearRoundsLength"
  ELSE "Ok"

\* What a first message claims of the product at z: the combination vanishes on S.
AtZ(proof, z) ==
  interpolate_at_z_combined(VecAdd(proof.round1_ab, proof.round1_c), z)
  ++ interpolate_at_z_on_lambda(proof.round1_c, z)
MaskShift(at_z, z) == IF at_z = <<>> THEN 0 ELSE at_z[1]["c"] ++ (vanishing_s_at(z) ** at_z[1]["h"])

Ended(change, outcome) ==
  [stage |-> "ended", change |-> change, outcome |-> outcome, claim |-> None, script |-> None,
   prover |-> result]
Checking(change, eq, z, running, gamma, ch) ==
  [stage |-> "checking", change |-> change.name, proof |-> change.proof, r |-> eq.r, z |-> z,
   running |-> running, gamma |-> gamma, rhos |-> [i \in {} |-> 0], ch |-> ch, prover |-> result]

VerifyFirst ==
  /\ At("zerocheck", "proved")
  /\ \E change \in Changes(result.proof) :
     LET proof == change.proof
     IN  IF Shape(Input.m, proof) # "Ok" THEN result' = Ended(change.name, Shape(Input.m, proof))
         ELSE \E eq \in {sample_eq_point(Input.m, Labelled)} :
              \E ch \in {FirstSent(eq.ch, [ab |-> proof.round1_ab, c |-> proof.round1_c])} :
                IF interpolate_at_z_on_lambda(proof.round1_c, Next1(ch)) # proof.final_c
                THEN result' = Ended(change.name, "CEvalMismatch")
                ELSE \/ /\ ~Input.zk
                        /\ result' = Checking(change, eq, Next1(ch), AtZ(proof, Next1(ch)), 0, After(ch, 1))
                     \/ /\ Input.zk
                        /\ \E ch2 \in {observe(After(ch, 1), proof.mask_init)} :
                             result' = Checking(change, eq, Next1(ch),
                               (AtZ(proof, Next1(ch)) ++ MaskShift(result.at_z, Next1(ch)))
                                 ++ (Next1(ch2) ** proof.mask_init), Next1(ch2), After(ch2, 1))

VerifyRound ==
  /\ At("zerocheck", "checking")
  /\ Size(result.rhos) < Rounds(result)
  /\ \E k \in {Size(result.rhos)} :
     \E ch \in {Sent(result.ch, result.proof.rounds[k])} :
     \E w \in {sumcheck_round_weights(result.r[K_SKIP + k], Next1(ch))} :
       result' =
         IF w = <<>> THEN [Ended(result.change, "SumcheckFinalFailed") EXCEPT !.prover = result.prover]
         ELSE [result EXCEPT !.running = fold_sumcheck_round(@, result.proof.rounds[k], w),
                             !.rhos = Strict(Cat(@, Single(Next1(ch)))), !.ch = After(ch, 1)]

VerifyEnd ==
  /\ At("zerocheck", "checking")
  /\ Size(result.rhos) = Rounds(result)
  /\ LET proof == result.proof
         last == Two(Single(proof.final_a), Single(proof.final_b))
         expected == (proof.final_a ** proof.final_b) ++
                     (IF Input.zk THEN result.gamma ** proof.final_p ** q_star_at(result.rhos) ELSE 0)
         ch == Sent(result.ch, <<proof.final_a, proof.final_b>>)
         at_z == result.prover.at_z
     IN  result' =
           [Ended(result.change, IF result.running # expected THEN "SumcheckFinalFailed" ELSE "Ok")
              EXCEPT !.prover = result.prover,
                     !.claim = Claim(result, [a |-> last[0], b |-> last[1]],
                                     IF at_z = <<>> THEN proof.final_c ELSE proof.final_c ++ at_z[1]["c"]),
                     !.script = IF Input.zk THEN observe(ch, proof.final_p).script ELSE ch.script]

\* The first message of a product of four factors, by every kernel.
QuarticFirst ==
  /\ Asked("deg4")
  /\ \E ps \in {[f \in DOMAIN Input.factors |-> pack_bits(Input.factors[f])]}, z \in {pack_bits(Input.z)},
        table \in {Strict(ByteTable(ByteBits, K_SKIP, K_V8, 0))} :
       result' = [kernel \in {"scalar", "neon", "x86"} |-> round1_shift_reduce_deg4(ps, z, Input.r, table, kernel)]

ZeroNext ==
  \/ QuarticFirst
  \/ ProveFirst \/ ProveFold \/ ProveRound \/ ProveEnd
  \/ ProveZkFold \/ ProveZkRound \/ ProveZkEnd
  \/ VerifyFirst \/ VerifyRound \/ VerifyEnd

-----------------------------------------------------------------------------
\* The rows of bits folded at z, and then by the first challenges of the rounds.
RowsFoldedAt(bits, z, rhos, k) ==
  LET f[j \in 0 .. k] == IF j = 0 THEN fold_at_z_naive(bits, lagrange_weights_naive(z))
                         ELSE fold_in_place_single(f[j - 1], rhos[j - 1])
  IN  f[k]
\* What is left to sum: the product of the folded rows and that of the mask.
LeftToSum(z, r, rhos, gamma) ==
  LET k == Size(rhos)
      left(a, b) == Total(Size(a), LAMBDA x : a[x] ** b[x] ** Eq(Slice(r, K_SKIP + k, Size(r) - K_SKIP - k), x))
      folded(v) == LET f[j \in 0 .. k] == IF j = 0 THEN v ELSE fold_in_place_single(f[j - 1], rhos[j - 1]) IN f[k]
  IN  left(RowsFoldedAt(Input.bits.a, z, rhos, k), RowsFoldedAt(Input.bits.b, z, rhos, k))
      ++ (IF Input.zk
          THEN gamma ** left(folded(expand(Input.p_small, Input.m)), folded(q_star_dense(Input.m)))
          ELSE 0)

\* The first message is what its definition says, whichever kernel computed it, whatever rows
\* the padding lets it skip and whether or not the folded rows of c are kept on the way.
FirstAsDefined ==
  LET bits == Input.bits
      r == result.r
  IN  /\ [ab |-> result.first.ab, c |-> result.first.c] = round1_naive(bits.a, bits.b, bits.c, r)
      /\ \A e \in {round1_extract_c_packed_with_s_hat_v(Input.w.a, Input.w.b, Input.w.c, r, Extension)} :
           /\ round1_extract_c_packed(Input.w.a, Input.w.b, Input.w.c, r, Extension)
                = [ab |-> result.first.ab, c |-> result.first.c]
           /\ [ab |-> e.ab, c |-> e.c] = [ab |-> result.first.ab, c |-> result.first.c]
           /\ Input.capture => e.s_hat_v_c = result.first.s_hat_v_c
      /\ ntt_extend_f128_vec(round1_evals_on_s(bits.a, bits.b, bits.c, r).c, Extension) = result.first.c

\* The masked first message shows the claim of c under its mask.
MaskedAsDefined ==
  LET bits == Input.bits
  IN  \A plain \in {round1_naive(bits.a, bits.b, bits.c, result.r)} :
        /\ interpolate_at_z_on_lambda(result.first.c, result.z)
             = interpolate_at_z_on_lambda(plain.c, result.z) ++ result.at_z[1]["c"]
        /\ AtZ([round1_ab |-> result.first.ab, round1_c |-> result.first.c], result.z)
             ++ MaskShift(result.at_z, result.z)
             = AtZ([round1_ab |-> plain.ab, round1_c |-> plain.c], result.z)

\* What is visible of the mask is the matrix times its coefficients. The mask run alone draws
\* the challenges of its rounds right after z.
MaskIsLinear(claim, proof) ==
  LET rhos == claim.mlv_challenges
      alone == mask_round_pairs(Input.p_small, Input.m, Input.tape)
      drawn == [k \in DOMAIN rhos |-> IF k = 0 THEN result.gamma ELSE rhos[k - 1]]
      shown(matrix, msgs) ==
        \A k \in DOMAIN msgs : \A i \in 1 .. 2 : msgs[k][i] = Dot(matrix.messages[k][i], Input.p_small)
  IN  /\ \A msgs \in {alone}, matrix \in {mask_functional_matrix_fv(Input.m, claim.r_rest, drawn)} :
           shown(matrix, msgs)
      /\ \A matrix \in {mask_functional_matrix_fv(Input.m, claim.r_rest, rhos)} :
           /\ proof.mask_init = Dot(matrix.init, Input.p_small)
           /\ proof.final_p = Dot(matrix.terminal, Input.p_small)
           /\ proof.final_p = Dot(terminal_basis(rhos, d(Input.m)), Input.p_small)

\* The values computed from the witness alone are those of the claim and of the proof.
TerminalsAreClaims(claim, proof) ==
  LET rows == [k \in {"w", "c", "h"} |-> IF k = "w" THEN Input.w.c ELSE Input.mask[1][k]]
  IN  evaluate_zk_terminals_packed_padded(Input, rows, result.r, claim.z, claim.mlv_challenges)
        = [a_eval |-> claim.a_eval, b_eval |-> claim.b_eval, c_eval |-> claim.c_eval, p_eval |-> proof.final_p,
           mask_init |-> proof.mask_init, mc_at_z |-> result.at_z[1]["c"], h_at_z |-> result.at_z[1]["h"]]

\* The verifier's running claim is in every round what is left to sum, so that an honest proof
\* is accepted with the transcript and the claims of the prover, which are the witness's rows
\* folded at the challenges; a changed last value or message is refused, and the first message
\* of a wrong witness agrees with the rows folded at z for fewer than 2 * ELL values of z. The
\* first message of a product of four is as defined too.
SumchecksReduce ==
  /\ Returned("deg4") =>
       \A naive \in {round1_deg4_naive(Input.factors, Input.z, Input.r)} : \A e \in {result[k] : k \in DOMAIN result} :
         Scale(c_s_f128, e.abcd) = naive.abcd /\ Scale(c_s_f128, e.z) = naive.z
  /\ Returned("zerocheck") =>
    /\ result.stage = "first" => IF Input.mask = <<>> THEN FirstAsDefined ELSE MaskedAsDefined
    /\ result.stage = "proving" =>
         /\ result.a = RowsFoldedAt(Input.bits.a, result.z, result.rhos, Size(result.rhos) - 1)
         /\ result.b = RowsFoldedAt(Input.bits.b, result.z, result.rhos, Size(result.rhos) - 1)
         /\ Size(result.rhos) = 1 =>
              /\ ~Input.zk =>
                   uni_skip_fold_and_round_pair_naive(Input.bits.a, Input.bits.b, result.z, RoundPoint(result.r, 0))
                     = [a |-> result.a, b |-> result.b, msg |-> result.msgs[0]]
              /\ fold_packed_witness_at_z(Input.w.c, UniSkipFoldTable(result.z))
                   = RowsFoldedAt(Input.bits.c, result.z, <<>>, 0)
    /\ result.stage = "proved" =>
         /\ ~Input.good =>
              Cardinality({z \in F : AtZ(result.proof, z) =
                Given(result.claim.r_rest, LAMBDA r :
                  Total(2 ^ Size(r), LAMBDA x :
                    Eq(r, x) ** RowsFoldedAt(Input.bits.a, z, r, 0)[x] ** RowsFoldedAt(Input.bits.b, z, r, 0)[x]))})
                < 2 * ELL
         /\ Input.zk => MaskIsLinear(result.claim, result.proof)
         /\ Input.mask # <<>> => TerminalsAreClaims(result.claim, result.proof)
    /\ result.stage = "checking" /\ result.change = "none" /\ Input.good =>
         result.running = LeftToSum(result.z, result.r, result.rhos, result.gamma)
    /\ result.stage = "ended" =>
         LET claim == result.prover.claim
         IN  CASE result.change = "none" /\ Input.good ->
                    /\ result.outcome = "Ok" /\ result.claim = claim
                    /\ result.script = result.prover.script
                    /\ claim.c_eval = Mle(RowsFoldedAt(Input.bits.c, claim.z, <<>>, 0), claim.r_rest)
               [] result.change = "final_a" /\ Input.good -> (result.outcome = "Ok") <=> (claim.b_eval = 0)
               [] result.change = "final_c" -> result.outcome = "CEvalMismatch"
               [] result.change = "short" -> result.outcome = "BadMultilinearRoundsLength"
               [] OTHER -> TRUE
=============================================================================
