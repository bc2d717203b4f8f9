-------------------------------- MODULE Sha2 --------------------------------
(* The compression function of SHA-256 and its circuit: every addition keeps its  *)
(* carries, the words of the schedule and of the state that later steps read have *)
(* slots of their own.                                                            *)
EXTENDS BitCircuit
LOCAL INSTANCE SequencesExt

CONSTANTS N_SCHED,         \* words the schedule adds to the sixteen of the message: 48
          SHA_ROTATIONS,   \* of the four sigmas: [s0, s1: two and a shift, S0, S1: three]
          SHA256_K         \* a word for each round

SHA_ROUNDS == N_SCHED + 16

\* The slots of a block.
SHA_SLOT_BITS == 8 * WORD_BITS
h_bit(i) == WORD_BITS * i
h_out_bit(i) == SHA_SLOT_BITS + WORD_BITS * i
m_bit(i) == (2 * SHA_SLOT_BITS) + WORD_BITS * i
ch_and_bit(r) == m_bit(16) + WORD_BITS * r
maj_and_bit(r) == ch_and_bit(SHA_ROUNDS) + WORD_BITS * r
round_carry_bit(r, add) == maj_and_bit(SHA_ROUNDS) + ((7 * r) + add) * CARRY_BITS_PER_ADD
W_BASE == round_carry_bit(SHA_ROUNDS, 0)
w_bit(t) == IF t < 16 THEN m_bit(t) ELSE W_BASE + WORD_BITS * (t - 16)
sched_carry_bit(t, add) == w_bit(SHA_ROUNDS) + ((3 * (t - 16)) + add) * CARRY_BITS_PER_ADD
t1_bit(r) == sched_carry_bit(SHA_ROUNDS, 0) + WORD_BITS * r
e_new_bit(r) == t1_bit(SHA_ROUNDS) + WORD_BITS * r
a_new_bit(r) == e_new_bit(SHA_ROUNDS) + WORD_BITS * r
out_carry_bit(i) == a_new_bit(SHA_ROUNDS) + CARRY_BITS_PER_ADD * i
SHA_ONE == out_carry_bit(8)
SHA_USEFUL == SHA_ONE + 1
SHA_K_LOG == CHOOSE k \in 0 .. SHA_USEFUL : 2 ^ k >= SHA_USEFUL /\ 2 ^ (k - 1) < SHA_USEFUL

-----------------------------------------------------------------------------
(* The function, of a compression [h, m].                                         *)

rotr32(x, n) == rotate_right(x, n)
small_sigma(x, r) == xor_dedup(xor_dedup(rotr32(x, r[1]), rotr32(x, r[2])), shift_right(x, r[3]))
big_sigma(x, r) == xor_dedup(xor_dedup(rotr32(x, r[1]), rotr32(x, r[2])), rotr32(x, r[3]))
add32(x, y) == wrapping_add(x, y)
sha_schedule(m) ==
  LET w[t \in 0 .. SHA_ROUNDS] ==
        IF t <= 15 THEN m
        ELSE Given(w[t - 1], LAMBDA v :
               Strict([i \in 0 .. t |->
                 IF i < t THEN v[i]
                 ELSE add32(add32(add32(small_sigma(v[t - 2], SHA_ROTATIONS.s1), v[t - 7]),
                                small_sigma(v[t - 15], SHA_ROTATIONS.s0)), v[t - 16])]))
  IN  w[SHA_ROUNDS - 1]
sha_round(s, k, word) ==
  Given(add32(add32(add32(add32(s[8], big_sigma(s[5], SHA_ROTATIONS.S1)), (s[5] \cap s[6]) \cup (s[7] \ s[5])), k), word),
    LAMBDA t1 :
      Given(add32(big_sigma(s[1], SHA_ROTATIONS.S0), (s[1] \cap s[2]) \cup (s[1] \cap s[3]) \cup (s[2] \cap s[3])), LAMBDA t2 :
        <<add32(t1, t2), s[1], s[2], s[3], add32(s[4], t1), s[5], s[6], s[7]>>))
sha256_compress(c) ==
  Given(sha_schedule(c.m), LAMBDA w :
    LET run[r \in 0 .. SHA_ROUNDS] ==
          IF r = 0 THEN [i \in 1 .. 8 |-> c.h[i - 1]]
          ELSE Given(run[r - 1], LAMBDA s : Strict(sha_round(s, SHA256_K[r - 1], w[r - 1])))
    IN  Given(run[SHA_ROUNDS], LAMBDA s : Strict([i \in 0 .. 7 |-> add32(s[i + 1], c.h[i])])))

-----------------------------------------------------------------------------
(* The circuit. The eight registers of a round move by one each round, their      *)
(* names go round instead.                                                        *)

HashR(i) == <<"h", i>>
WordR(i) == <<"m", i>>
StateR(r, i) == <<"r", (i + 8 * SHA_ROUNDS - r) % 8>>
XR == <<"x", 0>>
YR == <<"y", 0>>
VR == <<"v", 0>>
TR == <<"t", 0>>
SHA_REGISTERS == {HashR(i) : i \in 0 .. 7} \cup {StateR(0, i) : i \in 0 .. 7} \cup {WordR(i) : i \in 0 .. SHA_ROUNDS - 1} \cup {XR, YR, VR, TR}
SIGMA(to, x, r, last) == <<ROTR(to, x, r[1]), ROTR(VR, x, r[2]), XOR(to, to, VR), last, XOR(to, to, VR)>>
sigma(to, x, r) == SIGMA(to, x, r, SHR(VR, x, r[3]))
big_sigma_words(to, x, r) == SIGMA(to, x, r, ROTR(VR, x, r[3]))
ScheduleGate(t) ==
  sigma(XR, WordR(t - 2), SHA_ROTATIONS.s1) \o sigma(YR, WordR(t - 15), SHA_ROTATIONS.s0)
    \o <<ADD(XR, XR, WordR(t - 7), sched_carry_bit(t, 0)), ADD(XR, XR, YR, sched_carry_bit(t, 1)),
         ADD(XR, XR, WordR(t - 16), sched_carry_bit(t, 2)), LIN(WordR(t), XR, w_bit(t))>>
RoundGate(r) ==
  LET a == StateR(r, 0)
      b == StateR(r, 1)
      c == StateR(r, 2)
      d == StateR(r, 3)
      e == StateR(r, 4)
      f == StateR(r, 5)
      g == StateR(r, 6)
      h == StateR(r, 7)
  IN  big_sigma_words(XR, e, SHA_ROTATIONS.S1)
        \o <<ADD(TR, h, XR, round_carry_bit(r, 0)),
             XOR(XR, f, g), AND(XR, e, XR, ch_and_bit(r)), XOR(XR, XR, g), ADD(TR, TR, XR, round_carry_bit(r, 1)),
             CONST(XR, SHA256_K[r]), ADD(TR, TR, XR, round_carry_bit(r, 2)),
             ADD(TR, TR, WordR(r), round_carry_bit(r, 3)), LIN(TR, TR, t1_bit(r)),
             XOR(XR, a, b), XOR(YR, a, c), AND(YR, XR, YR, maj_and_bit(r)), XOR(YR, YR, a)>>
        \o big_sigma_words(XR, a, SHA_ROTATIONS.S0)
        \o <<ADD(XR, XR, YR, round_carry_bit(r, 4)),
             ADD(d, d, TR, round_carry_bit(r, 5)), LIN(d, d, e_new_bit(r)),
             ADD(h, TR, XR, round_carry_bit(r, 6)), LIN(h, h, a_new_bit(r))>>
OutputGate(i) ==
  <<ADD(XR, StateR(SHA_ROUNDS, i), HashR(i), out_carry_bit(i)), LIN(XR, XR, h_out_bit(i))>>
SHA_PROGRAM ==
  [i \in 1 .. 24 |-> IF i <= 8 THEN INPUT(HashR(i - 1), h_bit(i - 1)) ELSE INPUT(WordR(i - 9), m_bit(i - 9))]
    \o FlattenSeq([n \in 1 .. N_SCHED |-> ScheduleGate(15 + n)])
    \o [i \in 1 .. 8 |-> MOVE(StateR(0, i - 1), HashR(i - 1))]
    \o FlattenSeq([n \in 1 .. SHA_ROUNDS |-> RoundGate(n - 1)])
    \o FlattenSeq([i \in 1 .. 8 |-> OutputGate(i - 1)])

-----------------------------------------------------------------------------
(* Its walks, and a batch of blocks.                                              *)

ShaValues(c) == [r \in {HashR(i) : i \in 0 .. 7} \cup {WordR(i) : i \in 0 .. 15} |-> IF r[1] = "h" THEN c.h[r[2]] ELSE c.m[r[2]]]
ZeroCompression == [h |-> [i \in 0 .. 7 |-> {}], m |-> [i \in 0 .. 15 |-> {}]]
sha2_build_matrices == Walk(Builder("rows", SHA_ONE), ShaValues(ZeroCompression), SHA_REGISTERS, SHA_PROGRAM)
sha2_fold_alpha_batched(alpha, eq) ==
  Walk(Scatterer(SHA_ONE, 2 ^ SHA_K_LOG, alpha, eq), ShaValues(ZeroCompression), SHA_REGISTERS, SHA_PROGRAM)
sha2_build_block_witness(c) == Walk(Builder("bits", SHA_ONE), ShaValues(c), SHA_REGISTERS, SHA_PROGRAM)
build_block_ab_packed_into(c) == Walk(Builder("packed", SHA_ONE), ShaValues(c), SHA_REGISTERS, SHA_PROGRAM)
read_h_out(z) == [i \in 0 .. 7 |-> {b \in Positions : h_out_bit(i) + b \in z}]

sha2_build_block_r1cs(n_log) ==
  build_block_r1cs_with_matrices(n_log, SHA_K_LOG, SHA_USEFUL, sha2_build_matrices, SHA_ONE)
ShaBlocks(cs) == Strict([i \in DOMAIN cs |-> build_block_ab_packed_into(cs[i])])
sha2_generate_witness(cs) == generate_witness_bits(SHA_K_LOG, [i \in DOMAIN cs |-> sha2_build_block_witness(cs[i])])
sha2_generate_witness_with_ab_packed_and_lincheck(cs, n_log) ==
  drive_witness_packed_and_lincheck(SHA_K_LOG, ShaBlocks(cs), ShaBlocks(<<ZeroCompression>>), n_log)
sha2_generate_witness_batch_major(cs, n_log) ==
  drive_witness_batch_major(SHA_K_LOG, ShaBlocks(cs), build_block_ab_packed_into(ZeroCompression), n_log, SHA_USEFUL)
=============================================================================
