------------------------------- MODULE Blake3 -------------------------------
(* The compression function and its circuit: additions keep their carries, two    *)
(* words of each half round are given slots, everything else is a sum of slots.   *)
EXTENDS BitCircuit
LOCAL INSTANCE SequencesExt

CONSTANTS B3_ROUNDS,        \* rounds of a compression: 7
          B3_ROTATIONS,     \* of the two halves of a G: <<16, 12, 8, 7>>
          B3_IV,            \* eight words
          B3_ROOT,          \* flags and length of a root block of 64 bytes: [flags, len]
          B3_ZK_CONFIG      \* chunks of randomizers and the pair of masked slots of a block

G_LANES == <<<<0, 4, 8, 12>>, <<1, 5, 9, 13>>, <<2, 6, 10, 14>>, <<3, 7, 11, 15>>,
             <<0, 5, 10, 15>>, <<1, 6, 11, 12>>, <<2, 7, 8, 13>>, <<3, 4, 9, 14>>>>
MSG_PERMUTATION == <<2, 6, 3, 10, 7, 0, 4, 13, 1, 11, 12, 5, 9, 14, 15, 8>>

\* The slots of a block.
B3_SLOT_BITS == 8 * WORD_BITS
B3_ONE == 2 * B3_SLOT_BITS
B3_CV(i) == WORD_BITS * i
B3_OUT_LO(i) == B3_SLOT_BITS + WORD_BITS * i
B3_M(i) == B3_ONE + 1 + WORD_BITS * i
B3_PARAM(i) == B3_M(16) + WORD_BITS * i
G_STRIDE == 6 * CARRY_BITS_PER_ADD + 2 * WORD_BITS
B3_G(g) == B3_PARAM(4) + G_STRIDE * g
MutCarryBase(g, add) == B3_G(g) + CARRY_BITS_PER_ADD * (IF add = 3 THEN 2 ELSE add)
g_add_carry(g, add) == B3_G(g) + CARRY_BITS_PER_ADD * add
g_lin(g, which) == B3_G(g) + 6 * CARRY_BITS_PER_ADD + WORD_BITS * which
B3_OUT_HI(i) == B3_G(8 * B3_ROUNDS) + WORD_BITS * i
B3_USEFUL == B3_OUT_HI(8)
B3_K_LOG == CHOOSE k \in 0 .. B3_USEFUL : 2 ^ k >= B3_USEFUL /\ 2 ^ (k - 1) < B3_USEFUL

-----------------------------------------------------------------------------
(* The function. A compression is [cv, m, t: low and high word, len, flags].      *)

g_fn(s, la, lb, lc, ld, mx, my) ==
  LET half(v, x, r, q) ==
        Given(wrapping_add(wrapping_add(v[1], v[2]), x), LAMBDA a :
          Given(rotate_right(xor_dedup(v[4], a), r), LAMBDA d :
            Given(wrapping_add(v[3], d), LAMBDA c : <<a, rotate_right(xor_dedup(v[2], c), q), c, d>>)))
  IN  Given(half(half(<<s[la], s[lb], s[lc], s[ld]>>, mx, B3_ROTATIONS[1], B3_ROTATIONS[2]),
                 my, B3_ROTATIONS[3], B3_ROTATIONS[4]), LAMBDA v :
        [s EXCEPT ![la] = v[1], ![lb] = v[2], ![lc] = v[3], ![ld] = v[4]])
round_fn(state, block) ==
  LET s[g \in 0 .. 8] ==
        IF g = 0 THEN state
        ELSE Given(s[g - 1], LAMBDA v :
               Strict(g_fn(v, G_LANES[g][1], G_LANES[g][2], G_LANES[g][3], G_LANES[g][4], block[2 * g - 2], block[2 * g - 1])))
  IN  s[8]
permute(m) == Strict([i \in 0 .. 15 |-> m[MSG_PERMUTATION[i + 1]]])
initial_state(c) ==
  [i \in 0 .. 15 |-> CASE i < 8 -> c.cv[i] [] i < 12 -> B3_IV[i - 8] [] i = 12 -> c.t[1] [] i = 13 -> c.t[2]
                       [] i = 14 -> c.len [] OTHER -> c.flags]
blake3_compress(c) ==
  LET run[r \in 0 .. B3_ROUNDS] ==
        IF r = 0 THEN <<initial_state(c), c.m>>
        ELSE Given(run[r - 1], LAMBDA sm :
               <<round_fn(sm[1], sm[2]), IF r < B3_ROUNDS THEN permute(sm[2]) ELSE sm[2]>>)
  IN  Given(run[B3_ROUNDS][1], LAMBDA s :
        Strict([i \in 0 .. 15 |-> IF i < 8 THEN xor_dedup(s[i], s[i + 8]) ELSE xor_dedup(s[i], c.cv[i - 8])]))

-----------------------------------------------------------------------------
(* The circuit.                                                                   *)

per_round_msg_idx ==
  LET perm[r \in 0 .. B3_ROUNDS - 1] ==
        IF r = 0 THEN [i \in 0 .. 15 |-> i] ELSE Strict([i \in 0 .. 15 |-> perm[r - 1][MSG_PERMUTATION[i + 1]]])
  IN  Strict([r \in 0 .. B3_ROUNDS - 1 |-> Strict(perm[r])])

LaneR(i) == <<"s", i>>
MsgR(i) == <<"m", i>>
CvR(i) == <<"cv", i>>
TmpR == <<"tmp", 0>>
B3_REGISTERS == {LaneR(i) : i \in 0 .. 15} \cup {MsgR(i) : i \in 0 .. 15} \cup {CvR(i) : i \in 0 .. 7} \cup {TmpR}
Gate(g, L, x, y) ==
  <<ADD(TmpR, LaneR(L[1]), LaneR(L[2]), g_add_carry(g, 0)), ADD(LaneR(L[1]), TmpR, MsgR(x), g_add_carry(g, 1)),
    XOR(LaneR(L[4]), LaneR(L[4]), LaneR(L[1])), ROTR(LaneR(L[4]), LaneR(L[4]), B3_ROTATIONS[1]),
    ADD(LaneR(L[3]), LaneR(L[3]), LaneR(L[4]), g_add_carry(g, 2)),
    XOR(LaneR(L[2]), LaneR(L[2]), LaneR(L[3])), ROTR(LaneR(L[2]), LaneR(L[2]), B3_ROTATIONS[2]),
    ADD(TmpR, LaneR(L[1]), LaneR(L[2]), g_add_carry(g, 3)), ADD(LaneR(L[1]), TmpR, MsgR(y), g_add_carry(g, 4)),
    XOR(LaneR(L[4]), LaneR(L[4]), LaneR(L[1])), ROTR(LaneR(L[4]), LaneR(L[4]), B3_ROTATIONS[3]),
    ADD(LaneR(L[3]), LaneR(L[3]), LaneR(L[4]), g_add_carry(g, 5)),
    XOR(LaneR(L[2]), LaneR(L[2]), LaneR(L[3])), ROTR(LaneR(L[2]), LaneR(L[2]), B3_ROTATIONS[4]),
    LIN(LaneR(L[2]), LaneR(L[2]), g_lin(g, 0)), LIN(LaneR(L[4]), LaneR(L[4]), g_lin(g, 1))>>
B3_INPUTS ==
  [i \in 1 .. 28 |-> CASE i <= 8 -> INPUT(CvR(i - 1), B3_CV(i - 1)) [] i <= 24 -> INPUT(MsgR(i - 9), B3_M(i - 9))
                       [] OTHER -> INPUT(LaneR(i - 13), B3_PARAM(i - 25))]
initial_lane_words ==
  [i \in 1 .. 12 |-> IF i <= 8 THEN MOVE(LaneR(i - 1), CvR(i - 1)) ELSE CONST(LaneR(i - 1), B3_IV[i - 9])]
B3_OUTPUTS(i) ==
  <<XOR(TmpR, LaneR(i), LaneR(i + 8)), LIN(TmpR, TmpR, B3_OUT_LO(i)), XOR(TmpR, LaneR(i + 8), CvR(i)), LIN(TmpR, TmpR, B3_OUT_HI(i))>>
B3_PROGRAM ==
  Given(per_round_msg_idx, LAMBDA idx :
    (B3_INPUTS \o initial_lane_words)
      \o FlattenSeq([n \in 1 .. 8 * B3_ROUNDS |->
           Given(<<(n - 1) \div 8, (n - 1) % 8>>, LAMBDA rg :
             Gate(n - 1, G_LANES[rg[2] + 1], idx[rg[1]][2 * rg[2]], idx[rg[1]][(2 * rg[2]) + 1]))])
      \o FlattenSeq([i \in 1 .. 8 |-> B3_OUTPUTS(i - 1)]))

-----------------------------------------------------------------------------
(* The parameters the matrices may pin, and what they pad a batch with.           *)

ZeroWords(n) == [i \in 0 .. n - 1 |-> {}]
padding_compression(pinning) ==
  IF pinning = "Free" THEN [cv |-> ZeroWords(8), m |-> ZeroWords(16), t |-> <<{}, {}>>, len |-> {}, flags |-> {}]
  ELSE [cv |-> B3_IV, m |-> ZeroWords(16), t |-> <<{}, {}>>, len |-> B3_ROOT.len, flags |-> B3_ROOT.flags]
padding_digest_words(pinning) == [i \in 0 .. 7 |-> blake3_compress(padding_compression(pinning))[i]]
Values(c) ==
  [r \in {LaneR(i) : i \in 12 .. 15} \cup {MsgR(i) : i \in 0 .. 15} \cup {CvR(i) : i \in 0 .. 7} |->
     CASE r[1] = "cv" -> c.cv[r[2]] [] r[1] = "m" -> c.m[r[2]] [] OTHER -> initial_state(c)[r[2]]]
pinned(pinning) ==
  IF pinning = "Free" THEN <<>>
  ELSE LET v == Values(padding_compression(pinning)) IN [r \in {q \in DOMAIN v : q[1] # "m"} |-> v[r]]

build_matrices_rows_pinned(pinning) ==
  Walk(Pinned(B3_ONE, pinned(pinning)), Values(padding_compression("Free")), B3_REGISTERS, B3_PROGRAM)
blake3_fold_alpha_batched(alpha, eq) ==
  Walk(Scatterer(B3_ONE, 2 ^ B3_K_LOG, alpha, eq), Values(padding_compression("Free")), B3_REGISTERS, B3_PROGRAM)
build_block_witness(c) == Walk(Builder("bits", B3_ONE), Values(c), B3_REGISTERS, B3_PROGRAM)
build_block_witness_ab_packed_into(c) == Walk(Builder("packed", B3_ONE), Values(c), B3_REGISTERS, B3_PROGRAM)

blake3_zk_layout == NewLayout(B3_K_LOG, B3_USEFUL, Log2(B3_SLOT_BITS), B3_ZK_CONFIG)
blake3_generate_witness(cs) == generate_witness_bits(B3_K_LOG, [i \in DOMAIN cs |-> build_block_witness(cs[i])])
BuiltBlocks(cs) == Strict([i \in DOMAIN cs |-> build_block_witness_ab_packed_into(cs[i])])
generate_witness_with_ab_packed_and_lincheck_pinned(cs, n_log, pinning) ==
  drive_witness_packed_and_lincheck(B3_K_LOG, BuiltBlocks(cs), BuiltBlocks(<<padding_compression(pinning)>>), n_log)
generate_witness_zk_pinned(cs, n_log, rand, pinning) ==
  drive_witness_packed_and_lincheck_zk(B3_K_LOG, BuiltBlocks(cs), BuiltBlocks(<<padding_compression(pinning)>>), n_log,
    <<[layout |-> blake3_zk_layout, rand |-> rand]>>)
\* In lockstep: lane j of the group is block j's walk.
blake3_generate_witness_batch_major(cs, n_log) ==
  drive_witness_batch_major(B3_K_LOG, BuiltBlocks(cs), build_block_witness_ab_packed_into(padding_compression("Free")),
    n_log, B3_USEFUL)

\* The statement about 2^n_log blocks, with randomizers or without.
build_block_r1cs_zk_pinned(n_log, pinning) ==
  build_block_r1cs_with_matrices(n_log, B3_K_LOG, blake3_zk_layout.useful_bits_zk,
    build_matrices_zk(build_matrices_rows_pinned(pinning), B3_ONE, blake3_zk_layout), B3_ONE)
build_block_r1cs_pinned(n_log, pinning) ==
  build_block_r1cs_with_matrices(n_log, B3_K_LOG, B3_USEFUL, build_matrices_rows_pinned(pinning), B3_ONE)
build_block_r1cs_veil_pinned(n_log, pinning) ==
  build_block_r1cs_with_matrices_any_outer(n_log, B3_K_LOG, B3_USEFUL, build_matrices_rows_pinned(pinning), B3_ONE)
=============================================================================
