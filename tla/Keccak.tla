------------------------------- MODULE Keccak -------------------------------
(* The permutation and its circuit: a block is one permutation or N_SUB of them,  *)
(* each keeping the state before and after, and of every round only the products  *)
(* of chi; the rows are never written out, the transpose of the matrices is       *)
(* folded round after round from the last to the first. A lane is the set of its  *)
(* bits that are one, a state of bits too, lanes a function of 25 lanes.          *)
EXTENDS BitCircuit
LOCAL INSTANCE SequencesExt

CONSTANTS N_ROUNDS,         \* rounds of the permutation: 24
          ROUND_CONSTANTS,  \* a lane for each round
          N_SUB             \* permutations of a wide block: 3

LANE_BITS == MACHINE_BITS
N_LANES == 25
STATE_BITS == N_LANES * LANE_BITS
RHO_OFFSETS == <<<<0, 36, 3, 41, 18>>, <<1, 44, 10, 45, 2>>, <<62, 6, 43, 15, 61>>, <<28, 55, 25, 21, 56>>,
                 <<27, 20, 39, 8, 14>>>>

\* The words of a block of n permutations: for each, 32 of the state before and 32 of the
\* state after, the constant, then for each the products of its rounds.
SLOT_WORDS == 32
state_word(i, r) == (2 * i + (IF r = 0 THEN 0 ELSE 1)) * SLOT_WORDS
const_word(n) == 2 * n * SLOT_WORDS
t_word(n, i, r) == const_word(n) + 1 + (i * N_ROUNDS + r) * N_LANES
UsefulBits(n) == t_word(n, n, 0) * LANE_BITS
KLog(n) == CHOOSE k \in 0 .. UsefulBits(n) : 2 ^ k >= UsefulBits(n) /\ 2 ^ (k - 1) < UsefulBits(n)
const_bit(n) == const_word(n) * LANE_BITS

\* A block of one.
state_u64_base(r) == state_word(0, r)
Z_CONST_U64 == const_word(1)
t_u64_base(r) == t_word(1, 0, r)
Z_CONST == const_bit(1)
KECCAK_USEFUL == UsefulBits(1)
KECCAK_K_LOG == KLog(1)
KECCAK_K == 2 ^ KECCAK_K_LOG

state_idx(x, y, z) == x + 5 * y + N_LANES * z
XOf(s) == s % 5
YOf(s) == (s % N_LANES) \div 5
ZOf(s) == s \div N_LANES
within_lane_contiguous(s) == LANE_BITS * (s % N_LANES) + ZOf(s)
sub_z_pos_state(i, r, s) == state_word(i, r) * LANE_BITS + within_lane_contiguous(s)
sub_z_pos_t(n, i, r, s) == t_word(n, i, r) * LANE_BITS + within_lane_contiguous(s)
z_pos_state(r, s) == sub_z_pos_state(0, r, s)
z_pos_t(r, s) == sub_z_pos_t(1, 0, r, s)
min_n_keccaks_log(n) == min_n_blocks_log(n)
keccak3_min_n_blocks_log(n) == min_n_blocks_log(DivCeil(n, N_SUB))

-----------------------------------------------------------------------------
(* The permutation on lanes, and bit by bit.                                      *)

LaneNumbers == 0 .. N_LANES - 1
StateBits == 0 .. STATE_BITS - 1
LaneOnes == 0 .. LANE_BITS - 1
rotate_left(x, n) == {(p + n) % LANE_BITS : p \in x}
Xor3(x, y, z) == xor_dedup(x, xor_dedup(y, z))
state_to_lanes(s) == Strict([i \in LaneNumbers |-> {z \in LaneOnes : state_idx(i % 5, i \div 5, z) \in s}])
lanes_to_state(lanes) == {s \in StateBits : ZOf(s) \in lanes[s % N_LANES]}
state_to_phys_bits(s) == {within_lane_contiguous(j) : j \in s}

theta_lanes(s) ==
  Given(Strict([x \in 0 .. 4 |-> xor_dedup(Xor3(s[x], s[x + 5], s[x + 10]), xor_dedup(s[x + 15], s[x + 20]))]), LAMBDA c :
    Strict([i \in LaneNumbers |-> Xor3(s[i], c[(i + 4) % 5], rotate_left(c[(i + 1) % 5], 1))]))
\* The bit of lane (x, y) at z comes from lane (a, b), where it was Offset(x, y) lower.
PiLane(i) == <<((i % 5) + 3 * (i \div 5)) % 5, i % 5>>
Offset(i) == RHO_OFFSETS[PiLane(i)[1] + 1][PiLane(i)[2] + 1] % LANE_BITS
rho_pi_lanes(s) == Strict([i \in LaneNumbers |-> rotate_left(s[PiLane(i)[1] + 5 * PiLane(i)[2]], Offset(i))])
Along(i, n) == ((i + n) % 5) + 5 * (i \div 5)
ChiProducts(b) == Strict([i \in LaneNumbers |-> b[Along(i, 2)] \ b[Along(i, 1)]])
chi_lanes(b) == Given(ChiProducts(b), LAMBDA t : Strict([i \in LaneNumbers |-> xor_dedup(b[i], t[i])]))
iota_lanes(s, r) == [s EXCEPT ![0] = xor_dedup(@, ROUND_CONSTANTS[r])]
keccak_round_lanes(s, r) == iota_lanes(chi_lanes(rho_pi_lanes(theta_lanes(s))), r)
compute_round_t_lanes(s) == ChiProducts(rho_pi_lanes(theta_lanes(s)))
keccak_round(s, r) == lanes_to_state(keccak_round_lanes(state_to_lanes(s), r))
keccak_f(s) == LET f[r \in 0 .. N_ROUNDS] == IF r = 0 THEN s ELSE keccak_round(f[r - 1], r - 1) IN f[N_ROUNDS]

theta(s) ==
  LET c == [x \in 0 .. 4, z \in LaneOnes |-> Odd({y \in 0 .. 4 : state_idx(x, y, z) \in s})]
      d(x, z) == c[(x + 4) % 5, z] # c[(x + 1) % 5, (z + LANE_BITS - 1) % LANE_BITS]
  IN  {j \in StateBits : (j \in s) # d(XOf(j), ZOf(j))}
SourceBit(j) ==
  Given((j % N_LANES), LAMBDA i : state_idx(PiLane(i)[1], PiLane(i)[2], (ZOf(j) + LANE_BITS - Offset(i)) % LANE_BITS))
rho_pi(s) == {j \in StateBits : SourceBit(j) \in s}
Beside(j, n) == state_idx((XOf(j) + n) % 5, YOf(j), ZOf(j))
chi(s) == {j \in StateBits : (j \in s) # (Beside(j, 1) \notin s /\ Beside(j, 2) \in s)}
iota(s, r) == xor_dedup(s, {state_idx(0, 0, z) : z \in ROUND_CONSTANTS[r]})

-----------------------------------------------------------------------------
(* A block, packed: products have the complement of one neighbour on the left and *)
(* the other neighbour on the right.                                              *)

\* What a round reads and leaves: the state after rho and pi, its products, the state next.
RoundOf(lanes, r) ==
  Given(rho_pi_lanes(theta_lanes(lanes)), LAMBDA b :
    Given(ChiProducts(b), LAMBDA t :
      [b |-> b, t |-> t, next |-> iota_lanes(Strict([i \in LaneNumbers |-> xor_dedup(b[i], t[i])]), r)]))
RoundsOf(lanes) ==
  LET f[r \in 0 .. N_ROUNDS - 1] == Given(IF r = 0 THEN lanes ELSE f[r - 1].next, LAMBDA s : RoundOf(s, r))
  IN  Strict(f)
WordsOf(rounds, r, part) ==
  CASE part = "z" -> rounds[r].t
    [] part = "a" -> Strict([i \in LaneNumbers |-> LaneOnes \ rounds[r].b[Along(i, 1)]])
    [] OTHER -> Strict([i \in LaneNumbers |-> rounds[r].b[Along(i, 2)]])
EndWords(lanes, part) == IF part = "b" THEN [i \in LaneNumbers |-> LaneOnes] ELSE lanes
Placed(base, words) == UNION {{(base + i) * LANE_BITS + z : z \in words[i]} : i \in LaneNumbers}
fill_subkeccak(n, i, initial) ==
  Given(state_to_lanes(initial), LAMBDA lanes :
    Given(RoundsOf(lanes), LAMBDA rounds :
      Strict([part \in {"z", "a", "b"} |->
        Placed(state_word(i, 0), EndWords(lanes, part))
          \cup Placed(state_word(i, N_ROUNDS), EndWords(rounds[N_ROUNDS - 1].next, part))
          \cup UNION {Placed(t_word(n, i, r), WordsOf(rounds, r, part)) : r \in 0 .. N_ROUNDS - 1}])))
build_sub_block_witness_into(n, states) ==
  Given(Strict([i \in 0 .. n - 1 |-> fill_subkeccak(n, i, states[i])]), LAMBDA subs :
    Strict([part \in {"z", "a", "b"} |-> {const_bit(n)} \cup UNION {subs[i][part] : i \in 0 .. n - 1}]))
build_chain_witness_ab_packed_into(initial) == build_sub_block_witness_into(1, [i \in {0} |-> initial])
\* Several to a block: the last block is filled with zero states.
SubStates(states, o) == [i \in 0 .. N_SUB - 1 |-> IF o * N_SUB + i <= Len(states) - 1 THEN states[o * N_SUB + i + 1] ELSE {}]
keccak3_generate_witness_with_ab_packed_and_lincheck(states, n_log) ==
  drive_witness_packed_and_lincheck(KLog(N_SUB),
    Strict([o \in 1 .. DivCeil(Len(states), N_SUB) |-> build_sub_block_witness_into(N_SUB, SubStates(states, o - 1))]),
    <<build_sub_block_witness_into(N_SUB, SubStates(<<>>, 0))>>, n_log)
keccak_generate_witness_with_ab_packed_and_lincheck(states, n_log) ==
  drive_witness_packed_and_lincheck(KECCAK_K_LOG, [i \in DOMAIN states |-> build_chain_witness_ab_packed_into(states[i])],
    <<build_chain_witness_ab_packed_into({})>>, n_log)

-----------------------------------------------------------------------------
(* BM_V blocks in lockstep, element after element of all the blocks, into memory  *)
(* nobody cleared: a writer pairs the two words of an element and stores a row of *)
(* elements at a time. A word of memory is a set of bits.                         *)

NoWord == 2 ^ 30
RowWriter(mem, o0, n_log) == [mem |-> mem, o0 |-> o0, n_log |-> n_log, pending_w |-> NoWord, pending |-> <<>>]
emit(m, c, even, odd) ==
  Given(2 * (c * 2 ^ m.n_log + m.o0), LAMBDA at :
    [m EXCEPT !.mem = Strict([q \in DOMAIN m.mem |->
       IF q \in at .. at + 2 * BM_V - 1 THEN (IF q % 2 = 0 THEN even ELSE odd)[(q - at) \div 2] ELSE m.mem[q]])])
Lane0(word) == [j \in 0 .. BM_V - 1 |-> word]
MutFlush(m) == [m EXCEPT !.pending_w = NoWord]
flush(m) ==
  IF m.pending_w = NoWord THEN m
  ELSE [emit(m, m.pending_w \div 2, m.pending, Lane0({})) EXCEPT !.pending_w = NoWord]
push(m, w, vals) ==
  IF w % 2 = 1 THEN [emit(m, w \div 2, m.pending, vals) EXCEPT !.pending_w = NoWord]
  ELSE [flush(m) EXCEPT !.pending_w = w, !.pending = vals]

\* What a group pushes for one part of its blocks, <<word, values>>, and where it flushes (NoWord).
Flush == <<NoWord, <<>>>>
GapWords(from, to) == [n \in 1 .. to - from |-> <<from + n - 1, Lane0({})>>]
PushedLanes(base, blocks, words(_)) ==
  [n \in 1 .. N_LANES |-> <<base + n - 1, Strict([j \in 0 .. BM_V - 1 |-> words(blocks[j])[n - 1]])>>]
Pushes(blocks, part) ==
  ((PushedLanes(state_u64_base(0), blocks, LAMBDA b : EndWords(b.lanes, part))
      \o <<Flush>>) \o GapWords(N_LANES + 1, state_u64_base(N_ROUNDS)))
    \o <<Flush, <<Z_CONST_U64, Lane0({0})>>>>
    \o FlattenSeq([r \in 1 .. N_ROUNDS |->
         PushedLanes(t_u64_base(r - 1), blocks, LAMBDA b : WordsOf(b.rounds, r - 1, part))])
    \o <<Flush>>
    \o PushedLanes(state_u64_base(N_ROUNDS), blocks, LAMBDA b : EndWords(b.rounds[N_ROUNDS - 1].next, part))
    \o <<Flush>> \o GapWords(SLOT_WORDS + N_LANES + 1, Z_CONST_U64) \o <<Flush>>
RECURSIVE Written(_, _, _, _)
Written(m, pushes, lo, hi) ==
  IF lo < hi
  THEN Given(Written(m, pushes, lo, (lo + hi) \div 2), LAMBDA half : Written(half, pushes, ((lo + hi) \div 2) + 1, hi))
  ELSE Given(pushes[lo], LAMBDA p : IF p[1] = NoWord THEN flush(m) ELSE push(m, p[1], p[2]))
StripePushed(pushes, o0) ==
  UNION {UNION {{<<(o0 \div BM_V) * KECCAK_K + p[1] * LANE_BITS + z, j>> : z \in p[2][j]} : j \in 0 .. BM_V - 1}
         : p \in {q \in {pushes[n] : n \in DOMAIN pushes} : q[1] # NoWord}}
Group(states, g) ==
  Strict([j \in 0 .. BM_V - 1 |->
    Given(state_to_lanes(IF g * BM_V + j <= Len(states) - 1 THEN states[g * BM_V + j + 1] ELSE {}), LAMBDA lanes :
      [lanes |-> lanes, rounds |-> RoundsOf(lanes)])])
build_group_batch_major(mem, blocks, g, n_log, part) ==
  Given(Pushes(blocks, part), LAMBDA pushes : Written(RowWriter(mem, g * BM_V, n_log), pushes, 1, Len(pushes)).mem)
\* Memory as it was taken: anything, but cleared after the useful elements.
TakenWords(n_log) ==
  Strict([q \in 0 .. (2 ^ n_log * (KECCAK_K \div LANE_BITS)) - 1 |->
    IF q < 2 * (DivCeil(KECCAK_USEFUL, CHUNK) * 2 ^ n_log) THEN LaneOnes ELSE {}])
BitsOf(mem) == UNION {{q * LANE_BITS + z : z \in mem[q]} : q \in DOMAIN mem}
keccak_generate_witness_batch_major(states, n_log) ==
  Given(Strict([g \in 0 .. (2 ^ n_log \div BM_V) - 1 |-> Group(states, g)]), LAMBDA groups :
    LET built(part) ==
          LET mem[g \in 0 .. 2 ^ n_log \div BM_V] ==
                IF g = 0 THEN TakenWords(n_log) ELSE build_group_batch_major(mem[g - 1], groups[g - 1], g - 1, n_log, part)
          IN  BitsOf(mem[2 ^ n_log \div BM_V])
    IN  [z |-> built("z"), a |-> built("a"), b |-> built("b"),
         stripe |-> UNION {StripePushed(Pushes(groups[g], "z"), g * BM_V) : g \in DOMAIN groups}])

-----------------------------------------------------------------------------
(* The transposed fold of the circuit nobody wrote the rows of.                   *)

\* The bits of the state a bit is the sum of, after theta, rho and pi.
theta_rho_pi_preimage(j) ==
  LET s == SourceBit(j)
      before == (ZOf(s) + LANE_BITS - 1) % LANE_BITS
  IN  {s} \cup {state_idx((XOf(s) + 4) % 5, y, ZOf(s)) : y \in 0 .. 4}
          \cup {state_idx((XOf(s) + 1) % 5, y, before) : y \in 0 .. 4}
Preimages == Strict([j \in StateBits |-> theta_rho_pi_preimage(j)])
Images == Given(Preimages, LAMBDA pre : Strict([s \in StateBits |-> {j \in StateBits : s \in pre[j]}]))
apply_phi_t(images, v) == Strict([s \in StateBits |-> SumOver(images[s], v)])
apply_phi_bool(v) == {j \in StateBits : Odd(theta_rho_pi_preimage(j) \cap v)}

\* The weights of the products of round r, at the bits their neighbours k along are sums of.
ChiWeights(images, eq, n, i, r, k) ==
  Given(Strict([j \in StateBits |-> eq[sub_z_pos_t(n, i, r, Beside(j, 5 - k))]]), LAMBDA v : apply_phi_t(images, v))
PlusVec(v, u) == Strict([s \in StateBits |-> v[s] ++ u[s]])
\* From the last round back: what reaches the products of each round, and the first state.
Backwards(images, last, chiw) ==
  LET k[i \in 0 .. N_ROUNDS - 1] ==
        IF i = 0 THEN PlusVec(last, chiw[N_ROUNDS - 1])
        ELSE PlusVec(apply_phi_t(images, k[i - 1]), chiw[N_ROUNDS - 1 - i])
  IN  Strict(k)
\* The round constants that have reached the state before round r.
RoundConstantsBefore ==
  LET rc[r \in 0 .. N_ROUNDS] ==
        IF r = 0 THEN {}
        ELSE xor_dedup(apply_phi_bool(rc[r - 1]), {state_idx(0, 0, z) : z \in ROUND_CONSTANTS[r - 1]})
  IN  Strict(rc)

\* The terms of the constant's column.
ConstColumn(n, i, alpha, eq, chi_a, chi_b, vec_pin, rc) ==
  LET rows(base, words) == SumOver(base * LANE_BITS .. (base + words) * LANE_BITS - 1, eq)
      rounds(f(_)) == Total(N_ROUNDS, f)
  IN  (rows(state_word(i, 0), N_LANES) ++ rows(state_word(i, N_ROUNDS), N_LANES))
        ++ ((alpha ** (rows(t_word(n, i, 0), N_LANES * N_ROUNDS)
                        ++ (rounds(LAMBDA r : SumOver(rc[r], chi_a[r])) ++ SumOver(rc[N_ROUNDS], vec_pin))))
        ++ rounds(LAMBDA r : SumOver(rc[r], chi_b[r])))
\* Bit s of the state in the words from base is at position p of the block.
StateBit(base, p) == ((p \div LANE_BITS) - base) + N_LANES * (p % LANE_BITS)
InWords(p, base, words) == p \div LANE_BITS \in base .. base + words - 1
\* What a column gets: the constant, the state before, the last products, those before them.
Column(n, i, alpha, eq, const, k_a, k_b, vec_pin, p) ==
  LET reached(k, s) == (alpha ** k_a[k][s]) ++ k_b[k][s]
  IN  CASE p = const_bit(n) -> const
        [] InWords(p, state_word(i, 0), N_LANES) -> (alpha ** eq[p]) ++ reached(N_ROUNDS - 1, StateBit(state_word(i, 0), p))
        [] InWords(p, t_word(n, i, N_ROUNDS - 1), N_LANES) -> alpha ** vec_pin[StateBit(t_word(n, i, N_ROUNDS - 1), p)]
        [] InWords(p, t_word(n, i, 0), N_LANES * (N_ROUNDS - 1)) ->
             Given(((p \div LANE_BITS) - t_word(n, i, 0)) \div N_LANES, LAMBDA r :
               reached((N_ROUNDS - 2) - r, StateBit(t_word(n, i, r), p)))
        [] OTHER -> 0
accumulate_subkeccak(n, i, alpha, eq, images) ==
  Given(Strict([r \in 0 .. N_ROUNDS - 1 |-> ChiWeights(images, eq, n, i, r, 1)]), LAMBDA chi_a :
  Given(Strict([r \in 0 .. N_ROUNDS - 1 |-> ChiWeights(images, eq, n, i, r, 2)]), LAMBDA chi_b :
  Given(Strict([j \in StateBits |-> eq[sub_z_pos_state(i, N_ROUNDS, j)]]), LAMBDA vec_pin :
  Given(Backwards(images, apply_phi_t(images, vec_pin), chi_a), LAMBDA k_a :
  Given(Backwards(images, [j \in StateBits |-> 0], chi_b), LAMBDA k_b :
  Given(RoundConstantsBefore, LAMBDA rc :
  Given(ConstColumn(n, i, alpha, eq, chi_a, chi_b, vec_pin, rc), LAMBDA const :
    Strict([p \in 0 .. 2 ^ KLog(n) - 1 |-> Column(n, i, alpha, eq, const, k_a, k_b, vec_pin, p)]))))))))
sub_fold_alpha_batched(n, alpha, eq) ==
  Given(Images, LAMBDA images :
    Given(Strict([i \in 0 .. n - 1 |-> accumulate_subkeccak(n, i, alpha, eq, images)]), LAMBDA combs :
      Strict([p \in 0 .. 2 ^ KLog(n) - 1 |->
        Total(n, LAMBDA i : combs[i][p])
          ++ IF p = const_bit(n) THEN (alpha ** eq[p]) ++ eq[p] ELSE 0])))
keccak3_fold_alpha_batched(alpha, eq) == sub_fold_alpha_batched(N_SUB, alpha, eq)
keccak_const_pin_col == Z_CONST
keccak_fold_alpha_batched(alpha, eq) == sub_fold_alpha_batched(1, alpha, eq)
keccak_build_block_r1cs(n_log) == build_block_r1cs_empty_stub(n_log, KECCAK_K_LOG, KECCAK_USEFUL)
keccak3_build_block_r1cs(n_log) == build_block_r1cs_empty_stub(n_log, KLog(N_SUB), UsefulBits(N_SUB))
=============================================================================
