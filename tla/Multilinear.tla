----------------------------- MODULE Multilinear -----------------------------
(* The rounds of the zerocheck after the first: the packed rows folded at z by   *)
(* tables of bytes, and the messages and folds of a product of two tables, naive *)
(* and fused, by the portable loops and by lanes.                                *)
EXTENDS UnivariateSkip

Unbounded == 2 ^ 20

\* Pairs of rows of a block without data: <<mask of the pair's number, pairs with data>>.
round2_pair_skip(padding) ==
  LET pairs == 2 ^ Minus(padding.k_log, K_SKIP + 1)
      useful == DivUp(padding.useful, 2 * ELL)
  IN  IF padding.k_log <= K_SKIP + 1 \/ useful >= pairs THEN <<1, Unbounded>> ELSE <<pairs, useful>>

-----------------------------------------------------------------------------
(* Lagrange weights. Point number i of the byte field is phi8(i).                *)

\* The weights at z of the points from .. from + n - 1 among the points first .. last.
Weights(from, n, first, last, z) ==
  Strict([i \in 0 .. n - 1 |->
    Prod(last - first + 1, LAMBDA j :
      IF first + j = from + i THEN 1
      ELSE (z ++ phi8(first + j)) ** Inv(phi8(from + i) ++ phi8(first + j)))])

lagrange_weights_naive(z) == Weights(0, ELL, 0, ELL - 1, z)
lagrange_weights_lambda_naive(z) == Weights(ELL, ELL, ELL, 2 * ELL - 1, z)
interpolate_at_z_on_lambda(values, z) == Dot(lagrange_weights_lambda_naive(z), values)
vanishing_s_at(z) == Prod(ELL, LAMBDA j : z ++ phi8(j))
vanishing_s_on_lambda == [i \in 0 .. ELL - 1 |-> vanishing_s_at(phi8(ELL + i))]

\* The polynomial vanishes on S: over S and L together only the values on L count.
interpolate_at_z_combined_weights(z) == Weights(ELL, ELL, 0, 2 * ELL - 1, z)
interpolate_at_z_combined(values, z) == Dot(values, interpolate_at_z_combined_weights(z))

eq_eval(r, x) == Prod(Size(r), LAMBDA i : (1 ++ r[i]) ++ x[i])

-----------------------------------------------------------------------------
(* As defined.                                                                   *)

fold_at_z_naive(bits, weights) ==
  Strict([x \in 0 .. (Size(bits) \div ELL) - 1 |->
            Total(ELL, LAMBDA s : IF bits[x * ELL + s] = 1 THEN weights[s] ELSE 0)])

\* What four values <<a at 0, a at 1, b at 0, b at 1>> add to a message: its value at one and
\* at infinity.
AtOne(q) == q[2] ** q[4]
AtInfinity(q) == (q[1] ++ q[2]) ** (q[3] ++ q[4])
Quad(a, b, x) == <<a[2 * x], a[2 * x + 1], b[2 * x], b[2 * x + 1]>>
Rest(r) == Slice(r, 1, Size(r) - 1)

\* r[0] is the equality's factor of the variable of this round.
round_pair_naive(a, b, r) ==
  Given(build_eq(Rest(r)), LAMBDA eq :
    <<r[0] ** Total(Size(eq), LAMBDA x : eq[x] ** AtOne(Quad(a, b, x))),
      Total(Size(eq), LAMBDA x : eq[x] ** AtInfinity(Quad(a, b, x)))>>)

uni_skip_fold_and_round_pair_naive(a, b, z, r) ==
  Given(lagrange_weights_naive(z), LAMBDA w :
    Given(Two(fold_at_z_naive(a, w), fold_at_z_naive(b, w)), LAMBDA f :
      [a |-> f[0], b |-> f[1], msg |-> round_pair_naive(f[0], f[1], r)]))

-----------------------------------------------------------------------------
(* A row folds byte by byte: entry v of the table of byte j is the sum of the    *)
(* weights of the ones of v.                                                     *)

UniSkipFoldTable(z) ==
  Given(lagrange_weights_naive(z), LAMBDA w :
    Strict([j \in 0 .. N_CHUNKS - 1 |->
      LET d[v \in 0 .. 2 ^ ByteBits - 1] ==
            IF v = 0 THEN 0
            ELSE IF v = 2 ^ LowestOne(v) THEN w[ByteBits * j + LowestOne(v)]
            ELSE d[v - 2 ^ LowestOne(v)] ++ d[2 ^ LowestOne(v)]
      IN  Strict(d)]))

fold_one_row(table, bytes) == Total(N_CHUNKS, LAMBDA j : table[j][bytes[j]])
fold_one_row_neon(table, bytes) ==
  LET acc[j \in 0 .. N_CHUNKS - 1] ==
        IF j = 0 THEN table[0][bytes[0]] ELSE acc[j - 1] ++ table[j][bytes[j]]
  IN  acc[N_CHUNKS - 1]

fold_packed_witness_at_z(packed, table) ==
  Strict([x \in 0 .. (Size(packed) \div N_CHUNKS) - 1 |-> fold_one_row(table, Chunk(packed, x))])

\* The four rows of a pair, byte by byte in four lanes.
fold_round2_pair_x86(table, rows) ==
  LET acc[j \in 0 .. N_CHUNKS] ==
        IF j = 0 THEN <<0, 0, 0, 0>>
        ELSE [l \in 1 .. 4 |-> acc[j - 1][l] ++ table[j - 1][rows[l][j - 1]]]
  IN  acc[N_CHUNKS]
FoldedPair(kernel, table, rows) ==
  IF kernel = "x86" THEN fold_round2_pair_x86(table, rows)
  ELSE IF kernel = "neon" THEN [l \in 1 .. 4 |-> fold_one_row_neon(table, rows[l])]
  ELSE [l \in 1 .. 4 |-> fold_one_row(table, rows[l])]

\* The sum of f over 0 .. n - 1 by lanes: one accumulator a lane, and one for the rest.
LaneTotal(n, lanes, f(_)) ==
  Total(lanes, LAMBDA l : Total(n \div lanes, LAMBDA g : f(g * lanes + l)))
  ++ Total(n % lanes, LAMBDA t : f(n - (n % lanes) + t))
Lanes(kernel) == IF kernel = "x86" THEN 4 ELSE 1

\* A chunk per entry of the upper half of the split table.
ChunkSums(eq, quads, lanes, g(_)) ==
  Total(2 ^ eq.n_hi, LAMBDA xh :
    eq.hi[xh] ** LaneTotal(2 ^ eq.n_lo, lanes, LAMBDA x :
      eq.lo[x] ** g(quads[xh * 2 ^ eq.n_lo + x])))
MessageOf(quads, r, kernel) ==
  Given(SplitEq(Rest(r)), LAMBDA eq :
    <<r[0] ** ChunkSums(eq, quads, Lanes(kernel), AtOne),
      ChunkSums(eq, quads, Lanes(kernel), AtInfinity)>>)

\* A pair without data is written as zeros and adds nothing.
PairQuads(aP, bP, table, padding, kernel) ==
  Given(round2_pair_skip(padding), LAMBDA skip :
    Strict([p \in 0 .. (Size(aP) \div (2 * N_CHUNKS)) - 1 |->
      IF p % skip[1] >= skip[2] THEN <<0, 0, 0, 0>>
      ELSE Strict(FoldedPair(kernel, table, [l \in 1 .. 4 |->
             Chunk(IF l <= 2 THEN aP ELSE bP, 2 * p + ((l - 1) % 2))]))]))
Unpaired(quads, l) == Strict([x \in 0 .. 2 * Size(quads) - 1 |-> quads[x \div 2][l + (x % 2)]])
uni_skip_fold_and_round_pair_optimized_packed_padded(aP, bP, table, r, padding, kernel) ==
  Given(PairQuads(aP, bP, table, padding, kernel), LAMBDA quads :
    [a |-> Unpaired(quads, 1), b |-> Unpaired(quads, 3), msg |-> MessageOf(quads, r, kernel)])

-----------------------------------------------------------------------------
fold_in_place_single(a, r) ==
  Strict([x \in 0 .. (Size(a) \div 2) - 1 |-> a[2 * x] ++ (r ** (a[2 * x + 1] ++ a[2 * x]))])
fold_in_place_pair(a, b, r) == [a |-> fold_in_place_single(a, r), b |-> fold_in_place_single(b, r)]

\* Fold and message one after the other; and at once, a chunk per entry of the upper half.
fold_and_compute_round_pair(a, b, r_fold, r_next) ==
  Given(fold_in_place_pair(a, b, r_fold), LAMBDA f :
    [a |-> f.a, b |-> f.b, msg |-> round_pair_naive(f.a, f.b, r_next)])
fold_and_compute_round_pair_into(a, b, r_fold, r_next, kernel) ==
  Given(fold_in_place_pair(a, b, r_fold), LAMBDA f :
    [a |-> f.a, b |-> f.b,
     msg |-> MessageOf([x \in 0 .. (Size(f.a) \div 2) - 1 |-> Quad(f.a, f.b, x)], r_next, kernel)])

-----------------------------------------------------------------------------
(* The mask of the zero-knowledge zerocheck: p times q, where p has 2^D_LOG      *)
(* coefficients, spread over the rows by repeating the bits of their number, and *)
(* q is affine, with coefficients from a hash.                                   *)

CONSTANTS D_LOG,      \* log of the coefficients of the mask
          QStarWords  \* number -> the words of the hash stream behind a coefficient of q

\* The first word that is not zero.
hash_coefficient(index) ==
  LET words == QStarWords[index]
  IN  words[CHOOSE n \in DOMAIN words : words[n] # 0 /\ \A k \in 1 .. n - 1 : words[k] = 0]

d_log_for(m) == Smaller(D_LOG, m - K_SKIP - 1)
d(m) == 2 ^ d_log_for(m)
support_index(small, m) ==
  LET sum[k \in 0 .. m - K_SKIP] ==
        IF k = 0 THEN 0 ELSE sum[k - 1] + (2 ^ (k - 1) * Bit(small, (k - 1) % d_log_for(m)))
  IN  sum[m - K_SKIP]
terminal_basis(rho, packedLen) ==
  Given(build_eq(rho), LAMBDA eq :
    [i \in 0 .. packedLen - 1 |->
       IF i < d(Size(rho) + K_SKIP) THEN eq[support_index(i, Size(rho) + K_SKIP)] ELSE 0])

alphas(m) == Strict([j \in 0 .. m - K_SKIP - 1 |-> hash_coefficient(j + 1)])
q_star_constant == hash_coefficient(0)
q_star_at(rho) == q_star_constant ++ Dot(alphas(Size(rho) + K_SKIP), rho)
q_star_dense(m) ==
  Given(alphas(m), LAMBDA alpha :
    LET q[v \in 0 .. 2 ^ (m - K_SKIP) - 1] ==
          IF v = 0 THEN q_star_constant ELSE q[v - 2 ^ LowestOne(v)] ++ alpha[LowestOne(v)]
    IN  Strict(q))
expand(p_small, m) ==
  Given([i \in DOMAIN p_small |-> support_index(i, m)], LAMBDA at :
    Strict([v \in 0 .. 2 ^ (m - K_SKIP) - 1 |->
              Total(Size(p_small), LAMBDA i : IF at[i] = v THEN p_small[i] ELSE 0)]))

\* All that the transcript shows of the mask is linear in p: two rows for the messages of
\* every round, one for its sum and one for its last value. In round k a column weighs what
\* its number's first k bits left of it.
QAfter(m, rhos) ==
  LET q[k \in 0 .. Size(rhos)] == IF k = 0 THEN q_star_dense(m) ELSE fold_in_place_single(q[k - 1], rhos[k - 1])
  IN  q
ColumnScale(rhos, index, k) ==
  Prod(k, LAMBDA j : IF Bit(index, j) = 0 THEN 1 ++ rhos[j] ELSE rhos[j])
MaskRows(q, eq, rhos, at, k) ==
  Given([c \in DOMAIN at |-> eq[at[c] \div 2 ^ (k + 1)] ** ColumnScale(rhos, at[c], k)], LAMBDA weight :
    LET pair(c) == 2 * (at[c] \div 2 ^ (k + 1))
    IN  <<Strict([c \in DOMAIN at |-> IF Bit(at[c], k) = 1 THEN weight[c] ** q[pair(c) + 1] ELSE 0]),
          Strict([c \in DOMAIN at |-> weight[c] ** (q[pair(c)] ++ q[pair(c) + 1])])>>)
mask_functional_matrix_fv(m, r_rest, rhos) ==
  Given([c \in 0 .. d(m) - 1 |-> support_index(c, m)], LAMBDA at :
    Given(QAfter(m, rhos), LAMBDA q : Given(<<build_eq(r_rest), build_eq(rhos)>>, LAMBDA eq :
      [messages |-> Strict([k \in 0 .. m - K_SKIP - 1 |->
          MaskRows(q[k], build_eq(Slice(r_rest, k + 1, m - K_SKIP - k - 1)), rhos, at, k)]),
       init |-> Strict([c \in DOMAIN at |-> eq[1][at[c]] ** q[0][at[c]]]),
       terminal |-> Strict([c \in DOMAIN at |-> eq[2][at[c]]])])))
=============================================================================
