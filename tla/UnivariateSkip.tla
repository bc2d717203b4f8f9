--------------------------- MODULE UnivariateSkip ---------------------------
(* The first round of the zerocheck: the first K_SKIP coordinates are skipped by *)
(* extending each row of bits from the domain S to the domain L after it. Naive  *)
(* forms and the fast ones, which fold the first inner coordinates by shifts and *)
(* tables at fixed challenges. A packed vector is a vector of bytes; a byte is   *)
(* also an element of the byte field.                                            *)
EXTENDS CosetNtt

CONSTANTS ByteBits,    \* bits of a byte: 8 in the code
          K_SKIP,      \* skipped coordinates
          N_SMALL,     \* log of the bits of a byte
          N_MEDIUM,    \* coordinates folded by the table
          MAX_N_HI,    \* most coordinates in the upper half of a split equality table
          SMALL_CHAL,  \* the challenges of the small coordinates, as bytes
          C_S          \* the factor they leave behind, as a byte

Two(a, b) == [f \in 0 .. 1 |-> IF f = 0 THEN a ELSE b]
Single(v) == [f \in {0} |-> v]

ELL == 2 ^ K_SKIP
N_CHUNKS == ELL \div ByteBits
N_INNER == N_SMALL + N_MEDIUM
K_V8 == K_SKIP + 2
LAMBDA4_SIZE == 2 ^ K_V8 - ELL

Minus(a, b) == IF a > b THEN a - b ELSE 0
Smaller(a, b) == IF a < b THEN a ELSE b
DivUp(a, b) == (a + b - 1) \div b
RowOf(v, x) == Slice(v, x * ELL, ELL)
Chunk(packed, x) == Slice(packed, x * N_CHUNKS, N_CHUNKS)
PackedBit(packed, x, s) == Bit(packed[x * N_CHUNKS + (s \div ByteBits)], s % ByteBits)

\* The embedding of the byte field into the large one. Over GF(16) both are the same
\* field, and the embedding is not the identity but squaring.
phi8(v) == v ** v

\* Doubling: variable i splits every entry so far.
build_eq(r) ==
  LET t[i \in 0 .. Size(r)] ==
        IF i = 0 THEN [x \in {0} |-> 1]
        ELSE Given(t[i - 1], LAMBDA u :
               [x \in 0 .. 2 ^ i - 1 |-> IF x >= 2 ^ (i - 1) THEN u[x - 2 ^ (i - 1)] ** r[i - 1]
                                         ELSE u[x] ** (1 ++ r[i - 1])])
  IN  Strict(t[Size(r)])

SplitEqOf(r, hi) ==
  [n_lo |-> Size(r) - hi, n_hi |-> hi, lo |-> build_eq(Slice(r, 0, Size(r) - hi)),
   hi |-> build_eq(Slice(r, Size(r) - hi, hi))]
SplitEq(r) == SplitEqOf(r, Smaller(Size(r), MAX_N_HI))
\* The sum of eq(x) * f(x) over both halves of the table.
SplitSum(eq, f(_)) ==
  Total(2 ^ eq.n_hi, LAMBDA xh :
    eq.hi[xh] ** Total(2 ^ eq.n_lo, LAMBDA xl : eq.lo[xl] ** f(xh * 2 ^ eq.n_lo + xl)))

pack_bits(bits) == Strict(BytesOf(ByteBits, Padded(bits, ByteBits * DivUp(Size(bits), ByteBits))))

-----------------------------------------------------------------------------
(* The first message as it is defined.                                           *)

\* The point of the equality table of the rows.
RowPoint(r) == Slice(r, K_SKIP, Size(r) - K_SKIP)
\* A row of bits extended from S to a domain of size 2^k, and all rows of a vector.
ExtendRow(row, k, beta) == Strict(forward(k, beta, Padded(inverse(K_SKIP, 0, row), 2 ^ k)))
ExtendedRows(v, k, beta) ==
  Strict([x \in 0 .. (Size(v) \div ELL) - 1 |-> ExtendRow(RowOf(v, x), k, beta)])
\* The sums over rows, for point i of the domain, of the products of the columns.
ProductSums(cols, eq, from, n) ==
  [i \in 0 .. n - 1 |-> Total(Size(eq), LAMBDA x :
     eq[x] ** phi8(Prod(Size(cols), LAMBDA f : cols[f][x][from + i])))]
RowSums(vs, k, beta, r, from, n) ==
  Given([f \in DOMAIN vs |-> ExtendedRows(vs[f], k, beta)], LAMBDA cols :
    Given(build_eq(RowPoint(r)), LAMBDA eq : ProductSums(cols, eq, from, n)))

round1_naive(a, b, c, r) ==
  [ab |-> RowSums([f \in 0 .. 1 |-> IF f = 0 THEN a ELSE b], K_SKIP, ELL, r, 0, ELL),
   c |-> RowSums([f \in {0} |-> c], K_SKIP, ELL, r, 0, ELL)]

\* The same sums on S itself, where no extension is needed.
round1_evals_on_s(a, b, c, r) ==
  Given(build_eq(RowPoint(r)), LAMBDA eq :
    [ab |-> [s \in 0 .. ELL - 1 |-> Total(Size(eq), LAMBDA x :
               IF a[x * ELL + s] = 1 /\ b[x * ELL + s] = 1 THEN eq[x] ELSE 0)],
     c |-> [s \in 0 .. ELL - 1 |-> Total(Size(eq), LAMBDA x :
               IF c[x * ELL + s] = 1 THEN eq[x] ELSE 0)]])

\* Elements of the large field are extended bit by bit: bit plane w of the row goes through
\* the table and comes back with weight x^w.
ntt_extend_f128_vec(v, table) ==
  Given([w \in 0 .. 3 |->
           Strict(apply_scalar(ByteBits, table, BytesOf(ByteBits, [z \in DOMAIN v |-> Bit(v[z], w)])))],
        LAMBDA planes : Strict([i \in DOMAIN table[0] |->
                                  Total(4, LAMBDA w : (2 ^ w) ** phi8(planes[w][i]))]))

PackedColumns(p, table) ==
  Strict([x \in 0 .. (Size(p) \div N_CHUNKS) - 1 |-> Strict(apply_scalar(ByteBits, table, Chunk(p, x)))])
PackedProducts(aP, bP, eq, table) ==
  Given(<<PackedColumns(aP, table), PackedColumns(bP, table)>>, LAMBDA t :
    Strict([i \in 0 .. ELL - 1 |-> SplitSum(eq, LAMBDA x : phi8(t[1][x][i] ** t[2][x][i]))]))
\* c is not multiplied, so it is folded on S and extended once at the end. Its sums are
\* one, or two: row x goes to part x % parts.
PackedOnS(cP, eq, parts) ==
  Strict([p \in 0 .. parts - 1 |-> Strict([s \in 0 .. ELL - 1 |->
    SplitSum(eq, LAMBDA x : IF x % parts = p THEN PackedBit(cP, x, s) ELSE 0)])])

round1_extract_c_packed(aP, bP, cP, r, table) ==
  Given(SplitEq(RowPoint(r)), LAMBDA eq :
    [ab |-> PackedProducts(aP, bP, eq, table),
     c |-> ntt_extend_f128_vec(PackedOnS(cP, eq, 1)[0], table)])

\* The sums for even and odd rows apart; each, freed of the equality's factor of the lowest
\* coordinate, is a part of the folded rows that the ring switch wants.
round1_extract_c_packed_with_s_hat_v(aP, bP, cP, r, table) ==
  Given(SplitEq(RowPoint(r)), LAMBDA eq : Given(PackedOnS(cP, eq, 2), LAMBDA c_s :
    [ab |-> PackedProducts(aP, bP, eq, table),
     c |-> ntt_extend_f128_vec(VecAdd(c_s[0], c_s[1]), table),
     s_hat_v_c |-> Cat(Scale(Inv(1 ++ r[K_SKIP]), c_s[0]), Scale(Inv(r[K_SKIP]), c_s[1]))]))

-----------------------------------------------------------------------------
(* The fast form. With the small challenges, the weights of the rows of a block  *)
(* are the powers of x of the byte field, up to a factor; with the medium ones,  *)
(* the weights of the blocks are the powers of x of the large field.             *)

GammaPower(i) == LET g[j \in 0 .. i] == IF j = 0 THEN 2 ELSE g[j - 1] ** g[j - 1] IN g[i]
XPower(n) == Prod(n, LAMBDA j : 2)

c_s_f128 == phi8(C_S)
small_challenges == [i \in 0 .. N_SMALL - 1 |-> phi8(SMALL_CHAL[i])]
medium_challenges == [i \in 0 .. N_MEDIUM - 1 |-> GammaPower(i) ** Inv(1 ++ GammaPower(i))]
c_2_small == Prod(N_SMALL - 1, LAMBDA i : 1 ++ small_challenges[i + 1])
alpha_inv == phi8(Inv(2))
d_inv == Inv(Prod(N_MEDIUM, LAMBDA i : 1 ++ GammaPower(i)))
convert_table == Strict([b \in 0 .. 2 ^ N_MEDIUM - 1 |-> Strict([v \in F |-> XPower(b) ** phi8(v)])])

\* Remainder of a polynomial over bits, given as a number, in the byte field.
gf8_reduce(n) == Total(8, LAMBDA i : IF Bit(n, i) = 1 THEN XPower(i) ELSE 0)
XorShifted(y) ==
  LET s[k \in 0 .. ByteBits] == IF k = 0 THEN 0 ELSE Xor(s[k - 1], y[k - 1] * 2 ^ (k - 1)) IN s[ByteBits]

\* Where the bytes of row k of medium position b of outer block number x start.
InBlock(x, b, k) == (x * 2 ^ N_INNER + b * ByteBits + k) * N_CHUNKS

\* The extended rows of a position, multiplied over the factors ps; in pairs by the fused
\* kernel, which takes its rows from the table in vectors.
ApplyBy(kernel, table, bytes) ==
  IF kernel = "scalar" THEN apply_scalar(ByteBits, table, bytes)
  ELSE IF kernel = "neon" THEN apply_neon(ByteBits, table, bytes)
  ELSE apply_x86(ByteBits, table, bytes)
fused_one_k(kernel, ps, table, x, b, k) ==
  Given([f \in DOMAIN ps |-> Strict(ApplyBy(kernel, table, Slice(ps[f], InBlock(x, b, k), N_CHUNKS)))],
        LAMBDA c : Strict([i \in DOMAIN table[0] |->
                     IF Size(ps) = 4 /\ kernel = "neon" THEN (c[0][i] ** c[1][i]) ** (c[2][i] ** c[3][i])
                     ELSE Prod(Size(ps), LAMBDA f : c[f][i])]))

\* Row k shifted by k, reduced once; the kernels with a byte multiplication scale it in the field.
shift_reduce_scalar(y, i) == gf8_reduce(XorShifted([k \in 0 .. ByteBits - 1 |-> y[k][i]]))
shift_reduce_x86(y, i) == Total(ByteBits, LAMBDA k : y[k][i] ** XPower(k))
shift_reduce(kernel, ps, table, x, b, from) ==
  Given(Strict([k \in 0 .. ByteBits - 1 |-> fused_one_k(kernel, ps, table, x, b, k)]), LAMBDA y :
    Strict([i \in 0 .. Size(table[0]) - from - 1 |->
              IF kernel = "x86" THEN shift_reduce_x86(y, from + i) ELSE shift_reduce_scalar(y, from + i)]))

\* Byte `lane` of the output holds bit `lane` of every row.
bit_transpose(packed, x, b) ==
  Strict([lane \in 0 .. ELL - 1 |->
    LET w[k \in 0 .. ByteBits] ==
          IF k = 0 THEN 0
          ELSE w[k - 1] + 2 ^ (k - 1) * PackedBit(packed, x * 2 ^ N_INNER + b * ByteBits + k - 1, lane)
    IN  w[ByteBits]])

\* The bytes of the medium positions through the table, times the outer weight. Of a byte
\* the rows of the given parities are kept.
Every == {0, 1}
KeepRows(v, rows) == Total(4, LAMBDA i : IF (i % 2) \in rows THEN Bit(v, i) * 2 ^ i ELSE 0)
accumulate_convert(bytes, n, weight, rows, convert) ==
  Given(<<bytes, weight>>, LAMBDA u :
    [lane \in DOMAIN u[1][0] |->
       u[2] ** Total(n, LAMBDA b : convert[b][KeepRows(u[1][b][lane], rows)])])

\* How many medium positions of a block of rows hold data: of an aligned block of 2^k_log
\* bits only the first `useful` ones do. The mutant rounds down.
MutMedCounts(padding) ==
  LET stride == 2 ^ (K_SKIP + N_INNER)
  IN  IF padding.k_log < K_SKIP + N_INNER THEN [w \in {0} |-> 2 ^ N_MEDIUM]
      ELSE [w \in 0 .. 2 ^ Minus(padding.k_log, K_SKIP + N_INNER) - 1 |->
              Smaller(Minus(padding.useful, w * stride) \div 2 ^ (K_SKIP + N_SMALL), 2 ^ N_MEDIUM)]
build_b_med_counts(padding) ==
  LET stride == 2 ^ (K_SKIP + N_INNER)
  IN  IF padding.k_log < K_SKIP + N_INNER THEN [w \in {0} |-> 2 ^ N_MEDIUM]
      ELSE [w \in 0 .. 2 ^ Minus(padding.k_log, K_SKIP + N_INNER) - 1 |->
              IF w * stride >= padding.useful THEN 0
              ELSE Smaller(DivUp(padding.useful - w * stride, 2 ^ (K_SKIP + N_SMALL)), 2 ^ N_MEDIUM)]

\* One output, "ab" or a part of c, of the blocks of one upper half: ps is <<a, b>> or <<c>>.
BlockBytes(kernel, ps, table, x, n) ==
  Strict([b \in 0 .. n - 1 |-> IF Size(ps) = 1 THEN bit_transpose(ps[0], x, b)
                               ELSE shift_reduce(kernel, ps, table, x, b, 0)])
process_one_x_hi(xh, eq, counts, ps, table, rows, kernel) ==
  Given(convert_table, LAMBDA convert :
    Scale(eq.hi[xh], VecTotal(2 ^ eq.n_lo, ELL, LAMBDA xl :
      Given(counts[(xh * 2 ^ eq.n_lo + xl) % Size(counts)], LAMBDA n :
        IF n = 0 THEN [i \in 0 .. ELL - 1 |-> 0]
        ELSE accumulate_convert(BlockBytes(kernel, ps, table, xh * 2 ^ eq.n_lo + xl, n), n,
                                eq.lo[xl] ** d_inv, rows, convert)))))

\* The rows of c of one parity.
process_one_x_hi_with_s_hat_v(xh, eq, counts, cP, table, parity, kernel) ==
  process_one_x_hi(xh, eq, counts, Single(cP), table, {parity}, kernel)

BlockPoint(r) == Slice(r, K_SKIP + N_INNER, Size(r) - K_SKIP - N_INNER)
ShiftReduce(ps, r, table, padding, kernel) ==
  Given(SplitEq(BlockPoint(r)), LAMBDA eq : Given(build_b_med_counts(padding), LAMBDA counts :
    Strict(VecTotal(2 ^ eq.n_hi, ELL, LAMBDA xh :
      process_one_x_hi(xh, eq, counts, ps, table, Every, kernel)))))
ShiftReduceParity(cP, r, table, padding, parity, kernel) ==
  Given(SplitEq(BlockPoint(r)), LAMBDA eq : Given(build_b_med_counts(padding), LAMBDA counts :
    Strict(VecTotal(2 ^ eq.n_hi, ELL, LAMBDA xh :
      process_one_x_hi_with_s_hat_v(xh, eq, counts, cP, table, parity, kernel)))))

round1_shift_reduce(aP, bP, cP, r, table, padding, kernel) ==
  [ab |-> ShiftReduce(Two(aP, bP), r, table, padding, kernel),
   c |-> ntt_extend_f128_vec(ShiftReduce(Single(cP), r, table, padding, kernel), table)]

round1_shift_reduce_with_s_hat_v(aP, bP, cP, r, table, padding, kernel) ==
  Given([p \in 0 .. 1 |-> ShiftReduceParity(cP, r, table, padding, p, kernel)], LAMBDA c_s :
    [ab |-> ShiftReduce(Two(aP, bP), r, table, padding, kernel),
     c |-> ntt_extend_f128_vec(VecAdd(c_s[0], c_s[1]), table),
     s_hat_v_c |-> Strict(Cat(Scale(c_2_small, c_s[0]), Scale(c_2_small ** alpha_inv, c_s[1])))])

-----------------------------------------------------------------------------
(* Four factors: the rows are extended to the whole byte field, and the message  *)
(* is its part outside of S.                                                     *)

\* ps: a, b, c, d; z is not multiplied.
round1_deg4_naive(ps, z, r) ==
  [abcd |-> RowSums(ps, K_V8, 0, r, ELL, LAMBDA4_SIZE),
   z |-> RowSums(Single(z), K_V8, 0, r, ELL, LAMBDA4_SIZE)]

ntt_extend_f128_vec_deg4(v, table) == Slice(ntt_extend_f128_vec(v, table), ELL, LAMBDA4_SIZE)

\* Only the lanes outside of S are reduced.
shift_reduce_deg4(kernel, ps, table, x, b) == shift_reduce(kernel, ps, table, x, b, ELL)
round1_shift_reduce_deg4(ps, zP, r, table, kernel) ==
  Given(build_eq(BlockPoint(r)), LAMBDA eq : Given(convert_table, LAMBDA convert :
    [abcd |-> Strict(VecTotal(Size(eq), LAMBDA4_SIZE, LAMBDA x :
       accumulate_convert([b \in 0 .. 2 ^ N_MEDIUM - 1 |-> shift_reduce_deg4(kernel, ps, table, x, b)],
                          2 ^ N_MEDIUM, eq[x] ** d_inv, Every, convert))),
     z |-> ntt_extend_f128_vec_deg4(Strict(VecTotal(Size(eq), ELL, LAMBDA x :
       accumulate_convert([b \in 0 .. 2 ^ N_MEDIUM - 1 |-> bit_transpose(zP, x, b)],
                          2 ^ N_MEDIUM, eq[x] ** d_inv, Every, convert))), table)]))
=============================================================================
