------------------------------ MODULE Lincheck ------------------------------
(* The lincheck: that the values of A z and B z at a point, which the zerocheck  *)
(* leaves behind, are those of one block's matrices applied to every block of a  *)
(* witness z. The witness is folded over its blocks by one of several kernels;   *)
(* a sumcheck of the matrices' weights against the fold runs over the upper      *)
(* coordinates of a block; a mask hides the fold. The two layouts of a witness   *)
(* say which coordinate of a point is an address's and which a block's.          *)
EXTENDS Calls, Multilinear

CONSTANTS TILE_T,            \* stripes swept at once
          BLOCK_K,           \* columns swept at once
          FOLD_CHUNKS,       \* chunks of stripes or tiles shared out between workers
          OBLOCK_MIN_N_LOG,  \* log of the blocks from which workers share out tiles
          PAR_ROWS,          \* rows from which a fold of rows is shared out
          MIN_CHUNK_ROWS,    \* least rows of a share
          PACKED_BITS,       \* bits of a packed element, 2^(K_SKIP + 1)
          Linchecks,         \* [m, k_log, useful, layout, kind, a, b: matrices, pin, z: bits block by
                             \*  block, mask: <<>> or <<bits>>, host, skip, mlv, off: errors, tape]
          LinFolds           \* [m, k_log, useful, z, kind, a, b, eq, alpha, hosts]

\* Shares of size `size` of 0 .. n - 1, each summed up before the shares are.
LOCAL SumOfShares(n, size, width, f(_)) ==
  VecTotal(DivUp(n, size), width, LAMBDA s :
    VecTotal(Smaller(size, n - s * size), width, LAMBDA i : f(s * size + i)))
LOCAL Larger(x, y) == IF x > y THEN x ELSE y
RoundedUp(n, k) == DivUp(n, k) * k

-----------------------------------------------------------------------------
(* Layouts of a witness of 2^m bits. Row-major, its blocks follow each other;    *)
(* batch-major, elements of the same place in every block do.                    *)

LogPacked == Log2(PACKED_BITS)
padding_spec(c) ==
  IF c.layout = "RowMajor" THEN [k_log |-> c.k_log, useful |-> c.useful]
  ELSE [k_log |-> c.m, useful |-> DivUp(c.useful, PACKED_BITS) * 2 ^ (LogPacked + c.m - c.k_log)]
\* The block-wise place of the bit at an address.
PlaceOf(c, address) ==
  LET n == 2 ^ (c.m - c.k_log)
      element == address \div PACKED_BITS
  IN  IF c.layout = "RowMajor" THEN address
      ELSE (address % PACKED_BITS) + PACKED_BITS * (element \div n) + 2 ^ c.k_log * (element % n)
InAddressOrder(c, v) == Strict([i \in DOMAIN v |-> v[PlaceOf(c, i)]])

Quirky(skip, inner, outer) == [z_skip |-> skip, x_inner_rest |-> Strict(inner), x_outer |-> Strict(outer)]
From(v, i) == Slice(v, i, Size(v) - i)
x_ab_from_mlv(c, skip, mlv) ==
  LET rest == c.k_log - K_SKIP
      n_log == c.m - c.k_log
  IN  IF c.layout = "RowMajor" THEN Quirky(skip, Slice(mlv, 0, rest), From(mlv, rest))
      ELSE Quirky(skip, Cat(Single(mlv[0]), From(mlv, 1 + n_log)), Slice(mlv, 1, n_log))
ab_claim_point(c, skip, rest, outer) ==
  IF c.layout = "RowMajor" THEN Quirky(skip, rest, outer)
  ELSE Quirky(skip, Single(rest[0]), Cat(outer, From(rest, 1)))

-----------------------------------------------------------------------------
(* Packing: byte j of the stripes holds, for one place of a block, the bits of   *)
(* ByteBits blocks.                                                              *)

StripeBit(i, k) ==
  (ByteBits * ((i \div ByteBits) \div k) + (i % ByteBits)) * k + ((i \div ByteBits) % k)
pack_z_lincheck(z, k) == Strict(BytesOf(ByteBits, [i \in DOMAIN z |-> z[StripeBit(i, k)]]))
pack_z_lincheck_from_packed(words, k) ==
  Strict(BytesOf(ByteBits,
    [i \in 0 .. Size(words) * PACKED_BITS - 1 |->
       Bit(words[StripeBit(i, k) \div PACKED_BITS], StripeBit(i, k) % PACKED_BITS)]))

\* A mask's elements in the padding of a block are put to zero, as the folds take them to be.
zero_lincheck_padding_rows(words, k, useful) ==
  [w \in DOMAIN words |->
     IF useful # k /\ w % (k \div PACKED_BITS) >= useful \div PACKED_BITS THEN 0 ELSE words[w]]

-----------------------------------------------------------------------------
(* The fold of a packed witness over its blocks: place i of a block is summed    *)
(* with the weights eq of the blocks. A stripe is the bytes of ByteBits blocks.  *)

Stripes(c) == 2 ^ (c.m - c.k_log) \div ByteBits
Tiles(c) == Stripes(c) \div TILE_T

partial_fold_packed_z(c, zb, eq) ==
  [i \in 0 .. 2 ^ c.k_log - 1 |->
     Total(2 ^ (c.m - c.k_log), LAMBDA o :
       IF Bit(zb[(o \div ByteBits) * 2 ^ c.k_log + i], o % ByteBits) = 1 THEN eq[o] ELSE 0)]

\* Doubling: the sums of all choices of the weights of a stripe.
build_sum_table(e) ==
  LET t[i \in 0 .. ByteBits] ==
        IF i = 0 THEN [b \in {0} |-> 0]
        ELSE Given(t[i - 1], LAMBDA u :
               [b \in 0 .. 2 ^ i - 1 |-> IF b >= 2 ^ (i - 1) THEN u[b - 2 ^ (i - 1)] ++ e[i - 1] ELSE u[b]])
  IN  Strict(t[ByteBits])
\* The bytes of a stripe before a column, looked up.
StripeSums(c, zb, eq, s, columns) ==
  Given(build_sum_table(Slice(eq, ByteBits * s, ByteBits)), LAMBDA table :
    [i \in 0 .. 2 ^ c.k_log - 1 |-> IF i < columns THEN table[zb[s * 2 ^ c.k_log + i]] ELSE 0])
partial_fold_packed_z_fast_padded(c, zb, useful, eq) ==
  SumOfShares(Stripes(c), Larger(Stripes(c) \div FOLD_CHUNKS, 1), 2 ^ c.k_log, LAMBDA s :
    StripeSums(c, zb, eq, s, useful))
partial_fold_packed_z_fast(c, zb, eq) == partial_fold_packed_z_fast_padded(c, zb, 2 ^ c.k_log, eq)

\* A tile of stripes, by blocks of columns.
process_block(c, zb, eq, tile, columns) ==
  VecTotal(TILE_T, 2 ^ c.k_log, LAMBDA t : StripeSums(c, zb, eq, tile * TILE_T + t, columns))
Blocks(c, useful) == Smaller(DivUp(useful, BLOCK_K), 2 ^ c.k_log \div BLOCK_K)
partial_fold_packed_z_x86_tiled_padded(c, zb, useful, eq) ==
  SumOfShares(Tiles(c), Larger(Tiles(c) \div FOLD_CHUNKS, 1), 2 ^ c.k_log, LAMBDA tile :
    process_block(c, zb, eq, tile, Blocks(c, useful) * BLOCK_K))
partial_fold_packed_z_neon_single_padded(c, zb, useful, eq) ==
  partial_fold_packed_z_x86_tiled_padded(c, zb, useful, eq)
partial_fold_packed_z_neon_single(c, zb, eq) == partial_fold_packed_z_neon_single_padded(c, zb, 2 ^ c.k_log, eq)

Covered(c, useful) == Smaller(DivUp(useful, BLOCK_K) * BLOCK_K, 2 ^ c.k_log)
\* Workers share out the columns, in whole blocks.
MutColumns(covered, host) ==
  Larger(covered \div (host.workers * (IF host.workers <= host.cores THEN 1 ELSE 3)), BLOCK_K)
Columns(covered, host) ==
  RoundedUp(Larger(covered \div (host.workers * (IF host.workers <= host.cores THEN 1 ELSE 3)), BLOCK_K), BLOCK_K)
partial_fold_packed_z_neon_iblock_padded(c, zb, useful, eq, host) ==
  LET covered == Covered(c, useful)
      share == Columns(covered, host)
      swept(i) == LET base == (i \div share) * share
                  IN  i - base < (Smaller(share, covered - base) \div BLOCK_K) * BLOCK_K
  IN  Given(VecTotal(Tiles(c), 2 ^ c.k_log, LAMBDA tile : process_block(c, zb, eq, tile, covered)), LAMBDA v :
        [i \in DOMAIN v |-> IF i < covered /\ swept(i) THEN v[i] ELSE 0])
\* Workers share out the tiles.
TilesPerWorker(c, host) == DivUp(Tiles(c), host.workers)
partial_fold_packed_z_neon_oblock_padded(c, zb, useful, eq, host) ==
  SumOfShares(Tiles(c), TilesPerWorker(c, host), 2 ^ c.k_log, LAMBDA tile :
    process_block(c, zb, eq, tile, Covered(c, useful)))

n_log_ok_for_tile(c) ==
  /\ c.k_log >= Log2(BLOCK_K)
  /\ c.m - c.k_log >= Log2(ByteBits) + Log2(TILE_T)
  /\ Stripes(c) % TILE_T = 0
partial_fold_packed_z_best(c, zb, useful, eq, host) ==
  CASE ~n_log_ok_for_tile(c) \/ host.arch = "other" -> partial_fold_packed_z_fast_padded(c, zb, useful, eq)
    [] n_log_ok_for_tile(c) /\ host.arch = "x86" -> partial_fold_packed_z_x86_tiled_padded(c, zb, useful, eq)
    [] n_log_ok_for_tile(c) /\ host.arch = "aarch64" ->
         IF c.m - c.k_log >= OBLOCK_MIN_N_LOG /\ ~host.iblock
         THEN partial_fold_packed_z_neon_oblock_padded(c, zb, useful, eq, host)
         ELSE partial_fold_packed_z_neon_iblock_padded(c, zb, useful, eq, host)

-----------------------------------------------------------------------------
(* The weights of the columns: each matrix's rows summed with the weights eq,    *)
(* those of A times alpha. A matrix is [rows: sequences of columns, n_cols].     *)

\* A row adds its weight once for every time it names a column.
RowInto(row, n_cols, e) ==
  [col \in 0 .. n_cols - 1 |-> IF Cardinality({j \in DOMAIN row : row[j] = col}) % 2 = 1 THEN e ELSE 0]
sparse_row_fold(matrix, eq) ==
  VecTotal(Size(matrix.rows), matrix.n_cols, LAMBDA r : RowInto(matrix.rows[r], matrix.n_cols, eq[r]))
ChunkRows(n, workers) == Larger(DivUp(n, workers * 4), MIN_CHUNK_ROWS)
sparse_row_fold_alpha_batched(alpha, a, b, eq, workers) ==
  LET n == Size(a.rows)
      row(r) == VecAdd(RowInto(a.rows[r], a.n_cols, alpha ** eq[r]), RowInto(b.rows[r], a.n_cols, eq[r]))
  IN  IF n + Size(b.rows) < PAR_ROWS
      THEN VecAdd(VecTotal(n, a.n_cols, LAMBDA r : RowInto(a.rows[r], a.n_cols, alpha ** eq[r])),
                  sparse_row_fold(b, eq))
      ELSE SumOfShares(n, ChunkRows(n, workers), a.n_cols, row)

\* The same matrix by columns: where each column's rows begin, and the rows, in order.
Entries(matrix) == UNION {{<<r, j>> : j \in DOMAIN matrix.rows[r]} : r \in DOMAIN matrix.rows}
Before(e, f) == e[1] < f[1] \/ (e[1] = f[1] /\ e[2] < f[2])
csc_from_rows(matrix) ==
  Given([col \in 0 .. matrix.n_cols - 1 |-> {e \in Entries(matrix) : matrix.rows[e[1]][e[2]] = col}], LAMBDA named :
    LET ptr[col \in 0 .. matrix.n_cols] == IF col = 0 THEN 0 ELSE ptr[col - 1] + Cardinality(named[col - 1])
        place(col, e) == ptr[col] + Cardinality({f \in named[col] : Before(f, e)})
    IN  [col_ptr |-> ptr,
         rows_flat |-> [p \in 0 .. ptr[matrix.n_cols] - 1 |->
           CHOOSE r \in DOMAIN matrix.rows :
             \E col \in DOMAIN named : \E e \in named[col] : e[1] = r /\ place(col, e) = p]])
GatherColumn(csc, col, eq) ==
  Total(csc.col_ptr[col + 1] - csc.col_ptr[col], LAMBDA i : eq[csc.rows_flat[csc.col_ptr[col] + i]])
CscCircuit(a, b) == [n_cols |-> a.n_cols, a |-> Strict(csc_from_rows(a)), b |-> Strict(csc_from_rows(b))]
csc_fold_alpha_batched(csc, alpha, eq) ==
  [col \in 0 .. csc.n_cols - 1 |-> (alpha ** GatherColumn(csc.a, col, eq)) ++ GatherColumn(csc.b, col, eq)]
fold_alpha_batched(c, alpha, eq, workers) ==
  Strict(IF c.kind = "csc" THEN csc_fold_alpha_batched(CscCircuit(c.a, c.b), alpha, eq)
         ELSE sparse_row_fold_alpha_batched(alpha, c.a, c.b, eq, workers))

build_quirky_eq_table(z_skip, rest) ==
  Given(lagrange_weights_naive(z_skip), LAMBDA lambda :
    Given(build_eq(rest), LAMBDA eq :
      [i \in 0 .. ELL * Size(eq) - 1 |-> lambda[i % ELL] ** eq[i \div ELL]]))

-----------------------------------------------------------------------------
(* The sumcheck of a product of two vectors; a round binds the top coordinate.   *)

Half(v) == Size(v) \div 2
sumcheck_round_eval_par(u, v) ==
  <<Total(Half(u), LAMBDA i : u[i + Half(u)] ** v[i + Half(u)]),
    Total(Half(u), LAMBDA i : (u[i + Half(u)] ++ u[i]) ** (v[i + Half(u)] ++ v[i]))>>
MutBindTop(v, r) == [i \in 0 .. Half(v) - 1 |-> v[2 * i] ++ (r ** (v[2 * i + 1] ++ v[2 * i]))]
sumcheck_bind_top_in_place_par(v, r) ==
  [i \in 0 .. Half(v) - 1 |-> v[i] ++ (r ** (v[i + Half(v)] ++ v[i]))]

\* Both vectors bound and the next message, by quarters, in one pass.
BoundQuarter(v, r, q, i) == v[q * (Size(v) \div 4) + i] ++ (r ** (v[(q + 2) * (Size(v) \div 4) + i] ++ v[q * (Size(v) \div 4) + i]))
sumcheck_bind_both_and_eval_next(comb, z, r) ==
  Given([q \in 0 .. 1 |-> [i \in 0 .. (Size(z) \div 4) - 1 |-> <<BoundQuarter(comb, r, q, i), BoundQuarter(z, r, q, i)>>]],
    LAMBDA b :
      [comb |-> Strict([i \in 0 .. Half(z) - 1 |-> b[i \div (Size(z) \div 4)][i % (Size(z) \div 4)][1]]),
       z |-> Strict([i \in 0 .. Half(z) - 1 |-> b[i \div (Size(z) \div 4)][i % (Size(z) \div 4)][2]]),
       msg |-> <<Total(Size(z) \div 4, LAMBDA i : b[1][i][1] ** b[1][i][2]),
                 Total(Size(z) \div 4, LAMBDA i : (b[1][i][1] ++ b[0][i][1]) ** (b[1][i][2] ++ b[0][i][2]))>>])

-----------------------------------------------------------------------------
(* The prover.                                                                   *)

K == 2 ^ Input.k_log
RestLen == Input.k_log - K_SKIP
PointAB == x_ab_from_mlv(Input, Input.skip, Input.mlv)
LinOpen == Pending("lincheck", Linchecks) \/ Pending("lin fold", LinFolds)

\* The weights of the columns, and one more for the column that has to be one in every block.
Combined(ch0) ==
  LET x == PointAB
      alpha == Next1(ch0)
      ch == After(ch0, 1)
  IN  Given(fold_alpha_batched(Input, alpha, build_quirky_eq_table(x.z_skip, x.x_inner_rest), Input.host.workers),
        LAMBDA comb :
          IF Input.pin = <<>> THEN [comb |-> comb, alpha |-> alpha, beta |-> 0, ch |-> ch]
          ELSE [comb |-> Strict([comb EXCEPT ![Input.pin[1]] = @ ++ Next1(ch)]), alpha |-> alpha,
                beta |-> Next1(ch), ch |-> After(ch, 1)])
LinLabelled == observe_label(new_transcript(Input.tape), "flock-lincheck")

\* Witness and mask, folded; the mask is packed as the commitment packs it.
Folded(zb) == Strict(partial_fold_packed_z_best(Input, zb, Input.useful, build_eq(PointAB.x_outer), Input.host))
MaskWords ==
  zero_lincheck_padding_rows(Strict(BytesOf(PACKED_BITS, Input.mask[1])), K, Input.useful)
FoldedMask == Folded(pack_z_lincheck_from_packed(MaskWords, K))
\* The mask's sum is sent before the factor it is added with is drawn.
MaskAdded(z, comb, ch) ==
  IF Input.mask = <<>> THEN [z |-> z, s |-> <<>>, sigma |-> 0, gamma |-> 0, ch |-> ch]
  ELSE Given(FoldedMask, LAMBDA s :
         Given(observe(ch, Dot(comb, s)), LAMBDA sent :
           [z |-> Strict(VecAdd(z, Scale(Next1(sent), s))), s |-> <<s>>, sigma |-> Dot(comb, s),
            gamma |-> Next1(sent), ch |-> After(sent, 1)]))

LinStart ==
  /\ Asked("lincheck")
  /\ \E start \in {Combined(LinLabelled)}, z \in {Folded(pack_z_lincheck(Input.z, K))} :
     \E sh \in {MaskAdded(z, start.comb, start.ch)} :
       result' = [stage |-> "lin proving", captured |-> z, comb |-> start.comb, z |-> sh.z, s |-> sh.s,
                  sigma |-> sh.sigma, gamma |-> sh.gamma, ch |-> sh.ch, msgs |-> [i \in {} |-> None],
                  rs |-> [i \in {} |-> 0],
                  msg |-> IF RestLen = 0 THEN None ELSE sumcheck_round_eval_par(start.comb, sh.z)]

\* A message, then both vectors are bound; all but the last time the next message with them.
LinRound ==
  /\ At("lincheck", "lin proving")
  /\ Size(result.rs) < RestLen
  /\ \E ch \in {observe(observe(result.ch, result.msg[1]), result.msg[2])} :
     \E r \in {Next1(ch)} :
     \E b \in {IF Size(result.rs) + 1 < RestLen THEN sumcheck_bind_both_and_eval_next(result.comb, result.z, r)
               ELSE [comb |-> Strict(sumcheck_bind_top_in_place_par(result.comb, r)),
                     z |-> Strict(sumcheck_bind_top_in_place_par(result.z, r)), msg |-> None]} :
       result' = [result EXCEPT !.comb = b.comb, !.z = b.z, !.msg = b.msg, !.ch = After(ch, 1),
                                !.msgs = Strict(Cat(@, Single(result.msg))), !.rs = Strict(Cat(@, Single(r)))]

Reversed(v) == Strict([i \in DOMAIN v |-> v[Size(v) - 1 - i]])
\* The value of the witness at the new point: that of what was sent, less the mask's.
Unmasked(z_partial, skip, gamma, s_eval) == Dot(lagrange_weights_naive(skip), z_partial) ++ (gamma ** s_eval)
MaskEval(skip) ==
  IF Input.mask = <<>> THEN 0
  ELSE LET bound[k \in 0 .. RestLen] ==
             IF k = 0 THEN result.s[1] ELSE Strict(sumcheck_bind_top_in_place_par(bound[k - 1], result.rs[k - 1]))
       IN  Dot(lagrange_weights_naive(skip), bound[RestLen])
LinEnd ==
  /\ At("lincheck", "lin proving")
  /\ Size(result.rs) = RestLen
  /\ \E ch \in {observe_slice(result.ch, result.z)} :
     \E s_eval \in {MaskEval(Next1(ch))} :
       result' = [stage |-> "lin proved", captured |-> result.captured, s |-> result.s, gamma |-> result.gamma,
                  script |-> After(ch, 1).script,
                  proof |-> [rounds |-> result.msgs, z_partial |-> result.z,
                             mask |-> IF Input.mask = <<>> THEN <<>> ELSE <<result.sigma, s_eval>>],
                  claim |-> [r_inner_skip |-> Next1(ch), r_inner_rest |-> Reversed(result.rs),
                             w |-> Unmasked(result.z, Next1(ch), result.gamma, s_eval)]]

-----------------------------------------------------------------------------
(* The verifier, with the prover's proof or one changed in a place.              *)

LinChanges ==
  LET proof == result.proof
      with(name, p, x) == [name |-> name, proof |-> p, x |-> x]
  IN  {with("none", proof, PointAB),
       with("partial", [proof EXCEPT !.z_partial[0] = @ ++ 1], PointAB),
       with("short", [proof EXCEPT !.z_partial = Slice(@, 0, ELL - 1)], PointAB),
       with("outer", proof, [PointAB EXCEPT !.x_outer = Slice(@, 0, Size(@) - 1)])}
      \cup (IF RestLen = 0 THEN {}
            ELSE {with("round", [proof EXCEPT !.rounds[0][1] = @ ++ 1], PointAB),
                  with("rounds", [proof EXCEPT !.rounds = Slice(@, 0, RestLen - 1)], PointAB),
                  with("inner", proof, [PointAB EXCEPT !.x_inner_rest = Slice(@, 0, RestLen - 1)])})

LinShape(proof, x) ==
  IF K_SKIP > Input.k_log THEN "KSkipExceedsKLog"
  ELSE IF Size(x.x_inner_rest) # RestLen THEN "BadInnerRestLength"
  ELSE IF Size(x.x_outer) # Input.m - Input.k_log THEN "BadOuterLength"
  ELSE IF Input.a.n_cols # K THEN "BadMatrixShape"
  ELSE IF Size(proof.rounds) # RestLen \/ Size(proof.z_partial) # ELL THEN "BadVectorLength"
  ELSE "Ok"

\* What one block's matrix makes of every block of the witness, and a value at a point of an
\* address: what the zerocheck claims of A z and B z.
apply_block_diag(matrix) ==
  Strict([i \in DOMAIN Input.z |->
    LET row == matrix.rows[i % K]
    IN  Cardinality({j \in DOMAIN row : Input.z[(i \div K) * K + row[j]] = 1}) % 2])
ValueAt(v, skip, point) ==
  Given(lagrange_weights_naive(skip), LAMBDA lambda :
    Given(build_eq(point), LAMBDA eq : Total(Size(v), LAMBDA i : v[i] ** lambda[i % ELL] ** eq[i \div ELL])))
ClaimedValue(matrix) == ValueAt(InAddressOrder(Input, apply_block_diag(matrix)), Input.skip, Input.mlv)

LinEnded(change, outcome, claim, script, prover) ==
  [stage |-> "lin ended", change |-> change, outcome |-> outcome, claim |-> claim, script |-> script,
   prover |-> prover]
LinVerifyStart ==
  /\ At("lincheck", "lin proved")
  /\ \E change \in LinChanges :
       IF LinShape(change.proof, change.x) # "Ok"
       THEN result' = LinEnded(change.name, LinShape(change.proof, change.x), None, None, result)
       ELSE \E start \in {Combined(LinLabelled)} :
            \E mask \in {change.proof.mask} :
            \E ch \in {IF mask = <<>> THEN start.ch ELSE observe(start.ch, mask[1])} :
            \E gamma \in {IF mask = <<>> THEN 0 ELSE Next1(ch)} :
            \E va \in {ClaimedValue(Input.a) ++ Input.off.a}, vb \in {ClaimedValue(Input.b) ++ Input.off.b} :
              result' = [stage |-> "lin checking", change |-> change.name, proof |-> change.proof,
                         alpha |-> start.alpha, beta |-> start.beta, gamma |-> gamma, comb |-> start.comb,
                         running |-> (((start.alpha ** va) ++ vb) ++ start.beta)
                                       ++ (IF mask = <<>> THEN 0 ELSE gamma ** mask[1]),
                         rs |-> [i \in {} |-> 0], ch |-> IF mask = <<>> THEN ch ELSE After(ch, 1),
                         prover |-> result]

LinVerifyRound ==
  /\ At("lincheck", "lin checking")
  /\ Size(result.rs) < RestLen
  /\ \E msg \in {result.proof.rounds[Size(result.rs)]} :
     \E ch \in {observe(observe(result.ch, msg[1]), msg[2])} :
     \E r \in {Next1(ch)}, e0 \in {result.running ++ msg[1]} :
       result' = [result EXCEPT !.running = ((msg[2] ** r ** r) ++ (((e0 ++ msg[1]) ++ msg[2]) ** r)) ++ e0,
                                !.comb = Strict(sumcheck_bind_top_in_place_par(@, r)),
                                !.rs = Strict(Cat(@, Single(r))), !.ch = After(ch, 1)]

LinVerifyEnd ==
  /\ At("lincheck", "lin checking")
  /\ Size(result.rs) = RestLen
  /\ \E ch \in {observe_slice(result.ch, result.proof.z_partial)} :
       result' =
         IF result.running # Dot(result.comb, result.proof.z_partial)
         THEN LinEnded(result.change, "ConsistencyFailed", None, None,
                       [claim |-> result.prover.claim, captured |-> result.prover.captured, comb |-> result.comb,
                        alpha |-> result.alpha, beta |-> result.beta])
         ELSE LinEnded(result.change, "Ok",
                [r_inner_skip |-> Next1(ch), r_inner_rest |-> Reversed(result.rs),
                 w |-> Unmasked(result.proof.z_partial, Next1(ch), result.gamma,
                                IF result.proof.mask = <<>> THEN 0 ELSE result.proof.mask[2])],
                After(ch, 1).script,
                [claim |-> result.prover.claim, captured |-> result.prover.captured, comb |-> result.comb,
                 alpha |-> result.alpha, beta |-> result.beta, script |-> result.prover.script])

\* Every kernel on every host, both packings and every fold of the matrices.
LinFold ==
  /\ Asked("lin fold")
  /\ \E zb \in {pack_z_lincheck(Input.z, K)}, csc \in {CscCircuit(Input.a, Input.b)} :
       result' =
         [packed |-> {zb, pack_z_lincheck_from_packed(Strict(BytesOf(PACKED_BITS, Input.z)), K)},
          folds |-> {Strict(partial_fold_packed_z_best(Input, zb, Input.useful, Input.eq, host)) : host \in Input.hosts}
            \cup {Strict(partial_fold_packed_z_fast(Input, zb, Input.eq))}
            \cup (IF n_log_ok_for_tile(Input) THEN {Strict(partial_fold_packed_z_neon_single(Input, zb, Input.eq))} ELSE {}),
          combs |-> {Strict(csc_fold_alpha_batched(csc, Input.alpha, Input.weights))}
            \cup {Strict(sparse_row_fold_alpha_batched(Input.alpha, Input.a, Input.b, Input.weights, host.workers)) :
                    host \in Input.hosts}]

LinNext ==
  \/ LinFold
  \/ LinStart \/ LinRound \/ LinEnd
  \/ LinVerifyStart \/ LinVerifyRound \/ LinVerifyEnd

-----------------------------------------------------------------------------
\* How far the claims that are checked are off: the errors of the values, and a column that is
\* not one in every block.
ClaimError(alpha, beta, captured) ==
  ((alpha ** Input.off.a) ++ Input.off.b)
  ++ (IF Input.pin = <<>> THEN 0 ELSE beta ** (1 ++ captured[Input.pin[1]]))
OnePlus(r, from) == Prod(Size(r) - from, LAMBDA j : 1 ++ r[from + j])
\* The value of block-wise bits at a point of a lincheck's claim.
ValueOf(v, claim) ==
  Given(ab_claim_point(Input, claim.r_inner_skip, claim.r_inner_rest, PointAB.x_outer), LAMBDA x :
    ValueAt(InAddressOrder(Input, v), x.z_skip, Cat(x.x_inner_rest, x.x_outer)))

\* All kernels, packings and matrix folds agree with the definitions. The verifier's running
\* claim is in every round what is left to sum, off by the error of the claims times the factors
\* (1 + r) so far, so that a statement with a wrong value, or whose pinned column is not one,
\* is accepted at the roots of that product alone; a changed message or vector likewise. The
\* accepted claim is the prover's, on the prover's transcript, and is the value of the
\* witness, without its mask, at the point the layout makes of it.
LincheckReduces ==
  /\ Returned("lin fold") =>
       /\ result.packed = {pack_z_lincheck(Input.z, K)}
       /\ \A zb \in result.packed : result.folds = {Strict(partial_fold_packed_z(Input, zb, Input.eq))}
       /\ result.combs = {Strict(VecAdd(Scale(Input.alpha, sparse_row_fold(Input.a, Input.weights)),
                                        sparse_row_fold(Input.b, Input.weights)))}
       /\ \A i \in DOMAIN Input.z :
            i % 2 ^ padding_spec(Input).k_log >= padding_spec(Input).useful => InAddressOrder(Input, Input.z)[i] = 0
  /\ Returned("lincheck") =>
    /\ result.stage = "lin proved" =>
         /\ result.captured =
              Strict(partial_fold_packed_z(Input, pack_z_lincheck(Input.z, K), build_eq(PointAB.x_outer)))
         /\ result.claim.w = ValueOf(Input.z, result.claim)
         /\ Input.mask # <<>> => \A words \in {MaskWords} :
              result.proof.mask[2] = ValueOf([i \in DOMAIN Input.z |-> Bit(words[i \div PACKED_BITS], i % PACKED_BITS)], result.claim)
    /\ result.stage = "lin checking" /\ result.change = "none" =>
         \A shifted \in {IF Input.mask = <<>> THEN result.prover.captured
                         ELSE VecAdd(result.prover.captured, Scale(result.gamma, result.prover.s[1]))} :
           LET left[k \in 0 .. Size(result.rs)] ==
                 IF k = 0 THEN shifted ELSE Strict(sumcheck_bind_top_in_place_par(left[k - 1], result.rs[k - 1]))
           IN  result.running ++ Dot(result.comb, left[Size(result.rs)])
                 = ClaimError(result.alpha, result.beta, result.prover.captured) ** OnePlus(result.rs, 0)
    /\ result.stage = "lin ended" =>
         LET prover == result.prover
             rs == Reversed(prover.claim.r_inner_rest)
             error == ClaimError(prover.alpha, prover.beta, prover.captured)
         IN  CASE result.change = "none" ->
                    /\ (result.outcome = "Ok") <=> (error ** OnePlus(rs, 0) = 0)
                    /\ result.outcome = "Ok" => result.claim = prover.claim /\ result.script = prover.script
               [] result.change = "round" ->
                    (result.outcome = "Ok") <=> (((error ** (1 ++ rs[0])) ++ 1) ** OnePlus(rs, 1) = 0)
               [] result.change = "partial" ->
                    (result.outcome = "Ok") <=> ((error ** OnePlus(rs, 0)) = prover.comb[0])
               [] result.change \in {"short", "rounds"} -> result.outcome = "BadVectorLength"
               [] result.change = "outer" -> result.outcome = "BadOuterLength"
               [] OTHER -> result.outcome = "BadInnerRestLength"
=============================================================================
