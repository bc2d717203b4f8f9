----------------------------- MODULE PcsOpening ------------------------------
(* The opening of a committed witness at a batch of claims: those about its bits, *)
(* by ring switching, and those about its packed elements, by the equality with a *)
(* point or by a vector of weights. Prover and verifier turn them into one inner  *)
(* product for Ligerito; the shielded forms open the witness with a mask below it *)
(* and a blinder added. What Ligerito does with the inner product is its module's.*)
(* First the ring switching itself: the folds of the packed rows by an equality   *)
(* tensor, whole, split or sparse, with the padding skipped; the transcript of a  *)
(* batch; and the verifier's evaluation of the folded tensor, prefix by prefix, in*)
(* the tensor algebra. The transposes of bytes by which the kernels gather masks  *)
(* are GhashField's.                                                              *)
EXTENDS Calls, Multilinear, PcsCommit

CONSTANTS MFR,            \* elements of a table of subset sums: 4 in the code
          SPARSE_ZEROS,   \* zero coordinates from which a tensor is sparse: 3
          RowFolds,       \* [z, x, padding, weights, scalar, query]
          Openings        \* [z, zk, mask, blind, rs, pd, pl, padding, tape]

Slots == 0 .. 2 ^ LOG_PACKING - 1

-----------------------------------------------------------------------------
(* Chunks of a block without data: <<chunks of a block, those with data>>.       *)

MutUsefulChunks(padding, width) == DivUp(padding.useful \div 2 ^ LOG_PACKING, width)
UsefulChunks(padding, width) == DivUp(DivUp(padding.useful, 2 ^ LOG_PACKING), width)
ChunkPadding(padding, width) ==
  LET block == 2 ^ Minus(padding.k_log, LOG_PACKING)
      chunks == block \div width
      useful == Smaller(UsefulChunks(padding, width), chunks)
  IN  IF padding.k_log <= LOG_PACKING \/ block < width \/ useful = chunks THEN <<1, Unbounded>>
      ELSE <<chunks, useful>>
Skips(skip, chunk) == chunk % skip[1] >= skip[2]
NoPadding(packed) == [k_log |-> LOG_PACKING + Log2(Size(packed)), useful |-> 2 ^ LOG_PACKING * Size(packed)]

\* The univariate coordinate is the position in the lower half of an element's bits.
build_claim_weights(z_skip, x_outer_0) ==
  Given(lagrange_weights_naive(z_skip), LAMBDA lambda :
    Strict([i \in Slots |-> lambda[i % ELL] ** (IF i \div ELL = 1 THEN x_outer_0 ELSE 1 ++ x_outer_0)]))

build_eq_split(r, n_lo) == <<build_eq(Slice(r, 0, n_lo)), build_eq(Slice(r, n_lo, Size(r) - n_lo))>>
split_n_lo(n) == Smaller(IF n \div 2 < Log2(4 * MFR) THEN Log2(4 * MFR) ELSE n \div 2, n)

-----------------------------------------------------------------------------
(* Folds of the packed rows: slot r adds up the tensor where bit r is one.       *)

\* The sums of the subsets of a group of the tensor, and the subset that a bit of the
\* group's elements stands for.
subset_sums_4(t, from) ==
  LET sums[k \in 0 .. 2 ^ MFR - 1] ==
        IF k = 0 THEN 0
        ELSE LET i == CHOOSE j \in 0 .. MFR - 1 : 2 ^ j <= k /\ k < 2 ^ (j + 1)
             IN  sums[k - 2 ^ i] ++ t[from + i]
  IN  Strict(sums)
MaskAt(packed, from, r) ==
  LET mask[e \in 0 .. MFR] == IF e = 0 THEN 0 ELSE mask[e - 1] + (2 ^ (e - 1) * Bit(packed[from + e - 1], r))
  IN  mask[MFR]
\* What a chunk of some groups adds to slot r.
ChunkSlot(packed, tables, from, groups, r) ==
  Total(groups, LAMBDA g : tables[g][MaskAt(packed, from + (g * MFR), r)])
GroupTables(t, from, groups) == Strict([g \in 0 .. groups - 1 |-> subset_sums_4(t, from + (g * MFR))])

\* Chunk after chunk, each with the tables of its part of the tensor.
FoldChunks(groups, packed, t, padding) ==
  Given(ChunkPadding(padding, groups * MFR), LAMBDA skip :
    Given([c \in 0 .. (Size(packed) \div (groups * MFR)) - 1 |-> GroupTables(t, c * groups * MFR, groups)], LAMBDA tables :
      Strict([r \in Slots |-> Total(Size(tables), LAMBDA c :
        IF Skips(skip, c) THEN 0 ELSE ChunkSlot(packed, tables[c], c * groups * MFR, groups, r))])))

fold_1b_rows_1way_mfr(packed, t) == FoldChunks(1, packed, t, NoPadding(packed))
fold_1b_rows_1way_mfr_8wide_k4(packed, t) == FoldChunks(2, packed, t, NoPadding(packed))
fold_1b_rows_1way_mfr_16wide_padded(packed, t, padding) == FoldChunks(4, packed, t, padding)
fold_1b_rows_1way_mfr_16wide_k4(packed, t) == fold_1b_rows_1way_mfr_16wide_padded(packed, t, NoPadding(packed))
fold_1b_rows_2way_mfr_padded(packed, t0, t1, padding) ==
  <<FoldChunks(1, packed, t0, padding), FoldChunks(1, packed, t1, padding)>>
fold_1b_rows_2way_mfr_8wide_padded(packed, t0, t1, padding) ==
  <<FoldChunks(2, packed, t0, padding), FoldChunks(2, packed, t1, padding)>>
fold_1b_rows_2way_mfr_16wide_padded(packed, t0, t1, padding) ==
  <<FoldChunks(4, packed, t0, padding), FoldChunks(4, packed, t1, padding)>>

\* Bit after bit of every element.
FoldBits(packed, t) ==
  Strict([r \in Slots |-> Total(Size(packed), LAMBDA i : IF Bit(packed[i], r) = 1 THEN t[i] ELSE 0)])
Divides(n, v) == Size(v) % n = 0
fold_1b_rows_naive(packed, t) ==
  IF Divides(4 * MFR, packed) THEN fold_1b_rows_1way_mfr_16wide_k4(packed, t)
  ELSE IF Divides(2 * MFR, packed) THEN fold_1b_rows_1way_mfr_8wide_k4(packed, t)
  ELSE IF Divides(MFR, packed) THEN fold_1b_rows_1way_mfr(packed, t)
  ELSE FoldBits(packed, t)
fold_1b_rows_multi_padded(x86, packed, ts, padding) ==
  IF Len(ts) = 2 /\ Divides(4 * MFR, packed)
  THEN IF x86 THEN fold_1b_rows_2way_mfr_16wide_padded(packed, ts[1], ts[2], padding)
       ELSE <<fold_1b_rows_1way_mfr_16wide_padded(packed, ts[1], padding),
              fold_1b_rows_1way_mfr_16wide_padded(packed, ts[2], padding)>>
  ELSE IF Len(ts) = 2 /\ Divides(2 * MFR, packed) THEN fold_1b_rows_2way_mfr_8wide_padded(packed, ts[1], ts[2], padding)
  ELSE IF Len(ts) = 2 /\ Divides(MFR, packed) THEN fold_1b_rows_2way_mfr_padded(packed, ts[1], ts[2], padding)
  ELSE [j \in DOMAIN ts |-> FoldBits(packed, ts[j])]

\* The tables of the lower half serve every block; the upper half weighs the blocks. The
\* chunks skipped are counted over the whole vector.
SplitSkip(skip, block, perBlock, chunk) == Skips(skip, (block * perBlock) + chunk)
fold_1b_rows_split(packed, eq, padding) ==
  LET b == Size(eq[1])
      perBlock == b \div (4 * MFR)
  IN  Given(ChunkPadding(padding, 4 * MFR), LAMBDA skip :
        Given([c \in 0 .. perBlock - 1 |-> GroupTables(eq[1], c * 4 * MFR, 4)], LAMBDA tables :
          Strict([r \in Slots |-> Total(Size(eq[2]), LAMBDA hi :
            eq[2][hi] ** Total(perBlock, LAMBDA c :
              IF SplitSkip(skip, hi, perBlock, c) THEN 0
              ELSE ChunkSlot(packed, tables[c], (hi * b) + (c * 4 * MFR), 4, r)))])))
fold_1b_rows_split_2way(packed, eq0, eq1, padding) ==
  <<fold_1b_rows_split(packed, eq0, padding), fold_1b_rows_split(packed, eq1, padding)>>

\* From the vector the lincheck leaves, which is folded over the blocks already.
s_hat_v_from_z_vec(z_vec, tail) ==
  IF Size(tail) = 0 THEN z_vec
  ELSE Given(build_eq(tail), LAMBDA eq :
         Strict([b \in Slots |-> Total(Size(eq), LAMBDA k : eq[k] ** z_vec[(k * 2 ^ LOG_PACKING) + b])]))
s_hat_v_at_point(packed, x_outer) ==
  Given(build_eq(Slice(x_outer, 1, Size(x_outer) - 1)), LAMBDA t : fold_1b_rows_naive(packed, t))
scale_s_hat_v(s, scalar) ==
  Strict([o \in Slots |-> Total(2 ^ LOG_PACKING, LAMBDA i : IF Bit(scalar ** 2 ^ i, o) = 1 THEN s[i] ELSE 0)])

-----------------------------------------------------------------------------
(* The tensor folded by the weights of the bits of its entries.                   *)

tensor_algebra_transpose(s) ==
  Strict([b \in Slots |->
    LET word[i \in 0 .. 2 ^ LOG_PACKING] == IF i = 0 THEN 0 ELSE word[i - 1] + (2 ^ (i - 1) * Bit(s[i - 1], b))
    IN  word[2 ^ LOG_PACKING]])
FoldElement(elem, eq) == Total(2 ^ LOG_PACKING, LAMBDA b : IF Bit(elem, b) = 1 THEN eq[b] ELSE 0)
fold_b128_elems_naive(t, eq) == Strict([i \in DOMAIN t |-> FoldElement(t[i], eq)])

\* A table per byte of an entry.
build_fold_byte_table(eq) ==
  Strict([byte \in 0 .. (2 ^ LOG_PACKING \div ByteBits) - 1 |->
    Strict([value \in 0 .. 2 ^ ByteBits - 1 |->
      Total(ByteBits, LAMBDA b : IF Bit(value, b) = 1 THEN eq[(byte * ByteBits) + b] ELSE 0)])])
fold_one_slot(elem, tables) ==
  Total(Size(tables), LAMBDA byte : tables[byte][(elem \div 2 ^ (byte * ByteBits)) % 2 ^ ByteBits])
fold_b128_elems(t, eq) ==
  Given(build_fold_byte_table(eq), LAMBDA tables : Strict([i \in DOMAIN t |-> fold_one_slot(t[i], tables)]))
deferred_dense_value(eq, tables, j) ==
  fold_one_slot(eq[1][j % Size(eq[1])] ** eq[2][j \div Size(eq[1])], tables)
fold_b128_from_table(eq, tables) ==
  Strict([j \in 0 .. (Size(eq[1]) * Size(eq[2])) - 1 |->
    fold_one_slot(eq[1][j % Size(eq[1])] ** eq[2][j \div Size(eq[1])], tables)])
fold_b128_elems_split(eq, weights) == fold_b128_from_table(eq, build_fold_byte_table(weights))

-----------------------------------------------------------------------------
(* A tensor with zero coordinates is kept on the positions that are not.         *)

build_eq_sparse(coords) ==
  LET live == {i \in DOMAIN coords : coords[i] # 0}
      at[j \in 0 .. Cardinality(live) - 1] ==
        CHOOSE i \in live : Cardinality({k \in live : k < i}) = j
  IN  [live_positions |-> Strict(at),
       live_tensor |-> build_eq([j \in DOMAIN at |-> coords[at[j]]])]
scatter_idx(eq, c) ==
  LET full[j \in 0 .. Size(eq.live_positions)] ==
        IF j = 0 THEN 0 ELSE full[j - 1] + (Bit(c, j - 1) * 2 ^ eq.live_positions[j - 1])
  IN  full[Size(eq.live_positions)]
materialize(eq) == {<<scatter_idx(eq, c), eq.live_tensor[c]>> : c \in DOMAIN eq.live_tensor}
fold_1b_rows_sparse(packed, eq) ==
  Strict([r \in Slots |-> Total(Size(eq.live_tensor), LAMBDA c :
    IF Bit(packed[scatter_idx(eq, c)], r) = 1 THEN eq.live_tensor[c] ELSE 0)])
fold_b128_elems_sparse_pairs(eq, weights) ==
  {<<scatter_idx(eq, c), FoldElement(eq.live_tensor[c], weights)>> : c \in DOMAIN eq.live_tensor}
Scattered(len, pairs) ==
  Strict([i \in 0 .. len - 1 |-> IF \E p \in pairs : p[1] = i THEN (CHOOSE p \in pairs : p[1] = i)[2] ELSE 0])
fold_b128_elems_sparse(len, eq, weights) == Scattered(len, fold_b128_elems_sparse_pairs(eq, weights))

\* The weights of the packed elements in a claim: dense, left to be computed entry by entry,
\* or sparse.
RsLen(ind) ==
  CASE ind.kind = "Dense" -> Size(ind.v)
    [] ind.kind = "Deferred" -> Size(ind.eq[1]) * Size(ind.eq[2])
    [] ind.kind = "Sparse" -> ind.len
to_dense(ind) ==
  CASE ind.kind = "Dense" -> ind.v
    [] ind.kind = "Deferred" -> Strict([j \in 0 .. RsLen(ind) - 1 |-> deferred_dense_value(ind.eq, ind.table, j)])
    [] ind.kind = "Sparse" -> Scattered(ind.len, ind.entries)
add_scaled_into(ind, gamma, out) ==
  CASE ind.kind = "Dense" -> Strict([i \in DOMAIN out |-> out[i] ++ (gamma ** ind.v[i])])
    [] ind.kind = "Deferred" ->
         Strict([j \in DOMAIN out |-> out[j] ++ (gamma ** deferred_dense_value(ind.eq, ind.table, j))])
    [] ind.kind = "Sparse" ->
         Strict([i \in DOMAIN out |-> IF \E p \in ind.entries : p[1] = i
                                      THEN out[i] ++ (gamma ** (CHOOSE p \in ind.entries : p[1] = i)[2]) ELSE out[i]])

-----------------------------------------------------------------------------
(* The transcript. What both sides do with the rows of a claim.                  *)

RingLabel(ch, s_hat_v) == observe_slice(observe_label(ch, "flock-ring-switch"), s_hat_v)
\* The weights drawn for the bits, the claim about the packed elements and the transcript.
RingClaim(ch, s_hat_v) ==
  Given(build_eq(Sampled(ch, LOG_PACKING)), LAMBDA eq :
    [eq |-> eq, claim |-> Dot(tensor_algebra_transpose(s_hat_v), eq), ch |-> After(ch, LOG_PACKING)])
Suffix(x) == Slice(x, 1, Size(x) - 1)

prove_one(packed, x_outer, ch) ==
  Given(build_eq(Suffix(x_outer)), LAMBDA tensor :
    Given(fold_1b_rows_naive(packed, tensor), LAMBDA s_hat_v :
      Given(RingClaim(RingLabel(ch, s_hat_v), s_hat_v), LAMBDA c :
        [s_hat_v |-> s_hat_v, claim |-> c.claim, rs_eq_ind |-> fold_b128_elems(tensor, c.eq), ch |-> c.ch])))

IsSparse(x) == Cardinality({i \in 1 .. Size(x) - 1 : x[i] = 0}) >= SPARSE_ZEROS
\* The tensor of a claim in the form its point and the witness' length ask for.
TensorOf(x, split) ==
  IF IsSparse(x) THEN [kind |-> "Sparse", eq |-> build_eq_sparse(Suffix(x))]
  ELSE IF split THEN [kind |-> "Deferred", eq |-> build_eq_split(Suffix(x), split_n_lo(Size(x) - 1))]
  ELSE [kind |-> "Dense", eq |-> build_eq(Suffix(x))]

\* The rows of the dense claims that did not bring theirs, two of them at once.
DenseFolds(x86, packed, tensors, todo, padding) ==
  LET eqs == [k \in DOMAIN todo |-> tensors[todo[k]].eq]
  IN  IF ~Divides(4 * MFR, packed) THEN fold_1b_rows_multi_padded(x86, packed, eqs, padding)
      ELSE IF Len(todo) = 2 THEN fold_1b_rows_split_2way(packed, eqs[1], eqs[2], padding)
      ELSE [k \in DOMAIN todo |-> fold_1b_rows_split(packed, eqs[k], padding)]
RowsOfClaims(x86, packed, tensors, pre, padding) ==
  LET todo == SelectSeq([i \in DOMAIN tensors |-> i], LAMBDA i : tensors[i].kind # "Sparse" /\ pre[i] = <<>>)
      place(i) == CHOOSE k \in DOMAIN todo : todo[k] = i
  IN  Given(DenseFolds(x86, packed, tensors, todo, padding), LAMBDA folds :
        [i \in DOMAIN tensors |->
           IF pre[i] # <<>> THEN pre[i][1]
           ELSE IF tensors[i].kind = "Sparse" THEN fold_1b_rows_sparse(packed, tensors[i].eq)
           ELSE folds[place(i)]])
\* Claim after claim, then a weight for each.
BatchClaims(rows, ch) ==
  LET done[i \in 0 .. Len(rows)] ==
        IF i = 0 THEN [ch |-> ch, claims |-> <<>>]
        ELSE Given(RingClaim(RingLabel(done[i - 1].ch, rows[i]), rows[i]), LAMBDA c :
               [ch |-> c.ch, claims |-> Append(done[i - 1].claims, [eq |-> c.eq, claim |-> c.claim])])
  IN  done[Len(rows)]
\* The weight is put into the folded tensor, not into the claim.
MutScaledBits(gamma, weights) == weights
ScaledBits(gamma, weights) == Strict(Scale(gamma, weights))
RsEqInd(tensor, weights, l) ==
  CASE tensor.kind = "Sparse" ->
         [kind |-> "Sparse", len |-> l, entries |-> fold_b128_elems_sparse_pairs(tensor.eq, weights)]
    [] tensor.kind = "Deferred" -> [kind |-> "Deferred", eq |-> tensor.eq, table |-> build_fold_byte_table(weights)]
    [] tensor.kind = "Dense" -> [kind |-> "Dense", v |-> fold_b128_elems(tensor.eq, weights)]
prove_batched(x86, packed, x_outers, pre, padding, ch) ==
  Given([i \in DOMAIN x_outers |-> TensorOf(x_outers[i], Divides(4 * MFR, packed))], LAMBDA tensors :
    Given(RowsOfClaims(x86, packed, tensors, pre, padding), LAMBDA rows :
      Given(BatchClaims(rows, ch), LAMBDA done :
        LET n == Len(x_outers)
            gammas == Sampled(done.ch, n)
        IN  [rows |-> rows, gammas |-> [i \in 1 .. n |-> gammas[i - 1]], ch |-> AfterEach(done.ch, n),
             out |-> [i \in 1 .. n |->
               [claim |-> done.claims[i].claim,
                ind |-> RsEqInd(tensors[i], ScaledBits(gammas[i - 1], done.claims[i].eq), Size(packed))]]])))

verify_succinct(claim, z_skip, x_outer, s_hat_v, ch) ==
  Given(RingLabel(ch, s_hat_v), LAMBDA labelled :
    IF Dot(build_claim_weights(z_skip, x_outer[0]), s_hat_v) # claim THEN [ok |-> FALSE, ch |-> labelled]
    ELSE Given(RingClaim(labelled, s_hat_v), LAMBDA c : [ok |-> TRUE, ch |-> c.ch, eq |-> c.eq, claim |-> c.claim]))
verify_one(claim, z_skip, x_outer, s_hat_v, ch) ==
  Given(verify_succinct(claim, z_skip, x_outer, s_hat_v, ch), LAMBDA v :
    IF ~v.ok THEN v
    ELSE [ok |-> TRUE, ch |-> v.ch, claim |-> v.claim, rs_eq_ind |-> fold_b128_elems(build_eq(Suffix(x_outer)), v.eq)])

-----------------------------------------------------------------------------
(* The tensor product of the field with itself: element k is the coefficient, in  *)
(* the vertical factor, of bit k of the horizontal one.                          *)

from_vertical(x) == [k \in Slots |-> IF k = 0 THEN x ELSE 0]
scale_vertical(t, scalar) == Strict([k \in Slots |-> t[k] ** scalar])
square_transpose(t) == tensor_algebra_transpose(t)
scale_horizontal(t, scalar) == square_transpose(scale_vertical(square_transpose(t), scalar))
fold_vertical(t, coeffs) == Dot(square_transpose(t), coeffs)

\* One coordinate more: times 1 + z + q, where z is vertical and q horizontal.
EvalStep(eval, z, q) ==
  Given(<<scale_vertical(eval, z), scale_horizontal(eval, q)>>, LAMBDA scaled :
    Strict([k \in Slots |-> (eval[k] ++ scaled[1][k]) ++ scaled[2][k]]))
EvalFrom(eval, zs, qs) ==
  LET e[i \in 0 .. Size(qs)] == IF i = 0 THEN eval ELSE EvalStep(e[i - 1], zs[i - 1], qs[i - 1])
  IN  e[Size(qs)]
eval_rs_eq(zs, qs, weights) == fold_vertical(EvalFrom(from_vertical(1), zs, qs), weights)
eval_rs_eq_prefix(zs, qs) == EvalFrom(from_vertical(1), zs, qs)
eval_rs_eq_finish_from_prefix(prefix, zs, qs, weights) == fold_vertical(EvalFrom(prefix, zs, qs), weights)
\* Where the rest of the query is the bits of a number, every coordinate is a scalar.
eval_rs_eq_finish_from_prefix_binary_q(prefix, zs, y, weights) ==
  Given(Prod(Size(zs), LAMBDA j : IF Bit(y, j) = 1 THEN zs[j] ELSE 1 ++ zs[j]), LAMBDA scalar :
    fold_vertical(scale_vertical(prefix, scalar), weights))

-----------------------------------------------------------------------------
(* The claims of an opening.                                                     *)

\* A claim by the equality with a point: its weights, dense or sparse.
IndOf(point, sparse) ==
  IF sparse THEN [kind |-> "Sparse", eq |-> build_eq_sparse(point)] ELSE [kind |-> "Dense", v |-> build_eq(point)]
evaluate(ind, packed) ==
  IF ind.kind = "Dense" THEN Dot(packed, ind.v)
  ELSE Total(Size(ind.eq.live_tensor), LAMBDA c : packed[scatter_idx(ind.eq, c)] ** ind.eq.live_tensor[c])

-----------------------------------------------------------------------------
(* The first message of the sumcheck, u0 and u2, is taken while the weights are   *)
(* added up, and corrected for what is added to them later.                       *)

FirstMessage(f, b) ==
  <<Total(Size(f) \div 2, LAMBDA i : f[2 * i] ** b[2 * i]),
    Total(Size(f) \div 2, LAMBDA i : (f[2 * i] ++ f[(2 * i) + 1]) ** (b[2 * i] ++ b[(2 * i) + 1]))>>
Plus(p, q) == <<p[1] ++ q[1], p[2] ++ q[2]>>
MutPrimeDelta(packed, idx, delta) ==
  <<packed[2 * (idx \div 2)] ** delta, (packed[2 * (idx \div 2)] ++ packed[(2 * (idx \div 2)) + 1]) ** delta>>
PrimeDelta(packed, idx, delta) ==
  <<IF idx % 2 = 0 THEN packed[2 * (idx \div 2)] ** delta ELSE 0,
    (packed[2 * (idx \div 2)] ++ packed[(2 * (idx \div 2)) + 1]) ** delta>>
\* Weights of single elements added to the basis, one after the other.
Scatter(combined, packed, pairs) ==
  LET SumOfPairs(n) == Total(16, LAMBDA v :
        IF Cardinality({p \in pairs : PrimeDelta(packed, p[1], p[2])[n] = v}) % 2 = 1 THEN v ELSE 0)
  IN  [ok |-> combined.ok,
       b |-> Strict([i \in DOMAIN combined.b |->
               IF \E p \in pairs : p[1] = i THEN combined.b[i] ++ (CHOOSE p \in pairs : p[1] = i)[2] ELSE combined.b[i]]),
       prime |-> Plus(combined.prime, <<SumOfPairs(1), SumOfPairs(2)>>)]

\* The threads write to slices of the basis cut where the first entry of a chunk lies.
sparse_scatter_add_parallel(threads, combined, packed, eq, gamma) ==
  LET total == Size(eq.live_tensor)
      perChunk == DivUp(total, threads)
      chunks == DivUp(total, perChunk)
      boundary(i) == IF i = 0 THEN 0 ELSE IF i = chunks THEN Size(combined.b) ELSE scatter_idx(eq, i * perChunk)
      inside(c) == LET t == c \div perChunk
                   IN  boundary(t) <= scatter_idx(eq, c) /\ scatter_idx(eq, c) < boundary(t + 1)
  IN  Given(Scatter(combined, packed, {<<scatter_idx(eq, c), gamma ** eq.live_tensor[c]>> : c \in DOMAIN eq.live_tensor}),
            LAMBDA s : [s EXCEPT !.ok = @ /\ \A c \in DOMAIN eq.live_tensor : inside(c)])

\* The dense weights: block by block from the tables when no other kind is there.
AllDeferred(rs, pd, pl) ==
  /\ Len(rs) > 0 /\ \A i \in DOMAIN rs : rs[i].ind.kind = "Deferred"
  /\ \A i \in DOMAIN pd : pd[i].ind.kind # "Dense"
  /\ Len(pl) = 0
FastBasis(rs, l) ==
  Strict([j \in 0 .. l - 1 |-> Total(Len(rs), LAMBDA i :
    LET ind == rs[i + 1].ind
    IN  fold_one_slot(ind.eq[1][j % Size(rs[1].ind.eq[1])] ** ind.eq[2][j \div Size(rs[1].ind.eq[1])], ind.table))])
SumBasis(rs, pd, gpd, pl, gpl, l) ==
  Given([i \in DOMAIN rs |-> IF rs[i].ind.kind = "Deferred" THEN fold_b128_from_table(rs[i].ind.eq, rs[i].ind.table)
                             ELSE IF rs[i].ind.kind = "Dense" THEN rs[i].ind.v ELSE [j \in 0 .. l - 1 |-> 0]], LAMBDA dense :
    Strict([j \in 0 .. l - 1 |->
      (Total(Len(rs), LAMBDA i : dense[i + 1][j])
        ++ Total(Len(pd), LAMBDA i : IF pd[i + 1].ind.kind = "Dense" THEN gpd[i] ** pd[i + 1].ind.v[j] ELSE 0))
        ++ Total(Len(pl), LAMBDA i : gpl[i] ** pl[i + 1].basis[j])]))
DenseBasis(rs, pd, gpd, pl, gpl, packed) ==
  Given(IF AllDeferred(rs, pd, pl) THEN FastBasis(rs, Size(packed)) ELSE SumBasis(rs, pd, gpd, pl, gpl, Size(packed)), LAMBDA b :
    [ok |-> TRUE, b |-> b, prime |-> FirstMessage(packed, b)])
AddSparse(threads, dense, rs, pd, gpd, packed) ==
  LET r[i \in 0 .. Len(rs)] ==
        IF i = 0 THEN dense
        ELSE IF rs[i].ind.kind = "Sparse" THEN Scatter(r[i - 1], packed, rs[i].ind.entries) ELSE r[i - 1]
      p[i \in 0 .. Len(pd)] ==
        IF i = 0 THEN r[Len(rs)]
        ELSE IF pd[i].ind.kind = "Sparse"
        THEN sparse_scatter_add_parallel(threads, p[i - 1], packed, pd[i].ind.eq, gpd[i - 1]) ELSE p[i - 1]
  IN  p[Len(pd)]

-----------------------------------------------------------------------------
(* The batch on the transcript.                                                  *)

ObserveValues(ch, label, claims) ==
  LET c[i \in 0 .. Len(claims)] ==
        IF i = 0 THEN ch ELSE observe(observe_label(c[i - 1], label), claims[i].value)
  IN  c[Len(claims)]
ValuesOf(ch, pd, pl) == ObserveValues(ObserveValues(ch, "flock-pcs-packed-direct", pd), "flock-pcs-packed-linear", pl)
WeightedClaims(gammas, claims, value(_)) == Total(Len(claims), LAMBDA i : gammas[i] ** value(claims[i + 1]))

compute_combined_basis_and_target(env, packed, rs, pd, pl, padding, ch) ==
  Given(Len(rs), LAMBDA n :
    Given(Given(observe_label(ch, "flock-pcs-open-batch"), LAMBDA labelled :
      IF n = 0 THEN [rows |-> <<>>, gammas |-> <<>>, out |-> <<>>, ch |-> labelled]
      ELSE prove_batched(env.x86, packed, [i \in 1 .. n |-> rs[i].x], [i \in 1 .. n |-> rs[i].pre], padding, labelled)), LAMBDA batch :
      Given(ValuesOf(batch.ch, pd, pl), LAMBDA told :
        Given(<<Sampled(told, Len(pd)), Sampled(AfterEach(told, Len(pd)), Len(pl))>>, LAMBDA g :
          Given(AddSparse(env.threads, DenseBasis(batch.out, pd, g[1], pl, g[2], packed), batch.out, pd, g[1], packed), LAMBDA combined :
            [rows |-> batch.rows, b |-> combined.b, prime |-> combined.prime, ok |-> combined.ok,
             ch |-> AfterEach(AfterEach(told, Len(pd)), Len(pl)),
             target |-> (Total(n, LAMBDA i : batch.gammas[i + 1] ** batch.out[i + 1].claim)
                          ++ Total(Len(pd), LAMBDA i : g[1][i] ** pd[i + 1].value))
                          ++ Total(Len(pl), LAMBDA i : g[2][i] ** pl[i + 1].value)])))))

-----------------------------------------------------------------------------
(* What is handed to Ligerito: the vector and its weights, their inner product    *)
(* and the first message.                                                        *)

AboveMask(b) == Cat([j \in DOMAIN b |-> 0], b)
Masked(mask, blind, c, top) == Strict(Cat([j \in DOMAIN mask |-> mask[j] ++ (c ** blind[j])], top))

\* The blinder is drawn with the commitment; its inner product goes to the transcript
\* before the challenge that scales it.
open_zk_blinded(o, combined) ==
  LET w == Size(o.z)
      top == Slice(o.blind, w, w)
  IN  Given(<<FirstMessage(top, combined.b), Dot(top, combined.b)>>, LAMBDA g :
        Given(grind_pow(observe(observe_label(combined.ch, "flock-pcs-zk-blind"), g[2])), LAMBDA ground :
          Given(Next1(ground), LAMBDA c :
            [ok |-> combined.ok, rows |-> combined.rows, y_g |-> <<g[2]>>, ch |-> AfterEach(ground, 1),
             f |-> Masked(o.mask, o.blind, c, [j \in DOMAIN o.z |-> o.z[j] ++ (c ** top[j])]),
             b |-> AboveMask(combined.b), target |-> combined.target ++ (c ** g[2]),
             prime |-> Plus(combined.prime, <<c ** g[1][1], c ** g[1][2]>>)])))
\* The witness comes with the blinder's upper part added already.
open_preblinded(o, q, challenge, combined) ==
  [ok |-> combined.ok, rows |-> combined.rows, y_g |-> <<>>, ch |-> combined.ch,
   f |-> Masked(o.mask, o.blind, challenge, q), b |-> AboveMask(combined.b), target |-> combined.target, prime |-> combined.prime]
open_plain(o, combined) ==
  [ok |-> combined.ok, rows |-> combined.rows, y_g |-> <<>>, ch |-> combined.ch,
   f |-> o.z, b |-> combined.b, target |-> combined.target, prime |-> combined.prime]

open_batch_mixed(env, o, ch) ==
  Given(compute_combined_basis_and_target(env, o.z, o.rs, o.pd, o.pl, o.padding, ch), LAMBDA combined :
    IF o.zk = "blinded" THEN open_zk_blinded(o, combined)
    ELSE IF o.zk = "preblinded" THEN open_preblinded(o, o.z, o.challenge, combined)
    ELSE open_plain(o, combined))

-----------------------------------------------------------------------------
(* The verifier. A proof is [rows, y_g]: the rows of the claims about bits, and     *)
(* the blinder's inner product if there is one.                                  *)

Refused(why) == [ok |-> FALSE, error |-> why]
\* Claim after claim, as long as none is refused.
VerifyRows(o, proof, ch) ==
  LET v[i \in 0 .. Len(o.rs)] ==
        IF i = 0 THEN [ok |-> TRUE, ch |-> ch, outs |-> <<>>]
        ELSE IF ~v[i - 1].ok THEN v[i - 1]
        ELSE Given(verify_succinct(o.rs[i].claim, o.rs[i].z_skip, o.rs[i].x, proof.rows[i], v[i - 1].ch), LAMBDA out :
               IF out.ok THEN [ok |-> TRUE, ch |-> out.ch, outs |-> Append(v[i - 1].outs, [claim |-> out.claim, eq |-> out.eq])]
               ELSE Refused("ClaimMismatch"))
  IN  v[Len(o.rs)]

\* The challenge of the blinder, and what it adds to the target.
BlindOf(o, proof, ch) ==
  IF o.zk = "preblinded"
  THEN IF proof.y_g # <<>> \/ o.challenge = 0 THEN Refused("Ligerito") ELSE [ok |-> TRUE, ch |-> ch, zk |-> TRUE, more |-> 0]
  ELSE IF o.zk = "plain"
  THEN IF proof.y_g # <<>> THEN Refused("Ligerito") ELSE [ok |-> TRUE, ch |-> ch, zk |-> FALSE, more |-> 0]
  ELSE IF proof.y_g = <<>> THEN Refused("Ligerito")
  ELSE Given(grind_pow(observe(observe_label(ch, "flock-pcs-zk-blind"), proof.y_g[1])), LAMBDA ground :
         [ok |-> TRUE, ch |-> AfterEach(ground, 1), zk |-> TRUE, more |-> Next1(ground) ** proof.y_g[1]])

VerifyValues(o, proof, rows) ==
  LET n == Len(o.rs)
  IN  Given(Sampled(rows.ch, n), LAMBDA grs :
        Given(ValuesOf(AfterEach(rows.ch, n), o.pd, o.pl), LAMBDA told :
          Given(<<Sampled(told, Len(o.pd)), Sampled(AfterEach(told, Len(o.pd)), Len(o.pl))>>, LAMBDA g :
            Given(BlindOf(o, proof, AfterEach(AfterEach(told, Len(o.pd)), Len(o.pl))), LAMBDA blind :
              IF ~blind.ok THEN blind
              ELSE [ok |-> TRUE, ch |-> blind.ch, zk |-> blind.zk, outs |-> rows.outs, grs |-> grs, gpd |-> g[1], gpl |-> g[2],
                    target |-> ((WeightedClaims(grs, rows.outs, LAMBDA c : c.claim)
                                  ++ WeightedClaims(g[1], o.pd, LAMBDA c : c.value))
                                  ++ WeightedClaims(g[2], o.pl, LAMBDA c : c.value)) ++ blind.more]))))
verify_opening_batch_mixed(o, proof, ch) ==
  IF Len(proof.rows) # Len(o.rs) \/ Len(o.rs) + Len(o.pd) + Len(o.pl) = 0 THEN Refused("Ligerito")
  ELSE Given(VerifyRows(o, proof, observe_label(ch, "flock-pcs-open-batch")), LAMBDA rows :
         IF rows.ok THEN VerifyValues(o, proof, rows) ELSE rows)

\* The weights folded at the challenges so far, at every number that is left.
eq_eval_binary_x(r, x) == Prod(Size(r), LAMBDA i : IF Bit(x, i) = 1 THEN r[i] ELSE 1 ++ r[i])
RestOf(point, k) == Slice(point, k, Size(point) - k)
FoldAll(v, ris) ==
  LET f[i \in 0 .. Size(ris)] == IF i = 0 THEN v ELSE fold_in_place_single(f[i - 1], ris[i - 1])
  IN  f[Size(ris)]
eval_b_witness(o, v, ris, yr_log_n) ==
  LET k == Size(ris)
  IN  Given([i \in DOMAIN o.rs |-> eval_rs_eq_prefix(Slice(o.rs[i].x, 1, k), ris)], LAMBDA prefixes :
        Given([i \in DOMAIN o.pd |-> eq_eval(Slice(o.pd[i].point, 0, k), ris)], LAMBDA scalars :
          Given([i \in DOMAIN o.pl |-> FoldAll(o.pl[i].basis, ris)], LAMBDA folded :
            Strict([y \in 0 .. 2 ^ yr_log_n - 1 |->
              (Total(Len(o.rs), LAMBDA i : v.grs[i] ** eval_rs_eq_finish_from_prefix_binary_q(
                       prefixes[i + 1], RestOf(o.rs[i + 1].x, k + 1), y, v.outs[i + 1].eq))
                ++ Total(Len(o.pd), LAMBDA i : (v.gpd[i] ** scalars[i + 1]) ** eq_eval_binary_x(RestOf(o.pd[i + 1].point, k), y)))
                ++ Total(Len(o.pl), LAMBDA i : v.gpl[i] ** folded[i + 1][y])]))))
\* A shielded witness is the upper half of what is opened.
eval_b_residual(o, v, ris, yr_log_n) ==
  IF v.zk THEN AboveMask(eval_b_witness(o, v, ris, yr_log_n - 1)) ELSE eval_b_witness(o, v, ris, yr_log_n)

-----------------------------------------------------------------------------
OpeningOpen == Pending("fold rows", RowFolds) \/ Pending("open", Openings)

\* Every kernel on one witness and point.
FoldRows ==
  /\ Asked("fold rows")
  /\ \E r \in {Input} : \E s \in {Suffix(r.x)} :
     \E t \in {build_eq(s)}, sparse \in {build_eq_sparse(s)}, padding \in {r.padding} :
     \E splits \in {{build_eq_split(s, n) : n \in {k \in 0 .. Size(s) : 2 ^ k % (4 * MFR) = 0}}}, rows \in {fold_1b_rows_naive(r.z, t)} :
       result' =
         [rows |-> {rows, fold_1b_rows_sparse(r.z, sparse), s_hat_v_at_point(r.z, r.x)}
            \cup {fold_1b_rows_split(r.z, eq, padding) : eq \in splits}
            \cup UNION {{f[1], f[2]} : f \in {fold_1b_rows_multi_padded(x86, r.z, <<t, t>>, padding) : x86 \in BOOLEAN}}
            \cup {fold_1b_rows_multi_padded(TRUE, r.z, <<t>>, padding)[1]}
            \cup (IF Divides(MFR, r.z) THEN {fold_1b_rows_1way_mfr(r.z, t)} ELSE {})
            \cup (IF Divides(2 * MFR, r.z) THEN {fold_1b_rows_1way_mfr_8wide_k4(r.z, t)} ELSE {}),
          scaled |-> scale_s_hat_v(rows, r.scalar),
          folded |-> {fold_b128_elems_naive(t, r.weights), fold_b128_elems(t, r.weights),
                      fold_b128_elems_sparse(Size(r.z), sparse, r.weights)}
            \cup {fold_b128_elems_split(eq, r.weights) : eq \in splits},
          at |-> {eval_rs_eq(s, r.query, r.weights)} \cup
                 {eval_rs_eq_finish_from_prefix(eval_rs_eq_prefix(s, Slice(r.query, 0, k)),
                    Slice(s, k, Size(s) - k), Slice(r.query, k, Size(s) - k), r.weights) : k \in 0 .. Size(s)}]

\* An opening by any number of threads, and its verification, to where both hand over to
\* Ligerito.
Open ==
  /\ Asked("open")
  /\ \E o \in {Input}, threads \in 1 .. 3, x86 \in BOOLEAN :
     \E opened \in {open_batch_mixed([x86 |-> x86, threads |-> threads], o, new_transcript(o.tape))} :
       result' = [opened |-> opened,
                  verified |-> verify_opening_batch_mixed(o, [rows |-> opened.rows, y_g |-> opened.y_g], new_transcript(o.tape))]

OpeningNext == FoldRows \/ Open

-----------------------------------------------------------------------------
SuffixEq(x) == EqTable(Suffix(x))
RowsAsDefined(z, x) ==
  [r \in Slots |-> Total(Size(z), LAMBDA i : IF Bit(z[i], r) = 1 THEN Eq(Suffix(x), i) ELSE 0)]

\* Every fold of the packed rows, with its chunks, tables, halves and positions, is the sum of
\* the equality's weights over the rows where the bit is one, though it skips the padding; so
\* is every fold of the tensor, and the verifier's evaluation of it in the tensor algebra is
\* its extension at the query, wherever the query is cut; and rows scale with the witness.
FoldsAgree ==
  LET folded == [i \in DOMAIN Input.z |-> FoldElement(Eq(Suffix(Input.x), i), Input.weights)]
  IN  /\ result.rows = {RowsAsDefined(Input.z, Input.x)}
      /\ result.scaled = RowsAsDefined(Scale(Input.scalar, Input.z), Input.x)
      /\ result.folded = {folded}
      /\ result.at = {Mle(folded, Input.query)}

\* What a claim about bits says: the bits weighed by the univariate coordinate's Lagrange
\* weights and the equality with the others.
BitsAt(z, z_skip, x) ==
  Dot(build_claim_weights(z_skip, x[0]), RowsAsDefined(z, x))
AllTrue(o) ==
  /\ \A i \in DOMAIN o.pd : o.pd[i].value = Mle(o.z, o.pd[i].point)
  /\ \A i \in DOMAIN o.pl : o.pl[i].value = Dot(o.z, o.pl[i].basis)

\* Prover and verifier hand the same inner product to Ligerito: the prover's vector and
\* weights have that product, unless a claim is false, and the first message it took while
\* adding up is theirs; the verifier goes through the same transcript, refuses exactly the
\* false claims about bits, and however many challenges were folded in it evaluates the
\* prover's weights.
ClaimsAreOpened ==
  LET o == Input
      p == result.opened
      v == result.verified
      n == Log2(Size(p.f))
  IN  /\ p.ok
      /\ p.prime = FirstMessage(p.f, p.b)
      /\ AllTrue(o) <=> p.target = Dot(p.f, p.b)
      /\ v.ok <=> \A i \in DOMAIN o.rs : o.rs[i].claim = BitsAt(o.z, o.rs[i].z_skip, o.rs[i].x)
      /\ v.ok => /\ v.ch = p.ch /\ v.target = p.target
                 /\ \A k \in 0 .. n - 1 :
                      LET ris == Sampled(v.ch, k) IN eval_b_residual(o, v, ris, n - k) = FoldAll(p.b, ris)

\* The folds of an opening are the sums they stand for, and both sides of it hand the same
\* inner product to Ligerito.
OpeningsHold ==
  /\ Returned("fold rows") => FoldsAgree
  /\ Returned("open") => ClaimsAreOpened
=============================================================================
