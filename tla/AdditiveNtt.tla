---------------------------- MODULE AdditiveNtt -----------------------------
(* The additive transform over the subspace of a basis: the table of subspace    *)
(* polynomials, the scalar transform and its inverse, and the schedules that     *)
(* fuse layers, batch lanes and split the deep layers into sub-transforms.       *)
(* Data is position-major: entry pos * lanes + lane.                             *)
EXTENDS SmallField

Least(a, b) == IF a < b THEN a ELSE b
Most(a, b) == IF a < b THEN b ELSE a
Less(a, b) == IF a > b THEN a - b ELSE 0      \* a saturating subtraction

\* evals[i][k] is W_i at basis element i + k over W_i at basis element i.
generate_evals_from_subspace(basis) ==
  LET n == Size(basis)
      raw[i \in 0 .. n - 1] ==
        IF i = 0 THEN basis
        ELSE [k \in 0 .. n - 1 - i |-> raw[i - 1][k + 1] ** (raw[i - 1][k + 1] ++ raw[i - 1][0])]
  IN  Strict([i \in 0 .. n - 1 |-> Strict(Scale(Inv(raw[i][0]), raw[i]))])

span_get(basis, idx) == Total(Size(basis), LAMBDA j : IF Bit(idx, j) = 1 THEN basis[j] ELSE 0)

\* The basis 1, x, x^2, ... of the first dim powers of the generator.
standard(dim) == generate_evals_from_subspace([i \in 0 .. dim - 1 |-> 2 ^ i])

MutTwiddle(evals, layer, block) ==
  LET row == evals[Size(evals) - layer - 1] IN span_get(row, block)

twiddle(evals, layer, block) ==
  LET row == evals[Size(evals) - layer - 1]
  IN  span_get(Slice(row, 1, Size(row) - 1), block)

-----------------------------------------------------------------------------
(* One layer: positions half a block apart meet in a butterfly.                  *)

butterfly_row_pair(u, v, t) == LET w == u ++ (v ** t) IN <<w, v ++ w>>

\* A block of rows of lanes with one twiddle.
butterfly_interleaved_block(d, t, half, lanes) ==
  [i \in DOMAIN d |->
     IF i < half * lanes THEN butterfly_row_pair(d[i], d[i + half * lanes], t)[1]
     ELSE butterfly_row_pair(d[i - half * lanes], d[i], t)[2]]

\* Every block of some size, by a step that depends on its number.
ByBlocks(d, size, f(_, _)) ==
  LET out == [b \in 0 .. (Size(d) \div size) - 1 |-> f(b, Slice(d, b * size, size))]
  IN  Strict([i \in DOMAIN d |-> out[i \div size][i % size]])

\* All blocks of a layer, the first of which is block number `first` of the layer.
LayerFrom(evals, d, layer, first, half, lanes) ==
  ByBlocks(d, 2 * half * lanes,
           LAMBDA b, c : butterfly_interleaved_block(c, twiddle(evals, layer, first + b), half, lanes))

Positions(d, lanes) == Log2(Size(d) \div lanes)

interleaved_scalar_from_layer(evals, d, lanes, start) ==
  LET logD == Positions(d, lanes)
      after[l \in start .. logD] ==
        IF l = start THEN d
        ELSE LayerFrom(evals, after[l - 1], l - 1, 0, 2 ^ (logD - l), lanes)
  IN  after[logD]

forward_transform_scalar(evals, d) == interleaved_scalar_from_layer(evals, d, 1, 0)

\* One layer back: the sum of a pair is the new upper value.
InverseLayer(evals, e, l, half) ==
  [i \in DOMAIN e |->
     IF (i \div half) % 2 = 0
     THEN e[i] ++ ((e[i + half] ++ e[i]) ** twiddle(evals, l, i \div (2 * half)))
     ELSE e[i] ++ e[i - half]]
inverse_transform(evals, d) ==
  LET logD == Log2(Size(d))
      before[l \in 0 .. logD] ==
        IF l = logD THEN d ELSE Strict(InverseLayer(evals, before[l + 1], l, 2 ^ (logD - l - 1)))
  IN  before[0]

-----------------------------------------------------------------------------
(* Fused layers. The inputs of a group of rows go through two or four layers     *)
(* before they are stored; a group has one row of each quarter, or sixteenth, of  *)
(* a block, and its twiddles are those of its layers one after the other.         *)

FusedStep(v, half, tw, base) ==
  [i \in DOMAIN v |->
     IF (i \div half) % 2 = 0
     THEN butterfly_row_pair(v[i], v[i + half], tw[base + (i \div (2 * half))])[1]
     ELSE butterfly_row_pair(v[i - half], v[i], tw[base + (i \div (2 * half))])[2]]

butterfly_fused_2layer(x, tw) == FusedStep(FusedStep(x, 2, tw, 0), 1, tw, 1)
butterfly_fused_4layer(x, tw) ==
  FusedStep(FusedStep(FusedStep(FusedStep(x, 8, tw, 0), 4, tw, 1), 2, tw, 3), 1, tw, 7)

ByGroups(d, parts, f(_)) ==
  LET stride == Size(d) \div parts
      out == [j \in 0 .. stride - 1 |-> f([q \in 0 .. parts - 1 |-> d[q * stride + j]])]
  IN  Strict([i \in DOMAIN d |-> out[i % stride][i \div stride]])
fused_2layer_rows(d, tw) == ByGroups(d, 4, LAMBDA x : butterfly_fused_2layer(x, tw))
fused_4layer_rows(d, tw) == ByGroups(d, 16, LAMBDA x : butterfly_fused_4layer(x, tw))

\* The twiddles of block b of a layer and of its parts in the next ones.
GroupTwiddles(evals, layer, b, depth) ==
  Strict([s \in 0 .. 2 ^ depth - 2 |->
            LET j == CHOOSE j \in 0 .. depth - 1 : s + 1 \in 2 ^ j .. 2 ^ (j + 1) - 1
            IN  twiddle(evals, layer + j, 2 ^ j * b + s + 1 - 2 ^ j)])

\* The top layers, up to nTop: four at a time where the kernel exists, else two, else one.
StepSize(rows, l, nTop, fused4) ==
  IF fused4 /\ l + 3 < nTop /\ rows >= 16 THEN 4
  ELSE IF l + 1 < nTop /\ rows >= 4 THEN 2 ELSE 1
TopBlock(c, tw, rows, lanes, step) ==
  IF step = 4 THEN fused_4layer_rows(c, tw)
  ELSE IF step = 2 THEN fused_2layer_rows(c, tw)
  ELSE butterfly_interleaved_block(c, tw[0], rows \div 2, lanes)
RECURSIVE TopLayers(_, _, _, _, _, _)
TopLayers(evals, d, lanes, l, nTop, fused4) ==
  IF l >= nTop THEN d
  ELSE LET rows == 2 ^ (Positions(d, lanes) - l)
           step == StepSize(rows, l, nTop, fused4)
       IN  TopLayers(evals,
                     ByBlocks(d, rows * lanes, LAMBDA b, c :
                                TopBlock(c, GroupTwiddles(evals, l, b, step), rows, lanes, step)),
                     lanes, l + step, nTop, fused4)

\* The deep layers of sub-transform number sub, whose blocks count on from those before it.
DeepLayers(evals, d, sub, lanes, from, nTop, logD) ==
  LET after[l \in from .. logD] ==
        IF l = from THEN d
        ELSE LayerFrom(evals, after[l - 1], l - 1, sub * 2 ^ (l - 1 - nTop), 2 ^ (logD - l), lanes)
  IN  after[logD]

\* How many layers are done over the whole buffer. The schedule s depends on the machine:
\* the log of the positions that fit a cache (sub) and of the worker threads, the smallest
\* log size that is split for the threads alone (floor) and that of a sub-transform (least).
TopCount(s, logD, lanes) ==
  LET cache == Less(logD, Less(s.sub, Log2(lanes)))
  IN  IF logD >= s.floor THEN Most(cache, Least(s.threads, Less(logD, s.least))) ELSE cache

interleaved_parallel_from_layer(s, evals, d, lanes, start, fused4) ==
  LET logD == Positions(d, lanes)
      nTop == TopCount(s, logD, lanes)
  IN  IF nTop = 0 \/ logD < s.least THEN interleaved_scalar_from_layer(evals, d, lanes, start)
      ELSE ByBlocks(TopLayers(evals, d, lanes, Least(start, nTop), nTop, fused4),
                    2 ^ (logD - nTop) * lanes,
                    LAMBDA sub, c : DeepLayers(evals, c, sub, lanes, Most(nTop, start), nTop, logD))

-----------------------------------------------------------------------------
(* NEON: two butterflies share a product, within a block while it has two pairs, *)
(* across two adjacent blocks in the deepest layer.                              *)

neon_block(d, t, half) ==
  [i \in DOMAIN d |-> IF i < half THEN d[i] ++ (t ** d[i + half])
                      ELSE d[i] ++ (d[i - half] ++ (t ** d[i]))]
neon_block_pair(d, tA, tB) ==
  LET uA == d[0] ++ (tA ** d[1])
      uB == d[2] ++ (tB ** d[3])
  IN  [i \in 0 .. 3 |-> IF i = 0 THEN uA ELSE IF i = 1 THEN d[1] ++ uA
                        ELSE IF i = 2 THEN uB ELSE d[3] ++ uB]

NeonLayer(evals, d, l, logD) ==
  LET half == 2 ^ (logD - l - 1)
  IN  IF half >= 2 \/ l = 0
      THEN ByBlocks(d, 2 * half, LAMBDA b, c : neon_block(c, twiddle(evals, l, b), half))
      ELSE ByBlocks(d, 4, LAMBDA b, c : neon_block_pair(c, twiddle(evals, l, 2 * b),
                                                        twiddle(evals, l, 2 * b + 1)))

\* The first n layers.
NeonLayers(evals, d, n, logD) ==
  LET after[l \in 0 .. n] == IF l = 0 THEN d ELSE NeonLayer(evals, after[l - 1], l - 1, logD)
  IN  after[n]

forward_transform_neon(evals, d) == NeonLayers(evals, d, Log2(Size(d)), Log2(Size(d)))

\* Top layers over the whole buffer, then each sub-transform through all the others.
forward_transform_batched(s, evals, d) ==
  LET logD == Log2(Size(d))
      nTop == Less(logD, s.sub)
  IN  IF logD <= s.sub THEN forward_transform_neon(evals, d)
      ELSE ByBlocks(NeonLayers(evals, d, nTop, logD), 2 ^ (logD - nTop),
                    LAMBDA sub, c : DeepLayers(evals, c, sub, 1, nTop, nTop, logD))

-----------------------------------------------------------------------------
(* Reference: the value at point number p of the domain of the combination of    *)
(* the novel basis, whose element j is the product of the W_i over the ones of j. *)

SubspaceAt(evals, i, p) ==
  Total(Size(evals[i]), LAMBDA k : IF Bit(p, i + k) = 1 THEN evals[i][k] ELSE 0)
NovelAt(evals, j, p) ==
  Prod(Size(evals), LAMBDA i : IF Bit(j, i) = 1 THEN SubspaceAt(evals, i, p) ELSE 1)
Evaluated(evals, d) ==
  [p \in DOMAIN d |-> Total(Size(d), LAMBDA j : d[j] ** NovelAt(evals, j, p))]
=============================================================================
