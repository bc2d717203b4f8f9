------------------------------ MODULE CosetNtt ------------------------------
(* The recursive additive transforms with a table of twiddles: over GF(2^8), over *)
(* many lanes, and the one over a coset that the inner code uses; and the tables  *)
(* that extend a row of bits from one domain to another one byte at a time.       *)
EXTENDS SmallField

CONSTANT ParallelRows   \* rows from which a transform is split between threads

next_s(s, root) == (s ** s) ++ (root ** s)

\* Each level holds the values of the next subspace polynomial at half as many points,
\* over its value at the root; the level with n points is written at n - 1 .. 2 n - 2.
TwiddleTable(k, points, root0) ==
  LET level[l \in 0 .. k - 1] ==
        IF l = 0 THEN [root |-> root0, s |-> points]
        ELSE LET up == Strict(level[l - 1])
             IN  [root |-> next_s(up.s[1] ++ up.s[0], up.root),
                  s |-> Strict([i \in 0 .. 2 ^ (k - 1 - l) - 1 |-> next_s(up.s[2 * i], up.root)])]
      levelOf(i) == CHOOSE l \in 0 .. k - 1 : i + 1 \in 2 ^ (k - 1 - l) .. 2 ^ (k - l) - 1
      levels == Strict([l \in 0 .. k - 1 |-> level[l]])
  IN  [i \in 0 .. 2 ^ k - 2 |->
         LET l == levelOf(i) IN Inv(levels[l].root) ** levels[l].s[i + 1 - 2 ^ (k - 1 - l)]]

compute_twiddles(k, beta) ==
  TwiddleTable(k, [i \in 0 .. 2 ^ (k - 1) - 1 |-> beta ++ (2 * i)], 1)

fft_butterfly(v, lambda, lanes) ==
  LET half == ((Size(v) \div lanes) \div 2) * lanes
      top(i) == v[i] ++ (lambda ** v[i + half])
  IN  [i \in DOMAIN v |-> IF i < half THEN top(i) ELSE v[i] ++ top(i - half)]

ifft_butterfly(v, lambda, lanes) ==
  LET half == ((Size(v) \div lanes) \div 2) * lanes
      bottom(i) == v[i + half] ++ v[i]
  IN  [i \in DOMAIN v |-> IF i < half THEN v[i] ++ (lambda ** bottom(i)) ELSE bottom(i - half)]

\* A butterfly with the twiddle of the node, then both halves; child nodes 2 idx, 2 idx + 1.
RECURSIVE FftNode(_, _, _, _)
FftNode(v, tw, idx, lanes) ==
  IF Size(v) = lanes THEN v
  ELSE LET w == Strict(fft_butterfly(v, tw[idx - 1], lanes))
           half == Size(v) \div 2
       IN  Cat(FftNode(Slice(w, 0, half), tw, 2 * idx, lanes),
               FftNode(Slice(w, half, half), tw, 2 * idx + 1, lanes))
fft_rec(v, tw, lanes) == FftNode(v, Strict(tw), 1, lanes)

\* Both halves, then the butterfly.
RECURSIVE IfftNode(_, _, _, _)
IfftNode(v, tw, idx, lanes) ==
  IF Size(v) = lanes THEN v
  ELSE LET half == Size(v) \div 2
       IN  ifft_butterfly(Cat(IfftNode(Slice(v, 0, half), tw, 2 * idx, lanes),
                              IfftNode(Slice(v, half, half), tw, 2 * idx + 1, lanes)),
                          tw[idx - 1], lanes)
ifft_rec(v, tw, lanes) == IfftNode(v, Strict(tw), 1, lanes)

forward(k, beta, v) == IF k = 0 THEN v ELSE fft_rec(v, compute_twiddles(k, beta), 1)
inverse(k, beta, v) == IF k = 0 THEN v ELSE ifft_rec(v, compute_twiddles(k, beta), 1)

-----------------------------------------------------------------------------
(* Many lanes with one table, by lanes of two.                                   *)

lanes_butterfly_neon(v, lambda, lanes) ==
  LET half == ((Size(v) \div lanes) \div 2) * lanes
      pair(i) == LET first == i - (i % 2)
                 IN  [l \in 0 .. 1 |-> v[first + l] ++ (lambda ** v[first + l + half])]
  IN  [i \in DOMAIN v |-> IF i < half THEN pair(i)[i % 2]
                          ELSE v[i] ++ pair(i - half)[(i - half) % 2]]

RECURSIVE LanesNode(_, _, _, _)
LanesNode(v, tw, idx, lanes) ==
  LET rows == Size(v) \div lanes
      half == (rows \div 2) * lanes
      w == IF rows >= ParallelRows THEN fft_butterfly(v, tw[idx - 1], lanes)
           ELSE lanes_butterfly_neon(v, tw[idx - 1], lanes)
  IN  IF rows = 1 THEN v
      ELSE Cat(LanesNode(Slice(w, 0, half), tw, 2 * idx, lanes),
               LanesNode(Slice(w, half, half), tw, 2 * idx + 1, lanes))

lanes_forward(k, beta, v, lanes) ==
  IF k = 0 THEN v ELSE LanesNode(v, compute_twiddles(k, beta), 1, lanes)

-----------------------------------------------------------------------------
(* The transform of the inner code, over offset + span(1, x, ..., x^(log - 1)).  *)

standard_basis_element(i) == 2 ^ i
span_element(basis, idx) ==
  Total(Size(basis), LAMBDA j : IF Bit(idx, j) = 1 THEN basis[j] ELSE 0)

coset_twiddles(log, offset) ==
  LET basis == [i \in 0 .. log - 1 |-> standard_basis_element(i)]
      upper == Slice(basis, 1, log - 1)
  IN  TwiddleTable(log, [i \in 0 .. 2 ^ (log - 1) - 1 |-> offset ++ span_element(upper, i)], basis[0])

coset_forward(log, offset, v) == IF log = 0 THEN v ELSE fft_rec(v, coset_twiddles(log, offset), 1)
coset_inverse(log, offset, v) == IF log = 0 THEN v ELSE ifft_rec(v, coset_twiddles(log, offset), 1)
disjoint_coset_offset(log) == standard_basis_element(log)

-----------------------------------------------------------------------------
(* One table extends a row of bits from the domain S of size 2^k to the domain L: *)
(* byte b of the row adds the table's row of that byte, permuted by XOR with b    *)
(* bytes. A byte has w bits, eight in the code.                                   *)

\* Column t of the extension: the polynomial that is one at point t of S alone.
unit_column(k, t, kOut, betaOut) ==
  forward(kOut, betaOut, Padded(inverse(k, 0, Unit(2 ^ k, t)), 2 ^ kOut))

\* The rows of single bits are columns; every other row is the sum of the row of its
\* lowest one and of the row of the rest.
LowestOne(v) == CHOOSE t \in 0 .. v : Bit(v, t) = 1 /\ \A u \in 0 .. t - 1 : Bit(v, u) = 0
RowsOf(w, cols, n) ==
  LET row[v \in 0 .. 2 ^ w - 1] ==
        IF v = 0 THEN [i \in 0 .. n - 1 |-> 0]
        ELSE IF v = 2 ^ LowestOne(v) THEN cols[LowestOne(v)]
        ELSE VecAdd(row[v - 2 ^ LowestOne(v)], row[2 ^ LowestOne(v)])
  IN  row
ByteTable(w, k, kOut, betaOut) ==
  RowsOf(w, [t \in 0 .. w - 1 |-> unit_column(k, t, kOut, betaOut)], 2 ^ kOut)

\* The bytes of a row of bits.
BytesOf(w, bits) ==
  [b \in 0 .. (Size(bits) \div w) - 1 |->
     LET v[t \in 0 .. w] == IF t = 0 THEN 0 ELSE v[t - 1] + 2 ^ (t - 1) * bits[b * w + t - 1]
     IN  v[w]]

apply_scalar(w, table, bytes) ==
  [i \in DOMAIN table[0] |-> Total(Size(bytes), LAMBDA b : table[bytes[b]][Xor(i, w * b)])]

\* Vectors of two bytes' worth of values: vector c reads vector c XOR (b / 2), with its
\* halves exchanged when b is odd; byte 0 is copied.
Halves(w, b, i) == IF b % 2 = 1 THEN (i + w) % (2 * w) ELSE i
Vectors(w, table, bytes) ==
  [i \in DOMAIN table[0] |->
     Total(Size(bytes), LAMBDA b :
       IF b = 0 THEN table[bytes[0]][i]
       ELSE table[bytes[b]][Xor(i \div (2 * w), b \div 2) * 2 * w + Halves(w, b, i % (2 * w))])]

apply_neon(w, table, bytes) == Vectors(w, table, bytes)
apply_x86(w, table, bytes) == Vectors(w, table, bytes)

\* One register of four vectors: the shuffle of vectors that b / 2 selects, then the
\* exchange of halves.
Shuffles == <<  <<0, 1, 2, 3>>, <<1, 0, 3, 2>>, <<2, 3, 0, 1>>, <<3, 2, 1, 0>> >>
apply_avx512(w, table, bytes) ==
  [i \in DOMAIN table[0] |->
     Total(Size(bytes), LAMBDA b :
       table[bytes[b]][Shuffles[(b \div 2) + 1][(i \div (2 * w)) + 1] * 2 * w
                         + Halves(w, b, i % (2 * w))])]

deg4_apply_scalar(w, table, bytes) == apply_scalar(w, table, bytes)
deg4_apply_neon(w, table, bytes) == Vectors(w, table, bytes)

-----------------------------------------------------------------------------
(* Reference: the combination of the novel basis at a point, and Lagrange        *)
(* interpolation of the bits on S.                                               *)

LOCAL Vanishing(i, x) == Prod(2 ^ i, LAMBDA a : x ++ a)
Novel(k, j, x) ==
  Prod(k, LAMBDA i : IF Bit(j, i) = 1 THEN Vanishing(i, x) ** Inv(Vanishing(i, 2 ^ i)) ELSE 1)
NovelSum(k, c, x) == Total(2 ^ k, LAMBDA j : c[j] ** Novel(k, j, x))

Lagrange(points, i, z) ==
  Prod(Size(points), LAMBDA j : IF j = i THEN 1 ELSE (z ++ points[j]) ** Inv(points[i] ++ points[j]))
Interpolated(points, v, z) == Total(Size(points), LAMBDA i : v[i] ** Lagrange(points, i, z))
Domain(k, beta) == [i \in 0 .. 2 ^ k - 1 |-> beta ++ i]
Extended(k, v, kOut, betaOut) ==
  [i \in 0 .. 2 ^ kOut - 1 |-> Interpolated(Domain(k, 0), v, Domain(kOut, betaOut)[i])]
=============================================================================
