----------------------------- MODULE GhashField -----------------------------
(* The multiplications of GF(2^128): a product without carries of two pairs of   *)
(* W-bit words and its remainder by x^(2W) + the sum of x^t for t in LowTerms, as    *)
(* the portable code and the PCLMULQDQ, AVX-512 and PMULL kernels compute it.    *)
(* A word is the set of the positions of its ones, so XOR is the symmetric       *)
(* difference; an element is a record of a low and a high word.                  *)
EXTENDS Naturals, FiniteSets

CONSTANTS W,      \* bits of a word: 64 in the code
          LowTerms    \* the reduction polynomial below x^(2W): {0, 1, 2, 7} in the code

Bits == 0 .. W - 1
a (+) b == (a \ b) \cup (b \ a)

\* The sum of f(k) over k in K.
Sum(K, f(_)) ==
  {i \in UNION {f(k) : k \in K} : Cardinality({k \in K : i \in f(k)}) % 2 = 1}

Shl(a, k) == {i + k : i \in a} \cap Bits
Shr(a, k) == {i - k : i \in {j \in a : j >= k}}

\* A product without carries, and the two words of a long word.
Product(a, b) == Sum(a, LAMBDA i : {i + j : j \in b})
Words(p) == [lo |-> p \cap Bits, hi |-> Shr(p, W)]
pmull(a, b) == Words(Product(a, b))

Add(a, b) == [lo |-> a.lo (+) b.lo, hi |-> a.hi (+) b.hi]
ZERO == [lo |-> {}, hi |-> {}]
ONE == [lo |-> {0}, hi |-> {}]

-----------------------------------------------------------------------------
(* Reduction: the high half r2, r3 times the tail, and once more what that       *)
(* pushes past the top.                                                          *)

\* What the tail's multiple of the top word pushes past it.
Overflow(r3) == Sum(LowTerms \ {0}, LAMBDA t : Shr(r3, W - t))
TailTimes(r) == Sum(LowTerms, LAMBDA t : Shl(r, t))
MutCorrection(r3) == Overflow(r3)
Correction(r3) == TailTimes(Overflow(r3))

ghash_reduce(r) ==
  [lo |-> r[1] (+) TailTimes(r[3]) (+) Correction(r[4]),
   hi |-> r[2] (+) Sum(LowTerms, LAMBDA t : Shl(r[4], t) (+) Shr(r[3], W - t))]

\* The same reduction over two lanes at a time.
ReduceLanes(r) == [l \in 1 .. 2 |-> ghash_reduce([i \in 1 .. 4 |-> r[i][l]])]

mul_by_x(z) ==
  [lo |-> Shl(z.lo, 1) (+) (IF W - 1 \in z.hi THEN LowTerms ELSE {}),
   hi |-> Shl(z.hi, 1) \cup Shr(z.lo, W - 1)]

-----------------------------------------------------------------------------
(* Portable code.                                                                *)

clmul64(a, b) ==
  [lo |-> Sum(a, LAMBDA i : Shl(b, i)),
   hi |-> Sum(a \ {0}, LAMBDA i : Shr(b, W - i))]

\* Four words of an unreduced product, from its low, middle and high parts.
Assemble(low, cross, high) ==
  <<low.lo, low.hi (+) cross.lo, high.lo (+) cross.hi, high.hi>>

software_mul_unreduced(a, b) ==
  Assemble(clmul64(a.lo, b.lo), Add(clmul64(a.lo, b.hi), clmul64(a.hi, b.lo)), clmul64(a.hi, b.hi))
software_mul(a, b) == ghash_reduce(software_mul_unreduced(a, b))

-----------------------------------------------------------------------------
(* x86_64.                                                                       *)

mul_unreduced_x86(a, b) ==
  Assemble(pmull(a.lo, b.lo), Add(pmull(a.lo, b.hi), pmull(a.hi, b.lo)), pmull(a.hi, b.hi))
x86_schoolbook(a, b) == ghash_reduce(mul_unreduced_x86(a, b))

\* One stage of the two-stage reduction: t0 + x^W * t1.
Stage(t0, t1) == Add(Add(t0, [lo |-> {}, hi |-> t1.lo]), pmull(t1.hi, LowTerms))

x86_binius(a, b) ==
  Stage(pmull(a.lo, b.lo),
        Stage(Add(pmull(a.lo, b.hi), pmull(a.hi, b.lo)), pmull(a.hi, b.hi)))

\* The middle term of Karatsuba's product.
Middle(a, b, p0, p1) == Add(Add(pmull(a.lo (+) a.hi, b.lo (+) b.hi), p0), p1)

x86_karatsuba_of(a, b, p0, p1) == ghash_reduce(Assemble(p0, Middle(a, b, p0, p1), p1))
x86_karatsuba(a, b) == x86_karatsuba_of(a, b, pmull(a.lo, b.lo), pmull(a.hi, b.hi))

\* The reduction by two quotients, of the high word and of the next one.
Barrett(d0, d1, d2, r_hi, r_lo) ==
  [lo |-> d0.lo (+) r_lo.lo (+) TailTimes(r_hi.hi),
   hi |-> d0.hi (+) d1.lo (+) r_lo.hi (+) r_hi.lo]
BarrettOf(d0, d1, d2) ==
  Barrett(d0, d1, d2, pmull(d2.hi, LowTerms), pmull(d2.lo (+) d1.hi, LowTerms))
x86_barrett_of(a, b, d0, d2) == BarrettOf(d0, Middle(a, b, d0, d2), d2)
x86_karatsuba_barrett(a, b) == x86_barrett_of(a, b, pmull(a.lo, b.lo), pmull(a.hi, b.hi))

\* Four lanes at a time.
Lanes == 1 .. 4
gf2_128_reduce_x4(t0, t1) == [l \in Lanes |-> Stage(t0[l], t1[l])]

ghash_mul_x4(x, y) ==
  gf2_128_reduce_x4(
    [l \in Lanes |-> pmull(x[l].lo, y[l].lo)],
    gf2_128_reduce_x4([l \in Lanes |-> Add(pmull(x[l].hi, y[l].lo), pmull(x[l].lo, y[l].hi))],
                      [l \in Lanes |-> pmull(x[l].hi, y[l].hi)]))

\* An accumulator of unreduced products, four lanes wide, and its fold.
WideZero == [lo |-> [l \in Lanes |-> ZERO], mid |-> [l \in Lanes |-> ZERO],
             hi |-> [l \in Lanes |-> ZERO]]

mul_acc(acc, x, y) ==
  [lo  |-> [l \in Lanes |-> Add(acc.lo[l], pmull(x[l].lo, y[l].lo))],
   hi  |-> [l \in Lanes |-> Add(acc.hi[l], pmull(x[l].hi, y[l].hi))],
   mid |-> [l \in Lanes |->
              Add(acc.mid[l], Add(pmull(x[l].hi, y[l].lo), pmull(x[l].lo, y[l].hi)))]]

xor4_lanes(v) == Add(Add(v[1], v[2]), Add(v[3], v[4]))

WideFold(acc) == Assemble(xor4_lanes(acc.lo), xor4_lanes(acc.mid), xor4_lanes(acc.hi))

-----------------------------------------------------------------------------
(* aarch64: the same products in another order, and two at a time.               *)

mul_unreduced_neon(a, b) ==
  Assemble(pmull(a.lo, b.lo), Add(pmull(a.lo, b.hi), pmull(a.hi, b.lo)), pmull(a.hi, b.hi))
neon_schoolbook(a, b) == ghash_reduce(mul_unreduced_neon(a, b))

neon_karatsuba_of(p0, p1, pm) ==
  ghash_reduce(<<p0.lo, p0.hi (+) (pm.lo (+) p0.lo (+) p1.lo),
                 p1.lo (+) (pm.hi (+) p0.hi (+) p1.hi), p1.hi>>)
neon_karatsuba(a, b) ==
  neon_karatsuba_of(pmull(a.lo, b.lo), pmull(a.hi, b.hi), pmull(a.lo (+) a.hi, b.lo (+) b.hi))

neon_barrett_of(d0, d2, pm) == BarrettOf(d0, Add(Add(pm, d0), d2), d2)
neon_karatsuba_barrett(a, b) ==
  neon_barrett_of(pmull(a.lo, b.lo), pmull(a.hi, b.hi), pmull(a.lo (+) a.hi, b.lo (+) b.hi))

neon_binius_of(t1, low) == Add(Add(low, [lo |-> {}, hi |-> t1.lo]), pmull(t1.hi, LowTerms))
neon_binius(a, b) ==
  neon_binius_of(Stage(Add(pmull(a.lo, b.hi), pmull(a.hi, b.lo)), pmull(a.hi, b.hi)),
                 pmull(a.lo, b.lo))

\* Two products, reduced by lanes.
ghash_mul_vec2_neon(a, b) ==
  LET words == [l \in 1 .. 2 |-> mul_unreduced_neon(a[l], b[l])]
  IN  ReduceLanes([i \in 1 .. 4 |-> [l \in 1 .. 2 |-> words[l][i]]])

-----------------------------------------------------------------------------
\* The inverse by Fermat: the product of the squarings of a.
inv(a) ==
  LET pow[i \in 1 .. 2 * W - 1] == IF i = 1 THEN software_mul(a, a)
                                   ELSE software_mul(pow[i - 1], pow[i - 1])
      r[i \in 0 .. 2 * W - 1] == IF i = 0 THEN ONE ELSE software_mul(r[i - 1], pow[i])
  IN  r[2 * W - 1]

\* The fold of adjacent pairs from pair base on: portable, and by the lanes of a kernel
\* while a whole group is left, each e + r * (e + o).
fold_pairs_portable(src, base, n, r) ==
  [t \in 1 .. n |-> Add(software_mul(src[2 * (base + t) - 1], Add(ONE, r)),
                        software_mul(src[2 * (base + t)], r))]

FoldByGroups(src, base, n, r, lanes, mulLanes(_, _)) ==
  LET whole == lanes * (n \div lanes)
      first(t) == t - ((t - 1) % lanes)
      e(t) == src[2 * (base + t) - 1]
      o(t) == src[2 * (base + t)]
      prod(t) == mulLanes([l \in 1 .. lanes |-> r],
                          [l \in 1 .. lanes |-> Add(e(first(t) + l - 1), o(first(t) + l - 1))])
      tail == fold_pairs_portable(src, base, n, r)
  IN  [t \in 1 .. n |-> IF t <= whole THEN Add(e(t), prod(t)[((t - 1) % lanes) + 1])
                        ELSE tail[t]]

fold_pairs_x86(src, base, n, r) == FoldByGroups(src, base, n, r, 4, ghash_mul_x4)
fold_pairs_neon(src, base, n, r) == FoldByGroups(src, base, n, r, 2, ghash_mul_vec2_neon)

-----------------------------------------------------------------------------
(* Reference: the remainder of the full product.                                 *)

Poly(a) == a.lo \cup {i + W : i \in a.hi}
Remainder(p) ==
  LET rem[n \in 0 .. 4 * W, q \in SUBSET (0 .. 4 * W)] ==
        IF n < 2 * W THEN q
        ELSE rem[n - 1, IF n \in q THEN q (+) ({n} \cup {n - 2 * W + t : t \in LowTerms}) ELSE q]
  IN  rem[4 * W, p]
Times(a, b) == Words(Remainder(Product(Poly(a), Poly(b))))

Multiplications(a, b) ==
  {software_mul(a, b), x86_schoolbook(a, b), x86_binius(a, b), x86_karatsuba(a, b),
   x86_karatsuba_barrett(a, b), neon_schoolbook(a, b), neon_karatsuba(a, b),
   neon_karatsuba_barrett(a, b), neon_binius(a, b)}

-----------------------------------------------------------------------------
(* GF(2^8) with the AES polynomial and its embedding phi8 into GF(2^128), at     *)
(* their real widths, where W is 64.                                            *)

LOCAL Up(a, k) == {i + k : i \in a}
LOCAL Down(a, k) == {i - k : i \in {j \in a : j >= k}}
LOCAL Low(a) == a \cap (0 .. 7)

clmul8(a, b) == Sum(a, LAMBDA i : Up(b, i))

\* Two folds of what is above the byte.
FoldHigh(p) == LET h == Down(p, 8) IN Low(p) (+) h (+) Up(h, 1) (+) Up(h, 3) (+) Up(h, 4)
MutGf8Reduce(p) == Low(FoldHigh(p))
gf8_reduce(p) == Low(FoldHigh(FoldHigh(p)))
gf8_mul(a, b) == gf8_reduce(clmul8(a, b))

\* The sixteen-lane kernel: the quotient from the high byte times (x^8 + x^4 + x^3 + x) / x,
\* then its multiple of x^4 + x^3 + x + 1.
QPLUS_RSH1 == {0, 2, 3, 7}
QSTAR == {0, 1, 3, 4}
gf8_reduce_vec16(c) ==
  [l \in DOMAIN c |->
     LET quotient == Low(Down(Up(clmul8(Down(c[l], 8), QPLUS_RSH1), 1), 8))
     IN  Low(c[l]) (+) Low(clmul8(quotient, QSTAR))]
gf8_mul_vec16(a, b) == gf8_reduce_vec16([l \in DOMAIN a |-> clmul8(a[l], b[l])])

\* x^254 by the ones of the exponent.
gf8_inv(x) ==
  LET sq[i \in 0 .. 7] == IF i = 0 THEN x ELSE gf8_mul(sq[i - 1], sq[i - 1])
      r[i \in 0 .. 7] == IF i = 0 THEN {0} ELSE gf8_mul(r[i - 1], sq[i])
  IN  r[7]

-----------------------------------------------------------------------------
(* The table of phi8 is the linear extension of its entries 1, 2, 4, ..., 128,   *)
(* given here as eight limbs of sixteen bits, the least significant first.       *)

LOCAL PHI_8_BASIS == <<
  <<\h0001, \h0000, \h0000, \h0000, \h0000, \h0000, \h0000, \h0000>>,
  <<\h9849, \h3c2e, \h3048, \h6b83, \h22fe, \h40a2, \h3646, \h0dcb>>,
  <<\h10ed, \h5f77, \hda4a, \h7573, \h6a24, \h9464, \hd35c, \h3d5b>>,
  <<\hf3ac, \hf974, \h2db1, \h41a1, \h199f, \h81f9, \hc4e1, \h6d58>>,
  <<\h412f, \h4ede, \h716f, \h5e2f, \hced5, \h64d7, \hc177, \ha72e>>,
  <<\h0118, \hbcf0, \h0fba, \h5cb1, \h8c86, \h3a3d, \h354a, \h4d52>>,
  <<\h2d4d, \hf363, \h1f57, \h95ed, \he9a7, \hbc0a, \h92e8, \h553e>>,
  <<\ha87e, \hf09f, \h25b1, \h5126, \h2b11, \hbf04, \h2331, \h9325>>>>

LOCAL Image(i) ==
  LET ones == {j \in 0 .. 127 : (PHI_8_BASIS[i + 1][(j \div 16) + 1] \div 2 ^ (j % 16)) % 2 = 1}
  IN  [lo |-> ones \cap (0 .. 63), hi |-> {j - 64 : j \in ones \ (0 .. 63)}]
PHI_8_TABLE == [v \in SUBSET (0 .. 7) |->
                  [lo |-> Sum(v, LAMBDA i : Image(i).lo),
                   hi |-> Sum(v, LAMBDA i : Image(i).hi)]]
phi8(v) == PHI_8_TABLE[v]

-----------------------------------------------------------------------------
(* An 8 x 8 bit matrix held in a word, transposed by three masked exchanges.     *)

Masked(x, k, rows, cols) ==
  {i \in x (+) Down(x, k) : (i \div 8) \in rows /\ i % 8 \in cols}
Exchange(x, k, t) == x (+) t (+) Up(t, k)
transpose_8x8_bits(x) ==
  LET y == Exchange(x, 7, Masked(x, 7, {0, 2, 4, 6}, {1, 3, 5, 7}))
      z == Exchange(y, 14, Masked(y, 14, {0, 1, 4, 5}, {2, 3, 6, 7}))
  IN  Exchange(z, 28, Masked(z, 28, 0 .. 3, 4 .. 7))
=============================================================================
