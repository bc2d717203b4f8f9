----------------------------- MODULE BlockLinks ------------------------------
(* What ties the blocks of a committed witness to each other and to public data:  *)
(* digests at an output slot, chains and Merkle paths by a sumcheck over shifted  *)
(* rows, each of which ends in one claim about packed elements; and two arguments *)
(* that stand alone, a permutation by a grand product and the columns of a jagged *)
(* table. Their claims are opened by PcsOpening.                                  *)
EXTENDS PcsOpening

CONSTANTS CHUNK,         \* elements a thread takes at a time: 2^14 and 2^16 in the code
          OMEGA,         \* the element X
          Digests,       \* [stmt, wl, packed, tape]
          Chains,        \* [layout, wl, packed, x0, xlast, change, tape]
          Paths,         \* [layout, wl, packed, path_log, bits, leaves, root, change, tape]
          Permutations,  \* [f, g, sigma, change, product, tape]
          JaggedTables   \* [heights, n, m, q, z_row, z_col, more, change, tape]

-----------------------------------------------------------------------------
(* Regions: aligned slots of a block. A layout is [k_log, region_log, ...].       *)

tau_pos_len(layout) == layout.region_log - LOG_PACKING
BlockWords(layout) == 2 ^ (layout.k_log - LOG_PACKING)
Instances(layout, packed) == Size(packed) \div BlockWords(layout)

\* Word w of the block of instance i.
word_addr(layout, wl, packed, i, w) ==
  IF wl = "RowMajor" THEN (i * BlockWords(layout)) + w ELSE (w * Instances(layout, packed)) + i
fold_one(layout, wl, packed, eq, base) ==
  Strict([i \in 0 .. Instances(layout, packed) - 1 |->
    Total(Size(eq), LAMBDA pos : eq[pos] ** packed[word_addr(layout, wl, packed, i, base + pos)])])
\* A public region, zeros above its bits.
fold_public_phys(tau, bits) ==
  Dot(build_eq(tau), pack_witness(Padded(bits, 2 ^ (Size(tau) + LOG_PACKING))))

\* The position in the slot, the slot's number and the instance, in the order of the words.
ClaimPoint(wl, tau, slot, instance) ==
  IF wl = "RowMajor" THEN Cat(Cat(tau, slot), instance) ELSE Cat(instance, Cat(tau, slot))
HighZeros(layout, selectors) ==
  Cat(selectors, [j \in 0 .. layout.k_log - layout.region_log - Size(selectors) - 1 |-> 0])

-----------------------------------------------------------------------------
(* Public digests. A statement is [layout, n_log, digests, padding, padding_bits]. *)

slot_index(layout) == (layout.output_byte_off * ByteBits) \div 2 ^ layout.region_log
LayoutIsValid(layout) ==
  /\ layout.region_log >= LOG_PACKING
  /\ layout.region_bits <= 2 ^ layout.region_log /\ layout.region_bits % ByteBits = 0
  /\ (layout.output_byte_off * ByteBits) % 2 ^ layout.region_log = 0
  /\ layout.k_log >= layout.region_log
  /\ slot_index(layout) < 2 ^ (layout.k_log - layout.region_log)
StatementIsValid(stmt) ==
  /\ LayoutIsValid(stmt.layout)
  /\ Len(stmt.digests) <= 2 ^ stmt.n_log
  /\ \A i \in DOMAIN stmt.digests : Size(stmt.digests[i]) = stmt.layout.region_bits
  /\ stmt.padding = "Constant" => Size(stmt.padding_bits) = stmt.layout.region_bits

\* The rest is zero or the padding's digest.
region_of(stmt, i) ==
  IF i < Len(stmt.digests) THEN stmt.digests[i + 1]
  ELSE IF stmt.padding = "Zero" THEN <<>> ELSE stmt.padding_bits

digest_claim_value(stmt, tau, instance) ==
  Given(build_eq(instance), LAMBDA eq :
    Total(2 ^ stmt.n_log, LAMBDA i : IF eq[i] = 0 THEN 0 ELSE eq[i] ** fold_public_phys(tau, region_of(stmt, i))))
digest_claim_point(stmt, wl, tau, instance) ==
  ClaimPoint(wl, tau, [j \in 0 .. stmt.layout.k_log - stmt.layout.region_log - 1 |-> Bit(slot_index(stmt.layout), j)], instance)
\* The position is drawn before the instance.
digest_claim(stmt, wl, ch) ==
  Given(<<observe_label(ch, "flock-digest-bind"), tau_pos_len(stmt.layout)>>, LAMBDA from :
    Given(<<Sampled(from[1], from[2]), Sampled(After(from[1], from[2]), stmt.n_log)>>, LAMBDA drawn :
      Given(digest_claim_point(stmt, wl, drawn[1], drawn[2]), LAMBDA point :
        [point |-> point, value |-> digest_claim_value(stmt, drawn[1], drawn[2]), ind |-> IndOf(point, TRUE)])))

\* What is hashed of a statement: numbers of one width, then every digest with its length.
HashedBits(bits) == <<Size(bits)>> \o [k \in 1 .. DivUp(Size(bits), ByteBits) |-> pack_bits(bits)[k - 1]]
MutPaddingHashed(stmt) == <<>>
PaddingHashed(stmt) == IF stmt.padding = "Constant" THEN HashedBits(stmt.padding_bits) ELSE <<>>
public_digest(stmt) ==
  LET hashed[i \in 0 .. Len(stmt.digests)] ==
        IF i = 0 THEN <<stmt.layout.k_log, stmt.layout.region_log, stmt.layout.region_bits, stmt.layout.output_byte_off,
                        stmt.n_log, Len(stmt.digests), IF stmt.padding = "Zero" THEN 0 ELSE 1>>
        ELSE hashed[i - 1] \o HashedBits(stmt.digests[i])
  IN  hashed[Len(stmt.digests)] \o PaddingHashed(stmt)

-----------------------------------------------------------------------------
(* Chains. A proof is [rounds, g_at_point]; a round binds the highest variable.   *)

FoldHigh(v, r) ==
  LET half == Size(v) \div 2
  IN  Strict([i \in 0 .. half - 1 |-> v[i] ++ (r ** (v[i + half] ++ v[i]))])
ProductMessage(w, g) ==
  LET half == Size(w) \div 2
  IN  <<Total(half, LAMBDA i : w[i + half] ** g[i + half]),
        Total(half, LAMBDA i : (w[i + half] ++ w[i]) ** (g[i + half] ++ g[i]))>>
ToldAll(ch, message) ==
  LET c[k \in 0 .. Len(message)] == IF k = 0 THEN ch ELSE observe(c[k - 1], message[k])
  IN  c[Len(message)]
\* The challenges, the last one first.
Reversed(rs) == [j \in 0 .. Len(rs) - 1 |-> rs[Len(rs) - j]]

shift_mle(a, b) ==
  Total(Size(a), LAMBDA j :
    (Prod(j, LAMBDA l : a[l] ** (1 ++ b[l])) ** ((1 ++ a[j]) ** b[j]))
      ** Prod(Size(a) - j - 1, LAMBDA l : (1 ++ a[j + 1 + l]) ++ b[j + 1 + l]))

\* Inputs below, outputs above; an input is weighed as the output before it, the first one by
\* alpha.
MutShiftWeights(eq, alpha) == [y \in 0 .. (2 * Size(eq)) - 1 |-> IF y >= Size(eq) THEN eq[y - Size(eq)] ELSE IF y = 0 THEN alpha ELSE eq[y]]
ShiftWeights(eq, alpha) ==
  [y \in 0 .. (2 * Size(eq)) - 1 |->
     IF y >= Size(eq) THEN eq[y - Size(eq)] ELSE IF y = 0 THEN alpha ELSE eq[y - 1]]
prove_chain_shift(inVals, outVals, n, ch) ==
  Given(<<build_eq(Sampled(ch, n)), Next1(After(ch, n))>>, LAMBDA drawn :
    LET s[k \in 0 .. n + 1] ==
          IF k = 0 THEN [w |-> Strict(ShiftWeights(drawn[1], drawn[2])), g |-> Cat(inVals, outVals),
                         rounds |-> <<>>, rs |-> <<>>, ch |-> After(After(ch, n), 1)]
          ELSE Given(ProductMessage(s[k - 1].w, s[k - 1].g), LAMBDA e : Given(ToldAll(s[k - 1].ch, e), LAMBDA told :
                 [w |-> FoldHigh(s[k - 1].w, Next1(told)), g |-> FoldHigh(s[k - 1].g, Next1(told)),
                  rounds |-> Append(s[k - 1].rounds, e), rs |-> Append(s[k - 1].rs, Next1(told)), ch |-> After(told, 1)]))
    IN  Given(s[n + 1], LAMBDA last :
          [rounds |-> last.rounds, g_at_point |-> last.g[0], full |-> Reversed(last.rs), ch |-> last.ch]))

\* A quadratic by its values at one and infinity and the sum of those at zero and one.
fold_round_claim(claim, e, r) ==
  LET zero == claim ++ e[1]
  IN  (zero ++ (((e[1] ++ zero) ++ e[2]) ** r)) ++ (e[2] ** (r ** r))
\* Round after round: the claim, the challenges and the transcript.
Replay(rounds, claim, ch, next(_, _, _)) ==
  LET s[k \in 0 .. Len(rounds)] ==
        IF k = 0 THEN [claim |-> claim, rs |-> <<>>, ch |-> ch]
        ELSE Given(ToldAll(s[k - 1].ch, rounds[k]), LAMBDA told :
               [claim |-> next(s[k - 1].claim, rounds[k], Next1(told)), rs |-> Append(s[k - 1].rs, Next1(told)), ch |-> After(told, 1)])
  IN  s[Len(rounds)]
ShiftWeightAt(tau, alpha, point, s0) ==
  (((shift_mle(tau, point) ** (1 ++ s0)) ++ (eq_eval(tau, point) ** s0))
     ++ ((alpha ** Prod(Size(point), LAMBDA j : 1 ++ point[j])) ** (1 ++ s0)))
verify_chain_shift(proof, x0, xlast, n, ch) ==
  IF Len(proof.rounds) # n + 1 THEN Refused("MalformedProof")
  ELSE Given(<<Sampled(ch, n), Next1(After(ch, n))>>, LAMBDA drawn :
    Given(Replay(proof.rounds, (Prod(n, LAMBDA j : drawn[1][j]) ** xlast) ++ (drawn[2] ** x0), After(After(ch, n), 1), fold_round_claim), LAMBDA last :
      Given(Reversed(last.rs), LAMBDA full :
        IF last.claim # ShiftWeightAt(drawn[1], drawn[2], Slice(full, 0, n), full[n]) ** proof.g_at_point THEN Refused("SumcheckFinal")
        ELSE [ok |-> TRUE, full |-> full, value |-> proof.g_at_point, ch |-> last.ch])))

\* The proof as it reaches the verifier: a message of a round altered, or rounds missing.
Delivered(proof, change) ==
  [proof EXCEPT !.rounds = [k \in 1 .. Len(@) - change.cut |->
    IF k = change.round THEN [j \in DOMAIN @[k] |-> @[k][j] ++ change.by[j]] ELSE @[k]]]

SlotBase(byteOff) == (byteOff * ByteBits) \div 2 ^ LOG_PACKING
chain_point(c, tau, n, full) == ClaimPoint(c.wl, tau, HighZeros(c.layout, Slice(full, n, 1)), Slice(full, 0, n))
prove_chain(c, n, ch) ==
  Given(Sampled(ch, tau_pos_len(c.layout)), LAMBDA tau : Given(build_eq(tau), LAMBDA eq :
    Given(prove_chain_shift(fold_one(c.layout, c.wl, c.packed, eq, SlotBase(c.layout.input_byte_off)),
                            fold_one(c.layout, c.wl, c.packed, eq, SlotBase(c.layout.output_byte_off)),
                            n, After(ch, Size(tau))), LAMBDA shift :
      [shift |-> shift, point |-> chain_point(c, tau, n, shift.full), value |-> shift.g_at_point, ch |-> shift.ch])))
verify_chain(c, n, proof, ch) ==
  Given(Sampled(ch, tau_pos_len(c.layout)), LAMBDA tau :
    Given(verify_chain_shift(proof, fold_public_phys(tau, c.x0), fold_public_phys(tau, c.xlast), n, After(ch, Size(tau))), LAMBDA v :
      IF ~v.ok THEN v ELSE [ok |-> TRUE, point |-> chain_point(c, tau, n, v.full), value |-> v.value, ch |-> v.ch]))

-----------------------------------------------------------------------------
(* Merkle paths: a bit tells which half of a row's input is the output before it. *)
(* Slots are [z, l, r], the positions of the output and the halves among four; a  *)
(* message has the values of a cubic at three points.                             *)

EvalPoints == <<1, OMEGA, OMEGA ++ 1>>
other_slot(slots) == CHOOSE s \in 0 .. 3 : s \notin {slots.z, slots.l, slots.r}
lagrange_eval_degree3(q0, q, r) ==
  LET w == OMEGA
      v == OMEGA ++ 1
      zero == q0 ** (((((r ++ 1) ** (r ++ w)) ** (r ++ v))) ** Inv(w ** v))
      one == q[1] ** (((r ** (r ++ w)) ** (r ++ v)) ** Inv((1 ++ w) ** w))
      atOmega == q[2] ** (((r ** (r ++ 1)) ** (r ++ v)) ** Inv(w ** v))
      next == q[3] ** (((r ** (r ++ 1)) ** (r ++ w)) ** Inv(v ** w))
  IN  ((zero ++ one) ++ atOmega) ++ next
slot_indicator(slot, ss, sd) ==
  (IF slot % 2 = 1 THEN ss ELSE 1 ++ ss) ** (IF slot \div 2 = 1 THEN sd ELSE 1 ++ sd)

\* The bits, without the first of every path, whose input is the leaf.
MutPathBits(bits, pos_log) == bits
PathBits(bits, pos_log) == [i \in DOMAIN bits |-> IF i % 2 ^ pos_log = 0 THEN 0 ELSE bits[i]]
PathShift(eqP, eqQ, alpha) ==
  [y \in 0 .. (Size(eqP) * Size(eqQ)) - 1 |->
     eqP[y \div Size(eqQ)] ** (IF y % Size(eqQ) = 0 THEN alpha ELSE eqQ[(y % Size(eqQ)) - 1])]
FoldTables(t, r) == [name \in DOMAIN t |-> FoldHigh(t[name], r)]
RowSum(t) ==
  Total(Size(t.eq), LAMBDA i :
    ((t.eq[i] ** t.z[i]) ++ ((t.shift[i] ** (1 ++ t.b[i])) ** t.l[i])) ++ ((t.shift[i] ** t.b[i]) ** t.r[i]))
SlotSum(t) == Dot(t.w, t.g)
CubicRounds(start, n, sum(_)) ==
  LET s[k \in 0 .. n] ==
        IF k = 0 THEN start
        ELSE Given(Strict([e \in 1 .. 3 |-> sum(FoldTables(s[k - 1].t, EvalPoints[e]))]), LAMBDA q : Given(ToldAll(s[k - 1].ch, q), LAMBDA told :
               [t |-> Strict(FoldTables(s[k - 1].t, Next1(told))), rounds |-> Append(s[k - 1].rounds, q),
                rs |-> Append(s[k - 1].rs, Next1(told)), ch |-> After(told, 1)]))
  IN  s[n]
\* What the rows leave, put in the slots.
SlotTables(t, slots) ==
  [w |-> [s \in 0 .. 3 |-> IF s = slots.z THEN t.eq[0] ELSE IF s = slots.l THEN t.shift[0] ** (1 ++ t.b[0])
                           ELSE IF s = slots.r THEN t.shift[0] ** t.b[0] ELSE 0],
   g |-> [s \in 0 .. 3 |-> IF s = slots.z THEN t.z[0] ELSE IF s = slots.l THEN t.l[0]
                           ELSE IF s = slots.r THEN t.r[0] ELSE t.other[0]]]
prove_merkle_path_shift(path_log, vals, bits, slots, n, ch) ==
  Given(<<Sampled(ch, n), Next1(After(ch, n)), n - path_log>>, LAMBDA drawn :
    Given(CubicRounds(
      [t |-> [shift |-> Strict(PathShift(build_eq(Slice(drawn[1], drawn[3], path_log)), build_eq(Slice(drawn[1], 0, drawn[3])), drawn[2])),
              eq |-> build_eq(drawn[1]), b |-> PathBits(bits, drawn[3]),
              z |-> vals[slots.z], l |-> vals[slots.l], r |-> vals[slots.r], other |-> vals[other_slot(slots)]],
       rounds |-> <<>>, rs |-> <<>>, ch |-> After(After(ch, n), 1)], n, RowSum), LAMBDA rows :
      Given(CubicRounds([rows EXCEPT !.t = SlotTables(rows.t, slots)], 2, SlotSum), LAMBDA last :
        [rounds |-> last.rounds, g_at_point |-> last.t.g[0], rs |-> last.rs, ch |-> last.ch])))

\* The challenges: those of the rows last one first, then of the slot's lower and higher bit.
PathPoint(rs, n) ==
  [instance |-> [j \in 0 .. n - 1 |-> rs[n - j]], side |-> rs[n + 1], sel_slot |-> rs[n + 2]]
PathWeightAt(tau, alpha, pos_log, bits, slots, p) ==
  LET n == Size(tau)
      q == Slice(p.instance, 0, pos_log)
      shift == eq_eval(Slice(tau, pos_log, n - pos_log), Slice(p.instance, pos_log, n - pos_log))
                 ** (shift_mle(Slice(tau, 0, pos_log), q) ++ (alpha ** Prod(pos_log, LAMBDA j : 1 ++ q[j])))
  IN  Given(<<Strict(shift), Dot(PathBits(bits, pos_log), build_eq(p.instance))>>, LAMBDA at :
        ((slot_indicator(slots.z, p.sel_slot, p.side) ** eq_eval(tau, p.instance))
          ++ ((slot_indicator(slots.l, p.sel_slot, p.side) ** at[1]) ** (1 ++ at[2])))
          ++ ((slot_indicator(slots.r, p.sel_slot, p.side) ** at[1]) ** at[2]))
verify_merkle_path_shift(path_log, proof, leaves, root, bits, n, slots, ch) ==
  IF Len(proof.rounds) # n + 2 THEN Refused("MalformedProof")
  ELSE Given(<<Sampled(ch, n), Next1(After(ch, n)), n - path_log>>, LAMBDA drawn :
    Given(Replay(proof.rounds,
            (Prod(drawn[3], LAMBDA j : drawn[1][j]) ** root) ++ (drawn[2] ** Dot(build_eq(Slice(drawn[1], drawn[3], path_log)), leaves)),
            After(After(ch, n), 1), LAMBDA claim, q, r : lagrange_eval_degree3(claim ++ q[1], q, r)), LAMBDA last :
      Given(PathPoint(last.rs, n), LAMBDA p :
        IF last.claim # PathWeightAt(drawn[1], drawn[2], drawn[3], bits, slots, p) ** proof.g_at_point THEN Refused("SumcheckFinal")
        ELSE [ok |-> TRUE, p |-> p, value |-> proof.g_at_point, ch |-> last.ch])))

fold_all_slots(layout, wl, packed, eq) ==
  [s \in 0 .. 3 |-> fold_one(layout, wl, packed, eq, SlotBase(layout.slot_base_byte_off) + (s * Size(eq)))]
merkle_point(c, tau, p) ==
  ClaimPoint(c.wl, tau, HighZeros(c.layout, [j \in 0 .. 1 |-> IF j = 0 THEN p.sel_slot ELSE p.side]), p.instance)
prove_merkle_paths(c, n, ch) ==
  Given(Sampled(ch, tau_pos_len(c.layout)), LAMBDA tau :
    Given(prove_merkle_path_shift(c.path_log, fold_all_slots(c.layout, c.wl, c.packed, build_eq(tau)), c.bits, c.layout.slots, n, After(ch, Size(tau))), LAMBDA shift :
      [shift |-> shift, point |-> merkle_point(c, tau, PathPoint(shift.rs, n)), value |-> shift.g_at_point, ch |-> shift.ch]))
verify_merkle_paths(c, n, proof, ch) ==
  Given(Sampled(ch, tau_pos_len(c.layout)), LAMBDA tau :
    Given(verify_merkle_path_shift(c.path_log, proof, [i \in DOMAIN c.leaves |-> fold_public_phys(tau, c.leaves[i])],
            fold_public_phys(tau, c.root), c.bits, n, c.layout.slots, After(ch, Size(tau))), LAMBDA v :
      IF ~v.ok THEN v ELSE [ok |-> TRUE, point |-> merkle_point(c, tau, v.p), value |-> v.value, ch |-> v.ch]))

-----------------------------------------------------------------------------
(* A permutation: the product of the fractions of f and g with their tags is one, *)
(* by a tree of products in one vector, whose root stands for it here. Neither     *)
(* side draws again where a fraction has no value or a challenge excludes a round. *)

\* The inverses of a chunk from one inversion: all zero if one of its values is.
batch_inverse(v) ==
  Strict([i \in DOMAIN v |->
    LET from == (i \div CHUNK) * CHUNK
        n == Smaller(CHUNK, Size(v) - from)
    IN  (Prod(i - from, LAMBDA j : v[from + j]) ** Inv(Prod(n, LAMBDA j : v[from + j])))
          ** Prod((from + n - 1) - i, LAMBDA j : v[i + 1 + j])])
s_id_basis(mu) == [i \in 0 .. mu - 1 |-> 2 ^ i]
s_id_eval(basis, rho) == Dot(basis, rho)
s_id_vec(mu) ==
  LET id[x \in 0 .. 2 ^ mu - 1] ==
        IF x = 0 THEN 0 ELSE LET k == CHOOSE j \in 0 .. mu - 1 : 2 ^ j <= x /\ x < 2 ^ (j + 1) IN id[x - 2 ^ k] ++ 2 ^ k
  IN  Strict(id)
\* Leaves, then the product of every two before it; the last entry is free.
build_grand_product(h) ==
  LET n == Size(h)
      v[i \in 0 .. (2 * n) - 1] ==
        IF i < n THEN h[i] ELSE IF i = (2 * n) - 1 THEN 0 ELSE v[2 * (i - n)] ** v[(2 * (i - n)) + 1]
  IN  Strict(v)
FoldLow(u, rho) == Strict([x \in 0 .. (Size(u) \div 2) - 1 |-> (u[2 * x] ** (1 ++ rho)) ++ (u[(2 * x) + 1] ** rho)])

\* The point of a vector's half, of its even or odd entries, and of the root.
v_open_points(rho) ==
  LET low(bit) == Cat([j \in 0 .. 0 |-> bit], rho)
      high(bit) == Cat(rho, [j \in 0 .. 0 |-> bit])
  IN  <<low(0), low(1), high(1), high(0), [j \in 0 .. Size(rho) |-> IF j = 0 THEN 0 ELSE 1]>>

\* Leaf times q is p, and every entry the product of its two; the tags of the identity are
\* added in closed form.
LeafError(t, y, beta, gamma) == (t.v0[y] ** ((t.g[y] ++ (beta ** t.s[y])) ++ gamma)) ++ (t.f[y] ++ gamma)
TreeError(t, y) == t.c[y] ++ (t.a[y] ** t.b[y])
LeafSlope(t, x, beta) ==
  (t.v0[2 * x] ++ t.v0[(2 * x) + 1]) ** ((t.g[2 * x] ++ t.g[(2 * x) + 1]) ++ (beta ** (t.s[2 * x] ++ t.s[(2 * x) + 1])))
TreeSlope(t, x) == (t.a[2 * x] ++ t.a[(2 * x) + 1]) ** (t.b[2 * x] ++ t.b[(2 * x) + 1])
BlockTotal(eq, value(_)) ==
  Total(Size(eq.hi), LAMBDA h : eq.hi[h] ** Total(Size(eq.lo), LAMBDA l : eq.lo[l] ** value((h * Size(eq.lo)) + l)))
round_message(t, c, eq) ==
  <<BlockTotal(eq, LAMBDA x : LeafError(t, (2 * x) + 1, c.beta, c.gamma) ++ (c.alpha ** TreeError(t, (2 * x) + 1))),
    BlockTotal(eq, LAMBDA x : LeafSlope(t, x, c.beta) ++ (c.alpha ** TreeSlope(t, x)))>>
MutIdentityPart(basis, r, rho, i) == Total(i, LAMBDA k : basis[k] ** rho[k + 1]) ++ basis[i]
IdentityPart(basis, r, rho, i) ==
  (Total(i, LAMBDA k : basis[k] ** rho[k + 1]) ++ basis[i]) ++ Total(Size(r) - i - 1, LAMBDA k : basis[i + 1 + k] ** r[i + 1 + k])

PermutationStart(ch) == Given(observe_label(ch, "flock-perm"), LAMBDA s : [beta |-> Next1(s), gamma |-> Next1(After(s, 1)), ch |-> After(After(s, 1), 1)])
PermutationDraws(start, v, product, mu) ==
  Given(observe(observe(start.ch, v), product), LAMBDA s :
    [beta |-> start.beta, gamma |-> start.gamma, alpha |-> Next1(s), r |-> Sampled(After(s, 1), mu), ch |-> After(After(s, 1), mu)])
PermutationTree(p, ids, start) ==
  LET tagged(v, s) == Strict([x \in DOMAIN v |-> (v[x] ++ (start.beta ** s[x])) ++ start.gamma])
  IN  Given(<<tagged(p.f, ids), batch_inverse(tagged(p.g, [x \in DOMAIN p.g |-> ids[p.sigma[x]]]))>>, LAMBDA fraction :
        build_grand_product([x \in DOMAIN p.f |-> fraction[1][x] ** fraction[2][x]]))
PermutationRounds(p, ids, v, c, mu) ==
  LET n == Size(p.f)
      s[i \in 0 .. mu] ==
        IF i = 0 THEN [t |-> [f |-> p.f, g |-> p.g, s |-> Strict([x \in DOMAIN p.g |-> ids[p.sigma[x]]]),
                              a |-> Strict([x \in 0 .. n - 1 |-> v[2 * x]]), b |-> Strict([x \in 0 .. n - 1 |-> v[(2 * x) + 1]]),
                              c |-> Strict(Slice(v, n, n)), v0 |-> Strict(Slice(v, 0, n))], rounds |-> <<>>, rho |-> <<>>, ch |-> c.ch]
        ELSE Given(round_message(s[i - 1].t, c, SplitEq(Slice(c.r, i, mu - i))), LAMBDA core :
             Given(<<core[1] ++ (c.beta ** IdentityPart(s_id_basis(mu), c.r, s[i - 1].rho, i - 1)), core[2]>>, LAMBDA e :
             Given(ToldAll(s[i - 1].ch, e), LAMBDA told :
               [t |-> Strict([name \in DOMAIN s[i - 1].t |-> FoldLow(s[i - 1].t[name], Next1(told))]),
                rounds |-> Append(s[i - 1].rounds, e), rho |-> Append(s[i - 1].rho, Next1(told)), ch |-> After(told, 1)])))
  IN  s[mu]
EvalsOf(t) == <<t.f[0], t.g[0], t.s[0], t.a[0], t.b[0], t.c[0], t.v0[0]>>
prove_permutation(p, mu, ch) ==
  Given(<<s_id_vec(mu), PermutationStart(ch)>>, LAMBDA drawn :
    Given(PermutationTree(p, drawn[1], drawn[2]), LAMBDA v :
      Given(PermutationDraws(drawn[2], v, v[(2 * Size(p.f)) - 2], mu), LAMBDA c : Given(PermutationRounds(p, drawn[1], v, c, mu), LAMBDA last :
        [v |-> v, product |-> v[(2 * Size(p.f)) - 2], rounds |-> last.rounds, evals |-> EvalsOf(last.t),
         ch |-> ToldAll(last.ch, EvalsOf(last.t))]))))

\* A round's value at zero from the claim and the equality's factor.
PermutationClaim(claim, e, r, rho) ==
  (((claim ++ (r ** e[1])) ** Inv(1 ++ r)) ** (1 ++ rho)) ++ ((e[1] ** rho) ++ (e[2] ** (rho ** (1 ++ rho))))
PermutationEnd(proof, c, mu, rho) ==
  LET e == proof.evals
      p == (e[1] ++ (c.beta ** s_id_eval(s_id_basis(mu), rho))) ++ c.gamma
      q == (e[2] ++ (c.beta ** e[3])) ++ c.gamma
  IN  ((e[7] ** q) ++ p) ++ (c.alpha ** (e[6] ++ (e[4] ** e[5])))
verify_permutation(mu, proof, ch) ==
  Given(PermutationDraws(PermutationStart(ch), proof.v, proof.product, mu), LAMBDA c :
    LET s[i \in 0 .. mu] ==
          IF i = 0 THEN [claim |-> 0, rho |-> <<>>, ch |-> c.ch]
          ELSE Given(ToldAll(s[i - 1].ch, proof.rounds[i]), LAMBDA told :
                 [claim |-> PermutationClaim(s[i - 1].claim, proof.rounds[i], c.r[i - 1], Next1(told)),
                  rho |-> Append(s[i - 1].rho, Next1(told)), ch |-> After(told, 1)])
    IN  Given(<<s[mu], [j \in 0 .. mu - 1 |-> s[mu].rho[j + 1]]>>, LAMBDA last :
          IF last[1].claim # PermutationEnd(proof, c, mu, last[2]) THEN Refused("SumcheckFinalFailed")
          ELSE IF proof.product # 1 THEN Refused("RootNotOne")
          ELSE IF \E k \in 1 .. 5 : Mle(proof.v, v_open_points(last[2])[k]) # <<proof.evals[4], proof.evals[5], proof.evals[6], proof.evals[7], proof.product>>[k]
          THEN Refused("PcsOpen")
          ELSE [ok |-> TRUE, rho |-> last[2], evals |-> proof.evals, ch |-> ToldAll(last[1].ch, proof.evals)]))

-----------------------------------------------------------------------------
(* A jagged table: columns of different heights one after the other in a vector.  *)
(* Its value at a point is a sum over the vector, reduced to one of the vector's.  *)

from_heights(heights) ==
  LET sum[c \in 0 .. Len(heights)] == IF c = 0 THEN 0 ELSE sum[c - 1] + heights[c]
  IN  Strict(sum)
area(sums) == sums[Size(sums) - 1]
FirstAbove(sums, i) == Cardinality({c \in DOMAIN sums : sums[c] <= i})
\* The row and the column of an entry.
unrank(sums, i) == LET col == FirstAbove(sums, i) - 1 IN <<i - sums[col], col>>

\* A chunk looks its first column up and walks on from there, over the empty ones.
WalkTo(sums, col, i) == CHOOSE c \in col .. Size(sums) - 2 : i < sums[c + 1] /\ \A b \in col .. c - 1 : i >= sums[b + 1]
generate_f_and_claim(j, sums) ==
  Given(<<build_eq(j.z_row), build_eq(j.z_col)>>, LAMBDA eq :
    Given(Strict([i \in 0 .. 2 ^ j.m - 1 |->
            IF i >= area(sums) THEN 0
            ELSE LET col == WalkTo(sums, Minus(FirstAbove(sums, (i \div CHUNK) * CHUNK), 1), i)
                 IN  eq[1][i - sums[col]] ** eq[2][col]]), LAMBDA b :
      [b |-> b, v |-> Dot(j.q, b)]))

LowMessage(a, b) ==
  LET half == Size(a) \div 2
  IN  <<Total(half, LAMBDA x : AtOne(Quad(a, b, x))), Total(half, LAMBDA x : AtInfinity(Quad(a, b, x)))>>
prove_jagged(j, ch) ==
  Given(generate_f_and_claim(j, from_heights(j.heights)), LAMBDA made :
    LET s[k \in 0 .. j.m] ==
          IF k = 0 THEN [a |-> j.q, b |-> made.b, rounds |-> <<>>, ch |-> observe_label(ch, "flock-jagged")]
          ELSE Given(LowMessage(s[k - 1].a, s[k - 1].b), LAMBDA e : Given(ToldAll(s[k - 1].ch, e), LAMBDA told :
                 [a |-> fold_in_place_single(s[k - 1].a, Next1(told)), b |-> fold_in_place_single(s[k - 1].b, Next1(told)),
                  rounds |-> Append(s[k - 1].rounds, e), ch |-> After(told, 1)]))
    IN  [rounds |-> s[j.m].rounds, q_eval |-> s[j.m].a[0], v |-> made.v, ch |-> s[j.m].ch])

\* A program that reads row, index and the column's two ends from their lowest bits: the row
\* and the column's start add up to the index, and it is below the column's end. Its states
\* are <<carry, below>>.
Rejected == <<>>
MutTransition(row, index, curr, next, state) ==
  LET sum == (row + state[1]) + curr
  IN  IF index # sum % 2 THEN Rejected ELSE <<sum \div 2, next>>
transition(row, index, curr, next, state) ==
  LET sum == (row + state[1]) + curr
  IN  IF index # sum % 2 THEN Rejected ELSE <<sum \div 2, IF index = next THEN state[2] ELSE next>>
point_bit(z, layer) == IF layer < Size(z) THEN z[layer] ELSE 0
g_hat_eval(z_row, z_index, from, to, m) ==
  LET States == (0 .. 1) \X (0 .. 1)
      dp[layer \in 0 .. m + 1] ==
        IF layer = m + 1 THEN [state \in States |-> IF state = <<0, 1>> THEN 1 ELSE 0]
        ELSE Given(<<build_eq([b \in 0 .. 3 |-> <<point_bit(z_row, layer), point_bit(z_index, layer), Bit(from, layer), Bit(to, layer)>>[b + 1]]),
                     dp[layer + 1]>>, LAMBDA drawn :
               Strict([state \in States |-> Total(16, LAMBDA bits :
                 LET out == transition(Bit(bits, 0), Bit(bits, 1), Bit(bits, 2), Bit(bits, 3), state)
                 IN  IF out = Rejected THEN 0 ELSE drawn[1][bits] ** drawn[2][out])]))
  IN  dp[0][<<0, 0>>]
f_hat_t(j, sums, z_index) ==
  Given(build_eq(j.z_col), LAMBDA eq :
    Total(Size(eq), LAMBDA c : eq[c] ** g_hat_eval(j.z_row, z_index, sums[c], sums[c + 1], j.m)))
verify_jagged(j, claim_v, proof, ch) ==
  IF Len(proof.rounds) # j.m THEN Refused("None")
  ELSE Given(Replay(proof.rounds, claim_v, observe_label(ch, "flock-jagged"), fold_round_claim), LAMBDA last :
         Given([k \in 0 .. j.m - 1 |-> last.rs[k + 1]], LAMBDA point :
           IF last.claim # proof.q_eval ** f_hat_t(j, from_heights(j.heights), point) THEN Refused("None")
           ELSE [ok |-> TRUE, point |-> point, alpha |-> proof.q_eval, ch |-> last.ch]))

-----------------------------------------------------------------------------
LinksOpen ==
  \/ Pending("digest", Digests) \/ Pending("chain", Chains) \/ Pending("paths", Paths)
  \/ Pending("permutation", Permutations) \/ Pending("jagged", JaggedTables)

BindDigest ==
  /\ Asked("digest")
  /\ \E input \in {Input} :
       result' = [public |-> public_digest(input.stmt),
                  claim |-> IF StatementIsValid(input.stmt) THEN digest_claim(input.stmt, input.wl, new_transcript(input.tape)) ELSE None]
LinkChain ==
  /\ Asked("chain")
  /\ \E c \in {Input} : \E n \in {Log2(Instances(c.layout, c.packed))} : \E p \in {prove_chain(c, n, new_transcript(c.tape))} :
       result' = [proved |-> p, verified |-> verify_chain(c, n, Delivered(p.shift, c.change), new_transcript(c.tape))]
LinkPaths ==
  /\ Asked("paths")
  /\ \E c \in {Input} : \E n \in {Log2(Instances(c.layout, c.packed))} : \E p \in {prove_merkle_paths(c, n, new_transcript(c.tape))} :
       result' = [proved |-> p, verified |-> verify_merkle_paths(c, n, Delivered(p.shift, c.change), new_transcript(c.tape))]
Permute ==
  /\ Asked("permutation")
  /\ \E c \in {Input} : \E mu \in {Log2(Size(c.f))} : \E p \in {prove_permutation(c, mu, new_transcript(c.tape))} :
       result' = [proved |-> p, verified |-> verify_permutation(mu, [Delivered(p, c.change) EXCEPT !.product = @ ++ c.product], new_transcript(c.tape))]
EvaluateJagged ==
  /\ Asked("jagged")
  /\ \E c \in {Input} : \E p \in {prove_jagged(c, new_transcript(c.tape))} :
       result' = [proved |-> p, verified |-> verify_jagged(c, p.v ++ c.more, Delivered(p, c.change), new_transcript(c.tape))]

LinksNext == BindDigest \/ LinkChain \/ LinkPaths \/ Permute \/ EvaluateJagged

-----------------------------------------------------------------------------
\* A word of a public region, and what a region of an instance has at tau.
PublicWord(bits, pos) ==
  LET from == pos * 2 ^ LOG_PACKING
  IN  pack_witness(Slice(Padded(bits, from + 2 ^ LOG_PACKING), from, 2 ^ LOG_PACKING))[0]
RegionAt(c, i, slot, tau) ==
  Total(2 ^ Size(tau), LAMBDA pos : Eq(tau, pos) ** c.packed[word_addr(c.layout, c.wl, c.packed, i, (slot * 2 ^ Size(tau)) + pos)])
PublicAt(bits, tau) == Total(2 ^ Size(tau), LAMBDA pos : Eq(tau, pos) ** PublicWord(bits, pos))

\* What the altered message leaves of the first error, round after round.
LastError(first, c, rounds, from, step(_, _, _)) ==
  LET e[k \in 0 .. rounds] ==
        IF k = 0 THEN first
        ELSE step(e[k - 1], [j \in 1 .. 3 |-> IF k = c.change.round THEN c.change.by[j] ELSE 0], c.tape[from + k - 1])
  IN  e[rounds]
QuadraticError(e, off, r) == ((e ** (1 ++ r)) ++ off[1]) ++ ((off[2] ** r) ** (1 ++ r))
CubicError(e, off, r) ==
  Interpolated([k \in 0 .. 3 |-> <<0, 1, OMEGA, OMEGA ++ 1>>[k + 1]], [k \in 0 .. 3 |-> <<e ++ off[1], off[1], off[2], off[3]>>[k + 1]], r)

\* A claim is off by the extension, over positions and instances, of the difference between
\* the slot and what the statement says of it; and statements with one hash say the same.
DigestBinds ==
  LET stmt == Input.stmt
      claim == result.claim
      words == 2 ^ tau_pos_len(stmt.layout)
      point == Slice(Input.tape, 0, tau_pos_len(stmt.layout) + stmt.n_log)
      Word(i, pos) == Input.packed[word_addr(stmt.layout, Input.wl, Input.packed, i, (slot_index(stmt.layout) * words) + pos)]
  IN  /\ claim # None <=> StatementIsValid(stmt)
      /\ claim # None =>
           claim.value ++ evaluate(claim.ind, Input.packed)
             = Mle([x \in 0 .. (words * 2 ^ stmt.n_log) - 1 |-> Word(x \div words, x % words) ++ PublicWord(region_of(stmt, x \div words), x % words)], point)
      /\ \A other \in {input.stmt : input \in Digests} :
           claim # None /\ StatementIsValid(other) /\ public_digest(other) = result.public =>
             other.n_log = stmt.n_log /\ \A i \in 0 .. 2 ^ stmt.n_log - 1 : region_of(other, i) = region_of(stmt, i)

ChainError(c, n, tau, from) ==
  LET at == Slice(c.tape, from, n)
      last == 2 ^ n - 1
      In(i) == RegionAt(c, i, 0, tau)
      Out(i) == RegionAt(c, i, 1, tau)
  IN  (Total(last, LAMBDA i : Eq(at, i) ** (Out(i) ++ In(i + 1))) ++ (Eq(at, last) ** (Out(last) ++ PublicAt(c.xlast, tau))))
        ++ (c.tape[from + n] ** (In(0) ++ PublicAt(c.x0, tau)))
PathsError(c, n, tau, from) ==
  LET L == 2 ^ (n - c.path_log)
      at == Slice(c.tape, from, n)
      Z(y) == RegionAt(c, y, c.layout.slots.z, tau)
      In(y) == RegionAt(c, y, IF c.bits[y] = 1 /\ y % L # 0 THEN c.layout.slots.r ELSE c.layout.slots.l, tau)
      After1(y) == IF y % L = L - 1 THEN PublicAt(c.root, tau) ELSE In(y + 1)
      leafAt == Slice(at, n - c.path_log, c.path_log)
  IN  Total(2 ^ n, LAMBDA y : Eq(at, y) ** (Z(y) ++ After1(y)))
        ++ (c.tape[from + n] ** Total(2 ^ c.path_log, LAMBDA p : Eq(leafAt, p) ** (In(p * L) ++ PublicAt(c.leaves[p], tau))))
\* What the verifier of a sumcheck accepts, and the claim both go on with.
LinkHolds(c, error) ==
  LET p == result.proved
      v == result.verified
  IN  /\ v.ok <=> c.change.cut = 0 /\ error = 0
      /\ p.value = evaluate(IndOf(p.point, TRUE), c.packed)
      /\ v.ok => v.point = p.point /\ v.value = p.value /\ (c.change.round = 0 => v.ch = p.ch)
ChainHolds ==
  LET c == Input
      t == tau_pos_len(c.layout)
      n == Log2(Instances(c.layout, c.packed))
  IN  LinkHolds(c, LastError(ChainError(c, n, Slice(c.tape, 0, t), t), c, n + 1, t + n + 1, QuadraticError))
PathsHold ==
  LET c == Input
      t == tau_pos_len(c.layout)
      n == Log2(Instances(c.layout, c.packed))
  IN  LinkHolds(c, LastError(PathsError(c, n, Slice(c.tape, 0, t), t), c, n + 2, t + n + 1, CubicError))

\* Unless a challenge is one the argument excludes, the accepted permutation is one whose
\* product is one, and what its messages got wrong vanished at the challenges drawn later.
PermutationHolds ==
  LET c == Input
      v == result.verified
      mu == Log2(Size(c.f))
      beta == c.tape[0]
      gamma == c.tape[1]
      r == Slice(c.tape, 3, mu)
      rho == Slice(c.tape, 3 + mu, mu)
      Tag(x) == Total(mu, LAMBDA j : Bit(x, j) ** (2 ^ j))
      P(x) == (c.f[x] ++ (beta ** Tag(x))) ++ gamma
      Q(x) == (c.g[x] ++ (beta ** Tag(c.sigma[x]))) ++ gamma
      whole == Prod(Size(c.f), P) = Prod(Size(c.f), Q)
      e[i \in 0 .. mu] ==
        IF i = 0 THEN 0
        ELSE LET off == [j \in 1 .. 2 |-> IF i = c.change.round THEN c.change.by[j] ELSE 0]
             IN  (((e[i - 1] ** (1 ++ rho[i - 1])) ++ (off[1] ** (r[i - 1] ++ rho[i - 1]))) ** Inv(1 ++ r[i - 1]))
                   ++ ((off[2] ** rho[i - 1]) ** (1 ++ rho[i - 1]))
      zero == \E x \in DOMAIN c.g : Q(x) = 0
      excluded == \E i \in DOMAIN r : r[i] = 1
  IN  /\ ~zero /\ ~excluded => (v.ok <=> c.product = 0 /\ whole /\ e[mu] = 0)
      /\ zero /\ c.product = 0 => ~v.ok
      /\ v.ok => <<v.evals[1], v.evals[2], v.evals[3]>> = <<Mle(c.f, rho), Mle(c.g, rho), Mle([x \in DOMAIN c.g |-> Tag(c.sigma[x])], rho)>>

JaggedHolds ==
  LET c == Input
      p == result.proved
      v == result.verified
      sums == from_heights(c.heights)
      Value(i) == LET at == unrank(sums, i) IN (Eq(c.z_row, at[1]) ** Eq(c.z_col, at[2])) ** c.q[i]
  IN  /\ p.v = Total(area(sums), Value)
      /\ v.ok <=> c.change.cut = 0 /\ LastError(c.more, c, c.m, 0, QuadraticError) = 0
      /\ v.ok => v.alpha = Mle(c.q, v.point)

\* Every argument accepts exactly what it is about, up to errors that vanish at the challenges:
\* the digests of the statement in their slot, outputs that are the next instance's inputs
\* and end in the public values, halves chosen by the path's bits up to the root, vectors
\* that are permutations of each other, a table's columns; and each hands over a claim that
\* is true of the committed elements.
BlocksAreLinked ==
  /\ Returned("digest") => DigestBinds
  /\ Returned("chain") => ChainHolds
  /\ Returned("paths") => PathsHold
  /\ Returned("permutation") => PermutationHolds
  /\ Returned("jagged") => JaggedHolds
=============================================================================
