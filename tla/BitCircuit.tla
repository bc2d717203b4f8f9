----------------------------- MODULE BitCircuit -----------------------------
(* Circuits over bits. A row of a block is (A z)_s * (B z)_s = z_s, and a hash is  *)
(* walked over words of bits, each bit of a walk being the set of the slots whose *)
(* sum it is (the matrices, and their transposes scattered), or known (the two    *)
(* builders of a witness). A hash is a program of instructions on named words;    *)
(* a walk interprets it. A word that is known is the set of its bits that are one,*)
(* a block the set of its slots that are one.                                     *)
EXTENDS SmallField, ZkMasks
LOCAL INSTANCE TLC

CONSTANTS WORD_BITS,     \* bits of a word: 32 in the code
          MACHINE_BITS,  \* bits of a machine word, half an element of the packing: 64
          BM_V           \* blocks of a byte of the stripe, lanes of a lockstep build: 8

Positions == 0 .. WORD_BITS - 1
CARRY_BITS_PER_ADD == WORD_BITS - 1

\* The sum of f over a set, of the values it has there an odd number of times.
Odd(set) == Cardinality(set) % 2 = 1
SumOver(set, f) == Total(16, LAMBDA v : IF Odd({s \in set : f[s] = v}) THEN v ELSE 0)
xor_dedup(x, y) == (x \ y) \cup (y \ x)
FromNat(n) == {i \in Positions : Bit(n, i) = 1}
ToNat(x) == LET t[i \in 0 .. WORD_BITS] == IF i = 0 THEN 0 ELSE t[i - 1] + (IF (i - 1) \in x THEN 2 ^ (i - 1) ELSE 0)
            IN  t[WORD_BITS]
wrapping_add(x, y) == FromNat((ToNat(x) + ToNat(y)) % 2 ^ WORD_BITS)
rotate_right(x, n) == {(p + WORD_BITS - n) % WORD_BITS : p \in x}
shift_right(x, n) == {p - n : p \in {q \in x : q >= n}}

-----------------------------------------------------------------------------
(* Words of a walk w: w.mode is "rows", "scatter", "bits" or "packed", w.one the  *)
(* slot that is always one.                                                       *)

Symbolic(w) == w.mode \in {"rows", "scatter"}
xor_words(w, x, y) ==
  IF Symbolic(w) THEN Strict([i \in Positions |-> xor_dedup(x[i], y[i])]) ELSE xor_dedup(x, y)
rotr(w, x, n) == IF Symbolic(w) THEN Strict([i \in Positions |-> x[(i + n) % WORD_BITS]]) ELSE rotate_right(x, n)
shr(w, x, n) ==
  IF Symbolic(w) THEN Strict([i \in Positions |-> IF i + n < WORD_BITS THEN x[i + n] ELSE {}]) ELSE shift_right(x, n)
from_const(w, v) == IF Symbolic(w) THEN Strict([i \in Positions |-> IF i \in v THEN {w.one} ELSE {}]) ELSE v
from_slot_base(w, base, v) == IF Symbolic(w) THEN Strict([i \in Positions |-> {base + i}]) ELSE v

\* The carries into the bits of x + y: sums of the carry slots before, the ripple of a
\* chain, or the word the sum reveals.
RippleCarries(x, y) ==
  LET at(s, i) == IF i \in s THEN 1 ELSE 0
      c[i \in Positions] ==
        IF i = 0 THEN 0
        ELSE LET aux == ((at(x, i - 1) + c[i - 1]) % 2) * ((at(y, i - 1) + c[i - 1]) % 2)
             IN  (aux + c[i - 1]) % 2
  IN  {i \in Positions : c[i] = 1}
CarriesIn(w, x, y, base) ==
  CASE Symbolic(w) -> Strict([i \in Positions |-> {base + j : j \in 0 .. i - 1}])
    [] w.mode = "bits" -> RippleCarries(x, y)
    [] OTHER -> xor_dedup(wrapping_add(x, y), xor_dedup(x, y))
\* The carries kept have a slot each; the last one falls off the word.
Kept(w, x) == IF Symbolic(w) THEN x ELSE x \ {WORD_BITS - 1}
add_sum(w, x, y, cin) ==
  IF Symbolic(w) THEN xor_words(w, xor_words(w, x, y), cin) ELSE wrapping_add(x, y)

-----------------------------------------------------------------------------
(* What a walk leaves behind: the n rows at base, with the words of their sides.  *)

\* Row base + i adds alpha times its weight to the slots of one side, its weight to the other's.
Scattered(comb, w, base, n, x, y) ==
  LET rows == 0 .. n - 1
      share(s, i) == (IF s \in x[i] THEN w.alpha ** w.eq[base + i] ELSE 0) ++ (IF s \in y[i] THEN w.eq[base + i] ELSE 0)
  IN  Given(Strict([s \in UNION {x[i] \cup y[i] : i \in rows} |-> Total(n, LAMBDA i : share(s, i))]), LAMBDA more :
        Strict([s \in 0 .. w.k - 1 |-> IF s \in DOMAIN more THEN comb[s] ++ more[s] ELSE comb[s]]))
Shifted(base, x) == {base + i : i \in x}
Emit(w, out, base, n, x, y) ==
  CASE w.mode = "rows" -> Strict([s \in base .. base + n - 1 |-> <<x[s - base], y[s - base]>>] @@ out)
    [] w.mode = "scatter" -> Scattered(out, w, base, n, x, y)
    [] w.mode = "bits" -> (out \ (base .. base + n - 1)) \cup Shifted(base, x \cap y)
    [] OTHER -> [z |-> out.z \cup Shifted(base, x \cap y), a |-> out.a \cup Shifted(base, x), b |-> out.b \cup Shifted(base, y)]
Nothing(w) ==
  CASE w.mode = "rows" -> [s \in {w.one} |-> <<{w.one}, {w.one}>>]
    [] w.mode = "scatter" -> [s \in 0 .. w.k - 1 |-> IF s = w.one THEN (w.alpha ** w.eq[s]) ++ w.eq[s] ELSE 0]
    [] w.mode = "bits" -> {w.one}
    [] OTHER -> [z |-> {w.one}, a |-> {w.one}, b |-> {w.one}]

-----------------------------------------------------------------------------
(* Instructions: <<operation, result, arguments, slot base or distance>>.         *)

INPUT(r, base) == <<"input", r, <<>>, base>>
CONST(r, v) == <<"const", r, <<>>, v>>
XOR(r, x, y) == <<"xor", r, <<x, y>>, 0>>
ROTR(r, x, n) == <<"rotr", r, <<x>>, n>>
SHR(r, x, n) == <<"shr", r, <<x>>, n>>
MOVE(r, x) == <<"move", r, <<x>>, 0>>
ADD(r, x, y, base) == <<"add", r, <<x, y>>, base>>
AND(r, x, y, base) == <<"and", r, <<x, y>>, base>>
LIN(r, x, base) == <<"lin", r, <<x>>, base>>

\* An input's rows are free unless the matrices pin its value.
InputRows(w, out, r, base, v) ==
  Emit(w, out, base, WORD_BITS,
       IF w.mode = "rows" /\ r \in DOMAIN w.pins THEN from_const(w, w.pins[r]) ELSE from_slot_base(w, base, v),
       from_const(w, Positions))
AddRows(w, out, base, x, y, cin) ==
  Emit(w, out, base, CARRY_BITS_PER_ADD, Kept(w, xor_words(w, x, cin)), Kept(w, xor_words(w, y, cin)))
Both(w, base, x, y) == from_slot_base(w, base, IF Symbolic(w) THEN {} ELSE x \cap y)

Execute(w, vals, op, r, x, n, m) ==
  LET to(v, out) == [reg |-> [m.reg EXCEPT ![r] = v], out |-> out]
  IN  CASE op = "input" -> to(from_slot_base(w, n, vals[r]), InputRows(w, m.out, r, n, vals[r]))
        [] op = "const" -> to(from_const(w, n), m.out)
        [] op = "move" -> to(x[1], m.out)
        [] op = "xor" -> to(xor_words(w, x[1], x[2]), m.out)
        [] op = "rotr" -> to(rotr(w, x[1], n), m.out)
        [] op = "shr" -> to(shr(w, x[1], n), m.out)
        [] op = "lin" -> to(from_slot_base(w, n, x[1]), Emit(w, m.out, n, WORD_BITS, x[1], from_const(w, Positions)))
        [] op = "and" -> to(Both(w, n, x[1], x[2]), Emit(w, m.out, n, WORD_BITS, x[1], x[2]))
        [] OTHER -> Given(CarriesIn(w, x[1], x[2], n), LAMBDA cin :
                      to(add_sum(w, x[1], x[2], cin), AddRows(w, m.out, n, x[1], x[2], cin)))

\* The instructions lo to hi of a program, halved so that runs stay shallow.
RECURSIVE Run(_, _, _, _, _, _)
Run(w, vals, program, lo, hi, m) ==
  IF lo < hi
  THEN Given(Run(w, vals, program, lo, (lo + hi) \div 2, m), LAMBDA half :
         Run(w, vals, program, ((lo + hi) \div 2) + 1, hi, half))
  ELSE Given(program[lo], LAMBDA ins :
         Strict(Execute(w, vals, ins[1], ins[2], Strict([j \in DOMAIN ins[3] |-> m.reg[ins[3][j]]]), ins[4], m)))
Walk(w, vals, registers, program) ==
  Run(w, vals, program, 1, Len(program), [reg |-> [r \in registers |-> {}], out |-> Nothing(w)]).out

Builder(mode, one) == [mode |-> mode, one |-> one, pins |-> <<>>]
Pinned(one, pins) == [mode |-> "rows", one |-> one, pins |-> pins]
Scatterer(one, k, alpha, eq) == [mode |-> "scatter", one |-> one, pins |-> <<>>, k |-> k, alpha |-> alpha, eq |-> eq]

-----------------------------------------------------------------------------
(* From the blocks built by a circuit to the vectors of a proof: packed block     *)
(* after block or one packed element of every block after the other, with the     *)
(* stripe the lincheck reads, padding blocks and the randomizers of a block. A     *)
(* packed vector is the set of its bits that are one, a stripe the set of <<byte, *)
(* bit>> that are one.                                                            *)

CHUNK == 2 * MACHINE_BITS
min_n_blocks_log(n) == CHOOSE k \in 0 .. n + BM_V : 2 ^ k >= n /\ 2 ^ k >= BM_V /\ \A j \in 0 .. k - 1 : 2 ^ j < n \/ 2 ^ j < BM_V
Empty == [z |-> {}, a |-> {}, b |-> {}]

\* The rows of a block's matrices with the randomizers': z = a in one section, z = b in
\* the other, the other side being one.
build_matrices_zk(rows, one, layout) ==
  Strict([s \in a_bits(layout) |-> <<{s}, {one}>>] @@ Strict([s \in b_bits(layout) |-> <<{one}, {s}>>] @@ rows))

\* A section is filled from the words of rand that follow those already used.
Fill(block, rand, from, base, n, a_type) ==
  LET section == base .. base + n - 1
      bits == {base + i - from : i \in rand \cap (from .. from + n - 1)}
      set(x) == (x \ section) \cup bits
  IN  IF a_type THEN [z |-> set(block.z), a |-> set(block.a), b |-> block.b \cup section]
      ELSE [z |-> set(block.z), a |-> block.a \cup section, b |-> set(block.b)]
write_zk_randomizers(l, rand, block) ==
  Given(Fill(Fill(block, rand, 0, l.rand_bit_base, 128 * l.chunks_a, TRUE),
             rand, 128 * l.chunks_a, l.rand_bit_base + 128 * l.chunks_a, 128 * l.chunks_b, FALSE), LAMBDA filled :
    IF l.mask_pair_bit_base = <<>> THEN filled
    ELSE Fill(filled, rand, 128 * (l.chunks_a + l.chunks_b), l.mask_pair_bit_base[1], 2 ^ (l.mask_region_log + 1), TRUE))

\* The block in slot o: built, or padding, with randomizers if there are any.
SlotBlock(built, padding, zk, o) ==
  Given(IF o <= Len(built) - 1 THEN built[o + 1] ELSE IF padding # <<>> THEN padding[1] ELSE Empty, LAMBDA block :
    IF zk = <<>> THEN block ELSE write_zk_randomizers(zk[1].layout, zk[1].rand[o], block))
RowMajor(k, blocks, part) == UNION {{o * k + s : s \in blocks[o][part]} : o \in DOMAIN blocks}
Stripe(k, blocks) ==
  UNION {{<<(o \div BM_V) * k + s, o % BM_V>> : s \in blocks[o].z} : o \in DOMAIN blocks}
drive_witness_packed_and_lincheck_zk(k_log, built, padding, n_blocks_log, zk) ==
  Given(Strict([o \in 0 .. 2 ^ n_blocks_log - 1 |-> SlotBlock(built, padding, zk, o)]), LAMBDA blocks :
    [z |-> RowMajor(2 ^ k_log, blocks, "z"), a |-> RowMajor(2 ^ k_log, blocks, "a"), b |-> RowMajor(2 ^ k_log, blocks, "b"),
     stripe |-> Stripe(2 ^ k_log, blocks)])
drive_witness_packed_and_lincheck(k_log, built, padding, n_blocks_log) ==
  drive_witness_packed_and_lincheck_zk(k_log, built, padding, n_blocks_log, <<>>)
\* The bits of the blocks given, with nothing in the slots after them.
generate_witness_bits(k_log, bits) == UNION {{(i - 1) * 2 ^ k_log + s : s \in bits[i]} : i \in DOMAIN bits}

-----------------------------------------------------------------------------
(* Element after element of all the blocks. A worker builds BM_V blocks at a time *)
(* in rows it uses again, of which it clears the useful words, and stores the     *)
(* useful elements in memory that holds what was there before; the elements after *)
(* are cleared.                                                                   *)

UsefulWords(useful, unit) == DivCeil(useful, unit) * unit
PaddedBlock(built, padding, o) == IF o <= Len(built) - 1 THEN built[o + 1] ELSE padding
WorkerRows(built, padding, useful, part, groups) ==
  LET rows[g \in 0 .. groups] ==
        IF g = 0 THEN [j \in 0 .. BM_V - 1 |-> {}]
        ELSE Strict([j \in 0 .. BM_V - 1 |->
                       {s \in rows[g - 1][j] : s >= UsefulWords(useful, MACHINE_BITS)}
                         \cup PaddedBlock(built, padding, (g - 1) * BM_V + j)[part]])
  IN  rows[groups]
flush_rows_nt(rows, g, n, useful) ==
  UNION {{(((s \div CHUNK) * n) + (g * BM_V + j)) * CHUNK + (s % CHUNK)
          : s \in {t \in rows[j] : t < UsefulWords(useful, CHUNK)}} : j \in DOMAIN rows}
stripe_from_rows(rows, g, k, useful) ==
  UNION {{<<g * k + s, j>> : s \in {t \in rows[j] : t < UsefulWords(useful, MACHINE_BITS)}} : j \in DOMAIN rows}
\* The memory is taken as it is up to the last useful element, a group overwrites its own.
TakenBits(n, useful) == 0 .. n * UsefulWords(useful, CHUNK) - 1
GroupSlots(g, n, useful) ==
  {(c * n + (g * BM_V + j)) * CHUNK + i : c \in 0 .. DivCeil(useful, CHUNK) - 1, j \in 0 .. BM_V - 1, i \in 0 .. CHUNK - 1}
BatchVector(built, padding, n, useful, part) ==
  (TakenBits(n, useful) \ UNION {GroupSlots(g, n, useful) : g \in 0 .. (n \div BM_V) - 1})
    \cup UNION {flush_rows_nt(WorkerRows(built, padding, useful, part, g + 1), g, n, useful) : g \in 0 .. (n \div BM_V) - 1}
drive_witness_batch_major(k_log, built, padding, n_blocks_log, useful) ==
  Given(2 ^ n_blocks_log, LAMBDA n :
    [z |-> BatchVector(built, padding, n, useful, "z"), a |-> BatchVector(built, padding, n, useful, "a"),
     b |-> BatchVector(built, padding, n, useful, "b"),
     stripe |-> UNION {stripe_from_rows(WorkerRows(built, padding, useful, "z", g + 1), g, 2 ^ k_log, useful)
                       : g \in 0 .. (n \div BM_V) - 1}])

-----------------------------------------------------------------------------
(* What a statement about 2^n_blocks_log blocks of one circuit fixes.             *)

NoPin == 2 ^ 20
build_block_r1cs_with_matrices_any_outer(n_blocks_log, k_log, useful, rows, const_pin) ==
  [m |-> k_log + n_blocks_log, k_log |-> k_log, useful_bits |-> useful, rows |-> rows, const_pin |-> const_pin,
   ok |-> useful <= 2 ^ k_log]
build_block_r1cs_with_matrices(n_blocks_log, k_log, useful, rows, const_pin) ==
  [build_block_r1cs_with_matrices_any_outer(n_blocks_log, k_log, useful, rows, const_pin)
     EXCEPT !.ok = @ /\ 2 ^ n_blocks_log >= BM_V]
build_block_r1cs_empty_stub(n_blocks_log, k_log, useful) ==
  build_block_r1cs_with_matrices(n_blocks_log, k_log, useful, <<>>, NoPin)
=============================================================================
