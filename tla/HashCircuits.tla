---------------------------- MODULE HashCircuits -----------------------------
(* The circuits of the hashes as a caller meets them: the statement about a batch *)
(* of compressions, the witness of a batch in either layout, and the fold of the  *)
(* matrices that the lincheck asks for.                                           *)
EXTENDS Calls, Blake3, Sha2, Keccak

CONSTANTS Batches,    \* [hash, inputs, layout, pinning, rand: per block, or <<>>]
          Circuits,   \* [hash, pinning, zk]
          Folds       \* [hash, alpha, eq, inputs]

n_blocks_log(hash, inputs) ==
  IF hash = "keccak3" THEN keccak3_min_n_blocks_log(Len(inputs)) ELSE min_n_blocks_log(Len(inputs))
Blake3Witness(b, n_log) ==
  CASE b.layout = "BatchMajor" -> blake3_generate_witness_batch_major(b.inputs, n_log)
    [] b.rand # <<>> -> generate_witness_zk_pinned(b.inputs, n_log, b.rand[1], b.pinning)
    [] OTHER -> generate_witness_with_ab_packed_and_lincheck_pinned(b.inputs, n_log, b.pinning)
Sha2Witness(b, n_log) ==
  IF b.layout = "BatchMajor" THEN sha2_generate_witness_batch_major(b.inputs, n_log)
  ELSE sha2_generate_witness_with_ab_packed_and_lincheck(b.inputs, n_log)
KeccakWitness(b, n_log) ==
  IF b.layout = "BatchMajor" THEN keccak_generate_witness_batch_major(b.inputs, n_log)
  ELSE keccak_generate_witness_with_ab_packed_and_lincheck(b.inputs, n_log)
GenerateWitness(hash, builder(_, _)) ==
  /\ Asked("witness") /\ Input.hash = hash
  /\ \E n_log \in {n_blocks_log(hash, Input.inputs)} : \E v \in {builder(Input, n_log)} :
       result' = [n |-> 2 ^ n_log, v |-> v]

BuildR1cs ==
  /\ Asked("r1cs")
  /\ \E r \in {CASE Input.hash = "sha2" -> sha2_build_block_r1cs(2)
                 [] Input.hash = "keccak" -> keccak_build_block_r1cs(2)
                 [] Input.hash = "keccak3" -> keccak3_build_block_r1cs(2)
                 [] Input.zk -> build_block_r1cs_zk_pinned(2, Input.pinning)
                 [] Input.pinning = "Free" -> build_block_r1cs_pinned(2, Input.pinning)
                 [] OTHER -> build_block_r1cs_veil_pinned(0, Input.pinning)} :
       result' = r
FoldCircuit ==
  /\ Asked("fold")
  /\ \E comb \in {CASE Input.hash = "blake3" -> blake3_fold_alpha_batched(Input.alpha, Input.eq)
                    [] Input.hash = "sha2" -> sha2_fold_alpha_batched(Input.alpha, Input.eq)
                    [] Input.hash = "keccak" -> keccak_fold_alpha_batched(Input.alpha, Input.eq)
                    [] OTHER -> keccak3_fold_alpha_batched(Input.alpha, Input.eq)} :
       result' = [comb |-> comb]
BuildBits ==
  /\ Asked("bits")
  /\ \E z \in {IF Input.hash = "blake3" THEN blake3_generate_witness(Input.inputs) ELSE sha2_generate_witness(Input.inputs)} :
       result' = [z |-> z]

CircuitOpen ==
  \/ Pending("witness", Batches) \/ Pending("r1cs", Circuits) \/ Pending("fold", Folds)
  \/ Pending("bits", {b \in Batches : b.hash \in {"blake3", "sha2"} /\ b.layout = "RowMajor"})
CircuitNext ==
  \/ GenerateWitness("blake3", Blake3Witness)
  \/ GenerateWitness("sha2", Sha2Witness)
  \/ GenerateWitness("keccak", KeccakWitness)
  \/ GenerateWitness("keccak3", LAMBDA b, n_log : keccak3_generate_witness_with_ab_packed_and_lincheck(b.inputs, n_log))
  \/ BuildR1cs \/ FoldCircuit \/ BuildBits

-----------------------------------------------------------------------------
(* What a circuit must satisfy.                                                   *)

KLogOf(hash) ==
  CASE hash = "blake3" -> B3_K_LOG [] hash = "sha2" -> SHA_K_LOG [] hash = "keccak" -> KECCAK_K_LOG [] OTHER -> KLog(N_SUB)
OneOf(hash) ==
  CASE hash = "blake3" -> B3_ONE [] hash = "sha2" -> SHA_ONE [] hash = "keccak" -> Z_CONST [] OTHER -> const_bit(N_SUB)
Built(hash, input) ==
  CASE hash = "blake3" -> build_block_witness_ab_packed_into(input) [] hash = "sha2" -> build_block_ab_packed_into(input)
    [] hash = "keccak" -> build_chain_witness_ab_packed_into(input)
    [] OTHER -> build_sub_block_witness_into(N_SUB, SubStates(<<input>>, 0))

\* A part of block o of a vector of n, in either layout.
PartOf(b, n, v, o, part) ==
  LET k == 2 ^ KLogOf(b.hash)
  IN  {s \in 0 .. k - 1 :
         (IF b.layout = "RowMajor" THEN o * k + s ELSE ((s \div CHUNK) * n + o) * CHUNK + (s % CHUNK)) \in v[part]}
ReadWord(z, base) == {i \in Positions : base + i \in z}
\* What a block says was hashed, and to what.
Blake3Of(z) ==
  [in |-> [cv |-> [i \in 0 .. 7 |-> ReadWord(z, B3_CV(i))], m |-> [i \in 0 .. 15 |-> ReadWord(z, B3_M(i))],
           t |-> <<ReadWord(z, B3_PARAM(0)), ReadWord(z, B3_PARAM(1))>>, len |-> ReadWord(z, B3_PARAM(2)),
           flags |-> ReadWord(z, B3_PARAM(3))],
   out |-> [i \in 0 .. 15 |-> ReadWord(z, IF i < 8 THEN B3_OUT_LO(i) ELSE B3_OUT_HI(i - 8))]]
Sha2Of(z) ==
  [in |-> [h |-> [i \in 0 .. 7 |-> ReadWord(z, h_bit(i))], m |-> [i \in 0 .. 15 |-> ReadWord(z, m_bit(i))]],
   out |-> read_h_out(z)]
KeccakOf(z, i) ==
  [in |-> {s \in StateBits : sub_z_pos_state(i, 0, s) \in z}, out |-> {s \in StateBits : sub_z_pos_state(i, N_ROUNDS, s) \in z}]
InputOf(b, o, padding) == IF o <= Len(b.inputs) - 1 THEN b.inputs[o + 1] ELSE padding
Hashes(b, o, z) ==
  CASE b.hash = "blake3" -> \A h \in {Blake3Of(z)} :
         h.in = InputOf(b, o, padding_compression(b.pinning)) /\ h.out = blake3_compress(h.in)
    [] b.hash = "sha2" -> \A h \in {Sha2Of(z)} : h.in = InputOf(b, o, ZeroCompression) /\ h.out = sha256_compress(h.in)
    [] b.hash = "keccak" -> \A h \in {KeccakOf(z, 0)} : h.in = InputOf(b, o, {}) /\ h.out = keccak_f(h.in)
    [] OTHER -> \A i \in 0 .. N_SUB - 1 : \A h \in {KeccakOf(z, i)} :
         h.in = InputOf(b, o * N_SUB + i, {}) /\ h.out = keccak_f(h.in)

\* The rows of a circuit that has them; those of a batch also have its pins and randomizers.
CircuitRows(hash, pinning, zk) ==
  CASE hash = "sha2" -> sha2_build_block_r1cs(2).rows
    [] hash = "blake3" -> (IF zk THEN build_block_r1cs_zk_pinned(2, pinning) ELSE build_block_r1cs_pinned(2, pinning)).rows
    [] OTHER -> <<>>
Times(rows, z, side) == {s \in DOMAIN rows : Odd(rows[s][side] \cap z)}
Satisfied(rows, z) == Times(rows, z, 1) \cap Times(rows, z, 2) = z

\* From its inputs and the constant, row after row, a block has one value.
RECURSIVE Reached(_, _, _)
Reached(rows, known, n) ==
  IF n = 0
  THEN known \cup {s \in DOMAIN rows \ known : (rows[s][1] \cup rows[s][2]) \subseteq known}
  ELSE Given(Reached(rows, known, n - 1), LAMBDA more : IF more = known THEN more ELSE Reached(rows, more, n - 1))
InputSlots(hash) ==
  CASE hash = "blake3" -> (0 .. B3_SLOT_BITS - 1) \cup (B3_ONE .. B3_G(0) - 1)
    [] OTHER -> (0 .. SHA_SLOT_BITS - 1) \cup (m_bit(0) .. m_bit(16) - 1) \cup {SHA_ONE}
FoldOfRows(hash, rows, alpha, eq) ==
  Strict([s \in 0 .. 2 ^ KLogOf(hash) - 1 |->
    (alpha ** SumOver({r \in DOMAIN rows : s \in rows[r][1]}, eq)) ++ SumOver({r \in DOMAIN rows : s \in rows[r][2]}, eq)])
\* Blocks of other parameters than the pinned ones.
Unpinned == [padding_compression("RootBlock") EXCEPT !.t = <<{}, {0}>>]
Unchained == [padding_compression("RootBlock") EXCEPT !.cv[3] = {}]

\* Every block of a batch, padding too and in either layout, over memory nobody cleared, is a
\* satisfying assignment that says of its input what the hash does of it; the same inputs give
\* the same bits row by row and word by word; from its inputs the rows leave a block one value;
\* pinned rows refuse every other parameter; the fold of a circuit is the weighted sum of the
\* rows it may never have written.
CircuitsCompute ==
  /\ Returned("witness") =>
       LET n == result.n
           k == 2 ^ KLogOf(Input.hash)
       IN  /\ n * (IF Input.hash = "keccak3" THEN N_SUB ELSE 1) >= Len(Input.inputs) /\ n >= BM_V
           /\ \A rows \in {CircuitRows(Input.hash, Input.pinning, Input.rand # <<>>)} : \A o \in 0 .. n - 1 :
                \A z \in {PartOf(Input, n, result.v, o, "z")}, a \in {PartOf(Input, n, result.v, o, "a")},
                   b \in {PartOf(Input, n, result.v, o, "b")} :
                  /\ OneOf(Input.hash) \in z /\ z = a \cap b
                  /\ Hashes(Input, o, z)
                  /\ \A s \in 0 .. k - 1 : (<<(o \div BM_V) * k + s, o % BM_V>> \in result.v.stripe) <=> (s \in z)
                  /\ rows # <<>> => Times(rows, z, 1) = a /\ Times(rows, z, 2) = b
  /\ Returned("bits") =>
       result.z = UNION {{(i - 1) * 2 ^ KLogOf(Input.hash) + s : s \in Built(Input.hash, Input.inputs[i]).z}
                         : i \in DOMAIN Input.inputs}
  /\ Returned("r1cs") =>
       /\ result.ok /\ result.m >= result.k_log /\ DOMAIN result.rows \subseteq 0 .. result.useful_bits - 1
       /\ result.rows # <<>> /\ ~Input.zk =>
            Reached(result.rows, InputSlots(Input.hash), 10) = DOMAIN result.rows
       /\ Input.hash = "blake3" =>
            LET fill(c) == IF ~Input.zk THEN Built("blake3", c)
                           ELSE write_zk_randomizers(blake3_zk_layout, {3, 4, 130, 300, 451}, Built("blake3", c))
            IN  \A c \in {padding_compression("RootBlock"), Unpinned, Unchained} :
                  Satisfied(result.rows, fill(c).z) <=> (Input.pinning = "Free" \/ c = padding_compression("RootBlock"))
  /\ Returned("fold") =>
       /\ \A input \in Input.inputs : \A block \in {Built(Input.hash, input)} :
            SumOver(block.z, result.comb) = (Input.alpha ** SumOver(block.a, Input.eq)) ++ SumOver(block.b, Input.eq)
       /\ \A rows \in {CircuitRows(Input.hash, "Free", FALSE)} :
            rows # <<>> => result.comb = FoldOfRows(Input.hash, rows, Input.alpha, Input.eq)
=============================================================================
