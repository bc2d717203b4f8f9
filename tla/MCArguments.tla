----------------------------- MODULE MCArguments -----------------------------
(* Statements and tapes for the arguments, at toy sizes: bytes of two bits, rows *)
(* of four, blocks of sixteen rows.                                              *)
EXTENDS MCField, HashCircuits, Zerocheck, Lincheck

LOCAL SmallChal == [i \in 0 .. N_SMALL - 1 |-> GammaPower(i) ** Inv(1 ++ GammaPower(i))]
LOCAL Cs == Prod(N_SMALL, LAMBDA i : Inv(1 ++ GammaPower(i)))
MCSmallChal == SmallChal
MCCs == Cs
LOCAL Words == [i \in 0 .. 8 |-> IF i = 2 THEN <<0, 7>> ELSE <<(5 * i + 3) % 16, 1>>]
MCQStarWords == Words

LOCAL Bits(n, k) == Strict([i \in 0 .. n - 1 |-> (((k * (i + 1) * (i + 3)) + (i \div 3)) \div 4) % 2])
\* The first tape draws a coordinate again: its first outer coordinate is one.
LOCAL Tape(s) == [i \in 0 .. 63 |-> IF s = 7 /\ i = K_SKIP THEN 1 ELSE (s * (i + 1) * (i + 3) + (i % 7)) % 16]
LOCAL Witness(a, b, c) ==
  [w |-> [a |-> pack_bits(a), b |-> pack_bits(b), c |-> pack_bits(c)], bits |-> [a |-> a, b |-> b, c |-> c]]
LOCAL Useful(v, useful) == Strict([i \in DOMAIN v |-> IF i % 64 < useful THEN v[i] ELSE 0])
LOCAL Statement(zk, m, useful, kernel, capture, mask, flip, seed) ==
  LET a == Useful(Bits(2 ^ m, 5), useful)
      b == Useful(Bits(2 ^ m, 7), useful)
      c == Strict([i \in DOMAIN a |-> IF i = 9 /\ flip THEN 1 - (a[i] * b[i]) ELSE a[i] * b[i]])
      wb == Witness(a, b, c)
  IN  [zk |-> zk, m |-> m, w |-> wb.w, bits |-> wb.bits, good |-> ~flip,
       padding |-> IF useful = 64 THEN Dense(m) ELSE [k_log |-> 6, useful |-> useful],
       kernel |-> kernel, capture |-> capture, p_small |-> [i \in 0 .. d(m) - 1 |-> (i * 7 + 3) % 16],
       mask |-> IF mask THEN <<[c |-> pack_bits(Bits(2 ^ m, 11)), h |-> pack_bits(Bits(2 ^ m, 13))]>> ELSE <<>>,
       tape |-> Tape(seed)]
LOCAL AllStatements ==
  {Statement(FALSE, m, u, kernel, capture, FALSE, flip, 7) :
     m \in {6, 7}, u \in {64, 21}, kernel \in {"scalar", "neon", "x86"}, capture \in BOOLEAN, flip \in BOOLEAN}
  \cup {Statement(TRUE, m, u, "scalar", FALSE, mask, flip, 9) :
     m \in {6, 7}, u \in {64, 21}, mask \in BOOLEAN, flip \in BOOLEAN}
MCStatements == AllStatements
LOCAL Quartics ==
  {[factors |-> [f \in 0 .. 3 |-> Bits(64, 2 * f + s)], z |-> Bits(64, 9),
    r |-> sample_eq_point(6, new_transcript(Tape(3))).r] : s \in {1, 4}}
MCQuarticRows == Quartics

-----------------------------------------------------------------------------
(* Rotations, constants and batches for the circuits of the hashes: words of four *)
(* bits, lanes of eight, two rounds of each hash.                                 *)
LOCAL IV == [i \in 0 .. 7 |-> FromNat((5 * i + 6) % 16)]
MCB3IV == IV
LOCAL Rotations == <<2, 1, 3, 1>>
MCB3Rotations == Rotations
LOCAL Root == [flags |-> {0, 1, 3}, len |-> {2}]
MCB3Root == Root
LOCAL ZkConfig == [rand_chunks_a |-> 1, rand_chunks_b |-> 1, chain_mask |-> TRUE]
MCB3ZkConfig == ZkConfig
LOCAL Sigmas == [s0 |-> <<1, 2, 1>>, s1 |-> <<2, 3, 1>>, S0 |-> <<1, 2, 3>>, S1 |-> <<2, 3, 1>>]
MCShaRotations == Sigmas
LOCAL K256 == [r \in 0 .. N_SCHED + 15 |-> FromNat((11 * r + 5) % 16)]
MCK256 == K256
LOCAL RC == [r \in 0 .. 1 |-> IF r = 0 THEN {0, 5} ELSE {1, 3, 7}]
MCRoundConstants == RC
LOCAL WordsBy(n, k) == [i \in 0 .. n - 1 |-> FromNat((k * i + 3 * k + (i \div 3)) % 16)]
LOCAL B3Input(k) == [cv |-> WordsBy(8, k), m |-> WordsBy(16, k + 4), t |-> <<{0}, {k % 4}>>, len |-> {1, 2}, flags |-> {3}]
LOCAL B3Message(k) == [padding_compression("RootBlock") EXCEPT !.m = WordsBy(16, k)]
LOCAL ShaInput(k) == [h |-> WordsBy(8, k), m |-> WordsBy(16, k + 6)]
LOCAL KeccakInput(k) == {j \in StateBits : (j * j + k * j) % 7 < 3}
LOCAL Batch(hash, inputs, layout, pinning, rand) ==
  [hash |-> hash, inputs |-> inputs, layout |-> layout, pinning |-> pinning, rand |-> rand]
LOCAL Rand == <<[o \in 0 .. 3 |-> {j \in 0 .. rand_bits_per_block(blake3_zk_layout) - 1 : (j * (o + 3)) % 7 < 3}]>>
LOCAL AllBatches ==
  {Batch("blake3", <<B3Input(3), B3Input(5), B3Input(6)>>, l, "Free", <<>>) : l \in {"RowMajor", "BatchMajor"}}
  \cup {Batch("blake3", <<B3Message(3), B3Message(5), B3Message(6)>>, "RowMajor", "RootBlock", r) : r \in {<<>>, Rand}}
  \cup {Batch("sha2", <<ShaInput(3), ShaInput(5), ShaInput(6)>>, l, "Free", <<>>) : l \in {"RowMajor", "BatchMajor"}}
  \cup {Batch("keccak", <<KeccakInput(3), KeccakInput(5), KeccakInput(6)>>, l, "Free", <<>>) : l \in {"RowMajor", "BatchMajor"}}
  \cup {Batch("keccak3", <<KeccakInput(3), KeccakInput(5), KeccakInput(6), KeccakInput(1)>>, "RowMajor", "Free", <<>>)}
MCBatches == AllBatches
LOCAL AllCircuits ==
  [hash : {"blake3"}, pinning : {"Free", "RootBlock"}, zk : BOOLEAN]
  \cup [hash : {"sha2", "keccak", "keccak3"}, pinning : {"Free"}, zk : {FALSE}]
MCCircuits == AllCircuits
LOCAL EqWeights(n) == Strict([s \in 0 .. n - 1 |-> (s * s + 3 * s + (s \div 7)) % 16])
LOCAL AllFolds ==
  {[hash |-> "blake3", alpha |-> 6, eq |-> EqWeights(1024), inputs |-> {B3Input(3)}],
   [hash |-> "sha2", alpha |-> 6, eq |-> EqWeights(1024), inputs |-> {ShaInput(3)}],
   [hash |-> "keccak", alpha |-> 6, eq |-> EqWeights(1024), inputs |-> {KeccakInput(k) : k \in {1, 3, 5}}],
   [hash |-> "keccak3", alpha |-> 6, eq |-> EqWeights(4096), inputs |-> {KeccakInput(k) : k \in {1, 3}}]}
MCFolds == AllFolds

-----------------------------------------------------------------------------
(* Blocks of four to sixteen bits for the lincheck, swept by two columns and tiles *)
(* of two stripes; a matrix has a row of up to three columns for every place used. *)
LOCAL Host(arch, workers, iblock) == [arch |-> arch, workers |-> workers, cores |-> 2, iblock |-> iblock]
LOCAL AllHosts == {Host(arch, workers, iblock) : arch \in {"aarch64", "x86", "other"}, workers \in {1, 2, 3}, iblock \in BOOLEAN}
LOCAL SparseRows(k_log, useful, s) ==
  [n_cols |-> 2 ^ k_log,
   rows |-> [r \in 0 .. 2 ^ k_log - 1 |->
     IF r >= useful THEN <<>>
     ELSE IF r % 3 = s THEN <<(r * s + 1) % useful>> ELSE <<r, (r * r + s) % useful, (3 * r + 2) % useful>>]]
LOCAL BlockBits(m, k_log, useful, pin) ==
  Strict([i \in 0 .. 2 ^ m - 1 |->
    IF i % 2 ^ k_log >= useful THEN 0 ELSE IF <<i % 2 ^ k_log>> = pin THEN 1 ELSE ((i * i + 3 * i + (i \div 5)) \div 4) % 2])
LOCAL Lin(k_log, n_log, useful, layout, kind, pin, ones, mask, host, off, s) ==
  [m |-> k_log + n_log, k_log |-> k_log, useful |-> useful, layout |-> layout, kind |-> kind,
   a |-> SparseRows(k_log, useful, 0), b |-> SparseRows(k_log, useful, 1), pin |-> pin,
   z |-> BlockBits(k_log + n_log, k_log, useful, IF ones THEN pin ELSE <<>>),
   mask |-> IF mask THEN <<Bits(2 ^ (k_log + n_log), 11)>> ELSE <<>>, host |-> host,
   skip |-> (s * 5 + 4) % 16, mlv |-> [i \in 0 .. k_log + n_log - K_SKIP - 1 |-> (s * (i + 2) * (i + 3) + 7) % 16],
   off |-> off, tape |-> [i \in 0 .. 15 |-> (s * (i + 1) * (i + 3) + (i % 5)) % 16]]
LOCAL Exact == [a |-> 0, b |-> 0]
LOCAL AllLinchecks ==
  {Lin(2, 3, 3, "RowMajor", "rows", <<1>>, ones, FALSE, Host("aarch64", 3, FALSE), Exact, s) : ones \in BOOLEAN, s \in {3, 4}}
  \cup {Lin(k_log, n_log, 2 ^ k_log - 3, layout, "csc", <<>>, FALSE, FALSE, Host("x86", 1, FALSE), off, s) :
          k_log \in {3, 4}, n_log \in {1, 2}, layout \in {"RowMajor", "BatchMajor"},
          off \in {Exact, [a |-> 1, b |-> 0], [a |-> 3, b |-> 6]}, s \in {4, 5}}
  \cup {Lin(4, 2, useful, "RowMajor", "rows", <<5>>, ones, TRUE, Host("aarch64", 3, TRUE), Exact, s) :
          useful \in {8, 16}, ones \in BOOLEAN, s \in {3, 5}}
MCLinchecks == AllLinchecks
LOCAL FoldOf(k_log, n_log, useful, layout) ==
  [m |-> k_log + n_log, k_log |-> k_log, useful |-> useful, layout |-> layout, a |-> SparseRows(k_log, useful, 0),
   b |-> SparseRows(k_log, useful, 1), z |-> BlockBits(k_log + n_log, k_log, useful, <<>>), alpha |-> 6,
   eq |-> [i \in 0 .. 2 ^ n_log - 1 |-> (i * i + 3 * i + 2) % 16],
   weights |-> [i \in 0 .. 2 ^ k_log - 1 |-> (5 * i + (i * i) + 3) % 16], hosts |-> AllHosts]
LOCAL AllLinFolds ==
  {FoldOf(k_log, n_log, 2 ^ k_log - spare, layout) :
     k_log \in {3, 4}, n_log \in 1 .. 4, spare \in {0, 3, 4, 7}, layout \in {"RowMajor", "BatchMajor"}}
  \cup {FoldOf(1, 5, 2, "RowMajor")}
MCLinFolds == AllLinFolds

Init == ZeroOpen \/ CircuitOpen \/ LinOpen
Next == ZeroNext \/ CircuitNext \/ LinNext
Spec == Init /\ [][Next]_calls
=============================================================================
