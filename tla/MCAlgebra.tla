----------------------------- MODULE MCAlgebra ------------------------------
(* The inputs of the calls of the arithmetic, small enough to compare every      *)
(* result with its reference.                                                    *)
EXTENDS MCField, FieldCalls, CodeCalls, BlockLinks, InnerProofs

MCSchedule == [sub |-> 2, threads |-> 1, floor |-> 2, least |-> 1]
MCProfileRate == [fast |-> 1, slim |-> 2]
\* The hash of the small circuit: the digest is the message.
MCDigest(message) == message

LOCAL Element(n) == [lo |-> {j \in 0 .. 2 : (n \div 2 ^ j) % 2 = 1},
                     hi |-> {j \in 0 .. 2 : (n \div 2 ^ (j + 3)) % 2 = 1}]
MCNarrowPairs == {<<Element(n), Element(m)>> : n \in 0 .. 63, m \in {0, 1, 2, 9, 36, 43, 56, 63}}
LOCAL Spread(k, r) == {j \in 0 .. 63 : (k * j) % 7 \in r}
LOCAL WideElement(k) == [lo |-> Spread(k, {0, 3, 5}), hi |-> Spread(k + 2, {1, 2}) \cup {63}]
MCWidePairs == {<<WideElement(k), WideElement(k + 1)>> : k \in 1 .. 4}
MCLaneVectors == {[i \in 1 .. 8 |-> Element((n * i * i + 5 * i) % 64)] : n \in 0 .. 19}

LOCAL Data(n, k) == [i \in 0 .. n - 1 |-> (k * (i + 1) * (i + 2) + i) % 16]
MCMessages ==
  {[log |-> k, start |-> s, lanes |-> m, data |-> Data(2 ^ (k - s) * m, c)] :
     <<k, s>> \in {p \in (1 .. 4) \X (0 .. 2) : p[2] <= p[1]}, m \in {1, 2}, c \in 0 .. 2}
MCCosetVectors ==
  {[log |-> k, offset |-> o * 2 ^ k, data |-> Unit(2 ^ k, j)] : k \in 0 .. 3, o \in 0 .. 1, j \in 0 .. 7}
MCBitRows == {Unit(8, j) : j \in 0 .. 7} \cup
             {[i \in 0 .. 7 |-> Bit(n, i)] : n \in {0, 3, 91, 172, 255}}

MCCodeShapes ==
  {[logical |-> l, padding |-> p, queries |-> q, code |-> n] :
     l \in 0 .. 2, p \in 0 .. 2, q \in 0 .. 3, n \in {4, 6, 8}}
  \cup {[logical |-> 62, padding |-> 2, queries |-> 1, code |-> 8]}
MCCodePairs ==
  {[p |-> [message_length |-> m, code_length |-> n], a |-> Data(m, c), b |-> Data(m, c + 3)] :
     <<m, n>> \in {<<1, 4>>, <<2, 4>>, <<2, 8>>, <<3, 8>>, <<4, 8>>}, c \in 1 .. 4}
MCCommits ==
  {[p |-> NewParams(2 + k, b, f, TRUE), z |-> Data(2 ^ k, s), seed |-> s, errors |-> e] :
     <<k, b, f>> \in {<<1, 0, "fast">>, <<1, 1, "fast">>, <<2, 1, "fast">>, <<1, 0, "slim">>, <<0, 0, "slim">>},
     s \in {3, 5}, e \in {{}, {0}, {3}, {0, 1}, {1, 2, 3}}}
\* One tree recorded whole, backwards, alone, with its leaves repeated, or with leaves of
\* another tree before or after it: some, as many as may be wrong, more, and all.
MCRecords ==
  LET small == NewParams(2, 0, "slim", TRUE)
      dense == NewParams(3, 0, "fast", TRUE)
      large == NewParams(3, 0, "slim", TRUE)
      z(p) == LET n == 2 ^ witness_log_msg_len(p) IN <<Data(n, 3), Data(n, 5)>>
      whole(p, t) == [i \in 1 .. n_positions(p) |-> <<t, n_positions(p) - i>>]
      some(t, k, step) == [i \in 1 .. k |-> <<t, (i - 1) * step>>]
      Orders(p, t, k, step) ==
        {some(3 - t, k, step) \o whole(p, t), whole(p, t) \o some(3 - t, k, step)}
      Of(p, t, orders) ==
        {[p |-> p, z |-> z(p), digests |-> <<message_at(z(p)[t], 0, 2, 1, 2)>>, order |-> o] : o \in orders}
  IN  UNION {Of(p, t, Orders(p, t, k, 1)) : p \in {small, dense}, t \in 1 .. 2, k \in {0, 1, 3, 4, 8}}
      \cup UNION {Of(large, 1, Orders(large, 1, k, 2)) : k \in {2, 6, 7}}
      \cup Of(small, 1, {whole(small, 1) \o whole(small, 1), Tail(whole(small, 1)),
                         Tail(whole(small, 1)) \o some(2, 8, 1)})
MCForkScripts ==
  LET Ops == [kind : {"fork"}, rng : 1 .. 2, arg : {"a", "b"}] \cup
             [kind : {"elements"}, rng : 1 .. 3, arg : {1}] \cup [kind : {"word"}, rng : 1 .. 2, arg : {1}]
      Reads == <<[kind |-> "elements", rng |-> 1, arg |-> 2], [kind |-> "elements", rng |-> 2, arg |-> 2],
                 [kind |-> "elements", rng |-> 3, arg |-> 2]>>
  IN  {s \o Reads : s \in [1 .. 3 -> Ops]}
MCLayouts ==
  {[k_log |-> k, useful |-> u, region |-> r,
    cfg |-> [rand_chunks_a |-> a, rand_chunks_b |-> 1, chain_mask |-> c]] :
     k \in {10, 11}, u \in {1, 128, 600}, r \in {5, 8}, a \in 1 .. 2, c \in BOOLEAN}
  \cup {[k_log |-> 14, useful |-> 9000, region |-> 8, cfg |-> sized_for(m, 14, TRUE)] : m \in {20, 24}}

-----------------------------------------------------------------------------
(* Openings: witnesses of one to thirty-two elements, dense and in blocks with     *)
(* unused bits at the end; points with and without zeros; claims that bring their   *)
(* rows; and batches with one false claim.                                        *)
LOCAL Point(n, k, zeros) == Strict([i \in 0 .. n - 1 |-> IF i \in zeros THEN 0 ELSE 2 + ((k * (i + 1) + (i * i)) % 13)])
LOCAL Dense(n) == [k_log |-> LOG_PACKING + n, useful |-> 2 ^ (LOG_PACKING + n)]
LOCAL Witness(n, padding, k) ==
  LET Used(i) == Smaller(Minus(padding.useful, (i * 4) % 2 ^ padding.k_log), 4)
  IN  Strict([i \in 0 .. 2 ^ n - 1 |-> ((k * (i + 1) * (i + 2) + 5 * i + 3) % 16) % 2 ^ Used(i)])
LOCAL RowFold(n, padding, k, zeros) ==
  [z |-> Witness(n, padding, k), x |-> Point(n + 1, k, zeros), padding |-> padding,
   weights |-> Point(4, k + 2, {}), scalar |-> (3 * k + n) % 16, query |-> Point(n, k + 5, {1})]
LOCAL AllRowFolds ==
  {RowFold(n, Dense(n), k, zeros) : n \in 0 .. 4, k \in {3, 7}, zeros \in {{}, {1, 2}, {1, 3, 4}}}
  \cup {RowFold(n, [k_log |-> 6, useful |-> u], 5, {2}) : n \in 4 .. 5, u \in {1, 32, 33, 60}}
MCRowFolds == AllRowFolds
MCSmallChal == <<1>>
MCQStarWords == <<>>

LOCAL Tape(k) == [i \in 0 .. 31 |-> 1 + ((k * (i + 1) * (i + 4) + i) % 15)]
\* The rows of a claim from the witness' bits folded over its two halves.
LOCAL Brought(n, z, x) ==
  Given(build_eq(Slice(x, n, 1)), LAMBDA upper :
    <<s_hat_v_from_z_vec([j \in 0 .. 2 ^ (n + 1) - 1 |->
        Total(2, LAMBDA h : upper[h] ** Bit(z[(h * 2 ^ (n - 1)) + (j \div 4)], j % 4))], Slice(x, 1, n - 1))>>)
LOCAL Rs(n, z, k, zeros, brings, delta) ==
  Given(Point(n + 1, k, zeros), LAMBDA x :
    [x |-> x, z_skip |-> k % 16, claim |-> BitsAt(z, k % 16, x) ++ delta, pre |-> IF brings THEN Brought(n, z, x) ELSE <<>>])
LOCAL Pd(n, z, k, zeros, sparse, delta) ==
  Given(Point(n, k, zeros), LAMBDA point :
    [point |-> point, value |-> evaluate(IndOf(point, sparse), z) ++ delta, ind |-> IndOf(point, sparse)])
LOCAL Pl(n, z, k, delta) ==
  Given(Witness(n, Dense(n), k), LAMBDA basis : [basis |-> basis, value |-> Dot(z, basis) ++ delta])
LOCAL Batch(n, z, kind, off) ==
  CASE kind = "bits" -> [rs |-> <<Rs(n, z, 5, {}, FALSE, off[1])>>, pd |-> <<>>, pl |-> <<>>]
    [] kind = "two" -> [rs |-> <<Rs(n, z, 5, {}, FALSE, 0), Rs(n, z, 6, {2}, FALSE, off[1])>>, pd |-> <<Pd(n, z, 4, {0, 1}, TRUE, off[2])>>, pl |-> <<>>]
    [] kind = "three" -> [rs |-> <<Rs(n, z, 3, {}, TRUE, 0), Rs(n, z, 8, {1, 2, 3}, FALSE, off[1]), Rs(n, z, 9, {0}, FALSE, 0)>>,
                          pd |-> <<Pd(n, z, 4, {}, FALSE, off[2]), Pd(n, z, 9, {1}, TRUE, 0)>>, pl |-> <<Pl(n, z, 7, off[3])>>]
    [] kind = "elements" -> [rs |-> <<>>, pd |-> <<Pd(n, z, 3, {0}, TRUE, off[2]), Pd(n, z, 6, {}, FALSE, 0)>>, pl |-> <<Pl(n, z, 2, off[3])>>]
LOCAL Opening(n, padding, zk, kind, off, k) ==
  Given(Witness(n, padding, k), LAMBDA z :
    Given(Batch(n, z, kind, off), LAMBDA batch :
      [z |-> z, zk |-> zk, challenge |-> 7, mask |-> Point(2 ^ n, 4, {}), blind |-> Point(2 ^ (n + 1), 11, {2}),
       rs |-> batch.rs, pd |-> batch.pd, pl |-> batch.pl, padding |-> padding, tape |-> Tape(k)]))
LOCAL AllOpenings ==
  {Opening(n, Dense(n), zk, kind, <<0, 0, 0>>, 3) :
     n \in 1 .. 4, zk \in {"plain", "blinded", "preblinded"}, kind \in {"bits", "two", "three", "elements"}}
  \cup {Opening(4, [k_log |-> 6, useful |-> u], zk, "two", <<0, 0, 0>>, 5) : u \in {32, 33}, zk \in {"plain", "blinded"}}
  \cup {Opening(n, Dense(n), zk, "three", off, 7) :
     n \in 2 .. 3, zk \in {"plain", "blinded"}, off \in {<<1, 0, 0>>, <<0, 6, 0>>, <<0, 0, 9>>}}
MCOpenings == AllOpenings

-----------------------------------------------------------------------------
(* Links: one to eight instances of one to four slots, in both layouts, whole or    *)
(* with one word changed, messages whole, altered or missing; vectors that are       *)
(* permutations or nearly, with tapes that hold excluded challenges; and columns      *)
(* with empty ones among them.                                                     *)
LOCAL Committed(layout, wl, instances, word(_, _)) ==
  LET words == BlockWords(layout)
  IN  Strict([x \in 0 .. (words * instances) - 1 |->
        IF wl = "RowMajor" THEN word(x \div words, x % words) ELSE word(x % instances, x \div instances)])
LOCAL Noise(i, w) == ((i * i) + (3 * w) + (i * w) + 6) % 16
LOCAL Message(n, k) == Strict([x \in 0 .. n - 1 |-> ((k * (x + 1) * (x + 4)) + x + 2) % 16])
LOCAL RegionBits(bits, k) == Strict([b \in 0 .. bits - 1 |-> ((k * b) + (b \div 2) + k) % 2])
LOCAL Untouched == [round |-> 0, by |-> <<0, 0, 0>>, cut |-> 0]
LOCAL WithMessage(k, by) == [round |-> k, by |-> by, cut |-> 0]
LOCAL Deliveries == {Untouched, WithMessage(1, <<3, 0, 0>>), WithMessage(2, <<0, 5, 0>>), WithMessage(2, <<7, 1, 12>>), [Untouched EXCEPT !.cut = 1]}

LOCAL Slot(k_log, region_log, bits, off) == [k_log |-> k_log, region_log |-> region_log, region_bits |-> bits, output_byte_off |-> off]
LOCAL Statement(layout, n_log, k, padding, bits) ==
  [layout |-> layout, n_log |-> n_log, digests |-> [i \in 1 .. k |-> RegionBits(bits, i)], padding |-> padding,
   padding_bits |-> RegionBits(bits, 7 + n_log)]
LOCAL Statements ==
  {Statement(layout, n, k, padding, layout.region_bits) :
     layout \in {Slot(4, 3, 8, 4), Slot(4, 3, 6, 4), Slot(4, 2, 4, 6), Slot(3, 3, 8, 0)},
     <<n, k>> \in {<<0, 1>>, <<1, 0>>, <<2, 3>>, <<1, 3>>}, padding \in {"Zero", "Constant"}}
  \cup {Statement(layout, 1, 1, "Constant", 8) : layout \in {Slot(4, 3, 8, 1), Slot(3, 3, 8, 4), Slot(4, 3, 6, 4), Slot(2, 3, 8, 0), Slot(4, 1, 2, 0)}}
  \cup {[Statement(Slot(4, 3, 8, 4), 2, 1, "Constant", 8) EXCEPT !.padding_bits = RegionBits(8, k)] : k \in {1, 2, 3, 4}}
\* What is committed: the statement's digests in their slot, or not.
LOCAL DigestInput(stmt, wl, good, s) ==
  LET words == 2 ^ Minus(stmt.layout.region_log, LOG_PACKING)
      layout == IF StatementIsValid(stmt) THEN stmt.layout ELSE Slot(4, 3, 8, 0)
      Word(i, w) == IF good /\ w \div words = slot_index(layout) THEN PublicWord(region_of(stmt, i), w % words) ELSE Noise(i, w)
  IN  [stmt |-> stmt, wl |-> wl, packed |-> Committed(layout, wl, 2 ^ stmt.n_log, Word), tape |-> Tape(s)]
LOCAL AllDigests == {DigestInput(stmt, wl, good, 3) : stmt \in Statements, wl \in {"RowMajor", "BatchMajor"}, good \in BOOLEAN}
MCDigests == AllDigests

LOCAL ChainInput(k_log, region_log, wl, n, broken, change, s) ==
  LET layout == [k_log |-> k_log, region_log |-> region_log, input_byte_off |-> 0, output_byte_off |-> 2 ^ region_log \div ByteBits]
      words == 2 ^ (region_log - LOG_PACKING)
      State(i) == Message(words, i + 3)
      Word(i, w) == (IF w < 2 * words THEN State(i + (w \div words))[w % words] ELSE Noise(i, w)) ++ (IF <<i, w>> = broken THEN 9 ELSE 0)
  IN  [layout |-> layout, wl |-> wl, packed |-> Committed(layout, wl, 2 ^ n, Word), x0 |-> unpack_witness(State(0)),
       xlast |-> unpack_witness(State(2 ^ n)), change |-> change, tape |-> Tape(s)]
LOCAL AllChains ==
  {ChainInput(4, 3, wl, n, <<>>, change, 3) : wl \in {"RowMajor", "BatchMajor"}, n \in 1 .. 3, change \in Deliveries}
  \cup {ChainInput(3, 2, wl, n, broken, Untouched, 5) : wl \in {"RowMajor", "BatchMajor"}, n \in 0 .. 3, broken \in {<<>>, <<0, 0>>, <<0, 1>>}}
  \cup {ChainInput(5, 3, "BatchMajor", 2, broken, change, 7) : broken \in {<<3, 3>>, <<2, 2>>, <<1, 5>>}, change \in {Untouched, WithMessage(1, <<1, 0, 0>>), WithMessage(3, <<0, 2, 0>>)}}
  \cup {ChainInput(3, 2, "RowMajor", 1, <<1, 1>>, WithMessage(1, <<x, 0, 0>>), 9) : x \in 0 .. 15}
MCChains == AllChains

LOCAL PathInput(k_log, region_log, slots, wl, n, path_log, broken, change, s) ==
  LET layout == [k_log |-> k_log, region_log |-> region_log, slots |-> slots, slot_base_byte_off |-> 0]
      words == 2 ^ (region_log - LOG_PACKING)
      L == 2 ^ (n - path_log)
      bits == Strict([y \in 0 .. 2 ^ n - 1 |-> ((y * y) + (y \div 2) + s) % 2])
      Node(y) == IF y % L = L - 1 THEN Message(words, 1) ELSE Message(words, y + 4)
      Leaf(p) == Message(words, p + 11)
      Into(y) == IF y % L = 0 THEN Leaf(y \div L) ELSE Node(y - 1)
      Taken(y) == IF bits[y] = 1 /\ y % L # 0 THEN slots.r ELSE slots.l
      Word(y, w) == (IF w \div words = slots.z THEN Node(y)[w % words] ELSE IF w \div words = Taken(y) THEN Into(y)[w % words] ELSE Noise(y, w))
                      ++ (IF <<y, w>> = broken THEN 9 ELSE 0)
  IN  [layout |-> layout, wl |-> wl, packed |-> Committed(layout, wl, 2 ^ n, Word), path_log |-> path_log, bits |-> bits,
       leaves |-> [p \in 0 .. 2 ^ path_log - 1 |-> unpack_witness(Leaf(p))], root |-> unpack_witness(Message(words, 1)), change |-> change, tape |-> Tape(s)]
LOCAL LeftFirst == [z |-> 2, l |-> 0, r |-> 1]
LOCAL OutFirst == [z |-> 0, l |-> 3, r |-> 2]
LOCAL AllPaths ==
  {PathInput(5, 3, LeftFirst, wl, np[1], np[2], <<>>, change, 3) :
     wl \in {"RowMajor", "BatchMajor"}, np \in {<<2, 0>>, <<2, 1>>, <<3, 1>>}, change \in Deliveries}
  \cup {PathInput(4, 2, slots, "RowMajor", np[1], np[2], broken, Untouched, 4) :
          slots \in {LeftFirst, OutFirst}, np \in {<<0, 0>>, <<1, 1>>, <<2, 0>>, <<3, 2>>}, broken \in {<<>>, <<0, 0>>, <<1, 2>>, <<2, 1>>}}
  \cup {PathInput(5, 2, OutFirst, "BatchMajor", 2, 1, <<1, 0>>, WithMessage(k, by), 5) : k \in {1, 4}, by \in {<<1, 2, 3>>, <<0, 0, 8>>}}
MCPaths == AllPaths

LOCAL PermutationInput(mu, k, off, change, product, tape) ==
  LET sigma == Strict([x \in 0 .. 2 ^ mu - 1 |-> ((2 * k + 1) * x + k) % 2 ^ mu])
      f == Message(2 ^ mu, k + 2)
  IN  [f |-> f, g |-> Strict([x \in DOMAIN f |-> f[sigma[x]] ++ (IF x = 0 THEN off[1] ELSE IF x = 1 THEN off[2] ELSE 0)]), sigma |-> sigma,
       change |-> change, product |-> product, tape |-> tape]
LOCAL Excluding == [Tape(3) EXCEPT ![3] = 1]
LOCAL AllPermutations ==
  {PermutationInput(mu, k, off, Untouched, 0, Tape(s)) : mu \in 1 .. 3, k \in 1 .. 2, off \in {<<0, 0>>, <<4, 0>>, <<2, 8>>}, s \in {3, 4, 9}}
  \cup {PermutationInput(mu, 1, <<0, 0>>, change, 0, Tape(4)) : mu \in 2 .. 3, change \in Deliveries \ {[Untouched EXCEPT !.cut = 1]}}
  \cup {PermutationInput(2, 2, <<4, 0>>, Untouched, product, tape) : product \in {0, 1, 6}, tape \in {Tape(11), Excluding}}
  \cup {PermutationInput(1, 1, <<0, 0>>, WithMessage(1, <<x, y, 0>>), 0, Tape(4)) : x \in 0 .. 3, y \in 0 .. 7}
MCPermutations == AllPermutations

LOCAL JaggedInput(heights, n, m, more, change, s) ==
  LET used == from_heights(heights)[Len(heights)]
  IN  [heights |-> heights, n |-> n, m |-> m, q |-> Strict([i \in 0 .. 2 ^ m - 1 |-> IF i < used THEN Message(2 ^ m, s)[i] ELSE 0]),
       z_row |-> Point(n, s, {}), z_col |-> Point(Log2(Len(heights)), s + 4, {1}), more |-> more, change |-> change, tape |-> Tape(s)]
LOCAL AllJagged ==
  {JaggedInput(h[1], h[2], h[3], more, Untouched, s) : more \in {0, 6}, s \in {2, 3},
     h \in {<<<<1>>, 0, 0>>, <<<<0>>, 1, 1>>, <<<<2, 1>>, 2, 2>>, <<<<0, 4>>, 3, 2>>, <<<<3, 0, 2, 1>>, 2, 3>>, <<<<0, 0, 5, 3>>, 3, 3>>, <<<<1, 0, 0, 4>>, 2, 3>>}}
  \cup {JaggedInput(<<3, 0, 2, 1>>, 2, 3, 0, change, 3) : change \in Deliveries}
  \cup {JaggedInput(<<4, 2>>, 2, 3, x, WithMessage(2, <<1, 0, 0>>), 5) : x \in 0 .. 15}
MCJaggedTables == AllJagged

-----------------------------------------------------------------------------
(* Circuits with one to four inputs, one or two queries, and tapes that begin with *)
(* the values the challenges exclude or with the zeros they do not.               *)
LOCAL Challenges(prefix, s) ==
  [i \in 0 .. 47 |-> IF i < Len(prefix) THEN prefix[i + 1] ELSE (s * (i + 1) * (i + 3) + 7 * i) % 251]
LOCAL Free == new_circuit(1)
LOCAL Sum(i, j, value) == add(add(variable(i), variable(j)), constant(value))
LOCAL OneGate == assert_zero(assert_mul(new_circuit(3), variable(0), variable(1), variable(2)), Sum(0, 1, 5))
LOCAL TwoGates ==
  assert_zero(assert_zero(assert_mul(assert_mul(new_circuit(4), variable(0), variable(1), variable(2)),
                add(variable(2), constant(1)), scale(variable(0), 3), variable(3)), constant(0)), Sum(0, 1, 5))
LOCAL Built == assert_mul(mul(mul(new_circuit(2), variable(0), variable(1)), variable(2), Sum(0, 1, 1)),
                          variable(0), variable(1), variable(2))
LOCAL Satisfying(n, x) ==
  LET y == x ++ 5
      z == x ** y
  IN  Slice([i \in 0 .. 3 |-> <<x, y, z, (z ++ 1) ** (3 ** x)>>[i + 1]], 0, n)
LOCAL Random(n, g, pad, s) ==
  LET Values(k, from) == [i \in 0 .. k - 1 |-> (s * (from + i) * (from + i + 2) + 11) % 256]
      Rows(width, from) == [i \in 0 .. pad - 1 |-> Values(width, from + 8 * i)]
      square == 2 * next_power_of_two(g + 2 + pad) - 1
  IN  [dummies |-> [r |-> (29 * s) % 256, s |-> (57 * s) % 256, t |-> 113],
       linear |-> [mask |-> Values(n + 6, 3), padding |-> Rows(2, 5)],
       hadamard |-> [mask |-> Values(g + 2, 4), padding |-> Rows(4, 6), product |-> Values(square, 9)]]
LOCAL Constraint(circuit, inputs, others, pad, cheats, prefix, s) ==
  [circuit |-> circuit, inputs |-> inputs, others |-> others, cheats |-> cheats,
   parameters |-> [linear_padding |-> pad, hadamard_padding |-> pad, inverse_rate |-> 2],
   random |-> Random(circuit.num_inputs, Len(circuit.multiplications), pad, s), tape |-> Challenges(prefix, s)]
LOCAL Prefixes == {<<>>, <<1, 0, 9, 0, 0, 6, 0>>, <<77, 0, 1>>, <<200, 16, 0, 0, 1>>}
LOCAL AllConstraints ==
  {Constraint(Free, Satisfying(1, 40), {Satisfying(1, 0), Satisfying(1, 201)}, 1, "no", prefix, 5) : prefix \in Prefixes}
  \cup {Constraint(OneGate, Satisfying(3, 40), {Satisfying(3, 7)}, 1, "no", prefix, 3) : prefix \in Prefixes}
  \cup {Constraint(TwoGates, Satisfying(4, 17), {Satisfying(4, 254)}, 2, "no", prefix, 9) : prefix \in Prefixes}
  \cup {Constraint(circuit, [Satisfying(4, 17) EXCEPT ![i] = @ ++ 1], {}, 2, cheats, prefix, 9) :
          circuit \in {TwoGates}, i \in 0 .. 3, cheats \in {"no", "witness", "products"}, prefix \in Prefixes}
  \cup {Constraint(Built, Satisfying(2, 7), {}, 1, "no", <<>>, 9)}
MCConstraints == AllConstraints
LOCAL AllDots ==
  {[vectors |-> [i \in 0 .. k - 1 |-> Data(5, i + 2)], dot |-> Data(5, 4), p |-> with_security(5, k, 2, 2).value,
    random |-> [mask |-> Data(5, 9), padding |-> [i \in 0 .. 1 |-> Data(k + 1, i + 5)]], tape |-> Challenges(<<0>>, s)] :
     k \in 1 .. 3, s \in {3, 4}}
MCDots == AllDots

Init == FieldOpen \/ TransformOpen \/ CodeOpen \/ OpeningOpen \/ LinksOpen \/ ConstraintOpen
Next == FieldNext \/ TransformNext \/ CodeNext \/ OpeningNext \/ LinksNext \/ ConstraintNext
Spec == Init /\ [][Next]_calls
=============================================================================
