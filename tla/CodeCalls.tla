------------------------------ MODULE CodeCalls ------------------------------
(* Codes and commitments, called once each: the inner code and its products, the *)
(* commitment with its mask, the extractor on what an oracle recorded, and the   *)
(* streams and rows of the randomizers.                                          *)
EXTENDS Calls, InnerCode, PcsCommit, ZkMasks, FiniteSetsExt
LOCAL INSTANCE Functions

CONSTANTS CodeShapes,     \* [logical, padding, queries, code]
          CodePairs,      \* [p: code parameters, a, b: messages]
          Commits,        \* [p: parameters, z: packed witness, seed, errors: rows to change]
          Records,        \* [p, order: the order in which two trees' leaves are recorded]
          ForkScripts,    \* sequences of operations on streams
          Layouts         \* [k_log, useful, region, cfg]

\* A stream of field elements told apart by a seed.
Drawn(seed) == [i \in 0 .. 255 |-> (seed * (i + 1) * (i + 3) + (i % 7)) % 16]
NoErrors == [pos \in {} |-> 0]

CodeOpen ==
  \/ Pending("certify", CodeShapes)
  \/ Pending("product", CodePairs)
  \/ Pending("commit", Commits)
  \/ Pending("extract", Records)
  \/ Pending("forks", ForkScripts)
  \/ Pending("layout", Layouts)

\* A certified code, and what each set of queries sees of every message over all paddings.
PaddingOf(n, length) == [i \in 0 .. length - 1 |-> (n \div 16 ^ i) % 16]
PaddedWords(s) ==
  [n \in 0 .. 16 ^ s.padding - 1 |->
     Strict(encode([message_length |-> s.logical + s.padding, code_length |-> s.code],
                   Cat([i \in 0 .. s.logical - 1 |-> 5 + i], PaddingOf(n, s.padding))).value)]
Certify ==
  /\ Asked("certify")
  /\ \E cert \in {certify_zk_code(Input.logical, Input.padding, Input.queries, Input.code)} :
       IF ~cert.ok THEN result' = cert
       ELSE \E words \in {PaddedWords(Input)} :
              result' =
                [ok |-> TRUE, cert |-> cert.value,
                 views |-> {Cardinality({[q \in Q |-> words[n][q]] : n \in DOMAIN words})
                              : Q \in kSubset(Input.queries, 0 .. Input.code - 1)},
                 weight |-> {Cardinality({i \in 0 .. Input.code - 1 : words[n][i] # words[m][i]})
                               : n \in 0 .. 7, m \in 8 .. 16 ^ Input.padding - 1}]

MultiplyWords ==
  /\ Asked("product")
  /\ \E both \in {encode_batch(Input.p, <<Input.a, Input.b>>).value} :
     \E product \in {[i \in DOMAIN both[1] |-> both[1][i] ** both[2][i]]} :
     \E square \in {decode_square(Input.p, product).value} :
       LET p == Input.p
           log == BaseLog(p) + 1
           free == Slice(coset_inverse(log, 0, square), 0, square_dimension(p))
           last == Unit(square_message_length(p), square_dimension(p))
       IN  result' = [decoded |-> [i \in 1 .. 2 |-> decode(p, both[i]).value],
                      product |-> product,
                      square |-> square,
                      again |-> encode_square(p, square),
                      base |-> square_to_base(p, square),
                      rebuilt |-> square_from_coefficients(p, free),
                      beyond |-> encode_square(p, coset_forward(log, 0, last))]

\* A commitment, the same rows encoded one lane at a time, and what is decoded when some
\* rows were changed.
Commit ==
  /\ Asked("commit")
  /\ \E pd \in {commit_zk(Input.p, Input.z, Drawn(Input.seed))} :
       LET p == Input.p
           hit(i) == (i \div 2 ^ log_lanes_committed(p)) \in Input.errors
           changed == [i \in DOMAIN pd.codeword |->
                         IF hit(i) THEN pd.codeword[i] ++ (1 + (i % 3)) ELSE pd.codeword[i]]
       IN  result' = [valid |-> validate(p, TRUE), pd |-> pd,
                      plain |-> commit([p EXCEPT !.zk = FALSE], Input.z),
                      decoded |-> decode_zk_codeword(p, changed),
                      unpacked |-> pack_witness(unpack_witness(Input.z))]

\* Two commitments whose leaves went to one oracle, and what is extracted from any of the
\* vectors that the recorder may give.
Extract ==
  /\ Asked("extract")
  /\ \E words \in {[t \in 1 .. 2 |-> commit_zk(Input.p, Input.z[t], Drawn(5 * t - 2)).codeword]} :
     \E leaves \in LET leaf(e) == <<e[2], Row(Input.p, words[e[1]], e[2])>>
                   IN  leaf_queries([i \in DOMAIN Input.order |-> leaf(Input.order[i])]) :
     \E got \in {recover_witness_from_leaf_queries(Input.p, leaves)} :
       result' = [witness |-> got,
                  preimages |->
                    IF ~got.ok THEN got
                    ELSE extract_preimages(got.witness, Input.digests, Size(got.witness), 2, 1, 2)]

\* A script of forks and draws; streams are numbered as they come.
Forks ==
  /\ Asked("forks")
  /\ result' =
       LET script == Input
           step(s, op) ==
             IF op.kind = "fork"
             THEN LET f == fork(s.rngs[op.rng], op.arg)
                  IN  [s EXCEPT !.rngs = Append([@ EXCEPT ![op.rng] = f.rng], f.child)]
             ELSE IF op.kind = "elements"
             THEN LET f == fill_f128(s.rngs[op.rng], op.arg)
                  IN  [rngs |-> [s.rngs EXCEPT ![op.rng] = f.rng],
                       out |-> s.out \o [i \in 1 .. 2 * op.arg |->
                                           f.out[(i + 1) \div 2][IF i % 2 = 1 THEN 1 ELSE 2]]]
             ELSE LET f == next_u64(s.rngs[op.rng])
                  IN  [rngs |-> [s.rngs EXCEPT ![op.rng] = f.rng], out |-> Append(s.out, f.out)]
           after[n \in 0 .. Len(script)] ==
             IF n = 0 THEN [rngs |-> <<from_seed(<<>>)>>, out |-> <<>>]
             ELSE IF script[n].rng \in DOMAIN after[n - 1].rngs THEN step(after[n - 1], script[n])
             ELSE after[n - 1]
       IN  after[Len(script)].out

Layout == Asked("layout") /\ result' = NewLayout(Input.k_log, Input.useful, Input.region, Input.cfg)

CodeNext == Certify \/ MultiplyWords \/ Commit \/ Extract \/ Forks \/ Layout

-----------------------------------------------------------------------------
\* A certified geometry hides: any admitted number of coordinates of a codeword takes
\* every value, over the paddings, whatever the message, and two words differ in as many
\* places as the certificate says. The product of two codewords is a word of the square
\* code, is decoded to values that restrict to the product of the messages, and has no
\* coefficient of the highest degree, which the code refuses.
CodesHideAndMultiply ==
  /\ Returned("certify") /\ result.ok =>
       /\ result.views = {16 ^ Input.queries}
       /\ \A w \in result.weight : w >= result.cert.operand_min_distance
  /\ Returned("product") =>
       /\ result.decoded = <<Input.a, Input.b>>
       /\ result.again = Ok(result.product)
       /\ result.base = Ok([i \in DOMAIN Input.a |-> Input.a[i] ** Input.b[i]])
       /\ result.rebuilt = Ok(result.square)
       /\ ~result.beyond.ok

\* The rows of a commitment are the evaluations of its mask, witness and blinder.
IsCommitment(p, z, pd) ==
  LET lanes == 2 ^ log_lanes_committed(p)
      width == num_ntts(p)
      evals == standard(k_code(p))
      message == Cat(pd.zk_mask, z)
      column(l) == [q \in 0 .. Size(message) \div width - 1 |->
                      IF l < width THEN message[q * width + l] ELSE pd.zk_blind[q * width + l - width]]
  IN  \A l \in 0 .. lanes - 1 :
        [q \in 0 .. n_positions(p) - 1 |-> pd.codeword[q * lanes + l]]
          = Evaluated(evals, Padded(column(l), n_positions(p)))

\* Rows of a word that may be wrong for it to be decoded.
Radius(p) == (n_positions(p) - message_rows(p)) \div 2

\* Record of all leaves of the tree t and of no other.
WholeAlone(p, order, t) == Range(order) = {t} \X (0 .. n_positions(p) - 1)

\* What is decoded from a commitment is its mask, its witness and its blinder, and a word
\* with up to half the distance of errors never decodes to another message. The witness
\* recovered from recorded leaves is one that was committed, though two trees of one
\* channel may be recorded and any of the leaves of an index may survive; a whole tree
\* recorded alone is recovered, in whatever order and however often its leaves came, and
\* what is extracted hashes to the digests.
CommittedIsRecovered ==
  /\ Returned("commit") =>
       LET p == Input.p
       IN  /\ result.valid = "Ok" /\ result.unpacked = Input.z
           /\ IsCommitment(p, Input.z, result.pd)
           /\ Input.errors = {} => result.decoded.ok
           /\ result.decoded.ok /\ Cardinality(Input.errors) <= Radius(p) =>
                /\ result.decoded.witness = Input.z
                /\ result.decoded.mask = result.pd.zk_mask
                /\ result.decoded.blinder = result.pd.zk_blind
  /\ Returned("extract") =>
       /\ result.witness.ok => result.witness.witness \in {Input.z[1], Input.z[2]}
       /\ \A t \in 1 .. 2 : WholeAlone(Input.p, Input.order, t) =>
            result.witness.ok /\ result.witness.witness = Input.z[t]
       /\ result.preimages.ok => result.preimages.messages = Input.digests

\* No word of the mask streams is drawn twice, however they are forked and read. The
\* randomizer sections of a block that fits are apart from the witness and from each other,
\* are as many as are announced, a pair of chain slots starts at a multiple of its size,
\* and what the statement absorbs determines the layout.
RandomizersApart ==
  /\ Returned("forks") => \A i, j \in DOMAIN result : result[i] = result[j] => i = j
  /\ Returned("layout") /\ result.fits =>
       LET a == a_bits(result)
           b == b_bits(result)
           Other(o) == NewLayout(o.k_log, o.useful, o.region, o.cfg)
       IN  /\ a \cap b = {} /\ a \cup b \subseteq Input.useful .. 2 ^ Input.k_log - 1
           /\ Cardinality(a \cup b) = rand_bits_per_block(result)
           /\ \A i \in DOMAIN result.mask_pair_bit_base :
                result.mask_pair_bit_base[i] % 2 ^ (Input.region + 1) = 0
           /\ \A l \in {Other(o) : o \in Layouts} :
                absorb_into(l) = absorb_into(result) => l = [result EXCEPT !.fits = l.fits]

-----------------------------------------------------------------------------
(* The additive transforms, called once each over GF(16): the schedules of the   *)
(* outer code's transform, the inner code's over a coset, and the byte tables    *)
(* that extend a row of bits to a second domain.                                 *)

CONSTANTS Messages,      \* [log |-> k, start |-> s, lanes |-> m, data |-> vector of 2^(k-s) rows]
          CosetVectors,  \* [log |-> k, offset |-> o, data |-> vector of 2^k]
          BitRows        \* rows of eight bits

\* A cache of four positions and one thread; one that holds nothing, so all is split.
Schedules == {[sub |-> 2, threads |-> 1, floor |-> 2, least |-> 1],
              [sub |-> 0, threads |-> 1, floor |-> 9, least |-> 1]}

\* Row p of a vector of rows of some lanes.
Lane(v, lanes, l) == [p \in 0 .. (Size(v) \div lanes) - 1 |-> v[p * lanes + l]]

TransformOpen ==
  \/ Pending("transform", Messages)
  \/ Pending("coset", CosetVectors)
  \/ Pending("extend", BitRows)

\* A message whose upper part is zero is transformed from layer `start` on, where its
\* copies lie one after the other.
Transform ==
  /\ Asked("transform")
  /\ result' =
       LET m == Input
           evals == standard(m.log)
           copies == [i \in 0 .. 2 ^ m.log * m.lanes - 1 |-> m.data[i % Size(m.data)]]
           column == Padded(Lane(m.data, m.lanes, 0), 2 ^ m.log)
       IN  [interleaved |->
              {interleaved_scalar_from_layer(evals, copies, m.lanes, m.start)} \cup
              {interleaved_parallel_from_layer(s, evals, copies, m.lanes, m.start, fused)
                 : s \in Schedules, fused \in BOOLEAN},
            single |->
              {forward_transform_scalar(evals, column), forward_transform_neon(evals, column)} \cup
              {forward_transform_batched(s, evals, column) : s \in Schedules}]

CosetTransform ==
  /\ Asked("coset")
  /\ \E c \in {Input} :
     \E there \in {coset_forward(c.log, c.offset, c.data)}, byte \in {forward(c.log, c.offset, c.data)} :
       result' =
         [forward |-> there, back |-> coset_inverse(c.log, c.offset, there),
          byte |-> byte, byteBack |-> inverse(c.log, c.offset, byte),
          lanes |-> lanes_forward(c.log, c.offset, [i \in 0 .. 2 * Size(c.data) - 1 |->
                                                     c.data[i \div 2] ** (1 + (i % 2))], 2)]

\* From a domain of eight points to the eight after them, by bytes of two or four bits.
Extend ==
  /\ Asked("extend")
  /\ \E w \in {2, 4} :
     \E table \in {ByteTable(w, 3, 3, 8)}, bytes \in {BytesOf(w, Input)} :
       result' = {apply_scalar(w, table, bytes), apply_neon(w, table, bytes),
                  apply_x86(w, table, bytes)} \cup
                 (IF w = 2 THEN {apply_avx512(w, table, bytes)} ELSE {})

\* The four-fold extension, from four points to the sixteen.
ExtendFour ==
  /\ Asked("extend")
  /\ \E table \in {ByteTable(2, 2, 4, 0)}, bytes \in {BytesOf(2, Slice(Input, 0, 4))} :
       result' = {deg4_apply_scalar(2, table, bytes), deg4_apply_neon(2, table, bytes)}

TransformNext == Transform \/ CosetTransform \/ Extend \/ ExtendFour

-----------------------------------------------------------------------------
\* Whatever the schedule, the transform of every lane is the values of the message's
\* polynomial over the whole domain, also when the layers that only see zeros were
\* skipped; the transforms over a coset are evaluation there and invert; and the table
\* of a byte extends any row of bits to the second domain.
TransformsEvaluate ==
  /\ Returned("transform") =>
       LET evals == standard(Input.log)
           values(l) == Evaluated(evals, Padded(Lane(Input.data, Input.lanes, l), 2 ^ Input.log))
       IN  /\ \A out \in result.interleaved, l \in 0 .. Input.lanes - 1 :
                Lane(out, Input.lanes, l) = values(l)
           /\ result.single = {values(0)}
           /\ inverse_transform(evals, values(0)) =
                Padded(Lane(Input.data, Input.lanes, 0), 2 ^ Input.log)
  /\ Returned("coset") =>
       /\ \A i \in DOMAIN Input.data :
            result.forward[i] = NovelSum(Input.log, Input.data, Input.offset ++ i)
       /\ result.back = Input.data /\ result.byteBack = Input.data
       /\ result.byte = result.forward
       /\ \A l \in 0 .. 1 : Lane(result.lanes, 2, l) = Scale(1 + l, result.forward)
  /\ Returned("extend") =>
       result \in {{Extended(3, Input, 3, 8)}, {Extended(2, Slice(Input, 0, 4), 4, 0)}}
=============================================================================
