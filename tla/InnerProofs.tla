----------------------------- MODULE InnerProofs -----------------------------
(* The inner proofs of VEIL: that committed inputs satisfy an arithmetic circuit, *)
(* and nothing else about them. The inputs and two dummy products are committed    *)
(* with a mask, the gates' sides and outputs are committed and multiplied, and one *)
(* inner product links both commitments by all linear constraints at once.         *)
(* A commitment stands for the matrix it was made of, a Merkle tree of its rows;   *)
(* the bits that the soundness certificate counts, for a number of queries.        *)
EXTENDS Calls, InnerCode

CONSTANTS MIN_QUERIES, Constraints, Dots

-----------------------------------------------------------------------------
(* Committed matrices, column after column, and the challenges.                   *)

NewMatrix(columns, channel) ==
  [channel |-> channel,
   rows |-> Strict([q \in DOMAIN columns[0] |-> Strict([c \in DOMAIN columns |-> columns[c][q]])])]
\* The siblings of an opening stand for the tree they are of.
open(matrix, positions) ==
  [positions |-> positions, rows |-> [q \in positions |-> matrix.rows[q]], siblings |-> matrix]
Opens(opening, root, num_rows, num_columns, channel) ==
  /\ opening.siblings = root /\ root.channel = channel /\ Size(root.rows) = num_rows
  /\ \A q \in opening.positions : Size(opening.rows[q]) = num_columns /\ opening.rows[q] = root.rows[q]

\* The first value of the tape that is none of the excluded ones.
DrawOutside(ch, excluded) ==
  LET k == CHOOSE k \in 1 .. Size(ch.tape) - ch.at :
             /\ ch.tape[ch.at + k - 1] \notin excluded
             /\ \A j \in 0 .. k - 2 : ch.tape[ch.at + j] \in excluded
  IN  [value |-> ch.tape[ch.at + k - 1], ch |-> AfterEach(ch, k)]
sample_nonzero(ch) == DrawOutside(ch, {0})
MutSampleNotZeroOrOne(ch) == DrawOutside(ch, {0})
sample_not_zero_or_one(ch) == DrawOutside(ch, {0, 1})
sample_any(ch) == [value |-> Next1(ch), ch |-> After(ch, 1)]

sample_unique_positions(ch, code_length, count) ==
  LET Seen(k) == {ch.tape[ch.at + j] % code_length : j \in 0 .. k - 1}
      k == CHOOSE k \in 1 .. Size(ch.tape) - ch.at :
             Cardinality(Seen(k)) = count /\ Cardinality(Seen(k - 1)) < count
  IN  [value |-> Seen(k), ch |-> AfterEach(ch, k)]

powers(base, n) == Strict([i \in 0 .. n - 1 |-> Prod(i, LAMBDA j : base)])
\* v_0 + rho (v_1 + rho (v_2 + ...)).
Horner(rho, v) ==
  LET h[i \in 0 .. Size(v)] == IF i = 0 THEN 0 ELSE v[Size(v) - i] ++ (rho ** h[i - 1])
  IN  h[Size(v)]
HornerRows(rho, columns) ==
  Strict([i \in DOMAIN columns[0] |-> Horner(rho, [c \in DOMAIN columns |-> columns[c][i]])])

-----------------------------------------------------------------------------
(* Inner products of committed vectors with a public one.                         *)

message_length(p) == p.vector_length + p.padding_length
CodeOf(p) == [message_length |-> message_length(p), code_length |-> p.code_length]

with_security(vector_length, num_vectors, padding_length, inverse_rate) ==
  LET code_length == next_power_of_two(vector_length + padding_length) * inverse_rate
      cert == certify_zk_code(vector_length, padding_length, padding_length, code_length)
  IN  IF \/ vector_length = 0 \/ num_vectors = 0 \/ padding_length = 0
         \/ ~is_power_of_two(inverse_rate) \/ inverse_rate < 2
         \/ vector_length + padding_length > USIZE_MAX \/ code_length > USIZE_MAX
      THEN Err("InvalidParameters")
      ELSE IF ~cert.ok THEN cert
      ELSE IF padding_length > code_length THEN Err("InvalidParameters")
      ELSE Ok([vector_length |-> vector_length, padding_length |-> padding_length,
               code_length |-> code_length, num_vectors |-> num_vectors])

\* The parameters of a proof are those that their own lengths lead to.
Canonical(p) ==
  Given(with_security(p.vector_length, p.num_vectors, p.padding_length,
                      p.code_length \div next_power_of_two(message_length(p))),
        LAMBDA expected : expected.ok /\ expected.value = p)

OneRow(v) == [i \in {0} |-> v]
\* The words of vectors with their padding, of which a row has one element per vector.
Words(p, vectors, padding) ==
  Strict(encode_batch(CodeOf(p),
    [c \in DOMAIN vectors |-> Cat(vectors[c], [i \in DOMAIN padding |-> padding[i][c]])]).value)

commit_vectors(vectors, p, random, channel) ==
  IF Size(vectors) # p.num_vectors THEN Err("WrongVectorCount")
  ELSE IF \E i \in DOMAIN vectors : Size(vectors[i]) # p.vector_length THEN Err("WrongVectorLength")
  ELSE Given(Strict(Cat(vectors, OneRow(random.mask))), LAMBDA columns :
         Ok([parameters |-> p, columns |-> columns, padding |-> random.padding,
             commitment |-> NewMatrix(Words(p, columns, random.padding), channel)]))

\* Both combinations by powers of rho: of the columns, the mask last, and of the padding.
Combined(rho, columns, padding) ==
  [vector |-> HornerRows(rho, columns), padding |-> Strict([i \in DOMAIN padding |-> Horner(rho, padding[i])])]

prove_dot_product(dot, data, ch) ==
  LET p == data.parameters
      masked == Strict([c \in DOMAIN data.columns |-> Dot(data.columns[c], dot)])
      claimed == Slice(masked, 0, p.num_vectors)
      bound == observe(observe(observe_slice(observe_slice(observe_label(ch, "veil-f128-dot-product"),
                 dot), claimed), masked[p.num_vectors]), data.commitment)
  IN  IF Size(dot) # p.vector_length THEN Err("WrongDotVectorLength")
      ELSE Given(sample_nonzero(bound), LAMBDA rho : Given(Combined(rho.value, data.columns, data.padding), LAMBDA rlc :
        Given(sample_unique_positions(observe_slice(observe_slice(rho.ch, rlc.vector), rlc.padding),
                                      p.code_length, p.padding_length), LAMBDA positions :
          [ok |-> TRUE, ch |-> positions.ch, rho |-> rho.value,
           proof |-> [parameters |-> p, commitment |-> data.commitment, claimed_dot_products |-> claimed,
                      mask_dot_product |-> masked[p.num_vectors], rlc_vector |-> rlc.vector, rlc_padding |-> rlc.padding,
                      opening |-> open(data.commitment, positions.value)]])))

Verdict(verdict, ch) == [verdict |-> verdict, ch |-> ch]
MutRowsAgree(proof, rho, columns) == TRUE
RowsAgree(proof, rho, columns) ==
  Given(encode(CodeOf(proof.parameters), Cat(proof.rlc_vector, proof.rlc_padding)), LAMBDA word :
    \A q \in proof.opening.positions :
      Horner(rho, [c \in 0 .. columns - 1 |-> proof.opening.rows[q][c]]) = word.value[q])

verify_dot_product(dot, proof, ch, channel) ==
  LET p == proof.parameters
      claims == Cat(proof.claimed_dot_products, OneRow(proof.mask_dot_product))
      bound == observe(observe(observe_slice(observe_slice(observe_label(ch, "veil-f128-dot-product"),
                 dot), proof.claimed_dot_products), proof.mask_dot_product), proof.commitment)
  IN  IF ~Canonical(p) THEN Verdict("InvalidParameters", ch)
      ELSE IF \/ Size(dot) # p.vector_length \/ Size(proof.claimed_dot_products) # p.num_vectors
              \/ Size(proof.rlc_vector) # p.vector_length \/ Size(proof.rlc_padding) # p.padding_length
      THEN Verdict("WrongProofShape", ch)
      ELSE Given(sample_nonzero(bound), LAMBDA rho :
        IF Horner(rho.value, claims) # Dot(proof.rlc_vector, dot) THEN Verdict("RlcDotProductMismatch", rho.ch)
        ELSE Given(sample_unique_positions(observe_slice(observe_slice(rho.ch, proof.rlc_vector), proof.rlc_padding),
                                           p.code_length, p.padding_length), LAMBDA positions :
          Verdict(IF positions.value # proof.opening.positions THEN "WrongProofShape"
                  ELSE IF ~Opens(proof.opening, proof.commitment, p.code_length, p.num_vectors + 1, channel)
                  THEN "InvalidMerkleOpening"
                  ELSE IF ~RowsAgree(proof, rho.value, p.num_vectors + 1) THEN "CodewordMismatch"
                  ELSE "Ok", positions.ch)))

-----------------------------------------------------------------------------
(* Products of committed vectors, with their inner products by one public vector. *)

commit_hadamard(sides, p, random, channel) ==
  IF p.num_vectors # 3 THEN Err("InvalidParameters")
  ELSE IF \E i \in DOMAIN sides : Size(sides[i]) # p.vector_length THEN Err("WrongVectorLength")
  ELSE IF ~Canonical(p) THEN Err("InvalidParameters")
  ELSE Given(Strict(Cat(sides, OneRow(random.mask))), LAMBDA columns :
       Given(square_from_coefficients(CodeOf(p), random.product).value, LAMBDA product_mask :
       Given(Cat(Words(p, columns, random.padding), OneRow(Strict(encode_square(CodeOf(p), product_mask).value))), LAMBDA words :
        Ok([parameters |-> p, columns |-> columns, padding |-> random.padding, product_mask |-> product_mask,
            words |-> words, commitment |-> NewMatrix(words, channel)]))))

\* A square word restricted to the vectors' places, at a point of the multiplication reduction.
ReducedAt(p, square, point) ==
  Dot(powers(point, p.vector_length), Slice(square_to_base(CodeOf(p), square).value, 0, p.vector_length))

prove_hadamard_and_dots(dot, data, ch) ==
  LET p == data.parameters
      w == data.words
      dots == Strict([c \in 0 .. 3 |-> Dot(data.columns[c], dot)])
  IN  IF Size(dot) # p.vector_length THEN Err("WrongDotVectorLength")
      ELSE Given(sample_any(observe(observe_label(ch, "veil-f128-hadamard"), data.commitment)), LAMBDA point :
        Given(ReducedAt(p, data.product_mask, point.value), LAMBDA gamma :
        Given(sample_nonzero(observe(point.ch, gamma)), LAMBDA coefficient :
        Given(Strict(decode_square(CodeOf(p), [q \in 0 .. p.code_length - 1 |->
                ((w[0][q] ** w[1][q]) ++ w[2][q]) ++ (coefficient.value ** w[4][q])]).value), LAMBDA phi :
        Given(sample_nonzero(observe(observe(observe_slice(observe_slice(observe_slice(coefficient.ch, phi), dot),
                Slice(dots, 0, 3)), dots[3]), data.commitment)), LAMBDA rho :
        Given(Combined(rho.value, data.columns, data.padding), LAMBDA rlc :
        Given(sample_unique_positions(observe_slice(observe_slice(rho.ch, rlc.vector), rlc.padding),
                                      p.code_length, p.padding_length), LAMBDA positions :
          [ok |-> TRUE, ch |-> positions.ch, point |-> point.value, coefficient |-> coefficient.value, rho |-> rho.value,
           proof |-> [parameters |-> p, commitment |-> data.commitment, gamma |-> gamma, phi |-> phi,
                      claimed_dot_products |-> Slice(dots, 0, 3), mask_dot_product |-> dots[3],
                      rlc_vector |-> rlc.vector, rlc_padding |-> rlc.padding,
                      opening |-> open(data.commitment, positions.value)]])))))))

\* The opened rows multiply to the word of phi.
ProductAgrees(proof, coefficient) ==
  Given(encode_square(CodeOf(proof.parameters), proof.phi), LAMBDA word :
    \A q \in proof.opening.positions : LET row == proof.opening.rows[q]
      IN  word.value[q] = ((row[0] ** row[1]) ++ row[2]) ++ (coefficient ** row[4]))

verify_hadamard_and_dots(dot, proof, ch, channel) ==
  LET p == proof.parameters
      claims == Cat(proof.claimed_dot_products, OneRow(proof.mask_dot_product))
  IN  IF ~(Canonical(p) /\ p.num_vectors = 3) THEN Verdict("InvalidParameters", ch)
      ELSE IF \/ Size(dot) # p.vector_length \/ Size(proof.phi) # 2 * next_power_of_two(message_length(p))
              \/ Size(proof.rlc_vector) # p.vector_length \/ Size(proof.rlc_padding) # p.padding_length
      THEN Verdict("WrongProofShape", ch)
      ELSE Given(sample_any(observe(observe_label(ch, "veil-f128-hadamard"), proof.commitment)), LAMBDA point :
        Given(sample_nonzero(observe(point.ch, proof.gamma)), LAMBDA coefficient :
        Given(observe_slice(coefficient.ch, proof.phi), LAMBDA seen :
        IF ReducedAt(p, proof.phi, point.value) # coefficient.value ** proof.gamma
        THEN Verdict("ReductionCheckFailed", seen)
        ELSE Given(sample_nonzero(observe(observe(observe_slice(observe_slice(seen, dot),
                     proof.claimed_dot_products), proof.mask_dot_product), proof.commitment)), LAMBDA rho :
          IF Dot(proof.rlc_vector, dot) # Horner(rho.value, claims) THEN Verdict("RlcDotProductMismatch", rho.ch)
          ELSE Given(sample_unique_positions(observe_slice(observe_slice(rho.ch, proof.rlc_vector), proof.rlc_padding),
                                             p.code_length, p.padding_length), LAMBDA positions :
            Verdict(IF positions.value # proof.opening.positions THEN "WrongProofShape"
                    ELSE IF ~Opens(proof.opening, proof.commitment, p.code_length, 5, channel) THEN "InvalidMerkleOpening"
                    ELSE IF ~encode_square(CodeOf(p), proof.phi).ok THEN "InvalidProductCodeword"
                    ELSE IF ~(ProductAgrees(proof, coefficient.value) /\ RowsAgree(proof, rho.value, 4))
                    THEN "CodewordMismatch"
                    ELSE "Ok", positions.ch))))))

-----------------------------------------------------------------------------
(* Circuits. An expression is a constant and its coefficients that are not zero.  *)

variable(i) == [constant |-> 0, terms |-> [j \in {i} |-> 1]]
constant(value) == [constant |-> value, terms |-> <<>>]
Coefficient(e, i) == IF i \in DOMAIN e.terms THEN e.terms[i] ELSE 0
normalize(value, terms) == [constant |-> value, terms |-> [i \in {j \in DOMAIN terms : terms[j] # 0} |-> terms[i]]]
add(d, e) ==
  normalize(d.constant ++ e.constant,
            [i \in DOMAIN d.terms \cup DOMAIN e.terms |-> Coefficient(d, i) ++ Coefficient(e, i)])
scale(e, scalar) == normalize(scalar ** e.constant, [i \in DOMAIN e.terms |-> scalar ** e.terms[i]])
value_of(e, witness) == e.constant ++ Total(Size(witness), LAMBDA i : Coefficient(e, i) ** witness[i])

new_circuit(inputs) ==
  [num_inputs |-> inputs, num_variables |-> inputs, multiplications |-> <<>>, linear_constraints |-> <<>>]
Gate(left, right, output, materialized) ==
  [side |-> <<left, right, output>>, materialized_output |-> materialized]
mul(circuit, left, right) ==
  LET n == circuit.num_variables
  IN  [circuit EXCEPT !.num_variables = n + 1, !.multiplications = Append(@, Gate(left, right, variable(n), <<n>>))]
assert_mul(circuit, left, right, output) ==
  [circuit EXCEPT !.multiplications = Append(@, Gate(left, right, output, <<>>))]
assert_zero(circuit, e) == [circuit EXCEPT !.linear_constraints = Append(@, e)]

complete_witness(circuit, inputs) ==
  LET gates == circuit.multiplications
      Product(w, gate) == value_of(gate.side[1], w) ** value_of(gate.side[2], w)
      after[k \in 0 .. Len(gates)] ==
        IF k = 0 THEN inputs
        ELSE IF gates[k].materialized_output = <<>> THEN after[k - 1]
        ELSE Given(Strict(after[k - 1]), LAMBDA w : Cat(w, OneRow(Product(w, gates[k]))))
  IN  IF Size(inputs) # circuit.num_inputs THEN Err("WrongInputLength") ELSE Ok(Strict(after[Len(gates)]))
GateError(gate, w) == (value_of(gate.side[1], w) ** value_of(gate.side[2], w)) ++ value_of(gate.side[3], w)
is_satisfied(circuit, w) ==
  /\ \A k \in DOMAIN circuit.multiplications : GateError(circuit.multiplications[k], w) = 0
  /\ \A k \in DOMAIN circuit.linear_constraints : value_of(circuit.linear_constraints[k], w) = 0

\* The dummies r, s, rs, r + 1, t, (r + 1) t follow the circuit's variables.
padded_circuit(circuit) ==
  LET n == circuit.num_variables
      v(k) == variable(n + k)
  IN  [num_inputs |-> n + 6, num_variables |-> n + 6,
       multiplications |-> circuit.multiplications \o <<Gate(v(0), v(1), v(2), <<>>), Gate(v(3), v(4), v(5), <<>>)>>,
       linear_constraints |-> Append(circuit.linear_constraints, add(add(v(0), v(3)), constant(1)))]
padded_witness(inputs, d) ==
  Strict(Cat(inputs, [i \in 0 .. 5 |-> <<d.r, d.s, d.r ** d.s, d.r ++ 1, d.t, (d.r ++ 1) ** d.t>>[i + 1]]))

multiplication_vectors(circuit, witness) ==
  Strict([side \in 0 .. 2 |-> Strict([k \in 0 .. Len(circuit.multiplications) - 1 |->
    value_of(circuit.multiplications[k + 1].side[side + 1], witness)])])

MutLinks(circuit, dot, claimed) == <<>>
\* A claim of each side is the combination of the gates' expressions.
Links(circuit, dot, claimed) ==
  LET linked(side) ==
        LET e[k \in 0 .. Len(circuit.multiplications)] ==
              IF k = 0 THEN constant(claimed[side - 1])
              ELSE add(e[k - 1], scale(circuit.multiplications[k].side[side], dot[k - 1]))
        IN  e[Len(circuit.multiplications)]
  IN  [side \in 1 .. 3 |-> linked(side)]
append_multiplication_link_constraints(circuit, dot, claimed) ==
  Strict(circuit.linear_constraints \o Links(circuit, dot, claimed))

combine_linear_constraints(variables, constraints, rlc) ==
  Given(powers(rlc, Len(constraints)), LAMBDA power :
    [dot |-> Strict([i \in 0 .. variables - 1 |->
               Total(Len(constraints), LAMBDA k : power[k] ** Coefficient(constraints[k + 1], i))]),
     expected |-> Total(Len(constraints), LAMBDA k : power[k] ** constraints[k + 1].constant)])

-----------------------------------------------------------------------------
(* The compiler's two phases, and its verifier.                                  *)

valid_parameters(p) ==
  p.linear_padding > 0 /\ p.hadamard_padding > 0 /\ p.inverse_rate >= 2 /\ is_power_of_two(p.inverse_rate)
WithoutOutputs(circuit) ==
  /\ circuit.num_variables = circuit.num_inputs
  /\ \A k \in DOMAIN circuit.multiplications : circuit.multiplications[k].materialized_output = <<>>
certify_constraint_soundness(circuit, p) ==
  IF ~valid_parameters(p) THEN "InvalidParameters"
  ELSE IF ~WithoutOutputs(circuit) THEN "MalformedCircuit"
  ELSE IF p.hadamard_padding # p.linear_padding THEN "InvalidParameters"
  ELSE IF p.linear_padding < MIN_QUERIES THEN "InsufficientSoundness" ELSE "Ok"

commit_constraint_inputs(circuit, inputs, p, random) ==
  LET linear == with_security(Size(inputs) + 6, 1, p.linear_padding, p.inverse_rate)
  IN  IF ~valid_parameters(p) THEN Err("InvalidParameters")
      ELSE IF ~WithoutOutputs(circuit) THEN Err("MalformedCircuit")
      ELSE IF Size(inputs) # circuit.num_inputs THEN Err("WrongInputLength")
      ELSE IF ~linear.ok THEN linear
      ELSE Given(padded_witness(inputs, random.dummies), LAMBDA witness :
        Ok([circuit_inputs |-> circuit.num_inputs, padded_witness |-> witness, parameters |-> p,
            linear_data |-> commit_vectors(OneRow(witness), linear.value, random.linear, "VeilLinear").value]))

\* The proof of these sides of the gates, without the checks around it.
Argue(padded, vectors, commitment, random, ch) ==
  LET p == commitment.parameters
  IN  Given(commit_hadamard(vectors,
              with_security(Len(padded.multiplications), 3, p.hadamard_padding, p.inverse_rate).value,
              random.hadamard, "VeilHadamard").value, LAMBDA sides :
      Given(sample_not_zero_or_one(observe(observe(observe_label(ch, "veil-f128-constraint-system"),
              commitment.linear_data.commitment), sides.commitment)), LAMBDA mu :
      Given(powers(mu.value, Len(padded.multiplications)), LAMBDA dot :
      Given(prove_hadamard_and_dots(dot, sides, mu.ch), LAMBDA hadamard :
      Given(sample_any(hadamard.ch), LAMBDA rlc :
      Given(combine_linear_constraints(padded.num_variables,
              append_multiplication_link_constraints(padded, dot, hadamard.proof.claimed_dot_products), rlc.value), LAMBDA system :
      Given(prove_dot_product(system.dot, commitment.linear_data, rlc.ch), LAMBDA linear :
        [expected |-> system.expected, ch |-> linear.ch, sides |-> vectors,
         drawn |-> [mu |-> mu.value, point |-> hadamard.point, coefficient |-> hadamard.coefficient,
                    hadamard |-> hadamard.rho, rlc |-> rlc.value, linear |-> linear.rho],
         proof |-> [parameters |-> p, num_variables |-> padded.num_variables,
                    num_multiplications |-> Len(padded.multiplications),
                    hadamard |-> hadamard.proof, linear |-> linear.proof]])))))))

\* A prover who cheats leaves out what an unsatisfied circuit would fail, and may put the
\* products of the gates' inputs in the place of their outputs.
Sides(padded, w, cheats) ==
  Given(multiplication_vectors(padded, w), LAMBDA v :
    IF cheats = "products" THEN [v EXCEPT ![2] = Strict([k \in DOMAIN v[2] |-> v[0][k] ** v[1][k]])] ELSE v)
prove_constraints_from_commitment(circuit, commitment, random, cheats, ch) ==
  LET cert == certify_constraint_soundness(circuit, commitment.parameters)
      w == commitment.padded_witness
      padded == padded_circuit(circuit)
  IN  IF cert # "Ok" THEN Err(cert)
      ELSE IF circuit.num_inputs # commitment.circuit_inputs THEN Err("MalformedCircuit")
      ELSE IF cheats = "no" /\ ~(is_satisfied(circuit, Slice(w, 0, commitment.circuit_inputs)) /\ is_satisfied(padded, w))
      THEN Err("UnsatisfiedCircuit")
      ELSE Given(Argue(padded, Sides(padded, w, cheats), commitment, random, ch), LAMBDA argued :
        IF cheats = "no" /\ argued.proof.linear.claimed_dot_products # OneRow(argued.expected)
        THEN Err("LinearClaimMismatch") ELSE Ok(argued))

\* The lengths the circuit and the proof's parameters lead to.
Fits(padded, proof) ==
  LET p == proof.parameters
      n == padded.num_variables
      g == Len(padded.multiplications)
      h == proof.hadamard.parameters
      l == proof.linear.parameters
  IN  /\ proof.num_variables = n /\ proof.num_multiplications = g
      /\ l.vector_length = n /\ l.num_vectors = 1 /\ l.padding_length = p.linear_padding
      /\ h.padding_length = p.hadamard_padding /\ h.vector_length = g
      /\ h.code_length = next_power_of_two(g + p.hadamard_padding) * p.inverse_rate
      /\ l.code_length = next_power_of_two(n + p.linear_padding) * p.inverse_rate

verify_constraints(circuit, proof, ch) ==
  LET cert == certify_constraint_soundness(circuit, proof.parameters)
  IN  IF cert # "Ok" THEN Verdict(cert, ch)
      ELSE Given(padded_circuit(circuit), LAMBDA padded :
        IF ~Fits(padded, proof) THEN Verdict("WrongProofShape", ch)
        ELSE Given(sample_not_zero_or_one(observe(observe(observe_label(ch, "veil-f128-constraint-system"),
                     proof.linear.commitment), proof.hadamard.commitment)), LAMBDA mu :
          Given(powers(mu.value, Len(padded.multiplications)), LAMBDA dot :
          Given(verify_hadamard_and_dots(dot, proof.hadamard, mu.ch, "VeilHadamard"), LAMBDA products :
            IF products.verdict # "Ok" THEN products
            ELSE Given(sample_any(products.ch), LAMBDA rlc :
              Given(combine_linear_constraints(padded.num_variables,
                      append_multiplication_link_constraints(padded, dot, proof.hadamard.claimed_dot_products), rlc.value), LAMBDA system :
                IF proof.linear.claimed_dot_products # OneRow(system.expected) THEN Verdict("LinearClaimMismatch", rlc.ch)
                ELSE verify_dot_product(system.dot, proof.linear, rlc.ch, "VeilLinear")))))))

-----------------------------------------------------------------------------
(* A proof of a statement step by step, as it is or changed in one place; an       *)
(* input with cheats set leaves the prover's own checks out.                       *)

ConstraintOpen == Pending("constraints", Constraints) \/ Pending("dots", Dots)

ProveDots ==
  /\ Asked("dots")
  /\ \E data \in {commit_vectors(Input.vectors, Input.p, Input.random, "Witness").value} :
     \E proved \in {prove_dot_product(Input.dot, data, new_transcript(Input.tape))} :
       result' = [proved |-> proved,
                  verified |-> verify_dot_product(Input.dot, proved.proof, new_transcript(Input.tape), "Witness")]

\* The inputs and the randomness of a proof: those of the call, then those it may also stand for.
Assigned == IF result = None THEN [inputs |-> Input.inputs, random |-> Input.random, first |-> <<>>] ELSE result.other
CommitInputs ==
  /\ Asked("constraints") \/ At("constraints", "reassigned")
  /\ \E subject \in {Assigned} :
     \E made \in {commit_constraint_inputs(Input.circuit, subject.inputs, Input.parameters, subject.random)} :
       result' = [stage |-> "inputs committed", subject |-> subject, made |-> made]
ProveConstraints ==
  /\ At("constraints", "inputs committed") /\ result.made.ok
  /\ \E made \in {prove_constraints_from_commitment(Input.circuit, result.made.value, result.subject.random,
                   Input.cheats, new_transcript(Input.tape))} :
       result' = [stage |-> "constraints proved", subject |-> result.subject, made |-> made]

\* One element, row, length (the index after the last) or root of the proof's two parts changed.
Lists == {"claimed_dot_products", "rlc_vector", "rlc_padding", "phi"}
Changes(proof) ==
  UNION {UNION {{<<part, f, i>> : i \in 0 .. Size(proof[part][f])} :
                  f \in Lists \cap DOMAIN proof[part]} : part \in {"hadamard", "linear"}}
  \cup {<<part, f, 0>> : part \in {"hadamard", "linear"}, f \in {"mask_dot_product", "commitment", "opening", "parameters"}}
  \cup {<<"hadamard", "gamma", 0>>, <<"proof", "inverse_rate", 0>>, <<"proof", "none", 0>>}
Altered(value, f, i) ==
  CASE f \in Lists -> IF i = Size(value) THEN Slice(value, 0, Size(value) - 1) ELSE [value EXCEPT ![i] = @ ++ 1]
    [] f = "commitment" -> [value EXCEPT !.rows[0][0] = @ ++ 1]
    [] f = "opening" -> [value EXCEPT !.rows = [q \in DOMAIN @ |-> [@[q] EXCEPT ![0] = @ ++ 1]]]
    [] f = "parameters" -> [value EXCEPT !.num_vectors = @ + 1]
    [] OTHER -> value ++ 1
Changed(proof, change) ==
  LET f == change[2]
  IN  CASE f = "none" -> proof
        [] f = "inverse_rate" -> [proof EXCEPT !.parameters.inverse_rate = 2 * @]
        [] OTHER -> [proof EXCEPT ![change[1]][f] = Altered(@, f, change[3])]
VerifyConstraints ==
  /\ At("constraints", "constraints proved") /\ result.made.ok /\ result.subject.first = <<>>
  /\ \E change \in Changes(result.made.value.proof) :
       /\ Input.cheats # "no" => change[2] = "none"
       /\ \E checked \in {verify_constraints(Input.circuit, Changed(result.made.value.proof, change), new_transcript(Input.tape))} :
            result' = [stage |-> "constraints checked", change |-> change[2], argued |-> result.made.value, checked |-> checked]

-----------------------------------------------------------------------------
(* Reference: the randomness with which other inputs give the same proof, and the  *)
(* errors of a witness.                                                            *)

\* r from the claim about the left sides, then s and t from the other two.
OtherDummies(circuit, w, v, d, mu) ==
  LET g == Len(circuit.multiplications)
      first == powers(mu, g + 1)
      Gap(side) == Inv(first[g]) ** Total(g, LAMBDA k :
        first[k] ** (value_of(circuit.multiplications[k + 1].side[side], w) ++ value_of(circuit.multiplications[k + 1].side[side], v)))
      r == d.r ++ (Gap(1) ** Inv(1 ++ mu))
      beta == (Gap(2) ++ d.s) ++ (mu ** d.t)
      gamma == (Gap(3) ++ (d.r ** d.s)) ++ (mu ** ((d.r ++ 1) ** d.t))
      t == (gamma ++ (r ** beta)) ** Inv(mu)
  IN  [r |-> r, s |-> beta ++ (mu ** t), t |-> t]

\* The change of a padding that keeps a codeword at the opened positions.
Correction(p, gap, positions) ==
  LET fixed == ((0 .. next_power_of_two(message_length(p)) - 1) \ (p.vector_length .. message_length(p) - 1))
                 \cup {p.code_length + q : q \in positions}
      Weight(x, z) == Prod(2 * p.code_length, LAMBDA y : IF y \in fixed \ {x} THEN (z ++ y) ** Inv(x ++ y) ELSE 1)
  IN  Strict([i \in 0 .. p.padding_length - 1 |-> Total(p.vector_length, LAMBDA x : gap[x] ** Weight(x, p.vector_length + i))])
\* The mask takes up what the columns before it change, and so does its padding.
OtherPadding(p, old, new, random, rho, positions) ==
  LET n == Size(old)
      Over(rows, i) == Inv(Prod(n, LAMBDA c : rho)) ** Horner(rho, [c \in DOMAIN old |-> rows[c][i]])
  IN  Given(Strict([c \in DOMAIN old |-> VecAdd(old[c], new[c])]), LAMBDA gaps :
      Given(Strict([c \in DOMAIN old |-> Correction(p, gaps[c], positions)]), LAMBDA moves :
        [mask |-> Strict([i \in DOMAIN random.mask |-> random.mask[i] ++ Over(gaps, i)]),
         padding |-> Strict([i \in DOMAIN random.padding |-> Strict([c \in 0 .. n |->
           random.padding[i][c] ++ (IF c = n THEN Over(moves, i) ELSE moves[c][i])])])]))
ProductWord(p, sides, padding) ==
  Given(Words(p, sides, padding), LAMBDA w : [q \in DOMAIN w[0] |-> (w[0][q] ** w[1][q]) ++ w[2][q]])
OtherProduct(p, old, new, random, padding, coefficient) ==
  Given(OutputInverse(CodeOf(p), VecAdd(ProductWord(p, old, random.padding), ProductWord(p, new, padding))), LAMBDA gap :
    Strict([i \in DOMAIN random.product |-> random.product[i] ++ (Inv(coefficient) ** gap[i])]))
OtherRandom(circuit, w, v, random, drawn, proof) ==
  LET padded == padded_circuit(circuit)
      l == proof.linear
      h == proof.hadamard
  IN  Given(OtherDummies(circuit, w, v, random.dummies, drawn.mu), LAMBDA dummies :
      Given(padded_witness(w, random.dummies), LAMBDA old : Given(padded_witness(v, dummies), LAMBDA new :
      Given(multiplication_vectors(padded, old), LAMBDA was : Given(multiplication_vectors(padded, new), LAMBDA is :
      Given(OtherPadding(h.parameters, was, is, random.hadamard, drawn.hadamard, h.opening.positions), LAMBDA sides :
        [dummies |-> dummies,
         linear |-> OtherPadding(l.parameters, OneRow(old), OneRow(new), random.linear, drawn.linear, l.opening.positions),
         hadamard |-> [mask |-> sides.mask, padding |-> sides.padding,
                       product |-> OtherProduct(h.parameters, was, is, random.hadamard, sides.padding, drawn.coefficient)]]))))))

\* All of a proof but its roots, which the salts of unopened rows hide.
Shown(part) == [f \in DOMAIN part \ {"commitment", "opening"} |-> part[f]]
SameShown(p, q) ==
  \A part \in {"hadamard", "linear"} :
    Shown(p[part]) = Shown(q[part]) /\ p[part].opening.rows = q[part].opening.rows
\* The whole call again, for others of the inputs that satisfy the circuit.
Reassign ==
  /\ At("constraints", "constraints proved") /\ result.made.ok /\ Input.cheats = "no" /\ result.subject.first = <<>>
  /\ \E v \in Input.others, made \in {result.made.value} :
     \E random \in {OtherRandom(Input.circuit, Input.inputs, v, Input.random, made.drawn, made.proof)} :
       result' = [stage |-> "reassigned", other |-> [inputs |-> v, random |-> random, first |-> <<made.proof>>]]

ConstraintNext == ProveDots \/ CommitInputs \/ ProveConstraints \/ VerifyConstraints \/ Reassign

-----------------------------------------------------------------------------
\* What a wrong witness must cancel: the errors of the gates, and those of the constraints
\* and of the links between the gates' sides and the witness.
ErrorsVanish(argued) ==
  LET drawn == argued.drawn
      v == argued.sides
      padded == padded_circuit(Input.circuit)
      w == padded_witness(Input.inputs, Input.random.dummies)
      zeros == padded.linear_constraints
      Gap(side) == Dot(powers(drawn.mu, Size(v[side])), VecAdd(v[side], multiplication_vectors(padded, w)[side]))
      linear == Cat([k \in 0 .. Len(zeros) - 1 |-> value_of(zeros[k + 1], w)], [side \in 0 .. 2 |-> Gap(side)])
  IN  /\ Dot(powers(drawn.point, Size(v[0])), [k \in DOMAIN v[0] |-> (v[0][k] ** v[1][k]) ++ v[2][k]]) = 0
      /\ Dot(powers(drawn.rlc, Size(linear)), linear) = 0

\* An honest proof is accepted on the prover's transcript, and no proof changed in one place;
\* a proof of a wrong witness, or of gates that are not the witness's, at the roots of two
\* polynomials alone, those of the gates' errors and of the errors in constraints and links. A proof does not tell which inputs it is of: others that
\* satisfy the circuit have randomness of their own with which, at the same challenges, every
\* value of it is the same. Inner products are those of the vectors, and a completed witness
\* satisfies its gates but is never committed.
ConstraintsHideAndBind ==
  /\ Returned("dots") =>
       /\ result.verified = Verdict("Ok", result.proved.ch)
       /\ result.proved.proof.claimed_dot_products = [i \in DOMAIN Input.vectors |-> Dot(Input.vectors[i], Input.dot)]
  /\ Returned("constraints") =>
       /\ result.stage = "inputs committed" /\ Input.circuit.num_variables > Input.circuit.num_inputs =>
            /\ ~result.made.ok
            /\ Given(complete_witness(Input.circuit, Input.inputs), LAMBDA w : is_satisfied(Input.circuit, w.value))
       /\ result.stage = "constraints proved" /\ result.subject.first # <<>> =>
            result.made.ok /\ SameShown(result.subject.first[1], result.made.value.proof)
       /\ result.stage = "constraints checked" =>
            IF result.change # "none" THEN result.checked.verdict # "Ok"
            ELSE /\ result.checked.verdict = "Ok" <=> ErrorsVanish(result.argued)
                 /\ result.checked.verdict = "Ok" => result.checked.ch = result.argued.ch
=============================================================================
