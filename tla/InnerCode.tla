------------------------------ MODULE InnerCode ------------------------------
(* The Reed-Solomon code of the inner proofs: a message is the values of a       *)
(* polynomial on a subspace, its codeword the values on a disjoint coset, and    *)
(* products of codewords are words of a second code of twice the degree.         *)
EXTENDS CosetNtt

CONSTANT USIZE_MAX

next_power_of_two(n) == 2 ^ (CHOOSE k \in 0 .. n : 2 ^ k >= n /\ \A j \in 0 .. k - 1 : 2 ^ j < n)
is_power_of_two(n) == n > 0 /\ next_power_of_two(n) = n
Err(kind) == [ok |-> FALSE, error |-> kind]
Ok(value) == [ok |-> TRUE, value |-> value]

NewCodeParameters(message, code) ==
  IF message = 0 THEN Err("EmptyMessage")
  ELSE IF ~is_power_of_two(code) THEN Err("CodeLengthNotPowerOfTwo")
  ELSE IF code < 2 * next_power_of_two(message) THEN Err("InsufficientProductDistance")
  ELSE IF Log2(code) >= 128 THEN Err("DomainTooLarge")
  ELSE Ok([message_length |-> message, code_length |-> code])

padded_message_length(p) == next_power_of_two(p.message_length)
square_message_length(p) == 2 * padded_message_length(p)
square_dimension(p) == square_message_length(p) - 1

MutCertifyZkCode(logical, padding, queries, code) ==
  LET message == logical + padding
      p == NewCodeParameters(message, code)
      k == padded_message_length(p.value)
  IN  IF \/ message > USIZE_MAX \/ logical = 0 \/ padding = 0 THEN Err("InvalidZkGeometry")
      ELSE IF ~p.ok THEN p
      ELSE Ok([interpolation_length |-> k,
               operand_min_distance |-> code - message + 1,
               accepted_product_min_distance |-> code - (2 * k - 1) + 1])

certify_zk_code(logical, padding, queries, code) ==
  LET message == logical + padding
      p == NewCodeParameters(message, code)
      k == padded_message_length(p.value)
  IN  IF \/ message > USIZE_MAX \/ logical = 0 \/ padding = 0 \/ queries > padding
      THEN Err("InvalidZkGeometry")
      ELSE IF ~p.ok THEN p
      ELSE Ok([interpolation_length |-> k,
               operand_min_distance |-> code - message + 1,
               accepted_product_min_distance |-> code - (2 * k - 1) + 1])

-----------------------------------------------------------------------------
BaseLog(p) == Log2(padded_message_length(p))
OutputForward(p, c) ==
  LET log == Log2(p.code_length)
  IN  coset_forward(log, disjoint_coset_offset(log), Padded(c, p.code_length))
OutputInverse(p, w) ==
  LET log == Log2(p.code_length) IN coset_inverse(log, disjoint_coset_offset(log), w)

encode(p, m) ==
  IF Size(m) # p.message_length THEN Err("WrongInputLength")
  ELSE Ok(OutputForward(p, coset_inverse(BaseLog(p), 0, Padded(m, padded_message_length(p)))))

decode(p, w) ==
  IF Size(w) # p.code_length THEN Err("WrongCodewordLength")
  ELSE LET coefficients == Slice(OutputInverse(p, w), 0, padded_message_length(p))
       IN  Ok(Slice(coset_forward(BaseLog(p), 0, coefficients), 0, p.message_length))

encode_batch(p, messages) ==
  IF \E i \in DOMAIN messages : Size(messages[i]) # p.message_length THEN Err("WrongInputLength")
  ELSE Ok([i \in DOMAIN messages |-> encode(p, messages[i]).value])

decode_square(p, w) ==
  IF Size(w) # p.code_length THEN Err("WrongCodewordLength")
  ELSE Ok(coset_forward(BaseLog(p) + 1, 0, Slice(OutputInverse(p, w), 0, square_message_length(p))))

encode_square(p, values) ==
  LET c == coset_inverse(BaseLog(p) + 1, 0, values)
  IN  IF Size(values) # square_message_length(p) THEN Err("WrongInputLength")
      ELSE IF c[square_dimension(p)] # 0 THEN Err("InvalidProductCodeword")
      ELSE Ok(OutputForward(p, c))

square_from_coefficients(p, c) ==
  IF Size(c) # square_dimension(p) THEN Err("WrongInputLength")
  ELSE Ok(coset_forward(BaseLog(p) + 1, 0, Padded(c, square_message_length(p))))

square_to_base(p, values) ==
  IF Size(values) # square_message_length(p) THEN Err("WrongInputLength")
  ELSE Ok(Slice(values, 0, p.message_length))
=============================================================================
