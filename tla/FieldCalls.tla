----------------------------- MODULE FieldCalls -----------------------------
(* The products, inverses, folds and embeddings of the field kernels, called     *)
(* once each: over words of three bits, where all pairs can be tried, and of 64. *)
EXTENDS Calls, FiniteSets

CONSTANTS NarrowPairs,   \* pairs of elements of GF(2^6)
          WidePairs,     \* pairs of elements of GF(2^128)
          LaneVectors    \* sequences of eight elements of GF(2^6)

Narrow == INSTANCE GhashField WITH W <- 3, LowTerms <- {0, 1}
Wide == INSTANCE GhashField WITH W <- 64, LowTerms <- {0, 1, 2, 7}

FieldOpen ==
  \/ Pending("mul", NarrowPairs)
  \/ Pending("mul 64", WidePairs)
  \/ Pending("lanes", LaneVectors)
  \/ Pending("fold pairs", LaneVectors)
  \/ Pending("inv", {p[1] : p \in NarrowPairs})
  \/ Pending("embed", {<<i, j>> \in (0 .. 7) \X (0 .. 7) : i <= j})
  \/ Pending("byte", SUBSET (0 .. 7))

Multiply == Asked("mul") /\ result' = Narrow!Multiplications(Input[1], Input[2])
MultiplyWide == Asked("mul 64") /\ result' = Wide!Multiplications(Input[1], Input[2])

\* Four products at once, and two accumulated rounds of four, folded and reduced.
MultiplyLanes ==
  /\ Asked("lanes")
  /\ result' =
       LET v == Input
           x == [l \in 1 .. 4 |-> v[l]]
           y == [l \in 1 .. 4 |-> v[l + 4]]
           acc == Narrow!mul_acc(Narrow!mul_acc(Narrow!WideZero, x, y), y, y)
       IN  [products |-> Narrow!ghash_mul_x4(x, y),
            twice |-> Narrow!ghash_mul_vec2_neon(<<x[1], x[2]>>, <<y[1], y[2]>>),
            sum |-> Narrow!ghash_reduce(Narrow!WideFold(acc)),
            one |-> Narrow!ghash_reduce(Narrow!mul_unreduced_neon(x[1], y[1])),
            byX |-> Narrow!mul_by_x(x[1])]

\* Every two of the eight, with the first as the challenge; two of a longer group too.
FoldPairs ==
  /\ Asked("fold pairs")
  /\ result' =
       LET v == Input
       IN  {[from |-> base,
             portable |-> Narrow!fold_pairs_portable(v, base, 4 - base, v[1]),
             kernels |-> {Narrow!fold_pairs_x86(v, base, 4 - base, v[1]),
                          Narrow!fold_pairs_neon(v, base, 4 - base, v[1])}] : base \in 0 .. 1}

Invert == Asked("inv") /\ result' = Narrow!inv(Input)
Embed == Asked("embed") /\ result' = Wide!phi8(Wide!gf8_mul({Input[1]}, {Input[2]}))
Byte ==
  /\ Asked("byte")
  /\ result' =
       LET a == Input
       IN  [inverse |-> Wide!gf8_inv(a),
            lanes |-> Wide!gf8_mul_vec16(<<a, a>>, <<{0, 1}, {1, 4, 7}>>)]

FieldNext ==
  \/ Multiply \/ MultiplyWide \/ MultiplyLanes \/ FoldPairs \/ Invert \/ Embed \/ Byte

-----------------------------------------------------------------------------
\* Every kernel, whatever its order of partial products and of reductions, returns the
\* remainder of the full product by the field's polynomial; accumulated products reduce
\* to the sum of the products, folds of pairs to (1 + r) e + r o, inverses invert, and
\* phi8 is multiplicative.
KernelsAreTheField ==
  /\ Returned("mul") => result = {Narrow!Times(Input[1], Input[2])}
  /\ Returned("mul 64") => result = {Wide!Times(Input[1], Input[2])}
  /\ Returned("lanes") =>
       LET x(l) == Input[l]
           y(l) == Input[l + 4]
           term(l) == Narrow!Add(Narrow!Times(x(l), y(l)), Narrow!Times(y(l), y(l)))
       IN  /\ \A l \in 1 .. 4 : result.products[l] = Narrow!Times(x(l), y(l))
           /\ \A l \in 1 .. 2 : result.twice[l] = result.products[l]
           /\ result.sum = Narrow!Add(Narrow!Add(term(1), term(2)), Narrow!Add(term(3), term(4)))
           /\ result.one = result.products[1]
           /\ result.byX = Narrow!Times(x(1), [lo |-> {1}, hi |-> {}])
  /\ Returned("fold pairs") =>
       \A f \in result :
         /\ f.kernels = {f.portable}
         /\ \A t \in DOMAIN f.portable :
              LET e == Input[2 * (f.from + t) - 1]
                  o == Input[2 * (f.from + t)]
              IN  f.portable[t] = Narrow!Add(e, Narrow!Times(Input[1], Narrow!Add(e, o)))
  /\ Returned("inv") =>
       Narrow!Times(Input, result) = IF Input = Narrow!ZERO THEN Narrow!ZERO ELSE Narrow!ONE
  /\ Returned("embed") =>
       result = Wide!Times(Wide!phi8({Input[1]}), Wide!phi8({Input[2]}))
  /\ Returned("byte") =>
       /\ Wide!gf8_mul(Input, result.inverse) = IF Input = {} THEN {} ELSE {0}
       /\ \A l \in 1 .. 2 :
            result.lanes[l] = Wide!gf8_mul(Input, <<{0, 1}, {1, 4, 7}>>[l])
=============================================================================
