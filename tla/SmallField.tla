----------------------------- MODULE SmallField -----------------------------
(* The field the algebra is checked over, by the tables of its operations: the   *)
(* runs give those of GF(16), the construction of GF(2^128) with two-bit words    *)
(* and the tail x + 1, and of an extension of it that holds the points of longer  *)
(* codes. An element is a number, the bits of which are its coefficients. Vectors *)
(* are functions on 0 .. n - 1, indexed as the code's slices are.                 *)
EXTENDS Naturals, FiniteSets

CONSTANTS SumTable, ProductTable, InverseTable

F == 0 .. 15
Bit(n, j) == (n \div 2 ^ j) % 2

a ++ b == SumTable[a][b]
a ** b == ProductTable[a][b]
Inv(a) == InverseTable[a]

\* The exclusive or of two numbers below 256.
Xor(a, b) == SumTable[a % 16][b % 16] + 16 * SumTable[a \div 16][b \div 16]

\* The sum and the product of f(0), ..., f(n - 1) in the field.
Total(n, f(_)) == LET s[i \in 0 .. n] == IF i = 0 THEN 0 ELSE s[i - 1] ++ f(i - 1) IN s[n]
Prod(n, f(_)) == LET p[i \in 0 .. n] == IF i = 0 THEN 1 ELSE p[i - 1] ** f(i - 1) IN p[n]

\* f of v, and v itself; v is evaluated once, whatever is done with it.
Given(v, f(_)) == CHOOSE r \in {f(x) : x \in {v}} : TRUE
Strict(v) == CHOOSE u \in {v} : u = v

\* Vectors, their length and their pieces.
Vec(n) == [0 .. n - 1 -> F]
Size(v) == Cardinality(DOMAIN v)
Slice(v, from, n) == [i \in 0 .. n - 1 |-> v[from + i]]
Cat(u, v) == [i \in 0 .. Size(u) + Size(v) - 1 |->
                IF i < Size(u) THEN u[i] ELSE v[i - Size(u)]]
Padded(v, n) == [i \in 0 .. n - 1 |-> IF i < Size(v) THEN v[i] ELSE 0]
Unit(n, j) == [i \in 0 .. n - 1 |-> IF i = j THEN 1 ELSE 0]
VecAdd(u, v) == [i \in DOMAIN u |-> u[i] ++ v[i]]
Scale(c, v) == [i \in DOMAIN v |-> c ** v[i]]
VecTotal(n, size, f(_)) ==
  Given([j \in 0 .. n - 1 |-> Strict(f(j))], LAMBDA v :
    [i \in 0 .. size - 1 |-> Total(n, LAMBDA j : v[j][i])])
Dot(u, v) == Total(Size(u), LAMBDA i : u[i] ** v[i])

\* Binary logarithm of a power of two.
Log2(n) == CHOOSE k \in 0 .. n : 2 ^ k = n

\* eq(r, k): the product of r_j where bit j of k is one and of 1 + r_j where it is zero,
\* and the multilinear extension of a table of 2^n values at a point.
Eq(r, k) == Prod(Size(r), LAMBDA j : IF Bit(k, j) = 1 THEN r[j] ELSE 1 ++ r[j])
EqTable(r) == [k \in 0 .. 2 ^ Size(r) - 1 |-> Eq(r, k)]
Mle(v, r) == Total(Size(v), LAMBDA k : v[k] ** Eq(r, k))
=============================================================================
