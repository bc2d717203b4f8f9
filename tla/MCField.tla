------------------------------- MODULE MCField -------------------------------
(* The tables of the field of sixteen elements, GF(2)[x] / (x^4 + x + 1), which  *)
(* the code's own arithmetic computes with words of two bits, and of its extension *)
(* by a root of y^2 + y + c, which the longer codes take their points from: the     *)
(* element a + b y is a + 16 b.                                                    *)
EXTENDS SmallField

LOCAL Elements == 0 .. 255
\* The exclusive or, bit by bit; a product in GF(16) is one of sums of doubled factors.
LOCAL Xors[m \in Elements] ==
  [n \in Elements |-> IF m = 0 THEN n ELSE ((m + n) % 2) + 2 * Xors[m \div 2][n \div 2]]
LOCAL Doubled(n) == IF n < 8 THEN 2 * n ELSE Xors[3][2 * n - 16]
LOCAL Small[m \in F] ==
  [n \in F |-> IF m = 0 THEN 0 ELSE Xors[(m % 2) * n][Small[m \div 2][Doubled(n)]]]
LOCAL Root(t, p) == CHOOSE c \in F : \A x \in F : t[p[x][x]][x] # c
LOCAL Sums == Strict([m \in Elements |-> Strict(Xors[m])])
LOCAL Products ==
  Given(Strict([m \in F |-> Strict(Small[m])]), LAMBDA p : Given(Root(Xors, p), LAMBDA c :
    Strict([m \in Elements |-> Strict([n \in Elements |->
      Xors[p[m % 16][n % 16]][p[c][p[m \div 16][n \div 16]]]
        + 16 * Xors[p[Xors[m % 16][m \div 16]][Xors[n % 16][n \div 16]]][p[m % 16][n % 16]]])])))
LOCAL Inverses ==
  Given(Products, LAMBDA p : Strict([m \in Elements |-> IF m = 0 THEN 0 ELSE CHOOSE n \in Elements : p[m][n] = 1]))
\* TLC evaluates a definition once, and the value given to a constant at every use.
MCSumTable == Sums
MCProductTable == Products
MCInverseTable == Inverses

-----------------------------------------------------------------------------
LOCAL G == INSTANCE GhashField WITH W <- 2, LowTerms <- {0, 1}
LOCAL Element(n) == [lo |-> {j \in 0 .. 1 : Bit(n, j) = 1}, hi |-> {j \in 0 .. 1 : Bit(n, j + 2) = 1}]
\* The tables of GF(16) are what the code computes.
ASSUME TablesOfTheCode ==
  \A m, n \in F :
    /\ Element(Sums[m][n]) = G!Add(Element(m), Element(n))
    /\ Element(Products[m][n]) = G!software_mul(Element(m), Element(n))
    /\ m # 0 => Element(Inverses[m]) = G!inv(Element(m))
=============================================================================
