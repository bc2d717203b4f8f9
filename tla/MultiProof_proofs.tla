-------------------------- MODULE MultiProof_proofs --------------------------
(***************************************************************************)
(* For a tree of any depth and any set of positions: the prover's walk      *)
(* emits the siblings that the set lacks, level by level and in order, and  *)
(* the verifier accepts that opening and no other.                          *)
(***************************************************************************)
EXTENDS MultiProof, FiniteSetTheorems, WellFoundedInduction, TLAPS

-----------------------------------------------------------------------------
(* Sets of numbers, and sequences of whatever kind.                                *)
LEMMA LeastNat ==
  ASSUME NEW S, S \subseteq Nat, S # {}
  PROVE  \E n \in S : \A m \in S : n <= m
<1>1. IsWellFoundedOn(OpToRel(<, Nat), Nat)
  BY NatLessThanWellFounded, Zenon
<1>2. PICK n \in S : \A m \in S : ~(<<m, n>> \in OpToRel(<, Nat))
  BY <1>1, WFMin, Zenon
<1>3. \A m \in S : ~(m < n)
  BY <1>2 DEF OpToRel
<1> QED
  BY <1>3

(* The sums of a sequence of sequences: each is the one before with one more part. *)
Sums(s, n, d) == d = [h \in 1..n |-> IF h = 1 THEN s[h] ELSE d[h - 1] \o s[h]]

LEMMA SumsExist ==
  ASSUME NEW s, NEW n \in Nat
  PROVE  \E d : Sums(s, n, d)
<1> DEFINE S == {k \in 0..n : ~\E d : Sums(s, k, d)}
<1>1. SUFFICES ASSUME S # {} PROVE FALSE
  OBVIOUS
<1>2. S \subseteq Nat
  OBVIOUS
<1>3. PICK k \in S : \A m \in S : k <= m
  BY <1>1, <1>2, LeastNat
<1>4. k \in 0..n /\ ~\E d : Sums(s, k, d)
  BY <1>3
<1>5. CASE k = 0
  <2> DEFINE d == [h \in 1..0 |-> <<>>]
  <2>1. d = [h \in 1..0 |-> IF h = 1 THEN s[h] ELSE d[h - 1] \o s[h]]
    OBVIOUS
  <2>2. Sums(s, 0, d)
    BY <2>1 DEF Sums
  <2> QED
    BY <1>4, <1>5, <2>2
<1>6. CASE k # 0
  <2>1. k - 1 \in 0..n /\ k - 1 \notin S /\ k \in Nat \ {0}
    BY <1>3, <1>4, <1>6
  <2>2. PICK d : Sums(s, k - 1, d)
    BY <2>1
  <2> DEFINE end == IF k = 1 THEN s[k] ELSE d[k - 1] \o s[k]
             g == [h \in 1..k |-> IF h = k THEN end ELSE d[h]]
             goes(h) == IF h = 1 THEN s[h] ELSE g[h - 1] \o s[h]
  <2>3. ASSUME NEW h \in 1..k PROVE g[h] = goes(h)
    <3>1. CASE h = k
      <4>1. k # 1 => k - 1 \in 1..k /\ k - 1 # k
        BY <2>1
      <4>2. k # 1 => g[k - 1] = d[k - 1]
        BY <4>1
      <4> QED
        BY <3>1, <4>2
    <3>2. CASE h # k
      <4>1. h \in 1..(k - 1) /\ (h # 1 => h - 1 \in 1..k /\ h - 1 # k)
        BY <2>1, <3>2
      <4>2. d[h] = IF h = 1 THEN s[h] ELSE d[h - 1] \o s[h]
        BY <2>2, <4>1 DEF Sums
      <4>3. h # 1 => g[h - 1] = d[h - 1]
        BY <4>1
      <4> QED
        BY <3>2, <4>2, <4>3
    <3> QED
      BY <3>1, <3>2
  <2>4. g = [h \in 1..k |-> g[h]]
    OBVIOUS
  <2>5. g = [h \in 1..k |-> goes(h)]
    <3> HIDE DEF g, goes
    <3> QED
      BY <2>3, <2>4
  <2>6. Sums(s, k, g)
    BY <2>5 DEF Sums
  <2> QED
    BY <1>4, <2>6
<1> QED
  BY <1>5, <1>6

(* FlattenSeq adds the parts from the left. *)
LEMMA FlattenSums ==
  ASSUME NEW T, NEW s \in Seq(Seq(T))
  PROVE  \E d \in [0..Len(s) -> Seq(T)] :
            /\ d[0] = <<>>
            /\ \A h \in 1..Len(s) : d[h] = d[h - 1] \o s[h]
            /\ FlattenSeq(s) = d[Len(s)]
<1> DEFINE n == Len(s)
<1>1. n \in Nat /\ \A h \in 1..n : s[h] \in Seq(T)
  OBVIOUS
<1>2. CASE n = 0
  <2>1. s = <<>>
    BY <1>2
  <2>2. FlattenSeq(s) = <<>>
    BY <2>1 DEF FlattenSeq
  <2> DEFINE d == [h \in 0..0 |-> <<>>]
  <2>3. d \in [0..n -> Seq(T)] /\ d[0] = <<>> /\ FlattenSeq(s) = d[n]
    BY <1>2, <2>2
  <2>4. \A h \in 1..n : d[h] = d[h - 1] \o s[h]
    BY <1>2
  <2> QED
    BY <2>3, <2>4
<1>3. CASE n # 0
  <2> DEFINE f == CHOOSE d : d = [h \in 1..Len(s) |-> IF h = 1 THEN s[h] ELSE d[h - 1] \o s[h]]
  <2>1. FlattenSeq(s) = f[n]
    BY <1>3 DEF FlattenSeq
  <2>2. \E d : d = [h \in 1..Len(s) |-> IF h = 1 THEN s[h] ELSE d[h - 1] \o s[h]]
    BY <1>1, SumsExist DEF Sums
  <2>3. f = [h \in 1..Len(s) |-> IF h = 1 THEN s[h] ELSE f[h - 1] \o s[h]]
    BY <2>2, Zenon
  <2>4. PICK g : g = f
    OBVIOUS
  <2> HIDE DEF f
  <2>5. g = [h \in 1..n |-> IF h = 1 THEN s[h] ELSE g[h - 1] \o s[h]]
    BY <2>3, <2>4
  <2>6. \A h \in 1..n : g[h] = IF h = 1 THEN s[h] ELSE g[h - 1] \o s[h]
    BY <2>5
  <2> DEFINE S == {h \in 1..n : g[h] \notin Seq(T)}
  <2>7. S = {}
    <3>1. SUFFICES ASSUME S # {} PROVE FALSE
      OBVIOUS
    <3>0. S \subseteq Nat
      BY <1>1
    <3>2. PICK h \in S : \A m \in S : h <= m
      BY <3>0, <3>1, LeastNat
    <3>3. h \in 1..n /\ g[h] \notin Seq(T)
      BY <3>2
    <3>4. h # 1
      BY <1>1, <2>6, <3>3
    <3>5. h - 1 \in 1..n /\ h - 1 \notin S
      BY <1>1, <3>2, <3>3, <3>4
    <3>6. g[h] = g[h - 1] \o s[h] /\ g[h - 1] \in Seq(T) /\ s[h] \in Seq(T)
      BY <1>1, <2>6, <3>3, <3>4, <3>5
    <3> QED
      BY <3>3, <3>6
  <2> DEFINE d == [h \in 0..n |-> IF h = 0 THEN <<>> ELSE g[h]]
  <2>8. d \in [0..n -> Seq(T)]
    BY <2>7
  <2>9. ASSUME NEW h \in 1..n PROVE d[h] = d[h - 1] \o s[h]
    <3>1. CASE h = 1
      <4>1. d[0] = <<>> /\ d[1] = s[1] /\ s[1] \in Seq(T)
        BY <1>1, <2>6, <3>1
      <4>2. <<>> \o s[1] = s[1]
        BY <4>1
      <4>3. h - 1 = 0
        BY <3>1
      <4> HIDE DEF d
      <4> QED
        BY <3>1, <4>1, <4>2, <4>3
    <3>2. CASE h # 1
      <4>1. h - 1 \in 0..n /\ h - 1 # 0 /\ h \in 0..n /\ h # 0
        BY <1>1, <3>2
      <4> QED
        BY <2>6, <3>2, <4>1
    <3> QED
      BY <3>1, <3>2
  <2>10. d[0] = <<>> /\ d[n] = g[n]
    BY <1>1, <1>3
  <2> HIDE DEF d, n
  <2> QED
    BY <2>1, <2>4, <2>8, <2>9, <2>10 DEF n
<1> QED
  BY <1>2, <1>3

IsSeq(s) == \E S : s \in Seq(S)

LEMMA AnyNone == IsSeq(<<>>) /\ Len(<<>>) = 0
<1>1. <<>> \in Seq({0})
  OBVIOUS
<1> QED
  BY <1>1 DEF IsSeq

LEMMA AnyOne ==
  ASSUME NEW x
  PROVE  IsSeq(<<x>>) /\ Len(<<x>>) = 1 /\ <<x>>[1] = x
<1>1. <<x>> \in Seq({x})
  OBVIOUS
<1> QED
  BY <1>1 DEF IsSeq

LEMMA AnyLength ==
  ASSUME NEW s, IsSeq(s)
  PROVE  Len(s) \in Nat /\ DOMAIN s = 1..Len(s)
<1>1. PICK S : s \in Seq(S)
  BY DEF IsSeq
<1> QED
  BY <1>1

LEMMA AnyAppend ==
  ASSUME NEW s, IsSeq(s), NEW x
  PROVE  /\ IsSeq(Append(s, x)) /\ Len(Append(s, x)) = Len(s) + 1
         /\ \A h \in 1..Len(s) : Append(s, x)[h] = s[h]
         /\ Append(s, x)[Len(s) + 1] = x
<1>1. PICK S : s \in Seq(S)
  BY DEF IsSeq
<1>2. PICK U : U = S \cup {x}
  OBVIOUS
<1>3. s \in Seq(U) /\ x \in U
  <2>1. S \subseteq U /\ x \in U
    BY <1>2
  <2> QED
    BY <1>1, <2>1
<1>4. Append(s, x) \in Seq(U)
  BY <1>3
<1>5. IsSeq(Append(s, x))
  BY <1>4 DEF IsSeq
<1>6. /\ Len(Append(s, x)) = Len(s) + 1
      /\ \A h \in 1..Len(s) : Append(s, x)[h] = s[h]
      /\ Append(s, x)[Len(s) + 1] = x
  BY <1>3
<1> QED
  BY <1>5, <1>6

LEMMA AnyPart ==
  ASSUME NEW s, IsSeq(s), NEW k \in 0..Len(s)
  PROVE  /\ IsSeq(SubSeq(s, 1, k)) /\ Len(SubSeq(s, 1, k)) = k
         /\ \A h \in 1..k : SubSeq(s, 1, k)[h] = s[h]
<1>1. PICK S : s \in Seq(S)
  BY DEF IsSeq
<1>2. SubSeq(s, 1, k) \in Seq(S)
  BY <1>1
<1>3. IsSeq(SubSeq(s, 1, k))
  BY <1>2 DEF IsSeq
<1> QED
  BY <1>1, <1>3

LEMMA AnySame ==
  ASSUME NEW s, NEW t, IsSeq(s), IsSeq(t), Len(s) = Len(t), \A h \in 1..Len(s) : s[h] = t[h]
  PROVE  s = t
<1>1. PICK S : s \in Seq(S)
  BY DEF IsSeq
<1>2. PICK U : t \in Seq(U)
  BY DEF IsSeq
<1> QED
  BY <1>1, <1>2


-----------------------------------------------------------------------------
(* A list of the elements of a set in order.                                       *)
Rising(a) == a \in Seq(Nat) /\ \A h, j \in 1..Len(a) : h < j => a[h] < a[j]
Elements(a) == {a[h] : h \in 1..Len(a)}
Orders(a, S) == Rising(a) /\ Elements(a) = S

Below(S, x) == {y \in S : y < x}

LEMMA OrdersNone == Orders(<<>>, {})
BY DEF Orders, Rising, Elements

(* No two lists are in order and have the same elements. *)
LEMMA NoneEarlier ==
  ASSUME NEW a, NEW b, Rising(a), Rising(b), Elements(a) = Elements(b),
         NEW h \in 1..Len(a), \A j \in 1..(h - 1) : j \in 1..Len(b) /\ a[j] = b[j]
  PROVE  h \in 1..Len(b) /\ b[h] <= a[h]
<1>1. Len(a) \in Nat /\ Len(b) \in Nat /\ a \in Seq(Nat) /\ b \in Seq(Nat)
  BY DEF Rising
<1>2. PICK m \in 1..Len(b) : b[m] = a[h]
  BY DEF Elements
<1>3. ~(m < h)
  <2> SUFFICES ASSUME m < h PROVE FALSE
    OBVIOUS
  <2>1. m \in 1..(h - 1) /\ m \in 1..Len(a)
    BY <1>1
  <2>2. a[m] = a[h] /\ a[m] < a[h] /\ a[h] \in Nat
    BY <1>1, <1>2, <2>1 DEF Rising
  <2> QED
    BY <2>2
<1>4. h \in 1..Len(b) /\ (h = m \/ h < m)
  BY <1>1, <1>3
<1>5. b[h] \in Nat /\ b[m] \in Nat /\ (h < m => b[h] < b[m])
  BY <1>1, <1>4, SMTT(30) DEF Rising
<1> QED
  BY <1>2, <1>4, <1>5

LEMMA OrdersOnly ==
  ASSUME NEW a, NEW b, NEW S, Orders(a, S), Orders(b, S)
  PROVE  a = b
<1>1. Rising(a) /\ Rising(b) /\ Elements(a) = Elements(b)
  BY DEF Orders
<1>2. Len(a) \in Nat /\ Len(b) \in Nat /\ a \in Seq(Nat) /\ b \in Seq(Nat)
  BY <1>1 DEF Rising
<1> DEFINE Off == {h \in 1..Len(a) : ~(h \in 1..Len(b) /\ a[h] = b[h])}
<1>3. Off = {}
  <2> SUFFICES ASSUME Off # {} PROVE FALSE
    OBVIOUS
  <2>1. Off \subseteq Nat
    BY <1>2
  <2>2. PICK h \in Off : \A m \in Off : h <= m
    BY <2>1, LeastNat
  <2>3. PICK n \in Nat : n = Len(a)
    BY <1>2
  <2>4. h \in 1..n /\ \A j \in 1..(h - 1) : j \in 1..n /\ ~(h <= j)
    BY <2>2, <2>3
  <2>5. \A j \in 1..(h - 1) : j \in 1..Len(b) /\ a[j] = b[j]
    BY <2>2, <2>3, <2>4
  <2>6. h \in 1..Len(b) /\ b[h] <= a[h]
    BY <1>1, <2>3, <2>4, <2>5, NoneEarlier
  <2>7. \A j \in 1..(h - 1) : j \in 1..Len(a) /\ b[j] = a[j]
    BY <2>3, <2>4, <2>5
  <2>8. a[h] <= b[h]
    BY <1>1, <2>6, <2>7, NoneEarlier
  <2>9. a[h] \in Nat /\ b[h] \in Nat
    BY <1>2, <2>3, <2>4, <2>6, SMTT(30)
  <2>10. a[h] = b[h]
    BY <2>6, <2>8, <2>9
  <2> QED
    BY <2>2, <2>6, <2>10
<1>4. Len(a) = Len(b)
  <2>1. \A h \in 1..Len(a) : h \in 1..Len(b) /\ a[h] = b[h]
    BY <1>3
  <2>2. Len(a) <= Len(b)
    BY <1>2, <2>1
  <2> SUFFICES ASSUME Len(a) < Len(b) PROVE FALSE
    BY <1>2, <2>2
  <2>3. PICK n \in 1..Len(b) : n = Len(a) + 1
    BY <1>2, SMTT(30)
  <2>4. PICK m \in 1..Len(a) : a[m] = b[n]
    BY <1>1 DEF Elements
  <2>5. m < n /\ m \in 1..Len(b) /\ b[m] = b[n]
    BY <1>2, <2>1, <2>3, <2>4
  <2>6. b[m] < b[n] /\ b[n] \in Nat
    BY <1>1, <1>2, <2>5 DEF Rising
  <2> QED
    BY <2>5, <2>6
<1> QED
  BY <1>2, <1>3, <1>4, SMTT(30)

(* A list goes on with something above all its elements. *)
LEMMA OrdersMore ==
  ASSUME NEW a, NEW S, Orders(a, S), NEW x \in Nat, \A y \in S : y < x
  PROVE  Orders(Append(a, x), S \cup {x})
<1>1. a \in Seq(Nat) /\ Len(a) \in Nat
  BY DEF Orders, Rising
<1>2. PICK b, n : b = Append(a, x) /\ n = Len(a)
  OBVIOUS
<1>3. b \in Seq(Nat) /\ Len(b) = n + 1 /\ b[n + 1] = x /\ \A h \in 1..n : b[h] = a[h]
  BY <1>1, <1>2
<1>4. \A h \in 1..n : a[h] \in S
  BY <1>2 DEF Orders, Elements
<1>5. Rising(b)
  <2>1. ASSUME NEW h \in 1..Len(b), NEW j \in 1..Len(b), h < j
        PROVE  b[h] < b[j]
    <3>1. h \in 1..n /\ (j \in 1..n \/ j = n + 1)
      BY <1>1, <1>2, <1>3, <2>1, SMTT(30)
    <3>2. CASE j \in 1..n
      BY <1>2, <1>3, <2>1, <3>1, <3>2 DEF Orders, Rising
    <3>3. CASE j = n + 1
      BY <1>3, <1>4, <3>1, <3>3
    <3> QED
      BY <3>1, <3>2, <3>3
  <2> QED
    BY <1>3, <2>1 DEF Rising
<1>6. Elements(b) = S \cup {x}
  <2>1. \A y \in S : \E h \in 1..n : a[h] = y
    BY <1>2 DEF Orders, Elements
  <2>2. 1..Len(b) = 1..n \cup {n + 1}
    BY <1>1, <1>2, <1>3
  <2>3. \A h \in 1..Len(b) : b[h] \in S \cup {x}
    BY <1>3, <1>4, <2>2
  <2>4. \A y \in S \cup {x} : \E h \in 1..Len(b) : b[h] = y
    BY <1>3, <2>1, <2>2
  <2> QED
    BY <2>3, <2>4 DEF Elements
<1> QED
  BY <1>2, <1>5, <1>6 DEF Orders

(* The length of a list, and of a longer one. *)
LEMMA OrdersSize ==
  ASSUME NEW a, NEW S, Orders(a, S)
  PROVE  IsFiniteSet(S) /\ Len(a) = Cardinality(S) /\ Len(a) \in Nat /\ S \subseteq Nat
<1>1. a \in Seq(Nat) /\ Len(a) \in Nat /\ Rising(a) /\ S = {a[h] : h \in 1..Len(a)}
  BY DEF Orders, Rising, Elements
<1>2. PICK n \in Nat : n = Len(a)
  BY <1>1
<1>3. a \in [1..n -> S]
  BY <1>1, <1>2
<1>4. \A h, j \in 1..n : h # j => a[h] # a[j]
  <2> TAKE h, j \in 1..n
  <2>1. a[h] \in Nat /\ a[j] \in Nat /\ (h < j => a[h] < a[j]) /\ (j < h => a[j] < a[h])
    BY <1>1, <1>2 DEF Rising
  <2> QED
    BY <1>2, <2>1
<1>5. a \in Bijection(1..n, S)
  <2>1. a \in Injection(1..n, S)
    BY <1>3, <1>4 DEF Injection, IsInjective
  <2>2. a \in Surjection(1..n, S)
    BY <1>1, <1>2, <1>3 DEF Surjection
  <2> QED
    BY <2>1, <2>2 DEF Bijection
<1>6. ExistsBijection(1..n, S)
  BY <1>5 DEF ExistsBijection
<1>7. IsFiniteSet(S) /\ Cardinality(S) = n
  BY <1>6, FS_NatBijection, FS_CountingElements
<1>8. S \subseteq Nat
  BY <1>1
<1> QED
  BY <1>2, <1>7, <1>8

LEMMA OrdersLess ==
  ASSUME NEW a, NEW S, Orders(a, S), NEW b, NEW U, Orders(b, U), S \subseteq U
  PROVE  Len(a) \in Nat /\ Len(b) \in Nat /\ Len(a) <= Len(b) /\ (S # U => Len(a) < Len(b))
<1>1. /\ IsFiniteSet(U) /\ Len(b) = Cardinality(U) /\ Len(b) \in Nat
      /\ Len(a) = Cardinality(S) /\ Len(a) \in Nat
  BY OrdersSize
<1>2. Cardinality(S) <= Cardinality(U) /\ (Cardinality(U) = Cardinality(S) => S = U)
  BY <1>1, FS_Subset
<1> QED
  BY <1>1, <1>2

(* Ascending is that list. *)
LEMMA RankGrows ==
  ASSUME NEW S, S \subseteq Nat, IsFiniteSet(S), NEW x \in S, NEW y \in S
  PROVE  /\ Cardinality(Below(S, x)) \in 0..(Cardinality(S) - 1)
         /\ x < y => Cardinality(Below(S, x)) < Cardinality(Below(S, y))
<1>1. \A z \in S : Below(S, z) \subseteq S /\ z \in S \ Below(S, z) /\ z \in Nat
  BY DEF Below
<1>2. \A z \in S : IsFiniteSet(Below(S, z)) /\ Cardinality(Below(S, z)) \in Nat
  BY <1>1, FS_Subset, FS_CardinalityType
<1>3. Cardinality(S) \in Nat
  BY FS_CardinalityType
<1>4. Cardinality(Below(S, x)) < Cardinality(S)
  <2>1. Cardinality(Below(S, x)) <= Cardinality(S) /\ (Cardinality(S) = Cardinality(Below(S, x)) => S = Below(S, x))
    BY <1>1, FS_Subset
  <2>2. S # Below(S, x)
    BY <1>1
  <2> QED
    BY <1>2, <1>3, <2>1, <2>2
<1>5. ASSUME x < y
      PROVE  Cardinality(Below(S, x)) < Cardinality(Below(S, y))
  <2>1. Below(S, x) \subseteq Below(S, y) /\ x \in Below(S, y) \ Below(S, x)
    <3>1. \A z \in S : z \in Nat /\ (z < x => z < y)
      BY <1>5
    <3>2. \A z : (z \in Below(S, x) <=> z \in S /\ z < x) /\ (z \in Below(S, y) <=> z \in S /\ z < y)
      BY DEF Below
    <3>3. ~(x < x)
      BY <1>1
    <3> QED
      BY <1>5, <3>1, <3>2, <3>3
  <2>2. /\ Cardinality(Below(S, x)) <= Cardinality(Below(S, y))
        /\ Cardinality(Below(S, y)) = Cardinality(Below(S, x)) => Below(S, y) = Below(S, x)
    BY <1>2, <2>1, FS_Subset
  <2> QED
    BY <1>2, <2>1, <2>2
<1> QED
  BY <1>2, <1>3, <1>4, <1>5

LEMMA AscendingOrders ==
  ASSUME NEW S, S \subseteq Nat, IsFiniteSet(S)
  PROVE  Orders(Ascending(S), S)
<1>1. PICK n \in Nat : n = Cardinality(S)
  BY FS_CardinalityType
<1>a. ASSUME NEW x \in S, NEW y \in S
      PROVE  /\ Cardinality(Below(S, x)) \in 0..(n - 1) /\ Cardinality(Below(S, x)) \in Nat
             /\ x < y => Cardinality(Below(S, x)) < Cardinality(Below(S, y))
  <2>1. /\ Cardinality(Below(S, x)) \in 0..(Cardinality(S) - 1)
        /\ x < y => Cardinality(Below(S, x)) < Cardinality(Below(S, y))
    BY RankGrows
  <2>2. PICK k : k = Cardinality(Below(S, x))
    OBVIOUS
  <2>3. k \in 0..(n - 1) /\ k \in Nat
    BY <1>1, <2>1, <2>2
  <2> QED
    BY <2>1, <2>2, <2>3
<1> DEFINE rank == [x \in S |-> Cardinality(Below(S, x)) + 1]
<1>2. \A x \in S : rank[x] \in 1..n
  BY <1>a
<1>3. \A x, y \in S : x < y => rank[x] < rank[y]
  <2> TAKE x, y \in S
  <2>1. /\ Cardinality(Below(S, x)) \in Nat /\ Cardinality(Below(S, y)) \in Nat
        /\ x < y => Cardinality(Below(S, x)) < Cardinality(Below(S, y))
    BY <1>a
  <2> QED
    BY <2>1
<1>4. \A x, y \in S : rank[x] = rank[y] => x = y
  BY <1>2, <1>3
<1>5. \A k \in 1..n : \E x \in S : rank[x] = k
  <2>1. rank \in Injection(S, 1..n)
    <3>1. rank \in [S -> 1..n]
      BY <1>2
    <3> QED
      BY <1>4, <3>1 DEF Injection, IsInjective
  <2>2. IsFiniteSet(1..n) /\ Cardinality(1..n) = n
    BY FS_Interval
  <2>3. rank \in Surjection(S, 1..n)
    <3>1. PICK r, T : r = rank /\ T = 1..n
      OBVIOUS
    <3>2. r \in Injection(S, T) /\ IsFiniteSet(T) /\ Cardinality(S) = Cardinality(T)
      BY <1>1, <2>1, <2>2, <3>1
    <3>3. r \in Surjection(S, T)
      BY <3>2, FS_Injection
    <3> QED
      BY <3>1, <3>3
  <2> QED
    BY <2>3 DEF Surjection
<1>6. PICK a : a = Ascending(S)
  OBVIOUS
<1>7. ASSUME NEW k \in 1..n
      PROVE  a[k] \in S /\ rank[a[k]] = k
  <2>1. PICK x \in S : rank[x] = k
    BY <1>5
  <2>2. \A y \in S : rank[y] = k <=> Cardinality(Below(S, y)) = k - 1
    <3> TAKE y \in S
    <3>1. Cardinality(Below(S, y)) \in Nat
      BY <1>a
    <3> QED
      BY <3>1
  <2>3. a[k] = CHOOSE y \in S : Cardinality(Below(S, y)) = k - 1
    BY <1>1, <1>6 DEF Ascending, Below
  <2> QED
    BY <2>1, <2>2, <2>3
<1>8. a \in Seq(Nat) /\ Len(a) = n
  <2>1. a = [k \in 1..n |-> a[k]]
    BY <1>1, <1>6, SMTT(30) DEF Ascending
  <2>2. \A k \in 1..n : a[k] \in Nat
    BY <1>7
  <2> QED
    BY <2>1, <2>2
<1> HIDE DEF rank
<1>9. Rising(a)
  <2>1. ASSUME NEW h \in 1..n, NEW j \in 1..n, h < j
        PROVE  a[h] < a[j]
    <3>1. PICK x \in S, y \in S : x = a[h] /\ y = a[j]
      BY <1>7
    <3>2. rank[x] = h /\ rank[y] = j /\ x \in Nat /\ y \in Nat /\ h \in Nat /\ j \in Nat
      BY <1>7, <3>1
    <3>3. y < x => j < h
      BY <1>3, <3>2
    <3>4. ~(y < x) /\ x # y
      BY <2>1, <3>2, <3>3
    <3> QED
      BY <3>1, <3>2, <3>4
  <2> QED
    BY <1>8, <2>1 DEF Rising
<1>10. Elements(a) = S
  <2>1. ASSUME NEW x \in S
        PROVE  \E k \in 1..n : a[k] = x
    <3>1. rank[x] \in 1..n
      BY <1>2
    <3>2. PICK k \in 1..n : k = rank[x]
      BY <3>1
    <3>3. a[k] = x
      BY <1>4, <1>7, <3>2
    <3> QED
      BY <3>3
  <2> QED
    BY <1>7, <1>8, <2>1 DEF Elements
<1> QED
  BY <1>6, <1>9, <1>10 DEF Orders

-----------------------------------------------------------------------------
(* Going up one level: A lists the nodes S there, the first h - 1 have been joined, *)
(* and N lists their parents.                                                      *)
Upto(A, h) == {A[k] : k \in 1..(h - 1)}
Half(S) == {Parent(p) : p \in S}
Lacking(S, Q) == {Sibling(p) : p \in Q} \ S

Apart(A, h) == \A k \in 1..(h - 1), m \in h..Len(A) : Parent(A[k]) < Parent(A[m])
Climb(A, S, h, N) ==
    /\ Orders(A, S) /\ h \in 1..(Len(A) + 1)
    /\ Apart(A, h)
    /\ Orders(N, Half(Upto(A, h)))

LEMMA Siblings ==
  ASSUME NEW p \in Nat
  PROVE  /\ Parent(p) \in Nat /\ Sibling(p) \in Nat /\ Parent(Sibling(p)) = Parent(p) /\ Sibling(Sibling(p)) = p
         /\ \A q \in Nat : Parent(q) = Parent(p) => q = p \/ q = Sibling(p)
         /\ \A q \in Nat : p < q => Parent(p) <= Parent(q)
         /\ \A q \in Nat : Parent(p) < Parent(q) => p < q /\ Sibling(p) < Sibling(q)
         /\ Sibling(p) = (IF p % 2 = 0 THEN p + 1 ELSE p - 1) /\ p % 2 \in {0, 1} /\ p # Sibling(p)
<1>1. \A q \in Nat : q = (2 * (q \div 2)) + (q % 2) /\ q % 2 \in {0, 1} /\ q \div 2 \in Nat
  OBVIOUS
<1>2. /\ Sibling(p) \in Nat /\ Parent(p) \in Nat /\ p % 2 \in {0, 1}
      /\ Sibling(p) = (IF p % 2 = 0 THEN p + 1 ELSE p - 1) /\ p # Sibling(p)
  BY <1>1 DEF Sibling, Parent
<1>3. Parent(Sibling(p)) = Parent(p)
  BY <1>1 DEF Sibling, Parent
<1>4. Sibling(Sibling(p)) = p
  BY <1>1 DEF Sibling
<1>5. ASSUME NEW q \in Nat
      PROVE  /\ Parent(q) = Parent(p) => q = p \/ q = Sibling(p)
             /\ p < q => Parent(p) <= Parent(q)
             /\ Parent(p) < Parent(q) => p < q /\ Sibling(p) < Sibling(q)
  <2>1. PICK a, b, c, d : a = p \div 2 /\ b = p % 2 /\ c = q \div 2 /\ d = q % 2
    OBVIOUS
  <2>2. a \in Nat /\ c \in Nat /\ b \in {0, 1} /\ d \in {0, 1} /\ p = 2 * a + b /\ q = 2 * c + d
    BY <1>1, <2>1
  <2>3. Parent(p) = a /\ Parent(q) = c /\ Sibling(p) = (2 * a + 1) - b /\ Sibling(q) = (2 * c + 1) - d
    BY <2>1, <2>2 DEF Parent, Sibling
  <2> QED
    BY <2>2, <2>3
<1> QED
  BY <1>2, <1>3, <1>4, <1>5

LEMMA ClimbBegins ==
  ASSUME NEW A, NEW S, Orders(A, S)
  PROVE  Climb(A, S, 1, <<>>) /\ Lacking(S, Upto(A, 1)) = {}
<1>1. Upto(A, 1) = {}
  BY DEF Upto
<1>2. Half({}) = {} /\ Lacking(S, {}) = {}
  BY DEF Half, Lacking
<1>3. Apart(A, 1)
  BY DEF Apart
<1>4. 1 \in 1..(Len(A) + 1)
  BY OrdersSize
<1> QED
  BY <1>1, <1>2, <1>3, <1>4, OrdersNone DEF Climb

LEMMA ClimbEnds ==
  ASSUME NEW A, NEW S, NEW h, NEW N, Climb(A, S, h, N), ~(h <= Len(A))
  PROVE  Upto(A, h) = S /\ Orders(N, Half(S))
<1>1. h = Len(A) + 1 /\ Len(A) \in Nat
  BY OrdersSize DEF Climb
<1>2. 1..(h - 1) = 1..Len(A)
  BY <1>1
<1>3. Upto(A, h) = Elements(A)
  BY <1>2 DEF Upto, Elements
<1> QED
  BY <1>3 DEF Climb, Orders

(* Where the walk is. *)
LEMMA ClimbPlace ==
  ASSUME NEW A, NEW S, NEW h, NEW N, Climb(A, S, h, N), h <= Len(A)
  PROVE  /\ h \in 1..Len(A) /\ Len(A) \in Nat /\ A[h] \in S /\ A[h] \in Nat /\ S \subseteq Nat
         /\ Upto(A, h) \subseteq S
         /\ \A k \in 1..Len(A) : A[k] \in Nat /\ A[k] \in S
         /\ \A k, m \in 1..Len(A) : k < m => A[k] < A[m]
         /\ \A q \in S : q \in Upto(A, h) \/ \E m \in h..Len(A) : q = A[m]
         /\ \A q \in Upto(A, h) : \A m \in h..Len(A) : Parent(q) < Parent(A[m])
<1>1. Len(A) \in Nat /\ S \subseteq Nat /\ A \in Seq(Nat) /\ S = {A[k] : k \in 1..Len(A)}
  BY OrdersSize DEF Climb, Orders, Rising, Elements
<1>2. PICK n \in Nat : n = Len(A)
  BY <1>1
<1>3. h \in 1..n /\ 1..(h - 1) \subseteq 1..n /\ 1..n = 1..(h - 1) \cup h..n
  BY <1>2 DEF Climb
<1>4. \A k \in 1..n : A[k] \in Nat /\ A[k] \in S
  BY <1>1, <1>2
<1>5. \A k, m \in 1..n : k < m => A[k] < A[m]
  BY <1>2 DEF Climb, Orders, Rising
<1>6. Upto(A, h) \subseteq S
  BY <1>3, <1>4 DEF Upto
<1>7. \A q \in S : q \in Upto(A, h) \/ \E m \in h..n : q = A[m]
  BY <1>1, <1>2, <1>3 DEF Upto
<1>8. \A q \in Upto(A, h) : \A m \in h..n : Parent(q) < Parent(A[m])
  BY <1>2 DEF Climb, Upto, Apart
<1> QED
  BY <1>1, <1>2, <1>3, <1>4, <1>5, <1>6, <1>7, <1>8

LEMMA UptoMore ==
  ASSUME NEW A, NEW h \in Nat, h >= 1
  PROVE  Upto(A, h + 1) = Upto(A, h) \cup {A[h]} /\ Upto(A, h + 2) = Upto(A, h) \cup {A[h], A[h + 1]}
<1>1. 1..((h + 1) - 1) = 1..(h - 1) \cup {h} /\ 1..((h + 2) - 1) = 1..(h - 1) \cup {h, h + 1}
  OBVIOUS
<1> QED
  BY <1>1 DEF Upto

LEMMA HalfMore ==
  ASSUME NEW A, NEW S, NEW h, NEW N, Climb(A, S, h, N), h <= Len(A)
  PROVE  Orders(Append(N, Parent(A[h])), Half(Upto(A, h)) \cup {Parent(A[h])})
<1>0. PICK p : p = A[h]
  OBVIOUS
<1>1. PICK x : x = Parent(p)
  OBVIOUS
<1>2. x \in Nat /\ \A q \in Upto(A, h) : Parent(q) < x
  <2>1. p \in Nat /\ h \in 1..Len(A) /\ Len(A) \in Nat /\ \A q \in Upto(A, h) : \A m \in h..Len(A) : Parent(q) < Parent(A[m])
    BY <1>0, ClimbPlace
  <2>2. h \in h..Len(A)
    BY <2>1
  <2> QED
    BY <1>0, <1>1, <2>1, <2>2, Siblings
<1>3. \A y \in Half(Upto(A, h)) : y < x
  BY <1>2 DEF Half
<1>4. Orders(N, Half(Upto(A, h)))
  BY DEF Climb
<1> QED
  BY <1>0, <1>1, <1>2, <1>3, <1>4, OrdersMore

(* A node with its sibling beside it is joined with it. *)
LEMMA ClimbPair ==
  ASSUME NEW A, NEW S, NEW h, NEW N, Climb(A, S, h, N), h < Len(A), A[h + 1] = Sibling(A[h])
  PROVE  /\ Climb(A, S, h + 2, Append(N, Parent(A[h])))
         /\ Lacking(S, Upto(A, h + 2)) = Lacking(S, Upto(A, h))
         /\ A[h] % 2 = 0
<1>0. h <= Len(A) /\ h \in Nat /\ h >= 1
  <2>1. Len(A) \in Nat /\ h \in 1..(Len(A) + 1)
    BY OrdersSize DEF Climb
  <2> QED
    BY <2>1
<1>1. /\ h \in 1..Len(A) /\ Len(A) \in Nat /\ A[h] \in S /\ A[h] \in Nat /\ S \subseteq Nat
      /\ \A k \in 1..Len(A) : A[k] \in Nat /\ A[k] \in S
      /\ \A k, m \in 1..Len(A) : k < m => A[k] < A[m]
  BY <1>0, ClimbPlace
<1>a. Orders(A, S) /\ Apart(A, h)
  BY DEF Climb
<1>2. PICK n \in Nat : n = Len(A)
  BY <1>1
<1>3. h \in 1..n /\ h + 1 \in 1..n /\ h < h + 1
  BY <1>0, <1>1, <1>2
<1>4. PICK p, s : p = A[h] /\ s = A[h + 1]
  OBVIOUS
<1>5. p \in Nat /\ p \in S /\ s \in Nat /\ s \in S /\ p < s /\ s = Sibling(p) /\ p = Sibling(s)
  BY <1>1, <1>2, <1>3, <1>4, Siblings
<1>6. p % 2 = 0 /\ s = p + 1 /\ Parent(s) = Parent(p)
  <2>1. s = (IF p % 2 = 0 THEN p + 1 ELSE p - 1) /\ Parent(s) = Parent(p)
    BY <1>5, Siblings
  <2> QED
    BY <1>5, <2>1
<1>7. Upto(A, h + 2) = Upto(A, h) \cup {p, s}
  BY <1>0, <1>4, UptoMore
<1>8. Half(Upto(A, h + 2)) = Half(Upto(A, h)) \cup {Parent(A[h])}
  BY <1>4, <1>6, <1>7 DEF Half
<1>9. Lacking(S, Upto(A, h + 2)) = Lacking(S, Upto(A, h))
  BY <1>5, <1>7 DEF Lacking
<1>10. Apart(A, h + 2)
  <2>1. ASSUME NEW k \in 1..((h + 2) - 1), NEW m \in (h + 2)..n
        PROVE  Parent(A[k]) < Parent(A[m])
    <3>1. m \in 1..n /\ m \in h..n /\ h + 1 < m /\ (k \in 1..(h - 1) \/ k = h \/ k = h + 1)
      BY <1>2, <1>3
    <3>2. CASE k \in 1..(h - 1)
      BY <1>a, <1>2, <3>1, <3>2 DEF Apart
    <3>3. CASE k = h \/ k = h + 1
      <4>1. PICK q : q = A[m]
        OBVIOUS
      <4>2. q \in Nat /\ s < q
        BY <1>1, <1>2, <1>3, <1>4, <3>1, <4>1
      <4>3. q # p /\ q # s /\ p < q
        BY <1>5, <4>2
      <4>4. Parent(p) <= Parent(q) /\ Parent(q) # Parent(p) /\ Parent(p) \in Nat /\ Parent(q) \in Nat
        BY <1>5, <4>2, <4>3, Siblings
      <4> QED
        BY <1>4, <1>6, <3>3, <4>1, <4>4, SMTT(30)
    <3> QED
      BY <3>1, <3>2, <3>3
  <2> QED
    BY <1>2, <2>1 DEF Apart
<1>11. Orders(Append(N, Parent(A[h])), Half(Upto(A, h + 2)))
  <2>1. Orders(Append(N, Parent(A[h])), Half(Upto(A, h)) \cup {Parent(A[h])})
    BY <1>0, HalfMore
  <2> QED
    BY <1>8, <2>1
<1>12. h + 2 \in 1..(Len(A) + 1)
  BY <1>2, <1>3
<1>13. Climb(A, S, h + 2, Append(N, Parent(A[h])))
  BY <1>a, <1>10, <1>11, <1>12 DEF Climb
<1> QED
  BY <1>4, <1>6, <1>9, <1>13

(* The sibling of a lone node is missing, and above those that were missing before. *)
LEMMA ClimbLone ==
  ASSUME NEW A, NEW S, NEW h, NEW N, Climb(A, S, h, N), h <= Len(A),
         ~(h < Len(A) /\ A[h + 1] = Sibling(A[h]))
  PROVE  /\ Climb(A, S, h + 1, Append(N, Parent(A[h])))
         /\ Lacking(S, Upto(A, h + 1)) = Lacking(S, Upto(A, h)) \cup {Sibling(A[h])}
         /\ Sibling(A[h]) \in Nat /\ \A y \in Lacking(S, Upto(A, h)) : y < Sibling(A[h])
<1>1. /\ h \in 1..Len(A) /\ Len(A) \in Nat /\ A[h] \in S /\ A[h] \in Nat /\ S \subseteq Nat
      /\ \A k \in 1..Len(A) : A[k] \in Nat /\ A[k] \in S
      /\ \A k, m \in 1..Len(A) : k < m => A[k] < A[m]
      /\ \A q \in S : q \in Upto(A, h) \/ \E m \in h..Len(A) : q = A[m]
      /\ \A q \in Upto(A, h) : \A m \in h..Len(A) : Parent(q) < Parent(A[m])
      /\ Upto(A, h) \subseteq S
  BY ClimbPlace
<1>0. Orders(A, S) /\ Apart(A, h)
  BY DEF Climb
<1>2. PICK n \in Nat : n = Len(A)
  BY <1>1
<1>3. h \in 1..n /\ h \in h..n
  BY <1>1, <1>2
<1>4. PICK p, s : p = A[h] /\ s = Sibling(p)
  OBVIOUS
<1>5. p \in Nat /\ s \in Nat /\ p # s /\ Parent(s) = Parent(p)
  BY <1>1, <1>4, Siblings
<1>6. s \notin S
  <2> SUFFICES ASSUME s \in S PROVE FALSE
    OBVIOUS
  <2>1. s \notin Upto(A, h)
    <3>1. s \in Upto(A, h) => Parent(s) < Parent(p)
      BY <1>1, <1>2, <1>3, <1>4
    <3>2. Parent(p) \in Nat
      BY <1>5, Siblings
    <3> QED
      BY <1>5, <3>1, <3>2
  <2>2. PICK m \in h..n : s = A[m]
    BY <1>1, <1>2, <2>1
  <2>3. m # h /\ m \in 1..n /\ h < m /\ h + 1 \in 1..n /\ (h + 1 = m \/ h + 1 < m) /\ h < h + 1
    BY <1>3, <1>4, <1>5, <2>2
  <2>4. PICK r : r = A[h + 1]
    OBVIOUS
  <2>5. p < s /\ p < r /\ (r = s \/ r < s) /\ r \in Nat
    BY <1>1, <1>2, <1>3, <1>4, <2>2, <2>3, <2>4
  <2>6. s = p + 1
    <3>1. s = IF p % 2 = 0 THEN p + 1 ELSE p - 1
      BY <1>4, <1>5, Siblings
    <3> QED
      BY <1>5, <2>5, <3>1
  <2>7. r = s
    BY <1>5, <2>5, <2>6
  <2> QED
    BY <1>2, <1>3, <1>4, <2>3, <2>4, <2>7
<1>7. Upto(A, h + 1) = Upto(A, h) \cup {p}
  BY <1>3, <1>4, UptoMore
<1>8. Half(Upto(A, h + 1)) = Half(Upto(A, h)) \cup {Parent(A[h])}
  BY <1>4, <1>7 DEF Half
<1>9. Lacking(S, Upto(A, h + 1)) = Lacking(S, Upto(A, h)) \cup {s}
  BY <1>4, <1>6, <1>7 DEF Lacking
<1>10. Apart(A, h + 1)
  <2>1. ASSUME NEW k \in 1..((h + 1) - 1), NEW m \in (h + 1)..n
        PROVE  Parent(A[k]) < Parent(A[m])
    <3>1. m \in 1..n /\ m \in h..n /\ h < m /\ (k \in 1..(h - 1) \/ k = h)
      BY <1>2, <1>3
    <3>2. CASE k \in 1..(h - 1)
      BY <1>0, <1>2, <3>1, <3>2 DEF Apart
    <3>3. CASE k = h
      <4>1. PICK q : q = A[m]
        OBVIOUS
      <4>2. q \in Nat /\ p < q /\ q \in S
        BY <1>1, <1>2, <1>3, <1>4, <3>1, <4>1
      <4>3. q # p /\ q # s
        BY <1>5, <1>6, <4>2
      <4>4. Parent(p) <= Parent(q) /\ Parent(q) # Parent(p) /\ Parent(p) \in Nat /\ Parent(q) \in Nat
        BY <1>4, <1>5, <4>2, <4>3, Siblings
      <4> QED
        BY <1>4, <3>3, <4>1, <4>4
    <3> QED
      BY <3>1, <3>2, <3>3
  <2> QED
    BY <1>2, <2>1 DEF Apart
<1>11. Orders(Append(N, Parent(A[h])), Half(Upto(A, h + 1)))
  <2>1. Orders(Append(N, Parent(A[h])), Half(Upto(A, h)) \cup {Parent(A[h])})
    BY HalfMore
  <2> QED
    BY <1>8, <2>1
<1>12. h + 1 \in 1..(Len(A) + 1)
  BY <1>2, <1>3
<1>13. Climb(A, S, h + 1, Append(N, Parent(A[h])))
  BY <1>0, <1>10, <1>11, <1>12 DEF Climb
<1>14. \A y \in Lacking(S, Upto(A, h)) : y < s
  <2>1. ASSUME NEW q \in Upto(A, h) PROVE Sibling(q) < s
    <3>1. q \in Nat /\ Parent(q) < Parent(p)
      BY <1>1, <1>2, <1>3, <1>4
    <3> QED
      BY <1>4, <1>5, <3>1, Siblings
  <2> QED
    BY <2>1 DEF Lacking
<1> QED
  BY <1>4, <1>5, <1>9, <1>13, <1>14

-----------------------------------------------------------------------------
(* The tree: a level has twice as many nodes as the one above.                     *)
Doubling(d) ==
    /\ d \in Nat /\ 2 ^ 0 = 1
    /\ \A l \in 0..d : 2 ^ l \in Nat \ {0}
    /\ \A l \in 1..d : 2 ^ l = 2 * 2 ^ (l - 1)

InLevel(l, S) == S \subseteq 0..(2 ^ l - 1)

LEMMA HalfInLevel ==
  ASSUME NEW d, Doubling(d), NEW l \in 1..d, NEW S, InLevel(l, S)
  PROVE  InLevel(l - 1, Half(S)) /\ \A p \in S : p \in Nat /\ Sibling(p) \in 0..(2 ^ l - 1)
<1>1. PICK a, b : a = 2 ^ l /\ b = 2 ^ (l - 1)
  OBVIOUS
<1>2. a = 2 * b /\ a \in Nat /\ b \in Nat
  <2>1. l - 1 \in 0..d /\ l \in 0..d
    BY DEF Doubling
  <2> QED
    BY <1>1, <2>1 DEF Doubling
<1>3. ASSUME NEW p \in 0..(a - 1)
      PROVE  p \in Nat /\ Parent(p) \in 0..(b - 1) /\ Sibling(p) \in 0..(a - 1)
  <2>1. PICK q, r : q = p \div 2 /\ r = p % 2
    OBVIOUS
  <2>2. q \in Nat /\ r \in {0, 1} /\ p = 2 * q + r /\ p \in Nat
    BY <1>2, <2>1
  <2>3. Parent(p) = q /\ Sibling(p) = (2 * q + 1) - r
    BY <2>1, <2>2 DEF Parent, Sibling
  <2> QED
    BY <1>2, <2>2, <2>3
<1> QED
  BY <1>1, <1>3 DEF InLevel, Half

LEMMA AboveLevels ==
  ASSUME Doubling(depth), NEW P, InLevel(depth, P)
  PROVE  /\ Above(P, depth) = P
         /\ \A l \in 1..depth : Above(P, l - 1) = Half(Above(P, l))
         /\ \A l \in 0..depth : InLevel(l, Above(P, l))
         /\ P # {} => Above(P, 0) = {0}
<1>1. depth \in Nat /\ P \subseteq Nat
  BY DEF InLevel, Doubling
<1>2. Above(P, depth) = P
  <2>1. depth - depth = 0 /\ 2 ^ 0 = 1
    BY <1>1 DEF Doubling
  <2>2. 2 ^ (depth - depth) = 1
    BY <2>1
  <2>3. \A p \in P : p \div 1 = p
    BY <1>1
  <2> QED
    BY <2>2, <2>3 DEF Above
<1>3. ASSUME NEW l \in 1..depth
      PROVE  Above(P, l - 1) = Half(Above(P, l))
  <2>1. PICK e : e = depth - l
    OBVIOUS
  <2>2. e \in 0..depth /\ e + 1 \in 1..depth /\ depth - (l - 1) = e + 1 /\ (e + 1) - 1 = e
    BY <1>1, <2>1
  <2>3. PICK a, b : a = 2 ^ e /\ b = 2 ^ (e + 1)
    OBVIOUS
  <2>4. a \in Nat \ {0} /\ b = 2 * a
    <3>1. PICK j \in 1..depth : j = e + 1
      BY <2>2
    <3>2. 2 ^ j = 2 * 2 ^ (j - 1) /\ j - 1 = e
      BY <2>2, <3>1 DEF Doubling
    <3>3. 2 ^ e \in Nat \ {0}
      BY <2>2 DEF Doubling
    <3> QED
      BY <2>3, <3>1, <3>2, <3>3
  <2>5. Above(P, l - 1) = {p \div b : p \in P} /\ Above(P, l) = {p \div a : p \in P}
    BY <2>1, <2>2, <2>3 DEF Above
  <2>6. \A p \in P : p \div b = (p \div a) \div 2
    BY <1>1, <2>4
  <2> QED
    BY <2>5, <2>6 DEF Half, Parent
<1> DEFINE Off == {j \in 0..depth : ~InLevel(depth - j, Above(P, depth - j))}
<1>4. Off = {}
  <2> SUFFICES ASSUME Off # {} PROVE FALSE
    OBVIOUS
  <2>1. Off \subseteq Nat
    BY <1>1
  <2>2. PICK j \in Off : \A m \in Off : j <= m
    BY <2>1, LeastNat
  <2>3. j \in 0..depth /\ ~InLevel(depth - j, Above(P, depth - j))
    BY <2>2
  <2>4. j # 0
    <3>1. depth - 0 = depth
      BY <1>1
    <3> QED
      BY <1>2, <2>3, <3>1
  <2>5. PICK l : l = depth - (j - 1)
    OBVIOUS
  <2>6. j - 1 \in 0..depth /\ ~(j <= j - 1) /\ l \in 1..depth /\ l - 1 = depth - j
    BY <1>1, <2>3, <2>4, <2>5
  <2>7. InLevel(l, Above(P, l))
    BY <2>2, <2>5, <2>6
  <2>8. InLevel(l - 1, Above(P, l - 1))
    <3>1. PICK S : S = Above(P, l)
      OBVIOUS
    <3>2. InLevel(l - 1, Half(S))
      BY <2>6, <2>7, <3>1, HalfInLevel
    <3> QED
      BY <1>3, <2>6, <3>1, <3>2
  <2> QED
    BY <2>3, <2>6, <2>8
<1>5. \A l \in 0..depth : InLevel(l, Above(P, l))
  <2> TAKE l \in 0..depth
  <2>1. depth - l \in 0..depth /\ depth - (depth - l) = l
    BY <1>1
  <2> QED
    BY <1>4, <2>1
<1>6. ASSUME P # {} PROVE Above(P, 0) = {0}
  <2>1. InLevel(0, Above(P, 0)) /\ 2 ^ 0 = 1
    BY <1>1, <1>5 DEF Doubling
  <2>2. Above(P, 0) \subseteq {0}
    BY <2>1 DEF InLevel
  <2>3. Above(P, 0) # {}
    BY <1>6 DEF Above
  <2> QED
    BY <2>2, <2>3
<1> QED
  BY <1>2, <1>3, <1>5, <1>6

(* The digests, row by row: each is made from the one below. *)
Row(n, l, below) ==
    [k \in 0..(2 ^ l - 1) |->
        IF l = n THEN Hash("leaf", l, k, <<k, k>>)
        ELSE Hash("node", l, k, <<below[2 * k], below[2 * k + 1]>>)]

Rows(n, m, d) == d = [l \in (n - m)..n |-> Row(n, l, d[l + 1])]

LEMMA RowsExist ==
  ASSUME NEW n \in Nat, NEW m \in 0..n
  PROVE  \E d : Rows(n, m, d)
<1>0. \A f, g : Row(n, n, f) = Row(n, n, g)
  BY DEF Row
<1> DEFINE Off == {j \in 0..m : ~\E d : Rows(n, j, d)}
<1>1. Off = {}
  <2> SUFFICES ASSUME Off # {} PROVE FALSE
    OBVIOUS
  <2>1. Off \subseteq Nat
    OBVIOUS
  <2>2. PICK j \in Off : \A z \in Off : j <= z
    BY <2>1, LeastNat
  <2>3. j \in 0..m /\ ~\E d : Rows(n, j, d)
    BY <2>2
  <2>4. CASE j = 0
    <3>1. PICK x : x = Row(n, n, <<>>)
      OBVIOUS
    <3>2. PICK g : g = [l \in (n - j)..n |-> x]
      OBVIOUS
    <3>3. \A l \in (n - j)..n : l = n
      BY <2>4
    <3>4. \A l \in (n - j)..n : Row(n, l, g[l + 1]) = x
      BY <1>0, <3>1, <3>3
    <3>5. g = [l \in (n - j)..n |-> Row(n, l, g[l + 1])]
      BY <3>2, <3>4
    <3>6. Rows(n, j, g)
      BY <3>5 DEF Rows
    <3> QED
      BY <2>3, <3>6
  <2>5. CASE j # 0
    <3>1. PICK i0 : i0 = j - 1
      OBVIOUS
    <3>2. i0 \in 0..m /\ ~(j <= i0) /\ n - i0 = (n - j) + 1 /\ n - j \in Nat /\ n - j < n
      BY <2>3, <2>5, <3>1
    <3>3. PICK d : Rows(n, i0, d)
      BY <2>2, <3>2
    <3>4. PICK s \in Nat : s = n - j
      BY <3>2
    <3>5. s < n /\ n - i0 = s + 1
      BY <3>2, <3>4
    <3>6. PICK x : x = Row(n, s, d[s + 1])
      OBVIOUS
    <3>7. PICK g : g = [l \in s..n |-> IF l = s THEN x ELSE d[l]]
      OBVIOUS
    <3>8. ASSUME NEW l \in s..n
          PROVE  g[l] = Row(n, l, g[l + 1])
      <4>1. CASE l = s
        <5>1. s + 1 \in s..n /\ s + 1 # s
          BY <3>5
        <5>2. g[s + 1] = d[s + 1] /\ g[s] = x
          BY <3>5, <3>7, <5>1
        <5> QED
          BY <3>6, <4>1, <5>2
      <4>2. CASE l # s
        <5>1. l \in (s + 1)..n
          BY <4>2
        <5>2. d[l] = Row(n, l, d[l + 1])
          BY <3>3, <3>5, <5>1 DEF Rows
        <5>3. g[l] = d[l]
          BY <3>7, <4>2
        <5>4. CASE l = n
          BY <1>0, <5>2, <5>3, <5>4
        <5>5. CASE l # n
          <6>1. l + 1 \in s..n /\ l + 1 # s
            BY <5>1, <5>5
          <6>2. g[l + 1] = d[l + 1]
            BY <3>7, <6>1
          <6> QED
            BY <5>2, <5>3, <6>2
        <5> QED
          BY <5>4, <5>5
      <4> QED
        BY <4>1, <4>2
    <3>9. g = [l \in s..n |-> g[l]]
      BY <3>7
    <3>10. g = [l \in s..n |-> Row(n, l, g[l + 1])]
      BY <3>8, <3>9
    <3>11. Rows(n, j, g)
      BY <3>4, <3>10 DEF Rows
    <3> QED
      BY <2>3, <3>11
  <2> QED
    BY <2>4, <2>5
<1>2. m \in 0..m
  OBVIOUS
<1> QED
  BY <1>1, <1>2

LEMMA DigestIs ==
  ASSUME depth \in Depths, Doubling(depth), NEW l \in 0..depth, NEW k \in 0..(2 ^ l - 1)
  PROVE  /\ l = depth => Digest(l, k) = Hash("leaf", l, k, <<k, k>>)
         /\ l # depth => Digest(l, k) = Hash("node", l, k, <<Digest(l + 1, 2 * k), Digest(l + 1, 2 * k + 1)>>)
<1>1. PICK n \in Nat : n = depth
  BY DEF Doubling
<1> DEFINE f == CHOOSE d : d = [j \in 0..n |-> [h \in 0..(2 ^ j - 1) |->
                    IF j = n THEN Hash("leaf", j, h, <<h, h>>)
                    ELSE Hash("node", j, h, <<d[j + 1][2 * h], d[j + 1][2 * h + 1]>>)]]
<1>2. Digests[n] = f
  BY <1>1 DEF Digests
<1>3. PICK g : Rows(n, n, g)
  <2>1. n \in 0..n
    OBVIOUS
  <2> QED
    BY <2>1, RowsExist
<1>4. n - n = 0
  OBVIOUS
<1>5. g = [j \in 0..n |-> Row(n, j, g[j + 1])]
  BY <1>3, <1>4 DEF Rows
<1>6. f = [j \in 0..n |-> Row(n, j, f[j + 1])]
  <2>1. f = CHOOSE d : d = [j \in 0..n |-> Row(n, j, d[j + 1])]
    BY DEF Row
  <2> HIDE DEF f
  <2> QED
    BY <1>5, <2>1
<1> HIDE DEF f
<1>7. f[l] = Row(n, l, f[l + 1])
  BY <1>1, <1>6
<1>8. \A j, h : Digest(j, h) = f[j][h]
  BY <1>1, <1>2 DEF Digest
<1>9. f[l][k] = IF l = n THEN Hash("leaf", l, k, <<k, k>>)
                ELSE Hash("node", l, k, <<f[l + 1][2 * k], f[l + 1][2 * k + 1]>>)
  BY <1>7 DEF Row
<1> QED
  BY <1>1, <1>8, <1>9

-----------------------------------------------------------------------------
(* The siblings that a set lacks, level by level.                                  *)
Lacks(P, l) == Lacking(Above(P, l), Above(P, l))
Digs(l, M) == [j \in DOMAIN M |-> Digest(l, M[j])]

Collects(P, D) ==
    /\ D[0] = <<>> /\ \A k \in 0..depth : IsSeq(D[k])
    /\ \A k \in 1..depth : D[k] = D[k - 1] \o Digs(depth + 1 - k, Ascending(Lacks(P, depth + 1 - k)))
    /\ D[depth] = Needed(P)

LEMMA LacksOrdered ==
  ASSUME Doubling(depth), NEW P, InLevel(depth, P), NEW l \in 1..depth
  PROVE  /\ Orders(Ascending(Lacks(P, l)), Lacks(P, l)) /\ Lacks(P, l) \subseteq Nat
         /\ Orders(Ascending(Above(P, l)), Above(P, l))
<1>1. PICK S : S = Above(P, l)
  OBVIOUS
<1>2. depth \in Nat /\ l \in 0..depth /\ 2 ^ l \in Nat
  BY DEF Doubling
<1>3. InLevel(l, S) /\ \A p \in S : Sibling(p) \in 0..(2 ^ l - 1)
  BY <1>1, <1>2, AboveLevels, HalfInLevel
<1>4. PICK n \in Nat : n = 2 ^ l
  BY <1>2
<1>5. IsFiniteSet(0..(n - 1)) /\ 0..(n - 1) \subseteq Nat
  BY FS_Interval
<1>6. Lacks(P, l) \subseteq 0..(n - 1) /\ S \subseteq 0..(n - 1)
  BY <1>1, <1>3, <1>4 DEF Lacks, Lacking, InLevel
<1>7. IsFiniteSet(Lacks(P, l)) /\ IsFiniteSet(S) /\ Lacks(P, l) \subseteq Nat /\ S \subseteq Nat
  BY <1>5, <1>6, FS_Subset
<1> QED
  BY <1>1, <1>7, AscendingOrders

LEMMA CollectsExists ==
  ASSUME Doubling(depth), NEW P, InLevel(depth, P)
  PROVE  \E D : Collects(P, D)
<1>1. depth \in Nat
  BY DEF Doubling
<1> DEFINE T == {Digest(l, k) : l \in 0..depth, k \in Nat}
           part == [k \in 1..depth |-> Digs(depth + 1 - k, Ascending(Lacks(P, depth + 1 - k)))]
<1>2. Needed(P) = FlattenSeq(part)
  BY DEF Needed, NeededAt, Digs, Lacks, Lacking
<1>3. \A k \in 1..depth : part[k] \in Seq(T)
  <2> TAKE k \in 1..depth
  <2>1. PICK l \in 1..depth : l = depth + 1 - k
    BY <1>1
  <2>2. PICK M : M = Ascending(Lacks(P, l))
    OBVIOUS
  <2>3. M \in Seq(Nat)
    BY <2>2, LacksOrdered DEF Orders, Rising
  <2>4. Digs(l, M) \in Seq(T)
    <3>1. l \in 0..depth
      BY <1>1
    <3>2. \A j \in 1..Len(M) : Digest(l, M[j]) \in T
      BY <2>3, <3>1
    <3>3. DOMAIN M = 1..Len(M) /\ Len(M) \in Nat
      BY <2>3
    <3> HIDE DEF T
    <3> QED
      BY <3>2, <3>3 DEF Digs
  <2> QED
    BY <2>1, <2>2, <2>4
<1>4. part \in Seq(Seq(T)) /\ Len(part) = depth
  <2> HIDE DEF T
  <2>1. part = [k \in 1..depth |-> part[k]]
    OBVIOUS
  <2> HIDE DEF part
  <2> QED
    BY <1>1, <1>3, <2>1
<1> HIDE DEF T
<1>5. PICK s : s = part
  OBVIOUS
<1>6. s \in Seq(Seq(T)) /\ Len(s) = depth
  BY <1>4, <1>5
<1>7. PICK D \in [0..Len(s) -> Seq(T)] :
            /\ D[0] = <<>>
            /\ \A h \in 1..Len(s) : D[h] = D[h - 1] \o s[h]
            /\ FlattenSeq(s) = D[Len(s)]
  BY <1>6, FlattenSums
<1>8. Collects(P, D)
  <2>1. \A k \in 0..depth : IsSeq(D[k])
    BY <1>6, <1>7 DEF IsSeq
  <2>2. \A k \in 1..depth : s[k] = Digs(depth + 1 - k, Ascending(Lacks(P, depth + 1 - k)))
    BY <1>5
  <2> HIDE DEF part
  <2> QED
    BY <1>2, <1>5, <1>6, <1>7, <2>1, <2>2 DEF Collects
<1> QED
  BY <1>8

LEMMA AnyJoin ==
  ASSUME NEW s, NEW t, IsSeq(s), IsSeq(t)
  PROVE  /\ IsSeq(s \o t) /\ Len(s \o t) = Len(s) + Len(t) /\ s \o <<>> = s
         /\ \A x : s \o Append(t, x) = Append(s \o t, x)
<1>1. PICK S : s \in Seq(S)
  BY DEF IsSeq
<1>2. PICK U : t \in Seq(U)
  BY DEF IsSeq
<1>3. s \in Seq(S \cup U) /\ t \in Seq(S \cup U)
  BY <1>1, <1>2
<1>4. s \o t \in Seq(S \cup U) /\ Len(s \o t) = Len(s) + Len(t) /\ s \o <<>> = s
  BY <1>3
<1>5. IsSeq(s \o t)
  BY <1>4 DEF IsSeq
<1>6. ASSUME NEW x PROVE s \o Append(t, x) = Append(s \o t, x)
  <2>1. PICK V : V = S \cup U \cup {x}
    OBVIOUS
  <2>2. x \in V /\ s \in Seq(V) /\ t \in Seq(V)
    <3>1. S \subseteq V /\ U \subseteq V /\ x \in V
      BY <2>1
    <3> QED
      BY <1>1, <1>2, <3>1
  <2> QED
    BY <2>2
<1> QED
  BY <1>4, <1>5, <1>6

LEMMA DigsMore ==
  ASSUME NEW l, NEW M \in Seq(Nat), NEW x \in Nat
  PROVE  /\ IsSeq(Digs(l, M)) /\ Len(Digs(l, M)) = Len(M) /\ Digs(l, <<>>) = <<>>
         /\ Digs(l, Append(M, x)) = Append(Digs(l, M), Digest(l, x))
<1>1. PICK n \in Nat : n = Len(M) /\ DOMAIN M = 1..n
  OBVIOUS
<1>2. PICK a : a = Digs(l, M)
  OBVIOUS
<1>3. a = [j \in 1..n |-> Digest(l, M[j])]
  BY <1>1, <1>2 DEF Digs
<1>4. PICK T : T = {Digest(l, k) : k \in Nat}
  OBVIOUS
<1>5. \A k \in Nat : Digest(l, k) \in T
  BY <1>4
<1>6. a \in Seq(T) /\ Len(a) = n
  BY <1>1, <1>3, <1>5
<1>7. PICK b, d, N : b = Digs(l, N) /\ N = Append(M, x) /\ d = Append(a, Digest(l, x))
  OBVIOUS
<1>8. N \in Seq(Nat) /\ Len(N) = n + 1 /\ DOMAIN N = 1..(n + 1) /\ N[n + 1] = x /\ \A j \in 1..n : N[j] = M[j]
  BY <1>1, <1>7
<1>9. b = [j \in 1..(n + 1) |-> Digest(l, N[j])]
  BY <1>7, <1>8 DEF Digs
<1>10. d \in Seq(T) /\ Len(d) = n + 1 /\ d[n + 1] = Digest(l, x) /\ \A j \in 1..n : d[j] = a[j]
  BY <1>5, <1>6, <1>7, SMTT(30)
<1>11. \A j \in 1..(n + 1) : d[j] = Digest(l, N[j])
  <2> TAKE j \in 1..(n + 1)
  <2>1. j \in 1..n \/ j = n + 1
    OBVIOUS
  <2> QED
    BY <1>3, <1>8, <1>10, <2>1
<1>12. d = [j \in 1..(n + 1) |-> d[j]]
  BY <1>10
<1>13. b = d
  BY <1>9, <1>11, <1>12
<1>14. Digs(l, <<>>) = <<>>
  BY DEF Digs
<1> QED
  BY <1>1, <1>2, <1>6, <1>7, <1>13, <1>14 DEF IsSeq

-----------------------------------------------------------------------------
(* The walk up the tree: at level l, the first h - 1 nodes of A are joined to those  *)
(* of N, and W lists the siblings that were missing so far.                        *)
Emits(P, l, A, h, W) ==
    \E D, M : /\ Collects(P, D)
              /\ Orders(M, Lacking(Above(P, l), Upto(A, h)))
              /\ W = D[depth - l] \o Digs(l, M)

Walk(P, l, A, h, N, W) ==
    InLevel(depth, P) /\ Climb(A, Above(P, l), h, N) /\ Emits(P, l, A, h, W)

(* It begins with the leaves. *)
LEMMA WalkBegins ==
  ASSUME Doubling(depth), NEW P, InLevel(depth, P), NEW A, Orders(A, P)
  PROVE  Walk(P, depth, A, 1, <<>>, <<>>)
<1>1. PICK S : S = P /\ S = Above(P, depth)
  BY AboveLevels, SMTT(30)
<1>2. Climb(A, S, 1, <<>>) /\ Lacking(S, Upto(A, 1)) = {}
  BY <1>1, ClimbBegins, Zenon
<1>3. PICK D : Collects(P, D)
  BY CollectsExists
<1>4. PICK M : M = <<>>
  OBVIOUS
<1>5. Orders(M, Lacking(S, Upto(A, 1)))
  BY <1>2, <1>4, OrdersNone
<1>6. PICK l : l = depth
  OBVIOUS
<1>7. D[depth - l] = <<>> /\ Digs(l, M) = <<>>
  BY <1>3, <1>4, <1>6 DEF Collects, Doubling, Digs
<1>8. D[depth - l] \o Digs(l, M) = <<>>
  BY <1>7
<1>9. Emits(P, l, A, 1, <<>>)
  BY <1>1, <1>3, <1>5, <1>6, <1>8, Zenon DEF Emits
<1> QED
  BY <1>1, <1>2, <1>6, <1>9, Zenon DEF Walk

(* A pair misses nothing. *)
LEMMA WalkPair ==
  ASSUME Doubling(depth), NEW P, NEW l, NEW A, NEW h, NEW N, NEW W, Walk(P, l, A, h, N, W),
         h < Len(A), A[h + 1] = Sibling(A[h])
  PROVE  Walk(P, l, A, h + 2, Append(N, Parent(A[h])), W) /\ A[h] % 2 = 0
<1>1. PICK S : S = Above(P, l)
  OBVIOUS
<1>2. Climb(A, S, h, N) /\ InLevel(depth, P)
  BY <1>1 DEF Walk
<1>3. /\ Climb(A, S, h + 2, Append(N, Parent(A[h])))
      /\ Lacking(S, Upto(A, h + 2)) = Lacking(S, Upto(A, h))
      /\ A[h] % 2 = 0
  BY <1>2, ClimbPair
<1>4. PICK D, M : /\ Collects(P, D)
                  /\ Orders(M, Lacking(S, Upto(A, h)))
                  /\ W = D[depth - l] \o Digs(l, M)
  BY <1>1 DEF Walk, Emits
<1>5. Emits(P, l, A, h + 2, W)
  BY <1>1, <1>3, <1>4 DEF Emits
<1> QED
  BY <1>1, <1>2, <1>3, <1>5 DEF Walk

(* The siblings of the levels done, and those of them all. *)
LEMMA CollectsGrow ==
  ASSUME Doubling(depth), NEW P, InLevel(depth, P), NEW D, Collects(P, D), NEW k \in 0..depth
  PROVE  /\ IsSeq(D[k]) /\ Len(D[k]) \in Nat /\ Len(D[k]) <= Len(Needed(P)) /\ Len(Needed(P)) \in Nat
         /\ k # depth => Len(D[k + 1]) = Len(D[k]) + Len(Ascending(Lacks(P, depth - k)))
<1>1. PICK n \in Nat : n = depth
  BY DEF Doubling
<1>2. \A j \in 0..n : IsSeq(D[j]) /\ Len(D[j]) \in Nat
  BY <1>1, AnyLength DEF Collects
<1>3. ASSUME NEW j \in 0..n, j # n
      PROVE  /\ Len(D[j + 1]) = Len(D[j]) + Len(Ascending(Lacks(P, n - j)))
             /\ Len(D[j + 1]) >= Len(D[j])
  <2>1. PICK m, l : m = j + 1 /\ l = n - j
    OBVIOUS
  <2>2. m \in 1..n /\ l \in 1..n /\ m - 1 = j /\ n + 1 - m = l
    BY <1>3, <2>1
  <2>3. PICK M : M = Ascending(Lacks(P, l))
    OBVIOUS
  <2>4. M \in Seq(Nat) /\ Len(M) \in Nat
    BY <1>1, <2>2, <2>3, LacksOrdered DEF Orders, Rising
  <2>5. D[m] = D[j] \o Digs(l, M)
    BY <1>1, <2>2, <2>3 DEF Collects
  <2>6. IsSeq(Digs(l, M)) /\ Len(Digs(l, M)) = Len(M)
    <3>1. 0 \in Nat
      OBVIOUS
    <3> QED
      BY <2>4, <3>1, DigsMore
  <2>7. Len(D[m]) = Len(D[j]) + Len(M)
    <3>1. PICK s, t : s = D[j] /\ t = Digs(l, M)
      OBVIOUS
    <3>2. IsSeq(s) /\ IsSeq(t)
      BY <1>2, <2>6, <3>1
    <3>3. Len(s \o t) = Len(s) + Len(t)
      BY <3>2, AnyJoin
    <3> QED
      BY <2>5, <2>6, <3>1, <3>3
  <2>8. Len(D[j]) \in Nat
    BY <1>2
  <2>9. Len(D[m]) >= Len(D[j])
    BY <2>4, <2>7, <2>8
  <2> QED
    BY <2>1, <2>3, <2>7, <2>9
<1>4. ASSUME NEW j \in 0..n, Len(D[j]) > Len(D[n])
      PROVE  FALSE
  <2> DEFINE U == {m \in 0..n : Len(D[n - m]) > Len(D[n])}
  <2>1. n - (n - j) = j /\ n - j \in 0..n
    OBVIOUS
  <2>2. n - j \in U
    BY <1>4, <2>1
  <2>3. U \subseteq Nat /\ U # {}
    <3>1. U \subseteq 0..n /\ 0..n \subseteq Nat
      OBVIOUS
    <3> QED
      BY <2>2, <3>1
  <2>4. PICK m \in U : \A q \in U : m <= q
    BY <2>3, LeastNat
  <2>5. m \in 0..n /\ Len(D[n - m]) > Len(D[n])
    BY <2>4
  <2>6. m # 0
    <3>1. CASE m = 0
      <4>1. n - m = n /\ Len(D[n]) \in Nat
        BY <1>2, <3>1
      <4> QED
        BY <2>5, <4>1
    <3> QED
      BY <3>1
  <2>7. PICK q, p : q = n - m /\ p = m - 1
    OBVIOUS
  <2>8. q \in 0..n /\ q # n /\ p \in 0..n /\ n - p = q + 1 /\ q + 1 \in 0..n /\ ~(m <= p)
    BY <2>5, <2>6, <2>7
  <2>9. Len(D[q + 1]) >= Len(D[q]) /\ Len(D[q]) \in Nat /\ Len(D[q + 1]) \in Nat /\ Len(D[n]) \in Nat
    <3>1. Len(D[q + 1]) >= Len(D[q])
      BY <1>3, <2>8
    <3>2. n \in 0..n
      OBVIOUS
    <3> QED
      BY <1>2, <2>8, <3>1, <3>2
  <2>10. Len(D[n - p]) > Len(D[n])
    BY <2>5, <2>7, <2>8, <2>9
  <2>11. p \in U
    BY <2>8, <2>10
  <2> QED
    BY <2>4, <2>8, <2>11
<1>5. D[n] = Needed(P)
  BY <1>1 DEF Collects
<1>6. n \in 0..n /\ k \in 0..n
  BY <1>1
<1>7. Len(D[k]) <= Len(D[n])
  BY <1>2, <1>4, <1>6
<1> QED
  BY <1>1, <1>2, <1>3, <1>5, <1>6, <1>7

(* A lone node misses its sibling, which is not the last that is needed before it. *)
LEMMA WalkLone ==
  ASSUME Doubling(depth), NEW P, NEW l \in 1..depth, NEW A, NEW h, NEW N, NEW W, Walk(P, l, A, h, N, W),
         h <= Len(A), ~(h < Len(A) /\ A[h + 1] = Sibling(A[h]))
  PROVE  /\ Walk(P, l, A, h + 1, Append(N, Parent(A[h])), Append(W, Digest(l, Sibling(A[h]))))
         /\ Len(W) \in Nat /\ Len(W) < Len(Needed(P)) /\ Len(Needed(P)) \in Nat
<1>1. PICK S : S = Above(P, l)
  OBVIOUS
<1>2. Climb(A, S, h, N) /\ InLevel(depth, P)
  BY <1>1 DEF Walk
<1>3. PICK x : x = Sibling(A[h])
  OBVIOUS
<1>4. /\ Climb(A, S, h + 1, Append(N, Parent(A[h])))
      /\ Lacking(S, Upto(A, h + 1)) = Lacking(S, Upto(A, h)) \cup {x}
      /\ x \in Nat /\ \A y \in Lacking(S, Upto(A, h)) : y < x
  BY <1>2, <1>3, ClimbLone
<1>5. PICK D, M : /\ Collects(P, D)
                  /\ Orders(M, Lacking(S, Upto(A, h)))
                  /\ W = D[depth - l] \o Digs(l, M)
  BY <1>1 DEF Walk, Emits
<1>6. PICK M2 : M2 = Append(M, x)
  OBVIOUS
<1>7. Orders(M2, Lacking(S, Upto(A, h + 1)))
  BY <1>4, <1>5, <1>6, OrdersMore
<1>8. M \in Seq(Nat)
  BY <1>5 DEF Orders, Rising
<1>9. /\ IsSeq(Digs(l, M)) /\ Len(Digs(l, M)) = Len(M)
      /\ Digs(l, M2) = Append(Digs(l, M), Digest(l, x))
  BY <1>4, <1>6, <1>8, DigsMore
<1>10. PICK k : k = depth - l
  OBVIOUS
<1>11. k \in 0..depth /\ k # depth /\ depth - k = l
  BY <1>10 DEF Doubling
<1>12. /\ IsSeq(D[k]) /\ Len(D[k]) \in Nat /\ Len(Needed(P)) \in Nat
       /\ Len(D[k + 1]) = Len(D[k]) + Len(Ascending(Lacks(P, l)))
  BY <1>2, <1>5, <1>11, CollectsGrow
<1>13. Len(D[k + 1]) <= Len(Needed(P)) /\ Len(D[k + 1]) \in Nat
  <2>1. PICK m : m = k + 1
    OBVIOUS
  <2>2. m \in 0..depth
    BY <1>11, <2>1 DEF Doubling
  <2> QED
    BY <1>2, <1>5, <2>1, <2>2, CollectsGrow
<1>14. /\ Len(W) = Len(D[k]) + Len(M) /\ IsSeq(W)
       /\ D[k] \o Append(Digs(l, M), Digest(l, x)) = Append(W, Digest(l, x))
  <2>1. PICK s, t : s = D[k] /\ t = Digs(l, M)
    OBVIOUS
  <2>2. IsSeq(s) /\ IsSeq(t) /\ W = s \o t
    BY <1>5, <1>9, <1>10, <1>12, <2>1
  <2>3. IsSeq(s \o t) /\ Len(s \o t) = Len(s) + Len(t)
    BY <2>2, AnyJoin
  <2>4. PICK y : y = Digest(l, x)
    OBVIOUS
  <2>5. s \o Append(t, y) = Append(s \o t, y)
    BY <2>2, AnyJoin
  <2> QED
    BY <1>9, <2>1, <2>2, <2>3, <2>4, <2>5
<1>15. Emits(P, l, A, h + 1, Append(W, Digest(l, x)))
  BY <1>1, <1>5, <1>7, <1>9, <1>10, <1>14 DEF Emits
<1>16. Len(M) \in Nat /\ Len(M) < Len(Ascending(Lacks(P, l))) /\ Len(Ascending(Lacks(P, l))) \in Nat
  <2>1. PICK a, U : a = Ascending(Lacks(P, l)) /\ U = Lacks(P, l)
    OBVIOUS
  <2>2. Orders(a, U)
    BY <1>2, <2>1, LacksOrdered
  <2>3. PICK Q, V : Q = Lacking(S, Upto(A, h)) /\ V = Lacking(S, Upto(A, h + 1))
    OBVIOUS
  <2>4. /\ h \in 1..Len(A) /\ Len(A) \in Nat /\ A[h] \in S /\ Upto(A, h) \subseteq S
    BY <1>2, ClimbPlace
  <2>5. Upto(A, h + 1) = Upto(A, h) \cup {A[h]}
    BY <2>4, UptoMore
  <2>6. Upto(A, h + 1) \subseteq S
    BY <2>4, <2>5
  <2>7. V \subseteq U /\ U = Lacking(S, S)
    BY <1>1, <2>1, <2>3, <2>6 DEF Lacks, Lacking
  <2>8. x \in V /\ Q \subseteq V
    BY <1>4, <2>3
  <2>9. x \notin Q
    BY <1>4, <2>3
  <2>10. Q \subseteq U /\ Q # U
    BY <2>7, <2>8, <2>9
  <2> QED
    BY <1>5, <2>1, <2>2, <2>3, <2>10, OrdersLess
<1>17. Len(W) \in Nat /\ Len(W) < Len(Needed(P))
  BY <1>12, <1>13, <1>14, <1>16
<1> QED
  BY <1>1, <1>2, <1>3, <1>4, <1>12, <1>15, <1>17 DEF Walk

(* Once every node is joined, the walk begins a level higher. *)
LEMMA WalkUp ==
  ASSUME Doubling(depth), NEW P, NEW l \in 1..depth, NEW A, NEW h, NEW N, NEW W, Walk(P, l, A, h, N, W),
         ~(h <= Len(A))
  PROVE  Walk(P, l - 1, N, 1, <<>>, W)
<1>1. PICK S, m, U : S = Above(P, l) /\ m = l - 1 /\ U = Above(P, m)
  OBVIOUS
<1>2. Climb(A, S, h, N) /\ InLevel(depth, P)
  BY <1>1 DEF Walk
<1>3. Upto(A, h) = S /\ Orders(N, Half(S))
  BY <1>2, ClimbEnds
<1>4. U = Half(S)
  BY <1>1, <1>2, AboveLevels
<1>5. Climb(N, U, 1, <<>>) /\ Lacking(U, Upto(N, 1)) = {}
  BY <1>3, <1>4, ClimbBegins
<1>6. PICK D, M : /\ Collects(P, D)
                  /\ Orders(M, Lacking(S, Upto(A, h)))
                  /\ W = D[depth - l] \o Digs(l, M)
  BY <1>1 DEF Walk, Emits
<1>7. M = Ascending(Lacks(P, l))
  <2>1. PICK a, V : a = Ascending(Lacks(P, l)) /\ V = Lacks(P, l)
    OBVIOUS
  <2>2. Orders(a, V) /\ Orders(M, V)
    BY <1>1, <1>2, <1>3, <1>6, <2>1, LacksOrdered DEF Lacks
  <2> QED
    BY <2>1, <2>2, OrdersOnly
<1>8. PICK k : k = depth - m
  OBVIOUS
<1>9. k \in 1..depth /\ k \in 0..depth /\ k - 1 = depth - l /\ depth + 1 - k = l /\ m \in 0..depth
  BY <1>1, <1>8 DEF Doubling
<1>10. D[k] = W /\ IsSeq(D[k])
  BY <1>6, <1>7, <1>9 DEF Collects
<1>11. PICK Z : Z = <<>>
  OBVIOUS
<1>12. Orders(Z, Lacking(U, Upto(N, 1))) /\ Digs(m, Z) = <<>>
  BY <1>5, <1>11, OrdersNone DEF Digs
<1>13. D[k] \o Digs(m, Z) = W
  BY <1>10, <1>12, AnyNone, AnyJoin
<1>14. Emits(P, m, N, 1, W)
  BY <1>1, <1>6, <1>8, <1>12, <1>13 DEF Emits
<1> QED
  BY <1>1, <1>2, <1>5, <1>14 DEF Walk

(* At the root, all that was needed has been met. *)
LEMMA WalkEnds ==
  ASSUME Doubling(depth), NEW P, NEW A, NEW N, NEW W, Walk(P, 0, A, 1, N, W)
  PROVE  W = Needed(P)
<1>1. PICK S, l, h : S = Above(P, l) /\ l = 0 /\ h = 1
  OBVIOUS
<1>2. PICK D, M : /\ Collects(P, D)
                  /\ Orders(M, Lacking(S, Upto(A, h)))
                  /\ W = D[depth - l] \o Digs(l, M)
  BY <1>1 DEF Walk, Emits
<1>3. Upto(A, h) = {} /\ Lacking(S, Upto(A, h)) = {}
  BY <1>1 DEF Upto, Lacking
<1>4. M = <<>>
  BY <1>2, <1>3, OrdersNone, OrdersOnly
<1>5. Digs(l, M) = <<>> /\ depth - l = depth /\ depth \in 0..depth
  BY <1>1, <1>4 DEF Digs, Doubling
<1>6. IsSeq(D[depth]) /\ D[depth] = Needed(P)
  BY <1>2, <1>5 DEF Collects
<1>7. D[depth] \o <<>> = D[depth]
  BY <1>6, AnyNone, AnyJoin
<1> QED
  BY <1>2, <1>5, <1>6, <1>7

-----------------------------------------------------------------------------
(* The verifier's walk: every digest still to be joined is that of its node exactly  *)
(* when rows, salts and the siblings taken are those of an honest opening.          *)
Pos(a) == [k \in DOMAIN a |-> a[k].pos]
Right(l, a, h) == \A k \in 1..Len(a) : k >= h => a[k].hash = Digest(l, a[k].pos)
Genuine(o, W) == o.rows = o.positions /\ o.salts = o.positions /\ \A k \in 1..Len(W) : o.siblings[k] = W[k]

Checks(o, l, a, h, n, u, W) ==
    /\ IsSeq(a) /\ IsSeq(n) /\ IsSeq(W) /\ u = Len(W) /\ u <= Len(o.siblings)
    /\ Walk(ToSet(o.positions), l, Pos(a), h, Pos(n), W)
    /\ Right(l, a, h) /\ Right(l - 1, n, 1) <=> Genuine(o, W)

LEMMA PosMore ==
  ASSUME NEW a, IsSeq(a)
  PROVE  /\ Len(Pos(a)) = Len(a) /\ IsSeq(Pos(a)) /\ Len(a) \in Nat
         /\ \A k \in 1..Len(a) : Pos(a)[k] = a[k].pos
         /\ \A x : Pos(Append(a, x)) = Append(Pos(a), x.pos)
<1>1. PICK m \in Nat : m = Len(a) /\ DOMAIN a = 1..m
  BY AnyLength
<1>2. PICK b : b = Pos(a)
  OBVIOUS
<1>3. b = [k \in 1..m |-> a[k].pos]
  BY <1>1, <1>2 DEF Pos
<1>4. PICK T : T = {a[k].pos : k \in 1..m}
  OBVIOUS
<1>5. b \in Seq(T) /\ Len(b) = m
  <2>1. \A k \in 1..m : a[k].pos \in T
    BY <1>4
  <2>2. b \in [1..m -> T]
    BY <1>3, <2>1
  <2> QED
    BY <1>1, <2>2
<1>6. IsSeq(b)
  BY <1>5 DEF IsSeq
<1>7. ASSUME NEW x
      PROVE  Pos(Append(a, x)) = Append(b, x.pos)
  <2>1. PICK c, y : c = Append(a, x) /\ y = x.pos
    OBVIOUS
  <2>2. IsSeq(c) /\ Len(c) = m + 1 /\ (\A k \in 1..m : c[k] = a[k]) /\ c[m + 1] = x
    BY <1>1, <2>1, AnyAppend
  <2>3. DOMAIN c = 1..(m + 1)
    BY <2>2, AnyLength
  <2>4. PICK d, e : d = Pos(c) /\ e = Append(b, y)
    OBVIOUS
  <2>5. d = [k \in 1..(m + 1) |-> c[k].pos]
    BY <2>3, <2>4 DEF Pos
  <2>6. IsSeq(e) /\ Len(e) = m + 1 /\ (\A k \in 1..m : e[k] = b[k]) /\ e[m + 1] = y
    BY <1>5, <1>6, <2>4, AnyAppend
  <2>7. DOMAIN e = 1..(m + 1)
    BY <2>6, AnyLength
  <2>8. \A k \in 1..(m + 1) : e[k] = c[k].pos
    <3> TAKE k \in 1..(m + 1)
    <3>1. k \in 1..m \/ k = m + 1
      BY <1>1
    <3> QED
      BY <1>3, <2>1, <2>2, <2>6, <3>1
  <2>9. PICK U : e \in Seq(U)
    BY <2>6 DEF IsSeq
  <2>10. e = [k \in 1..(m + 1) |-> e[k]]
    BY <2>6, <2>9
  <2>11. d = e
    BY <2>5, <2>8, <2>10
  <2> QED
    BY <2>1, <2>4, <2>11
<1> QED
  BY <1>1, <1>2, <1>3, <1>5, <1>6, <1>7

(* The node above two siblings. *)
Joins(l, p, x, y) ==
    /\ p % 2 = 0 => (Hash("node", l - 1, Parent(p), <<x, y>>) = Digest(l - 1, Parent(p))
                        <=> x = Digest(l, p) /\ y = Digest(l, Sibling(p)))
    /\ p % 2 # 0 => (Hash("node", l - 1, Parent(p), <<y, x>>) = Digest(l - 1, Parent(p))
                        <=> x = Digest(l, p) /\ y = Digest(l, Sibling(p)))

LEMMA JoinDigest ==
  ASSUME depth \in Depths, Doubling(depth), NEW l \in 1..depth, NEW S, InLevel(l, S), NEW p \in S, NEW x, NEW y
  PROVE  Joins(l, p, x, y)
<1>1. PICK n, m, j, h : n = 2 ^ l /\ m = 2 ^ h /\ j = Parent(p) /\ h = l - 1
  OBVIOUS
<1>2. n \in Nat /\ m \in Nat /\ n = 2 * m /\ h \in 0..depth /\ h # depth /\ h + 1 = l /\ depth \in Nat
  BY <1>1 DEF Doubling
<1>3. p \in 0..(n - 1)
  BY <1>1 DEF InLevel
<1>4. j \in 0..(m - 1) /\ (p % 2 = 0 => 2 * j = p /\ 2 * j + 1 = Sibling(p))
        /\ (p % 2 # 0 => 2 * j = Sibling(p) /\ 2 * j + 1 = p)
  BY <1>1, <1>2, <1>3 DEF Parent, Sibling
<1>5. j \in 0..(2 ^ h - 1)
  BY <1>1, <1>4
<1>6. Digest(h, j) = Hash("node", h, j, <<Digest(h + 1, 2 * j), Digest(h + 1, 2 * j + 1)>>)
  BY <1>2, <1>5, DigestIs
<1>7. \A u, v : Hash("node", h, j, <<u, v>>) = Digest(h, j)
                  <=> u = Digest(l, 2 * j) /\ v = Digest(l, 2 * j + 1)
  <2>1. PICK u2, v2 : u2 = Digest(l, 2 * j) /\ v2 = Digest(l, 2 * j + 1)
    OBVIOUS
  <2>2. Digest(h, j) = Hash("node", h, j, <<u2, v2>>)
    BY <1>2, <1>6, <2>1
  <2>3. \A u, v : Hash("node", h, j, <<u, v>>) = Hash("node", h, j, <<u2, v2>>) <=> u = u2 /\ v = v2
    BY DEF Hash
  <2> QED
    BY <2>1, <2>2, <2>3, Zenon
<1> QED
  BY <1>1, <1>4, <1>7 DEF Joins

(* A digest joins those that are right, or one that was not stays so. *)
LEMMA RightMore ==
  ASSUME NEW l, NEW n, IsSeq(n), NEW x
  PROVE  Right(l, Append(n, x), 1) <=> Right(l, n, 1) /\ x.hash = Digest(l, x.pos)
<1>1. PICK m \in Nat : m = Len(n)
  BY AnyLength
<1>2. PICK c : c = Append(n, x)
  OBVIOUS
<1>3. Len(c) = m + 1 /\ (\A k \in 1..m : c[k] = n[k]) /\ c[m + 1] = x
  BY <1>1, <1>2, AnyAppend
<1>4. Right(l, c, 1) <=> \A k \in 1..(m + 1) : c[k].hash = Digest(l, c[k].pos)
  BY <1>1, <1>3 DEF Right
<1>5. Right(l, n, 1) <=> \A k \in 1..m : n[k].hash = Digest(l, n[k].pos)
  BY <1>1 DEF Right
<1>6. \A k \in 1..(m + 1) : k \in 1..m \/ k = m + 1
  BY <1>1
<1>7. m + 1 \in 1..(m + 1) /\ \A k \in 1..m : k \in 1..(m + 1)
  BY <1>1
<1> QED
  BY <1>2, <1>3, <1>4, <1>5, <1>6, <1>7

LEMMA RightSplit ==
  ASSUME NEW l, NEW a, IsSeq(a), NEW h \in 1..Len(a)
  PROVE  /\ Right(l, a, h) <=> a[h].hash = Digest(l, a[h].pos) /\ Right(l, a, h + 1)
         /\ h + 1 <= Len(a) =>
               (Right(l, a, h) <=> /\ a[h].hash = Digest(l, a[h].pos) /\ a[h + 1].hash = Digest(l, a[h + 1].pos)
                                   /\ Right(l, a, h + 2))
<1>1. PICK m \in Nat : m = Len(a)
  BY AnyLength
<1>2. h \in 1..m
  BY <1>1
<1>3. PICK j, q : j = h + 1 /\ q = h + 2
  OBVIOUS
<1>4. \A k \in 1..m : (k >= h <=> k = h \/ k >= j) /\ (k >= j <=> k = j \/ k >= q)
  BY <1>2, <1>3
<1>5. j <= m => j \in 1..m
  BY <1>1, <1>2, <1>3
<1>6. Right(l, a, h) <=> a[h].hash = Digest(l, a[h].pos) /\ Right(l, a, j)
  BY <1>1, <1>2, <1>4 DEF Right
<1>7. j <= m => (Right(l, a, j) <=> a[j].hash = Digest(l, a[j].pos) /\ Right(l, a, q))
  BY <1>1, <1>4, <1>5 DEF Right
<1> QED
  BY <1>1, <1>3, <1>6, <1>7

-----------------------------------------------------------------------------
(* What each step of the verifier keeps.                                           *)
LEMMA CheckPair ==
  ASSUME depth \in Depths, Doubling(depth), NEW o, NEW l \in 1..depth, NEW a, NEW h, NEW n, NEW u, NEW W,
         Checks(o, l, a, h, n, u, W), h <= Len(a), Paired(a, h),
         NEW x, x = [pos |-> Parent(a[h].pos), hash |-> Hash("node", l - 1, Parent(a[h].pos), <<a[h].hash, a[h + 1].hash>>)]
  PROVE  a[h].pos % 2 = 0 /\ Checks(o, l, a, h + 2, Append(n, x), u, W)
<1>1. PICK A, N, P, S : A = Pos(a) /\ N = Pos(n) /\ P = ToSet(o.positions) /\ S = Above(P, l)
  OBVIOUS
<1>2. IsSeq(a) /\ IsSeq(n) /\ Walk(P, l, A, h, N, W)
  BY <1>1 DEF Checks
<1>3. InLevel(depth, P) /\ Climb(A, S, h, N)
  BY <1>1, <1>2 DEF Walk
<1>4. /\ Len(A) = Len(a) /\ Len(a) \in Nat
      /\ \A k \in 1..Len(a) : A[k] = a[k].pos
      /\ \A z : Pos(Append(n, z)) = Append(N, z.pos)
  BY <1>1, <1>2, PosMore
<1>5. h \in 1..Len(A) /\ A[h] \in S /\ A[h] \in Nat
  BY <1>3, <1>4, ClimbPlace
<1>6. h < Len(a) /\ a[h + 1].pos = Sibling(a[h].pos)
  BY DEF Paired
<1>7. h \in 1..Len(a) /\ h + 1 \in 1..Len(a) /\ h + 1 <= Len(a)
  BY <1>4, <1>5, <1>6
<1>8. A[h] = a[h].pos /\ A[h + 1] = a[h + 1].pos /\ h < Len(A) /\ A[h + 1] = Sibling(A[h])
  BY <1>4, <1>6, <1>7
<1>9. Walk(P, l, A, h + 2, Append(N, Parent(A[h])), W) /\ A[h] % 2 = 0
  BY <1>2, <1>8, WalkPair
<1>10. x.pos = Parent(A[h]) /\ Pos(Append(n, x)) = Append(N, Parent(A[h]))
  BY <1>4, <1>8
<1>11. PICK p : p = A[h]
  OBVIOUS
<1>12. p \in S /\ InLevel(l, S)
  <2>1. l \in 0..depth
    BY DEF Doubling
  <2> QED
    BY <1>1, <1>3, <1>5, <1>11, <2>1, AboveLevels
<1>13. PICK m, c, d : m = l - 1 /\ c = a[h].hash /\ d = a[h + 1].hash
  OBVIOUS
<1>14. Hash("node", l - 1, Parent(p), <<c, d>>) = Digest(l - 1, Parent(p))
          <=> c = Digest(l, p) /\ d = Digest(l, Sibling(p))
  <2>1. Joins(l, p, c, d)
    BY <1>12, JoinDigest
  <2> QED
    BY <1>9, <1>11, <2>1 DEF Joins
<1>15. x.hash = Hash("node", m, Parent(p), <<c, d>>) /\ x.pos = Parent(p)
  BY <1>8, <1>11, <1>13
<1>16. Right(m, Append(n, x), 1) <=> Right(m, n, 1) /\ x.hash = Digest(m, x.pos)
  BY <1>2, RightMore
<1>17. Right(l, a, h) <=> a[h].hash = Digest(l, a[h].pos) /\ a[h + 1].hash = Digest(l, a[h + 1].pos)
                                   /\ Right(l, a, h + 2)
  BY <1>2, <1>7, RightSplit
<1>18. x.hash = Digest(m, x.pos) <=> a[h].hash = Digest(l, a[h].pos) /\ a[h + 1].hash = Digest(l, a[h + 1].pos)
  BY <1>8, <1>11, <1>13, <1>14, <1>15
<1>19. Right(l, a, h + 2) /\ Right(m, Append(n, x), 1) <=> Right(l, a, h) /\ Right(m, n, 1)
  BY <1>16, <1>17, <1>18
<1>20. IsSeq(Append(n, x))
  BY <1>2, AnyAppend
<1>21. Right(l, a, h) /\ Right(m, n, 1) <=> Genuine(o, W)
  BY <1>13 DEF Checks
<1>22. IsSeq(W) /\ u = Len(W) /\ u <= Len(o.siblings)
  BY DEF Checks
<1>23. Right(l, a, h + 2) /\ Right(l - 1, Append(n, x), 1) <=> Genuine(o, W)
  BY <1>13, <1>19, <1>21
<1>24. Walk(ToSet(o.positions), l, Pos(a), h + 2, Pos(Append(n, x)), W)
  BY <1>1, <1>9, <1>10
<1>25. Checks(o, l, a, h + 2, Append(n, x), u, W)
  BY <1>2, <1>20, <1>22, <1>23, <1>24 DEF Checks
<1> QED
  BY <1>8, <1>9, <1>25

LEMMA GenuineMore ==
  ASSUME NEW o, NEW W, IsSeq(W), NEW y
  PROVE  Genuine(o, Append(W, y)) <=> Genuine(o, W) /\ o.siblings[Len(W) + 1] = y
<1>1. PICK m \in Nat : m = Len(W)
  BY AnyLength
<1>2. PICK c, t : c = Append(W, y) /\ t = o.siblings
  OBVIOUS
<1>3. Len(c) = m + 1 /\ (\A k \in 1..m : c[k] = W[k]) /\ c[m + 1] = y
  BY <1>1, <1>2, AnyAppend
<1>4. \A k \in 1..(m + 1) : k \in 1..m \/ k = m + 1
  BY <1>1
<1>5. m + 1 \in 1..(m + 1) /\ \A k \in 1..m : k \in 1..(m + 1)
  BY <1>1
<1>6. (\A k \in 1..(m + 1) : t[k] = c[k]) <=> (\A k \in 1..m : t[k] = W[k]) /\ t[m + 1] = y
  BY <1>3, <1>4, <1>5
<1> QED
  BY <1>1, <1>2, <1>3, <1>6 DEF Genuine

LEMMA CheckLone ==
  ASSUME depth \in Depths, Doubling(depth), NEW o, NEW l \in 1..depth, NEW a, NEW h, NEW n, NEW u, NEW W,
         Checks(o, l, a, h, n, u, W), h <= Len(a), ~Paired(a, h),
         NEW x, x = LET p == a[h].pos
                        s == o.siblings[u + 1]
                    IN  [pos |-> Parent(p),
                         hash |-> Hash("node", l - 1, Parent(p),
                                     IF p % 2 = 0 THEN <<a[h].hash, s>> ELSE <<s, a[h].hash>>)]
  PROVE  /\ Len(W) \in Nat /\ Len(W) < Len(Needed(ToSet(o.positions))) /\ Len(Needed(ToSet(o.positions))) \in Nat
         /\ IsSeq(o.siblings) /\ u # Len(o.siblings) =>
               Checks(o, l, a, h + 1, Append(n, x), u + 1, Append(W, Digest(l, Sibling(a[h].pos))))
<1>1. PICK A, N, P, S : A = Pos(a) /\ N = Pos(n) /\ P = ToSet(o.positions) /\ S = Above(P, l)
  OBVIOUS
<1>2. IsSeq(a) /\ IsSeq(n) /\ Walk(P, l, A, h, N, W)
  BY <1>1 DEF Checks
<1>3. InLevel(depth, P) /\ Climb(A, S, h, N)
  BY <1>1, <1>2 DEF Walk
<1>4. /\ Len(A) = Len(a) /\ Len(a) \in Nat
      /\ \A k \in 1..Len(a) : A[k] = a[k].pos
      /\ \A z : Pos(Append(n, z)) = Append(N, z.pos)
  BY <1>1, <1>2, PosMore
<1>5. h \in 1..Len(A) /\ A[h] \in S /\ A[h] \in Nat
  BY <1>3, <1>4, ClimbPlace
<1>6. h \in 1..Len(a) /\ A[h] = a[h].pos
  BY <1>4, <1>5
<1>7. ~(h < Len(A) /\ A[h + 1] = Sibling(A[h]))
  <2>1. h < Len(A) => h + 1 \in 1..Len(a)
    BY <1>4, <1>5, SMTT(30)
  <2>2. h < Len(A) => A[h + 1] = a[h + 1].pos
    BY <1>4, <2>1
  <2> QED
    BY <1>4, <1>6, <2>2 DEF Paired
<1>8. /\ Walk(P, l, A, h + 1, Append(N, Parent(A[h])), Append(W, Digest(l, Sibling(A[h]))))
      /\ Len(W) \in Nat /\ Len(W) < Len(Needed(P)) /\ Len(Needed(P)) \in Nat
  BY <1>2, <1>4, <1>7, WalkLone
<1>9. ASSUME IsSeq(o.siblings), u # Len(o.siblings)
      PROVE  Checks(o, l, a, h + 1, Append(n, x), u + 1, Append(W, Digest(l, Sibling(a[h].pos))))
  <2>1. PICK p, s, y, m, c : p = A[h] /\ s = o.siblings[u + 1] /\ y = Digest(l, Sibling(p)) /\ m = l - 1 /\ c = a[h].hash
    OBVIOUS
  <2>2. /\ x.pos = Parent(p)
        /\ p % 2 = 0 => x.hash = Hash("node", m, Parent(p), <<c, s>>)
        /\ p % 2 # 0 => x.hash = Hash("node", m, Parent(p), <<s, c>>)
    BY <1>6, <2>1
  <2>3. p \in S /\ InLevel(l, S)
    <3>1. l \in 0..depth
      BY DEF Doubling
    <3> QED
      BY <1>1, <1>3, <1>5, <2>1, <3>1, AboveLevels
  <2>4. /\ p % 2 = 0 => (Hash("node", l - 1, Parent(p), <<c, s>>) = Digest(l - 1, Parent(p))
                            <=> c = Digest(l, p) /\ s = Digest(l, Sibling(p)))
        /\ p % 2 # 0 => (Hash("node", l - 1, Parent(p), <<s, c>>) = Digest(l - 1, Parent(p))
                            <=> c = Digest(l, p) /\ s = Digest(l, Sibling(p)))
    <3>1. Joins(l, p, c, s)
      BY <2>3, JoinDigest
    <3> QED
      BY <3>1 DEF Joins
  <2>5. x.hash = Digest(m, x.pos) <=> c = Digest(l, p) /\ s = y
    BY <2>1, <2>2, <2>4
  <2>6. Right(m, Append(n, x), 1) <=> Right(m, n, 1) /\ x.hash = Digest(m, x.pos)
    <3>1. PICK z : z = x
      OBVIOUS
    <3>2. Right(m, Append(n, z), 1) <=> Right(m, n, 1) /\ z.hash = Digest(m, z.pos)
      BY <1>2, RightMore
    <3> QED
      BY <3>1, <3>2
  <2>7. Right(l, a, h) <=> a[h].hash = Digest(l, a[h].pos) /\ Right(l, a, h + 1)
    BY <1>2, <1>6, RightSplit
  <2>8. IsSeq(W) /\ u = Len(W) /\ u <= Len(o.siblings)
    BY DEF Checks
  <2>9. Right(l, a, h) /\ Right(m, n, 1) <=> Genuine(o, W)
    BY <2>1 DEF Checks
  <2>10. Genuine(o, Append(W, y)) <=> Genuine(o, W) /\ o.siblings[Len(W) + 1] = y
    BY <2>8, GenuineMore
  <2>11. Right(l, a, h + 1) /\ Right(m, Append(n, x), 1) <=> Genuine(o, Append(W, y))
    BY <1>6, <2>1, <2>5, <2>6, <2>7, <2>8, <2>9, <2>10
  <2>12. IsSeq(Append(n, x))
    BY <1>2, AnyAppend
  <2>13. IsSeq(Append(W, y)) /\ Len(Append(W, y)) = Len(W) + 1
    BY <2>8, AnyAppend
  <2>14. u + 1 <= Len(o.siblings)
    <3>1. PICK t \in Nat : t = Len(o.siblings)
      BY <1>9, AnyLength
    <3> QED
      BY <1>8, <1>9, <2>8, <3>1
  <2>15. Pos(Append(n, x)) = Append(N, Parent(A[h]))
    BY <1>4, <2>1, <2>2
  <2>16. Walk(ToSet(o.positions), l, Pos(a), h + 1, Pos(Append(n, x)), Append(W, y))
    BY <1>1, <1>8, <2>1, <2>15
  <2>17. Right(l, a, h + 1) /\ Right(l - 1, Append(n, x), 1) <=> Genuine(o, Append(W, y))
    BY <2>1, <2>11
  <2>18. Checks(o, l, a, h + 1, Append(n, x), u + 1, Append(W, y))
    BY <1>2, <2>8, <2>12, <2>13, <2>14, <2>16, <2>17 DEF Checks
  <2> QED
    BY <1>6, <2>1, <2>18
<1> QED
  BY <1>1, <1>8, <1>9

LEMMA CheckUp ==
  ASSUME Doubling(depth), NEW o, NEW l \in 1..depth, NEW a, NEW h, NEW n, NEW u, NEW W,
         Checks(o, l, a, h, n, u, W), ~(h <= Len(a))
  PROVE  Checks(o, l - 1, n, 1, <<>>, u, W)
<1>1. PICK A, N, P, m, g : A = Pos(a) /\ N = Pos(n) /\ P = ToSet(o.positions) /\ m = l - 1 /\ g = m - 1
  OBVIOUS
<1>2. IsSeq(a) /\ IsSeq(n) /\ Walk(P, l, A, h, N, W) /\ (Right(l, a, h) /\ Right(m, n, 1) <=> Genuine(o, W))
  BY <1>1 DEF Checks
<1>3. Len(A) = Len(a) /\ Len(a) \in Nat
  BY <1>1, <1>2, PosMore
<1>4. Walk(P, m, N, 1, <<>>, W)
  BY <1>1, <1>2, <1>3, WalkUp
<1>5. Pos(<<>>) = <<>>
  BY DEF Pos
<1>6. Right(l, a, h) /\ Right(g, <<>>, 1)
  <2>1. h \in Nat
    BY <1>2, <1>3 DEF Walk, Climb
  <2>2. \A k \in 1..Len(a) : ~(k >= h)
    BY <1>3, <2>1
  <2>3. PICK z : z = <<>>
    OBVIOUS
  <2>4. Len(z) = 0
    BY <2>3
  <2>5. \A k \in 1..Len(z) : FALSE
    BY <2>4
  <2>6. Right(g, z, 1)
    BY <2>5 DEF Right
  <2> QED
    BY <2>2, <2>3, <2>6 DEF Right
<1>7. IsSeq(<<>>)
  BY AnyNone
<1>8. IsSeq(W) /\ u = Len(W) /\ u <= Len(o.siblings)
  BY DEF Checks
<1>9. Walk(ToSet(o.positions), m, Pos(n), 1, Pos(<<>>), W)
  BY <1>1, <1>4, <1>5
<1>10. Right(m, n, 1) /\ Right(m - 1, <<>>, 1) <=> Genuine(o, W)
  BY <1>1, <1>2, <1>6
<1>11. Checks(o, m, n, 1, <<>>, u, W)
  BY <1>2, <1>7, <1>8, <1>9, <1>10 DEF Checks
<1> QED
  BY <1>1, <1>11

-----------------------------------------------------------------------------
(* Where the verifier's walk begins and how it ends.                               *)
Typed(o) ==
    /\ o = [positions |-> o.positions, rows |-> o.rows, salts |-> o.salts, siblings |-> o.siblings]
    /\ o.positions \in Seq(Nat) /\ IsSeq(o.rows) /\ IsSeq(o.salts) /\ IsSeq(o.siblings)

Honest(o) == o = HonestOpening(ToSet(o.positions) \cap (0..(NumRows - 1)))

(* Each above the one before: a list in order. *)
LEMMA RisingSteps ==
  ASSUME NEW a \in Seq(Nat), \A k \in DOMAIN a : k > 1 => a[k - 1] < a[k]
  PROVE  Orders(a, ToSet(a))
<1>1. PICK n \in Nat : n = Len(a) /\ DOMAIN a = 1..n
  OBVIOUS
<1>2. \A k \in 1..n : a[k] \in Nat
  BY <1>1
<1>3. ASSUME NEW h \in 1..n, NEW j \in 1..n, h < j, ~(a[h] < a[j])
      PROVE  FALSE
  <2> DEFINE U == {m \in 1..n : h < m /\ ~(a[h] < a[m])}
  <2>1. U \subseteq 1..n /\ 1..n \subseteq Nat /\ j \in U
    BY <1>3
  <2>2. U \subseteq Nat /\ U # {}
    BY <2>1
  <2>3. PICK m \in U : \A q \in U : m <= q
    BY <2>2, LeastNat
  <2>4. m \in 1..n /\ h < m /\ ~(a[h] < a[m])
    BY <2>3
  <2>5. PICK q : q = m - 1
    OBVIOUS
  <2>6. q \in 1..n /\ h <= q /\ ~(m <= q) /\ m > 1
    BY <2>4, <2>5
  <2>7. a[q] < a[m]
    BY <1>1, <2>4, <2>5, <2>6
  <2>8. a[h] \in Nat /\ a[q] \in Nat /\ a[m] \in Nat
    BY <1>2, <2>4, <2>6
  <2>9. ~(a[h] < a[q]) /\ h < q
    <3>1. CASE h = q
      BY <2>4, <2>7, <3>1
    <3>2. CASE h < q
      <4>1. q \notin U
        BY <2>3, <2>6
      <4>2. a[h] < a[q]
        BY <2>6, <3>2, <4>1
      <4> QED
        BY <2>4, <2>7, <2>8, <4>2
    <3> QED
      BY <2>4, <2>6, <3>1, <3>2
  <2>10. q \in U
    BY <2>6, <2>9
  <2> QED
    BY <2>3, <2>6, <2>10
<1>4. Elements(a) = ToSet(a)
  BY <1>1 DEF Elements, ToSet
<1> QED
  BY <1>1, <1>3, <1>4 DEF Orders, Rising

(* The positions of a well-shaped opening are those of the opening of their set. *)
LEMMA ShapedPositions ==
  ASSUME Doubling(depth), NEW o, Typed(o), WellShaped(o)
  PROVE  /\ Orders(o.positions, ToSet(o.positions)) /\ InLevel(depth, ToSet(o.positions))
         /\ ToSet(o.positions) \cap (0..(NumRows - 1)) = ToSet(o.positions)
         /\ Ascending(ToSet(o.positions)) = o.positions
<1>1. PICK a, P, n : a = o.positions /\ P = ToSet(a) /\ n = NumRows
  OBVIOUS
<1>2. n \in Nat /\ n = 2 ^ depth /\ a \in Seq(Nat)
  BY <1>1 DEF Doubling, NumRows, Typed
<1>3. \A k \in DOMAIN a : a[k] < n /\ (k > 1 => a[k - 1] < a[k])
  BY <1>1 DEF WellShaped
<1>4. Orders(a, P)
  BY <1>1, <1>2, <1>3, RisingSteps
<1>5. P \subseteq 0..(n - 1)
  <2>1. \A k \in DOMAIN a : a[k] \in Nat
    BY <1>2
  <2>2. \A k \in DOMAIN a : a[k] \in 0..(n - 1)
    BY <1>2, <1>3, <2>1
  <2> QED
    BY <1>1, <2>2 DEF ToSet
<1>6. IsFiniteSet(P) /\ P \subseteq Nat
  BY <1>4, OrdersSize
<1>7. Orders(Ascending(P), P)
  BY <1>6, AscendingOrders
<1>8. Ascending(P) = a
  BY <1>4, <1>7, OrdersOnly
<1> QED
  BY <1>1, <1>2, <1>4, <1>5, <1>8 DEF InLevel

LEMMA HonestWhen ==
  ASSUME Doubling(depth), NEW o, Typed(o), WellShaped(o)
  PROVE  Honest(o) <=> /\ o.rows = o.positions /\ o.salts = o.positions
                       /\ o.siblings = Needed(ToSet(o.positions))
<1>1. PICK a, P : a = o.positions /\ P = ToSet(a)
  OBVIOUS
<1>2. Ascending(P) = a /\ P \cap (0..(NumRows - 1)) = P
  BY <1>1, ShapedPositions
<1>3. HonestOpening(P) = [positions |-> a, rows |-> a, salts |-> a, siblings |-> Needed(P)]
  BY <1>2 DEF HonestOpening
<1>4. Honest(o) <=> o = HonestOpening(P)
  BY <1>1, <1>2 DEF Honest
<1>5. o = [positions |-> a, rows |-> o.rows, salts |-> o.salts, siblings |-> o.siblings]
  BY <1>1 DEF Typed
<1> QED
  BY <1>1, <1>3, <1>4, <1>5

(* An honest opening is well shaped. *)
LEMMA HonestIsShaped ==
  ASSUME Doubling(depth), NEW o, Typed(o), Honest(o)
  PROVE  WellShaped(o)
<1>1. PICK P, a, n : P = ToSet(o.positions) \cap (0..(NumRows - 1)) /\ a = Ascending(P) /\ n = NumRows
  OBVIOUS
<1>2. n \in Nat /\ n = 2 ^ depth
  BY <1>1 DEF Doubling, NumRows
<1>3. P \subseteq 0..(n - 1)
  BY <1>1
<1>4. IsFiniteSet(0..(n - 1)) /\ 0..(n - 1) \subseteq Nat
  <2>1. PICK q, z : q = n - 1 /\ z = 0
    OBVIOUS
  <2>2. q \in Int /\ z \in Int
    BY <1>2, <2>1
  <2>3. IsFiniteSet(z..q)
    BY <2>2, FS_Interval
  <2> QED
    BY <2>1, <2>3
<1>5. IsFiniteSet(P) /\ P \subseteq Nat
  BY <1>3, <1>4, FS_Subset
<1>6. Orders(a, P)
  BY <1>1, <1>5, AscendingOrders
<1>7. o.positions = a /\ o.rows = a /\ o.salts = a
  BY <1>1 DEF Honest, HonestOpening
<1>8. PICK m \in Nat : m = Len(a) /\ DOMAIN a = 1..m
  BY <1>6 DEF Orders, Rising
<1>9. \A k \in 1..m : a[k] < n
  <2>1. \A k \in 1..m : a[k] \in P
    BY <1>6, <1>8 DEF Orders, Elements
  <2>2. \A q \in P : q < n
    BY <1>2, <1>3
  <2> QED
    BY <2>1, <2>2
<1>10. \A k \in 1..m : k > 1 => a[k - 1] < a[k]
  <2> TAKE k \in 1..m
  <2>1. PICK j : j = k - 1
    OBVIOUS
  <2>2. k > 1 => j \in 1..m /\ j < k
    BY <1>8, <2>1
  <2> QED
    BY <1>6, <1>8, <2>1, <2>2 DEF Orders, Rising
<1> QED
  BY <1>1, <1>7, <1>8, <1>9, <1>10 DEF WellShaped

(* Of no positions, nothing is needed. *)
LEMMA NeededNone ==
  ASSUME Doubling(depth)
  PROVE  Needed({}) = <<>>
<1>1. PICK n, P : n \in Nat /\ n = depth /\ P = {}
  BY DEF Doubling
<1>2. InLevel(depth, P)
  BY <1>1 DEF InLevel
<1>3. PICK D : Collects(P, D)
  BY <1>2, CollectsExists
<1>4. \A l : Lacks(P, l) = {}
  BY <1>1 DEF Lacks, Lacking, Above
<1>5. Ascending({}) = <<>>
  <2>1. Orders(Ascending({}), {})
    BY FS_EmptySet, AscendingOrders
  <2> QED
    BY <2>1, OrdersNone, OrdersOnly
<1>6. \A k \in 1..n : D[k] = D[k - 1]
  <2> TAKE k \in 1..n
  <2>1. PICK l, j : l = n + 1 - k /\ j = k - 1
    OBVIOUS
  <2>2. Digs(l, <<>>) = <<>> /\ j \in 0..n
    BY <1>1, <2>1 DEF Digs
  <2>3. D[k] = D[j] \o Digs(l, Ascending(Lacks(P, l)))
    BY <1>1, <1>3, <2>1 DEF Collects
  <2>4. D[k] = D[j] \o <<>>
    BY <1>4, <1>5, <2>2, <2>3
  <2>5. IsSeq(D[j])
    BY <1>1, <1>3, <2>2 DEF Collects
  <2> QED
    BY <2>1, <2>4, <2>5, AnyNone, AnyJoin
<1>7. ASSUME NEW j \in 0..n, D[j] # <<>>
      PROVE  FALSE
  <2> DEFINE U == {m \in 0..n : D[m] # <<>>}
  <2>1. U \subseteq 0..n /\ 0..n \subseteq Nat /\ j \in U
    BY <1>7
  <2>2. PICK m \in U : \A q \in U : m <= q
    BY <2>1, LeastNat
  <2>3. m \in 0..n /\ D[m] # <<>>
    BY <2>2
  <2>4. m # 0
    BY <1>3, <2>3 DEF Collects
  <2>5. PICK q : q = m - 1
    OBVIOUS
  <2>6. m \in 1..n /\ q \in 0..n /\ ~(m <= q)
    BY <1>1, <2>3, <2>4, <2>5
  <2>7. D[q] = D[m]
    BY <1>6, <2>5, <2>6
  <2>8. q \in U
    BY <2>3, <2>6, <2>7
  <2> QED
    BY <2>2, <2>6, <2>8
<1>8. n \in 0..n /\ D[n] = Needed(P)
  BY <1>1, <1>3 DEF Collects
<1> QED
  BY <1>1, <1>7, <1>8

LEMMA EmptyHonest ==
  ASSUME Doubling(depth), NEW o, Typed(o), WellShaped(o), o.positions = <<>>
  PROVE  Honest(o) <=> o.siblings = <<>>
<1>1. ToSet(o.positions) = {}
  BY DEF ToSet
<1>2. Needed(ToSet(o.positions)) = <<>>
  BY <1>1, NeededNone
<1>3. o.rows = <<>> /\ o.salts = <<>>
  <2>1. Len(o.positions) = 0
    OBVIOUS
  <2>2. Len(o.rows) = 0 /\ Len(o.salts) = 0
    BY <2>1 DEF WellShaped
  <2>3. PICK S : o.rows \in Seq(S)
    BY DEF Typed, IsSeq
  <2>4. PICK U : o.salts \in Seq(U)
    BY DEF Typed, IsSeq
  <2> QED
    BY <2>2, <2>3, <2>4
<1> QED
  BY <1>2, <1>3, HonestWhen

LEMMA CheckBegins ==
  ASSUME Doubling(depth), NEW o, Typed(o), WellShaped(o), depth \in Depths, NEW a,
         a = [k \in DOMAIN o.positions |->
                LET p == o.positions[k]
                IN  [pos |-> p,
                     hash |-> Hash("leaf", depth, p, <<o.salts[k], o.rows[k]>>)]]
  PROVE  Checks(o, depth, a, 1, <<>>, 0, <<>>)
<1>1. PICK s, r, t, n, l : s = o.positions /\ r = o.rows /\ t = o.salts /\ n = Len(s) /\ l = depth
  OBVIOUS
<1>2. n \in Nat /\ DOMAIN s = 1..n /\ s \in Seq(Nat) /\ Len(r) = n /\ Len(t) = n /\ IsSeq(r) /\ IsSeq(t)
  BY <1>1 DEF Typed, WellShaped
<1>3. PICK P : P = ToSet(s)
  OBVIOUS
<1>4. Orders(s, P) /\ InLevel(depth, P)
  BY <1>1, <1>3, ShapedPositions
<1>5. a = [k \in 1..n |-> [pos |-> s[k], hash |-> Hash("leaf", l, s[k], <<t[k], r[k]>>)]]
  BY <1>1, <1>2
<1>6. DOMAIN a = 1..n /\ \A k \in 1..n : a[k].pos = s[k] /\ a[k].hash = Hash("leaf", l, s[k], <<t[k], r[k]>>)
  <2>1. DOMAIN a = 1..n
    BY <1>5
  <2>2. ASSUME NEW k \in 1..n
        PROVE  a[k].pos = s[k] /\ a[k].hash = Hash("leaf", l, s[k], <<t[k], r[k]>>)
    <3>1. a[k] = [pos |-> s[k], hash |-> Hash("leaf", l, s[k], <<t[k], r[k]>>)]
      BY <1>5
    <3> QED
      BY <3>1
  <2> QED
    BY <2>1, <2>2
<1>7. IsSeq(a) /\ Len(a) = n
  <2>1. PICK T : T = {a[k] : k \in 1..n}
    OBVIOUS
  <2>2. a = [k \in 1..n |-> a[k]] /\ \A k \in 1..n : a[k] \in T
    BY <1>5, <2>1
  <2>3. a \in [1..n -> T]
    BY <2>2
  <2>4. a \in Seq(T) /\ Len(a) = n
    <3>1. PICK c : c = a
      OBVIOUS
    <3>2. c \in [1..n -> T] /\ n \in Nat
      BY <1>2, <2>3, <3>1
    <3>3. c \in Seq(T) /\ Len(c) = n
      BY ONLY <3>2
    <3> QED
      BY <3>1, <3>3
  <2> QED
    BY <2>4 DEF IsSeq
<1>8. Pos(a) = s
  <2>1. Pos(a) = [k \in 1..n |-> s[k]]
    BY <1>6 DEF Pos
  <2>2. s = [k \in 1..n |-> s[k]]
    BY <1>2
  <2> QED
    BY <2>1, <2>2
<1>9. Walk(P, l, s, 1, <<>>, <<>>)
  BY <1>1, <1>4, WalkBegins
<1>10. PICK z : z = <<>>
  OBVIOUS
<1>11. IsSeq(z) /\ Len(z) = 0 /\ Pos(z) = z
  BY <1>10, AnyNone DEF Pos
<1>12. \A k \in 1..n : a[k].hash = Digest(l, s[k]) <=> t[k] = s[k] /\ r[k] = s[k]
  <2> TAKE k \in 1..n
  <2>1. PICK p : p = s[k]
    OBVIOUS
  <2>2. p \in P
    BY <1>2, <1>3, <2>1 DEF ToSet
  <2>3. p \in 0..(2 ^ depth - 1) /\ l \in 0..depth
    BY <1>1, <1>4, <2>2 DEF InLevel, Doubling
  <2>4. Digest(l, p) = Hash("leaf", l, p, <<p, p>>)
    BY <1>1, <2>3, DigestIs
  <2>5. \A u, v : Hash("leaf", l, p, <<u, v>>) = Hash("leaf", l, p, <<p, p>>) <=> u = p /\ v = p
    BY DEF Hash
  <2>6. a[k].hash = Hash("leaf", l, p, <<t[k], r[k]>>)
    BY <1>6, <2>1
  <2> QED
    BY <2>1, <2>4, <2>5, <2>6
<1>13. Right(l, a, 1) <=> \A k \in 1..n : t[k] = s[k] /\ r[k] = s[k]
  <2>1. Right(l, a, 1) <=> \A k \in 1..n : a[k].hash = Digest(l, a[k].pos)
    <3>1. Right(l, a, 1) <=> \A k \in 1..n : k >= 1 => a[k].hash = Digest(l, a[k].pos)
      BY <1>7 DEF Right
    <3>2. \A k \in 1..n : k >= 1
      BY <1>2
    <3> QED
      BY <3>1, <3>2
  <2>2. \A k \in 1..n : a[k].pos = s[k]
    BY <1>6
  <2>3. Right(l, a, 1) <=> \A k \in 1..n : a[k].hash = Digest(l, s[k])
    BY <2>1, <2>2
  <2> QED
    BY <1>12, <2>3
<1>14. (\A k \in 1..n : t[k] = s[k] /\ r[k] = s[k]) <=> r = s /\ t = s
  <2>1. IsSeq(s) /\ Len(s) = n
    BY <1>1, <1>2 DEF IsSeq
  <2>2. (\A k \in 1..n : r[k] = s[k]) => r = s
    BY <1>2, <2>1, AnySame
  <2>3. (\A k \in 1..n : t[k] = s[k]) => t = s
    BY <1>2, <2>1, AnySame
  <2> QED
    BY <2>2, <2>3
<1>15. Genuine(o, z) <=> r = s /\ t = s
  <2>1. \A k \in 1..Len(z) : FALSE
    BY <1>11
  <2> QED
    BY <1>1, <2>1 DEF Genuine
<1>16. Right(l - 1, z, 1)
  <2>1. \A k \in 1..Len(z) : FALSE
    BY <1>11
  <2> QED
    BY <2>1 DEF Right
<1>17. 0 <= Len(o.siblings)
  <2>1. Len(o.siblings) \in Nat
    BY AnyLength DEF Typed
  <2> QED
    BY <2>1
<1>18. Right(l, a, 1) /\ Right(l - 1, z, 1) <=> Genuine(o, z)
  BY <1>13, <1>14, <1>15, <1>16
<1>19. Walk(ToSet(o.positions), l, Pos(a), 1, Pos(z), z)
  BY <1>1, <1>3, <1>8, <1>9, <1>10, <1>11
<1>20. Checks(o, l, a, 1, z, 0, z)
  BY <1>7, <1>11, <1>17, <1>18, <1>19 DEF Checks
<1> QED
  BY <1>1, <1>10, <1>20

LEMMA CheckEnds ==
  ASSUME Doubling(depth), NEW o, Typed(o), WellShaped(o), o.positions # <<>>,
         NEW a, NEW n, NEW u, NEW W, Checks(o, 0, a, 1, n, u, W)
  PROVE  u = Len(o.siblings) /\ Len(a) = 1 /\ a[1].hash = Root <=> Honest(o)
<1>1. PICK A, N, P, l, h : A = Pos(a) /\ N = Pos(n) /\ P = ToSet(o.positions) /\ l = 0 /\ h = 1
  OBVIOUS
<1>2. /\ IsSeq(a) /\ IsSeq(n) /\ IsSeq(W) /\ u = Len(W) /\ u <= Len(o.siblings)
      /\ Walk(P, l, A, h, N, W)
      /\ Right(l, a, h) /\ Right(l - 1, n, 1) <=> Genuine(o, W)
  BY <1>1 DEF Checks
<1>3. W = Needed(P)
  BY <1>1, <1>2, WalkEnds
<1>4. InLevel(depth, P) /\ Climb(A, Above(P, l), h, N)
  BY <1>2 DEF Walk
<1>5. P # {}
  <2>1. PICK s : s = o.positions
    OBVIOUS
  <2>2. s \in Seq(Nat) /\ s # <<>>
    BY <2>1 DEF Typed
  <2>3. 1 \in DOMAIN s
    BY <2>2
  <2> QED
    BY <1>1, <2>1, <2>3 DEF ToSet
<1>6. Above(P, l) = {0}
  BY <1>1, <1>4, <1>5, AboveLevels
<1>7. Orders(A, {0})
  BY <1>4, <1>6 DEF Climb
<1>8. Len(A) = 1 /\ A[1] = 0
  <2>1. Len(A) = Cardinality({0})
    BY <1>7, OrdersSize
  <2>2. Len(A) = 1
    BY <2>1, FS_Singleton
  <2>3. Elements(A) = {A[1]}
    BY <2>2 DEF Elements
  <2> QED
    BY <1>7, <2>2, <2>3 DEF Orders
<1>9. Len(a) = 1 /\ a[1].pos = 0
  <2>1. Len(A) = Len(a) /\ \A k \in 1..Len(a) : A[k] = a[k].pos
    BY <1>1, <1>2, PosMore
  <2>2. Len(a) = 1
    BY <1>8, <2>1
  <2>3. 1 \in 1..1
    OBVIOUS
  <2>4. A[1] = a[1].pos
    BY <2>1, <2>2, <2>3
  <2> QED
    BY <1>8, <2>2, <2>4
<1>10. Right(l, a, h) <=> a[1].hash = Root
  <2>1. \A k \in 1..Len(a) : k = 1
    BY <1>9
  <2>2. 1 \in 1..Len(a) /\ 1 >= 1
    BY <1>9
  <2>3. Right(l, a, h) <=> a[1].hash = Digest(l, a[1].pos)
    BY <1>1, <2>1, <2>2 DEF Right
  <2> QED
    BY <1>1, <1>9, <2>3 DEF Root
<1>11. Right(l - 1, n, 1)
  <2>1. Orders(N, Half(Upto(A, h)))
    BY <1>4 DEF Climb
  <2>2. Half(Upto(A, h)) = {}
    BY <1>1 DEF Half, Upto
  <2>3. N = <<>>
    BY <2>1, <2>2, OrdersNone, OrdersOnly
  <2>4. Len(N) = Len(n)
    BY <1>1, <1>2, PosMore
  <2>5. Len(n) = 0
    BY <2>3, <2>4
  <2>6. \A k \in 1..Len(n) : FALSE
    BY <2>5
  <2> QED
    BY <2>6 DEF Right
<1>12. a[1].hash = Root <=> Genuine(o, W)
  BY <1>2, <1>10, <1>11
<1>13. u = Len(o.siblings) /\ (\A k \in 1..Len(W) : o.siblings[k] = W[k]) <=> o.siblings = W
  <2>1. IsSeq(o.siblings)
    BY DEF Typed
  <2>2. PICK t : t = o.siblings
    OBVIOUS
  <2>3. Len(t) = Len(W) /\ (\A k \in 1..Len(W) : t[k] = W[k]) => t = W
    BY <1>2, <2>1, <2>2, AnySame
  <2> QED
    BY <1>2, <2>2, <2>3
<1>14. Honest(o) <=> o.rows = o.positions /\ o.salts = o.positions /\ o.siblings = W
  BY <1>1, <1>3, HonestWhen
<1> QED
  BY <1>9, <1>12, <1>13, <1>14 DEF Genuine

-----------------------------------------------------------------------------
(* The tree does not change, and nothing that is said of it.                       *)
LEMMA SameTree ==
  ASSUME depth' = depth, NEW P, NEW l
  PROVE  /\ \A k : Digest(l, k)' = Digest(l, k)
         /\ Above(P, l)' = Above(P, l) /\ NeededAt(P, l)' = NeededAt(P, l)
<1>1. \A k : Digest(l, k)' = Digest(l, k)
  BY DEF Digest
<1>2. Above(P, l)' = Above(P, l)
  BY DEF Above
<1> QED
  BY <1>1, <1>2 DEF NeededAt

LEMMA SameNeeded ==
  ASSUME depth' = depth, NEW P
  PROVE  Needed(P)' = Needed(P)
<1> DEFINE part(d, l) == [j \in DOMAIN NeededAt(P, l) |-> Digest(l, NeededAt(P, l)[j])]
<1>1. \A l : NeededAt(P, l)' = NeededAt(P, l)
  <2> TAKE l
  <2> QED
    BY SameTree
<1>2. \A l, k : Digest(l, k)' = Digest(l, k)
  <2> TAKE l
  <2> QED
    BY SameTree
<1>3. PICK s, t : /\ s = [k \in 1..depth |->
                            LET l == depth + 1 - k IN [j \in DOMAIN NeededAt(P, l) |-> Digest(l, NeededAt(P, l)[j])]]
                  /\ t = [k \in 1..depth |->
                            LET l == depth + 1 - k IN [j \in DOMAIN NeededAt(P, l) |-> Digest(l, NeededAt(P, l)[j])]]'
  OBVIOUS
<1>4. s = t
  BY <1>1, <1>2, <1>3
<1>5. Needed(P) = FlattenSeq(s) /\ Needed(P)' = FlattenSeq(t)
  BY <1>3 DEF Needed
<1> QED
  BY <1>4, <1>5

LEMMA SameWalk ==
  ASSUME depth' = depth, NEW P, NEW l, NEW A, NEW h, NEW N, NEW W, Walk(P, l, A, h, N, W)
  PROVE  Walk(P, l, A, h, N, W)'
<1>1. \A k, M : Digs(k, M)' = Digs(k, M)
  <2> TAKE k, M
  <2>1. \A j : Digest(k, j)' = Digest(k, j)
    BY SameTree
  <2> QED
    BY <2>1 DEF Digs
<1>2. \A k : Above(P, k)' = Above(P, k)
  <2> TAKE k
  <2> QED
    BY SameTree
<1>3. \A k : Lacks(P, k)' = Lacks(P, k)
  BY <1>2 DEF Lacks, Lacking
<1>4. Needed(P)' = Needed(P)
  BY SameNeeded
<1>5. \A D : Collects(P, D) => Collects(P, D)'
  BY <1>1, <1>3, <1>4 DEF Collects
<1>6. Emits(P, l, A, h, W)'
  <2>1. PICK D, M : /\ Collects(P, D)
                    /\ Orders(M, Lacking(Above(P, l), Upto(A, h)))
                    /\ W = D[depth - l] \o Digs(l, M)
    BY DEF Walk, Emits
  <2>2. Lacking(Above(P, l), Upto(A, h))' = Lacking(Above(P, l), Upto(A, h))
    BY <1>2 DEF Lacking, Upto
  <2>3. Orders(M, Lacking(Above(P, l), Upto(A, h)))'
    BY <2>1, <2>2 DEF Orders, Rising, Elements
  <2>4. Collects(P, D)' /\ (W = D[depth - l] \o Digs(l, M))'
    BY <1>1, <1>5, <2>1
  <2> QED
    BY <2>3, <2>4 DEF Emits
<1>7. Climb(A, Above(P, l), h, N)'
  BY <1>2 DEF Walk, Climb, Orders, Rising, Elements, Apart, Half, Upto, Parent
<1>8. InLevel(depth, P)'
  BY DEF Walk, InLevel
<1> QED
  BY <1>6, <1>7, <1>8 DEF Walk

LEMMA SameChecks ==
  ASSUME depth' = depth, NEW o, NEW l, NEW a, NEW h, NEW n, NEW u, NEW W, Checks(o, l, a, h, n, u, W)
  PROVE  Checks(o, l, a, h, n, u, W)'
<1>1. PICK A, N, P, m : A = Pos(a) /\ N = Pos(n) /\ P = ToSet(o.positions) /\ m = l - 1
  OBVIOUS
<1>2. Walk(P, l, A, h, N, W)
  BY <1>1 DEF Checks
<1>3. Walk(P, l, A, h, N, W)'
  BY <1>2, SameWalk
<1>4. \A k : Digest(l, k)' = Digest(l, k)
  BY SameTree
<1>5. \A k : Digest(m, k)' = Digest(m, k)
  BY SameTree
<1>6. Right(l, a, h)' = Right(l, a, h) /\ Right(m, n, 1)' = Right(m, n, 1)
  BY <1>4, <1>5 DEF Right
<1>7. Genuine(o, W)' = Genuine(o, W)
  BY DEF Genuine
<1> QED
  BY <1>1, <1>3, <1>6, <1>7 DEF Checks, IsSeq, Pos, ToSet

LEMMA SameHonest ==
  ASSUME depth' = depth, NEW o
  PROVE  WellShaped(o)' = WellShaped(o) /\ Honest(o)' = Honest(o) /\ Typed(o)' = Typed(o)
<1>1. NumRows' = NumRows
  BY DEF NumRows
<1>2. PICK P : P = ToSet(o.positions) \cap (0..(NumRows - 1))
  OBVIOUS
<1>3. P = (ToSet(o.positions) \cap (0..(NumRows - 1)))'
  BY <1>1, <1>2 DEF ToSet
<1>4. HonestOpening(P)' = HonestOpening(P)
  BY SameNeeded DEF HonestOpening
<1>5. Honest(o)' = Honest(o)
  BY <1>2, <1>3, <1>4 DEF Honest
<1> QED
  BY <1>1, <1>5 DEF WellShaped, Typed, IsSeq

-----------------------------------------------------------------------------
(* The prover: what it has built of the opening, and what it sends.                *)
Opens(o, l, a, h, n) ==
    /\ l \in 1..depth /\ Typed(o) /\ WellShaped(o) /\ o.rows = o.positions /\ o.salts = o.positions
    /\ IsSeq(a) /\ IsSeq(n)
    /\ Walk(ToSet(o.positions), l, Pos(a), h, Pos(n), o.siblings)

Made(o) == Typed(o) /\ WellShaped(o) /\ Honest(o)

(* Sorting whatever was asked for makes a well-shaped request. *)
LEMMA OpenBegins ==
  ASSUME Doubling(depth), NEW ps, ps \in Seq(0..(NumRows - 1)), NEW s, s = Ascending(ToSet(ps)), NEW o,
         o = [positions |-> s, rows |-> s, salts |-> s, siblings |-> <<>>]
  PROVE  /\ s = <<>> \/ depth = 0 => Made(o)
         /\ s # <<>> /\ depth # 0 => Opens(o, depth, Nodes(s), 1, <<>>)
<1>1. PICK P, n, z : P = ToSet(ps) /\ n = NumRows /\ z = <<>>
  OBVIOUS
<1>2. n \in Nat /\ n = 2 ^ depth /\ depth \in Nat
  BY <1>1 DEF Doubling, NumRows
<1>3. P \subseteq 0..(n - 1)
  <2>1. \A k \in DOMAIN ps : ps[k] \in 0..(n - 1)
    <3>1. PICK S : S = 0..(n - 1)
      OBVIOUS
    <3>2. ps \in Seq(S)
      BY <1>1, <3>1
    <3>3. \A k \in DOMAIN ps : ps[k] \in S
      BY <3>2
    <3> QED
      BY <3>1, <3>3
  <2> QED
    BY <1>1, <2>1 DEF ToSet
<1>4. IsFiniteSet(P) /\ P \subseteq Nat
  <2>1. PICK q, y : q = n - 1 /\ y = 0
    OBVIOUS
  <2>2. q \in Int /\ y \in Int
    BY <1>2, <2>1
  <2>3. IsFiniteSet(y..q) /\ P \subseteq y..q
    BY <1>3, <2>1, <2>2, FS_Interval
  <2>4. IsFiniteSet(P)
    BY <2>3, FS_Subset
  <2>5. 0..(n - 1) \subseteq Nat
    BY <1>2
  <2> QED
    BY <1>3, <2>4, <2>5
<1>5. Orders(s, P)
  BY <1>1, <1>4, AscendingOrders
<1>6. PICK m \in Nat : m = Len(s) /\ DOMAIN s = 1..m
  BY <1>5 DEF Orders, Rising
<1>7. P = ToSet(s)
  BY <1>5, <1>6 DEF Orders, Elements, ToSet
<1>8. o.positions = s /\ o.rows = s /\ o.salts = s /\ o.siblings = z
  BY <1>1
<1>9. Typed(o)
  <2>1. s \in Seq(Nat)
    BY <1>5 DEF Orders, Rising
  <2>2. IsSeq(s) /\ IsSeq(z)
    BY <1>1, <2>1, AnyNone DEF IsSeq
  <2> QED
    BY <1>1, <1>8, <2>1, <2>2 DEF Typed
<1>10. WellShaped(o)
  <2>1. \A k \in 1..m : s[k] < n
    <3>1. \A k \in 1..m : s[k] \in P
      BY <1>6, <1>7 DEF ToSet
    <3>2. \A q \in P : q < n
      BY <1>2, <1>3
    <3> QED
      BY <3>1, <3>2
  <2>2. \A k \in 1..m : k > 1 => s[k - 1] < s[k]
    <3> TAKE k \in 1..m
    <3>1. PICK j : j = k - 1
      OBVIOUS
    <3>2. k > 1 => j \in 1..m /\ j < k
      BY <1>6, <3>1
    <3> QED
      BY <1>5, <1>6, <3>1, <3>2 DEF Orders, Rising
  <2> QED
    BY <1>1, <1>6, <1>8, <2>1, <2>2 DEF WellShaped
<1>11. InLevel(depth, P)
  BY <1>2, <1>3 DEF InLevel
<1>12. Needed(P) = z => Made(o)
  BY <1>7, <1>8, <1>9, <1>10, HonestWhen DEF Made
<1>13. s = <<>> => Needed(P) = z
  <2>1. s = <<>> => P = {}
    <3>1. s = <<>> => Len(s) = 0
      OBVIOUS
    <3>2. s = <<>> => DOMAIN s = {}
      BY <1>6, <3>1
    <3> QED
      BY <1>7, <3>2 DEF ToSet
  <2> QED
    BY <1>1, <2>1, NeededNone
<1>14. depth = 0 => Needed(P) = z
  <2>1. PICK D : Collects(P, D)
    BY <1>11, CollectsExists
  <2> QED
    BY <1>1, <2>1 DEF Collects
<1>15. ASSUME depth # 0
       PROVE  Opens(o, depth, Nodes(s), 1, <<>>)
  <2>1. PICK a : a = Nodes(s)
    OBVIOUS
  <2>2. a = [k \in 1..m |-> [pos |-> s[k]]]
    BY <1>6, <2>1 DEF Nodes
  <2>3. IsSeq(a)
    <3>1. PICK T : T = {a[k] : k \in 1..m}
      OBVIOUS
    <3>2. a = [k \in 1..m |-> a[k]] /\ \A k \in 1..m : a[k] \in T
      BY <2>2, <3>1
    <3>3. a \in [1..m -> T]
      BY <3>2
    <3>4. a \in Seq(T)
      BY ONLY <3>3, m \in Nat
    <3> QED
      BY <3>4 DEF IsSeq
  <2>4. Pos(a) = s
    <3>1. DOMAIN a = 1..m /\ \A k \in 1..m : a[k].pos = s[k]
      BY <2>2
    <3>2. Pos(a) = [k \in 1..m |-> s[k]]
      BY <3>1 DEF Pos
    <3>3. s = [k \in 1..m |-> s[k]]
      BY <1>5, <1>6 DEF Orders, Rising
    <3> QED
      BY <3>2, <3>3
  <2>5. Pos(z) = z /\ IsSeq(z)
    BY <1>1, AnyNone DEF Pos
  <2>6. Walk(P, depth, s, 1, z, z)
    BY <1>1, <1>5, <1>11, WalkBegins
  <2>7. PICK l : l = depth
    OBVIOUS
  <2>8. l \in 1..depth
    BY <1>2, <1>15, <2>7
  <2>9. Opens(o, l, a, 1, z)
    BY <1>7, <1>8, <1>9, <1>10, <2>3, <2>4, <2>5, <2>6, <2>7, <2>8 DEF Opens
  <2> QED
    BY <1>1, <2>1, <2>7, <2>9
<1> QED
  BY <1>1, <1>12, <1>13, <1>14, <1>15

LEMMA EmitPair ==
  ASSUME Doubling(depth), NEW o, NEW l, NEW a, NEW h, NEW n, Opens(o, l, a, h, n), h <= Len(a), Paired(a, h),
         NEW x, x = [pos |-> Parent(a[h].pos)]
  PROVE  Opens(o, l, a, h + 2, Append(n, x))
<1>1. PICK A, N, P : A = Pos(a) /\ N = Pos(n) /\ P = ToSet(o.positions)
  OBVIOUS
<1>2. IsSeq(a) /\ IsSeq(n) /\ Walk(P, l, A, h, N, o.siblings)
  BY <1>1 DEF Opens
<1>3. /\ Len(A) = Len(a) /\ Len(a) \in Nat
      /\ \A k \in 1..Len(a) : A[k] = a[k].pos
      /\ \A z : Pos(Append(n, z)) = Append(N, z.pos)
  BY <1>1, <1>2, PosMore
<1>4. Climb(A, Above(P, l), h, N)
  BY <1>2 DEF Walk
<1>5. h \in 1..Len(A)
  BY <1>3, <1>4, ClimbPlace
<1>6. h < Len(a) /\ a[h + 1].pos = Sibling(a[h].pos)
  BY DEF Paired
<1>7. h \in 1..Len(a) /\ h + 1 \in 1..Len(a)
  BY <1>3, <1>5, <1>6
<1>8. A[h] = a[h].pos /\ h < Len(A) /\ A[h + 1] = Sibling(A[h])
  BY <1>3, <1>6, <1>7
<1>9. Walk(P, l, A, h + 2, Append(N, Parent(A[h])), o.siblings)
  BY <1>2, <1>8, WalkPair
<1>10. x.pos = Parent(A[h]) /\ Pos(Append(n, x)) = Append(N, Parent(A[h]))
  BY <1>3, <1>8
<1>11. IsSeq(Append(n, x))
  BY <1>2, AnyAppend
<1> QED
  BY <1>1, <1>9, <1>10, <1>11 DEF Opens

LEMMA TypedSiblings ==
  ASSUME NEW o, Typed(o), NEW t, IsSeq(t)
  PROVE  /\ Typed([o EXCEPT !.siblings = t])
         /\ [o EXCEPT !.siblings = t].siblings = t
         /\ [o EXCEPT !.siblings = t].positions = o.positions
         /\ [o EXCEPT !.siblings = t].rows = o.rows
         /\ [o EXCEPT !.siblings = t].salts = o.salts
<1>1. PICK e, s, r, u, g : e = [o EXCEPT !.siblings = t] /\ s = o.positions /\ r = o.rows /\ u = o.salts /\ g = o.siblings
  OBVIOUS
<1>2. o = [positions |-> s, rows |-> r, salts |-> u, siblings |-> g]
  BY <1>1 DEF Typed
<1>3. e = [positions |-> s, rows |-> r, salts |-> u, siblings |-> t]
  BY <1>1, <1>2
<1>4. e.positions = s /\ e.rows = r /\ e.salts = u /\ e.siblings = t
  BY <1>3
<1>5. s \in Seq(Nat) /\ IsSeq(r) /\ IsSeq(u)
  BY <1>1 DEF Typed
<1>6. Typed(e)
  BY <1>3, <1>4, <1>5 DEF Typed
<1> QED
  BY <1>1, <1>4, <1>6

LEMMA EmitLone ==
  ASSUME Doubling(depth), NEW o, NEW l, NEW a, NEW h, NEW n, Opens(o, l, a, h, n), h <= Len(a), ~Paired(a, h),
         NEW x, x = [pos |-> Parent(a[h].pos)],
         NEW e, e = [o EXCEPT !.siblings = Append(@, Digest(l, Sibling(a[h].pos)))]
  PROVE  Opens(e, l, a, h + 1, Append(n, x))
<1>1. PICK A, N, P, W : A = Pos(a) /\ N = Pos(n) /\ P = ToSet(o.positions) /\ W = o.siblings
  OBVIOUS
<1>2. IsSeq(a) /\ IsSeq(n) /\ Walk(P, l, A, h, N, W) /\ l \in 1..depth /\ IsSeq(W) /\ Typed(o) /\ WellShaped(o)
        /\ o.rows = o.positions /\ o.salts = o.positions
  BY <1>1 DEF Opens, Typed
<1>3. /\ Len(A) = Len(a) /\ Len(a) \in Nat
      /\ \A k \in 1..Len(a) : A[k] = a[k].pos
      /\ \A z : Pos(Append(n, z)) = Append(N, z.pos)
  BY <1>1, <1>2, PosMore
<1>4. Climb(A, Above(P, l), h, N)
  BY <1>2 DEF Walk
<1>5. h \in 1..Len(A)
  BY <1>3, <1>4, ClimbPlace
<1>6. h \in 1..Len(a) /\ A[h] = a[h].pos
  BY <1>3, <1>5
<1>7. ~(h < Len(A) /\ A[h + 1] = Sibling(A[h]))
  <2>1. h < Len(A) => h + 1 \in 1..Len(a)
    BY <1>3, <1>5
  <2>2. h < Len(A) => A[h + 1] = a[h + 1].pos
    BY <1>3, <2>1
  <2> QED
    BY <1>3, <1>6, <2>2 DEF Paired
<1>8. Walk(P, l, A, h + 1, Append(N, Parent(A[h])), Append(W, Digest(l, Sibling(A[h]))))
  BY <1>2, <1>3, <1>7, WalkLone
<1>9. x.pos = Parent(A[h]) /\ Pos(Append(n, x)) = Append(N, Parent(A[h])) /\ IsSeq(Append(n, x))
  BY <1>2, <1>3, <1>6, AnyAppend
<1>10. PICK t : t = Append(W, Digest(l, Sibling(A[h])))
  OBVIOUS
<1>11. IsSeq(t) /\ e = [o EXCEPT !.siblings = t]
  BY <1>1, <1>2, <1>6, <1>10, AnyAppend
<1>12. Typed(e) /\ e.siblings = t /\ e.positions = o.positions /\ e.rows = o.rows /\ e.salts = o.salts
  <2>1. /\ Typed([o EXCEPT !.siblings = t])
        /\ [o EXCEPT !.siblings = t].siblings = t
        /\ [o EXCEPT !.siblings = t].positions = o.positions
        /\ [o EXCEPT !.siblings = t].rows = o.rows
        /\ [o EXCEPT !.siblings = t].salts = o.salts
    BY ONLY <1>2, <1>11, TypedSiblings
  <2> QED
    BY <1>11, <2>1
<1>13. WellShaped(e)
  BY <1>2, <1>12 DEF WellShaped
<1> QED
  BY <1>1, <1>2, <1>8, <1>9, <1>10, <1>12, <1>13 DEF Opens

LEMMA OpenUp ==
  ASSUME Doubling(depth), NEW o, NEW l, NEW a, NEW h, NEW n, Opens(o, l, a, h, n), ~(h <= Len(a))
  PROVE  /\ l # 1 => Opens(o, l - 1, n, 1, <<>>)
         /\ l = 1 => Made(o)
<1>1. PICK A, N, P, m, W, z : A = Pos(a) /\ N = Pos(n) /\ P = ToSet(o.positions) /\ m = l - 1 /\ W = o.siblings /\ z = <<>>
  OBVIOUS
<1>2. IsSeq(a) /\ IsSeq(n) /\ Walk(P, l, A, h, N, W) /\ l \in 1..depth /\ Typed(o) /\ WellShaped(o)
        /\ o.rows = o.positions /\ o.salts = o.positions
  BY <1>1 DEF Opens
<1>3. Len(A) = Len(a)
  BY <1>1, <1>2, PosMore
<1>4. Walk(P, m, N, 1, z, W)
  BY <1>1, <1>2, <1>3, WalkUp
<1>5. Pos(z) = z /\ IsSeq(z)
  BY <1>1, AnyNone DEF Pos
<1>6. l # 1 => m \in 1..depth
  BY <1>1, <1>2 DEF Doubling
<1>7. l # 1 => Opens(o, m, n, 1, z)
  BY <1>1, <1>2, <1>4, <1>5, <1>6 DEF Opens
<1>8. l = 1 => W = Needed(P)
  <2>1. l = 1 => Walk(P, 0, N, 1, z, W)
    BY <1>1, <1>4
  <2> QED
    BY <2>1, WalkEnds
<1>9. l = 1 => Made(o)
  BY <1>1, <1>2, <1>8, HonestWhen DEF Made
<1> QED
  BY <1>1, <1>7, <1>9

-----------------------------------------------------------------------------
(* The verifier: what it has checked of the opening, and how it concludes.         *)
Judging(o, l, a, h, n, u) ==
    /\ Typed(o) /\ WellShaped(o) /\ o.positions # <<>>
    /\ l \in 0..depth /\ (l = 0 => h = 1)
    /\ \E W : Checks(o, l, a, h, n, u, W)

LEMMA JudgeBegins ==
  ASSUME Doubling(depth), NEW o, Typed(o), WellShaped(o), depth \in Depths, o.positions # <<>>, NEW a,
         a = [k \in DOMAIN o.positions |->
                LET p == o.positions[k]
                IN  [pos |-> p,
                     hash |-> Hash("leaf", depth, p, <<o.salts[k], o.rows[k]>>)]]
  PROVE  Judging(o, depth, a, 1, <<>>, 0)
<1>1. Checks(o, depth, a, 1, <<>>, 0, <<>>)
  BY CheckBegins
<1>2. depth \in 0..depth
  BY DEF Doubling
<1> QED
  BY <1>1, <1>2 DEF Judging

LEMMA JudgePair ==
  ASSUME depth \in Depths, Doubling(depth), NEW o, NEW l, NEW a, NEW h, NEW n, NEW u,
         Judging(o, l, a, h, n, u), l > 0, h <= Len(a), Paired(a, h),
         NEW x, x = [pos |-> Parent(a[h].pos), hash |-> Hash("node", l - 1, Parent(a[h].pos), <<a[h].hash, a[h + 1].hash>>)]
  PROVE  a[h].pos % 2 = 0 /\ Judging(o, l, a, h + 2, Append(n, x), u)
<1>1. l \in 1..depth
  BY DEF Judging, Doubling
<1>2. PICK W : Checks(o, l, a, h, n, u, W)
  BY DEF Judging
<1>3. a[h].pos % 2 = 0 /\ Checks(o, l, a, h + 2, Append(n, x), u, W)
  BY <1>1, <1>2, CheckPair
<1>4. l # 0
  BY <1>1
<1> QED
  BY <1>3, <1>4 DEF Judging

LEMMA JudgeLone ==
  ASSUME depth \in Depths, Doubling(depth), NEW o, NEW l, NEW a, NEW h, NEW n, NEW u,
         Judging(o, l, a, h, n, u), l > 0, h <= Len(a), ~Paired(a, h),
         NEW x, x = LET p == a[h].pos
                        s == o.siblings[u + 1]
                    IN  [pos |-> Parent(p),
                         hash |-> Hash("node", l - 1, Parent(p),
                                     IF p % 2 = 0 THEN <<a[h].hash, s>> ELSE <<s, a[h].hash>>)]
  PROVE  /\ u # Len(o.siblings) => Judging(o, l, a, h + 1, Append(n, x), u + 1)
         /\ u = Len(o.siblings) => ~Honest(o)
<1>1. l \in 1..depth /\ l # 0
  BY DEF Judging, Doubling
<1>2. PICK W : Checks(o, l, a, h, n, u, W)
  BY DEF Judging
<1>3. IsSeq(o.siblings) /\ Typed(o) /\ WellShaped(o)
  BY DEF Judging, Typed
<1>4. PICK P : P = ToSet(o.positions)
  OBVIOUS
<1>5. /\ Len(W) \in Nat /\ Len(W) < Len(Needed(P)) /\ Len(Needed(P)) \in Nat
      /\ u # Len(o.siblings) => Checks(o, l, a, h + 1, Append(n, x), u + 1, Append(W, Digest(l, Sibling(a[h].pos))))
  BY <1>1, <1>2, <1>3, <1>4, CheckLone
<1>6. u # Len(o.siblings) => Judging(o, l, a, h + 1, Append(n, x), u + 1)
  BY <1>1, <1>5 DEF Judging
<1>7. u = Len(o.siblings) => o.siblings # Needed(P)
  <2>1. u = Len(W)
    BY <1>2 DEF Checks
  <2> QED
    BY <1>5, <2>1
<1>8. Honest(o) => o.siblings = Needed(P)
  BY <1>3, <1>4, HonestWhen
<1> QED
  BY <1>6, <1>7, <1>8

LEMMA JudgeUp ==
  ASSUME Doubling(depth), NEW o, NEW l, NEW a, NEW h, NEW n, NEW u,
         Judging(o, l, a, h, n, u), l > 0, ~(h <= Len(a))
  PROVE  Judging(o, l - 1, n, 1, <<>>, u)
<1>1. l \in 1..depth /\ l - 1 \in 0..depth
  BY DEF Judging, Doubling
<1>2. PICK W : Checks(o, l, a, h, n, u, W)
  BY DEF Judging
<1>3. Checks(o, l - 1, n, 1, <<>>, u, W)
  BY <1>1, <1>2, CheckUp
<1> QED
  BY <1>1, <1>3 DEF Judging

LEMMA JudgeEnds ==
  ASSUME Doubling(depth), NEW o, NEW a, NEW h, NEW n, NEW u, Judging(o, 0, a, h, n, u)
  PROVE  u = Len(o.siblings) /\ Len(a) = 1 /\ a[1].hash = Root <=> Honest(o)
<1>1. PICK W : Checks(o, 0, a, h, n, u, W)
  BY DEF Judging
<1>2. h = 1
  BY DEF Judging
<1>3. Checks(o, 0, a, 1, n, u, W)
  BY <1>1, <1>2
<1> QED
  BY <1>3, CheckEnds DEF Judging

(* Whatever is shown to the verifier has lists of the right kinds. *)
LEMMA PartsTyped ==
  ASSUME NEW S, NEW s \in Seq(S)
  PROVE  Drop(s) \in Seq(S) /\ Reverse(s) \in Seq(S)
<1>1. PICK m \in Nat : m = Len(s) /\ DOMAIN s = 1..m
  OBVIOUS
<1>2. \A k \in 1..m : s[k] \in S
  BY <1>1
<1>3. Reverse(s) = [k \in 1..m |-> s[(m - k) + 1]]
  BY <1>1 DEF Reverse
<1>4. \A k \in 1..m : (m - k) + 1 \in 1..m
  BY <1>1
<1>5. \A k \in 1..m : s[(m - k) + 1] \in S
  <2> TAKE k \in 1..m
  <2>1. PICK j \in 1..m : j = (m - k) + 1
    BY <1>4
  <2> QED
    BY <1>2, <2>1
<1>6. Reverse(s) \in Seq(S)
  <2>1. PICK r : r = Reverse(s)
    OBVIOUS
  <2>2. r \in [1..m -> S]
    BY <1>3, <1>5, <2>1
  <2>3. r \in Seq(S)
    BY ONLY <2>2, m \in Nat
  <2> QED
    BY <2>1, <2>3
<1>7. s # <<>> => m >= 1
  BY <1>1
<1>8. s # <<>> => Front(s) \in Seq(S)
  <2>1. PICK q : q = m - 1
    OBVIOUS
  <2>2. s # <<>> => q \in 0..m /\ q \in Nat
    BY <1>1, <1>7, <2>1
  <2>3. Front(s) = SubSeq(s, 1, q)
    BY <1>1, <2>1 DEF Front
  <2>4. s # <<>> => SubSeq(s, 1, q) \in Seq(S)
    BY <1>1, <2>2
  <2> QED
    BY <2>3, <2>4
<1>9. Drop(s) \in Seq(S)
  BY <1>8 DEF Drop
<1> QED
  BY <1>6, <1>9

LEMMA AlteredTyped ==
  ASSUME NEW o, Typed(o), NEW e,
         \/ e = [o EXCEPT !.siblings = Append(@, Junk)]
         \/ e = [o EXCEPT !.siblings = Drop(@)]
         \/ e = [o EXCEPT !.siblings = Reverse(@)]
         \/ e = [o EXCEPT !.rows = Drop(@)]
         \/ e = [o EXCEPT !.salts = Drop(@)]
         \/ e = [o EXCEPT !.positions = Reverse(@)]
  PROVE  Typed(e)
<1>1. PICK s, r, u, g : s = o.positions /\ r = o.rows /\ u = o.salts /\ g = o.siblings
  OBVIOUS
<1>2. o = [positions |-> s, rows |-> r, salts |-> u, siblings |-> g]
  BY <1>1 DEF Typed
<1>3. s \in Seq(Nat) /\ IsSeq(r) /\ IsSeq(u) /\ IsSeq(g)
  BY <1>1 DEF Typed
<1>4. \A z : IsSeq(z) => IsSeq(Drop(z)) /\ IsSeq(Reverse(z))
  <2> TAKE z
  <2> HAVE IsSeq(z)
  <2>1. PICK S : z \in Seq(S)
    BY DEF IsSeq
  <2> QED
    BY <2>1, PartsTyped DEF IsSeq
<1>5. Reverse(s) \in Seq(Nat)
  BY <1>3, PartsTyped
<1>6. IsSeq(Append(g, Junk))
  BY <1>3, AnyAppend
<1>7. PICK j, d, v, w, x, y : /\ j = Append(g, Junk) /\ d = Drop(g) /\ v = Reverse(g)
                              /\ w = Drop(r) /\ x = Drop(u) /\ y = Reverse(s)
  OBVIOUS
<1>8. IsSeq(j) /\ IsSeq(d) /\ IsSeq(v) /\ IsSeq(w) /\ IsSeq(x) /\ y \in Seq(Nat)
  BY <1>3, <1>4, <1>5, <1>6, <1>7
<1>9. \/ e = [positions |-> s, rows |-> r, salts |-> u, siblings |-> j]
      \/ e = [positions |-> s, rows |-> r, salts |-> u, siblings |-> d]
      \/ e = [positions |-> s, rows |-> r, salts |-> u, siblings |-> v]
      \/ e = [positions |-> s, rows |-> w, salts |-> u, siblings |-> g]
      \/ e = [positions |-> s, rows |-> r, salts |-> x, siblings |-> g]
      \/ e = [positions |-> y, rows |-> r, salts |-> u, siblings |-> g]
  BY <1>1, <1>2, <1>7
<1>10. ASSUME NEW a, NEW b, NEW c, NEW f, a \in Seq(Nat), IsSeq(b), IsSeq(c), IsSeq(f),
              e = [positions |-> a, rows |-> b, salts |-> c, siblings |-> f]
       PROVE  Typed(e)
  <2>1. e.positions = a /\ e.rows = b /\ e.salts = c /\ e.siblings = f
    BY <1>10
  <2> QED
    BY <1>10, <2>1 DEF Typed
<1> QED
  BY <1>3, <1>8, <1>9, <1>10

LEMMA ListsTyped ==
  ASSUME NEW S, NEW n \in Nat, NEW s \in SeqsUpTo(S, n)
  PROVE  s \in Seq(S) /\ IsSeq(s)
<1>1. PICK m \in 0..n : s \in [1..m -> S]
  BY DEF SeqsUpTo
<1>2. m \in Nat
  OBVIOUS
<1>3. s \in Seq(S)
  BY ONLY <1>1, <1>2
<1> QED
  BY <1>3 DEF IsSeq

-----------------------------------------------------------------------------
(* The inductive invariant: what holds at every place of the two programs.         *)
IInv ==
    /\ depth \in Depths
    /\ pc = "ask" => level = depth /\ i = 1 /\ next = <<>>
    /\ pc = "open" => Opens(opening, level, active, i, next)
    /\ pc = "sent" => Made(opening)
    /\ pc = "shape" => Typed(opening) /\ level = depth /\ i = 1 /\ next = <<>> /\ used = 0
    /\ pc = "check" => Judging(opening, level, active, i, next, used)
    /\ pc \in {"accept", "reject"} => (pc = "accept" <=> Honest(opening))

(* The bounds are numbers, and the levels of every tree double. *)
Fits == MAX_OPEN \in Nat /\ FREE_OPEN \in Nat /\ \A d \in Depths : Doubling(d)

LEMMA SameOpens ==
  ASSUME depth' = depth, NEW o, NEW l, NEW a, NEW h, NEW n
  PROVE  /\ Opens(o, l, a, h, n) => Opens(o, l, a, h, n)'
         /\ Made(o) => Made(o)'
<1>1. PICK P, A, N, W : P = ToSet(o.positions) /\ A = Pos(a) /\ N = Pos(n) /\ W = o.siblings
  OBVIOUS
<1>2. Walk(P, l, A, h, N, W) => Walk(P, l, A, h, N, W)'
  BY SameWalk
<1>3. WellShaped(o)' = WellShaped(o) /\ Honest(o)' = Honest(o) /\ Typed(o)' = Typed(o)
  BY SameHonest
<1>4. Opens(o, l, a, h, n) => Opens(o, l, a, h, n)'
  BY <1>1, <1>2, <1>3 DEF Opens, IsSeq, Pos, ToSet
<1> QED
  BY <1>3, <1>4 DEF Made

LEMMA SameJudging ==
  ASSUME depth' = depth, NEW o, NEW l, NEW a, NEW h, NEW n, NEW u
  PROVE  Judging(o, l, a, h, n, u) => Judging(o, l, a, h, n, u)'
<1>1. \A W : Checks(o, l, a, h, n, u, W) => Checks(o, l, a, h, n, u, W)'
  <2> TAKE W
  <2> QED
    BY SameChecks
<1>2. WellShaped(o)' = WellShaped(o) /\ Typed(o)' = Typed(o)
  BY SameHonest
<1> QED
  BY <1>1, <1>2 DEF Judging

LEMMA RequestKeeps ==
  ASSUME Fits, IInv, Request
  PROVE  IInv'
<1>1. depth \in Depths /\ Doubling(depth) /\ level = depth /\ i = 1 /\ next = <<>>
  BY DEF IInv, Request, Fits
<1>2. PICK ps \in SeqsUpTo(0..(NumRows - 1), MAX_OPEN) : Open(ps)
  BY DEF Request
<1>3. ps \in Seq(0..(NumRows - 1))
  <2>1. PICK S, m : S = 0..(NumRows - 1) /\ m = MAX_OPEN
    OBVIOUS
  <2>2. m \in Nat /\ ps \in SeqsUpTo(S, m)
    BY <1>2, <2>1 DEF Fits
  <2>3. ps \in Seq(S)
    BY <2>2, ListsTyped
  <2> QED
    BY <2>1, <2>3
<1>4. PICK s : s = Ascending(ToSet(ps))
  OBVIOUS
<1>5. PICK o : o = [positions |-> s, rows |-> s, salts |-> s, siblings |-> <<>>]
  OBVIOUS
<1>6. /\ s = <<>> \/ depth = 0 => Made(o)
      /\ s # <<>> /\ depth # 0 => Opens(o, depth, Nodes(s), 1, <<>>)
  BY <1>1, <1>3, <1>4, <1>5, OpenBegins
<1>7. /\ opening' = o /\ depth' = depth /\ level' = level /\ i' = i /\ next' = next
      /\ active' = IF depth = 0 THEN <<>> ELSE Nodes(s)
      /\ pc' = IF s = <<>> \/ depth = 0 THEN "sent" ELSE "open"
  BY <1>2, <1>4, <1>5 DEF Open
<1>8. CASE s = <<>> \/ depth = 0
  <2>1. Made(o)'
    BY <1>6, <1>7, <1>8, SameOpens
  <2>2. pc' = "sent" /\ Made(opening)'
    BY <1>7, <1>8, <2>1 DEF Made, Typed, WellShaped, Honest
  <2> QED
    BY <1>1, <1>7, <2>2 DEF IInv
<1>9. CASE ~(s = <<>> \/ depth = 0)
  <2>1. PICK l, a, h, n : l = depth /\ a = Nodes(s) /\ h = 1 /\ n = <<>>
    OBVIOUS
  <2>2. Opens(o, l, a, h, n)'
    BY <1>6, <1>7, <1>9, <2>1, SameOpens
  <2>3. level' = l /\ active' = a /\ i' = h /\ next' = n /\ opening' = o /\ pc' = "open"
    BY <1>1, <1>7, <1>9, <2>1
  <2>4. Opens(opening, level, active, i, next)'
    BY <2>2, <2>3
  <2> QED
    BY <1>1, <1>7, <2>3, <2>4 DEF IInv
<1> QED
  BY <1>8, <1>9

LEMMA EmitKeeps ==
  ASSUME Fits, IInv, Emit
  PROVE  IInv'
<1>1. PICK o, l, a, h, n : o = opening /\ l = level /\ a = active /\ h = i /\ n = next
  OBVIOUS
<1>2. depth \in Depths /\ Doubling(depth) /\ Opens(o, l, a, h, n) /\ h <= Len(a)
  BY <1>1 DEF IInv, Emit, Fits
<1>3. PICK x : x = [pos |-> Parent(a[h].pos)]
  OBVIOUS
<1>4. PICK e : e = [o EXCEPT !.siblings = Append(@, Digest(l, Sibling(a[h].pos)))]
  OBVIOUS
<1>5. depth' = depth /\ pc' = "open" /\ level' = l /\ active' = a /\ next' = Append(n, x)
  BY <1>1, <1>3 DEF Emit
<1>6. PICK n2, h1, h2 : n2 = Append(n, x) /\ h1 = h + 1 /\ h2 = h + 2
  OBVIOUS
<1>7. CASE Paired(a, h)
  <2>1. i' = h2 /\ opening' = o
    BY <1>1, <1>6, <1>7 DEF Emit
  <2>2. Opens(o, l, a, h2, n2)
    BY <1>2, <1>3, <1>6, <1>7, EmitPair
  <2>3. Opens(o, l, a, h2, n2)'
    BY <1>5, <2>2, SameOpens
  <2>4. Opens(opening, level, active, i, next)'
    BY <1>5, <1>6, <2>1, <2>3
  <2> QED
    BY <1>2, <1>5, <2>4 DEF IInv
<1>8. CASE ~Paired(a, h)
  <2>1. i' = h1 /\ opening' = e
    BY <1>1, <1>4, <1>6, <1>8 DEF Emit
  <2>2. Opens(e, l, a, h1, n2)
    BY <1>2, <1>3, <1>4, <1>6, <1>8, EmitLone
  <2>3. Opens(e, l, a, h1, n2)'
    BY <1>5, <2>2, SameOpens
  <2>4. Opens(opening, level, active, i, next)'
    BY <1>5, <1>6, <2>1, <2>3
  <2> QED
    BY <1>2, <1>5, <2>4 DEF IInv
<1> QED
  BY <1>7, <1>8

LEMMA AscendKeeps ==
  ASSUME Fits, IInv, Ascend
  PROVE  IInv'
<1>1. PICK o, l, a, h, n, u, m, z, one :
        o = opening /\ l = level /\ a = active /\ h = i /\ n = next /\ u = used /\ m = l - 1 /\ z = <<>> /\ one = 1
  OBVIOUS
<1>2. depth \in Depths /\ Doubling(depth) /\ depth' = depth
  BY DEF IInv, Ascend, Fits
<1>3. /\ level' = m /\ active' = n /\ next' = z /\ i' = one /\ opening' = o /\ used' = u
      /\ pc' = (IF pc = "open" /\ l = 1 THEN "sent" ELSE pc) /\ l > 0 /\ pc \in {"open", "check"} /\ h > Len(a)
  BY <1>1 DEF Ascend
<1>4. CASE pc = "open"
  <2>1. Opens(o, l, a, h, n)
    BY <1>1, <1>4 DEF IInv
  <2>2. ~(h <= Len(a))
    <3>1. Len(a) \in Nat /\ Len(Pos(a)) = Len(a)
      BY <2>1, PosMore DEF Opens
    <3>2. Climb(Pos(a), Above(ToSet(o.positions), l), h, Pos(n))
      BY <2>1 DEF Opens, Walk
    <3>3. h \in 1..(Len(a) + 1)
      BY <3>1, <3>2 DEF Climb
    <3> QED
      BY <1>3, <3>1, <3>3
  <2>3. (l # 1 => Opens(o, m, n, one, z)) /\ (l = 1 => Made(o))
    BY <1>1, <1>2, <2>1, <2>2, OpenUp
  <2>4. CASE l = 1
    <3>1. Made(o)' /\ pc' = "sent"
      BY <1>2, <1>3, <1>4, <2>3, <2>4, SameOpens
    <3>2. Made(opening)'
      BY <1>3, <3>1 DEF Made, Typed, WellShaped, Honest
    <3> QED
      BY <1>2, <3>1, <3>2 DEF IInv
  <2>5. CASE l # 1
    <3>1. Opens(o, m, n, one, z)' /\ pc' = "open"
      BY <1>2, <1>3, <1>4, <2>3, <2>5, SameOpens
    <3>2. Opens(opening, level, active, i, next)'
      BY <1>3, <3>1
    <3> QED
      BY <1>2, <3>1, <3>2 DEF IInv
  <2> QED
    BY <2>4, <2>5
<1>5. CASE pc = "check"
  <2>1. Judging(o, l, a, h, n, u) /\ pc' = "check"
    BY <1>1, <1>3, <1>5 DEF IInv
  <2>2. ~(h <= Len(a))
    <3>1. PICK W : Checks(o, l, a, h, n, u, W)
      BY <2>1 DEF Judging
    <3>2. Len(a) \in Nat /\ Len(Pos(a)) = Len(a)
      BY <3>1, PosMore DEF Checks
    <3>3. Climb(Pos(a), Above(ToSet(o.positions), l), h, Pos(n))
      BY <3>1 DEF Checks, Walk
    <3>4. h \in 1..(Len(a) + 1)
      BY <3>2, <3>3 DEF Climb
    <3> QED
      BY <1>3, <3>2, <3>4
  <2>3. Judging(o, m, n, one, z, u)
    BY <1>1, <1>2, <1>3, <2>1, <2>2, JudgeUp
  <2>4. Judging(o, m, n, one, z, u)'
    BY <1>2, <2>3, SameJudging
  <2>5. Judging(opening, level, active, i, next, used)'
    BY <1>3, <2>4
  <2> QED
    BY <1>2, <2>1, <2>5 DEF IInv
<1> QED
  BY <1>3, <1>4, <1>5

LEMMA StartKeeps ==
  ASSUME IInv, NEW o, Typed(o), Start(o)
  PROVE  IInv'
<1>1. depth \in Depths /\ depth' = depth /\ opening' = o /\ pc' = "shape"
  BY DEF IInv, Start
<1>2. level' = depth' /\ i' = 1 /\ next' = <<>> /\ used' = 0
  BY DEF Start
<1>3. Typed(opening)'
  BY <1>1, SameHonest DEF Typed
<1> QED
  BY <1>1, <1>2, <1>3 DEF IInv

LEMMA ShowKeeps ==
  ASSUME Fits, IInv, Deliver \/ Alter \/ Forge
  PROVE  IInv'
<1>1. CASE Deliver
  <2>1. PICK o : o = opening
    OBVIOUS
  <2>2. Typed(o) /\ Start(o)
    BY <1>1, <2>1 DEF IInv, Deliver, Made
  <2> QED
    BY <2>2, StartKeeps
<1>2. CASE Alter
  <2>1. PICK o : o = opening
    OBVIOUS
  <2>2. Typed(o)
    BY <1>2, <2>1 DEF IInv, Alter, Made
  <2>3. PICK e : /\ Start(e)
                 /\ \/ e = [o EXCEPT !.siblings = Append(@, Junk)]
                    \/ e = [o EXCEPT !.siblings = Drop(@)]
                    \/ e = [o EXCEPT !.siblings = Reverse(@)]
                    \/ e = [o EXCEPT !.rows = Drop(@)]
                    \/ e = [o EXCEPT !.salts = Drop(@)]
                    \/ e = [o EXCEPT !.positions = Reverse(@)]
    BY <1>2, <2>1 DEF Alter
  <2>4. Typed(e)
    BY <2>2, <2>3, AlteredTyped
  <2> QED
    BY <2>3, <2>4, StartKeeps
<1>3. CASE Forge
  <2>1. PICK ps \in SeqsUpTo(0..NumRows, FREE_OPEN) :
          \E salts, rows \in {ps, [k \in DOMAIN ps |-> 0], [k \in DOMAIN ps |-> Foreign]} :
          \E siblings \in SeqsUpTo(NodeDigests \cup {Junk}, depth) :
             Present(ps, salts, rows, siblings)
    BY <1>3 DEF Forge
  <2>2. PICK salts \in {ps, [k \in DOMAIN ps |-> 0], [k \in DOMAIN ps |-> Foreign]},
             rows \in {ps, [k \in DOMAIN ps |-> 0], [k \in DOMAIN ps |-> Foreign]},
             siblings \in SeqsUpTo(NodeDigests \cup {Junk}, depth) :
             Present(ps, salts, rows, siblings)
    BY <2>1
  <2>3. PICK o : o = [positions |-> ps, rows |-> rows, salts |-> salts, siblings |-> siblings]
    OBVIOUS
  <2>4. Start(o)
    BY <2>2, <2>3 DEF Present
  <2>5. ps \in Seq(Nat)
    <3>1. PICK S, f, m : S = 0..m /\ f = FREE_OPEN /\ m = NumRows
      OBVIOUS
    <3>2. f \in Nat /\ ps \in SeqsUpTo(S, f)
      BY <2>1, <3>1 DEF Fits
    <3>3. ps \in Seq(S)
      BY <3>2, ListsTyped
    <3>4. depth \in Depths /\ Doubling(depth)
      BY DEF IInv, Fits
    <3>5. m \in Nat
      BY <3>1, <3>4 DEF Doubling, NumRows
    <3>6. S \subseteq Nat
      BY <3>1, <3>5
    <3>7. PICK q \in Nat : q = Len(ps) /\ DOMAIN ps = 1..q
      BY <3>3
    <3>8. \A k \in 1..q : ps[k] \in Nat
      BY <3>3, <3>6, <3>7
    <3>9. ps = [k \in 1..q |-> ps[k]]
      BY <3>3, <3>7
    <3>10. ps \in [1..q -> Nat]
      BY <3>8, <3>9
    <3> QED
      BY ONLY <3>10, q \in Nat
  <2>6. \A v : IsSeq([k \in DOMAIN ps |-> v])
    <3> TAKE v
    <3>1. PICK q \in Nat : DOMAIN ps = 1..q
      BY <2>5
    <3>2. PICK c : c = [k \in 1..q |-> v]
      OBVIOUS
    <3>3. c \in [1..q -> {v}]
      BY <3>2
    <3>4. c \in Seq({v})
      BY ONLY <3>3, q \in Nat
    <3> QED
      BY <3>1, <3>2, <3>4 DEF IsSeq
  <2>7. IsSeq(salts) /\ IsSeq(rows)
    <3>1. IsSeq(ps)
      BY <2>5 DEF IsSeq
    <3> QED
      BY <2>2, <2>6, <3>1
  <2>8. IsSeq(siblings)
    <3>1. depth \in Nat
      BY DEF IInv, Fits, Doubling
    <3>2. PICK S, d : S = NodeDigests \cup {Junk} /\ d = depth
      OBVIOUS
    <3>3. siblings \in SeqsUpTo(S, d) /\ d \in Nat
      BY <2>2, <3>1, <3>2
    <3> QED
      BY <3>3, ListsTyped
  <2>9. Typed(o)
    BY <2>3, <2>5, <2>7, <2>8 DEF Typed
  <2> QED
    BY <2>4, <2>9, StartKeeps
<1> QED
  BY <1>1, <1>2, <1>3

LEMMA CheckShapeKeeps ==
  ASSUME Fits, IInv, CheckShape
  PROVE  IInv'
<1>1. PICK o, d, one, z, zero : o = opening /\ d = depth /\ one = 1 /\ z = <<>> /\ zero = 0
  OBVIOUS
<1>2. depth \in Depths /\ Doubling(depth) /\ depth' = depth /\ opening' = o /\ Typed(o)
  BY <1>1 DEF IInv, CheckShape, Fits, Reject, Conclude
<1>3. Honest(o)' = Honest(o)
  BY <1>2, SameHonest
<1>4. Honest(opening)' = Honest(o)
  BY <1>2, <1>3 DEF Honest
<1>5. CASE ~WellShaped(o)
  <2>1. pc' = "reject"
    BY <1>1, <1>5 DEF CheckShape, Reject
  <2>2. ~Honest(o)
    BY <1>2, <1>5, HonestIsShaped
  <2> QED
    BY <1>2, <1>4, <2>1, <2>2 DEF IInv
<1>6. CASE WellShaped(o) /\ o.positions = <<>>
  <2>1. pc' = IF o.siblings = <<>> THEN "accept" ELSE "reject"
    BY <1>1, <1>6 DEF CheckShape, Conclude
  <2>2. Honest(o) <=> o.siblings = <<>>
    BY <1>2, <1>6, EmptyHonest
  <2> QED
    BY <1>2, <1>4, <2>1, <2>2 DEF IInv
<1>7. CASE WellShaped(o) /\ o.positions # <<>>
  <2>1. PICK a : a = [k \in DOMAIN o.positions |->
                        LET p == o.positions[k]
                        IN  [pos |-> p,
                             hash |-> Hash("leaf", depth, p, <<o.salts[k], o.rows[k]>>)]]
    OBVIOUS
  <2>2. pc' = "check" /\ active' = a /\ level' = level /\ i' = i /\ next' = next /\ used' = used
    BY <1>1, <1>7, <2>1 DEF CheckShape
  <2>3. level = d /\ i = one /\ next = z /\ used = zero
    BY <1>1 DEF IInv, CheckShape
  <2>4. Judging(o, d, a, one, z, zero)
    BY <1>1, <1>2, <1>7, <2>1, JudgeBegins
  <2>5. Judging(o, d, a, one, z, zero)'
    BY <1>2, <2>4, SameJudging
  <2>6. Judging(opening, level, active, i, next, used)'
    BY <1>2, <2>2, <2>3, <2>5
  <2> QED
    BY <1>2, <2>2, <2>6 DEF IInv
<1> QED
  BY <1>5, <1>6, <1>7

LEMMA JoinNextKeeps ==
  ASSUME Fits, IInv, JoinNext
  PROVE  IInv'
<1>1. PICK o, l, a, h, n, u, h1, h2, u1 :
        o = opening /\ l = level /\ a = active /\ h = i /\ n = next /\ u = used /\ h1 = h + 1 /\ h2 = h + 2 /\ u1 = u + 1
  OBVIOUS
<1>2. /\ depth \in Depths /\ Doubling(depth) /\ pc = "check" /\ l > 0 /\ h <= Len(a)
      /\ Judging(o, l, a, h, n, u)
  BY <1>1 DEF IInv, JoinNext, Fits
<1>3. depth' = depth /\ opening' = o
  BY <1>1 DEF JoinNext, Join, Reject
<1>4. Honest(o)' = Honest(o)
  BY <1>3, SameHonest
<1>5. Honest(opening)' = Honest(o)
  BY <1>3, <1>4 DEF Honest
<1>6. CASE Paired(a, h)
  <2>1. PICK x : x = [pos |-> Parent(a[h].pos),
                      hash |-> Hash("node", l - 1, Parent(a[h].pos), <<a[h].hash, a[h + 1].hash>>)]
    OBVIOUS
  <2>2. a[h].pos % 2 = 0 /\ Judging(o, l, a, h + 2, Append(n, x), u)
    BY <1>2, <1>6, <2>1, JudgePair
  <2>3. PICK n2 : n2 = Append(n, x)
    OBVIOUS
  <2>4. Join(a[h].hash, a[h + 1].hash, a[h].pos, 2, 0)
    BY <1>1, <1>6, <2>2 DEF JoinNext
  <2>5. next' = n2 /\ i' = h2 /\ used' = u + 0 /\ pc' = "check" /\ level' = l /\ active' = a
    BY <1>1, <1>2, <2>1, <2>3, <2>4 DEF Join
  <2>6. u + 0 = u
    <3>1. PICK W : Checks(o, l, a, h, n, u, W)
      BY <1>2 DEF Judging
    <3>2. u \in Nat
      BY <3>1, AnyLength DEF Checks
    <3> QED
      BY <3>2
  <2>7. Judging(o, l, a, h2, n2, u)
    BY <1>1, <2>2, <2>3
  <2>8. Judging(o, l, a, h2, n2, u)'
    BY <1>3, <2>7, SameJudging
  <2>9. Judging(opening, level, active, i, next, used)'
    BY <1>3, <2>5, <2>6, <2>8
  <2> QED
    BY <1>2, <1>3, <2>5, <2>9 DEF IInv
<1>7. CASE ~Paired(a, h)
  <2>1. PICK x : x = LET p == a[h].pos
                         s == o.siblings[u + 1]
                     IN  [pos |-> Parent(p),
                          hash |-> Hash("node", l - 1, Parent(p),
                                      IF p % 2 = 0 THEN <<a[h].hash, s>> ELSE <<s, a[h].hash>>)]
    OBVIOUS
  <2>2. /\ u # Len(o.siblings) => Judging(o, l, a, h + 1, Append(n, x), u + 1)
        /\ u = Len(o.siblings) => ~Honest(o)
    BY <1>2, <1>7, <2>1, JudgeLone
  <2>3. CASE u = Len(o.siblings)
    <3>1. pc' = "reject"
      BY <1>1, <1>7, <2>3 DEF JoinNext, Reject
    <3> QED
      BY <1>2, <1>3, <1>5, <2>2, <2>3, <3>1 DEF IInv
  <2>4. CASE u # Len(o.siblings)
    <3>1. PICK n2 : n2 = Append(n, x)
      OBVIOUS
    <3>2. PICK p, s, c : p = a[h].pos /\ s = o.siblings[u + 1] /\ c = a[h].hash
      OBVIOUS
    <3>3. IF p % 2 = 0 THEN Join(c, s, p, 1, 1) ELSE Join(s, c, p, 1, 1)
      BY <1>1, <1>7, <2>4, <3>2 DEF JoinNext
    <3>4. i' = h1 /\ used' = u1 /\ pc' = "check" /\ level' = l /\ active' = a
      BY <1>1, <1>2, <3>3 DEF Join
    <3>5. next' = n2
      <4>1. CASE p % 2 = 0
        <5>1. x = [pos |-> Parent(p), hash |-> Hash("node", l - 1, Parent(p), <<c, s>>)]
          BY <2>1, <3>2, <4>1
        <5> QED
          BY <1>1, <3>1, <3>3, <4>1, <5>1 DEF Join
      <4>2. CASE p % 2 # 0
        <5>1. x = [pos |-> Parent(p), hash |-> Hash("node", l - 1, Parent(p), <<s, c>>)]
          BY <2>1, <3>2, <4>2
        <5> QED
          BY <1>1, <3>1, <3>3, <4>2, <5>1 DEF Join
      <4> QED
        BY <4>1, <4>2
    <3>6. Judging(o, l, a, h1, n2, u1)
      BY <1>1, <2>2, <2>4, <3>1
    <3>7. Judging(o, l, a, h1, n2, u1)'
      BY <1>3, <3>6, SameJudging
    <3>8. Judging(opening, level, active, i, next, used)'
      BY <1>3, <3>4, <3>5, <3>7
    <3> QED
      BY <1>2, <1>3, <3>4, <3>8 DEF IInv
  <2> QED
    BY <2>3, <2>4
<1> QED
  BY <1>6, <1>7

LEMMA CheckRootKeeps ==
  ASSUME Fits, IInv, CheckRoot
  PROVE  IInv'
<1>1. PICK o, l, a, h, n, u : o = opening /\ l = level /\ a = active /\ h = i /\ n = next /\ u = used
  OBVIOUS
<1>2. depth \in Depths /\ Doubling(depth) /\ l = 0 /\ Judging(o, l, a, h, n, u)
  BY <1>1 DEF IInv, CheckRoot, Fits
<1>3. depth' = depth /\ opening' = o
  BY <1>1 DEF CheckRoot, Conclude
<1>4. Honest(o)' = Honest(o)
  BY <1>3, SameHonest
<1>5. Honest(opening)' = Honest(o)
  BY <1>3, <1>4 DEF Honest
<1>6. Judging(o, 0, a, h, n, u)
  BY <1>2
<1>7. u = Len(o.siblings) /\ Len(a) = 1 /\ a[1].hash = Root <=> Honest(o)
  BY <1>2, <1>6, JudgeEnds
<1>8. pc' = IF u = Len(o.siblings) /\ Len(a) = 1 /\ a[1].hash = Root THEN "accept" ELSE "reject"
  BY <1>1 DEF CheckRoot, Conclude, Matches
<1> QED
  BY <1>2, <1>3, <1>5, <1>7, <1>8 DEF IInv

LEMMA StillKeeps ==
  ASSUME IInv, UNCHANGED vars
  PROVE  IInv'
<1>1. PICK o, l, a, h, n, u : o = opening /\ l = level /\ a = active /\ h = i /\ n = next /\ u = used
  OBVIOUS
<1>2. /\ depth' = depth /\ pc' = pc /\ opening' = o /\ level' = l /\ active' = a /\ i' = h /\ next' = n /\ used' = u
  BY <1>1 DEF vars
<1>3. Honest(o)' = Honest(o) /\ Typed(o)' = Typed(o)
  BY <1>2, SameHonest
<1>4. Honest(opening)' = Honest(o) /\ Typed(opening)' = Typed(o)
  BY <1>2, <1>3 DEF Honest, Typed
<1>5. pc = "open" => Opens(o, l, a, h, n)'
  BY <1>1, <1>2, SameOpens DEF IInv
<1>6. pc = "sent" => Made(o)'
  BY <1>1, <1>2, SameOpens DEF IInv
<1>7. pc = "check" => Judging(o, l, a, h, n, u)'
  BY <1>1, <1>2, SameJudging DEF IInv
<1>8. /\ pc' = "open" => Opens(opening, level, active, i, next)'
      /\ pc' = "check" => Judging(opening, level, active, i, next, used)'
  BY <1>2, <1>5, <1>7
<1>9. pc' = "sent" => Made(opening)'
  BY <1>2, <1>6 DEF Made, Typed, WellShaped, Honest
<1> QED
  BY <1>1, <1>2, <1>4, <1>8, <1>9 DEF IInv

(* The invariant holds at the start and after every step. *)
LEMMA InitIInv ==
  ASSUME Init
  PROVE  IInv
BY DEF Init, IInv

LEMMA NextIInv ==
  ASSUME Fits, IInv, [Next]_vars
  PROVE  IInv'
<1>1. CASE Request
  BY <1>1, RequestKeeps
<1>2. CASE Emit
  BY <1>2, EmitKeeps
<1>3. CASE Ascend
  BY <1>3, AscendKeeps
<1>4. CASE Deliver \/ Alter \/ Forge
  BY <1>4, ShowKeeps
<1>5. CASE CheckShape
  BY <1>5, CheckShapeKeeps
<1>6. CASE JoinNext
  BY <1>6, JoinNextKeeps
<1>7. CASE CheckRoot
  BY <1>7, CheckRootKeeps
<1>8. CASE Done \/ UNCHANGED vars
  BY <1>8, StillKeeps DEF Done
<1> QED
  BY <1>1, <1>2, <1>3, <1>4, <1>5, <1>6, <1>7, <1>8 DEF Next

(* What a verifier is sent is the opening of the set that was asked for, and only that *)
(* is accepted.                                                                       *)
LEMMA IInvSays ==
  ASSUME Fits, IInv
  PROVE  OpensTheSet /\ AcceptsOnlyHonest
<1>1. Doubling(depth)
  BY DEF Fits, IInv
<1>2. OpensTheSet
  <2>1. SUFFICES ASSUME pc = "sent"
                 PROVE  opening = HonestOpening(ToSet(opening.positions))
    BY DEF OpensTheSet
  <2>2. Typed(opening) /\ WellShaped(opening) /\ Honest(opening)
    BY <2>1 DEF IInv, Made
  <2>3. ToSet(opening.positions) \cap (0..(NumRows - 1)) = ToSet(opening.positions)
    BY <1>1, <2>2, ShapedPositions
  <2> QED
    BY <2>2, <2>3 DEF Honest
<1>3. AcceptsOnlyHonest
  BY DEF AcceptsOnlyHonest, IInv, Honest
<1> QED
  BY <1>2, <1>3
=============================================================================
