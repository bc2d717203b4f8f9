------------------------- MODULE Ligerito_proofs -------------------------
(*****************************************************************************)
(* For every shape of an opening, any number of levels and any run of        *)
(* repeats and misses: an opening that the verifier accepts is the one that  *)
(* was made, the positions of a level are drawn after all that binds them,   *)
(* and an opening that arrives as it was made is not rejected.               *)
(*                                                                           *)
(* First the two scripts: what each operation adds to the counts of the      *)
(* lists (Ledger), where each may stand, and what that leaves of a walk for  *)
(* either side (Itinerary).  Then the histories: what a transcript tells of  *)
(* a proof (Tells), so that each answer of the oracle stands for what its    *)
(* point depends on (Recalls), kept by every step of the prover, of the      *)
(* delivery and of the verifier (Walked).  Then the challenge the folded     *)
(* message was made with: the same for both sides, hence all before it       *)
(* (AcceptedIsMade).  Then, what is told is what Depends counts, as no       *)
(* alteration repeats an element where it is read (ReadIsBound).  Last, the  *)
(* challenges drawn make up for the dimension lost (ScriptRises), and the    *)
(* verifier of what was made follows the prover's trail (FollowInv).         *)
(*****************************************************************************)
EXTENDS Ligerito, FiniteSetTheorems, WellFoundedInduction, TLAPS

-----------------------------------------------------------------------------
(* Sets of numbers, and sequences put end to end.                                  *)
LEMMA LeastNat ==
  ASSUME NEW S, S \subseteq Nat, S # {}
  PROVE  \E n \in S : \A m \in S : n <= m
<1>1. IsWellFoundedOn(OpToRel(<, Nat), Nat)
  BY NatLessThanWellFounded, Zenon
<1>2. PICK n \in S : \A m \in S : ~(<<m, n>> \in OpToRel(<, Nat))
  BY <1>1, WFMin, Zenon
<1>3. \A m \in S : ~(m < n)
  BY <1>2 DEF OpToRel
<1> QED
  BY <1>3

(* The sums of a sequence of sequences: each is the one before with one more part. *)
Sums(s, n, d) == d = [i \in 1..n |-> IF i = 1 THEN s[i] ELSE d[i - 1] \o s[i]]

LEMMA SumsExist ==
  ASSUME NEW s, NEW n \in Nat
  PROVE  \E d : Sums(s, n, d)
<1> DEFINE S == {k \in 0..n : ~\E d : Sums(s, k, d)}
<1>1. SUFFICES ASSUME S # {} PROVE FALSE
  OBVIOUS
<1>2. S \subseteq Nat
  OBVIOUS
<1>3. PICK k \in S : \A m \in S : k <= m
  BY <1>1, <1>2, LeastNat
<1>4. k \in 0..n /\ ~\E d : Sums(s, k, d)
  BY <1>3
<1>5. CASE k = 0
  <2> DEFINE d == [i \in 1..0 |-> <<>>]
  <2>1. d = [i \in 1..0 |-> IF i = 1 THEN s[i] ELSE d[i - 1] \o s[i]]
    OBVIOUS
  <2>2. Sums(s, 0, d)
    BY <2>1 DEF Sums
  <2> QED
    BY <1>4, <1>5, <2>2
<1>6. CASE k # 0
  <2>1. k - 1 \in 0..n /\ k - 1 \notin S /\ k \in Nat \ {0}
    BY <1>3, <1>4, <1>6
  <2>2. PICK d : Sums(s, k - 1, d)
    BY <2>1
  <2> DEFINE end == IF k = 1 THEN s[k] ELSE d[k - 1] \o s[k]
             g == [i \in 1..k |-> IF i = k THEN end ELSE d[i]]
             next(i) == IF i = 1 THEN s[i] ELSE g[i - 1] \o s[i]
  <2>3. ASSUME NEW i \in 1..k PROVE g[i] = next(i)
    <3>1. CASE i = k
      <4>1. k # 1 => k - 1 \in 1..k /\ k - 1 # k
        BY <2>1
      <4>2. k # 1 => g[k - 1] = d[k - 1]
        BY <4>1
      <4> QED
        BY <3>1, <4>2
    <3>2. CASE i # k
      <4>1. i \in 1..(k - 1) /\ (i # 1 => i - 1 \in 1..k /\ i - 1 # k)
        BY <2>1, <3>2
      <4>2. d[i] = IF i = 1 THEN s[i] ELSE d[i - 1] \o s[i]
        BY <2>2, <4>1 DEF Sums
      <4>3. i # 1 => g[i - 1] = d[i - 1]
        BY <4>1
      <4> QED
        BY <3>2, <4>2, <4>3
    <3> QED
      BY <3>1, <3>2
  <2>4. g = [i \in 1..k |-> g[i]]
    OBVIOUS
  <2>5. g = [i \in 1..k |-> next(i)]
    <3> HIDE DEF g, next
    <3> QED
      BY <2>3, <2>4
  <2>6. Sums(s, k, g)
    BY <2>5 DEF Sums
  <2> QED
    BY <1>4, <2>6
<1> QED
  BY <1>5, <1>6

(* FlattenSeq adds the parts from the left. *)
LEMMA FlattenSums ==
  ASSUME NEW T, NEW s \in Seq(Seq(T))
  PROVE  \E d \in [0..Len(s) -> Seq(T)] :
            /\ d[0] = <<>>
            /\ \A i \in 1..Len(s) : d[i] = d[i - 1] \o s[i]
            /\ FlattenSeq(s) = d[Len(s)]
<1> DEFINE n == Len(s)
<1>1. n \in Nat /\ \A i \in 1..n : s[i] \in Seq(T)
  OBVIOUS
<1>2. CASE n = 0
  <2>1. s = <<>>
    BY <1>2
  <2>2. FlattenSeq(s) = <<>>
    BY <2>1 DEF FlattenSeq
  <2> DEFINE d == [i \in 0..0 |-> <<>>]
  <2>3. d \in [0..n -> Seq(T)] /\ d[0] = <<>> /\ FlattenSeq(s) = d[n]
    BY <1>2, <2>2
  <2>4. \A i \in 1..n : d[i] = d[i - 1] \o s[i]
    BY <1>2
  <2> QED
    BY <2>3, <2>4
<1>3. CASE n # 0
  <2> DEFINE f == CHOOSE d : d = [i \in 1..Len(s) |-> IF i = 1 THEN s[i] ELSE d[i - 1] \o s[i]]
  <2>1. FlattenSeq(s) = f[n]
    BY <1>3 DEF FlattenSeq
  <2>2. \E d : d = [i \in 1..Len(s) |-> IF i = 1 THEN s[i] ELSE d[i - 1] \o s[i]]
    BY <1>1, SumsExist DEF Sums
  <2>3. f = [i \in 1..Len(s) |-> IF i = 1 THEN s[i] ELSE f[i - 1] \o s[i]]
    BY <2>2, Zenon
  <2>4. PICK g : g = f
    OBVIOUS
  <2> HIDE DEF f
  <2>5. g = [i \in 1..n |-> IF i = 1 THEN s[i] ELSE g[i - 1] \o s[i]]
    BY <2>3, <2>4
  <2>6. \A i \in 1..n : g[i] = IF i = 1 THEN s[i] ELSE g[i - 1] \o s[i]
    BY <2>5
  <2> DEFINE S == {i \in 1..n : g[i] \notin Seq(T)}
  <2>7. S = {}
    <3>1. SUFFICES ASSUME S # {} PROVE FALSE
      OBVIOUS
    <3>0. S \subseteq Nat
      BY <1>1
    <3>2. PICK i \in S : \A m \in S : i <= m
      BY <3>0, <3>1, LeastNat
    <3>3. i \in 1..n /\ g[i] \notin Seq(T)
      BY <3>2
    <3>4. i # 1
      BY <1>1, <2>6, <3>3
    <3>5. i - 1 \in 1..n /\ i - 1 \notin S
      BY <1>1, <3>2, <3>3, <3>4
    <3>6. g[i] = g[i - 1] \o s[i] /\ g[i - 1] \in Seq(T) /\ s[i] \in Seq(T)
      BY <1>1, <2>6, <3>3, <3>4, <3>5
    <3> QED
      BY <3>3, <3>6
  <2> DEFINE d == [i \in 0..n |-> IF i = 0 THEN <<>> ELSE g[i]]
  <2>8. d \in [0..n -> Seq(T)]
    BY <2>7
  <2>9. ASSUME NEW i \in 1..n PROVE d[i] = d[i - 1] \o s[i]
    <3>1. CASE i = 1
      <4>1. d[0] = <<>> /\ d[1] = s[1] /\ s[1] \in Seq(T)
        BY <1>1, <2>6, <3>1
      <4>2. <<>> \o s[1] = s[1]
        BY <4>1
      <4>3. i - 1 = 0
        BY <3>1
      <4> HIDE DEF d
      <4> QED
        BY <3>1, <4>1, <4>2, <4>3
    <3>2. CASE i # 1
      <4>1. i - 1 \in 0..n /\ i - 1 # 0 /\ i \in 0..n /\ i # 0
        BY <1>1, <3>2
      <4> QED
        BY <2>6, <3>2, <4>1
    <3> QED
      BY <3>1, <3>2
  <2>10. d[0] = <<>> /\ d[n] = g[n]
    BY <1>1, <1>3
  <2> HIDE DEF d, n
  <2> QED
    BY <2>1, <2>4, <2>8, <2>9, <2>10 DEF n
<1> QED
  BY <1>2, <1>3
-----------------------------------------------------------------------------
(* The script both sides walk, and how many elements of each list the operations   *)
(* before a place take; a query phase counts as one of "queries".                  *)
Told == NonceLists \cup {"tx", "ood", "roots", "yr"}
Counted == Told \cup {"opens", "queries"}
Counts == [Counted -> Nat]

Widths == Nat \cup (UNION {{Dim(c, l) : l \in 0..Steps(c)} : c \in Configs})
              \cup (UNION {{CeilLog2(c.queries[l + 1]) : l \in 0..Steps(c)} : c \in Configs})
Acts == {"say", "grind", "draw", "queries", "open", "check"}
Names == Told \cup {"opens", "fold", "z", "beta", "alpha", "shape", "counts", "residual"}
Ops == [act : Acts, of : Names, n : Widths]

Takes(op) == IF op.act \in {"say", "grind", "open"} THEN op.of
             ELSE IF op.act = "queries" THEN "queries" ELSE "none"
Tally(k, op) == [f \in Counted |-> IF f = Takes(op) THEN k[f] + 1 ELSE k[f]]

(* Where an operation may stand: with what counts before it. *)
Placed(c, op, k) ==
    /\ op.act \in {"say", "grind", "draw", "queries", "open"}
    /\ op.act = "say" => op.of \in {"tx", "ood", "roots"}
    /\ op.act = "grind" => op.of \in NonceLists
    /\ op.act = "draw" /\ op.of = "alpha" => k["queries"] = k["opens"] + 1
    /\ op.act = "open" => op.of = "opens" /\ op.n = k["opens"] /\ k["queries"] = k["opens"] + 1
    /\ op.act = "queries" =>
        /\ op.n \in 0..(Steps(c) - 1) /\ k["queries"] = op.n /\ k["opens"] = op.n
        /\ k["nonces"] = op.n + 1 /\ k["roots"] = op.n + 1 /\ k["ood"] = OodUpTo(c, op.n + 1)

Book(c, s, k, K) ==
    /\ K \in [0..Len(s) -> Counts] /\ K[0] = k
    /\ \A j \in 1..Len(s) : Placed(c, s[j], K[j - 1]) /\ K[j] = Tally(K[j - 1], s[j])
Ledger(c, s, k, r) == s \in Seq(Ops) /\ \E K : Book(c, s, k, K) /\ K[Len(s)] = r

LEMMA Concatenation ==
  ASSUME NEW S, NEW s \in Seq(S), NEW t \in Seq(S)
  PROVE  /\ s \o t \in Seq(S) /\ Len(s \o t) = Len(s) + Len(t)
         /\ \A i \in 1..Len(s) : (s \o t)[i] = s[i]
         /\ \A i \in 1..Len(t) : (s \o t)[Len(s) + i] = t[i]
OBVIOUS

LEMMA TallyTyped ==
  ASSUME NEW k \in Counts, NEW op
  PROVE  Tally(k, op) \in Counts
BY DEF Tally, Counts

LEMMA LedgerTyped ==
  ASSUME NEW c, NEW s, NEW k, NEW r, Ledger(c, s, k, r)
  PROVE  s \in Seq(Ops) /\ k \in Counts /\ r \in Counts
<1>1. s \in Seq(Ops)
  BY DEF Ledger
<1>2. PICK K : Book(c, s, k, K) /\ K[Len(s)] = r
  BY DEF Ledger
<1>3. Len(s) \in Nat
  <2> HIDE DEF Ops
  <2> QED
    BY <1>1
<1>4. K \in [0..Len(s) -> Counts] /\ K[0] = k
  BY <1>2 DEF Book
<1> QED
  BY <1>1, <1>2, <1>3, <1>4

LEMMA LedgerNone ==
  ASSUME NEW c, NEW k \in Counts
  PROVE  Ledger(c, <<>>, k, k)
<1> DEFINE K == [j \in 0..0 |-> k]
<1>1. K \in [0..Len(<<>>) -> Counts] /\ K[0] = k /\ K[Len(<<>>)] = k
  OBVIOUS
<1>2. Book(c, <<>>, k, K)
  <2> HIDE DEF K
  <2> QED
    BY <1>1 DEF Book
<1> QED
  BY <1>1, <1>2 DEF Ledger

LEMMA LedgerJoins ==
  ASSUME NEW c, NEW s, NEW t, NEW k, NEW r, NEW u, Ledger(c, s, k, r), Ledger(c, t, r, u)
  PROVE  Ledger(c, s \o t, k, u)
<1>1. s \in Seq(Ops) /\ t \in Seq(Ops)
  BY DEF Ledger
<1> HIDE DEF Ops
<1>2. PICK K : Book(c, s, k, K) /\ K[Len(s)] = r
  BY DEF Ledger
<1>3. PICK M : Book(c, t, r, M) /\ M[Len(t)] = u
  BY DEF Ledger
<1>4. PICK m \in Nat, n \in Nat : m = Len(s) /\ n = Len(t)
  BY <1>1
<1>5. s \o t \in Seq(Ops) /\ Len(s \o t) = m + n
  BY <1>1, <1>4, Concatenation
<1> DEFINE B == [j \in 0..(m + n) |-> IF j <= m THEN K[j] ELSE M[j - m]]
<1>6. K \in [0..m -> Counts] /\ M \in [0..n -> Counts] /\ K[0] = k /\ K[m] = r /\ M[0] = r /\ M[n] = u
  BY <1>2, <1>3, <1>4 DEF Book
<1>7. B \in [0..(m + n) -> Counts] /\ B[0] = k
  BY <1>6
<1>8. \A j \in 0..n : B[m + j] = M[j]
  <2> TAKE j \in 0..n
  <2>1. CASE j = 0
    BY <1>6, <2>1
  <2>2. CASE j # 0
    <3>1. m + j \in 0..(m + n) /\ ~(m + j <= m) /\ (m + j) - m = j
      BY <2>2
    <3> QED
      BY <3>1
  <2> QED
    BY <2>1, <2>2
<1>9. \A j \in 0..m : B[j] = K[j]
  OBVIOUS
<1> HIDE DEF B
<1>10. B[m + n] = u
  BY <1>6, <1>8
<1>11. ASSUME NEW j \in 1..(m + n)
       PROVE  Placed(c, (s \o t)[j], B[j - 1]) /\ B[j] = Tally(B[j - 1], (s \o t)[j])
  <2>1. CASE j <= m
    <3>1. j \in 1..m /\ j \in 0..m /\ j - 1 \in 0..m
      BY <2>1
    <3>2. (s \o t)[j] = s[j]
      BY <1>1, <1>4, <3>1, Concatenation
    <3>3. Placed(c, s[j], K[j - 1]) /\ K[j] = Tally(K[j - 1], s[j])
      BY <1>2, <1>4, <3>1 DEF Book
    <3> QED
      BY <1>9, <3>1, <3>2, <3>3
  <2>2. CASE j > m
    <3>1. PICK i \in 1..n : j = m + i
      BY <2>2
    <3>2. (s \o t)[j] = t[i]
      BY <1>1, <1>4, <3>1, Concatenation
    <3>3. Placed(c, t[i], M[i - 1]) /\ M[i] = Tally(M[i - 1], t[i])
      BY <1>3, <1>4, <3>1 DEF Book
    <3>4. i - 1 \in 0..n /\ i \in 0..n /\ j - 1 = m + (i - 1)
      BY <3>1
    <3>5. B[j] = M[i] /\ B[j - 1] = M[i - 1]
      BY <1>8, <3>1, <3>4
    <3> QED
      BY <3>2, <3>3, <3>5
  <2>3. j <= m \/ j > m
    OBVIOUS
  <2> QED
    BY <2>1, <2>2, <2>3, Zenon
<1>12. Book(c, s \o t, k, B)
  BY <1>5, <1>7, <1>11 DEF Book
<1> QED
  BY <1>5, <1>10, <1>12 DEF Ledger

(* One operation more. *)
LEMMA LedgerExtends ==
  ASSUME NEW c, NEW s, NEW t \in Seq(Ops), NEW k, NEW r, Ledger(c, s, k, r),
         Len(t) = Len(s) + 1, \A i \in 1..Len(s) : t[i] = s[i], Placed(c, t[Len(t)], r)
  PROVE  Ledger(c, t, k, Tally(r, t[Len(t)]))
<1>1. s \in Seq(Ops) /\ r \in Counts
  BY LedgerTyped
<1> HIDE DEF Ops
<1>2. PICK K : Book(c, s, k, K) /\ K[Len(s)] = r
  BY DEF Ledger
<1>3. PICK m \in Nat : m = Len(s) /\ Len(t) = m + 1
  BY <1>1
<1>4. PICK u : u = Tally(r, t[Len(t)])
  OBVIOUS
<1>5. u \in Counts
  BY <1>1, <1>4, TallyTyped
<1> DEFINE B == [j \in 0..(m + 1) |-> IF j <= m THEN K[j] ELSE u]
<1>6. K \in [0..m -> Counts] /\ K[0] = k /\ K[m] = r
  BY <1>2, <1>3 DEF Book
<1>7. B \in [0..(m + 1) -> Counts] /\ B[0] = k /\ B[m + 1] = u
  BY <1>5, <1>6
<1>8. \A j \in 0..m : B[j] = K[j]
  OBVIOUS
<1> HIDE DEF B
<1>9. ASSUME NEW j \in 1..(m + 1)
      PROVE  Placed(c, t[j], B[j - 1]) /\ B[j] = Tally(B[j - 1], t[j])
  <2>1. CASE j <= m
    <3>1. j \in 1..m /\ j \in 0..m /\ j - 1 \in 0..m
      BY <2>1
    <3>2. t[j] = s[j]
      BY <1>3, <3>1
    <3>3. Placed(c, s[j], K[j - 1]) /\ K[j] = Tally(K[j - 1], s[j])
      BY <1>2, <1>3, <3>1 DEF Book
    <3> QED
      BY <1>8, <3>1, <3>2, <3>3
  <2>2. CASE j = m + 1
    <3>1. B[j - 1] = r /\ B[j] = u /\ t[j] = t[Len(t)]
      BY <1>3, <1>6, <1>7, <1>8, <2>2
    <3> QED
      BY <1>4, <3>1
  <2>3. j <= m \/ j = m + 1
    OBVIOUS
  <2> QED
    BY <2>1, <2>2, <2>3, Zenon
<1>10. Book(c, t, k, B)
  BY <1>3, <1>7, <1>9 DEF Book
<1> QED
  BY <1>3, <1>4, <1>7, <1>10 DEF Ledger

(* Parts put end to end, if each leads from one set of counts to the next. *)
LEMMA LedgerFlattens ==
  ASSUME NEW c, NEW s \in Seq(Seq(Ops)), NEW R, NEW k \in R[0], k \in Counts,
         \A i \in 1..Len(s) : \A x \in R[i - 1] : \E y \in R[i] : x \in Counts => Ledger(c, s[i], x, y)
  PROVE  \E r \in R[Len(s)] : Ledger(c, FlattenSeq(s), k, r)
<1> HIDE DEF Ops
<1>1. PICK n \in Nat : n = Len(s)
  OBVIOUS
<1>2. PICK d \in [0..n -> Seq(Ops)] :
         d[0] = <<>> /\ (\A i \in 1..n : d[i] = d[i - 1] \o s[i]) /\ FlattenSeq(s) = d[n]
  BY <1>1, FlattenSums
<1> DEFINE S == {i \in 0..n : ~\E r \in R[i] : Ledger(c, d[i], k, r)}
<1>3. S = {}
  <2>1. SUFFICES ASSUME S # {} PROVE FALSE
    OBVIOUS
  <2>2. S \subseteq Nat
    OBVIOUS
  <2>3. PICK i \in S : \A m \in S : i <= m
    BY <2>1, <2>2, LeastNat
  <2>4. i \in 0..n /\ ~\E r \in R[i] : Ledger(c, d[i], k, r)
    BY <2>3
  <2>5. CASE i = 0
    BY <1>2, <2>4, <2>5, LedgerNone
  <2>6. CASE i # 0
    <3>1. i \in 1..n /\ i - 1 \in 0..n /\ i - 1 \notin S
      BY <2>3, <2>4, <2>6
    <3>2. PICK x \in R[i - 1] : Ledger(c, d[i - 1], k, x)
      BY <3>1
    <3>3. x \in Counts
      BY <3>2, LedgerTyped
    <3>4. PICK y \in R[i] : Ledger(c, s[i], x, y)
      BY <1>1, <3>1, <3>3
    <3>5. Ledger(c, d[i - 1] \o s[i], k, y)
      BY <3>2, <3>4, LedgerJoins
    <3> QED
      BY <1>2, <2>4, <3>1, <3>5
  <2> QED
    BY <2>5, <2>6
<1>4. n \in 0..n /\ n \notin S
  BY <1>3, SMTT(30)
<1> QED
  BY <1>1, <1>2, <1>4
-----------------------------------------------------------------------------
(* What the assumptions say of each level.                                         *)
LEMMA ConfigTypes ==
  ASSUME NEW c \in Configs
  PROVE  /\ Steps(c) \in Nat \ {0} /\ c.ood[1] = 0 /\ YrLen(c) \in Nat \ {0}
         /\ \A l \in 0..Steps(c) :
              /\ Lanes(c, l) \in Nat /\ c.queries[l + 1] \in Nat \ {0} /\ c.grind[l + 1] \in Nat
              /\ c.ood[l + 1] \in Nat /\ c.fold[l + 1] \in Nat /\ c.taper[l + 1] \in BOOLEAN
              /\ \A j \in Nat : FoldBits(c, l, j) \in Nat
<1>1. /\ {c.logN, c.k0} \subseteq Nat /\ c.ks \in Seq(Nat) /\ Len(c.ks) + 1 >= 2
      /\ \A f \in {"rates", "queries", "grind", "fold", "ood"} : c[f] \in Seq(Nat)
      /\ c.taper \in Seq(BOOLEAN)
      /\ \A f \in {"rates", "queries", "grind", "fold", "taper", "ood"} : Len(c[f]) = Len(c.ks) + 1
      /\ c.ood[1] = 0 /\ \A l \in 1..(Len(c.ks) + 1) : c.queries[l] >= 1
  BY ConfigAssumption, Zenon
<1>2. PICK n \in Nat : n = Len(c.ks) /\ n >= 1
  BY <1>1
<1>3. Steps(c) = n
  BY <1>2 DEF Steps
<1>4. ASSUME NEW l \in 0..n
      PROVE  /\ Lanes(c, l) \in Nat /\ c.queries[l + 1] \in Nat \ {0} /\ c.grind[l + 1] \in Nat
             /\ c.ood[l + 1] \in Nat /\ c.fold[l + 1] \in Nat /\ c.taper[l + 1] \in BOOLEAN
  <2>1. l + 1 \in 1..(n + 1)
    OBVIOUS
  <2>2. c.queries[l + 1] \in Nat \ {0} /\ c.grind[l + 1] \in Nat
        /\ c.ood[l + 1] \in Nat /\ c.fold[l + 1] \in Nat
    <3>1. \A s \in Seq(Nat) : Len(s) = n + 1 => s[l + 1] \in Nat
      BY <2>1
    <3>4. \A x \in Nat : x >= 1 => x \in Nat \ {0}
      OBVIOUS
    <3>2. c.queries[l + 1] >= 1
      BY <1>1, <1>2, <2>1
    <3>3. /\ c.queries \in Seq(Nat) /\ Len(c.queries) = n + 1 /\ c.grind \in Seq(Nat) /\ Len(c.grind) = n + 1
          /\ c.ood \in Seq(Nat) /\ Len(c.ood) = n + 1 /\ c.fold \in Seq(Nat) /\ Len(c.fold) = n + 1
      BY <1>1, <1>2
    <3>5. c.queries[l + 1] \in Nat /\ c.grind[l + 1] \in Nat /\ c.ood[l + 1] \in Nat /\ c.fold[l + 1] \in Nat
      BY <3>1, <3>3, Zenon
    <3> QED
      BY <3>2, <3>4, <3>5, Zenon
  <2>3. c.taper[l + 1] \in BOOLEAN
    <3>1. c.taper \in Seq(BOOLEAN) /\ Len(c.taper) = n + 1
      BY <1>1, <1>2
    <3> QED
      BY <2>1, <3>1
  <2>4. Lanes(c, l) \in Nat
    <3>1. <<c.k0>> \in Seq(Nat) /\ Len(<<c.k0>>) = 1 /\ c.ks \in Seq(Nat)
      BY <1>1
    <3>2. <<c.k0>> \o c.ks \in Seq(Nat) /\ Len(<<c.k0>> \o c.ks) = 1 + n
      BY <1>2, <3>1, Concatenation
    <3>3. (<<c.k0>> \o c.ks)[l + 1] \in Nat
      BY <2>1, <3>2
    <3> QED
      BY <3>3 DEF Lanes
  <2> QED
    BY <2>2, <2>3, <2>4
<1>5. \A l \in 0..n, j \in Nat : FoldBits(c, l, j) \in Nat
  <2> TAKE l \in 0..n, j \in Nat
  <2>1. PICK b \in Nat : b = c.fold[l + 1]
    BY <1>4
  <2>2. PICK t \in BOOLEAN : t = c.taper[l + 1]
    BY <1>4
  <2>3. FoldBits(c, l, j) = IF ~t THEN b ELSE IF b > j THEN b - j ELSE 0
    BY <2>1, <2>2 DEF FoldBits
  <2> QED
    BY <2>3
<1>6. YrLen(c) \in Nat \ {0}
  BY MessageAssumption
<1>7. Steps(c) \in Nat \ {0} /\ c.ood[1] = 0
  BY <1>1, <1>2, <1>3
<1> QED
  BY <1>3, <1>4, <1>5, <1>6, <1>7, Zenon

LEMMA StepsType ==
  ASSUME NEW c \in Configs
  PROVE  Steps(c) \in Nat \ {0} /\ \A l \in 0..Steps(c) : l \in Nat
BY ConfigTypes

(* How the values out of the domain add up. *)
Upto(c, l, u) == u = [k \in 0..l |-> IF k = 0 THEN c.ood[1] ELSE u[k - 1] + c.ood[k + 1]]

LEMMA UptoExists ==
  ASSUME NEW c \in Configs, NEW l \in 0..Steps(c)
  PROVE  \E u : Upto(c, l, u)
<1> DEFINE S == {n \in 0..l : ~\E u : Upto(c, n, u)}
<1>1. SUFFICES ASSUME S # {} PROVE FALSE
  BY StepsType
<1>2. S \subseteq Nat
  OBVIOUS
<1>3. PICK n \in S : \A m \in S : n <= m
  BY <1>1, <1>2, LeastNat
<1>4. n \in 0..l /\ ~\E u : Upto(c, n, u)
  BY <1>3
<1>5. CASE n = 0
  <2> DEFINE u == [k \in 0..0 |-> c.ood[1]]
  <2>1. u = [k \in 0..0 |-> IF k = 0 THEN c.ood[1] ELSE u[k - 1] + c.ood[k + 1]]
    OBVIOUS
  <2>2. Upto(c, 0, u)
    BY <2>1 DEF Upto
  <2> QED
    BY <1>4, <1>5, <2>2
<1>6. CASE n # 0
  <2>1. n - 1 \in 0..l /\ n - 1 \notin S /\ n \in Nat \ {0}
    BY <1>3, <1>4, <1>6, StepsType
  <2>2. PICK u : Upto(c, n - 1, u)
    BY <2>1
  <2> DEFINE end == u[n - 1] + c.ood[n + 1]
             g == [k \in 0..n |-> IF k = n THEN end ELSE u[k]]
             next(k) == IF k = 0 THEN c.ood[1] ELSE g[k - 1] + c.ood[k + 1]
  <2>3. ASSUME NEW k \in 0..n PROVE g[k] = next(k)
    <3>1. CASE k = n
      <4>1. n - 1 \in 0..n /\ n - 1 # n /\ n # 0
        BY <2>1
      <4>2. g[n - 1] = u[n - 1] /\ g[n] = end
        BY <4>1
      <4> HIDE DEF g
      <4> QED
        BY <3>1, <4>1, <4>2
    <3>2. CASE k # n
      <4>1. k \in 0..(n - 1) /\ (k # 0 => k - 1 \in 0..n /\ k - 1 # n)
        BY <2>1, <3>2
      <4>2. u[k] = IF k = 0 THEN c.ood[1] ELSE u[k - 1] + c.ood[k + 1]
        BY <2>2, <4>1 DEF Upto
      <4>3. k # 0 => g[k - 1] = u[k - 1]
        BY <4>1
      <4>4. g[k] = u[k]
        BY <3>2
      <4> HIDE DEF g
      <4> QED
        BY <4>2, <4>3, <4>4
    <3> QED
      BY <3>1, <3>2
  <2>4. g = [k \in 0..n |-> g[k]]
    OBVIOUS
  <2>5. g = [k \in 0..n |-> next(k)]
    <3> HIDE DEF g, next
    <3> QED
      BY <2>3, <2>4
  <2>6. Upto(c, n, g)
    BY <2>5 DEF Upto
  <2> QED
    BY <1>4, <2>6
<1> QED
  BY <1>5, <1>6

LEMMA UptoIsOne ==
  ASSUME NEW c \in Configs, NEW l \in 0..Steps(c), NEW n \in 0..Steps(c), NEW u, NEW w, Upto(c, l, u), Upto(c, n, w)
  PROVE  \A k \in 0..l : k \in 0..n => u[k] = w[k] /\ u[k] \in Nat
<1> DEFINE S == {k \in 0..l : k \in 0..n /\ ~(u[k] = w[k] /\ u[k] \in Nat)}
<1>1. SUFFICES ASSUME S # {} PROVE FALSE
  OBVIOUS
<1>2. S \subseteq Nat
  OBVIOUS
<1>3. PICK k \in S : \A m \in S : k <= m
  BY <1>1, <1>2, LeastNat
<1>4. k \in 0..l /\ k \in 0..n /\ ~(u[k] = w[k] /\ u[k] \in Nat)
  BY <1>3
<1>5. /\ u[k] = IF k = 0 THEN c.ood[1] ELSE u[k - 1] + c.ood[k + 1]
      /\ w[k] = IF k = 0 THEN c.ood[1] ELSE w[k - 1] + c.ood[k + 1]
  BY <1>4 DEF Upto
<1>6. k # 0 => k - 1 \in 0..l /\ k - 1 \in 0..n /\ k - 1 \notin S
  BY <1>3, <1>4
<1>7. k \in 0..Steps(c) /\ c.ood[k + 1] \in Nat /\ c.ood[1] = 0
  BY <1>4, ConfigTypes
<1> QED
  BY <1>4, <1>5, <1>6, <1>7

LEMMA OodAddsUp ==
  ASSUME NEW c \in Configs
  PROVE  /\ OodUpTo(c, 0) = 0
         /\ \A l \in 1..Steps(c) : OodUpTo(c, l) = OodUpTo(c, l - 1) + c.ood[l + 1]
         /\ \A l \in 0..Steps(c) : OodUpTo(c, l) \in Nat
<1>1. ASSUME NEW l \in 0..Steps(c) PROVE \E u : Upto(c, l, u) /\ OodUpTo(c, l) = u[l]
  <2> DEFINE f == CHOOSE u : u = [k \in 0..l |-> IF k = 0 THEN c.ood[1] ELSE u[k - 1] + c.ood[k + 1]]
  <2>1. OodUpTo(c, l) = f[l]
    BY DEF OodUpTo
  <2>2. \E u : u = [k \in 0..l |-> IF k = 0 THEN c.ood[1] ELSE u[k - 1] + c.ood[k + 1]]
    BY UptoExists DEF Upto
  <2>3. f = [k \in 0..l |-> IF k = 0 THEN c.ood[1] ELSE f[k - 1] + c.ood[k + 1]]
    BY <2>2
  <2>4. PICK u : u = f
    OBVIOUS
  <2> HIDE DEF f
  <2>5. Upto(c, l, u)
    BY <2>3, <2>4 DEF Upto
  <2> QED
    BY <2>1, <2>4, <2>5
<1>2. Steps(c) \in Nat \ {0} /\ c.ood[1] = 0
  BY ConfigTypes
<1>3. OodUpTo(c, 0) = 0
  <2>1. PICK u : Upto(c, 0, u) /\ OodUpTo(c, 0) = u[0]
    BY <1>1, <1>2
  <2> QED
    BY <1>2, <2>1 DEF Upto
<1>4. ASSUME NEW l \in 0..Steps(c) PROVE OodUpTo(c, l) \in Nat
  <2>1. PICK u : Upto(c, l, u) /\ OodUpTo(c, l) = u[l]
    BY <1>1
  <2>2. l \in 0..l
    BY <1>2
  <2> QED
    BY <2>1, <2>2, UptoIsOne
<1>5. ASSUME NEW l \in 1..Steps(c) PROVE OodUpTo(c, l) = OodUpTo(c, l - 1) + c.ood[l + 1]
  <2>1. l \in 0..Steps(c) /\ l - 1 \in 0..Steps(c) /\ l \in 0..l /\ l - 1 \in 0..l /\ l - 1 \in 0..(l - 1) /\ l # 0
    BY <1>2
  <2>2. PICK u : Upto(c, l, u) /\ OodUpTo(c, l) = u[l]
    BY <1>1, <2>1
  <2>3. PICK w : Upto(c, l - 1, w) /\ OodUpTo(c, l - 1) = w[l - 1]
    BY <1>1, <2>1
  <2>4. u[l - 1] = w[l - 1]
    BY <2>1, <2>2, <2>3, UptoIsOne
  <2>5. u[l] = u[l - 1] + c.ood[l + 1]
    BY <2>1, <2>2 DEF Upto
  <2> QED
    BY <2>2, <2>3, <2>4, <2>5
<1> QED
  BY <1>3, <1>4, <1>5
-----------------------------------------------------------------------------
(* The parts of a script and the counts they lead to.                              *)
LEMMA OpsAre ==
  ASSUME NEW c \in Configs, NEW l \in 0..Steps(c)
  PROVE  /\ Say("tx") \in Ops /\ Say("ood") \in Ops /\ Say("roots") \in Ops /\ Say("yr") \in Ops
         /\ Draw("fold", 1) \in Ops /\ Draw("beta", 1) \in Ops /\ Draw("z", Dim(c, l)) \in Ops
         /\ Draw("alpha", CeilLog2(c.queries[l + 1])) \in Ops
         /\ Queries(l) \in Ops /\ Open(l) \in Ops /\ Check("shape") \in Ops /\ Check("counts") \in Ops
         /\ Check("residual") \in Ops /\ Grind("nonces", c.grind[l + 1]) \in Ops
         /\ \A j \in Nat : Grind("fold_nonces", FoldBits(c, l, j)) \in Ops
<1>1. Dim(c, l) \in Widths /\ CeilLog2(c.queries[l + 1]) \in Widths /\ Nat \subseteq Widths
  <2>1. Dim(c, l) \in {Dim(c, i) : i \in 0..Steps(c)}
        /\ CeilLog2(c.queries[l + 1]) \in {CeilLog2(c.queries[i + 1]) : i \in 0..Steps(c)}
    OBVIOUS
  <2>2. {Dim(c, i) : i \in 0..Steps(c)} \in {{Dim(d, i) : i \in 0..Steps(d)} : d \in Configs}
        /\ {CeilLog2(c.queries[i + 1]) : i \in 0..Steps(c)}
             \in {{CeilLog2(d.queries[i + 1]) : i \in 0..Steps(d)} : d \in Configs}
    OBVIOUS
  <2>3. PICK U, W : U = {{Dim(d, i) : i \in 0..Steps(d)} : d \in Configs}
                    /\ W = {{CeilLog2(d.queries[i + 1]) : i \in 0..Steps(d)} : d \in Configs}
    OBVIOUS
  <2>4. Widths = Nat \cup (UNION U) \cup (UNION W)
    BY <2>3, Zenon DEF Widths
  <2>5. PICK x, y, X, Y : x = Dim(c, l) /\ y = CeilLog2(c.queries[l + 1]) /\ x \in X /\ y \in Y /\ X \in U /\ Y \in W
    BY <2>1, <2>2, <2>3, Zenon
  <2>6. x \in UNION U /\ y \in UNION W
    BY <2>5
  <2>7. PICK P, Q : P = UNION U /\ Q = UNION W
    OBVIOUS
  <2>8. Widths = Nat \cup P \cup Q /\ x \in P /\ y \in Q
    BY <2>4, <2>6, <2>7, Zenon
  <2>9. x \in Widths /\ y \in Widths /\ Nat \subseteq Widths
    <3> HIDE DEF Widths
    <3> QED
      BY <2>8
  <2> QED
    BY <2>5, <2>9, Zenon
<1>2. l \in Nat /\ c.grind[l + 1] \in Nat /\ \A j \in Nat : FoldBits(c, l, j) \in Nat
  BY ConfigTypes, StepsType
<1>3. 0 \in Widths /\ 1 \in Widths /\ l \in Widths /\ c.grind[l + 1] \in Widths
      /\ \A j \in Nat : FoldBits(c, l, j) \in Widths
  BY <1>1, <1>2
<1> HIDE DEF Widths
<1>4. \A f \in Names : Say(f) \in Ops /\ Check(f) \in Ops
  BY <1>3 DEF Say, Check, Ops, Acts
<1>5. \A f \in Names, n \in Widths : Draw(f, n) \in Ops /\ Grind(f, n) \in Ops
  BY DEF Draw, Grind, Ops, Acts
<1>6. Queries(l) \in Ops /\ Open(l) \in Ops
  BY <1>3 DEF Queries, Open, Ops, Acts, Names
<1>7. {"tx", "ood", "roots", "yr", "fold", "beta", "z", "alpha", "shape", "counts", "residual", "nonces", "fold_nonces"}
        \subseteq Names
  BY DEF Names, Told, NonceLists
<1> HIDE DEF Ops, Names
<1> QED
  BY <1>1, <1>3, <1>4, <1>5, <1>6, <1>7

(* Counts that differ in the given lists only. *)
Within(k, r, some) == r \in Counts /\ \A f \in Counted \ some : r[f] = k[f]

LEMMA Extends ==
  ASSUME NEW S, NEW a \in S, NEW b \in S, NEW c \in S, NEW d \in S, NEW e \in S, NEW f \in S
  PROVE  /\ <<a>> \in Seq(S) /\ Len(<<a>>) = 1 /\ <<a>>[1] = a
         /\ <<a, b>> \in Seq(S) /\ Len(<<a, b>>) = 2 /\ <<a, b>>[1] = a /\ <<a, b>>[2] = b
         /\ <<a, b, c>> \in Seq(S) /\ Len(<<a, b, c>>) = 3
         /\ <<a, b, c>>[1] = a /\ <<a, b, c>>[2] = b /\ <<a, b, c>>[3] = c
         /\ <<a, b, c, d>> \in Seq(S) /\ Len(<<a, b, c, d>>) = 4 /\ <<a, b, c, d>>[1] = a
         /\ <<a, b, c, d>>[2] = b /\ <<a, b, c, d>>[3] = c /\ <<a, b, c, d>>[4] = d
         /\ <<a, b, c, d, e>> \in Seq(S) /\ Len(<<a, b, c, d, e>>) = 5 /\ <<a, b, c, d, e>>[1] = a
         /\ <<a, b, c, d, e>>[2] = b /\ <<a, b, c, d, e>>[3] = c /\ <<a, b, c, d, e>>[4] = d
         /\ <<a, b, c, d, e>>[5] = e
         /\ <<a, b, c, d, e, f>> \in Seq(S) /\ Len(<<a, b, c, d, e, f>>) = 6
         /\ <<a, b, c, d, e, f>>[1] = a /\ <<a, b, c, d, e, f>>[2] = b /\ <<a, b, c, d, e, f>>[3] = c
         /\ <<a, b, c, d, e, f>>[4] = d /\ <<a, b, c, d, e, f>>[5] = e /\ <<a, b, c, d, e, f>>[6] = f
OBVIOUS

LEMMA LedgerOne ==
  ASSUME NEW c, NEW a \in Ops, NEW k \in Counts, Placed(c, a, k)
  PROVE  Ledger(c, <<a>>, k, Tally(k, a))
<1> HIDE DEF Ops
<1>1. Ledger(c, <<>>, k, k) /\ Len(<<>>) = 0
  BY LedgerNone
<1>2. <<a>> \in Seq(Ops) /\ Len(<<a>>) = 0 + 1 /\ <<a>>[1] = a /\ \A i \in 1..0 : <<a>>[i] = <<>>[i]
  BY Extends
<1> QED
  BY <1>1, <1>2, LedgerExtends

LEMMA LedgerTwo ==
  ASSUME NEW c, NEW a \in Ops, NEW b \in Ops, NEW k \in Counts, NEW r,
         r = Tally(k, a), Placed(c, a, k), Placed(c, b, r)
  PROVE  Ledger(c, <<a, b>>, k, Tally(r, b))
<1> HIDE DEF Ops
<1>1. Ledger(c, <<a>>, k, r)
  BY LedgerOne
<1>2. Len(<<a>>) = 1 /\ <<a, b>> \in Seq(Ops) /\ Len(<<a, b>>) = 2 /\ <<a, b>>[2] = b /\ <<a>>[1] = <<a, b>>[1]
  BY Extends
<1>3. Len(<<a, b>>) = Len(<<a>>) + 1 /\ \A i \in 1..Len(<<a>>) : <<a, b>>[i] = <<a>>[i]
  BY <1>2
<1> QED
  BY <1>1, <1>2, <1>3, LedgerExtends

LEMMA LedgerMore ==
  ASSUME NEW c, NEW a \in Ops, NEW b \in Ops, NEW d \in Ops, NEW e \in Ops, NEW k, NEW r
  PROVE  /\ Ledger(c, <<a, b>>, k, r) /\ Placed(c, d, r) => Ledger(c, <<a, b, d>>, k, Tally(r, d))
         /\ Ledger(c, <<a, b, d>>, k, r) /\ Placed(c, e, r) => Ledger(c, <<a, b, d, e>>, k, Tally(r, e))
<1> HIDE DEF Ops
<1>1. /\ Len(<<a, b>>) = 2 /\ <<a, b, d>> \in Seq(Ops) /\ Len(<<a, b, d>>) = 3 /\ <<a, b, d>>[3] = d
      /\ <<a, b>>[1] = <<a, b, d>>[1] /\ <<a, b>>[2] = <<a, b, d>>[2]
      /\ <<a, b, d, e>> \in Seq(Ops) /\ Len(<<a, b, d, e>>) = 4 /\ <<a, b, d, e>>[4] = e
      /\ <<a, b, d>>[1] = <<a, b, d, e>>[1] /\ <<a, b, d>>[2] = <<a, b, d, e>>[2]
      /\ <<a, b, d>>[3] = <<a, b, d, e>>[3]
  BY Extends
<1>2. \A i \in 1..2 : <<a, b, d>>[i] = <<a, b>>[i]
  BY <1>1
<1>3. \A i \in 1..3 : <<a, b, d, e>>[i] = <<a, b, d>>[i]
  BY <1>1
<1>4. Len(<<a, b, d>>) = Len(<<a, b>>) + 1 /\ Len(<<a, b, d, e>>) = Len(<<a, b, d>>) + 1
  BY <1>1
<1>5. ASSUME Ledger(c, <<a, b>>, k, r), Placed(c, d, r) PROVE Ledger(c, <<a, b, d>>, k, Tally(r, d))
  <2>1. Placed(c, <<a, b, d>>[Len(<<a, b, d>>)], r) /\ <<a, b, d>>[Len(<<a, b, d>>)] = d
    BY <1>1, <1>5
  <2> QED
    BY <1>1, <1>2, <1>4, <1>5, <2>1, LedgerExtends
<1>6. ASSUME Ledger(c, <<a, b, d>>, k, r), Placed(c, e, r) PROVE Ledger(c, <<a, b, d, e>>, k, Tally(r, e))
  <2>1. Placed(c, <<a, b, d, e>>[Len(<<a, b, d, e>>)], r) /\ <<a, b, d, e>>[Len(<<a, b, d, e>>)] = e
    BY <1>1, <1>6
  <2> QED
    BY <1>1, <1>3, <1>4, <1>6, <2>1, LedgerExtends
<1> QED
  BY <1>5, <1>6

LEMMA LedgerSix ==
  ASSUME NEW c, NEW a \in Ops, NEW b \in Ops, NEW d \in Ops, NEW e \in Ops, NEW f \in Ops, NEW g \in Ops, NEW k, NEW r
  PROVE  /\ Ledger(c, <<a, b, d, e>>, k, r) /\ Placed(c, f, r) => Ledger(c, <<a, b, d, e, f>>, k, Tally(r, f))
         /\ Ledger(c, <<a, b, d, e, f>>, k, r) /\ Placed(c, g, r) => Ledger(c, <<a, b, d, e, f, g>>, k, Tally(r, g))
<1> HIDE DEF Ops
<1>1. /\ Len(<<a, b, d, e>>) = 4 /\ <<a, b, d, e, f>> \in Seq(Ops) /\ Len(<<a, b, d, e, f>>) = 5
      /\ <<a, b, d, e, f>>[5] = f
      /\ <<a, b, d, e>>[1] = <<a, b, d, e, f>>[1] /\ <<a, b, d, e>>[2] = <<a, b, d, e, f>>[2]
      /\ <<a, b, d, e>>[3] = <<a, b, d, e, f>>[3] /\ <<a, b, d, e>>[4] = <<a, b, d, e, f>>[4]
      /\ <<a, b, d, e, f, g>> \in Seq(Ops) /\ Len(<<a, b, d, e, f, g>>) = 6 /\ <<a, b, d, e, f, g>>[6] = g
      /\ <<a, b, d, e, f>>[1] = <<a, b, d, e, f, g>>[1] /\ <<a, b, d, e, f>>[2] = <<a, b, d, e, f, g>>[2]
      /\ <<a, b, d, e, f>>[3] = <<a, b, d, e, f, g>>[3] /\ <<a, b, d, e, f>>[4] = <<a, b, d, e, f, g>>[4]
      /\ <<a, b, d, e, f>>[5] = <<a, b, d, e, f, g>>[5]
  BY Extends
<1>2. \A i \in 1..4 : <<a, b, d, e, f>>[i] = <<a, b, d, e>>[i]
  BY <1>1
<1>3. \A i \in 1..5 : <<a, b, d, e, f, g>>[i] = <<a, b, d, e, f>>[i]
  BY <1>1
<1>4. Len(<<a, b, d, e, f>>) = Len(<<a, b, d, e>>) + 1 /\ Len(<<a, b, d, e, f, g>>) = Len(<<a, b, d, e, f>>) + 1
  BY <1>1
<1>5. ASSUME Ledger(c, <<a, b, d, e>>, k, r), Placed(c, f, r) PROVE Ledger(c, <<a, b, d, e, f>>, k, Tally(r, f))
  <2>1. Placed(c, <<a, b, d, e, f>>[Len(<<a, b, d, e, f>>)], r) /\ <<a, b, d, e, f>>[Len(<<a, b, d, e, f>>)] = f
    BY <1>1, <1>5
  <2> QED
    BY <1>1, <1>2, <1>4, <1>5, <2>1, LedgerExtends
<1>6. ASSUME Ledger(c, <<a, b, d, e, f>>, k, r), Placed(c, g, r)
      PROVE  Ledger(c, <<a, b, d, e, f, g>>, k, Tally(r, g))
  <2>1. Placed(c, <<a, b, d, e, f, g>>[Len(<<a, b, d, e, f, g>>)], r)
        /\ <<a, b, d, e, f, g>>[Len(<<a, b, d, e, f, g>>)] = g
    BY <1>1, <1>6
  <2> QED
    BY <1>1, <1>3, <1>4, <1>6, <2>1, LedgerExtends
<1> QED
  BY <1>5, <1>6

(* Folding a level takes sumcheck messages and fold nonces, and nothing else. *)
LEMMA FoldsLedger ==
  ASSUME NEW c \in Configs, NEW l \in 0..Steps(c), NEW k \in Counts
  PROVE  \E r : Within(k, r, {"tx", "fold_nonces"}) /\ Ledger(c, ProverFolds(c, l), k, r)
<1> DEFINE part(j) == (IF FoldBits(c, l, j - 1) > 0 THEN <<Grind("fold_nonces", FoldBits(c, l, j - 1))>> ELSE <<>>)
                      \o <<Draw("fold", 1), Say("tx")>>
           s == [j \in 1..Lanes(c, l) |-> part(j)]
           R == [i \in 0..Lanes(c, l) |-> {r \in Counts : Within(k, r, {"tx", "fold_nonces"})}]
<1>1. Lanes(c, l) \in Nat
  BY ConfigTypes
<1>2. ASSUME NEW j \in 1..Lanes(c, l), NEW x \in Counts, Within(k, x, {"tx", "fold_nonces"})
      PROVE  \E y \in Counts : Within(k, y, {"tx", "fold_nonces"}) /\ Ledger(c, part(j), x, y)
  <2>1. PICK g, d, t : g = Grind("fold_nonces", FoldBits(c, l, j - 1)) /\ d = Draw("fold", 1) /\ t = Say("tx")
    OBVIOUS
  <2>2. j - 1 \in Nat
    BY <1>1
  <2>3. g \in Ops /\ d \in Ops /\ t \in Ops
    BY <2>1, <2>2, OpsAre
  <2>4. \A z \in Counts : Placed(c, g, z) /\ Placed(c, d, z) /\ Placed(c, t, z)
    BY <2>1 DEF Grind, Draw, Say, Placed, NonceLists
  <2>5. \A z \in Counts : Within(k, z, {"tx", "fold_nonces"}) =>
           /\ Within(k, Tally(z, g), {"tx", "fold_nonces"}) /\ Within(k, Tally(z, d), {"tx", "fold_nonces"})
           /\ Within(k, Tally(z, t), {"tx", "fold_nonces"})
    <3> TAKE z \in Counts
    <3>1. \A op : Tally(z, op) \in Counts
      BY TallyTyped
    <3>2. Takes(g) = "fold_nonces" /\ Takes(d) = "none" /\ Takes(t) = "tx"
      BY <2>1 DEF Takes, Grind, Draw, Say
    <3>3. \A f \in Counted \ {"tx", "fold_nonces"} : Tally(z, g)[f] = z[f] /\ Tally(z, d)[f] = z[f] /\ Tally(z, t)[f] = z[f]
      BY <3>2 DEF Tally, Counted, Told, NonceLists
    <3> QED
      BY <3>1, <3>3 DEF Within
  <2> HIDE DEF Ops
  <2>6. ASSUME NEW z \in Counts, Within(k, z, {"tx", "fold_nonces"})
        PROVE  \E y \in Counts : Within(k, y, {"tx", "fold_nonces"}) /\ Ledger(c, <<d, t>>, z, y)
    <3>1. Ledger(c, <<d, t>>, z, Tally(Tally(z, d), t))
      BY <2>3, <2>4, TallyTyped, LedgerTwo
    <3>2. Tally(z, d) \in Counts /\ Within(k, Tally(z, d), {"tx", "fold_nonces"})
      BY <2>5, <2>6, TallyTyped
    <3>3. Tally(Tally(z, d), t) \in Counts /\ Within(k, Tally(Tally(z, d), t), {"tx", "fold_nonces"})
      BY <2>5, <3>2, TallyTyped
    <3> QED
      BY <3>1, <3>3
  <2>7. CASE FoldBits(c, l, j - 1) > 0
    <3>1. part(j) = <<g>> \o <<d, t>>
      BY <2>1, <2>7
    <3>2. Ledger(c, <<g>>, x, Tally(x, g))
      BY <2>3, <2>4, LedgerOne
    <3>3. Tally(x, g) \in Counts /\ Within(k, Tally(x, g), {"tx", "fold_nonces"})
      BY <1>2, <2>5, TallyTyped
    <3>4. PICK y \in Counts : Within(k, y, {"tx", "fold_nonces"}) /\ Ledger(c, <<d, t>>, Tally(x, g), y)
      BY <2>6, <3>3
    <3>5. Ledger(c, <<g>> \o <<d, t>>, x, y)
      BY <3>2, <3>4, LedgerJoins
    <3> QED
      BY <3>1, <3>4, <3>5
  <2>8. CASE ~(FoldBits(c, l, j - 1) > 0)
    <3>1. part(j) = <<>> \o <<d, t>>
      BY <2>1, <2>8
    <3>2. PICK y \in Counts : Within(k, y, {"tx", "fold_nonces"}) /\ Ledger(c, <<d, t>>, x, y)
      BY <1>2, <2>6
    <3>3. Ledger(c, <<>> \o <<d, t>>, x, y)
      BY <3>2, LedgerNone, LedgerJoins
    <3> QED
      BY <3>1, <3>2, <3>3
  <2> QED
    BY <2>7, <2>8
<1>3. s \in Seq(Seq(Ops))
  <2>1. ASSUME NEW j \in 1..Lanes(c, l) PROVE part(j) \in Seq(Ops)
    <3>1. Within(k, k, {"tx", "fold_nonces"})
      BY DEF Within
    <3>2. \E y \in Counts : Within(k, y, {"tx", "fold_nonces"}) /\ Ledger(c, part(j), k, y)
      BY <1>2, <3>1
    <3> QED
      BY <3>2, LedgerTyped
  <2> HIDE DEF part, Ops
  <2> QED
    BY <1>1, <2>1
<1>4. Len(s) = Lanes(c, l) /\ \A j \in 1..Lanes(c, l) : s[j] = part(j)
  BY <1>1
<1>5. k \in R[0]
  BY <1>1 DEF Within
<1>6. \A i \in 1..Lanes(c, l) : R[i - 1] = R[0] /\ R[i] = R[0]
  BY <1>1
<1>7. \A x \in R[0] : x \in Counts /\ Within(k, x, {"tx", "fold_nonces"})
  BY <1>1
<1>8. \A x \in Counts : Within(k, x, {"tx", "fold_nonces"}) => x \in R[0]
  BY <1>1
<1>9. R[Lanes(c, l)] = R[0]
  BY <1>1
<1>10. ProverFolds(c, l) = FlattenSeq(s)
  BY DEF ProverFolds
<1> HIDE DEF s, part, R
<1>11. \A i \in 1..Len(s) : \A x \in R[i - 1] : \E y \in R[i] : x \in Counts => Ledger(c, s[i], x, y)
  <2> TAKE i \in 1..Len(s)
  <2> TAKE x \in R[i - 1]
  <2>1. i \in 1..Lanes(c, l) /\ x \in Counts /\ Within(k, x, {"tx", "fold_nonces"})
    BY <1>4, <1>6, <1>7
  <2>2. PICK y \in Counts : Within(k, y, {"tx", "fold_nonces"}) /\ Ledger(c, part(i), x, y)
    BY <1>2, <2>1
  <2>3. y \in R[i] /\ Ledger(c, s[i], x, y)
    BY <1>4, <1>6, <1>8, <2>1, <2>2
  <2> QED
    BY <2>3
<1>12. \E r \in R[Len(s)] : Ledger(c, FlattenSeq(s), k, r)
  <2> HIDE DEF Ops
  <2> QED
    BY <1>3, <1>5, <1>11, LedgerFlattens
<1> QED
  BY <1>4, <1>7, <1>9, <1>10, <1>12
LEMMA TallyIs ==
  ASSUME NEW k \in Counts, NEW op
  PROVE  /\ \A f \in Counted : f # Takes(op) => Tally(k, op)[f] = k[f]
         /\ Takes(op) \in Counted => Tally(k, op)[Takes(op)] = k[Takes(op)] + 1
BY DEF Tally, Counts

LEMMA TakesIs ==
  ASSUME NEW f, NEW n
  PROVE  /\ Takes(Say(f)) = f /\ Takes(Grind(f, n)) = f /\ Takes(Draw(f, n)) = "none"
         /\ Takes(Queries(n)) = "queries" /\ Takes(Open(n)) = "opens" /\ Takes(Check(f)) = "none"
BY DEF Takes, Say, Grind, Draw, Queries, Open, Check

(* The values out of the domain of a commitment. *)
LEMMA OodLedger ==
  ASSUME NEW c \in Configs, NEW l \in 0..Steps(c), NEW k \in Counts
  PROVE  \E r : /\ Within(k, r, {"tx", "ood"}) /\ r["ood"] = k["ood"] + c.ood[l + 1]
                /\ Ledger(c, ProverOod(c, l), k, r)
<1>1. PICK n \in Nat : n = c.ood[l + 1]
  BY ConfigTypes
<1> DEFINE part == <<Draw("z", Dim(c, l)), Say("ood"), Say("tx"), Draw("beta", 1)>>
           s == [j \in 1..n |-> part]
           R == [i \in 0..n |-> {r \in Counts : Within(k, r, {"tx", "ood"}) /\ r["ood"] = k["ood"] + i}]
<1>2. ASSUME NEW i \in 0..n, NEW x \in Counts, Within(k, x, {"tx", "ood"}), x["ood"] = k["ood"] + i
      PROVE  \E y \in Counts : Within(k, y, {"tx", "ood"}) /\ y["ood"] = k["ood"] + (i + 1) /\ Ledger(c, part, x, y)
  <2>1. PICK z, v, t, b : z = Draw("z", Dim(c, l)) /\ v = Say("ood") /\ t = Say("tx") /\ b = Draw("beta", 1)
    OBVIOUS
  <2>2. z \in Ops /\ v \in Ops /\ t \in Ops /\ b \in Ops
    BY <2>1, OpsAre
  <2>3. \A w \in Counts : Placed(c, z, w) /\ Placed(c, v, w) /\ Placed(c, t, w) /\ Placed(c, b, w)
    BY <2>1 DEF Draw, Say, Placed
  <2>4. Takes(z) = "none" /\ Takes(v) = "ood" /\ Takes(t) = "tx" /\ Takes(b) = "none"
    BY <2>1, TakesIs
  <2> HIDE DEF Ops
  <2>5. PICK x1, x2, x3, x4 : x1 = Tally(x, z) /\ x2 = Tally(x1, v) /\ x3 = Tally(x2, t) /\ x4 = Tally(x3, b)
    OBVIOUS
  <2>6. x1 \in Counts /\ x2 \in Counts /\ x3 \in Counts /\ x4 \in Counts
    BY <2>5, TallyTyped
  <2>7. Ledger(c, <<z, v>>, x, x2)
    BY <2>2, <2>3, <2>5, <2>6, LedgerTwo
  <2>8. Ledger(c, <<z, v, t>>, x, x3)
    BY <2>2, <2>3, <2>5, <2>6, <2>7, LedgerMore
  <2>9. Ledger(c, <<z, v, t, b>>, x, x4)
    BY <2>2, <2>3, <2>5, <2>6, <2>8, LedgerMore
  <2>10. "ood" \in Counted /\ "tx" \in Counted /\ "none" \notin Counted
    BY DEF Counted, Told, NonceLists
  <2>11. /\ \A f \in Counted : x1[f] = x[f] /\ x4[f] = x3[f]
         /\ \A f \in Counted \ {"ood"} : x2[f] = x1[f]
         /\ \A f \in Counted \ {"tx"} : x3[f] = x2[f]
         /\ x2["ood"] = x1["ood"] + 1
    BY <2>4, <2>5, <2>6, <2>10, TallyIs
  <2>12. Within(k, x4, {"tx", "ood"})
    BY <1>2, <2>6, <2>11 DEF Within
  <2>13. k["ood"] \in Nat
    BY <2>10 DEF Counts
  <2>14. x4["ood"] = k["ood"] + (i + 1)
    BY <1>2, <2>10, <2>11, <2>13
  <2> QED
    BY <2>1, <2>6, <2>9, <2>12, <2>14
<1>3. "ood" \in Counted /\ k["ood"] \in Nat
  BY DEF Counts, Counted, Told
<1>4. k \in R[0]
  BY <1>1, <1>3 DEF Within
<1>5. part \in Seq(Ops)
  <2>1. \E y \in Counts : Within(k, y, {"tx", "ood"}) /\ y["ood"] = k["ood"] + (0 + 1) /\ Ledger(c, part, k, y)
    <3>1. 0 \in 0..n /\ Within(k, k, {"tx", "ood"}) /\ k["ood"] = k["ood"] + 0
      BY <1>3 DEF Within
    <3> HIDE DEF part
    <3> QED
      BY <1>2, <3>1
  <2> HIDE DEF part
  <2> QED
    BY <2>1, LedgerTyped
<1>6. s \in Seq(Seq(Ops)) /\ Len(s) = n /\ \A j \in 1..n : s[j] = part
  <2> HIDE DEF part, Ops
  <2> QED
    BY <1>1, <1>5, SMTT(30)
<1>7. \A i \in 0..n : R[i] = {r \in Counts : Within(k, r, {"tx", "ood"}) /\ r["ood"] = k["ood"] + i}
  OBVIOUS
<1>8. ProverOod(c, l) = FlattenSeq(s)
  BY <1>1 DEF ProverOod
<1> HIDE DEF s, R, part
<1>9. \A i \in 1..Len(s) : \A x \in R[i - 1] : \E y \in R[i] : x \in Counts => Ledger(c, s[i], x, y)
  <2> TAKE i \in 1..Len(s)
  <2> TAKE x \in R[i - 1]
  <2>1. i - 1 \in 0..n /\ i \in 0..n /\ (i - 1) + 1 = i /\ i \in 1..n
    BY <1>6
  <2>2. x \in Counts /\ Within(k, x, {"tx", "ood"}) /\ x["ood"] = k["ood"] + (i - 1)
    BY <1>7, <2>1
  <2>3. PICK y \in Counts :
           Within(k, y, {"tx", "ood"}) /\ y["ood"] = k["ood"] + ((i - 1) + 1) /\ Ledger(c, part, x, y)
    BY <1>2, <2>1, <2>2
  <2>4. y \in R[i] /\ Ledger(c, s[i], x, y)
    BY <1>6, <1>7, <2>1, <2>3
  <2> QED
    BY <2>4
<1>10. PICK r \in R[Len(s)] : Ledger(c, FlattenSeq(s), k, r)
  <2> HIDE DEF Ops
  <2> QED
    BY <1>4, <1>6, <1>9, LedgerFlattens
<1>11. r \in R[n] /\ n \in 0..n
  BY <1>6, <1>10
<1> QED
  BY <1>1, <1>7, <1>8, <1>10, <1>11

(* A query phase: one proof of work, the positions, one opening. *)
LEMMA QueriesLedger ==
  ASSUME NEW c \in Configs, NEW l \in 0..(Steps(c) - 1), NEW k \in Counts,
         k["queries"] = l, k["opens"] = l, k["nonces"] = l, k["roots"] = l + 1, k["ood"] = OodUpTo(c, l + 1)
  PROVE  \E r : /\ Within(k, r, {"tx", "nonces", "queries", "opens"})
                /\ r["nonces"] = l + 1 /\ r["queries"] = l + 1 /\ r["opens"] = l + 1
                /\ Ledger(c, ProverQueries(c, l), k, r)
<1>1. l \in 0..Steps(c) /\ l \in Nat
  BY StepsType
<1>2. PICK g, q, a, o, t, b :
         /\ g = Grind("nonces", c.grind[l + 1]) /\ q = Queries(l) /\ a = Draw("alpha", CeilLog2(c.queries[l + 1]))
         /\ o = Open(l) /\ t = Say("tx") /\ b = Draw("beta", 1)
  OBVIOUS
<1>3. g \in Ops /\ q \in Ops /\ a \in Ops /\ o \in Ops /\ t \in Ops /\ b \in Ops
  BY <1>1, <1>2, OpsAre
<1>4. Takes(g) = "nonces" /\ Takes(q) = "queries" /\ Takes(a) = "none" /\ Takes(o) = "opens" /\ Takes(t) = "tx"
      /\ Takes(b) = "none"
  BY <1>2, TakesIs
<1>5. PICK x1, x2, x3, x4, x5, x6 : /\ x1 = Tally(k, g) /\ x2 = Tally(x1, q) /\ x3 = Tally(x2, a)
                                    /\ x4 = Tally(x3, o) /\ x5 = Tally(x4, t) /\ x6 = Tally(x5, b)
  OBVIOUS
<1>6. x1 \in Counts /\ x2 \in Counts /\ x3 \in Counts /\ x4 \in Counts /\ x5 \in Counts /\ x6 \in Counts
  BY <1>5, TallyTyped
<1>7. /\ {"nonces", "queries", "opens", "roots", "ood", "tx"} \subseteq Counted /\ "none" \notin Counted
  BY DEF Counted, Told, NonceLists
<1>8. /\ \A f \in Counted \ {"nonces"} : x1[f] = k[f]
      /\ \A f \in Counted \ {"queries"} : x2[f] = x1[f]
      /\ \A f \in Counted : x3[f] = x2[f] /\ x6[f] = x5[f]
      /\ \A f \in Counted \ {"opens"} : x4[f] = x3[f]
      /\ \A f \in Counted \ {"tx"} : x5[f] = x4[f]
      /\ x1["nonces"] = k["nonces"] + 1 /\ x2["queries"] = x1["queries"] + 1 /\ x4["opens"] = x3["opens"] + 1
  BY <1>4, <1>5, <1>6, <1>7, TallyIs
<1>9. /\ x1["queries"] = l /\ x1["opens"] = l /\ x1["nonces"] = l + 1 /\ x1["roots"] = l + 1
      /\ x1["ood"] = OodUpTo(c, l + 1)
      /\ x2["queries"] = l + 1 /\ x2["opens"] = l /\ x3["queries"] = l + 1 /\ x3["opens"] = l
      /\ x6["nonces"] = l + 1 /\ x6["queries"] = l + 1 /\ x6["opens"] = l + 1
  BY <1>7, <1>8
<1>10. Placed(c, g, k)
  BY <1>2 DEF Grind, Placed, NonceLists
<1>11. Placed(c, q, x1)
  BY <1>2, <1>9 DEF Queries, Placed
<1>12. Placed(c, a, x2)
  BY <1>2, <1>9 DEF Draw, Placed
<1>13. Placed(c, o, x3)
  BY <1>2, <1>9 DEF Open, Placed
<1>14. Placed(c, t, x4) /\ Placed(c, b, x5)
  BY <1>2 DEF Say, Draw, Placed
<1> HIDE DEF Ops
<1>15. Ledger(c, <<g, q>>, k, x2)
  BY <1>3, <1>5, <1>6, <1>10, <1>11, LedgerTwo
<1>16. Ledger(c, <<g, q, a>>, k, x3)
  BY <1>3, <1>5, <1>12, <1>15, LedgerMore
<1>17. Ledger(c, <<g, q, a, o>>, k, x4)
  BY <1>3, <1>5, <1>13, <1>16, LedgerMore
<1>18. Ledger(c, <<g, q, a, o, t>>, k, x5)
  BY <1>3, <1>5, <1>14, <1>17, LedgerSix
<1>19. Ledger(c, <<g, q, a, o, t, b>>, k, x6)
  BY <1>3, <1>5, <1>14, <1>18, LedgerSix
<1>20. ProverQueries(c, l) = <<g, q, a, o, t, b>>
  BY <1>2 DEF ProverQueries
<1>21. Within(k, x6, {"tx", "nonces", "queries", "opens"})
  BY <1>6, <1>8 DEF Within
<1> QED
  BY <1>9, <1>19, <1>20, <1>21

-----------------------------------------------------------------------------
(* What both scripts begin with: a block for each level but the last, and the last *)
(* folds.                                                                          *)
Block(c, i) == ProverFolds(c, i - 1) \o <<Say("roots")>> \o ProverOod(c, i) \o ProverQueries(c, i - 1)
Blocks(c) == FlattenSeq([i \in 1..Steps(c) |-> Block(c, i)])
Common(c) == <<Say("tx")>> \o Blocks(c) \o ProverFolds(c, Steps(c))

AtLevel(c, k, i) ==
    /\ k \in Counts
    /\ k["roots"] = i /\ k["nonces"] = i /\ k["opens"] = i /\ k["queries"] = i
    /\ k["ood"] = OodUpTo(c, i) /\ k["yr"] = 0

LEMMA BlockLedger ==
  ASSUME NEW c \in Configs, NEW i \in 1..Steps(c), NEW k, AtLevel(c, k, i - 1)
  PROVE  \E r : AtLevel(c, r, i) /\ Ledger(c, Block(c, i), k, r)
<1>1. /\ i - 1 \in 0..(Steps(c) - 1) /\ i \in 0..Steps(c) /\ i - 1 \in 0..Steps(c)
      /\ (i - 1) + 1 = i /\ i \in Nat /\ i - 1 \in Nat
  BY StepsType
<1>2. /\ {"nonces", "queries", "opens", "roots", "ood", "tx", "yr", "fold_nonces"} \subseteq Counted
  BY DEF Counted, Told, NonceLists
<1>3. k \in Counts
  BY DEF AtLevel
<1>4. PICK x : Within(k, x, {"tx", "fold_nonces"}) /\ Ledger(c, ProverFolds(c, i - 1), k, x)
  BY <1>1, <1>3, FoldsLedger
<1>5. x \in Counts /\ Placed(c, Say("roots"), x) /\ Say("roots") \in Ops /\ Takes(Say("roots")) = "roots"
  BY <1>1, <1>4, OpsAre, TakesIs DEF Within, Placed, Say
<1>6. PICK y : y = Tally(x, Say("roots"))
  OBVIOUS
<1>7. Ledger(c, <<Say("roots")>>, x, y) /\ y \in Counts
  BY <1>5, <1>6, LedgerOne, TallyTyped
<1>8. (\A f \in Counted \ {"roots"} : y[f] = x[f]) /\ y["roots"] = x["roots"] + 1
  BY <1>2, <1>5, <1>6, TallyIs
<1>9. PICK z : /\ Within(y, z, {"tx", "ood"}) /\ z["ood"] = y["ood"] + c.ood[i + 1]
               /\ Ledger(c, ProverOod(c, i), y, z)
  BY <1>1, <1>7, OodLedger
<1>10. z \in Counts /\ x \in Counts
  BY <1>4, <1>9 DEF Within
<1>11. /\ \A f \in Counted \ {"tx", "fold_nonces"} : x[f] = k[f]
       /\ \A f \in Counted \ {"tx", "ood"} : z[f] = y[f]
  BY <1>4, <1>9 DEF Within
<1>12. OodUpTo(c, i) = OodUpTo(c, i - 1) + c.ood[i + 1]
  BY OodAddsUp
<1>13. /\ z["queries"] = i - 1 /\ z["opens"] = i - 1 /\ z["nonces"] = i - 1 /\ z["roots"] = (i - 1) + 1
       /\ z["ood"] = OodUpTo(c, (i - 1) + 1) /\ z["yr"] = 0
  <2>1. /\ k["roots"] = i - 1 /\ k["nonces"] = i - 1 /\ k["opens"] = i - 1 /\ k["queries"] = i - 1
        /\ k["ood"] = OodUpTo(c, i - 1) /\ k["yr"] = 0
    BY DEF AtLevel
  <2>2. /\ x["roots"] = i - 1 /\ x["nonces"] = i - 1 /\ x["opens"] = i - 1 /\ x["queries"] = i - 1
        /\ x["ood"] = OodUpTo(c, i - 1) /\ x["yr"] = 0
    BY <1>2, <1>11, <2>1
  <2>3. /\ y["roots"] = (i - 1) + 1 /\ y["nonces"] = i - 1 /\ y["opens"] = i - 1 /\ y["queries"] = i - 1
        /\ y["ood"] = OodUpTo(c, i - 1) /\ y["yr"] = 0
    BY <1>2, <1>8, <2>2
  <2> QED
    BY <1>1, <1>2, <1>9, <1>11, <1>12, <2>3
<1>14. PICK r : /\ Within(z, r, {"tx", "nonces", "queries", "opens"})
                /\ r["nonces"] = (i - 1) + 1 /\ r["queries"] = (i - 1) + 1 /\ r["opens"] = (i - 1) + 1
                /\ Ledger(c, ProverQueries(c, i - 1), z, r)
  BY <1>1, <1>10, <1>13, QueriesLedger
<1>15. AtLevel(c, r, i)
  <2>1. r \in Counts /\ r["roots"] = z["roots"] /\ r["ood"] = z["ood"] /\ r["yr"] = z["yr"]
    BY <1>2, <1>14 DEF Within
  <2> QED
    BY <1>1, <1>13, <1>14, <2>1 DEF AtLevel
<1>16. Ledger(c, Block(c, i), k, r)
  BY <1>4, <1>7, <1>9, <1>14, LedgerJoins DEF Block
<1> QED
  BY <1>15, <1>16
Zero == [f \in Counted |-> 0]

LEMMA BlocksLedger ==
  ASSUME NEW c \in Configs, NEW k, AtLevel(c, k, 0)
  PROVE  \E r : AtLevel(c, r, Steps(c)) /\ Ledger(c, Blocks(c), k, r)
<1>1. PICK n \in Nat : n = Steps(c)
  BY StepsType
<1> DEFINE s == [i \in 1..n |-> Block(c, i)]
           R == [i \in 0..n |-> {r \in Counts : AtLevel(c, r, i)}]
<1>2. ASSUME NEW i \in 1..n PROVE Block(c, i) \in Seq(Ops)
  <2>1. OodUpTo(c, i - 1) \in Nat /\ i - 1 \in Nat
    BY <1>1, OodAddsUp
  <2> DEFINE x == [f \in Counted |-> IF f = "ood" THEN OodUpTo(c, i - 1)
                                     ELSE IF f \in {"roots", "nonces", "opens", "queries"} THEN i - 1 ELSE 0]
  <2>2. AtLevel(c, x, i - 1)
    BY <2>1 DEF AtLevel, Counts, Counted, Told, NonceLists
  <2> HIDE DEF x
  <2> QED
    BY <1>1, <2>2, BlockLedger, LedgerTyped
<1>3. s \in Seq(Seq(Ops)) /\ Len(s) = n /\ \A i \in 1..n : s[i] = Block(c, i)
  <2> HIDE DEF Ops
  <2> QED
    BY <1>2
<1>4. \A i \in 0..n : R[i] = {r \in Counts : AtLevel(c, r, i)}
  OBVIOUS
<1>5. Blocks(c) = FlattenSeq(s)
  BY <1>1 DEF Blocks
<1> HIDE DEF s, R
<1>6. \A i \in 1..Len(s) : \A x \in R[i - 1] : \E y \in R[i] : x \in Counts => Ledger(c, s[i], x, y)
  <2> TAKE i \in 1..Len(s)
  <2> TAKE x \in R[i - 1]
  <2>1. i \in 1..n /\ i - 1 \in 0..n /\ i \in 0..n
    BY <1>3
  <2>2. AtLevel(c, x, i - 1)
    BY <1>4, <2>1
  <2>3. PICK y : AtLevel(c, y, i) /\ Ledger(c, Block(c, i), x, y)
    BY <1>1, <2>1, <2>2, BlockLedger
  <2>4. y \in R[i]
    BY <1>4, <2>1, <2>3 DEF AtLevel
  <2> QED
    BY <1>3, <2>1, <2>3, <2>4
<1>7. k \in R[0] /\ k \in Counts
  BY <1>4 DEF AtLevel
<1>8. PICK r \in R[Len(s)] : Ledger(c, FlattenSeq(s), k, r)
  <2> HIDE DEF Ops
  <2> QED
    BY <1>3, <1>6, <1>7, LedgerFlattens
<1>9. n \in 0..n /\ r \in R[n]
  BY <1>3, <1>8
<1> QED
  BY <1>1, <1>4, <1>5, <1>8, <1>9

LEMMA CommonLedger ==
  ASSUME NEW c \in Configs
  PROVE  \E r : AtLevel(c, r, Steps(c)) /\ Ledger(c, Common(c), Zero, r)
<1>1. 0 \in 0..Steps(c) /\ Steps(c) \in 0..Steps(c)
  BY StepsType
<1>2. Zero \in Counts /\ Say("tx") \in Ops /\ Takes(Say("tx")) = "tx" /\ Placed(c, Say("tx"), Zero)
  BY <1>1, OpsAre, TakesIs DEF Zero, Counts, Placed, Say
<1>3. PICK k : k = Tally(Zero, Say("tx"))
  OBVIOUS
<1>4. Ledger(c, <<Say("tx")>>, Zero, k) /\ k \in Counts
  BY <1>2, <1>3, LedgerOne, TallyTyped
<1>5. {"nonces", "queries", "opens", "roots", "ood", "tx", "yr", "fold_nonces"} \subseteq Counted
  BY DEF Counted, Told, NonceLists
<1>6. AtLevel(c, k, 0)
  <2>1. \A f \in Counted \ {"tx"} : k[f] = Zero[f]
    BY <1>2, <1>3, TallyIs
  <2>2. \A f \in Counted : Zero[f] = 0
    BY DEF Zero
  <2> QED
    BY <1>4, <1>5, <2>1, <2>2, OodAddsUp DEF AtLevel
<1>7. PICK x : AtLevel(c, x, Steps(c)) /\ Ledger(c, Blocks(c), k, x)
  BY <1>6, BlocksLedger
<1>8. PICK r : Within(x, r, {"tx", "fold_nonces"}) /\ Ledger(c, ProverFolds(c, Steps(c)), x, r)
  BY <1>1, <1>7, FoldsLedger DEF AtLevel
<1>9. AtLevel(c, r, Steps(c))
  BY <1>5, <1>7, <1>8 DEF AtLevel, Within
<1> QED
  BY <1>4, <1>7, <1>8, <1>9, LedgerJoins DEF Common

(* The last draw before the folded message: at most a sumcheck message follows it. *)
EndsAt(s, d) ==
    /\ d \in 1..Len(s) /\ s[d].act = "draw" /\ s[d].n = 1
    /\ d = Len(s) \/ (d = Len(s) - 1 /\ s[Len(s)] = Say("tx"))
Ends(s) == \E d : EndsAt(s, d)

LEMMA EndsJoin ==
  ASSUME NEW s \in Seq(Ops), NEW t \in Seq(Ops), Ends(t)
  PROVE  Ends(s \o t)
<1> HIDE DEF Ops
<1>1. PICK d : EndsAt(t, d)
  BY DEF Ends
<1>2. PICK m \in Nat, n \in Nat : m = Len(s) /\ n = Len(t)
  OBVIOUS
<1>3. d \in 1..n /\ t[d].act = "draw" /\ t[d].n = 1 /\ (d = n \/ (d = n - 1 /\ t[n] = Say("tx")))
  BY <1>1, <1>2 DEF EndsAt
<1>4. Len(s \o t) = m + n /\ (s \o t)[m + d] = t[d] /\ (s \o t)[m + n] = t[n]
  BY <1>2, <1>3, Concatenation
<1>5. m + d \in 1..(m + n) /\ (m + d = m + n \/ (m + d = (m + n) - 1 /\ t[n] = Say("tx")))
  BY <1>3
<1>6. EndsAt(s \o t, m + d)
  BY <1>3, <1>4, <1>5 DEF EndsAt
<1> QED
  BY <1>6 DEF Ends

LEMMA EndsFlat ==
  ASSUME NEW s \in Seq(Seq(Ops)), Len(s) # 0, Ends(s[Len(s)])
  PROVE  Ends(FlattenSeq(s))
<1> HIDE DEF Ops
<1>1. PICK n \in Nat : n = Len(s) /\ n # 0
  OBVIOUS
<1>2. PICK d \in [0..n -> Seq(Ops)] :
         d[0] = <<>> /\ (\A i \in 1..n : d[i] = d[i - 1] \o s[i]) /\ FlattenSeq(s) = d[n]
  BY <1>1, FlattenSums
<1>3. d[n] = d[n - 1] \o s[n] /\ d[n - 1] \in Seq(Ops) /\ s[n] \in Seq(Ops)
  <2>1. n \in 1..n /\ n - 1 \in 0..n
    BY <1>1
  <2>2. s[n] \in Seq(Ops)
    BY <1>1, <2>1
  <2>3. d[n - 1] \in Seq(Ops) /\ d[n] = d[n - 1] \o s[n]
    BY <1>2, <2>1
  <2> QED
    BY <2>2, <2>3
<1> QED
  BY <1>1, <1>2, <1>3, EndsJoin

LEMMA FoldsEnd ==
  ASSUME NEW c \in Configs, NEW l \in 0..Steps(c)
  PROVE  ProverFolds(c, l) = <<>> \/ Ends(ProverFolds(c, l))
<1> DEFINE grind(j) == IF FoldBits(c, l, j - 1) > 0 THEN <<Grind("fold_nonces", FoldBits(c, l, j - 1))>> ELSE <<>>
           part(j) == grind(j) \o <<Draw("fold", 1), Say("tx")>>
           s == [j \in 1..Lanes(c, l) |-> part(j)]
<1>1. PICK n \in Nat : n = Lanes(c, l)
  BY ConfigTypes
<1>2. ASSUME NEW j \in 1..n
      PROVE  grind(j) \in Seq(Ops) /\ <<Draw("fold", 1), Say("tx")>> \in Seq(Ops) /\ part(j) \in Seq(Ops) /\ Ends(part(j))
  <2>1. PICK g, d, t : g = Grind("fold_nonces", FoldBits(c, l, j - 1)) /\ d = Draw("fold", 1) /\ t = Say("tx")
    OBVIOUS
  <2>2. j - 1 \in Nat
    BY <1>1
  <2>3. g \in Ops /\ d \in Ops /\ t \in Ops
    BY <2>1, <2>2, OpsAre
  <2>4. d.act = "draw" /\ d.n = 1
    BY <2>1 DEF Draw
  <2> HIDE DEF Ops
  <2>5. <<d, t>> \in Seq(Ops) /\ <<g>> \in Seq(Ops) /\ Len(<<d, t>>) = 2 /\ <<d, t>>[1] = d /\ <<d, t>>[2] = t
    BY <2>3, Extends
  <2>6. EndsAt(<<d, t>>, 1)
    BY <2>1, <2>4, <2>5 DEF EndsAt
  <2>7. PICK x : x = <<d, t>>
    OBVIOUS
  <2>8. grind(j) \in Seq(Ops)
    BY <2>1, <2>5
  <2>9. part(j) = grind(j) \o x
    BY <2>1, <2>7
  <2>10. x \in Seq(Ops) /\ Ends(x)
    BY <2>5, <2>6, <2>7 DEF Ends
  <2>11. \A y \in Seq(Ops) : y \o x \in Seq(Ops) /\ Ends(y \o x)
    BY <2>10, EndsJoin, Concatenation
  <2> HIDE DEF part, grind
  <2> QED
    BY <2>1, <2>5, <2>8, <2>9, <2>11
<1>3. s \in Seq(Seq(Ops)) /\ Len(s) = n /\ \A j \in 1..n : s[j] = part(j)
  <2>1. \A j \in 1..n : part(j) \in Seq(Ops)
    BY <1>2
  <2> HIDE DEF Ops, part
  <2> QED
    BY <1>1, <2>1
<1>4. ProverFolds(c, l) = FlattenSeq(s)
  BY DEF ProverFolds
<1>5. CASE n = 0
  <2>1. s = <<>>
    <3> HIDE DEF s, Ops
    <3> QED
      BY <1>3, <1>5, SMTT(30)
  <2>2. FlattenSeq(s) = <<>>
    BY <2>1 DEF FlattenSeq
  <2> QED
    BY <1>4, <2>2
<1>6. CASE n # 0
  <2>1. n \in 1..n
    BY <1>6
  <2> HIDE DEF s, part, Ops
  <2>2. Ends(s[Len(s)]) /\ Len(s) # 0
    BY <1>2, <1>3, <1>6, <2>1
  <2> QED
    BY <1>3, <1>4, <2>2, EndsFlat
<1> QED
  BY <1>5, <1>6

LEMMA CommonEnds ==
  ASSUME NEW c \in Configs
  PROVE  Ends(Common(c)) /\ <<Say("tx")>> \o Blocks(c) \in Seq(Ops) /\ ProverFolds(c, Steps(c)) \in Seq(Ops)
         /\ Blocks(c) \in Seq(Ops) /\ <<Say("tx")>> \in Seq(Ops)
<1>1. PICK n \in Nat \ {0} : n = Steps(c)
  BY StepsType
<1> DEFINE s == [i \in 1..n |-> Block(c, i)]
<1>2. ASSUME NEW i \in 1..n PROVE Block(c, i) \in Seq(Ops) /\ Ends(Block(c, i))
  <2>1. i - 1 \in 0..n /\ i \in 0..n /\ i - 1 \in 0..(n - 1)
    BY <1>1
  <2>2. OodUpTo(c, i - 1) \in Nat /\ OodUpTo(c, i) \in Nat /\ i - 1 \in Nat /\ (i - 1) + 1 = i /\ i \in Nat
    BY <1>1, <2>1, OodAddsUp
  <2> DEFINE x == [f \in Counted |-> IF f = "ood" THEN OodUpTo(c, i - 1)
                                     ELSE IF f \in {"roots", "nonces", "opens", "queries"} THEN i - 1 ELSE 0]
             y == [f \in Counted |-> IF f = "ood" THEN OodUpTo(c, i) ELSE IF f = "roots" THEN i
                                     ELSE IF f \in {"nonces", "opens", "queries"} THEN i - 1 ELSE 0]
  <2>3. AtLevel(c, x, i - 1)
    BY <2>2 DEF AtLevel, Counts, Counted, Told, NonceLists
  <2>4. y \in Counts /\ y["queries"] = i - 1 /\ y["opens"] = i - 1 /\ y["nonces"] = i - 1
        /\ y["roots"] = (i - 1) + 1 /\ y["ood"] = OodUpTo(c, (i - 1) + 1)
    BY <2>2 DEF Counts, Counted, Told, NonceLists
  <2> HIDE DEF x, y
  <2>5. Block(c, i) \in Seq(Ops)
    BY <1>1, <2>3, BlockLedger, LedgerTyped
  <2>6. ProverQueries(c, i - 1) \in Seq(Ops)
    BY <1>1, <2>1, <2>4, QueriesLedger, LedgerTyped
  <2>7. ProverFolds(c, i - 1) \in Seq(Ops) /\ ProverOod(c, i) \in Seq(Ops)
    <3>1. x \in Counts
      BY <2>3 DEF AtLevel
    <3> QED
      BY <1>1, <2>1, <3>1, FoldsLedger, OodLedger, LedgerTyped
  <2>8. <<Say("roots")>> \in Seq(Ops)
    BY <1>1, <2>1, OpsAre
  <2>9. Ends(ProverQueries(c, i - 1))
    <3>1. PICK q : q = ProverQueries(c, i - 1)
      OBVIOUS
    <3>2. Len(q) = 6 /\ q[6] = Draw("beta", 1)
      BY <3>1 DEF ProverQueries
    <3>3. EndsAt(q, 6)
      BY <3>2 DEF EndsAt, Draw
    <3> QED
      BY <3>1, <3>3 DEF Ends
  <2> HIDE DEF Ops
  <2>10. ProverFolds(c, i - 1) \o <<Say("roots")>> \o ProverOod(c, i) \in Seq(Ops)
    BY <2>7, <2>8, Concatenation
  <2> QED
    BY <2>5, <2>6, <2>9, <2>10, EndsJoin DEF Block
<1>3. s \in Seq(Seq(Ops)) /\ Len(s) = n /\ \A j \in 1..n : s[j] = Block(c, j)
  <2>1. \A j \in 1..n : Block(c, j) \in Seq(Ops)
    BY <1>2
  <2> HIDE DEF Ops
  <2> QED
    BY <1>1, <2>1
<1>4. Blocks(c) = FlattenSeq(s)
  BY <1>1 DEF Blocks
<1>5. Ends(Blocks(c))
  <2>1. n \in 1..n
    BY <1>1
  <2> HIDE DEF s, Ops
  <2>2. Ends(s[Len(s)]) /\ Len(s) # 0
    BY <1>1, <1>2, <1>3, <2>1
  <2> QED
    BY <1>3, <1>4, <2>2, EndsFlat
<1>6. Blocks(c) \in Seq(Ops) /\ ProverFolds(c, Steps(c)) \in Seq(Ops) /\ <<Say("tx")>> \in Seq(Ops)
  <2> DEFINE x == [f \in Counted |-> 0]
  <2>1. AtLevel(c, x, 0) /\ x \in Counts
    BY OodAddsUp DEF AtLevel, Counts, Counted, Told, NonceLists
  <2> HIDE DEF x
  <2>2. 0 \in 0..Steps(c) /\ Steps(c) \in 0..Steps(c)
    BY StepsType
  <2> QED
    BY <2>1, <2>2, BlocksLedger, FoldsLedger, LedgerTyped, OpsAre, Extends
<1> HIDE DEF Ops
<1>7. <<Say("tx")>> \o Blocks(c) \in Seq(Ops) /\ Ends(<<Say("tx")>> \o Blocks(c))
  BY <1>5, <1>6, EndsJoin, Concatenation
<1>8. CASE ProverFolds(c, Steps(c)) = <<>>
  <2>1. \A x \in Seq(Ops) : x \o <<>> = x
    OBVIOUS
  <2>2. Common(c) = <<Say("tx")>> \o Blocks(c)
    BY <1>7, <1>8, <2>1 DEF Common
  <2> QED
    BY <1>6, <1>7, <2>2
<1>9. CASE Ends(ProverFolds(c, Steps(c)))
  BY <1>6, <1>7, <1>9, EndsJoin DEF Common
<1>10. Steps(c) \in 0..Steps(c)
  BY StepsType
<1> QED
  BY <1>6, <1>7, <1>8, <1>9, <1>10, FoldsEnd
-----------------------------------------------------------------------------
(* The two scripts, place by place.  Span operations are common to both; then the  *)
(* verifier counts, the folded message follows, and the last query phase.          *)
Span(c) == Len(Common(c))
LastDraw(c) == CHOOSE d : EndsAt(Common(c), d)
Taken(c) == CHOOSE K : Book(c, Common(c), Zero, K) /\ AtLevel(c, K[Span(c)], Steps(c))

LEMMA PlanIs ==
  ASSUME NEW c \in Configs
  PROVE  /\ Common(c) \in Seq(Ops) /\ Span(c) \in Nat \ {0}
         /\ Book(c, Common(c), Zero, Taken(c)) /\ AtLevel(c, Taken(c)[Span(c)], Steps(c))
         /\ EndsAt(Common(c), LastDraw(c))
<1>1. PICK r : AtLevel(c, r, Steps(c)) /\ Ledger(c, Common(c), Zero, r)
  BY CommonLedger
<1>2. Common(c) \in Seq(Ops)
  BY <1>1, LedgerTyped
<1>3. PICK K : Book(c, Common(c), Zero, K) /\ K[Len(Common(c))] = r
  BY <1>1 DEF Ledger
<1>4. Book(c, Common(c), Zero, K) /\ AtLevel(c, K[Span(c)], Steps(c))
  BY <1>1, <1>3 DEF Span
<1>5. Book(c, Common(c), Zero, Taken(c)) /\ AtLevel(c, Taken(c)[Span(c)], Steps(c))
  BY <1>4 DEF Taken
<1>6. PICK d : EndsAt(Common(c), d)
  BY CommonEnds DEF Ends
<1>7. EndsAt(Common(c), LastDraw(c))
  BY <1>6 DEF LastDraw
<1>8. Len(Common(c)) \in Nat
  <2> HIDE DEF Ops
  <2> QED
    BY <1>2
<1>9. Len(Common(c)) # 0
  BY <1>6, <1>8 DEF EndsAt
<1> QED
  BY <1>2, <1>5, <1>7, <1>8, <1>9 DEF Span

LEMMA SameFolds ==
  ASSUME NEW c, NEW l
  PROVE  VerifierFolds(c, l) = ProverFolds(c, l) /\ VerifierOod(c, l) = ProverOod(c, l)
         /\ VerifierQueries(c, l) = ProverQueries(c, l)
<1>1. VerifierFolds(c, l) = ProverFolds(c, l)
  BY DEF VerifierFolds, ProverFolds
<1>2. VerifierOod(c, l) = ProverOod(c, l)
  BY DEF VerifierOod, ProverOod
<1>3. VerifierQueries(c, l) = ProverQueries(c, l)
  BY DEF VerifierQueries, ProverQueries
<1> QED
  BY <1>1, <1>2, <1>3

YrPart(c) == [v \in 1..YrLen(c) |-> Say("yr")]
LastProof(c) == Grind("nonces", c.grind[Steps(c) + 1])

LEMMA YrTyped ==
  ASSUME NEW c \in Configs
  PROVE  YrPart(c) \in Seq(Ops) /\ Len(YrPart(c)) = YrLen(c) /\ \A v \in 1..YrLen(c) : YrPart(c)[v] = Say("yr")
<1>1. Say("yr") \in Ops
  <2>1. 0 \in 0..Steps(c)
    BY StepsType
  <2> QED
    BY <2>1, OpsAre
<1>2. PICK n \in Nat : n = YrLen(c)
  BY ConfigTypes
<1> HIDE DEF Ops
<1>3. PICK y : y = Say("yr")
  OBVIOUS
<1>4. [v \in 1..n |-> y] \in Seq(Ops) /\ Len([v \in 1..n |-> y]) = n /\ \A v \in 1..n : [w \in 1..n |-> y][v] = y
  BY <1>1, <1>3
<1>5. YrPart(c) = [v \in 1..n |-> y]
  BY <1>2, <1>3 DEF YrPart
<1> QED
  BY <1>2, <1>3, <1>4, <1>5

(* Where the elements of two sequences put end to end are. *)
Put(s, t, a, b, u) == /\ Len(u) = a + b
                      /\ \A i \in 1..a : u[i] = s[i]
                      /\ \A i \in (a + 1)..(a + b) : u[i] = t[i - a]

LEMMA Joined ==
  ASSUME NEW S, NEW s \in Seq(S), NEW t \in Seq(S), NEW a, NEW b, a = Len(s), b = Len(t)
  PROVE  s \o t \in Seq(S) /\ Put(s, t, a, b, s \o t)
<1>1. s \o t \in Seq(S)
  OBVIOUS
<1>2. Put(s, t, Len(s), Len(t), s \o t)
  BY DEF Put
<1> QED
  BY <1>1, <1>2

(* What that gives for the prover's script P: the common part C, the folded message *)
(* Y, and T; and for the verifier's V, which checks Q and a first thing as well.    *)
ProverHas(P, C, Y, T, h, f, n) ==
    /\ Len(P) = h + f + n + 3 /\ Len(C) = h + f
    /\ \A i \in 1..(h + f) : P[i] = C[i]
    /\ \A i \in 1..n : P[h + f + i] = Y[i]
    /\ \A i \in 1..3 : P[h + f + n + i] = T[i]
VerifierHas(V, C, S, Q, Y, T, b, f, n) ==
    /\ Len(V) = 1 + b + f + n + 8 /\ Len(C) = 1 + b + f
    /\ V[1] = S[1] /\ V[1 + b + f + 2] = Q[1]
    /\ \A i \in 1..(1 + b + f) : V[i + 1] = C[i]
    /\ \A i \in 1..n : V[1 + b + f + 2 + i] = Y[i]
    /\ \A i \in 1..6 : V[1 + b + f + 2 + n + i] = T[i]

LEMMA ProverParts ==
  ASSUME NEW H, NEW F, NEW Y, NEW T, NEW A, NEW B, NEW P, NEW C, NEW h \in Nat, NEW f \in Nat, NEW n \in Nat,
         NEW x, NEW y, x = f + n, y = f + n + 3,
         Put(F, Y, f, n, A), Put(A, T, x, 3, B), Put(H, B, h, y, P), Put(H, F, h, f, C)
  PROVE  ProverHas(P, C, Y, T, h, f, n)
<1>1. Len(P) = h + f + n + 3 /\ Len(C) = h + f
  <2>1. Len(P) = h + (f + n + 3) /\ Len(C) = h + f
    BY DEF Put
  <2> QED
    BY <2>1
<1>2. ASSUME NEW i \in 1..(h + f)
      PROVE  P[i] = C[i]
  <2>1. CASE i <= h
    BY <2>1 DEF Put
  <2>2. CASE ~(i <= h)
    <3>1. i \in (h + 1)..(h + f) /\ i \in (h + 1)..(h + (f + n + 3)) /\ i - h \in 1..f /\ i - h \in 1..(f + n)
      BY <2>2
    <3> QED
      BY <3>1 DEF Put
  <2> QED
    BY <2>1, <2>2
<1>3. ASSUME NEW i \in 1..n
      PROVE  P[h + f + i] = Y[i]
  <2>1. /\ h + f + i \in (h + 1)..(h + (f + n + 3)) /\ (h + f + i) - h = f + i /\ f + i \in 1..(f + n)
        /\ f + i \in (f + 1)..(f + n) /\ (f + i) - f = i
    OBVIOUS
  <2> QED
    BY <2>1 DEF Put
<1>4. ASSUME NEW i \in 1..3
      PROVE  P[h + f + n + i] = T[i]
  <2>1. /\ h + f + n + i \in (h + 1)..(h + (f + n + 3)) /\ (h + f + n + i) - h = f + n + i
        /\ f + n + i \in (f + n + 1)..(f + n + 3) /\ (f + n + i) - (f + n) = i
    OBVIOUS
  <2>2. P[h + f + n + i] = B[f + n + i]
    BY <2>1 DEF Put
  <2>3. B[f + n + i] = T[i]
    BY <2>1 DEF Put
  <2> QED
    BY <2>2, <2>3
<1> QED
  BY <1>1, <1>2, <1>3, <1>4 DEF ProverHas

(* The verifier's script has one check in front and one before the folded message. *)
LEMMA VerifierParts ==
  ASSUME NEW S, NEW X, NEW B, NEW Z, NEW G, NEW F, NEW Q, NEW A, NEW Y, NEW D, NEW T, NEW E, NEW V, NEW C,
         NEW b \in Nat, NEW f \in Nat, NEW n \in Nat,
         NEW x, NEW y, NEW z, NEW w, NEW e, x = 1 + b, y = f + 1, z = f + 1 + n, w = 2 + b, e = f + n + 7,
         Put(S, B, 2, b, G), Put(X, B, 1, b, Z), S[2] = X[1], Put(Z, F, x, f, C),
         Put(F, Q, f, 1, A), Put(A, Y, y, n, D), Put(D, T, z, 6, E), Put(G, E, w, e, V)
  PROVE  VerifierHas(V, C, S, Q, Y, T, b, f, n)
<1>1. Len(V) = 1 + b + f + n + 8 /\ Len(C) = 1 + b + f
  <2>1. Len(V) = (2 + b) + (f + n + 7) /\ Len(C) = (1 + b) + f
    BY DEF Put
  <2> QED
    BY <2>1
<1>2. V[1] = S[1]
  <2>1. 1 \in 1..2 /\ 1 \in 1..(2 + b)
    OBVIOUS
  <2> QED
    BY <2>1 DEF Put
<1>3. \A j \in 1..(f + n + 7) : V[2 + b + j] = E[j]
  <2> TAKE j \in 1..(f + n + 7)
  <2>1. 2 + b + j \in (2 + b + 1)..((2 + b) + (f + n + 7)) /\ (2 + b + j) - (2 + b) = j
    OBVIOUS
  <2> QED
    BY <2>1 DEF Put
<1>4. \A j \in 1..(f + 1 + n) : E[j] = D[j]
  BY DEF Put
<1>5. \A j \in 1..(f + 1) : D[j] = A[j]
  BY DEF Put
<1>6. A[f + 1] = Q[1]
  <2>1. f + 1 \in (f + 1)..(f + 1) /\ (f + 1) - f = 1
    OBVIOUS
  <2> QED
    BY <2>1 DEF Put
<1>7. V[1 + b + f + 2] = Q[1]
  <2>1. /\ 1 + b + f + 2 = 2 + b + (f + 1) /\ f + 1 \in 1..(f + n + 7) /\ f + 1 \in 1..(f + 1 + n)
        /\ f + 1 \in 1..(f + 1)
    OBVIOUS
  <2> QED
    BY <1>3, <1>4, <1>5, <1>6, <2>1
<1>8. ASSUME NEW i \in 1..(1 + b + f)
      PROVE  V[i + 1] = C[i]
  <2>1. CASE i = 1
    <3>1. 2 \in 1..(2 + b) /\ 2 \in 1..2 /\ i + 1 = 2 /\ 1 \in 1..(1 + b) /\ 1 \in 1..1
      BY <2>1
    <3>2. V[2] = S[2]
      BY <3>1, ZenonT(40) DEF Put
    <3>3. C[1] = X[1]
      BY <3>1 DEF Put
    <3> QED
      BY <2>1, <3>1, <3>2, <3>3
  <2>2. CASE i > 1 /\ i <= 1 + b
    <3>1. /\ i + 1 \in 1..(2 + b) /\ i + 1 \in (2 + 1)..(2 + b) /\ (i + 1) - 2 = i - 1
          /\ i \in 1..(1 + b) /\ i \in (1 + 1)..(1 + b)
      BY <2>2
    <3>2. V[i + 1] = B[i - 1]
      BY <3>1, ZenonT(40) DEF Put
    <3>3. C[i] = B[i - 1]
      BY <3>1 DEF Put
    <3> QED
      BY <3>2, <3>3
  <2>3. CASE i > 1 + b
    <3>1. PICK j \in 1..f : j = i - (1 + b)
      BY <2>3
    <3>2. /\ j \in 1..(f + n + 7) /\ j \in 1..(f + 1 + n) /\ j \in 1..(f + 1) /\ i + 1 = 2 + b + j
          /\ i \in (1 + b + 1)..((1 + b) + f)
      BY <2>3, <3>1
    <3>3. V[i + 1] = A[j]
      BY <1>3, <1>4, <1>5, <3>2
    <3>4. A[j] = F[j]
      BY DEF Put
    <3>5. C[i] = F[j]
      BY <3>1, <3>2 DEF Put
    <3> QED
      BY <3>3, <3>4, <3>5
  <2> QED
    BY <2>1, <2>2, <2>3
<1>9. ASSUME NEW i \in 1..n
      PROVE  V[1 + b + f + 2 + i] = Y[i]
  <2>1. /\ 1 + b + f + 2 + i = 2 + b + (f + 1 + i) /\ f + 1 + i \in 1..(f + n + 7) /\ f + 1 + i \in 1..(f + 1 + n)
        /\ f + 1 + i \in (f + 1 + 1)..((f + 1) + n) /\ (f + 1 + i) - (f + 1) = i
    OBVIOUS
  <2>2. V[1 + b + f + 2 + i] = D[f + 1 + i]
    BY <1>3, <1>4, <2>1
  <2>3. D[f + 1 + i] = Y[i]
    BY <2>1 DEF Put
  <2> QED
    BY <2>2, <2>3
<1>10. ASSUME NEW i \in 1..6
       PROVE  V[1 + b + f + 2 + n + i] = T[i]
  <2>1. /\ 1 + b + f + 2 + n + i = 2 + b + (f + 1 + n + i) /\ f + 1 + n + i \in 1..(f + n + 7)
        /\ f + 1 + n + i \in (f + 1 + n + 1)..((f + 1 + n) + 6) /\ (f + 1 + n + i) - (f + 1 + n) = i
    OBVIOUS
  <2>2. V[1 + b + f + 2 + n + i] = E[f + 1 + n + i]
    BY <1>3, <2>1
  <2>3. E[f + 1 + n + i] = T[i]
    BY <2>1 DEF Put
  <2> QED
    BY <2>2, <2>3
<1> QED
  BY <1>1, <1>2, <1>7, <1>8, <1>9, <1>10 DEF VerifierHas
LEMMA ProverPlaces ==
  ASSUME NEW c \in Configs, NEW m \in Nat, NEW n \in Nat, m = Span(c), n = YrLen(c)
  PROVE  /\ Len(ProverScript(c)) = m + n + 3
         /\ \A j \in 1..m : ProverScript(c)[j] = Common(c)[j]
         /\ \A j \in 1..n : ProverScript(c)[m + j] = Say("yr")
         /\ ProverScript(c)[m + n + 1] = LastProof(c) /\ ProverScript(c)[m + n + 2] = Queries(Steps(c))
         /\ ProverScript(c)[m + n + 3] = Open(Steps(c))
<1>1. PICK H, F, Y, T : /\ H = <<Say("tx")>> \o Blocks(c) /\ F = ProverFolds(c, Steps(c)) /\ Y = YrPart(c)
                        /\ T = <<LastProof(c), Queries(Steps(c)), Open(Steps(c))>>
  OBVIOUS
<1>2. H \in Seq(Ops) /\ F \in Seq(Ops)
  BY <1>1, CommonEnds
<1>3. Y \in Seq(Ops) /\ Len(Y) = n /\ \A v \in 1..n : Y[v] = Say("yr")
  BY <1>1, YrTyped
<1>4. PICK a, b, e : a = LastProof(c) /\ b = Queries(Steps(c)) /\ e = Open(Steps(c))
  OBVIOUS
<1>5. a \in Ops /\ b \in Ops /\ e \in Ops
  <2>1. Steps(c) \in 0..Steps(c)
    BY StepsType
  <2> QED
    BY <1>4, <2>1, OpsAre DEF LastProof
<1> HIDE DEF Ops
<1>6. T \in Seq(Ops) /\ Len(T) = 3 /\ T[1] = a /\ T[2] = b /\ T[3] = e
  BY <1>1, <1>4, <1>5, Extends
<1>7. PICK h \in Nat, f \in Nat : h = Len(H) /\ f = Len(F)
  BY <1>2
<1>8. PICK A, B, P, C : A = F \o Y /\ B = A \o T /\ P = H \o B /\ C = H \o F
  OBVIOUS
<1>9. A \in Seq(Ops) /\ Put(F, Y, f, n, A)
  BY <1>2, <1>3, <1>7, <1>8, Joined
<1>10. Len(A) = f + n
  BY <1>9 DEF Put
<1>11. B \in Seq(Ops) /\ Put(A, T, f + n, 3, B)
  BY <1>6, <1>8, <1>9, <1>10, Joined
<1>12. Len(B) = f + n + 3
  BY <1>11 DEF Put
<1>13. Put(H, B, h, f + n + 3, P)
  BY <1>2, <1>7, <1>8, <1>11, <1>12, Joined
<1>14. Put(H, F, h, f, C)
  BY <1>2, <1>7, <1>8, Joined
<1> HIDE DEF Put
<1>15. /\ Len(P) = h + f + n + 3 /\ Len(C) = h + f
       /\ \A i \in 1..(h + f) : P[i] = C[i]
       /\ \A i \in 1..n : P[h + f + i] = Y[i]
       /\ \A i \in 1..3 : P[h + f + n + i] = T[i]
  <2>1. h \in Nat /\ f \in Nat /\ n \in Nat
    BY <1>7
  <2>2. PICK x, y : x = f + n /\ y = f + n + 3
    OBVIOUS
  <2>3. Put(F, Y, f, n, A) /\ Put(A, T, x, 3, B) /\ Put(H, B, h, y, P) /\ Put(H, F, h, f, C)
    BY <1>9, <1>11, <1>13, <1>14, <2>2
  <2>4. ProverHas(P, C, Y, T, h, f, n)
    BY <2>1, <2>2, <2>3, ProverParts
  <2> QED
    BY <2>4 DEF ProverHas
<1>16. ProverScript(c) = P
  <2>1. ProverLast(c) = B
    BY <1>1, <1>8 DEF ProverLast, YrPart, LastProof
  <2> QED
    BY <1>1, <1>8, <2>1 DEF ProverScript, Blocks, Block
<1>17. C = Common(c)
  BY <1>1, <1>8 DEF Common
<1>18. m = h + f
  BY <1>15, <1>17 DEF Span
<1>19. 1 \in 1..3 /\ 2 \in 1..3 /\ 3 \in 1..3
  OBVIOUS
<1>20. P[m + n + 1] = a /\ P[m + n + 2] = b /\ P[m + n + 3] = e
  BY <1>6, <1>15, <1>18, <1>19
<1>21. Len(P) = m + n + 3 /\ (\A j \in 1..m : P[j] = C[j]) /\ \A j \in 1..n : P[m + j] = Say("yr")
  BY <1>3, <1>15, <1>18
<1> QED
  BY <1>4, <1>16, <1>17, <1>20, <1>21

LEMMA VerifierPlaces ==
  ASSUME NEW c \in Configs, NEW m \in Nat, NEW n \in Nat, m = Span(c), n = YrLen(c)
  PROVE  /\ Len(VerifierScript(c)) = m + n + 8
         /\ VerifierScript(c)[1] = Check("shape") /\ VerifierScript(c)[m + 2] = Check("counts")
         /\ \A j \in 1..m : VerifierScript(c)[j + 1] = Common(c)[j]
         /\ \A j \in 1..n : VerifierScript(c)[m + 2 + j] = Say("yr")
         /\ VerifierScript(c)[m + n + 3] = LastProof(c) /\ VerifierScript(c)[m + n + 4] = Queries(Steps(c))
         /\ VerifierScript(c)[m + n + 5] = Draw("alpha", CeilLog2(c.queries[Steps(c) + 1]))
         /\ VerifierScript(c)[m + n + 6] = Open(Steps(c)) /\ VerifierScript(c)[m + n + 7] = Draw("beta", 1)
         /\ VerifierScript(c)[m + n + 8] = Check("residual")
<1>1. PICK S, X, B, F, Q, Y, T :
         /\ S = <<Check("shape"), Say("tx")>> /\ X = <<Say("tx")>> /\ B = Blocks(c) /\ F = ProverFolds(c, Steps(c))
         /\ Q = <<Check("counts")>> /\ Y = YrPart(c)
         /\ T = <<LastProof(c), Queries(Steps(c)), Draw("alpha", CeilLog2(c.queries[Steps(c) + 1])), Open(Steps(c)),
                  Draw("beta", 1), Check("residual")>>
  OBVIOUS
<1>2. B \in Seq(Ops) /\ F \in Seq(Ops)
  BY <1>1, CommonEnds
<1>3. Y \in Seq(Ops) /\ Len(Y) = n /\ \A v \in 1..n : Y[v] = Say("yr")
  BY <1>1, YrTyped
<1>4. PICK t1, t2, t3, t4, t5, t6, s1, s2, q1 :
         /\ t1 = LastProof(c) /\ t2 = Queries(Steps(c)) /\ t3 = Draw("alpha", CeilLog2(c.queries[Steps(c) + 1]))
         /\ t4 = Open(Steps(c)) /\ t5 = Draw("beta", 1) /\ t6 = Check("residual")
         /\ s1 = Check("shape") /\ s2 = Say("tx") /\ q1 = Check("counts")
  OBVIOUS
<1>5. /\ t1 \in Ops /\ t2 \in Ops /\ t3 \in Ops /\ t4 \in Ops /\ t5 \in Ops /\ t6 \in Ops
      /\ s1 \in Ops /\ s2 \in Ops /\ q1 \in Ops
  <2>1. Steps(c) \in 0..Steps(c)
    BY StepsType
  <2> QED
    BY <1>4, <2>1, OpsAre DEF LastProof
<1> HIDE DEF Ops
<1>6. /\ T \in Seq(Ops) /\ Len(T) = 6
      /\ T[1] = t1 /\ T[2] = t2 /\ T[3] = t3 /\ T[4] = t4 /\ T[5] = t5 /\ T[6] = t6
  BY <1>1, <1>4, <1>5, Extends
<1>7. /\ S \in Seq(Ops) /\ Len(S) = 2 /\ S[1] = s1 /\ S[2] = s2 /\ Q \in Seq(Ops) /\ Len(Q) = 1 /\ Q[1] = q1
      /\ X \in Seq(Ops) /\ Len(X) = 1 /\ X[1] = s2
  BY <1>1, <1>4, <1>5, Extends
<1>8. PICK b \in Nat, f \in Nat : b = Len(B) /\ f = Len(F)
  BY <1>2
<1>9. PICK A, D, E, G, V, Z, C : A = F \o Q /\ D = A \o Y /\ E = D \o T /\ G = S \o B /\ V = G \o E /\ Z = X \o B /\ C = Z \o F
  OBVIOUS
<1>10. A \in Seq(Ops) /\ Put(F, Q, f, 1, A)
  BY <1>2, <1>7, <1>8, <1>9, Joined
<1>11. Len(A) = f + 1
  BY <1>10 DEF Put
<1>12. D \in Seq(Ops) /\ Put(A, Y, f + 1, n, D)
  BY <1>3, <1>9, <1>10, <1>11, Joined
<1>13. Len(D) = f + 1 + n
  BY <1>12 DEF Put
<1>14. E \in Seq(Ops) /\ Put(D, T, f + 1 + n, 6, E)
  BY <1>6, <1>9, <1>12, <1>13, Joined
<1>15. Len(E) = f + n + 7
  <2>1. Len(E) = f + 1 + n + 6
    BY <1>14 DEF Put
  <2> QED
    BY <1>8, <2>1
<1>16. G \in Seq(Ops) /\ Put(S, B, 2, b, G) /\ Z \in Seq(Ops) /\ Put(X, B, 1, b, Z)
  BY <1>2, <1>7, <1>8, <1>9, Joined
<1>17. Len(G) = 2 + b /\ Len(Z) = 1 + b
  BY <1>16 DEF Put
<1>18. Put(G, E, 2 + b, f + n + 7, V)
  BY <1>9, <1>14, <1>15, <1>16, <1>17, Joined
<1>19. Put(Z, F, 1 + b, f, C)
  BY <1>2, <1>8, <1>9, <1>16, <1>17, Joined
<1>20. S[2] = X[1]
  BY <1>7
<1> HIDE DEF Put
<1>21. /\ Len(V) = 1 + b + f + n + 8 /\ Len(C) = 1 + b + f
       /\ V[1] = S[1] /\ V[1 + b + f + 2] = Q[1]
       /\ \A i \in 1..(1 + b + f) : V[i + 1] = C[i]
       /\ \A i \in 1..n : V[1 + b + f + 2 + i] = Y[i]
       /\ \A i \in 1..6 : V[1 + b + f + 2 + n + i] = T[i]
  <2>1. b \in Nat /\ f \in Nat /\ n \in Nat
    BY <1>8
  <2>2. PICK x, y, z, w, e : x = 1 + b /\ y = f + 1 /\ z = f + 1 + n /\ w = 2 + b /\ e = f + n + 7
    OBVIOUS
  <2>3. /\ Put(S, B, 2, b, G) /\ Put(X, B, 1, b, Z) /\ S[2] = X[1] /\ Put(Z, F, x, f, C)
        /\ Put(F, Q, f, 1, A) /\ Put(A, Y, y, n, D) /\ Put(D, T, z, 6, E) /\ Put(G, E, w, e, V)
    BY <1>10, <1>12, <1>14, <1>16, <1>18, <1>19, <1>20, <2>2
  <2>4. VerifierHas(V, C, S, Q, Y, T, b, f, n)
    BY <2>1, <2>2, <2>3, VerifierParts, SMTT(30)
  <2> QED
    BY <2>4 DEF VerifierHas
<1>22. VerifierScript(c) = V
  <2>1. VerifierLast(c) = E
    BY <1>1, <1>9, SameFolds DEF VerifierLast, YrPart, LastProof
  <2>2. [i \in 1..Steps(c) |-> VerifierFolds(c, i - 1) \o <<Say("roots")>> \o VerifierOod(c, i) \o VerifierQueries(c, i - 1)]
        = [i \in 1..Steps(c) |-> Block(c, i)]
    BY SameFolds DEF Block
  <2> QED
    BY <1>1, <1>9, <2>1, <2>2 DEF VerifierScript, Blocks
<1>23. C = Common(c)
  BY <1>1, <1>9 DEF Common
<1>24. m = 1 + b + f
  BY <1>21, <1>23 DEF Span
<1>25. /\ Len(V) = m + n + 8 /\ V[1] = s1 /\ V[m + 2] = q1 /\ (\A j \in 1..m : V[j + 1] = C[j])
       /\ \A j \in 1..n : V[m + 2 + j] = Say("yr")
  BY <1>3, <1>7, <1>21, <1>24
<1>26. /\ V[m + n + 3] = t1 /\ V[m + n + 4] = t2 /\ V[m + n + 5] = t3 /\ V[m + n + 6] = t4 /\ V[m + n + 7] = t5
       /\ V[m + n + 8] = t6
  <2>1. /\ m + 2 + n + 1 = m + n + 3 /\ m + 2 + n + 2 = m + n + 4 /\ m + 2 + n + 3 = m + n + 5
        /\ m + 2 + n + 4 = m + n + 6 /\ m + 2 + n + 5 = m + n + 7 /\ m + 2 + n + 6 = m + n + 8
    OBVIOUS
  <2>2. 1 \in 1..6 /\ 2 \in 1..6 /\ 3 \in 1..6 /\ 4 \in 1..6 /\ 5 \in 1..6 /\ 6 \in 1..6
    OBVIOUS
  <2>3. \A i \in 1..6 : V[m + 2 + n + i] = T[i]
    BY <1>21, <1>24
  <2> QED
    BY <1>6, <2>1, <2>2, <2>3, ZenonT(40)
<1> QED
  BY <1>4, <1>22, <1>23, <1>25, <1>26

-----------------------------------------------------------------------------
(* What the proofs below use of the scripts.  A plan w has the length m of the      *)
(* common part, the length n of the folded message, the place d of the last draw   *)
(* before it, and how much of each list either side is through with at each place. *)
Late(c, y, x, q, o) ==
    [Taken(c)[Span(c)] EXCEPT !["yr"] = y, !["nonces"] = Steps(c) + x, !["queries"] = Steps(c) + q,
                              !["opens"] = Steps(c) + o]
ProverBook(c, m, n) ==
    [j \in 1..(m + n + 4) |->
        IF j <= m + 1 THEN Taken(c)[j - 1]
        ELSE IF j <= m + n + 1 THEN Late(c, j - (m + 1), 0, 0, 0)
        ELSE IF j = m + n + 2 THEN Late(c, n, 1, 0, 0)
        ELSE IF j = m + n + 3 THEN Late(c, n, 1, 1, 0) ELSE Late(c, n, 1, 1, 1)]
VerifierBook(c, m, n) ==
    [p \in 1..(m + n + 9) |->
        IF p = 1 THEN Zero
        ELSE IF p <= m + 2 THEN Taken(c)[p - 2]
        ELSE IF p <= m + n + 3 THEN Late(c, p - (m + 3), 0, 0, 0)
        ELSE IF p = m + n + 4 THEN Late(c, n, 1, 0, 0)
        ELSE IF p <= m + n + 6 THEN Late(c, n, 1, 1, 0) ELSE Late(c, n, 1, 1, 1)]

PlanOf(c) == [m |-> Span(c), n |-> YrLen(c), d |-> LastDraw(c),
              P |-> ProverBook(c, Span(c), YrLen(c)), V |-> VerifierBook(c, Span(c), YrLen(c))]

(* What either side meets at a place: k counts before it and r after it. *)
Meets(op, k, r) ==
    /\ k \in Counts /\ r = Tally(k, op)
    /\ op.act = "say" => op.of \in {"tx", "ood", "roots", "yr"}
    /\ op.act = "grind" => op.of \in NonceLists
    /\ op.act = "open" => op.of = "opens" /\ op.n = k["opens"] /\ k["queries"] = k["opens"] + 1
    /\ op.act = "queries" => k["queries"] = k["opens"]
    /\ op.act = "draw" /\ op.of = "alpha" => k["queries"] = k["opens"] + 1

(* Where the positions of a level are drawn, what binds them has been counted. *)
Bound(c, w, op, k) ==
    op.act = "queries" =>
        /\ op.n \in 0..Steps(c) /\ k["nonces"] = op.n + 1
        /\ op.n < Steps(c) => k["roots"] = op.n + 1 /\ k["ood"] = OodUpTo(c, op.n + 1)
        /\ op.n = Steps(c) => k["yr"] = w.n

ProverMeets(w, j, op) ==
    /\ op.act \in {"say", "grind", "draw", "queries", "open"}
    /\ Meets(op, w.P[j], w.P[j + 1])
    /\ op.act = "say" /\ op.of = "yr" <=> j \in (w.m + 1)..(w.m + w.n)
    /\ op.act = "draw" => j <= w.d
    /\ j = w.d => op.act = "draw" /\ op.n = 1

VerifierMeets(c, w, p, op) ==
    /\ op.act \in {"say", "grind", "draw", "queries", "open", "check"}
    /\ Meets(op, w.V[p], w.V[p + 1]) /\ Bound(c, w, op, w.V[p])
    /\ op.act = "say" /\ op.of = "yr" <=> p \in (w.m + 3)..(w.m + w.n + 2)
    /\ op.act = "draw" => p <= w.d + 1 \/ p >= w.m + w.n + 5
    /\ op.act = "draw" /\ op.of = "fold" => p <= w.m + 1
    /\ p = w.d + 1 => op.act = "draw" /\ op.n = 1
    /\ op.act = "check" => op = Check("shape") \/ op = Check("counts") \/ op = Check("residual")
    /\ op = Check("shape") <=> p = 1
    /\ op = Check("counts") <=> p = w.m + 2
    /\ op = Check("residual") <=> p = w.m + w.n + 8

(* What is counted when the last draw comes (k), before the folded message (e), and *)
(* at the end (r).                                                                  *)
Ending(c, w, k, e, r) ==
    /\ k \in Counts /\ e \in Counts /\ r \in Counts
    /\ \A f \in {"ood", "roots", "fold_nonces", "nonces"} : e[f] = k[f]
    /\ k["yr"] = 0 /\ e["yr"] = 0 /\ (e["tx"] = k["tx"] \/ e["tx"] = k["tx"] + 1)
    /\ \A f \in {"ood", "roots", "fold_nonces", "tx"} : r[f] = e[f]
    /\ r["yr"] = w.n /\ e["roots"] = Steps(c) /\ e["nonces"] = Steps(c)
    /\ r["nonces"] = Steps(c) + 1 /\ r["opens"] = Steps(c) + 1

Sizes(c, w) ==
    /\ w.m \in Nat \ {0} /\ w.n \in Nat \ {0} /\ w.d \in 1..w.m /\ w.n = YrLen(c) /\ Steps(c) \in Nat \ {0}
    /\ Len(ProverScripts[c]) = w.m + w.n + 3 /\ Len(VerifierScripts[c]) = w.m + w.n + 8
    /\ w.P[1] = Zero /\ w.V[1] = Zero
    /\ w.P[w.d] = w.V[w.d + 1] /\ w.P[w.m + w.n + 4] = w.V[w.m + w.n + 8]
    /\ Ending(c, w, w.V[w.d + 1], w.V[w.m + 2], w.P[w.m + w.n + 4])

Itinerary(c, w) ==
    /\ Sizes(c, w)
    /\ \A j \in 1..(w.m + w.n + 3) : ProverMeets(w, j, ProverScripts[c][j])
    /\ \A p \in 1..(w.m + w.n + 8) : VerifierMeets(c, w, p, VerifierScripts[c][p])

(* The counts of the last part. *)
LEMMA LateCounts ==
  ASSUME NEW c \in Configs
  PROVE  /\ Late(c, 0, 0, 0, 0) = Taken(c)[Span(c)]
         /\ \A y, x, q, o \in Nat : Late(c, y, x, q, o) \in Counts
         /\ \A y \in Nat : Tally(Late(c, y, 0, 0, 0), Say("yr")) = Late(c, y + 1, 0, 0, 0)
         /\ \A y \in Nat : Tally(Late(c, y, 0, 0, 0), LastProof(c)) = Late(c, y, 1, 0, 0)
         /\ \A y \in Nat : \A l : Tally(Late(c, y, 1, 0, 0), Queries(l)) = Late(c, y, 1, 1, 0)
         /\ \A y \in Nat : \A l : Tally(Late(c, y, 1, 1, 0), Open(l)) = Late(c, y, 1, 1, 1)
         /\ \A y, x, q, o \in Nat :
              /\ Late(c, y, x, q, o)["yr"] = y /\ Late(c, y, x, q, o)["nonces"] = Steps(c) + x
              /\ Late(c, y, x, q, o)["queries"] = Steps(c) + q /\ Late(c, y, x, q, o)["opens"] = Steps(c) + o
              /\ \A f \in {"tx", "ood", "roots", "fold_nonces"} : Late(c, y, x, q, o)[f] = Taken(c)[Span(c)][f]
<1>1. PICK k : k = Taken(c)[Span(c)]
  OBVIOUS
<1>2. k \in Counts /\ k["nonces"] = Steps(c) /\ k["opens"] = Steps(c) /\ k["queries"] = Steps(c) /\ k["yr"] = 0
  BY <1>1, PlanIs DEF AtLevel
<1>3. PICK s \in Nat : s = Steps(c)
  BY StepsType
<1>4. {"yr", "nonces", "queries", "opens", "tx", "ood", "roots", "fold_nonces"} = Counted
  BY DEF Counted, Told, NonceLists
<1>5. \A y, x, q, o : Late(c, y, x, q, o)
        = [k EXCEPT !["yr"] = y, !["nonces"] = s + x, !["queries"] = s + q, !["opens"] = s + o]
  BY <1>1, <1>3 DEF Late
<1>6. \A y, x, q, o \in Nat : Late(c, y, x, q, o) \in Counts
  BY <1>2, <1>3, <1>4, <1>5 DEF Counts
<1>7. \A y, x, q, o \in Nat :
         /\ Late(c, y, x, q, o)["yr"] = y /\ Late(c, y, x, q, o)["nonces"] = s + x
         /\ Late(c, y, x, q, o)["queries"] = s + q /\ Late(c, y, x, q, o)["opens"] = s + o
         /\ \A f \in {"tx", "ood", "roots", "fold_nonces"} : Late(c, y, x, q, o)[f] = k[f]
  BY <1>2, <1>3, <1>4, <1>5 DEF Counts
<1>8. ASSUME NEW a \in Counts, NEW b \in Counts, \A f \in Counted : a[f] = b[f]
      PROVE  a = b
  BY <1>8 DEF Counts
<1>9. ASSUME NEW a \in Counts, NEW op
      PROVE  Tally(a, op) \in Counts /\ \A f \in Counted : Tally(a, op)[f] = IF f = Takes(op) THEN a[f] + 1 ELSE a[f]
  BY <1>9, TallyTyped DEF Tally
<1>10. Late(c, 0, 0, 0, 0) = k
  <2>1. \A f \in Counted : Late(c, 0, 0, 0, 0)[f] = k[f]
    BY <1>2, <1>3, <1>4, <1>7
  <2> QED
    BY <1>2, <1>6, <1>8, <2>1
<1>11. ASSUME NEW y \in Nat
       PROVE  Tally(Late(c, y, 0, 0, 0), Say("yr")) = Late(c, y + 1, 0, 0, 0)
  <2>1. Takes(Say("yr")) = "yr"
    BY DEF Takes, Say
  <2>2. Late(c, y, 0, 0, 0) \in Counts /\ Late(c, y + 1, 0, 0, 0) \in Counts
    BY <1>6
  <2>3. Late(c, y, 0, 0, 0)["yr"] = y /\ Late(c, y, 0, 0, 0)["nonces"] = s + 0 /\ Late(c, y, 0, 0, 0)["queries"] = s + 0 /\ Late(c, y, 0, 0, 0)["opens"] = s + 0
        /\ \A f \in {"tx", "ood", "roots", "fold_nonces"} : Late(c, y, 0, 0, 0)[f] = k[f]
    BY <1>1, <1>2, <1>3, <1>4 DEF Counts, Late
  <2>4. y + 1 \in Nat /\ Late(c, y + 1, 0, 0, 0)["yr"] = y + 1 /\ Late(c, y + 1, 0, 0, 0)["nonces"] = s + 0 /\ Late(c, y + 1, 0, 0, 0)["queries"] = s + 0 /\ Late(c, y + 1, 0, 0, 0)["opens"] = s + 0
        /\ \A f \in {"tx", "ood", "roots", "fold_nonces"} : Late(c, y + 1, 0, 0, 0)[f] = k[f]
    BY <1>1, <1>2, <1>3, <1>4 DEF Counts, Late
  <2>5. \A f \in Counted : Tally(Late(c, y, 0, 0, 0), Say("yr"))[f] = IF f = Takes(Say("yr")) THEN Late(c, y, 0, 0, 0)[f] + 1 ELSE Late(c, y, 0, 0, 0)[f]
    BY <1>9, <2>2
  <2>6. \A f \in Counted : Tally(Late(c, y, 0, 0, 0), Say("yr"))[f] = Late(c, y + 1, 0, 0, 0)[f]
    BY <1>3, <1>4, <2>1, <2>3, <2>4, <2>5
  <2> QED
    BY <1>8, <1>9, <2>2, <2>6
<1>12. ASSUME NEW y \in Nat
       PROVE  Tally(Late(c, y, 0, 0, 0), LastProof(c)) = Late(c, y, 1, 0, 0)
  <2>1. Takes(LastProof(c)) = "nonces"
    BY DEF Takes, LastProof, Grind
  <2>2. Late(c, y, 0, 0, 0) \in Counts /\ Late(c, y, 1, 0, 0) \in Counts
    BY <1>6
  <2>3. Late(c, y, 0, 0, 0)["yr"] = y /\ Late(c, y, 0, 0, 0)["nonces"] = s + 0 /\ Late(c, y, 0, 0, 0)["queries"] = s + 0 /\ Late(c, y, 0, 0, 0)["opens"] = s + 0
        /\ \A f \in {"tx", "ood", "roots", "fold_nonces"} : Late(c, y, 0, 0, 0)[f] = k[f]
    BY <1>1, <1>2, <1>3, <1>4 DEF Counts, Late
  <2>4. y + 1 \in Nat /\ Late(c, y, 1, 0, 0)["yr"] = y /\ Late(c, y, 1, 0, 0)["nonces"] = s + 1 /\ Late(c, y, 1, 0, 0)["queries"] = s + 0 /\ Late(c, y, 1, 0, 0)["opens"] = s + 0
        /\ \A f \in {"tx", "ood", "roots", "fold_nonces"} : Late(c, y, 1, 0, 0)[f] = k[f]
    BY <1>1, <1>2, <1>3, <1>4 DEF Counts, Late
  <2>5. \A f \in Counted : Tally(Late(c, y, 0, 0, 0), LastProof(c))[f] = IF f = Takes(LastProof(c)) THEN Late(c, y, 0, 0, 0)[f] + 1 ELSE Late(c, y, 0, 0, 0)[f]
    BY <1>9, <2>2
  <2>6. \A f \in Counted : Tally(Late(c, y, 0, 0, 0), LastProof(c))[f] = Late(c, y, 1, 0, 0)[f]
    BY <1>3, <1>4, <2>1, <2>3, <2>4, <2>5
  <2> QED
    BY <1>8, <1>9, <2>2, <2>6
<1>13. ASSUME NEW y \in Nat, NEW l
       PROVE  Tally(Late(c, y, 1, 0, 0), Queries(l)) = Late(c, y, 1, 1, 0)
  <2>1. Takes(Queries(l)) = "queries"
    BY DEF Takes, Queries
  <2>2. Late(c, y, 1, 0, 0) \in Counts /\ Late(c, y, 1, 1, 0) \in Counts
    BY <1>6
  <2>3. Late(c, y, 1, 0, 0)["yr"] = y /\ Late(c, y, 1, 0, 0)["nonces"] = s + 1 /\ Late(c, y, 1, 0, 0)["queries"] = s + 0 /\ Late(c, y, 1, 0, 0)["opens"] = s + 0
        /\ \A f \in {"tx", "ood", "roots", "fold_nonces"} : Late(c, y, 1, 0, 0)[f] = k[f]
    BY <1>1, <1>2, <1>3, <1>4 DEF Counts, Late
  <2>4. y + 1 \in Nat /\ Late(c, y, 1, 1, 0)["yr"] = y /\ Late(c, y, 1, 1, 0)["nonces"] = s + 1 /\ Late(c, y, 1, 1, 0)["queries"] = s + 1 /\ Late(c, y, 1, 1, 0)["opens"] = s + 0
        /\ \A f \in {"tx", "ood", "roots", "fold_nonces"} : Late(c, y, 1, 1, 0)[f] = k[f]
    BY <1>1, <1>2, <1>3, <1>4 DEF Counts, Late
  <2>5. \A f \in Counted : Tally(Late(c, y, 1, 0, 0), Queries(l))[f] = IF f = Takes(Queries(l)) THEN Late(c, y, 1, 0, 0)[f] + 1 ELSE Late(c, y, 1, 0, 0)[f]
    BY <1>9, <2>2
  <2>6. \A f \in Counted : Tally(Late(c, y, 1, 0, 0), Queries(l))[f] = Late(c, y, 1, 1, 0)[f]
    BY <1>3, <1>4, <2>1, <2>3, <2>4, <2>5
  <2> QED
    BY <1>8, <1>9, <2>2, <2>6
<1>14. ASSUME NEW y \in Nat, NEW l
       PROVE  Tally(Late(c, y, 1, 1, 0), Open(l)) = Late(c, y, 1, 1, 1)
  <2>1. Takes(Open(l)) = "opens"
    BY DEF Takes, Open
  <2>2. Late(c, y, 1, 1, 0) \in Counts /\ Late(c, y, 1, 1, 1) \in Counts
    BY <1>6
  <2>3. Late(c, y, 1, 1, 0)["yr"] = y /\ Late(c, y, 1, 1, 0)["nonces"] = s + 1 /\ Late(c, y, 1, 1, 0)["queries"] = s + 1 /\ Late(c, y, 1, 1, 0)["opens"] = s + 0
        /\ \A f \in {"tx", "ood", "roots", "fold_nonces"} : Late(c, y, 1, 1, 0)[f] = k[f]
    BY <1>1, <1>2, <1>3, <1>4 DEF Counts, Late
  <2>4. y + 1 \in Nat /\ Late(c, y, 1, 1, 1)["yr"] = y /\ Late(c, y, 1, 1, 1)["nonces"] = s + 1 /\ Late(c, y, 1, 1, 1)["queries"] = s + 1 /\ Late(c, y, 1, 1, 1)["opens"] = s + 1
        /\ \A f \in {"tx", "ood", "roots", "fold_nonces"} : Late(c, y, 1, 1, 1)[f] = k[f]
    BY <1>1, <1>2, <1>3, <1>4 DEF Counts, Late
  <2>5. \A f \in Counted : Tally(Late(c, y, 1, 1, 0), Open(l))[f] = IF f = Takes(Open(l)) THEN Late(c, y, 1, 1, 0)[f] + 1 ELSE Late(c, y, 1, 1, 0)[f]
    BY <1>9, <2>2
  <2>6. \A f \in Counted : Tally(Late(c, y, 1, 1, 0), Open(l))[f] = Late(c, y, 1, 1, 1)[f]
    BY <1>3, <1>4, <2>1, <2>3, <2>4, <2>5
  <2> QED
    BY <1>8, <1>9, <2>2, <2>6
<1>15. \A y, x, q, o \in Nat :
         /\ Late(c, y, x, q, o)["yr"] = y /\ Late(c, y, x, q, o)["nonces"] = Steps(c) + x
         /\ Late(c, y, x, q, o)["queries"] = Steps(c) + q /\ Late(c, y, x, q, o)["opens"] = Steps(c) + o
         /\ \A f \in {"tx", "ood", "roots", "fold_nonces"} : Late(c, y, x, q, o)[f] = Taken(c)[Span(c)][f]
  <2>1. SUFFICES ASSUME NEW y \in Nat, NEW x \in Nat, NEW q \in Nat, NEW o \in Nat
                 PROVE  /\ Late(c, y, x, q, o)["yr"] = y /\ Late(c, y, x, q, o)["nonces"] = Steps(c) + x
                        /\ Late(c, y, x, q, o)["queries"] = Steps(c) + q /\ Late(c, y, x, q, o)["opens"] = Steps(c) + o
                        /\ \A f \in {"tx", "ood", "roots", "fold_nonces"} : Late(c, y, x, q, o)[f] = Taken(c)[Span(c)][f]
    OBVIOUS
  <2>2. Late(c, y, x, q, o)["yr"] = y /\ Late(c, y, x, q, o)["nonces"] = s + x
    BY <1>7
  <2>3. Late(c, y, x, q, o)["queries"] = s + q /\ Late(c, y, x, q, o)["opens"] = s + o
    BY <1>7
  <2>4. \A f \in {"tx", "ood", "roots", "fold_nonces"} : Late(c, y, x, q, o)[f] = k[f]
    BY <1>1, <1>2, <1>3, <1>4 DEF Counts, Late
  <2>5. s = Steps(c) /\ k = Taken(c)[Span(c)]
    BY <1>1, <1>3
  <2> QED
    BY <2>2, <2>3, <2>4, <2>5, Zenon
<1> QED
  BY <1>1, <1>6, <1>10, <1>11, <1>12, <1>13, <1>14, <1>15, Zenon

LEMMA BookPlaces ==
  ASSUME NEW c \in Configs, NEW m \in Nat, NEW n \in Nat, m = Span(c)
  PROVE  /\ \A j \in 1..(m + 1) : ProverBook(c, m, n)[j] = Taken(c)[j - 1]
         /\ \A y \in 0..n : ProverBook(c, m, n)[m + 1 + y] = Late(c, y, 0, 0, 0)
         /\ ProverBook(c, m, n)[m + n + 2] = Late(c, n, 1, 0, 0)
         /\ ProverBook(c, m, n)[m + n + 3] = Late(c, n, 1, 1, 0)
         /\ ProverBook(c, m, n)[m + n + 4] = Late(c, n, 1, 1, 1)
<1>1. PICK P : P = ProverBook(c, m, n)
  OBVIOUS
<1>2. PICK K, t : K = Taken(c) /\ t = [y \in 0..n |-> Late(c, y, 0, 0, 0)]
  OBVIOUS
<1>3. t[0] = K[m]
  <2>1. 0 \in 0..n
    OBVIOUS
  <2> QED
    BY <1>2, <2>1, LateCounts
<1>4. P = [j \in 1..(m + n + 4) |->
             IF j <= m + 1 THEN K[j - 1]
             ELSE IF j <= m + n + 1 THEN t[j - (m + 1)]
             ELSE IF j = m + n + 2 THEN Late(c, n, 1, 0, 0)
             ELSE IF j = m + n + 3 THEN Late(c, n, 1, 1, 0) ELSE Late(c, n, 1, 1, 1)]
  <2>1. ASSUME NEW j \in 1..(m + n + 4), ~(j <= m + 1), j <= m + n + 1
        PROVE  Late(c, j - (m + 1), 0, 0, 0) = t[j - (m + 1)]
    <3>1. j - (m + 1) \in 0..n
      BY <2>1
    <3> QED
      BY <1>2, <3>1
  <2> QED
    BY <1>1, <1>2, <2>1 DEF ProverBook
<1>5. \A j \in 1..(m + 1) : P[j] = K[j - 1]
  BY <1>4
<1>6. \A y \in 0..n : P[m + 1 + y] = t[y]
  <2> TAKE y \in 0..n
  <2>1. CASE y = 0
    <3>1. m + 1 + y = m + 1 /\ m + 1 \in 1..(m + 1) /\ (m + 1) - 1 = m
      BY <2>1
    <3> QED
      BY <1>3, <1>5, <2>1, <3>1
  <2>2. CASE y # 0
    <3>1. /\ m + 1 + y \in 1..(m + n + 4) /\ ~(m + 1 + y <= m + 1) /\ m + 1 + y <= m + n + 1
          /\ (m + 1 + y) - (m + 1) = y
      BY <2>2
    <3> QED
      BY <1>4, <3>1
  <2> QED
    BY <2>1, <2>2
<1>7. /\ P[m + n + 2] = Late(c, n, 1, 0, 0) /\ P[m + n + 3] = Late(c, n, 1, 1, 0)
      /\ P[m + n + 4] = Late(c, n, 1, 1, 1)
  BY <1>4, SMTT(30)
<1>8. \A y \in 0..n : t[y] = Late(c, y, 0, 0, 0)
  BY <1>2
<1> QED
  BY <1>1, <1>2, <1>5, <1>6, <1>7, <1>8

LEMMA VerifierBookPlaces ==
  ASSUME NEW c \in Configs, NEW m \in Nat, NEW n \in Nat, m = Span(c)
  PROVE  /\ VerifierBook(c, m, n)[1] = Zero
         /\ \A j \in 1..(m + 1) : VerifierBook(c, m, n)[j + 1] = Taken(c)[j - 1]
         /\ \A y \in 0..n : VerifierBook(c, m, n)[m + 3 + y] = Late(c, y, 0, 0, 0)
         /\ VerifierBook(c, m, n)[m + n + 4] = Late(c, n, 1, 0, 0)
         /\ VerifierBook(c, m, n)[m + n + 5] = Late(c, n, 1, 1, 0)
         /\ VerifierBook(c, m, n)[m + n + 6] = Late(c, n, 1, 1, 0)
         /\ \A p \in (m + n + 7)..(m + n + 9) : VerifierBook(c, m, n)[p] = Late(c, n, 1, 1, 1)
<1>1. PICK V : V = VerifierBook(c, m, n)
  OBVIOUS
<1>2. PICK K, t : K = Taken(c) /\ t = [y \in 0..n |-> Late(c, y, 0, 0, 0)]
  OBVIOUS
<1>4. V = [p \in 1..(m + n + 9) |->
             IF p = 1 THEN Zero
             ELSE IF p <= m + 2 THEN K[p - 2]
             ELSE IF p <= m + n + 3 THEN t[p - (m + 3)]
             ELSE IF p = m + n + 4 THEN Late(c, n, 1, 0, 0)
             ELSE IF p <= m + n + 6 THEN Late(c, n, 1, 1, 0) ELSE Late(c, n, 1, 1, 1)]
  <2>1. ASSUME NEW p \in 1..(m + n + 9), ~(p <= m + 2), p <= m + n + 3
        PROVE  Late(c, p - (m + 3), 0, 0, 0) = t[p - (m + 3)]
    <3>1. p - (m + 3) \in 0..n
      BY <2>1
    <3> QED
      BY <1>2, <3>1
  <2> QED
    BY <1>1, <1>2, <2>1 DEF VerifierBook
<1>5. V[1] = Zero
  BY <1>4
<1>6. \A j \in 1..(m + 1) : V[j + 1] = K[j - 1]
  <2> TAKE j \in 1..(m + 1)
  <2>1. j + 1 \in 1..(m + n + 9) /\ j + 1 # 1 /\ j + 1 <= m + 2 /\ (j + 1) - 2 = j - 1
    OBVIOUS
  <2> QED
    BY <1>4, <2>1
<1>7. \A y \in 0..n : V[m + 3 + y] = t[y]
  <2> TAKE y \in 0..n
  <2>1. /\ m + 3 + y \in 1..(m + n + 9) /\ m + 3 + y # 1 /\ ~(m + 3 + y <= m + 2) /\ m + 3 + y <= m + n + 3
        /\ (m + 3 + y) - (m + 3) = y
    OBVIOUS
  <2> QED
    BY <1>4, <2>1
<1>8. /\ V[m + n + 4] = Late(c, n, 1, 0, 0) /\ V[m + n + 5] = Late(c, n, 1, 1, 0)
      /\ V[m + n + 6] = Late(c, n, 1, 1, 0) /\ \A p \in (m + n + 7)..(m + n + 9) : V[p] = Late(c, n, 1, 1, 1)
  <2>1. PICK x, y, z : x = Late(c, n, 1, 0, 0) /\ y = Late(c, n, 1, 1, 0) /\ z = Late(c, n, 1, 1, 1)
    OBVIOUS
  <2>2. V[m + n + 4] = x
    BY <1>4, <2>1
  <2>3. V[m + n + 5] = y
    BY <1>4, <2>1, SMTT(30)
  <2>4. V[m + n + 6] = y
    BY <1>4, <2>1, SMTT(30)
  <2>5. \A p \in (m + n + 7)..(m + n + 9) : V[p] = z
    BY <1>4, <2>1, SMTT(30)
  <2> QED
    BY <2>1, <2>2, <2>3, <2>4, <2>5
<1>9. \A y \in 0..n : t[y] = Late(c, y, 0, 0, 0)
  BY <1>2
<1> QED
  BY <1>1, <1>2, <1>5, <1>6, <1>7, <1>8, <1>9

LEMMA TakesNone ==
  ASSUME NEW k \in Counts, NEW op, op.act \in {"draw", "check"}
  PROVE  Tally(k, op) = k
<1>1. Takes(op) = "none"
  BY DEF Takes
<1>2. "none" \notin Counted
  BY DEF Counted, Told, NonceLists
<1>3. Tally(k, op) = [f \in Counted |-> k[f]]
  BY <1>1, <1>2 DEF Tally
<1> QED
  BY <1>3 DEF Counts

(* What the common part is made of. *)
LEMMA CommonMeets ==
  ASSUME NEW c \in Configs, NEW j \in 1..Span(c), NEW op, op = Common(c)[j]
  PROVE  /\ Meets(op, Taken(c)[j - 1], Taken(c)[j])
         /\ op.act \in {"say", "grind", "draw", "queries", "open"}
         /\ op.act = "say" => op.of # "yr"
         /\ op.act = "draw" => j <= LastDraw(c)
         /\ j = LastDraw(c) => op.act = "draw" /\ op.n = 1
         /\ \A w : Bound(c, w, op, Taken(c)[j - 1])
<1>1. PICK m, K, d, s : m = Span(c) /\ K = Taken(c) /\ d = LastDraw(c) /\ s = Common(c)
  OBVIOUS
<1>2. m \in Nat \ {0} /\ Book(c, s, Zero, K) /\ EndsAt(s, d) /\ m = Len(s)
  BY <1>1, PlanIs DEF Span
<1>3. j \in 1..m /\ op = s[j]
  BY <1>1
<1>4. Placed(c, op, K[j - 1]) /\ K[j] = Tally(K[j - 1], op)
  BY <1>2, <1>3 DEF Book
<1>5. K[j - 1] \in Counts
  <2>1. K \in [0..m -> Counts] /\ j - 1 \in 0..m
    BY <1>2, <1>3 DEF Book
  <2> QED
    BY <2>1
<1>6. Meets(op, K[j - 1], K[j])
  BY <1>4, <1>5 DEF Meets, Placed
<1>7. \A w : Bound(c, w, op, K[j - 1])
  BY <1>4, StepsType DEF Bound, Placed
<1>8. op.act \in {"say", "grind", "draw", "queries", "open"} /\ (op.act = "say" => op.of # "yr")
  BY <1>4 DEF Placed
<1>9. (op.act = "draw" => j <= d) /\ (j = d => op.act = "draw" /\ op.n = 1)
  <2>1. d \in 1..m /\ s[d].act = "draw" /\ s[d].n = 1 /\ (d = m \/ (d = m - 1 /\ s[m] = Say("tx")))
    BY <1>2 DEF EndsAt
  <2>2. Say("tx").act # "draw"
    BY DEF Say
  <2>3. j > d => d = m - 1 /\ j = m
    BY <1>2, <1>3, <2>1
  <2>4. j > d => op.act # "draw"
    BY <1>3, <2>1, <2>2, <2>3
  <2> QED
    BY <1>2, <1>3, <2>1, <2>4
<1> QED
  BY <1>1, <1>6, <1>7, <1>8, <1>9

(* The last part, operation by operation. *)
LEMMA LateMeets ==
  ASSUME NEW c \in Configs
  PROVE  /\ \A y \in Nat : Meets(Say("yr"), Late(c, y, 0, 0, 0), Late(c, y + 1, 0, 0, 0))
         /\ \A y \in Nat : Meets(LastProof(c), Late(c, y, 0, 0, 0), Late(c, y, 1, 0, 0))
         /\ \A y \in Nat : Meets(Queries(Steps(c)), Late(c, y, 1, 0, 0), Late(c, y, 1, 1, 0))
         /\ \A y \in Nat : Meets(Open(Steps(c)), Late(c, y, 1, 1, 0), Late(c, y, 1, 1, 1))
         /\ \A y \in Nat : \A b : Meets(Draw("alpha", b), Late(c, y, 1, 1, 0), Late(c, y, 1, 1, 0))
         /\ \A y \in Nat : Meets(Draw("beta", 1), Late(c, y, 1, 1, 1), Late(c, y, 1, 1, 1))
         /\ \A what, k : k \in Counts => Meets(Check(what), k, k)
<1>1. PICK s \in Nat : s = Steps(c)
  BY StepsType
<1>2. ASSUME NEW y \in Nat
      PROVE  /\ Late(c, y, 0, 0, 0) \in Counts /\ Late(c, y, 1, 0, 0) \in Counts /\ Late(c, y, 1, 1, 0) \in Counts
             /\ Late(c, y, 1, 1, 1) \in Counts
  <2>1. 0 \in Nat /\ 1 \in Nat
    OBVIOUS
  <2> QED
    BY <2>1, LateCounts
<1>3. ASSUME NEW y \in Nat
      PROVE  /\ Late(c, y, 1, 0, 0)["queries"] = s /\ Late(c, y, 1, 0, 0)["opens"] = s
             /\ Late(c, y, 1, 1, 0)["queries"] = s + 1 /\ Late(c, y, 1, 1, 0)["opens"] = s
  <2>1. Taken(c)[Span(c)] \in Counts
    BY PlanIs DEF AtLevel
  <2>2. {"yr", "nonces", "queries", "opens"} \subseteq Counted
    BY DEF Counted, Told, NonceLists
  <2> QED
    BY <1>1, <2>1, <2>2 DEF Late, Counts
<1>4. ASSUME NEW y \in Nat
      PROVE  Meets(Say("yr"), Late(c, y, 0, 0, 0), Late(c, y + 1, 0, 0, 0))
  <2>1. Late(c, y + 1, 0, 0, 0) = Tally(Late(c, y, 0, 0, 0), Say("yr"))
    BY LateCounts
  <2> QED
    BY <1>2, <2>1 DEF Meets, Say
<1>5. ASSUME NEW y \in Nat
      PROVE  Meets(LastProof(c), Late(c, y, 0, 0, 0), Late(c, y, 1, 0, 0))
  <2>1. Late(c, y, 1, 0, 0) = Tally(Late(c, y, 0, 0, 0), LastProof(c))
    BY LateCounts
  <2> QED
    BY <1>2, <2>1 DEF Meets, LastProof, Grind, NonceLists
<1>6. ASSUME NEW y \in Nat
      PROVE  Meets(Queries(Steps(c)), Late(c, y, 1, 0, 0), Late(c, y, 1, 1, 0))
  <2>1. Late(c, y, 1, 1, 0) = Tally(Late(c, y, 1, 0, 0), Queries(Steps(c)))
    BY LateCounts
  <2> QED
    BY <1>2, <1>3, <2>1 DEF Meets, Queries
<1>7. ASSUME NEW y \in Nat
      PROVE  Meets(Open(Steps(c)), Late(c, y, 1, 1, 0), Late(c, y, 1, 1, 1))
  <2>1. Late(c, y, 1, 1, 1) = Tally(Late(c, y, 1, 1, 0), Open(Steps(c)))
    BY LateCounts
  <2> QED
    BY <1>1, <1>2, <1>3, <2>1 DEF Meets, Open
<1>8. ASSUME NEW y \in Nat, NEW b
      PROVE  Meets(Draw("alpha", b), Late(c, y, 1, 1, 0), Late(c, y, 1, 1, 0))
  <2>1. Draw("alpha", b).act = "draw"
    BY DEF Draw
  <2>2. Late(c, y, 1, 1, 0) = Tally(Late(c, y, 1, 1, 0), Draw("alpha", b))
    BY <1>2, <2>1, TakesNone
  <2> QED
    BY <1>2, <1>3, <2>1, <2>2 DEF Meets
<1>9. ASSUME NEW y \in Nat
      PROVE  Meets(Draw("beta", 1), Late(c, y, 1, 1, 1), Late(c, y, 1, 1, 1))
  <2>1. Draw("beta", 1).act = "draw" /\ Draw("beta", 1).of = "beta"
    BY DEF Draw
  <2>2. Late(c, y, 1, 1, 1) = Tally(Late(c, y, 1, 1, 1), Draw("beta", 1))
    BY <1>2, <2>1, TakesNone
  <2> QED
    BY <1>2, <2>1, <2>2 DEF Meets
<1>10. ASSUME NEW what, NEW k \in Counts
       PROVE  Meets(Check(what), k, k)
  <2>1. Check(what).act = "check"
    BY DEF Check
  <2>2. k = Tally(k, Check(what))
    BY <2>1, TakesNone
  <2> QED
    BY <2>1, <2>2 DEF Meets
<1> QED
  BY <1>4, <1>5, <1>6, <1>7, <1>8, <1>9, <1>10

LEMMA ProverPlan ==
  ASSUME NEW c \in Configs, NEW m \in Nat, NEW n \in Nat, m = Span(c), n = YrLen(c),
         NEW w, w = PlanOf(c), NEW j \in 1..(m + n + 3)
  PROVE  ProverMeets(w, j, ProverScripts[c][j])
<1>1. PICK op : op = ProverScript(c)[j]
  OBVIOUS
<1>2. PICK P, d : P = ProverBook(c, m, n) /\ d = LastDraw(c)
  OBVIOUS
<1>3. w.m = m /\ w.n = n /\ w.d = d /\ w.P = P
  BY <1>2 DEF PlanOf
<1>4. ProverScripts[c][j] = op
  BY <1>1 DEF ProverScripts
<1>5. d \in 1..m
  BY <1>2, PlanIs DEF EndsAt, Span
<1> SUFFICES /\ op.act \in {"say", "grind", "draw", "queries", "open"}
             /\ Meets(op, P[j], P[j + 1])
             /\ op.act = "say" /\ op.of = "yr" <=> j \in (m + 1)..(m + n)
             /\ op.act = "draw" => j <= d
             /\ j = d => op.act = "draw" /\ op.n = 1
  BY <1>3, <1>4 DEF ProverMeets
<1>6. CASE j \in 1..m
  <2>1. op = Common(c)[j]
    BY <1>1, <1>6, ProverPlaces
  <2>2. j \in 1..(m + 1) /\ j + 1 \in 1..(m + 1) /\ (j + 1) - 1 = j
    BY <1>6
  <2>3. P[j] = Taken(c)[j - 1] /\ P[j + 1] = Taken(c)[j]
    BY <1>2, <2>2, BookPlaces
  <2>4. j \notin (m + 1)..(m + n)
    BY <1>6
  <2>5. j \in 1..Span(c)
    BY <1>6
  <2> QED
    BY <1>2, <2>1, <2>3, <2>4, <2>5, CommonMeets
<1>7. CASE j \in (m + 1)..(m + n)
  <2>1. PICK y \in 0..n : j = m + 1 + y /\ y + 1 \in 0..n /\ y + 1 \in 1..n
    <3>1. j - (m + 1) \in 0..n /\ j = m + 1 + (j - (m + 1)) /\ (j - (m + 1)) + 1 \in 0..n /\ (j - (m + 1)) + 1 \in 1..n
      BY <1>7
    <3> QED
      BY <3>1
  <2>2. op = Say("yr")
    <3>1. PICK z \in 1..n : z = y + 1
      BY <2>1
    <3>2. ProverScript(c)[m + z] = Say("yr")
      BY ProverPlaces, ZenonT(40)
    <3>3. j = m + z
      BY <2>1, <3>1
    <3> QED
      BY <1>1, <3>2, <3>3
  <2>3. P[j] = Late(c, y, 0, 0, 0)
    BY <1>2, <2>1, BookPlaces, ZenonT(40)
  <2>4. P[j + 1] = Late(c, y + 1, 0, 0, 0)
    <3>1. PICK z \in 0..n : z = y + 1
      BY <2>1
    <3>2. P[m + 1 + z] = Late(c, z, 0, 0, 0)
      BY <1>2, BookPlaces, ZenonT(40)
    <3>3. j + 1 = m + 1 + z
      BY <2>1, <3>1
    <3> QED
      BY <3>1, <3>2, <3>3
  <2>5. Meets(op, P[j], P[j + 1])
    BY <2>1, <2>2, <2>3, <2>4, LateMeets
  <2>6. op.act = "say" /\ op.of = "yr"
    BY <2>2 DEF Say
  <2>7. j # d
    BY <1>5, <1>7
  <2> QED
    BY <1>7, <2>5, <2>6, <2>7
<1>8. CASE j = m + n + 1
  <2>1. op = LastProof(c)
    BY <1>1, <1>8, ProverPlaces
  <2>2. P[j] = Late(c, n, 0, 0, 0)
    <3>1. n \in 0..n /\ j = m + 1 + n
      BY <1>8
    <3> QED
      BY <1>2, <3>1, BookPlaces, ZenonT(40)
  <2>3. P[j + 1] = Late(c, n, 1, 0, 0)
    <3>1. j + 1 = m + n + 2
      BY <1>8
    <3>2. P[m + n + 2] = Late(c, n, 1, 0, 0)
      BY <1>2, BookPlaces
    <3> QED
      BY <3>1, <3>2
  <2>4. Meets(op, P[j], P[j + 1])
    BY <2>1, <2>2, <2>3, LateMeets
  <2>5. op.act = "grind"
    BY <2>1 DEF LastProof, Grind
  <2>6. j # d /\ j \notin (m + 1)..(m + n)
    BY <1>5, <1>8
  <2> QED
    BY <2>4, <2>5, <2>6
<1>9. CASE j = m + n + 2
  <2>1. op = Queries(Steps(c))
    BY <1>1, <1>9, ProverPlaces
  <2>2. P[j] = Late(c, n, 1, 0, 0)
    BY <1>2, <1>9, BookPlaces
  <2>3. P[j + 1] = Late(c, n, 1, 1, 0)
    <3>1. j + 1 = m + n + 3
      BY <1>9
    <3>2. P[m + n + 3] = Late(c, n, 1, 1, 0)
      BY <1>2, BookPlaces
    <3> QED
      BY <3>1, <3>2
  <2>4. Meets(op, P[j], P[j + 1])
    BY <2>1, <2>2, <2>3, LateMeets
  <2>5. op.act = "queries"
    BY <2>1 DEF Queries
  <2>6. j # d /\ j \notin (m + 1)..(m + n)
    BY <1>5, <1>9
  <2> QED
    BY <2>4, <2>5, <2>6
<1>10. CASE j = m + n + 3
  <2>1. op = Open(Steps(c))
    BY <1>1, <1>10, ProverPlaces, ZenonT(40)
  <2>2. P[j] = Late(c, n, 1, 1, 0)
    BY <1>2, <1>10, BookPlaces
  <2>3. P[j + 1] = Late(c, n, 1, 1, 1)
    <3>1. j + 1 = m + n + 4
      BY <1>10
    <3>2. P[m + n + 4] = Late(c, n, 1, 1, 1)
      BY <1>2, BookPlaces
    <3> QED
      BY <3>1, <3>2
  <2>4. Meets(op, P[j], P[j + 1])
    BY <2>1, <2>2, <2>3, LateMeets
  <2>5. op.act = "open"
    BY <2>1 DEF Open
  <2>6. j # d /\ j \notin (m + 1)..(m + n)
    BY <1>5, <1>10
  <2> QED
    BY <2>4, <2>5, <2>6
<1>11. j \in 1..m \/ j \in (m + 1)..(m + n) \/ j = m + n + 1 \/ j = m + n + 2 \/ j = m + n + 3
  OBVIOUS
<1> QED
  BY <1>6, <1>7, <1>8, <1>9, <1>10, <1>11

(* The operations of the last part are not each other. *)
LEMMA OpsApart ==
  ASSUME NEW c
  PROVE  /\ \A b : Draw("alpha", b).act = "draw" /\ Draw("alpha", b).of = "alpha"
         /\ Draw("beta", 1).act = "draw" /\ Draw("beta", 1).of = "beta"
         /\ Say("yr").act = "say" /\ Say("yr").of = "yr" /\ LastProof(c).act = "grind"
         /\ \A l : Queries(l).act = "queries" /\ Queries(l).n = l /\ Open(l).act = "open"
         /\ \A what : Check(what).act = "check" /\ Check(what).of = what
BY DEF Draw, Say, LastProof, Grind, Queries, Open, Check

LEMMA VerifierPlan ==
  ASSUME NEW c \in Configs, NEW m \in Nat, NEW n \in Nat, m = Span(c), n = YrLen(c),
         NEW w, w = PlanOf(c), NEW p \in 1..(m + n + 8)
  PROVE  VerifierMeets(c, w, p, VerifierScripts[c][p])
<1>1. PICK op : op = VerifierScript(c)[p]
  OBVIOUS
<1>2. PICK V, d : V = VerifierBook(c, m, n) /\ d = LastDraw(c)
  OBVIOUS
<1>3. w.m = m /\ w.n = n /\ w.d = d /\ w.V = V
  BY <1>2 DEF PlanOf
<1>4. VerifierScripts[c][p] = op
  BY <1>1 DEF VerifierScripts
<1>5. d \in 1..m
  BY <1>2, PlanIs DEF EndsAt, Span
<1> SUFFICES /\ op.act \in {"say", "grind", "draw", "queries", "open", "check"}
             /\ Meets(op, V[p], V[p + 1]) /\ Bound(c, w, op, V[p])
             /\ op.act = "say" /\ op.of = "yr" <=> p \in (m + 3)..(m + n + 2)
             /\ op.act = "draw" => p <= d + 1 \/ p >= m + n + 5
             /\ op.act = "draw" /\ op.of = "fold" => p <= m + 1
             /\ p = d + 1 => op.act = "draw" /\ op.n = 1
             /\ op.act = "check" => op = Check("shape") \/ op = Check("counts") \/ op = Check("residual")
             /\ op = Check("shape") <=> p = 1
             /\ op = Check("counts") <=> p = m + 2
             /\ op = Check("residual") <=> p = m + n + 8
  BY <1>3, <1>4 DEF VerifierMeets
<1>6. CASE p \in 2..(m + 1)
  <2>1. PICK j \in 1..m : p = j + 1
    <3>1. p - 1 \in 1..m /\ p = (p - 1) + 1
      BY <1>6
    <3> QED
      BY <3>1
  <2>2. op = Common(c)[j]
    BY <1>1, <2>1, VerifierPlaces
  <2>3. j \in 1..(m + 1) /\ j + 1 \in 1..(m + 1) /\ (j + 1) - 1 = j
    OBVIOUS
  <2>4. V[j + 1] = Taken(c)[j - 1]
    BY <1>2, <2>3, VerifierBookPlaces, ZenonT(40)
  <2>5. V[(j + 1) + 1] = Taken(c)[j]
    <3>1. PICK i \in 1..(m + 1) : i = j + 1
      BY <2>3
    <3>2. V[i + 1] = Taken(c)[i - 1]
      BY <1>2, VerifierBookPlaces
    <3> QED
      BY <2>3, <3>1, <3>2
  <2>6. j \in 1..Span(c)
    OBVIOUS
  <2>7. /\ Meets(op, V[p], V[p + 1]) /\ Bound(c, w, op, V[p])
        /\ op.act \in {"say", "grind", "draw", "queries", "open"}
        /\ op.act = "say" => op.of # "yr"
        /\ op.act = "draw" => j <= d
        /\ j = d => op.act = "draw" /\ op.n = 1
    BY <1>2, <2>1, <2>2, <2>4, <2>5, <2>6, CommonMeets
  <2>8. op # Check("shape") /\ op # Check("counts") /\ op # Check("residual") /\ op.act # "check"
    BY <2>7, OpsApart
  <2>9. p # 1 /\ p # m + 2 /\ p # m + n + 8 /\ p \notin (m + 3)..(m + n + 2) /\ p <= m + 1
    BY <1>6
  <2>10. (op.act = "draw" => p <= d + 1) /\ (p = d + 1 => j = d)
    BY <1>5, <2>1, <2>7
  <2> QED
    BY <2>7, <2>8, <2>9, <2>10
<1>7. CASE p = 1
  <2>1. op = Check("shape")
    BY <1>1, <1>7, VerifierPlaces
  <2>2. V[p] = Zero
    BY <1>2, <1>7, VerifierBookPlaces
  <2>3. V[p + 1] = Zero
    <3>1. PICK z \in 1..(m + 1) : z = 1
      OBVIOUS
    <3>2. V[z + 1] = Taken(c)[z - 1]
      BY <1>2, VerifierBookPlaces, ZenonT(40)
    <3>3. Taken(c)[0] = Zero
      BY PlanIs DEF Book
    <3>4. z - 1 = 0 /\ z = p
      BY <1>7, <3>1
    <3> QED
      BY <3>2, <3>3, <3>4
  <2>4. Zero \in Counts
    BY DEF Zero, Counts
  <2>5. Meets(op, V[p], V[p + 1])
    BY <2>1, <2>2, <2>3, <2>4, LateMeets
  <2>6. op.act = "check" /\ op # Check("counts") /\ op # Check("residual")
    BY <2>1, OpsApart
  <2>7. /\ p # d + 1 /\ p \notin (m + 3)..(m + n + 2)
        /\ p # m + 2 /\ p # m + n + 8
    BY <1>5, <1>7
  <2>8. Bound(c, w, op, V[p])
    BY <2>6 DEF Bound
  <2> QED
    BY <1>7, <2>1, <2>5, <2>6, <2>7, <2>8
<1>8. CASE p = m + 2
  <2>1. op = Check("counts")
    BY <1>1, <1>8, VerifierPlaces
  <2>2. V[p] = Late(c, 0, 0, 0, 0)
    <3>1. PICK z \in 1..(m + 1) : z = m + 1
      OBVIOUS
    <3>2. V[z + 1] = Taken(c)[z - 1]
      BY <1>2, VerifierBookPlaces
    <3>3. z + 1 = p /\ z - 1 = m
      BY <1>8, <3>1
    <3>4. Late(c, 0, 0, 0, 0) = Taken(c)[m]
      BY LateCounts
    <3> QED
      BY <3>2, <3>3, <3>4
  <2>3. V[p + 1] = Late(c, 0, 0, 0, 0)
    <3>1. PICK z \in 0..n : z = 0
      OBVIOUS
    <3>2. V[m + 3 + z] = Late(c, z, 0, 0, 0)
      BY <1>2, VerifierBookPlaces
    <3>3. m + 3 + z = p + 1
      BY <1>8, <3>1
    <3> QED
      BY <3>1, <3>2, <3>3
  <2>4. Late(c, 0, 0, 0, 0) \in Counts
    BY LateCounts, PlanIs DEF AtLevel
  <2>5. Meets(op, V[p], V[p + 1])
    BY <2>1, <2>2, <2>3, <2>4, LateMeets
  <2>6. op.act = "check" /\ op # Check("shape") /\ op # Check("residual")
    BY <2>1, OpsApart
  <2>7. /\ p # d + 1 /\ p \notin (m + 3)..(m + n + 2)
        /\ p # 1 /\ p # m + n + 8
    BY <1>5, <1>8
  <2>8. Bound(c, w, op, V[p])
    BY <2>6 DEF Bound
  <2> QED
    BY <1>8, <2>1, <2>5, <2>6, <2>7, <2>8
<1>9. CASE p \in (m + 3)..(m + n + 2)
  <2>1. PICK y \in 0..n : p = m + 3 + y /\ y + 1 \in 0..n /\ y + 1 \in 1..n
    <3>1. p - (m + 3) \in 0..n /\ p = m + 3 + (p - (m + 3)) /\ (p - (m + 3)) + 1 \in 0..n /\ (p - (m + 3)) + 1 \in 1..n
      BY <1>9
    <3> QED
      BY <3>1
  <2>2. op = Say("yr")
    <3>1. PICK z \in 1..n : z = y + 1
      BY <2>1
    <3>2. VerifierScript(c)[m + 2 + z] = Say("yr")
      BY VerifierPlaces
    <3>3. p = m + 2 + z
      BY <2>1, <3>1
    <3> QED
      BY <1>1, <3>2, <3>3
  <2>3. V[p] = Late(c, y, 0, 0, 0)
    <3>1. V[m + 3 + y] = Late(c, y, 0, 0, 0)
      BY <1>2, VerifierBookPlaces
    <3> QED
      BY <2>1, <3>1
  <2>4. V[p + 1] = Late(c, y + 1, 0, 0, 0)
    <3>1. PICK z \in 0..n : z = y + 1
      BY <2>1
    <3>2. V[m + 3 + z] = Late(c, z, 0, 0, 0)
      BY <1>2, VerifierBookPlaces, ZenonT(40)
    <3>3. p + 1 = m + 3 + z
      BY <2>1, <3>1
    <3> QED
      BY <3>1, <3>2, <3>3
  <2>5. Meets(op, V[p], V[p + 1])
    BY <2>1, <2>2, <2>3, <2>4, LateMeets
  <2>6. op.act = "say" /\ op.of = "yr" /\ op # Check("shape") /\ op # Check("counts") /\ op # Check("residual")
    BY <2>2, OpsApart
  <2>7. p # d + 1 /\ p # 1 /\ p # m + 2 /\ p # m + n + 8
    BY <1>5, <1>9
  <2>8. Bound(c, w, op, V[p])
    BY <2>6 DEF Bound
  <2> QED
    BY <1>9, <2>5, <2>6, <2>7, <2>8
<1>10. CASE p = m + n + 3
  <2>1. op = LastProof(c)
    BY <1>1, <1>10, VerifierPlaces
  <2>2. V[p] = Late(c, n, 0, 0, 0)
    <3>1. PICK z \in 0..n : z = n
      OBVIOUS
    <3>2. V[m + 3 + z] = Late(c, z, 0, 0, 0)
      BY <1>2, VerifierBookPlaces
    <3>3. m + 3 + z = p
      BY <1>10, <3>1
    <3> QED
      BY <3>1, <3>2, <3>3
  <2>3. V[p + 1] = Late(c, n, 1, 0, 0)
    <3>1. V[m + n + 4] = Late(c, n, 1, 0, 0)
      BY <1>2, VerifierBookPlaces
    <3>2. p + 1 = m + n + 4
      BY <1>10
    <3> QED
      BY <3>1, <3>2
  <2>4. Meets(op, V[p], V[p + 1])
    BY <2>1, <2>2, <2>3, LateMeets
  <2>5. op # Check("shape") /\ op # Check("counts") /\ op # Check("residual") /\ op.act # "check" /\ op.act = "grind"
    BY <2>1 DEF Draw, Say, LastProof, Grind, Queries, Open, Check
  <2>6. /\ p # d + 1 /\ p \notin (m + 3)..(m + n + 2) /\ (p <= d + 1 \/ p >= m + n + 5 \/ op.act # "draw")
        /\ p # 1 /\ p # m + 2 /\ p # m + n + 8
    BY <1>5, <1>10, <2>5
  <2>7. Bound(c, w, op, V[p])
    BY <2>5 DEF Bound
  <2> QED
    BY <1>10, <2>1, <2>4, <2>5, <2>6, <2>7
<1>11. CASE p = m + n + 4
  <2>1. op = Queries(Steps(c))
    BY <1>1, <1>11, VerifierPlaces
  <2>2. V[p] = Late(c, n, 1, 0, 0)
    <3>1. V[m + n + 4] = Late(c, n, 1, 0, 0)
      BY <1>2, VerifierBookPlaces
    <3>2. p = m + n + 4
      BY <1>11
    <3> QED
      BY <3>1, <3>2
  <2>3. V[p + 1] = Late(c, n, 1, 1, 0)
    <3>1. V[m + n + 5] = Late(c, n, 1, 1, 0)
      BY <1>2, VerifierBookPlaces
    <3>2. p + 1 = m + n + 5
      BY <1>11
    <3> QED
      BY <3>1, <3>2
  <2>4. Meets(op, V[p], V[p + 1])
    BY <2>1, <2>2, <2>3, LateMeets
  <2>5. op # Check("shape") /\ op # Check("counts") /\ op # Check("residual") /\ op.act # "check" /\ op.act = "queries" /\ op.n = Steps(c)
    BY <2>1 DEF Draw, Say, LastProof, Grind, Queries, Open, Check
  <2>6. /\ p # d + 1 /\ p \notin (m + 3)..(m + n + 2) /\ (p <= d + 1 \/ p >= m + n + 5 \/ op.act # "draw")
        /\ p # 1 /\ p # m + 2 /\ p # m + n + 8
    BY <1>5, <1>11, <2>5
  <2>7. Bound(c, w, op, V[p])
    <3>1. V[p]["nonces"] = Steps(c) + 1 /\ V[p]["yr"] = n
      <4>1. Taken(c)[Span(c)] \in Counts /\ "yr" \in Counted /\ "nonces" \in Counted
        BY PlanIs DEF AtLevel, Counted, Told, NonceLists
      <4> QED
        BY <2>2, <4>1 DEF Late, Counts
    <3> QED
      BY <1>3, <2>5, <3>1, StepsType DEF Bound
  <2> QED
    BY <1>11, <2>1, <2>4, <2>5, <2>6, <2>7
<1>12. CASE p = m + n + 5
  <2>1. op = Draw("alpha", CeilLog2(c.queries[Steps(c) + 1]))
    BY <1>1, <1>12, VerifierPlaces
  <2>2. V[p] = Late(c, n, 1, 1, 0)
    <3>1. V[m + n + 5] = Late(c, n, 1, 1, 0)
      BY <1>2, VerifierBookPlaces
    <3>2. p = m + n + 5
      BY <1>12
    <3> QED
      BY <3>1, <3>2
  <2>3. V[p + 1] = Late(c, n, 1, 1, 0)
    <3>1. V[m + n + 6] = Late(c, n, 1, 1, 0)
      BY <1>2, VerifierBookPlaces
    <3>2. p + 1 = m + n + 6
      BY <1>12
    <3> QED
      BY <3>1, <3>2
  <2>8. \A y \in Nat : \A b : Meets(Draw("alpha", b), Late(c, y, 1, 1, 0), Late(c, y, 1, 1, 0))
    BY LateMeets
  <2>4. Meets(op, V[p], V[p + 1])
    BY <2>1, <2>2, <2>3, <2>8, LateMeets
  <2>5. op # Check("shape") /\ op # Check("counts") /\ op # Check("residual") /\ op.act # "check" /\ op.act = "draw" /\ op.of = "alpha"
    BY <2>1 DEF Draw, Say, LastProof, Grind, Queries, Open, Check
  <2>6. /\ p # d + 1 /\ p \notin (m + 3)..(m + n + 2) /\ (p <= d + 1 \/ p >= m + n + 5 \/ op.act # "draw")
        /\ p # 1 /\ p # m + 2 /\ p # m + n + 8
    BY <1>5, <1>12, <2>5
  <2>7. Bound(c, w, op, V[p])
    BY <2>5 DEF Bound
  <2> QED
    BY <1>12, <2>1, <2>4, <2>5, <2>6, <2>7
<1>13. CASE p = m + n + 6
  <2>1. op = Open(Steps(c))
    BY <1>1, <1>13, VerifierPlaces
  <2>2. V[p] = Late(c, n, 1, 1, 0)
    <3>1. V[m + n + 6] = Late(c, n, 1, 1, 0)
      BY <1>2, VerifierBookPlaces
    <3>2. p = m + n + 6
      BY <1>13
    <3> QED
      BY <3>1, <3>2
  <2>3. V[p + 1] = Late(c, n, 1, 1, 1)
    <3>1. PICK z \in (m + n + 7)..(m + n + 9) : z = p + 1
      BY <1>13
    <3>2. V[z] = Late(c, n, 1, 1, 1)
      BY <1>2, VerifierBookPlaces
    <3> QED
      BY <3>1, <3>2
  <2>4. Meets(op, V[p], V[p + 1])
    BY <2>1, <2>2, <2>3, LateMeets
  <2>5. op # Check("shape") /\ op # Check("counts") /\ op # Check("residual") /\ op.act # "check" /\ op.act = "open"
    BY <2>1 DEF Draw, Say, LastProof, Grind, Queries, Open, Check
  <2>6. /\ p # d + 1 /\ p \notin (m + 3)..(m + n + 2) /\ (p <= d + 1 \/ p >= m + n + 5 \/ op.act # "draw")
        /\ p # 1 /\ p # m + 2 /\ p # m + n + 8
    BY <1>5, <1>13, <2>5
  <2>7. Bound(c, w, op, V[p])
    BY <2>5 DEF Bound
  <2> QED
    BY <1>13, <2>1, <2>4, <2>5, <2>6, <2>7
<1>14. CASE p = m + n + 7
  <2>1. op = Draw("beta", 1)
    BY <1>1, <1>14, VerifierPlaces
  <2>2. V[p] = Late(c, n, 1, 1, 1)
    <3>1. PICK z \in (m + n + 7)..(m + n + 9) : z = p
      BY <1>14
    <3>2. V[z] = Late(c, n, 1, 1, 1)
      BY <1>2, VerifierBookPlaces
    <3> QED
      BY <3>1, <3>2
  <2>3. V[p + 1] = Late(c, n, 1, 1, 1)
    <3>1. PICK z \in (m + n + 7)..(m + n + 9) : z = p + 1
      BY <1>14
    <3>2. V[z] = Late(c, n, 1, 1, 1)
      BY <1>2, VerifierBookPlaces
    <3> QED
      BY <3>1, <3>2
  <2>4. Meets(op, V[p], V[p + 1])
    BY <2>1, <2>2, <2>3, LateMeets
  <2>5. op # Check("shape") /\ op # Check("counts") /\ op # Check("residual") /\ op.act # "check" /\ op.act = "draw" /\ op.of = "beta"
    BY <2>1 DEF Draw, Say, LastProof, Grind, Queries, Open, Check
  <2>6. /\ p # d + 1 /\ p \notin (m + 3)..(m + n + 2) /\ (p <= d + 1 \/ p >= m + n + 5 \/ op.act # "draw")
        /\ p # 1 /\ p # m + 2 /\ p # m + n + 8
    BY <1>5, <1>14, <2>5
  <2>7. Bound(c, w, op, V[p])
    BY <2>5 DEF Bound
  <2> QED
    BY <1>14, <2>1, <2>4, <2>5, <2>6, <2>7
<1>15. CASE p = m + n + 8
  <2>1. op = Check("residual")
    BY <1>1, <1>15, VerifierPlaces
  <2>2. V[p] = Late(c, n, 1, 1, 1)
    <3>1. PICK z \in (m + n + 7)..(m + n + 9) : z = p
      BY <1>15
    <3>2. V[z] = Late(c, n, 1, 1, 1)
      BY <1>2, VerifierBookPlaces
    <3> QED
      BY <3>1, <3>2
  <2>3. V[p + 1] = Late(c, n, 1, 1, 1)
    <3>1. PICK z \in (m + n + 7)..(m + n + 9) : z = p + 1
      BY <1>15
    <3>2. V[z] = Late(c, n, 1, 1, 1)
      BY <1>2, VerifierBookPlaces
    <3> QED
      BY <3>1, <3>2
  <2>8. Late(c, n, 1, 1, 1) \in Counts
    <3>1. 1 \in Nat
      OBVIOUS
    <3> QED
      BY <3>1, LateCounts
  <2>4. Meets(op, V[p], V[p + 1])
    BY <2>1, <2>2, <2>3, <2>8, LateMeets
  <2>5. op.act = "check" /\ op # Check("shape") /\ op # Check("counts")
    BY <2>1 DEF Draw, Say, LastProof, Grind, Queries, Open, Check
  <2>6. /\ p # d + 1 /\ p \notin (m + 3)..(m + n + 2) /\ (p <= d + 1 \/ p >= m + n + 5 \/ op.act # "draw")
        /\ p # 1 /\ p # m + 2
    BY <1>5, <1>15, <2>5
  <2>7. Bound(c, w, op, V[p])
    BY <2>5 DEF Bound
  <2> QED
    BY <1>15, <2>1, <2>4, <2>5, <2>6, <2>7
<1>16. \/ p = 1 \/ p \in 2..(m + 1) \/ p = m + 2 \/ p \in (m + 3)..(m + n + 2) \/ p = m + n + 3 \/ p = m + n + 4
       \/ p = m + n + 5 \/ p = m + n + 6 \/ p = m + n + 7 \/ p = m + n + 8
  OBVIOUS
<1> QED
  BY <1>6, <1>7, <1>8, <1>9, <1>10, <1>11, <1>12, <1>13, <1>14, <1>15, <1>16

LEMMA Planned ==
  ASSUME NEW c \in Configs
  PROVE  Itinerary(c, PlanOf(c))
<1>a. PICK m \in Nat, n \in Nat : m = Span(c) /\ n = YrLen(c)
  BY PlanIs, ConfigTypes
<1>b. PICK w : w = PlanOf(c)
  OBVIOUS
<1>1. m = Span(c) /\ n = YrLen(c) /\ w = PlanOf(c)
  BY <1>a, <1>b
<1>2. PICK d, P, V, K, s : d = LastDraw(c) /\ P = ProverBook(c, m, n) /\ V = VerifierBook(c, m, n) /\ K = Taken(c) /\ s = Steps(c)
  OBVIOUS
<1>3. w.m = m /\ w.n = n /\ w.d = d /\ w.P = P /\ w.V = V
  BY <1>1, <1>2 DEF PlanOf
<1>4. m \in Nat \ {0} /\ n \in Nat \ {0} /\ s \in Nat \ {0} /\ EndsAt(Common(c), d) /\ m = Len(Common(c))
  BY <1>1, <1>2, PlanIs, ConfigTypes DEF Span
<1>5. d \in 1..m /\ (d = m \/ (d = m - 1 /\ Common(c)[m] = Say("tx"))) /\ Common(c)[d].act = "draw"
  BY <1>4 DEF EndsAt
<1>6. Len(ProverScripts[c]) = m + n + 3 /\ Len(VerifierScripts[c]) = m + n + 8
  <2>1. ProverScripts[c] = ProverScript(c) /\ VerifierScripts[c] = VerifierScript(c)
    BY DEF ProverScripts, VerifierScripts
  <2>2. Len(ProverScript(c)) = m + n + 3
    BY <1>1, ProverPlaces
  <2>3. Len(VerifierScript(c)) = m + n + 8
    BY <1>1, VerifierPlaces
  <2> QED
    BY <2>1, <2>2, <2>3
<1>7. K[0] = Zero /\ K \in [0..m -> Counts] /\ \A j \in 1..m : K[j] = Tally(K[j - 1], Common(c)[j])
  BY <1>2, <1>4, PlanIs DEF Book
<1>8. P[1] = Zero
  <2>1. PICK z \in 1..(m + 1) : z = 1
    OBVIOUS
  <2>2. P[z] = K[z - 1]
    BY <1>1, <1>2, BookPlaces
  <2>3. z - 1 = 0
    BY <2>1
  <2> QED
    BY <1>7, <2>1, <2>2, <2>3
<1>9. V[1] = Zero
  BY <1>1, <1>2, VerifierBookPlaces
<1>10. P[d] = K[d - 1] /\ V[d + 1] = K[d - 1]
  <2>1. PICK z \in 1..(m + 1) : z = d
    BY <1>5
  <2>2. P[z] = K[z - 1]
    BY <1>1, <1>2, BookPlaces
  <2>3. V[z + 1] = K[z - 1]
    BY <1>1, <1>2, VerifierBookPlaces
  <2> QED
    BY <2>1, <2>2, <2>3
<1>11. V[m + 2] = K[m]
  <2>1. PICK z \in 1..(m + 1) : z = m + 1
    OBVIOUS
  <2>2. V[z + 1] = K[z - 1]
    BY <1>1, <1>2, VerifierBookPlaces
  <2>3. z + 1 = m + 2 /\ z - 1 = m
    BY <2>1
  <2> QED
    BY <2>2, <2>3
<1>12. P[m + n + 4] = Late(c, n, 1, 1, 1)
  BY <1>1, <1>2, BookPlaces
<1>13. V[m + n + 8] = Late(c, n, 1, 1, 1)
  <2>1. PICK z \in (m + n + 7)..(m + n + 9) : z = m + n + 8
    OBVIOUS
  <2>2. V[z] = Late(c, n, 1, 1, 1)
    BY <1>1, <1>2, VerifierBookPlaces, ZenonT(40)
  <2> QED
    BY <2>1, <2>2
<1>14. PICK k, e, r : k = V[d + 1] /\ e = V[m + 2] /\ r = P[m + n + 4]
  OBVIOUS
<1>15. k \in Counts /\ e \in Counts /\ AtLevel(c, e, s)
  <2>1. d - 1 \in 0..m /\ m \in 0..m
    BY <1>5
  <2> QED
    BY <1>1, <1>2, <1>7, <1>10, <1>11, <1>14, <2>1, PlanIs
<1>16. r \in Counts
  <2>1. r = [e EXCEPT !["yr"] = n, !["nonces"] = s + 1, !["queries"] = s + 1, !["opens"] = s + 1]
    BY <1>1, <1>2, <1>11, <1>12, <1>14 DEF Late
  <2>2. n \in Nat /\ s + 1 \in Nat /\ e \in [Counted -> Nat]
    BY <1>4, <1>15 DEF Counts
  <2>3. r \in [Counted -> Nat]
    BY <2>1, <2>2
  <2> QED
    BY <2>3 DEF Counts
<1>17. K[d] = k
  <2>1. K[d] = Tally(k, Common(c)[d])
    BY <1>5, <1>7, <1>10, <1>14
  <2> QED
    BY <1>5, <1>15, <2>1, TakesNone
<1>18. e = k \/ e = Tally(k, Say("tx"))
  <2>1. CASE d = m
    BY <1>11, <1>14, <1>17, <2>1
  <2>2. CASE d = m - 1 /\ Common(c)[m] = Say("tx")
    <3>1. m - 1 = d /\ m \in 1..m
      BY <1>4, <2>2
    <3> QED
      BY <1>7, <1>11, <1>14, <1>17, <2>2, <3>1
  <2> QED
    BY <1>5, <2>1, <2>2
<1>19. \A f \in Counted : e[f] = k[f] \/ (f = "tx" /\ e[f] = k[f] + 1)
  <2>1. Takes(Say("tx")) = "tx"
    BY DEF Takes, Say
  <2> QED
    BY <1>18, <2>1 DEF Tally
<1>20. {"yr", "nonces", "opens", "tx", "ood", "roots", "fold_nonces"} \subseteq Counted
  BY DEF Counted, Told, NonceLists
<1>21. /\ r["yr"] = n /\ r["nonces"] = s + 1 /\ r["opens"] = s + 1
       /\ \A f \in {"ood", "roots", "fold_nonces", "tx"} : r[f] = e[f]
  <2>1. r = [e EXCEPT !["yr"] = n, !["nonces"] = s + 1, !["queries"] = s + 1, !["opens"] = s + 1]
    BY <1>1, <1>2, <1>11, <1>12, <1>14 DEF Late
  <2> QED
    BY <1>15, <1>20, <2>1 DEF Counts
<1>22. Ending(c, w, k, e, r)
  <2>1. e["roots"] = s /\ e["nonces"] = s /\ e["yr"] = 0
    BY <1>15 DEF AtLevel
  <2>2. /\ \A f \in {"ood", "roots", "fold_nonces", "nonces"} : e[f] = k[f]
        /\ k["yr"] = 0 /\ (e["tx"] = k["tx"] \/ e["tx"] = k["tx"] + 1)
    BY <1>19, <1>20, <2>1
  <2> QED
    BY <1>2, <1>3, <1>15, <1>16, <1>21, <2>1, <2>2 DEF Ending
<1>23. Sizes(c, w)
  BY <1>1, <1>2, <1>3, <1>4, <1>5, <1>6, <1>8, <1>9, <1>10, <1>12, <1>13, <1>14, <1>22 DEF Sizes
<1>24. \A j \in 1..(m + n + 3) : ProverMeets(w, j, ProverScripts[c][j])
  BY <1>1, ProverPlan
<1>25. \A p \in 1..(m + n + 8) : VerifierMeets(c, w, p, VerifierScripts[c][p])
  BY <1>1, VerifierPlan
<1> QED
  BY <1>1, <1>3, <1>23, <1>24, <1>25 DEF Itinerary
-----------------------------------------------------------------------------
(* Sequences of whatever kind.                                                     *)
IsSeq(s) == \E S : s \in Seq(S)

LEMMA AnyNone == IsSeq(<<>>) /\ Len(<<>>) = 0
<1>1. <<>> \in Seq({0})
  OBVIOUS
<1> QED
  BY <1>1 DEF IsSeq

LEMMA AnyOne ==
  ASSUME NEW x
  PROVE  IsSeq(<<x>>) /\ Len(<<x>>) = 1 /\ <<x>>[1] = x
<1>1. <<x>> \in Seq({x})
  OBVIOUS
<1> QED
  BY <1>1 DEF IsSeq

LEMMA AnyLength ==
  ASSUME NEW s, IsSeq(s)
  PROVE  Len(s) \in Nat /\ DOMAIN s = 1..Len(s)
<1>1. PICK S : s \in Seq(S)
  BY DEF IsSeq
<1> QED
  BY <1>1

LEMMA AnyAppend ==
  ASSUME NEW s, IsSeq(s), NEW x
  PROVE  /\ IsSeq(Append(s, x)) /\ Len(Append(s, x)) = Len(s) + 1
         /\ \A i \in 1..Len(s) : Append(s, x)[i] = s[i]
         /\ Append(s, x)[Len(s) + 1] = x
<1>1. PICK S : s \in Seq(S)
  BY DEF IsSeq
<1>2. PICK U : U = S \cup {x}
  OBVIOUS
<1>3. s \in Seq(U) /\ x \in U
  <2>1. S \subseteq U /\ x \in U
    BY <1>2
  <2> QED
    BY <1>1, <2>1
<1>4. Append(s, x) \in Seq(U)
  BY <1>3
<1>5. IsSeq(Append(s, x))
  BY <1>4 DEF IsSeq
<1>6. /\ Len(Append(s, x)) = Len(s) + 1
      /\ \A i \in 1..Len(s) : Append(s, x)[i] = s[i]
      /\ Append(s, x)[Len(s) + 1] = x
  BY <1>3
<1> QED
  BY <1>5, <1>6

LEMMA AnyPart ==
  ASSUME NEW s, IsSeq(s), NEW k \in 0..Len(s)
  PROVE  /\ IsSeq(SubSeq(s, 1, k)) /\ Len(SubSeq(s, 1, k)) = k
         /\ \A i \in 1..k : SubSeq(s, 1, k)[i] = s[i]
<1>1. PICK S : s \in Seq(S)
  BY DEF IsSeq
<1>2. SubSeq(s, 1, k) \in Seq(S)
  BY <1>1
<1>3. IsSeq(SubSeq(s, 1, k))
  BY <1>2 DEF IsSeq
<1> QED
  BY <1>1, <1>3

LEMMA AnySame ==
  ASSUME NEW s, NEW t, IsSeq(s), IsSeq(t), Len(s) = Len(t), \A i \in 1..Len(s) : s[i] = t[i]
  PROVE  s = t
<1>1. PICK S : s \in Seq(S)
  BY DEF IsSeq
<1>2. PICK U : t \in Seq(U)
  BY DEF IsSeq
<1> QED
  BY <1>1, <1>2

LEMMA PartMore ==
  ASSUME NEW s, IsSeq(s), NEW k \in Nat, k + 1 <= Len(s)
  PROVE  SubSeq(s, 1, k + 1) = Append(SubSeq(s, 1, k), s[k + 1])
<1>0. PICK n \in Nat : n = Len(s)
  BY AnyLength
<1>1. PICK a, b : a = SubSeq(s, 1, k) /\ b = SubSeq(s, 1, k + 1)
  OBVIOUS
<1>2. k \in 0..Len(s) /\ k + 1 \in 0..Len(s)
  BY <1>0
<1>3. IsSeq(a) /\ Len(a) = k /\ (\A i \in 1..k : a[i] = s[i])
  BY <1>1, <1>2, AnyPart
<1>4. PICK j : j = k + 1
  OBVIOUS
<1>5. IsSeq(b) /\ Len(b) = j /\ (\A i \in 1..j : b[i] = s[i])
  BY <1>1, <1>2, <1>4, AnyPart
<1>6. PICK c, x : c = Append(a, x) /\ x = s[j]
  OBVIOUS
<1>7. IsSeq(c) /\ Len(c) = k + 1 /\ (\A i \in 1..k : c[i] = a[i]) /\ c[k + 1] = x
  BY <1>3, <1>6, AnyAppend
<1>8. \A i \in 1..Len(b) : b[i] = c[i]
  BY <1>3, <1>4, <1>5, <1>6, <1>7
<1>9. b = c
  BY <1>4, <1>5, <1>7, <1>8, AnySame
<1> QED
  BY <1>1, <1>4, <1>6, <1>9

LEMMA PartKept ==
  ASSUME NEW s, IsSeq(s), NEW x, NEW k \in 0..Len(s)
  PROVE  SubSeq(Append(s, x), 1, k) = SubSeq(s, 1, k)
<1>0. PICK n \in Nat : n = Len(s)
  BY AnyLength
<1>1. PICK a, b, t : a = SubSeq(s, 1, k) /\ b = SubSeq(t, 1, k) /\ t = Append(s, x)
  OBVIOUS
<1>2. IsSeq(t) /\ Len(t) = n + 1 /\ (\A i \in 1..n : t[i] = s[i])
  BY <1>0, <1>1, AnyAppend
<1>3. k \in 0..Len(t) /\ k <= n
  BY <1>0, <1>2
<1>4. IsSeq(a) /\ Len(a) = k /\ (\A i \in 1..k : a[i] = s[i])
  BY <1>1, AnyPart
<1>5. IsSeq(b) /\ Len(b) = k /\ (\A i \in 1..k : b[i] = t[i])
  BY <1>1, <1>2, <1>3, AnyPart
<1>6. \A i \in 1..Len(a) : a[i] = b[i]
  BY <1>0, <1>2, <1>3, <1>4, <1>5
<1>7. a = b
  BY <1>4, <1>5, <1>6, AnySame
<1> QED
  BY <1>1, <1>7

LEMMA PartAll ==
  ASSUME NEW s, IsSeq(s)
  PROVE  SubSeq(s, 1, Len(s)) = s /\ SubSeq(s, 1, 0) = <<>>
<1>1. PICK S : s \in Seq(S)
  BY DEF IsSeq
<1> QED
  BY <1>1

-----------------------------------------------------------------------------
(* What a transcript tells of the proof: for each list, the elements absorbed.     *)
Tell(t, x) == IF x[1] \in Told THEN [t EXCEPT ![x[1]] = Append(@, x[2])] ELSE t
Tells(t, s, r) == \E W : W[0] = t /\ (\A j \in 1..Len(s) : W[j] = Tell(W[j - 1], s[j])) /\ W[Len(s)] = r
Nothing == [f \in Told |-> <<>>]
Whole(p) == [f \in Told |-> p[f]]
Cut(p, k) == [f \in Told |-> SubSeq(p[f], 1, k[f])]

LEMMA TellsNone ==
  ASSUME NEW t
  PROVE  Tells(t, <<>>, t)
<1>1. PICK W : W = [j \in {0} |-> t]
  OBVIOUS
<1>2. W[0] = t /\ (\A j \in 1..Len(<<>>) : W[j] = Tell(W[j - 1], <<>>[j])) /\ W[Len(<<>>)] = t
  BY <1>1, AnyNone
<1> QED
  BY <1>2 DEF Tells

LEMMA TellsMore ==
  ASSUME NEW t, NEW s, NEW r, NEW x, IsSeq(s), Tells(t, s, r)
  PROVE  Tells(t, Append(s, x), Tell(r, x))
<1>1. PICK W : W[0] = t /\ (\A j \in 1..Len(s) : W[j] = Tell(W[j - 1], s[j])) /\ W[Len(s)] = r
  BY DEF Tells
<1>a. PICK n \in Nat : n = Len(s)
  BY AnyLength
<1>b. PICK u, z : u = Append(s, x) /\ z = Tell(r, x)
  OBVIOUS
<1>2. n = Len(s) /\ u = Append(s, x) /\ z = Tell(r, x)
  BY <1>a, <1>b
<1>3. Len(u) = n + 1 /\ (\A i \in 1..n : u[i] = s[i]) /\ u[n + 1] = x
  BY <1>2, AnyAppend
<1>4. PICK X : X = [j \in 0..(n + 1) |-> IF j <= n THEN W[j] ELSE z]
  OBVIOUS
<1>5. \A j \in 0..n : X[j] = W[j]
  BY <1>4
<1>6. X[n + 1] = z
  BY <1>4
<1>7. ASSUME NEW j \in 1..(n + 1)
      PROVE  X[j] = Tell(X[j - 1], u[j])
  <2>1. CASE j <= n
    <3>1. X[j] = W[j] /\ X[j - 1] = W[j - 1] /\ u[j] = s[j] /\ j \in 1..n
      BY <1>3, <1>5, <2>1
    <3> QED
      BY <1>1, <1>2, <3>1
  <2>2. CASE j = n + 1
    <3>1. X[j - 1] = r /\ X[j] = z /\ u[j] = x
      BY <1>1, <1>2, <1>3, <1>5, <1>6, <2>2
    <3> QED
      BY <1>2, <3>1
  <2> QED
    BY <2>1, <2>2
<1>8. X[0] = t
  BY <1>1, <1>5
<1>9. X[0] = t /\ (\A j \in 1..Len(u) : X[j] = Tell(X[j - 1], u[j])) /\ X[Len(u)] = z
  BY <1>3, <1>6, <1>7, <1>8
<1>10. Tells(t, u, z)
  BY <1>9 DEF Tells
<1> QED
  BY <1>2, <1>10

LEMMA TellsOne ==
  ASSUME NEW t, NEW s, NEW r, NEW q, IsSeq(s), Tells(t, s, r), Tells(t, s, q)
  PROVE  r = q
<1>1. PICK n \in Nat : n = Len(s)
  BY AnyLength
<1>2. PICK W : W[0] = t /\ (\A j \in 1..n : W[j] = Tell(W[j - 1], s[j])) /\ W[n] = r
  BY <1>1 DEF Tells
<1>3. PICK X : X[0] = t /\ (\A j \in 1..n : X[j] = Tell(X[j - 1], s[j])) /\ X[n] = q
  BY <1>1 DEF Tells
<1> DEFINE S == {j \in 0..n : W[j] # X[j]}
<1>4. S = {}
  <2> SUFFICES ASSUME S # {} PROVE FALSE
    OBVIOUS
  <2>1. S \subseteq Nat
    OBVIOUS
  <2>2. PICK j \in S : \A i \in S : j <= i
    BY <2>1, LeastNat
  <2>3. j # 0
    BY <1>2, <1>3
  <2>4. j \in 1..n /\ j - 1 \in 0..n /\ ~(j <= j - 1)
    BY <2>3
  <2>5. W[j - 1] = X[j - 1]
    BY <2>2, <2>4
  <2> QED
    BY <1>2, <1>3, <2>4, <2>5
<1>5. n \in 0..n
  OBVIOUS
<1> QED
  BY <1>2, <1>3, <1>4, <1>5

(* Telling one element more, as the prover makes it and as the verifier reads it. *)
LEMMA TellsNot ==
  ASSUME NEW t, NEW x, x[1] \notin Told
  PROVE  Tell(t, x) = t
BY DEF Tell

LEMMA TellsMade ==
  ASSUME NEW p, NEW q, NEW f \in Told, NEW e, Told \subseteq DOMAIN p, q = [p EXCEPT ![f] = Append(@, e)]
  PROVE  Tell(Whole(p), <<f, e>>) = Whole(q)
<1>1. Tell(Whole(p), <<f, e>>) = [Whole(p) EXCEPT ![f] = Append(@, e)]
  BY DEF Tell
<1>2. [Whole(p) EXCEPT ![f] = Append(@, e)] = [g \in Told |-> IF g = f THEN Append(p[f], e) ELSE p[g]]
  BY DEF Whole
<1>3. \A g \in Told : q[g] = IF g = f THEN Append(p[f], e) ELSE p[g]
  OBVIOUS
<1>4. Whole(q) = [g \in Told |-> IF g = f THEN Append(p[f], e) ELSE p[g]]
  BY <1>3 DEF Whole
<1> QED
  BY <1>1, <1>2, <1>4

Reads(p, k, r, f, e) ==
    /\ f \in Told /\ IsSeq(p[f]) /\ k[f] \in Nat /\ k[f] + 1 <= Len(p[f]) /\ e = p[f][k[f] + 1]
    /\ \A g \in Told : r[g] = IF g = f THEN k[g] + 1 ELSE k[g]

LEMMA TellsRead ==
  ASSUME NEW p, NEW k, NEW r, NEW f, NEW e, Reads(p, k, r, f, e)
  PROVE  Tell(Cut(p, k), <<f, e>>) = Cut(p, r)
<1>0. /\ f \in Told /\ IsSeq(p[f]) /\ k[f] \in Nat /\ k[f] + 1 <= Len(p[f]) /\ e = p[f][k[f] + 1]
      /\ \A g \in Told : r[g] = IF g = f THEN k[g] + 1 ELSE k[g]
  BY DEF Reads
<1>1. PICK i \in Nat : i = k[f]
  BY <1>0
<1>11. PICK s : s = p[f]
  OBVIOUS
<1>2. SubSeq(s, 1, i + 1) = Append(SubSeq(s, 1, i), e)
  <2>1. IsSeq(s) /\ i + 1 <= Len(s) /\ e = s[i + 1]
    BY <1>0, <1>1, <1>11
  <2> QED
    BY <2>1, PartMore
<1>3. Tell(Cut(p, k), <<f, e>>) = [Cut(p, k) EXCEPT ![f] = Append(@, e)]
  BY <1>0 DEF Tell
<1>4. [Cut(p, k) EXCEPT ![f] = Append(@, e)]
        = [g \in Told |-> IF g = f THEN Append(SubSeq(s, 1, i), e) ELSE SubSeq(p[g], 1, k[g])]
  BY <1>0, <1>1, <1>11 DEF Cut
<1>5. \A g \in Told : SubSeq(p[g], 1, r[g]) = IF g = f THEN Append(SubSeq(s, 1, i), e) ELSE SubSeq(p[g], 1, k[g])
  BY <1>0, <1>1, <1>2, <1>11
<1>6. Cut(p, r) = [g \in Told |-> IF g = f THEN Append(SubSeq(s, 1, i), e) ELSE SubSeq(p[g], 1, k[g])]
  BY <1>5 DEF Cut
<1> QED
  BY <1>3, <1>4, <1>6

(* What each answer of the oracle stands for: all its point depends on.  T gives    *)
(* for a point of the log what the transcript that ends there tells of the proof.  *)
Recalls(g, T) ==
    /\ IsSeq(g) /\ T[0] = Nothing
    /\ \A k \in 1..Len(g) :
        /\ g[k].point.at \in 0..(k - 1) /\ IsSeq(g[k].point.since)
        /\ Tells(T[g[k].point.at], g[k].point.since, T[k])

Kept(g, T, h, U) ==
    /\ Len(g) \in Nat /\ Len(h) \in Nat /\ Len(g) <= Len(h)
    /\ \A k \in 0..Len(g) : U[k] = T[k]

(* A point is answered as it was, or is new: either way its number stands for what  *)
(* the asking transcript tells.                                                     *)
Stands(p, T, r) == p.at \in 0..Len(log) /\ IsSeq(p.since) /\ Tells(T[p.at], p.since, r)

LEMMA Answering ==
  ASSUME NEW T, Recalls(log, T), NEW p, NEW a, NEW bad, NEW r, Stands(p, T, r), Answered(p, a, bad)
  PROVE  \E U : /\ Recalls(log', U) /\ Kept(log, T, log', U)
                /\ PointId(p) \in 0..Len(log') /\ U[PointId(p)] = r
<1>1. IsSeq(log) /\ Len(log) \in Nat /\ DOMAIN log = 1..Len(log)
  BY AnyLength DEF Recalls
<1>a. p.at \in 0..Len(log) /\ IsSeq(p.since) /\ Tells(T[p.at], p.since, r)
  BY DEF Stands
<1>2. CASE IsKnown(p)
  <2>1. log' = log
    BY <1>2 DEF Answered
  <2>2. PICK k : k = PointId(p)
    OBVIOUS
  <2>3. k \in 1..Len(log) /\ log[k].point = p
    <3>1. \E j \in DOMAIN log : log[j].point = p
      BY <1>2 DEF IsKnown
    <3>2. k = CHOOSE j \in DOMAIN log : log[j].point = p
      BY <1>2, <2>2 DEF PointId
    <3>3. k \in DOMAIN log /\ log[k].point = p
      BY <3>1, <3>2
    <3> QED
      BY <1>1, <3>3
  <2>4. Tells(T[p.at], p.since, T[k])
    BY <2>3 DEF Recalls
  <2>5. T[k] = r
    BY <1>a, <2>4, TellsOne
  <2>6. Kept(log, T, log', T)
    BY <1>1, <2>1 DEF Kept
  <2>7. PointId(p) \in 0..Len(log')
    BY <1>1, <2>1, <2>2, <2>3
  <2> QED
    BY <2>1, <2>2, <2>5, <2>6, <2>7
<1>3. CASE ~IsKnown(p)
  <2>1. PICK n \in Nat : n = Len(log)
    BY <1>1, Zenon
  <2>2. PICK x, h : x = [point |-> p, answer |-> a, bad |-> bad] /\ h = Append(log, x)
    OBVIOUS
  <2>3. log' = h
    BY <1>3, <2>2 DEF Answered
  <2>4. IsSeq(h) /\ Len(h) = n + 1 /\ (\A i \in 1..n : h[i] = log[i]) /\ h[n + 1] = x
    BY <1>1, <2>1, <2>2, AnyAppend
  <2>5. PICK U : U = [k \in 0..(n + 1) |-> IF k <= n THEN T[k] ELSE r]
    OBVIOUS
  <2>6. \A k \in 0..n : U[k] = T[k]
    BY <2>5
  <2>7. U[n + 1] = r
    BY <2>5
  <2>8. PointId(p) = n + 1
    BY <1>3, <2>1 DEF PointId
  <2>9. x.point = p
    BY <2>2
  <2>10. ASSUME NEW k \in 1..(n + 1)
         PROVE  /\ h[k].point.at \in 0..(k - 1) /\ IsSeq(h[k].point.since)
                /\ Tells(U[h[k].point.at], h[k].point.since, U[k])
    <3>1. CASE k <= n
      <4>1. k \in 1..n /\ h[k] = log[k] /\ U[k] = T[k]
        BY <2>4, <2>6, <3>1
      <4>2. log[k].point.at \in 0..(k - 1) /\ IsSeq(log[k].point.since) /\ Tells(T[log[k].point.at], log[k].point.since, T[k])
        BY <2>1, <4>1 DEF Recalls
      <4>3. U[log[k].point.at] = T[log[k].point.at]
        <5>1. log[k].point.at \in 0..n
          BY <4>1, <4>2
        <5> QED
          BY <2>6, <5>1
      <4> QED
        BY <4>1, <4>2, <4>3
    <3>2. CASE k = n + 1
      <4>1. h[k].point = p /\ U[k] = r /\ p.at \in 0..n
        BY <1>a, <2>1, <2>4, <2>7, <2>9, <3>2
      <4>2. p.at \in 0..(k - 1) /\ U[p.at] = T[p.at]
        BY <2>6, <3>2, <4>1
      <4> QED
        BY <1>a, <4>1, <4>2
    <3> QED
      BY <3>1, <3>2
  <2>11. U[0] = Nothing
    BY <2>6 DEF Recalls
  <2>12. Recalls(h, U)
    BY <2>4, <2>10, <2>11 DEF Recalls
  <2>13. Kept(log, T, h, U)
    BY <2>1, <2>4, <2>6 DEF Kept
  <2>14. PointId(p) \in 0..Len(h)
    BY <2>4, <2>8
  <2>15. /\ Recalls(log', U) /\ Kept(log, T, log', U)
         /\ PointId(p) \in 0..Len(log') /\ U[PointId(p)] = r
    BY <2>3, <2>7, <2>8, <2>12, <2>13, <2>14
  <2> QED
    BY <2>15, SMTT(30)
<1> QED
  BY <1>2, <1>3
-----------------------------------------------------------------------------
(* The invariant.  k is what has been counted when the last draw before the folded *)
(* message comes: T[a] is Cut(p, k) when the challenge a depends on all of p that   *)
(* comes before it.                                                                 *)
IsElem(e) == e = [no |-> e.no, at |-> e.at, intact |-> e.intact, val |-> e.val]
LastCount(w) == w.V[w.d + 1]

Listening(T) ==
    /\ Recalls(log, T)
    /\ tr = [at |-> tr.at, since |-> tr.since] /\ tr.at \in 0..Len(log) /\ IsSeq(tr.since)
    /\ chal \in 0..Len(log)

(* Elements are numbered as they are made. *)
InOrder ==
    /\ made = [f \in Lists |-> made[f]]
    /\ \A f \in Lists :
        /\ IsSeq(made[f])
        /\ \A i \in 1..Len(made[f]) : IsElem(made[f][i]) /\ made[f][i].no = i /\ made[f][i].intact = TRUE
    /\ Len(made.start) = 2
    /\ \A i \in 1..Len(made.opens) : made.opens[i].val = [rows |-> made.opens[i].val.rows, salts |-> Salts(i - 1)]

(* The prover's transcript tells the proof it makes, and the folded message is made *)
(* with a challenge that depends on all before it.                                  *)
Making(w, T) ==
    /\ pos \in 1..(w.m + w.n + 4)
    /\ \A f \in Lists \ {"start"} : Len(made[f]) = w.P[pos][f]
    /\ Tells(T[tr.at], tr.since, Whole(made))
    /\ pos <= w.m + 1 => Len(made["yr"]) = 0
    /\ \A i \in 1..Len(made["yr"]) : made["yr"][i].at = chal
    /\ pos > w.d => T[chal] = Cut(made, LastCount(w)) /\ \A f \in Told : LastCount(w)[f] <= Len(made[f])

Complete(w, T) ==
    /\ \A f \in Lists \ {"start"} : Len(made[f]) = w.P[w.m + w.n + 4][f]
    /\ \A f \in Told : LastCount(w)[f] <= Len(made[f])
    /\ \E a \in 0..Len(log) : T[a] = Cut(made, LastCount(w)) /\ \A i \in 1..Len(made["yr"]) : made["yr"][i].at = a
    /\ sent \in {made} \cup Altered(made)
    /\ \A f \in Lists : IsSeq(sent[f])

Opened(l) == sent["opens"][l + 1].intact /\ sent["opens"][l + 1].val.salts = Salts(l)
YrRight(w, T, i) ==
    /\ sent["yr"][i].intact /\ sent["yr"][i].no = i
    /\ sent["yr"][i].at \in 0..Len(log) /\ T[sent["yr"][i].at] = Cut(sent, LastCount(w))

(* The verifier's transcript tells what it has read. *)
Reading(w, T) ==
    /\ pos \in 1..(w.m + w.n + 8) /\ idx = [f \in Lists |-> idx[f]] /\ claim \in BOOLEAN /\ quad \in BOOLEAN
    /\ \A f \in Told : idx[f] = w.V[pos][f] /\ idx[f] <= Len(sent[f])
    /\ Tells(T[tr.at], tr.since, Cut(sent, idx))
    /\ w.d + 1 < pos /\ pos <= w.m + w.n + 5 => T[chal] = Cut(sent, LastCount(w))
    /\ pos > 1 => ShapeIsRight /\ (claim => sent["start"][1].intact) /\ (quad => sent["start"][1].intact)
    /\ pos <= w.m + 2 => idx["yr"] = 0
    /\ pos > w.m + 2 => (\A f \in {"tx", "ood", "fold_nonces"} : Len(sent[f]) = w.V[w.m + 2][f]) /\ Len(sent["yr"]) = w.n
    /\ claim => \A i \in 1..idx["yr"] : YrRight(w, T, i)
    /\ \A l \in Nat : l < w.V[pos]["opens"] => Opened(l)

Walked(w, T) ==
    /\ Listening(T) /\ InOrder
    /\ \/ phase = "prove" /\ NoChecks /\ Making(w, T)
       \/ phase = "verify" /\ Complete(w, T) /\ Reading(w, T)
       \/ phase = "accept" /\ Complete(w, T) /\ Reading(w, T) /\ pos = w.m + w.n + 8 /\ claim

IInv ==
    /\ cfg \in Configs /\ phase \in {"prove", "verify", "accept", "reject", "panic"}
    /\ phase \in {"prove", "verify", "accept"} => \E T : Walked(PlanOf(cfg), T)

-----------------------------------------------------------------------------
LEMMA TagsApart ==
  /\ "flock-ligerito-basis" \notin Told /\ "squeeze" \notin Told /\ "pow" \notin Told
  /\ "opens" \notin Told /\ "start" \notin Told
  /\ Told \subseteq Lists \ {"start"} /\ Lists \ {"start"} = Told \cup {"opens"} /\ Lists \ {"start"} \subseteq Counted
  /\ NonceLists \subseteq Told /\ {"tx", "ood", "roots", "yr", "nonces", "fold_nonces"} \subseteq Told
  /\ {"tx", "ood", "roots", "yr", "start", "opens", "nonces", "fold_nonces"} = Lists
BY DEF Told, NonceLists, Lists, Counted

LEMMA OpeningTells ==
  ASSUME NEW p
  PROVE  /\ Opening(p) = [at |-> Opening(p).at, since |-> Opening(p).since]
         /\ Opening(p).at = 0 /\ IsSeq(Opening(p).since) /\ Tells(Nothing, Opening(p).since, Nothing)
<1>1. PICK x, a, b : x = <<"flock-ligerito-basis", a, b>> /\ a = p.start[1] /\ b = p.start[2]
  OBVIOUS
<1>2. x[1] = "flock-ligerito-basis"
  BY <1>1
<1>3. Opening(p) = [at |-> 0, since |-> <<x>>]
  BY <1>1 DEF Opening
<1>4. Tell(Nothing, x) = Nothing
  BY <1>2, TagsApart, TellsNot
<1>5. Append(<<>>, x) = <<x>>
  OBVIOUS
<1>6. Tells(Nothing, <<x>>, Nothing)
  <2>1. Tells(Nothing, <<>>, Nothing) /\ IsSeq(<<>>)
    BY TellsNone, AnyNone
  <2>2. Tells(Nothing, Append(<<>>, x), Tell(Nothing, x))
    BY <2>1, TellsMore
  <2> QED
    BY <1>4, <1>5, <2>2
<1>7. IsSeq(<<x>>)
  BY AnyOne
<1> QED
  BY <1>3, <1>6, <1>7

LEMMA InitWalked ==
  ASSUME Init
  PROVE  IInv
<1>1. PICK w : w = PlanOf(cfg)
  OBVIOUS
<1>2. cfg \in Configs /\ Itinerary(cfg, w)
  BY <1>1, Planned DEF Init
<1>3. w.P[1] = Zero /\ w.m \in Nat \ {0} /\ w.n \in Nat \ {0} /\ w.d \in 1..w.m
  BY <1>2 DEF Itinerary, Sizes
<1>4. PICK T : T = [k \in {0} |-> Nothing]
  OBVIOUS
<1>5. T[0] = Nothing
  BY <1>4
<1>6. log = <<>> /\ tr = Opening(made) /\ chal = 0 /\ pos = 1 /\ phase = "prove"
  BY DEF Init
<1>7. Listening(T)
  <2>1. IsSeq(log) /\ Len(log) = 0
    BY <1>6, AnyNone
  <2>2. Recalls(log, T)
    BY <1>5, <2>1 DEF Recalls
  <2> QED
    BY <1>6, <2>1, <2>2, OpeningTells DEF Listening
<1>8. PICK a, b : a = Elem(1, 0) /\ b = Elem(2, 0)
  OBVIOUS
<1>9. made = [f \in Lists |-> IF f = "start" THEN <<a, b>> ELSE <<>>]
  BY <1>8 DEF Init
<1>10. \A f \in Lists \ {"start"} : made[f] = <<>>
  BY <1>9
<1>11. made["start"] = <<a, b>>
  BY <1>9, TagsApart
<1>12. /\ IsSeq(<<a, b>>) /\ Len(<<a, b>>) = 2 /\ <<a, b>>[1] = a /\ <<a, b>>[2] = b
  <2>1. <<a, b>> \in Seq({a, b})
    OBVIOUS
  <2> QED
    BY <2>1, Zenon DEF IsSeq
<1>13. InOrder
  <2>1. ASSUME NEW f \in Lists
        PROVE  /\ IsSeq(made[f])
               /\ \A i \in 1..Len(made[f]) : IsElem(made[f][i]) /\ made[f][i].no = i /\ made[f][i].intact = TRUE
    <3>1. CASE f = "start"
      <4>1. IsElem(a) /\ IsElem(b) /\ a.no = 1 /\ b.no = 2 /\ a.intact = TRUE /\ b.intact = TRUE
        BY <1>8 DEF IsElem, Elem
      <4>2. \A i \in 1..2 : i = 1 \/ i = 2
        OBVIOUS
      <4> QED
        BY <1>11, <1>12, <3>1, <4>1, <4>2
    <3>2. CASE f # "start"
      <4>1. made[f] = <<>>
        BY <1>10, <3>2
      <4> QED
        BY <4>1, AnyNone
    <3> QED
      BY <3>1, <3>2
  <2>2. Len(made["opens"]) = 0
    BY <1>10, AnyNone, TagsApart
  <2>3. made = [f \in Lists |-> made[f]]
    BY <1>9
  <2>4. Len(made.start) = 2
    BY <1>11, <1>12
  <2>5. \A i \in 1..Len(made.opens) : made.opens[i].val = [rows |-> made.opens[i].val.rows, salts |-> Salts(i - 1)]
    BY <2>2
  <2> QED
    BY <2>1, <2>3, <2>4, <2>5 DEF InOrder
<1>14. Making(w, T)
  <2>1. pos \in 1..(w.m + w.n + 4) /\ ~(pos > w.d)
    BY <1>3, <1>6
  <2>2. \A f \in Lists \ {"start"} : Len(made[f]) = w.P[pos][f]
    <3>1. \A f \in Lists \ {"start"} : Zero[f] = 0
      BY TagsApart DEF Zero
    <3> QED
      BY <1>3, <1>6, <1>10, <3>1, AnyNone
  <2>3. Whole(made) = Nothing
    BY <1>10, TagsApart DEF Whole, Nothing
  <2>4. Tells(T[tr.at], tr.since, Whole(made))
    BY <1>5, <1>6, <2>3, OpeningTells
  <2>5. Len(made["yr"]) = 0
    BY <1>10, AnyNone, TagsApart
  <2>6. \A i \in 1..Len(made["yr"]) : made["yr"][i].at = chal
    BY <2>5
  <2> QED
    BY <2>1, <2>2, <2>4, <2>5, <2>6 DEF Making
<1>a. NoChecks
  BY DEF Init
<1>15. Walked(w, T)
  BY <1>6, <1>7, <1>13, <1>14, <1>a DEF Walked
<1> QED
  BY <1>1, <1>2, <1>6, <1>15 DEF IInv
-----------------------------------------------------------------------------
(* The prover's steps.                                                              *)
LEMMA Proving ==
  ASSUME cfg \in Configs, NEW w, w = PlanOf(cfg), NEW T, Walked(w, T), phase = "prove"
  PROVE  /\ Sizes(cfg, w) /\ Making(w, T) /\ Listening(T) /\ InOrder /\ NoChecks
         /\ \A act : AtOp(act) => /\ pos \in 1..(w.m + w.n + 3) /\ Op.act = act /\ ProverMeets(w, pos, Op)
<1>1. Itinerary(cfg, w)
  BY Planned
<1>2. Making(w, T) /\ Listening(T) /\ InOrder /\ NoChecks
  BY DEF Walked
<1>3. Script = ProverScripts[cfg]
  BY DEF Script
<1>4. Sizes(cfg, w) /\ Len(ProverScripts[cfg]) = w.m + w.n + 3
  BY <1>1 DEF Itinerary, Sizes
<1>5. ASSUME NEW act, AtOp(act)
      PROVE  pos \in 1..(w.m + w.n + 3) /\ Op.act = act
  <2>1. w.m \in Nat /\ w.n \in Nat /\ pos \in 1..(w.m + w.n + 4)
    BY <1>2, <1>4 DEF Making, Sizes
  <2>2. pos <= w.m + w.n + 3 /\ Op.act = act
    BY <1>3, <1>4, <1>5 DEF AtOp, Op
  <2> QED
    BY <2>1, <2>2
<1>6. \A j \in 1..(w.m + w.n + 3) : ProverMeets(w, j, ProverScripts[cfg][j])
  BY <1>1 DEF Itinerary
<1> QED
  BY <1>2, <1>3, <1>4, <1>5, <1>6 DEF Op

Fresh(f, e) ==
    /\ f \in Lists \ {"start"} /\ IsElem(e) /\ e.no = Len(made[f]) + 1 /\ e.intact = TRUE
    /\ f = "opens" => e.val = [rows |-> e.val.rows, salts |-> Salts(Len(made.opens))]
Adds(f, e) == made' = [made EXCEPT ![f] = Append(@, e)]

LEMMA OrderKept ==
  ASSUME InOrder, NEW f, NEW e, Fresh(f, e), Adds(f, e), cfg' = cfg
  PROVE  /\ InOrder'
         /\ \A g \in Lists : made'[g] = IF g = f THEN Append(made[f], e) ELSE made[g]
         /\ Len(made'[f]) = Len(made[f]) + 1 /\ made'[f][Len(made[f]) + 1] = e
         /\ \A i \in 1..Len(made[f]) : made'[f][i] = made[f][i]
<1>0. /\ f \in Lists \ {"start"} /\ IsElem(e) /\ e.no = Len(made[f]) + 1 /\ e.intact = TRUE
      /\ f = "opens" => e.val = [rows |-> e.val.rows, salts |-> Salts(Len(made.opens))]
  BY DEF Fresh
<1>1. made = [g \in Lists |-> made[g]] /\ \A g \in Lists : IsSeq(made[g])
  BY DEF InOrder
<1>2. made' = [g \in Lists |-> IF g = f THEN Append(made[f], e) ELSE made[g]]
  BY <1>1 DEF Adds
<1>3. PICK s, t, n : s = made[f] /\ t = made'[f] /\ n = Len(s)
  OBVIOUS
<1>4. t = Append(s, e) /\ IsSeq(s)
  BY <1>0, <1>1, <1>2, <1>3
<1>5. n \in Nat /\ IsSeq(t) /\ Len(t) = n + 1 /\ (\A i \in 1..n : t[i] = s[i]) /\ t[n + 1] = e
  BY <1>3, <1>4, AnyAppend, AnyLength
<1>6. \A i \in 1..n : IsElem(s[i]) /\ s[i].no = i /\ s[i].intact = TRUE
  BY <1>0, <1>3 DEF InOrder
<1>7. \A i \in 1..(n + 1) : IsElem(t[i]) /\ t[i].no = i /\ t[i].intact = TRUE
  BY <1>0, <1>3, <1>5, <1>6
<1>8. \A g \in Lists : /\ IsSeq(made'[g])
                       /\ \A i \in 1..Len(made'[g]) : IsElem(made'[g][i]) /\ made'[g][i].no = i /\ made'[g][i].intact = TRUE
  <2> TAKE g \in Lists
  <2>1. CASE g = f
    BY <1>3, <1>5, <1>7, <2>1
  <2>2. CASE g # f
    <3>1. made'[g] = made[g]
      BY <1>2, <2>2
    <3>2. IsSeq(made[g]) /\ \A i \in 1..Len(made[g]) : IsElem(made[g][i]) /\ made[g][i].no = i /\ made[g][i].intact = TRUE
      BY DEF InOrder
    <3> QED
      BY <3>1, <3>2
  <2> QED
    BY <2>1, <2>2
<1>9. Len(made'.start) = 2
  <2>1. made'["start"] = made["start"]
    BY <1>0, <1>2, TagsApart
  <2> QED
    BY <2>1 DEF InOrder
<1>10. \A i \in 1..Len(made'.opens) : made'.opens[i].val = [rows |-> made'.opens[i].val.rows, salts |-> Salts(i - 1)]
  <2>1. \A i \in 1..Len(made.opens) : made.opens[i].val = [rows |-> made.opens[i].val.rows, salts |-> Salts(i - 1)]
    BY DEF InOrder
  <2>2. CASE f = "opens"
    <3>1. (n + 1) - 1 = n /\ n = Len(made.opens)
      BY <1>3, <1>5, <2>2
    <3>2. \A i \in 1..(n + 1) : i \in 1..n \/ i = n + 1
      BY <1>5
    <3>3. made.opens = s /\ made'.opens = t
      BY <1>3, <2>2
    <3>4. \A i \in 1..n : t[i].val = [rows |-> t[i].val.rows, salts |-> Salts(i - 1)]
      BY <1>5, <2>1, <3>1, <3>3
    <3>5. t[n + 1].val = [rows |-> t[n + 1].val.rows, salts |-> Salts((n + 1) - 1)]
      BY <1>0, <1>5, <2>2, <3>1
    <3>6. \A i \in 1..Len(t) : t[i].val = [rows |-> t[i].val.rows, salts |-> Salts(i - 1)]
      BY <1>5, <3>2, <3>4, <3>5
    <3> QED
      BY <3>3, <3>6
  <2>3. CASE f # "opens"
    <3>1. made'["opens"] = made["opens"]
      BY <1>2, <2>3, TagsApart
    <3> QED
      BY <2>1, <3>1
  <2> QED
    BY <2>2, <2>3
<1>11. \A i : Salts(i)' = Salts(i)
  BY DEF Salts
<1>12. InOrder'
  <2>1. made' = [g \in Lists |-> made'[g]]
    BY <1>2
  <2>2. \A i \in 1..Len(made'.opens) : made'.opens[i].val = [rows |-> made'.opens[i].val.rows, salts |-> Salts(i - 1)']
    BY <1>10, <1>11
  <2> QED
    BY <1>8, <1>9, <2>1, <2>2 DEF InOrder
<1>13. \A g \in Lists : made'[g] = IF g = f THEN Append(made[f], e) ELSE made[g]
  BY <1>2
<1> QED
  BY <1>3, <1>5, <1>12, <1>13

LEMMA CountKept ==
  ASSUME cfg \in Configs, NEW w, Sizes(cfg, w)
  PROVE  LastCount(w) \in Counts /\ \A f \in Told : LastCount(w)[f] \in Nat
<1>1. LastCount(w) \in Counts
  BY DEF Sizes, Ending, LastCount
<1>2. Told \subseteq Counted
  BY DEF Counted
<1> QED
  BY <1>1, <1>2 DEF Counts

(* The cut of the proof at the last draw stays what it was when an element is added. *)
Grown(p, q, f, e) == \A g \in Told : IsSeq(p[g]) /\ q[g] = IF g = f THEN Append(p[f], e) ELSE p[g]

LEMMA CutKept ==
  ASSUME cfg \in Configs, NEW w, Sizes(cfg, w), NEW p, NEW q, NEW f, NEW e, Grown(p, q, f, e),
         \A g \in Told : LastCount(w)[g] <= Len(p[g])
  PROVE  Cut(q, LastCount(w)) = Cut(p, LastCount(w)) /\ \A g \in Told : LastCount(w)[g] <= Len(q[g])
<1>1. ASSUME NEW g \in Told
      PROVE  SubSeq(q[g], 1, LastCount(w)[g]) = SubSeq(p[g], 1, LastCount(w)[g]) /\ LastCount(w)[g] <= Len(q[g])
  <2>1. PICK k \in Nat : k = LastCount(w)[g]
    BY CountKept
  <2>2. PICK s, n : s = p[g] /\ n = Len(s)
    OBVIOUS
  <2>3. IsSeq(s) /\ k <= n
    BY <2>1, <2>2 DEF Grown
  <2>4. n \in Nat
    BY <2>2, <2>3, AnyLength
  <2>5. k \in 0..Len(s)
    BY <2>1, <2>2, <2>3, <2>4
  <2>6. CASE g = f
    <3>1. q[g] = Append(s, e)
      BY <2>2, <2>6 DEF Grown
    <3>2. SubSeq(Append(s, e), 1, k) = SubSeq(s, 1, k)
      BY <2>3, <2>5, PartKept
    <3>3. Len(Append(s, e)) = n + 1
      BY <2>2, <2>3, AnyAppend
    <3>4. k <= n + 1
      BY <2>1, <2>3, <2>4
    <3> QED
      BY <2>1, <2>2, <3>1, <3>2, <3>3, <3>4
  <2>7. CASE g # f
    BY <2>7 DEF Grown
  <2> QED
    BY <2>6, <2>7
<1>2. Cut(q, LastCount(w)) = Cut(p, LastCount(w))
  BY <1>1 DEF Cut
<1> QED
  BY <1>1, <1>2

(* What an operation counts. *)
LEMMA MeetsCounts ==
  ASSUME NEW op, NEW k, NEW r, Meets(op, k, r)
  PROVE  /\ k \in Counts /\ \A f \in Counted : k[f] \in Nat
         /\ op.act \in {"say", "grind", "open"} =>
              op.of \in Counted /\ \A f \in Counted : r[f] = IF f = op.of THEN k[f] + 1 ELSE k[f]
         /\ op.act \in {"draw", "queries", "check"} => \A f \in Told \cup {"opens"} : r[f] = k[f]
         /\ op.act \in {"draw", "check"} => r = k
<1>1. k \in Counts /\ r = Tally(k, op)
  BY DEF Meets
<1>2. op.act = "say" \/ op.act = "grind" \/ op.act = "open" => op.of \in Counted
  BY TagsApart DEF Meets, Counted
<1>3. "none" \notin Told \cup {"opens"} /\ "queries" \notin Told \cup {"opens"} /\ Told \cup {"opens"} \subseteq Counted
  BY DEF Told, NonceLists, Counted
<1>4. op.act \in {"say", "grind", "open"} => \A f \in Counted : r[f] = IF f = op.of THEN k[f] + 1 ELSE k[f]
  BY <1>1 DEF Tally, Takes
<1>5. op.act \in {"draw", "queries", "check"} => \A f \in Told \cup {"opens"} : r[f] = k[f]
  <2>1. op.act \in {"draw", "queries", "check"} => Takes(op) \in {"none", "queries"}
    BY DEF Takes
  <2>2. \A f \in Counted : r[f] = IF f = Takes(op) THEN k[f] + 1 ELSE k[f]
    BY <1>1 DEF Tally
  <2> QED
    BY <1>3, <2>1, <2>2
<1>6. op.act \in {"draw", "check"} => r = k
  BY <1>1, TakesNone
<1>7. \A f \in Counted : k[f] \in Nat
  BY <1>1 DEF Counts
<1> QED
  BY <1>1, <1>2, <1>4, <1>5, <1>6, <1>7

LEMMA ListenKept ==
  ASSUME NEW T, Listening(T), NEW U, Recalls(log', U), Kept(log, T, log', U), chal' = chal, NEW x, tr' = Absorbed(tr, x)
  PROVE  /\ Listening(U)' /\ U[chal'] = T[chal] /\ \A k \in 0..Len(log) : k \in 0..Len(log') /\ U[k] = T[k]
         /\ \A r : Tells(T[tr.at], tr.since, r) => Tells(U[tr'.at], tr'.since, Tell(r, x))
<1>1. /\ tr = [at |-> tr.at, since |-> tr.since] /\ tr.at \in 0..Len(log) /\ IsSeq(tr.since)
      /\ chal \in 0..Len(log)
  BY DEF Listening
<1>2. Len(log) \in Nat /\ Len(log') \in Nat /\ Len(log) <= Len(log') /\ \A k \in 0..Len(log) : U[k] = T[k]
  BY DEF Kept
<1>3. \A k \in 0..Len(log) : k \in 0..Len(log')
  BY <1>2
<1>4. tr' = [at |-> tr.at, since |-> Append(tr.since, x)]
  BY <1>1 DEF Absorbed
<1>5. tr'.at = tr.at /\ tr'.since = Append(tr.since, x)
  BY <1>4
<1>6. IsSeq(tr'.since)
  BY <1>1, <1>5, AnyAppend
<1>7. tr' = [at |-> tr'.at, since |-> tr'.since] /\ tr'.at \in 0..Len(log') /\ chal' \in 0..Len(log')
  BY <1>1, <1>3, <1>4, <1>5
<1>8. Listening(U)'
  BY <1>6, <1>7 DEF Listening
<1>9. U[chal'] = T[chal] /\ U[tr'.at] = T[tr.at]
  BY <1>1, <1>2, <1>5
<1>10. ASSUME NEW r, Tells(T[tr.at], tr.since, r)
       PROVE  Tells(U[tr'.at], tr'.since, Tell(r, x))
  <2>1. Tells(T[tr.at], Append(tr.since, x), Tell(r, x))
    BY <1>1, <1>10, TellsMore
  <2> QED
    BY <1>5, <1>9, <2>1
<1> QED
  BY <1>2, <1>3, <1>8, <1>9, <1>10

(* An element is made and absorbed. *)
LEMMA Adding ==
  ASSUME cfg \in Configs, NEW w, w = PlanOf(cfg), NEW T, Walked(w, T), phase = "prove",
         NEW U, Recalls(log', U), Kept(log, T, log', U),
         pos \in 1..(w.m + w.n + 3), NEW op, ProverMeets(w, pos, op), op.act \in {"say", "grind"},
         NEW v, NEW e, e = NewElem(op.of, v), made' = [made EXCEPT ![op.of] = Append(@, e)],
         tr' = Absorbed(tr, <<op.of, e>>), pos' = pos + 1, cfg' = cfg, phase' = phase, chal' = chal, UNCHANGED checkVars
  PROVE  Walked(w, U)'
<1>1. Sizes(cfg, w) /\ Making(w, T) /\ Listening(T) /\ InOrder
  BY Proving
<1>2. w.m \in Nat /\ w.n \in Nat /\ w.d \in Nat
  BY <1>1, SMTT(30) DEF Sizes
<1>3. PICK f : f = op.of
  OBVIOUS
<1>4. Meets(op, w.P[pos], w.P[pos + 1]) /\ pos # w.d /\ (op.act = "say" /\ f = "yr" <=> pos \in (w.m + 1)..(w.m + w.n))
  BY <1>3 DEF ProverMeets
<1>5. f \in Told /\ f \in Lists \ {"start"} /\ f # "opens"
  BY <1>3, <1>4, TagsApart DEF Meets
<1>6. f = "yr" <=> pos \in (w.m + 1)..(w.m + w.n)
  <2>1. op.act = "grind" => f # "yr"
    BY <1>3, <1>4 DEF Meets, NonceLists
  <2> QED
    BY <1>4, <2>1
<1>7. IsElem(e) /\ e.no = Len(made[f]) + 1 /\ e.intact = TRUE /\ e.at = chal
  BY <1>3 DEF NewElem, Elem, IsElem
<1>8. /\ InOrder'
      /\ \A g \in Lists : made'[g] = IF g = f THEN Append(made[f], e) ELSE made[g]
      /\ Len(made'[f]) = Len(made[f]) + 1 /\ made'[f][Len(made[f]) + 1] = e
      /\ \A i \in 1..Len(made[f]) : made'[f][i] = made[f][i]
  <2>1. Adds(f, e)
    BY <1>3 DEF Adds
  <2>2. Fresh(f, e)
    BY <1>5, <1>7 DEF Fresh
  <2> QED
    BY <1>1, <2>1, <2>2, OrderKept
<1>9. \A g \in Lists : IsSeq(made[g])
  BY <1>1 DEF InOrder
<1>10. /\ Listening(U)' /\ U[chal'] = T[chal]
       /\ Tells(U[tr'.at], tr'.since, Tell(Whole(made), <<f, e>>))
  <2>1. Tells(T[tr.at], tr.since, Whole(made))
    BY <1>1 DEF Making
  <2> QED
    BY <1>1, <1>3, <2>1, ListenKept
<1>11. Tell(Whole(made), <<f, e>>) = Whole(made')
  <2>1. Told \subseteq DOMAIN made
    BY <1>1, TagsApart DEF InOrder
  <2> QED
    BY <1>3, <1>5, <2>1, TellsMade, ZenonT(40)
<1>12. pos' \in 1..(w.m + w.n + 4)
  BY <1>2
<1>13. \A g \in Lists \ {"start"} : Len(made'[g]) = w.P[pos'][g]
  <2> TAKE g \in Lists \ {"start"}
  <2>1. w.P[pos + 1][g] = IF g = f THEN w.P[pos][g] + 1 ELSE w.P[pos][g]
    BY <1>3, <1>4, MeetsCounts, TagsApart
  <2>2. Len(made[g]) = w.P[pos][g]
    BY <1>1 DEF Making
  <2> QED
    BY <1>8, <2>1, <2>2
<1>14. pos' <= w.m + 1 => Len(made'["yr"]) = 0
  <2>1. ASSUME pos' <= w.m + 1
        PROVE  Len(made'["yr"]) = 0
    <3>1. pos <= w.m + 1 /\ ~(pos \in (w.m + 1)..(w.m + w.n))
      BY <1>2, <2>1
    <3>2. made'["yr"] = made["yr"]
      BY <1>6, <1>8, <3>1, TagsApart
    <3>3. Len(made["yr"]) = 0
      BY <1>1, <3>1 DEF Making
    <3> QED
      BY <3>2, <3>3
  <2> QED
    BY <2>1
<1>15. \A i \in 1..Len(made'["yr"]) : made'["yr"][i].at = chal'
  <2>1. \A i \in 1..Len(made["yr"]) : made["yr"][i].at = chal
    BY <1>1 DEF Making
  <2>2. CASE f = "yr"
    <3>1. PICK n \in Nat : n = Len(made[f])
      BY <1>5, <1>9, AnyLength
    <3>2. \A i \in 1..(n + 1) : i \in 1..n \/ i = n + 1
      BY <3>1
    <3> QED
      BY <1>7, <1>8, <2>1, <2>2, <3>1, <3>2
  <2>3. CASE f # "yr"
    <3>1. made'["yr"] = made["yr"]
      BY <1>8, <2>3, TagsApart
    <3> QED
      BY <2>1, <3>1
  <2> QED
    BY <2>2, <2>3
<1>16. pos' > w.d => U[chal'] = Cut(made', LastCount(w)) /\ \A g \in Told : LastCount(w)[g] <= Len(made'[g])
  <2>1. ASSUME pos' > w.d
        PROVE  U[chal'] = Cut(made', LastCount(w)) /\ \A g \in Told : LastCount(w)[g] <= Len(made'[g])
    <3>1. pos > w.d
      BY <1>2, <1>4, <2>1
    <3>2. T[chal] = Cut(made, LastCount(w)) /\ \A g \in Told : LastCount(w)[g] <= Len(made[g])
      BY <1>1, <3>1 DEF Making
    <3>a. PICK p, q : p = made /\ q = made'
      OBVIOUS
    <3>3. Grown(p, q, f, e) /\ \A g \in Told : LastCount(w)[g] <= Len(p[g])
      BY <1>8, <1>9, <3>2, <3>a, TagsApart DEF Grown
    <3>4. Cut(q, LastCount(w)) = Cut(p, LastCount(w)) /\ \A g \in Told : LastCount(w)[g] <= Len(q[g])
      BY <1>1, <3>3, CutKept
    <3>5. Cut(made', LastCount(w)) = Cut(made, LastCount(w)) /\ \A g \in Told : LastCount(w)[g] <= Len(made'[g])
      BY <3>4, <3>a
    <3> QED
      BY <1>10, <3>2, <3>5
  <2> QED
    BY <2>1
<1>17. Making(w, U)'
  BY <1>10, <1>11, <1>12, <1>13, <1>14, <1>15, <1>16 DEF Making
<1>18. NoChecks'
  BY Proving DEF NoChecks, checkVars
<1> QED
  BY <1>8, <1>10, <1>17, <1>18 DEF Walked

(* Nothing is asked. *)
LEMMA LogStays ==
  ASSUME NEW T, Listening(T), log' = log
  PROVE  Recalls(log', T) /\ Kept(log, T, log', T)
<1>1. Recalls(log, T) /\ Len(log) \in Nat
  BY AnyLength DEF Listening, Recalls
<1> QED
  BY <1>1 DEF Kept

(* A squeeze or the proof of work asks a point that tells what the transcript told. *)
LEMMA Asking ==
  ASSUME NEW T, Listening(T), NEW x, x[1] \notin Told, NEW p, p = Absorbed(tr, x), NEW a, NEW bad, Answered(p, a, bad),
         NEW r, Tells(T[tr.at], tr.since, r)
  PROVE  \E U : /\ Recalls(log', U) /\ Kept(log, T, log', U)
                /\ PointId(p) \in 0..Len(log') /\ U[PointId(p)] = r
<1>1. Recalls(log, T) /\ tr = [at |-> tr.at, since |-> tr.since] /\ tr.at \in 0..Len(log) /\ IsSeq(tr.since)
  BY DEF Listening
<1>2. p = [at |-> tr.at, since |-> Append(tr.since, x)]
  BY <1>1 DEF Absorbed
<1>3. p.at = tr.at /\ p.since = Append(tr.since, x)
  BY <1>2
<1>4. p.at \in 0..Len(log) /\ IsSeq(p.since)
  BY <1>1, <1>3, AnyAppend
<1>5. Tells(T[tr.at], Append(tr.since, x), Tell(r, x))
  BY <1>1, TellsMore
<1>6. Tells(T[p.at], p.since, r)
  BY <1>3, <1>5, TellsNot
<1>7. Stands(p, T, r)
  BY <1>4, <1>6 DEF Stands
<1> QED
  BY <1>1, <1>7, Answering

LEMMA Squeezed ==
  ASSUME NEW U, Recalls(log', U), NEW p, PointId(p) \in 0..Len(log'), tr' = After(p)
  PROVE  /\ tr' = [at |-> tr'.at, since |-> tr'.since] /\ tr'.at \in 0..Len(log') /\ IsSeq(tr'.since)
         /\ Tells(U[tr'.at], tr'.since, U[PointId(p)])
<1>1. tr' = [at |-> PointId(p), since |-> <<>>]
  BY DEF After
<1>2. tr'.at = PointId(p) /\ tr'.since = <<>>
  BY <1>1
<1>3. IsSeq(<<>>)
  BY AnyNone
<1>4. Tells(U[PointId(p)], <<>>, U[PointId(p)])
  BY TellsNone
<1>5. tr' = [at |-> tr'.at, since |-> tr'.since]
  BY <1>1, <1>2
<1> QED
  BY <1>2, <1>3, <1>4, <1>5

(* A step that makes nothing. *)
LEMMA Moving ==
  ASSUME cfg \in Configs, NEW w, w = PlanOf(cfg), NEW T, Walked(w, T), phase = "prove", pos \in 1..(w.m + w.n + 3),
         NEW U, Listening(U)', Tells(U[tr'.at], tr'.since, Whole(made)), made' = made, cfg' = cfg, phase' = phase,
         UNCHANGED checkVars,          pos' = pos \/ pos' = pos + 1, \A f \in Told \cup {"opens"} : w.P[pos'][f] = w.P[pos][f],
         chal' = chal \/ Len(made["yr"]) = 0,
         pos' > w.d => U[chal'] = Cut(made, LastCount(w)) /\ \A f \in Told : LastCount(w)[f] <= Len(made[f])
  PROVE  Walked(w, U)'
<1>1. Sizes(cfg, w) /\ Making(w, T) /\ Listening(T) /\ InOrder
  BY Proving
<1>2. w.m \in Nat /\ w.n \in Nat /\ w.d \in Nat
  BY <1>1 DEF Sizes
<1>3. InOrder'
  <2>1. \A i : Salts(i)' = Salts(i)
    BY DEF Salts
  <2> QED
    BY <1>1, <2>1 DEF InOrder
<1>4. pos' \in 1..(w.m + w.n + 4)
  BY <1>2
<1>5. \A f \in Lists \ {"start"} : Len(made'[f]) = w.P[pos'][f]
  BY <1>1, TagsApart DEF Making
<1>6. pos' <= w.m + 1 => Len(made'["yr"]) = 0
  <2>1. pos' <= w.m + 1 => pos <= w.m + 1
    BY <1>2
  <2> QED
    BY <1>1, <2>1 DEF Making
<1>7. \A i \in 1..Len(made'["yr"]) : made'["yr"][i].at = chal'
  <2>1. CASE chal' = chal
    BY <1>1, <2>1 DEF Making
  <2>2. CASE Len(made["yr"]) = 0
    BY <2>2
  <2> QED
    BY <2>1, <2>2
<1>8. Making(w, U)'
  BY <1>4, <1>5, <1>6, <1>7 DEF Making
<1>9. NoChecks'
  BY Proving DEF NoChecks, checkVars
<1> QED
  BY <1>3, <1>8, <1>9 DEF Walked

LEMMA ProverDraws ==
  ASSUME cfg \in Configs, NEW w, w = PlanOf(cfg), NEW T, Walked(w, T), phase = "prove", DrawChallenge
  PROVE  \E U : Walked(w, U)'
<1>1. Sizes(cfg, w) /\ Making(w, T) /\ Listening(T)
  BY Proving
<1>2. PICK op : op = Op
  OBVIOUS
<1>3. pos \in 1..(w.m + w.n + 3) /\ op.act = "draw" /\ ProverMeets(w, pos, op)
  <2>1. AtOp("draw")
    BY DEF DrawChallenge
  <2> QED
    BY <1>2, <2>1, Proving
<1>4. PICK x, p : x = <<"squeeze", op.of \in {"z", "alpha"}, op.n>> /\ p = Absorbed(tr, x)
  OBVIOUS
<1>5. x[1] \notin Told
  BY <1>4, TagsApart
<1>6. /\ \/ op.n = 0 /\ tr' = p /\ chal' = chal /\ log' = log
         \/ op.n # 0 /\ Answered(p, 0, FALSE) /\ tr' = After(p) /\ chal' = PointId(p)
      /\ pos' = pos + 1 /\ cfg' = cfg /\ phase' = phase /\ made' = made /\ UNCHANGED checkVars
  BY <1>2, <1>4 DEF DrawChallenge, Advance, checkVars
<1>7. Tells(T[tr.at], tr.since, Whole(made))
  BY <1>1 DEF Making
<1>8. w.m \in Nat /\ w.n \in Nat /\ w.d \in 1..w.m /\ w.P[w.d] = w.V[w.d + 1]
  BY <1>1 DEF Sizes
<1>9. pos <= w.d /\ (pos = w.d => op.n = 1) /\ Meets(op, w.P[pos], w.P[pos + 1])
  BY <1>3 DEF ProverMeets
<1>10. Len(made["yr"]) = 0
  <2>1. pos <= w.m + 1
    BY <1>3, <1>8, <1>9
  <2> QED
    BY <1>1, <2>1 DEF Making
<1>11. \A f \in Told \cup {"opens"} : w.P[pos'][f] = w.P[pos][f]
  BY <1>3, <1>6, <1>9, MeetsCounts
<1>12. CASE op.n = 0
  <2>1. Recalls(log', T) /\ Kept(log, T, log', T)
    BY <1>1, <1>6, <1>12, LogStays
  <2>2. tr' = Absorbed(tr, x) /\ chal' = chal
    BY <1>4, <1>6, <1>12
  <2>3. Listening(T)' /\ Tells(T[tr'.at], tr'.since, Tell(Whole(made), x))
    BY <1>1, <1>7, <2>1, <2>2, ListenKept
  <2>4. Tells(T[tr'.at], tr'.since, Whole(made))
    BY <1>5, <2>3, TellsNot
  <2>5. ~(pos' > w.d)
    BY <1>3, <1>6, <1>8, <1>9, <1>12
  <2>6. Walked(w, T)'
    BY <1>3, <1>6, <1>10, <1>11, <2>3, <2>4, <2>5, Moving
  <2> QED
    BY <2>6
<1>13. CASE op.n # 0
  <2>a. PICK a, bad : a = 0 /\ bad = FALSE
    OBVIOUS
  <2>1. Answered(p, a, bad) /\ tr' = After(p) /\ chal' = PointId(p)
    BY <1>6, <1>13, <2>a
  <2>2. PICK U : /\ Recalls(log', U) /\ Kept(log, T, log', U)
                 /\ PointId(p) \in 0..Len(log') /\ U[PointId(p)] = Whole(made)
    BY <1>1, <1>4, <1>5, <1>7, <2>1, Asking
  <2>3. /\ tr' = [at |-> tr'.at, since |-> tr'.since] /\ tr'.at \in 0..Len(log') /\ IsSeq(tr'.since)
        /\ Tells(U[tr'.at], tr'.since, U[PointId(p)])
    BY <2>1, <2>2, Squeezed
  <2>4. Listening(U)'
    BY <2>1, <2>2, <2>3 DEF Listening
  <2>5. ASSUME pos' > w.d
        PROVE  U[chal'] = Cut(made, LastCount(w)) /\ \A f \in Told : LastCount(w)[f] <= Len(made[f])
    <3>1. pos = w.d
      BY <1>3, <1>6, <1>8, <1>9, <2>5
    <3>2. LastCount(w) = w.P[pos]
      BY <1>8, <3>1 DEF LastCount
    <3>3. \A f \in Told : LastCount(w)[f] = Len(made[f])
      BY <1>1, <3>2, TagsApart DEF Making
    <3>4. ASSUME NEW f \in Told
          PROVE  SubSeq(made[f], 1, Len(made[f])) = made[f] /\ Len(made[f]) <= Len(made[f])
      <4>1. PICK s : s = made[f]
        OBVIOUS
      <4>2. IsSeq(s)
        BY <1>1, <4>1, Proving, TagsApart DEF InOrder
      <4>3. SubSeq(s, 1, Len(s)) = s /\ Len(s) \in Nat
        BY <4>2, PartAll, AnyLength
      <4>4. Len(s) <= Len(s)
        BY <4>3
      <4> QED
        BY <4>1, <4>3, <4>4
    <3>5. Cut(made, LastCount(w)) = Whole(made)
      BY <3>3, <3>4 DEF Cut, Whole
    <3>6. U[chal'] = Whole(made)
      BY <2>1, <2>2
    <3> QED
      BY <3>3, <3>4, <3>5, <3>6
  <2>6. Tells(U[tr'.at], tr'.since, Whole(made))
    BY <2>2, <2>3
  <2>7. Walked(w, U)'
    BY <1>3, <1>6, <1>10, <1>11, <2>4, <2>5, <2>6, Moving
  <2> QED
    BY <2>7
<1> QED
  BY <1>12, <1>13

LEMMA ProverSamples ==
  ASSUME cfg \in Configs, NEW w, w = PlanOf(cfg), NEW T, Walked(w, T), phase = "prove", NEW v, SamplePosition(v)
  PROVE  \E U : Walked(w, U)'
<1>1. Sizes(cfg, w) /\ Making(w, T) /\ Listening(T)
  BY Proving
<1>2. PICK op : op = Op
  OBVIOUS
<1>3. pos \in 1..(w.m + w.n + 3) /\ op.act = "queries" /\ ProverMeets(w, pos, op)
  <2>1. AtOp("queries")
    BY DEF SamplePosition
  <2> QED
    BY <1>2, <2>1, Proving
<1>4. PICK x, p : x = <<"squeeze", FALSE, 1>> /\ p = Absorbed(tr, x)
  OBVIOUS
<1>5. x[1] \notin Told
  BY <1>4, TagsApart
<1>6. /\ Answered(p, v, v \in got) /\ tr' = After(p) /\ chal' = chal
      /\ (pos' = pos \/ pos' = pos + 1) /\ cfg' = cfg /\ phase' = phase /\ made' = made /\ UNCHANGED checkVars
  BY <1>4 DEF SamplePosition, Advance
<1>7. Tells(T[tr.at], tr.since, Whole(made))
  BY <1>1 DEF Making
<1>8. w.m \in Nat /\ w.n \in Nat /\ w.d \in 1..w.m
  BY <1>1 DEF Sizes
<1>9. pos # w.d /\ Meets(op, w.P[pos], w.P[pos + 1])
  BY <1>3 DEF ProverMeets
<1>11. \A f \in Told \cup {"opens"} : w.P[pos'][f] = w.P[pos][f]
  BY <1>3, <1>6, <1>9, MeetsCounts
<1>12. PICK U : /\ Recalls(log', U) /\ Kept(log, T, log', U)
                /\ PointId(p) \in 0..Len(log') /\ U[PointId(p)] = Whole(made)
  BY <1>1, <1>4, <1>5, <1>6, <1>7, Asking
<1>13. /\ tr' = [at |-> tr'.at, since |-> tr'.since] /\ tr'.at \in 0..Len(log') /\ IsSeq(tr'.since)
       /\ Tells(U[tr'.at], tr'.since, U[PointId(p)])
  BY <1>6, <1>12, Squeezed
<1>14. chal \in 0..Len(log') /\ U[chal] = T[chal]
  <2>1. chal \in 0..Len(log) /\ Len(log) \in Nat /\ Len(log') \in Nat /\ Len(log) <= Len(log')
    BY <1>1, <1>12 DEF Listening, Kept
  <2>2. chal \in 0..Len(log')
    BY <2>1
  <2> QED
    BY <1>12, <2>1, <2>2 DEF Kept
<1>15. Listening(U)'
  BY <1>6, <1>12, <1>13, <1>14 DEF Listening
<1>16. ASSUME pos' > w.d
       PROVE  U[chal'] = Cut(made, LastCount(w)) /\ \A f \in Told : LastCount(w)[f] <= Len(made[f])
  <2>1. pos > w.d
    BY <1>3, <1>6, <1>8, <1>9, <1>16
  <2> QED
    BY <1>1, <1>6, <1>14, <2>1 DEF Making
<1>17. Tells(U[tr'.at], tr'.since, Whole(made))
  BY <1>12, <1>13
<1>18. Walked(w, U)'
  BY <1>3, <1>6, <1>11, <1>15, <1>16, <1>17, Moving
<1> QED
  BY <1>18

LEMMA ProverSaying ==
  ASSUME cfg \in Configs, NEW w, w = PlanOf(cfg), NEW T, Walked(w, T), ProverSays
  PROVE  \E U : Walked(w, U)'
<1>0. phase = "prove" /\ AtOp("say")
  BY DEF ProverSays
<1>1. Listening(T)
  BY <1>0, Proving
<1>2. PICK op, v : op = Op /\ v = 0
  OBVIOUS
<1>3. pos \in 1..(w.m + w.n + 3) /\ op.act = "say" /\ ProverMeets(w, pos, op)
  BY <1>0, <1>2, Proving
<1>4. PICK e : e = NewElem(op.of, v)
  OBVIOUS
<1>5. /\ made' = [made EXCEPT ![op.of] = Append(@, e)] /\ tr' = Absorbed(tr, <<op.of, e>>)
      /\ pos' = pos + 1 /\ cfg' = cfg /\ phase' = phase /\ chal' = chal /\ log' = log /\ UNCHANGED checkVars
  BY <1>2, <1>4 DEF ProverSays, Advance
<1>6. Recalls(log', T) /\ Kept(log, T, log', T)
  BY <1>1, <1>5, LogStays
<1>7. op.act \in {"say", "grind"}
  BY <1>3
<1>8. Walked(w, T)'
  BY <1>0, <1>3, <1>4, <1>5, <1>6, <1>7, Adding
<1> QED
  BY <1>8

LEMMA ProverGrinding ==
  ASSUME cfg \in Configs, NEW w, w = PlanOf(cfg), NEW T, Walked(w, T), NEW hits, ProverGrinds(hits)
  PROVE  \E U : Walked(w, U)'
<1>0. phase = "prove" /\ AtOp("grind")
  BY DEF ProverGrinds
<1>1. Listening(T) /\ Making(w, T)
  BY <1>0, Proving
<1>2. PICK op, v : op = Op /\ v = LeastOf(hits)
  OBVIOUS
<1>3. pos \in 1..(w.m + w.n + 3) /\ op.act = "grind" /\ ProverMeets(w, pos, op)
  BY <1>0, <1>2, Proving
<1>4. PICK e, x, p, bad : e = NewElem(op.of, v) /\ x = <<"pow">> /\ p = Absorbed(tr, x) /\ bad = (0 \notin hits)
  OBVIOUS
<1>5. /\ made' = [made EXCEPT ![op.of] = Append(@, e)] /\ tr' = Absorbed(tr, <<op.of, e>>)
      /\ pos' = pos + 1 /\ cfg' = cfg /\ phase' = phase /\ chal' = chal /\ UNCHANGED checkVars
      /\ log' = log \/ Answered(p, hits, bad)
  BY <1>2, <1>4 DEF ProverGrinds, Advance
<1>6. PICK U : Recalls(log', U) /\ Kept(log, T, log', U)
  <2>1. CASE log' = log
    BY <1>1, <2>1, LogStays
  <2>2. CASE Answered(p, hits, bad)
    <3>1. x[1] \notin Told
      BY <1>4, TagsApart
    <3>2. Tells(T[tr.at], tr.since, Whole(made))
      BY <1>1 DEF Making
    <3> QED
      BY <1>1, <1>4, <2>2, <3>1, <3>2, Asking
  <2> QED
    BY <1>5, <2>1, <2>2
<1>7. op.act \in {"say", "grind"}
  BY <1>3
<1>8. Walked(w, U)'
  BY <1>0, <1>3, <1>4, <1>5, <1>6, <1>7, Adding
<1> QED
  BY <1>8

LEMMA ProverOpening ==
  ASSUME cfg \in Configs, NEW w, w = PlanOf(cfg), NEW T, Walked(w, T), ProverOpens
  PROVE  \E U : Walked(w, U)'
<1>0. phase = "prove" /\ AtOp("open")
  BY DEF ProverOpens
<1>1. Sizes(cfg, w) /\ Making(w, T) /\ Listening(T) /\ InOrder
  BY <1>0, Proving
<1>2. PICK op, f, v : op = Op /\ f = "opens" /\ v = [rows |-> got, salts |-> Salts(op.n)]
  OBVIOUS
<1>3. pos \in 1..(w.m + w.n + 3) /\ op.act = "open" /\ ProverMeets(w, pos, op)
  BY <1>0, <1>2, Proving
<1>4. PICK e : e = NewElem(f, v)
  OBVIOUS
<1>5. /\ made' = [made EXCEPT ![f] = Append(@, e)] /\ tr' = tr
      /\ pos' = pos + 1 /\ cfg' = cfg /\ phase' = phase /\ chal' = chal /\ log' = log /\ UNCHANGED checkVars
  BY <1>2, <1>4 DEF ProverOpens, Advance
<1>6. w.m \in Nat /\ w.n \in Nat /\ w.d \in Nat
  BY <1>1 DEF Sizes
<1>7. Meets(op, w.P[pos], w.P[pos + 1]) /\ pos # w.d
  BY <1>3 DEF ProverMeets
<1>8. op.of = "opens" /\ op.n = w.P[pos]["opens"]
  BY <1>3, <1>7 DEF Meets
<1>9. Len(made["opens"]) = op.n
  BY <1>1, <1>8, TagsApart DEF Making
<1>10. Fresh(f, e)
  <2>1. f \in Lists \ {"start"}
    BY <1>2, TagsApart
  <2>2. IsElem(e) /\ e.no = Len(made[f]) + 1 /\ e.intact = TRUE /\ e.val = v
    BY <1>4 DEF NewElem, Elem, IsElem
  <2>3. e.val = [rows |-> e.val.rows, salts |-> Salts(Len(made["opens"]))]
    BY <1>2, <1>9, <2>2
  <2> QED
    BY <2>1, <2>2, <2>3 DEF Fresh
<1>11. Adds(f, e)
  BY <1>5 DEF Adds
<1>12. /\ InOrder'
       /\ \A g \in Lists : made'[g] = IF g = f THEN Append(made[f], e) ELSE made[g]
       /\ Len(made'[f]) = Len(made[f]) + 1
  BY <1>1, <1>5, <1>10, <1>11, OrderKept
<1>13. \A g \in Told : made'[g] = made[g]
  BY <1>2, <1>12, TagsApart
<1>14. Whole(made') = Whole(made) /\ Cut(made', LastCount(w)) = Cut(made, LastCount(w))
  BY <1>13 DEF Whole, Cut
<1>15. \A g \in Lists \ {"start"} : Len(made'[g]) = w.P[pos'][g]
  <2> TAKE g \in Lists \ {"start"}
  <2>1. w.P[pos + 1][g] = IF g = f THEN w.P[pos][g] + 1 ELSE w.P[pos][g]
    BY <1>2, <1>3, <1>7, <1>8, MeetsCounts, TagsApart
  <2>2. Len(made[g]) = w.P[pos][g]
    BY <1>1 DEF Making
  <2> QED
    BY <1>5, <1>12, <2>1, <2>2
<1>16. pos' \in 1..(w.m + w.n + 4) /\ (pos' <= w.m + 1 => pos <= w.m + 1) /\ (pos' > w.d => pos > w.d)
  BY <1>3, <1>5, <1>6, <1>7
<1>17. Listening(T)'
  BY <1>1, <1>5 DEF Listening
<1>18. Making(w, T)'
  <2>1. made'["yr"] = made["yr"] /\ \A g \in Told : made'[g] = made[g]
    BY <1>13, TagsApart
  <2>2. pos' <= w.m + 1 => Len(made'["yr"]) = 0
    BY <1>1, <1>16, <2>1 DEF Making
  <2>3. \A i \in 1..Len(made'["yr"]) : made'["yr"][i].at = chal'
    BY <1>1, <1>5, <2>1 DEF Making
  <2>4. pos' > w.d => T[chal'] = Cut(made', LastCount(w)) /\ \A g \in Told : LastCount(w)[g] <= Len(made'[g])
    BY <1>1, <1>5, <1>14, <1>16, <2>1 DEF Making
  <2>5. Tells(T[tr'.at], tr'.since, Whole(made'))
    BY <1>1, <1>5, <1>14 DEF Making
  <2> QED
    BY <1>15, <1>16, <2>2, <2>3, <2>4, <2>5 DEF Making
<1>a. NoChecks'
  BY <1>0, <1>5, Proving DEF NoChecks, checkVars
<1>19. Walked(w, T)'
  BY <1>5, <1>0, <1>12, <1>17, <1>18, <1>a DEF Walked
<1> QED
  BY <1>19
-----------------------------------------------------------------------------
(* What may happen to the proof on its way: where an element is still intact and    *)
(* nothing else is missing, it is one that was made.                                *)
Patched(t, s, i, v) == t = [s EXCEPT ![i] = v]

LEMMA AnyExcept ==
  ASSUME NEW s, IsSeq(s), NEW i, i \in 1..Len(s), NEW v, NEW t, Patched(t, s, i, v)
  PROVE  IsSeq(t) /\ Len(t) = Len(s) /\ \A j \in 1..Len(s) : t[j] = IF j = i THEN v ELSE s[j]
<1>0. t = [s EXCEPT ![i] = v]
  BY DEF Patched
<1>1. PICK S : s \in Seq(S)
  BY DEF IsSeq
<1>2. PICK U : U = S \cup {v}
  OBVIOUS
<1>3. s \in Seq(U) /\ v \in U
  <2>1. S \subseteq U
    BY <1>2
  <2> QED
    BY <1>1, <1>2, <2>1
<1>4. [s EXCEPT ![i] = v] \in Seq(U)
  BY <1>3
<1>5. Len([s EXCEPT ![i] = v]) = Len(s)
  BY <1>3
<1>6. DOMAIN s = 1..Len(s)
  BY <1>1
<1> QED
  BY <1>0, <1>4, <1>5, <1>6 DEF IsSeq

LEMMA AnyFilled ==
  ASSUME NEW s, IsSeq(s), s # <<>>
  PROVE  /\ Len(s) \in Nat \ {0} /\ Last(s) = s[Len(s)] /\ IsSeq(Front(s)) /\ Len(Front(s)) = Len(s) - 1
         /\ \A i \in 1..(Len(s) - 1) : Front(s)[i] = s[i]
<1>1. PICK n \in Nat : n = Len(s)
  BY AnyLength
<1>2. n # 0
  <2>1. IsSeq(<<>>) /\ Len(<<>>) = 0
    BY AnyNone
  <2>a. PICK t : t = <<>>
    OBVIOUS
  <2>2. n = 0 => s = t
    <3>1. ASSUME n = 0
          PROVE  s = t
      <4>1. IsSeq(s) /\ IsSeq(t) /\ Len(s) = Len(t) /\ \A i \in 1..Len(s) : s[i] = t[i]
        BY <1>1, <2>1, <2>a, <3>1
      <4> QED
        BY <4>1, AnySame
    <3> QED
      BY <3>1
  <2> QED
    BY <2>2, <2>a
<1>3. PICK k \in 0..Len(s) : k = n - 1
  BY <1>1, <1>2
<1>4. Front(s) = SubSeq(s, 1, k)
  BY <1>1, <1>3 DEF Front
<1>5. IsSeq(SubSeq(s, 1, k)) /\ Len(SubSeq(s, 1, k)) = k /\ \A i \in 1..k : SubSeq(s, 1, k)[i] = s[i]
  BY AnyPart
<1> QED
  BY <1>1, <1>2, <1>3, <1>4, <1>5 DEF Last

Formed(p) ==
    /\ p = [f \in Lists |-> p[f]]
    /\ \A f \in Lists : /\ IsSeq(p[f])
                        /\ \A i \in 1..Len(p[f]) : IsElem(p[f][i]) /\ p[f][i].intact = TRUE
    /\ Len(p["start"]) = 2 /\ Steps(cfg) \in Nat /\ Len(p["opens"]) = Steps(cfg) + 1
    /\ \A i \in 1..Len(p["opens"]) :
        /\ p["opens"][i].val = [rows |-> p["opens"][i].val.rows, salts |-> p["opens"][i].val.salts]
        /\ p["opens"][i].val.salts \in Nat

(* What is left of the list f = t in s. *)
Left(f, t, s) ==
    /\ IsSeq(s) /\ \A i \in 1..Len(s) : s[i].intact \in BOOLEAN
    /\ f = "yr" => \A i \in 1..Len(s) : s[i].intact = TRUE => \E j \in 1..Len(t) : s[i] = t[j]
    /\ f = "start" => s = t \/ s[1].intact = FALSE \/ s[2].intact = FALSE
    /\ f = "opens" =>
        \/ s = t \/ Len(s) # Len(t)
        \/ \E i \in 1..Len(t) : s[i].intact = FALSE \/ s[i].val.salts # t[i].val.salts

LEMMA LeftAll ==
  ASSUME NEW p, Formed(p), NEW f \in Lists
  PROVE  Left(f, p[f], p[f])
<1>1. IsSeq(p[f]) /\ \A i \in 1..Len(p[f]) : p[f][i].intact = TRUE
  BY DEF Formed
<1> QED
  BY <1>1 DEF Left

LEMMA OneChanged ==
  ASSUME NEW p, NEW q, Formed(p), NEW f \in Lists, NEW s, Patched(q, p, f, s), Left(f, p[f], s)
  PROVE  q = [g \in Lists |-> q[g]] /\ \A g \in Lists : Left(g, p[g], q[g])
<1>1. p = [g \in Lists |-> p[g]]
  BY DEF Formed
<1>2. q = [g \in Lists |-> IF g = f THEN s ELSE p[g]]
  BY <1>1 DEF Patched
<1>3. \A g \in Lists : q[g] = IF g = f THEN s ELSE p[g]
  BY <1>2
<1>4. \A g \in Lists : Left(g, p[g], p[g])
  BY LeftAll
<1>5. \A g \in Lists : Left(g, p[g], q[g])
  BY <1>3, <1>4
<1> QED
  BY <1>2, <1>5

LEMMA LeftChanged ==
  ASSUME NEW p, Formed(p), NEW f \in Lists, NEW i \in 1..Len(p[f]), NEW v,
         \/ f \notin NonceLists /\ v.intact = FALSE
         \/ f \in NonceLists /\ v.intact = TRUE
         \/ f = "opens" /\ v.intact = TRUE /\ v.val.salts # p[f][i].val.salts
  PROVE  Left(f, p[f], [p[f] EXCEPT ![i] = v])
<1>1. PICK t, s : t = p[f] /\ s = [t EXCEPT ![i] = v]
  OBVIOUS
<1>c. Patched(s, t, i, v)
  BY <1>1 DEF Patched
<1>2. IsSeq(t) /\ (\A j \in 1..Len(t) : t[j].intact = TRUE) /\ i \in 1..Len(t) /\ (f = "start" => Len(t) = 2)
  BY <1>1 DEF Formed
<1>3. IsSeq(s) /\ Len(s) = Len(t) /\ \A j \in 1..Len(t) : s[j] = IF j = i THEN v ELSE t[j]
  BY <1>2, <1>c, AnyExcept
<1>4. v.intact \in BOOLEAN
  OBVIOUS
<1>5. \A j \in 1..Len(s) : s[j].intact \in BOOLEAN
  BY <1>2, <1>3, <1>4
<1>6. "yr" \notin NonceLists /\ "start" \notin NonceLists /\ "opens" \notin NonceLists /\ "yr" # "opens" /\ "start" # "opens"
  BY DEF NonceLists
<1>7. f = "yr" => \A j \in 1..Len(s) : s[j].intact = TRUE => \E k \in 1..Len(t) : s[j] = t[k]
  BY <1>2, <1>3, <1>6
<1>8. f = "start" => s[1].intact = FALSE \/ s[2].intact = FALSE
  BY <1>2, <1>3, <1>6
<1>a. s[i] = v /\ t[i] = p[f][i]
  BY <1>1, <1>2, <1>3
<1>b. f = "opens" => s[i].intact = FALSE \/ s[i].val.salts # t[i].val.salts
  BY <1>6, <1>a
<1>9. f = "opens" => \E k \in 1..Len(t) : s[k].intact = FALSE \/ s[k].val.salts # t[k].val.salts
  BY <1>2, <1>b, SMTT(30)
<1> QED
  BY <1>1, <1>3, <1>5, <1>7, <1>8, <1>9 DEF Left

LEMMA AlteredLeft ==
  ASSUME NEW p, Formed(p), NEW q, q \in {p} \cup Altered(p)
  PROVE  q = [g \in Lists |-> q[g]] /\ \A g \in Lists : Left(g, p[g], q[g])
<1>0. /\ p = [f \in Lists |-> p[f]]
      /\ \A f \in Lists : IsSeq(p[f]) /\ \A i \in 1..Len(p[f]) : IsElem(p[f][i]) /\ p[f][i].intact = TRUE
      /\ \A f \in Lists : DOMAIN p[f] = 1..Len(p[f])
  BY AnyLength DEF Formed
<1>1. CASE q = p
  BY <1>0, <1>1, LeftAll
<1>2. CASE q \in {[p EXCEPT ![x[1]][x[2]].intact = FALSE] : x \in Places(p, Lists \ NonceLists)}
  <2>1. PICK x \in Places(p, Lists \ NonceLists) : q = [p EXCEPT ![x[1]][x[2]].intact = FALSE]
    BY <1>2
  <2>2. PICK f \in Lists \ NonceLists : x \in {f} \X DOMAIN p[f]
    BY <2>1 DEF Places
  <2>3. PICK i : i = x[2]
    OBVIOUS
  <2>4. x[1] = f /\ i \in 1..Len(p[f])
    BY <1>0, <2>2, <2>3
  <2>5. PICK e, v, s : e = p[f][i] /\ v = [e EXCEPT !.intact = FALSE] /\ s = [p[f] EXCEPT ![i] = v]
    OBVIOUS
  <2>6. Patched(q, p, f, s)
    BY <2>1, <2>3, <2>4, <2>5 DEF Patched
  <2>7. v.intact = FALSE
    <3>1. IsElem(e)
      BY <1>0, <2>4, <2>5
    <3> QED
      BY <2>5, <3>1 DEF IsElem
  <2>8. Left(f, p[f], s)
    BY <2>4, <2>5, <2>7, LeftChanged
  <2> QED
    BY <2>6, <2>8, OneChanged
<1>3. CASE q \in {[p EXCEPT ![x[1]][x[2]].val = 1 - @] : x \in Places(p, NonceLists)}
  <2>1. PICK x \in Places(p, NonceLists) : q = [p EXCEPT ![x[1]][x[2]].val = 1 - @]
    BY <1>3
  <2>2. PICK f \in NonceLists : x \in {f} \X DOMAIN p[f]
    BY <2>1 DEF Places
  <2>3. PICK i : i = x[2]
    OBVIOUS
  <2>4. x[1] = f /\ i \in 1..Len(p[f]) /\ f \in Lists
    BY <1>0, <2>2, <2>3 DEF Lists
  <2>5. PICK e, v, s : e = p[f][i] /\ v = [e EXCEPT !.val = 1 - @] /\ s = [p[f] EXCEPT ![i] = v]
    OBVIOUS
  <2>6. Patched(q, p, f, s)
    BY <2>1, <2>3, <2>4, <2>5 DEF Patched
  <2>7. v.intact = TRUE
    <3>1. IsElem(e) /\ e.intact = TRUE
      BY <1>0, <2>4, <2>5
    <3> QED
      BY <2>5, <3>1 DEF IsElem
  <2>8. Left(f, p[f], s)
    BY <2>4, <2>5, <2>7, LeftChanged
  <2> QED
    BY <2>4, <2>6, <2>8, OneChanged
<1>4. ASSUME NEW f \in Lists \ {"start"}, p[f] # <<>>, q = [p EXCEPT ![f] = Front(@)]
      PROVE  q = [g \in Lists |-> q[g]] /\ \A g \in Lists : Left(g, p[g], q[g])
  <2>1. PICK t, s : t = p[f] /\ s = Front(t)
    OBVIOUS
  <2>2. Patched(q, p, f, s)
    BY <1>4, <2>1 DEF Patched
  <2>3. IsSeq(t) /\ t # <<>> /\ \A i \in 1..Len(t) : t[i].intact = TRUE
    BY <1>0, <1>4, <2>1
  <2>4. /\ Len(t) \in Nat \ {0} /\ IsSeq(s) /\ Len(s) = Len(t) - 1
        /\ \A i \in 1..(Len(t) - 1) : s[i] = t[i]
    BY <2>1, <2>3, AnyFilled
  <2>5. \A i \in 1..Len(s) : i \in 1..Len(t) /\ s[i] = t[i]
    BY <2>4
  <2>6. Len(s) # Len(t)
    BY <2>4
  <2>7. Left(f, p[f], s)
    BY <2>1, <2>3, <2>4, <2>5, <2>6 DEF Left
  <2> QED
    BY <2>2, <2>7, OneChanged
<1>5. ASSUME NEW f \in Lists \ {"start"}, p[f] # <<>>, q = [p EXCEPT ![f] = Append(@, Last(@))]
      PROVE  q = [g \in Lists |-> q[g]] /\ \A g \in Lists : Left(g, p[g], q[g])
  <2>1. PICK t, e, s : t = p[f] /\ e = Last(t) /\ s = Append(t, e)
    OBVIOUS
  <2>2. Patched(q, p, f, s)
    BY <1>5, <2>1 DEF Patched
  <2>3. IsSeq(t) /\ t # <<>> /\ \A i \in 1..Len(t) : t[i].intact = TRUE
    BY <1>0, <1>5, <2>1
  <2>4. Len(t) \in Nat \ {0} /\ e = t[Len(t)]
    BY <2>1, <2>3, AnyFilled
  <2>5. IsSeq(s) /\ Len(s) = Len(t) + 1 /\ (\A i \in 1..Len(t) : s[i] = t[i]) /\ s[Len(t) + 1] = e
    BY <2>1, <2>3, AnyAppend
  <2>6. \A i \in 1..Len(s) : \E j \in 1..Len(t) : s[i] = t[j]
    <3> TAKE i \in 1..Len(s)
    <3>1. i \in 1..Len(t) \/ i = Len(t) + 1
      BY <2>4, <2>5
    <3>2. Len(t) \in 1..Len(t)
      BY <2>4
    <3> QED
      BY <2>4, <2>5, <3>1, <3>2
  <2>7. Len(s) # Len(t)
    BY <2>4, <2>5
  <2>9. \A i \in 1..Len(s) : s[i].intact \in BOOLEAN
    BY <2>3, <2>6
  <2>8. Left(f, t, s)
    BY <2>5, <2>6, <2>7, <2>9 DEF Left
  <2> QED
    BY <2>1, <2>2, <2>8, OneChanged
<1>6. CASE q \in {[p EXCEPT ![x[1]] = Swapped(@, x[2])] :
                    x \in {y \in Places(p, {"tx", "ood", "roots", "yr"}) : y[2] < Len(p[y[1]])}}
  <2>1. PICK x \in {y \in Places(p, {"tx", "ood", "roots", "yr"}) : y[2] < Len(p[y[1]])} : q = [p EXCEPT ![x[1]] = Swapped(@, x[2])]
    BY <1>6
  <2>2. PICK f \in {"tx", "ood", "roots", "yr"} : x \in {f} \X DOMAIN p[f]
    BY <2>1 DEF Places
  <2>3. PICK i : i = x[2]
    OBVIOUS
  <2>4. x[1] = f /\ f \in Lists /\ f # "start" /\ f # "opens"
    BY <2>2, TagsApart
  <2>5. PICK t, n : t = p[f] /\ n = Len(t)
    OBVIOUS
  <2>6. IsSeq(t) /\ n \in Nat /\ i \in 1..n /\ i < n /\ \A j \in 1..n : t[j].intact = TRUE
    BY <1>0, <2>1, <2>2, <2>3, <2>4, <2>5, AnyLength
  <2>7. PICK a, b, k : a = t[i] /\ b = t[k] /\ k = i + 1
    OBVIOUS
  <2>8. k \in 1..n
    BY <2>6, <2>7
  <2>9. PICK r, s : r = [t EXCEPT ![i] = b] /\ s = [r EXCEPT ![k] = a]
    OBVIOUS
  <2>10. Swapped(t, i) = s
    BY <2>7, <2>9 DEF Swapped
  <2>11. Patched(q, p, f, s)
    BY <2>1, <2>3, <2>4, <2>5, <2>10 DEF Patched
  <2>12. IsSeq(r) /\ Len(r) = n /\ \A j \in 1..n : r[j] = IF j = i THEN b ELSE t[j]
    <3>1. Patched(r, t, i, b)
      BY <2>9 DEF Patched
    <3> QED
      BY <2>5, <2>6, <3>1, AnyExcept
  <2>13. IsSeq(s) /\ Len(s) = n /\ \A j \in 1..n : s[j] = IF j = k THEN a ELSE r[j]
    <3>1. Patched(s, r, k, a)
      BY <2>9 DEF Patched
    <3> QED
      BY <2>8, <2>12, <3>1, AnyExcept
  <2>14. \A j \in 1..n : s[j] = a \/ s[j] = b \/ s[j] = t[j]
    BY <2>12, <2>13
  <2>15. \A j \in 1..Len(s) : \E h \in 1..Len(t) : s[j] = t[h]
    BY <2>5, <2>6, <2>7, <2>8, <2>13, <2>14
  <2>17. \A j \in 1..Len(s) : s[j].intact \in BOOLEAN
    BY <2>5, <2>6, <2>15
  <2>16. Left(f, p[f], s)
    BY <2>4, <2>5, <2>13, <2>15, <2>17 DEF Left
  <2> QED
    BY <2>4, <2>11, <2>16, OneChanged
<1>7. CASE q \in {[p EXCEPT !.opens[k].val.salts = @ + 1] : k \in 1..Steps(cfg)}
  <2>1. PICK k \in 1..Steps(cfg) : q = [p EXCEPT !["opens"][k].val.salts = @ + 1]
    BY <1>7
  <2>2. PICK f : f = "opens"
    OBVIOUS
  <2>3. f \in Lists /\ k \in 1..Len(p[f])
    BY <2>2, TagsApart DEF Formed
  <2>4. PICK e : e = p[f][k]
    OBVIOUS
  <2>5. IsElem(e) /\ e.intact = TRUE
    BY <1>0, <2>3, <2>4
  <2>6. e.val = [rows |-> e.val.rows, salts |-> e.val.salts] /\ e.val.salts \in Nat
    BY <2>2, <2>3, <2>4 DEF Formed
  <2>7. PICK y, v, s : y = [e.val EXCEPT !.salts = @ + 1] /\ v = [e EXCEPT !.val = y] /\ s = [p[f] EXCEPT ![k] = v]
    OBVIOUS
  <2>8. Patched(q, p, f, s)
    BY <2>1, <2>2, <2>4, <2>7 DEF Patched
  <2>9. y.salts = e.val.salts + 1
    BY <2>6, <2>7
  <2>10. v.intact = TRUE /\ v.val = y
    BY <2>5, <2>7 DEF IsElem
  <2>11. v.val.salts # p[f][k].val.salts
    BY <2>4, <2>6, <2>9, <2>10
  <2>12. Left(f, p[f], s)
    BY <2>2, <2>3, <2>7, <2>10, <2>11, LeftChanged
  <2> QED
    BY <2>3, <2>8, <2>12, OneChanged
<1>8. CASE q \in {[p EXCEPT ![f] = Front(@)] : f \in {f \in Lists \ {"start"} : p[f] # <<>>}}
  BY <1>4, <1>8
<1>9. CASE q \in {[p EXCEPT ![f] = Append(@, Last(@))] : f \in {f \in Lists \ {"start"} : p[f] # <<>>}}
  BY <1>5, <1>9
<1> QED
  BY <1>1, <1>2, <1>3, <1>6, <1>7, <1>8, <1>9, Zenon DEF Altered

LEMMA SaltsTyped ==
  ASSUME cfg \in Configs
  PROVE  \A l : Salts(l) \in Nat
<1>1. Steps(cfg) \in Nat
  BY StepsType
<1>2. PICK l \in 0..Steps(cfg) : l = 0
  BY <1>1
<1>3. cfg.queries[l + 1] \in Nat
  BY ConfigTypes
<1>4. cfg.queries[1] \in Nat
  BY <1>2, <1>3
<1> QED
  BY <1>4 DEF Salts

LEMMA MadeFormed ==
  ASSUME cfg \in Configs, NEW w, Sizes(cfg, w), InOrder, Len(made["opens"]) = w.P[w.m + w.n + 4]["opens"]
  PROVE  Formed(made)
<1>1. Len(made["opens"]) = Steps(cfg) + 1
  BY DEF Sizes, Ending
<1>2. Steps(cfg) \in Nat
  BY StepsType
<1>3. \A i \in 1..Len(made["opens"]) :
         /\ made["opens"][i].val = [rows |-> made["opens"][i].val.rows, salts |-> made["opens"][i].val.salts]
         /\ made["opens"][i].val.salts \in Nat
  <2> TAKE i \in 1..Len(made["opens"])
  <2>1. PICK e, r, x : e = made["opens"][i].val /\ r = e.rows /\ x = Salts(i - 1)
    OBVIOUS
  <2>2. e = [rows |-> r, salts |-> x]
    BY <2>1 DEF InOrder
  <2>3. x \in Nat
    BY <2>1, SaltsTyped
  <2>4. e = [rows |-> e.rows, salts |-> e.salts] /\ e.salts \in Nat
    BY <2>2, <2>3
  <2> QED
    BY <2>1, <2>4
<1> QED
  BY <1>1, <1>2, <1>3 DEF InOrder, Formed

(* The proof arrives. *)
LEMMA Delivering ==
  ASSUME cfg \in Configs, NEW w, w = PlanOf(cfg), NEW T, Walked(w, T), Deliver
  PROVE  \E U : Walked(w, U)'
<1>0. phase = "prove" /\ pos > Len(Script)
  BY DEF Deliver
<1>1. Sizes(cfg, w) /\ Making(w, T) /\ Listening(T) /\ InOrder /\ NoChecks
  BY <1>0, Proving
<1>2. /\ w.m \in Nat /\ w.n \in Nat /\ w.d \in 1..w.m /\ w.V[1] = Zero
      /\ Len(ProverScripts[cfg]) = w.m + w.n + 3
  BY <1>1 DEF Sizes
<1>3. /\ sent' \in {made} \cup Altered(made) /\ phase' = "verify"
      /\ pos' = 1 /\ chal' = 0 /\ tr' = Opening(sent') /\ cfg' = cfg /\ log' = log /\ made' = made
      /\ idx' = idx /\ claim' = claim /\ quad' = quad
  BY DEF Deliver, checkVars
<1>4. pos = w.m + w.n + 4
  <2>1. Script = ProverScripts[cfg]
    BY <1>0 DEF Script
  <2>2. pos \in 1..(w.m + w.n + 4)
    BY <1>1 DEF Making
  <2> QED
    BY <1>0, <1>2, <2>1, <2>2
<1>5. \A f \in Lists \ {"start"} : Len(made[f]) = w.P[w.m + w.n + 4][f]
  BY <1>1, <1>4 DEF Making
<1>6. Formed(made)
  BY <1>1, <1>5, MadeFormed, TagsApart
<1>7. PICK q : q = sent'
  OBVIOUS
<1>8. q \in {made} \cup Altered(made)
  BY <1>3, <1>7
<1>9. q = [g \in Lists |-> q[g]] /\ \A g \in Lists : Left(g, made[g], q[g])
  BY <1>6, <1>8, AlteredLeft
<1>10. \A g \in Lists : IsSeq(q[g]) /\ Len(q[g]) \in Nat
  BY <1>9, AnyLength, SMTT(30) DEF Left
<1>11. Altered(made)' = Altered(made)
  BY <1>3 DEF Altered, Places, Swapped, Steps
<1>12. Complete(w, T)'
  <2>1. pos > w.d
    BY <1>2, <1>4
  <2>2. /\ T[chal] = Cut(made, LastCount(w)) /\ \A f \in Told : LastCount(w)[f] <= Len(made[f])
        /\ \A i \in 1..Len(made["yr"]) : made["yr"][i].at = chal
    BY <1>1, <2>1 DEF Making
  <2>3. chal \in 0..Len(log)
    BY <1>1 DEF Listening
  <2>4. \E a \in 0..Len(log') : T[a] = Cut(made', LastCount(w)) /\ \A i \in 1..Len(made'["yr"]) : made'["yr"][i].at = a
    BY <1>3, <2>2, <2>3
  <2>5. sent' \in {made'} \cup Altered(made)'
    BY <1>3, <1>11
  <2>6. \A f \in Lists : IsSeq(sent'[f])
    BY <1>7, <1>10
  <2>7. \A f \in Lists \ {"start"} : Len(made'[f]) = w.P[w.m + w.n + 4][f]
    BY <1>3, <1>5
  <2>8. \A f \in Told : LastCount(w)[f] <= Len(made'[f])
    BY <1>3, <2>2
  <2> QED
    BY <2>4, <2>5, <2>6, <2>7, <2>8 DEF Complete
<1>13. idx = [f \in Lists |-> 0] /\ claim = TRUE /\ quad = TRUE
  BY <1>1 DEF NoChecks
<1>14. Recalls(log, T) /\ T[0] = Nothing /\ Len(log) \in Nat
  BY <1>1, AnyLength DEF Listening, Recalls
<1>15. Listening(T)'
  <2>1. /\ Opening(q) = [at |-> Opening(q).at, since |-> Opening(q).since]
        /\ Opening(q).at = 0 /\ IsSeq(Opening(q).since)
    BY OpeningTells
  <2>2. 0 \in 0..Len(log)
    BY <1>14
  <2> QED
    BY <1>3, <1>7, <1>14, <2>1, <2>2 DEF Listening
<1>16. Reading(w, T)'
  <2>1. \A f \in Told : idx[f] = 0 /\ Zero[f] = 0
    BY <1>13, TagsApart DEF Zero
  <2>2. \A f \in Told : idx[f] = w.V[1][f] /\ idx[f] <= Len(q[f])
    BY <1>2, <1>10, <2>1, TagsApart
  <2>3. Cut(q, idx) = Nothing
    <3>1. ASSUME NEW f \in Told
          PROVE  SubSeq(q[f], 1, idx[f]) = <<>>
      <4>1. PICK s : s = q[f]
        OBVIOUS
      <4>2. IsSeq(s) /\ idx[f] = 0
        BY <1>10, <2>1, <4>1, TagsApart
      <4>3. SubSeq(s, 1, 0) = <<>>
        BY <4>2, PartAll
      <4> QED
        BY <4>1, <4>2, <4>3
    <3> QED
      BY <3>1 DEF Cut, Nothing
  <2>4. Tells(T[tr'.at], tr'.since, Cut(q, idx))
    BY <1>3, <1>7, <1>14, <2>3, OpeningTells
  <2>5. w.V[1]["opens"] = 0
    BY <1>2, TagsApart DEF Zero, Counted
  <2>6. idx["yr"] = 0
    BY <2>1, TagsApart
  <2>7. pos' \in 1..(w.m + w.n + 8) /\ ~(w.d + 1 < pos') /\ ~(pos' > 1) /\ ~(pos' > w.m + 2)
    BY <1>2, <1>3
  <2>8. idx' = [f \in Lists |-> idx'[f]] /\ claim' \in BOOLEAN /\ quad' \in BOOLEAN
    BY <1>3, <1>13
  <2>9. \A f \in Told : idx'[f] = w.V[pos'][f] /\ idx'[f] <= Len(sent'[f])
    BY <1>3, <1>7, <2>2
  <2>10. Tells(T[tr'.at], tr'.since, Cut(sent', idx'))
    BY <1>3, <1>7, <2>4
  <2>11. idx'["yr"] = 0 /\ \A i \in 1..idx'["yr"] : FALSE
    BY <1>3, <2>6
  <2>12. \A l \in Nat : ~(l < w.V[pos']["opens"])
    BY <1>3, <2>5
  <2> QED
    BY <2>7, <2>8, <2>9, <2>10, <2>11, <2>12 DEF Reading
<1>17. InOrder'
  <2>1. \A i : Salts(i)' = Salts(i)
    BY <1>3 DEF Salts
  <2> QED
    BY <1>1, <1>3, <2>1 DEF InOrder
<1> QED
  BY <1>3, <1>12, <1>15, <1>16, <1>17 DEF Walked
-----------------------------------------------------------------------------
(* The verifier's steps.                                                            *)
LEMMA Verifying ==
  ASSUME cfg \in Configs, NEW w, w = PlanOf(cfg), NEW T, Walked(w, T), phase = "verify"
  PROVE  /\ Sizes(cfg, w) /\ Complete(w, T) /\ Reading(w, T) /\ Listening(T) /\ InOrder
         /\ \A act : AtOp(act) => /\ pos \in 1..(w.m + w.n + 8) /\ Op.act = act /\ VerifierMeets(cfg, w, pos, Op)
<1>1. Itinerary(cfg, w)
  BY Planned
<1>2. Complete(w, T) /\ Reading(w, T) /\ Listening(T) /\ InOrder
  BY DEF Walked
<1>3. Script = VerifierScripts[cfg]
  BY DEF Script
<1>4. Sizes(cfg, w) /\ Len(VerifierScripts[cfg]) = w.m + w.n + 8
  BY <1>1 DEF Itinerary, Sizes
<1>5. ASSUME NEW act, AtOp(act)
      PROVE  pos \in 1..(w.m + w.n + 8) /\ Op.act = act
  BY <1>2, <1>5 DEF Reading, AtOp, Op
<1>6. \A p \in 1..(w.m + w.n + 8) : VerifierMeets(cfg, w, p, VerifierScripts[cfg][p])
  BY <1>1 DEF Itinerary
<1> QED
  BY <1>2, <1>3, <1>4, <1>5, <1>6 DEF Op

(* What no step of the verifier changes. *)
LEMMA ReadOn ==
  ASSUME NEW w, NEW T, Complete(w, T), InOrder, NEW U, Kept(log, T, log', U), made' = made, sent' = sent, cfg' = cfg
  PROVE  /\ Complete(w, U)' /\ InOrder' /\ ShapeIsRight' = ShapeIsRight
         /\ \A i : YrRight(w, T, i) => YrRight(w, U, i)'
         /\ \A l : Opened(l)' = Opened(l)
<1>1. Len(log) \in Nat /\ Len(log') \in Nat /\ Len(log) <= Len(log') /\ \A k \in 0..Len(log) : U[k] = T[k]
  BY DEF Kept
<1>2. \A k \in 0..Len(log) : k \in 0..Len(log')
  BY <1>1
<1>3. Altered(made)' = Altered(made)
  BY DEF Altered, Places, Swapped, Steps
<1>4. \A i : Salts(i)' = Salts(i)
  BY DEF Salts
<1>5. InOrder'
  BY <1>4 DEF InOrder
<1>6. Complete(w, U)'
  <2>1. PICK a \in 0..Len(log) : T[a] = Cut(made, LastCount(w)) /\ \A i \in 1..Len(made["yr"]) : made["yr"][i].at = a
    BY DEF Complete
  <2>2. a \in 0..Len(log') /\ U[a] = Cut(made', LastCount(w)) /\ \A i \in 1..Len(made'["yr"]) : made'["yr"][i].at = a
    BY <1>1, <1>2, <2>1
  <2>3. \E b \in 0..Len(log') : U[b] = Cut(made', LastCount(w)) /\ \A i \in 1..Len(made'["yr"]) : made'["yr"][i].at = b
    BY <2>2
  <2> QED
    BY <1>3, <2>3 DEF Complete
<1>7. ASSUME NEW i, YrRight(w, T, i)
      PROVE  YrRight(w, U, i)'
  BY <1>1, <1>2, <1>7 DEF YrRight
<1>8. \A l : Opened(l)' = Opened(l)
  BY <1>4 DEF Opened
<1>9. ShapeIsRight' = ShapeIsRight
  BY DEF ShapeIsRight, Steps
<1> QED
  BY <1>5, <1>6, <1>7, <1>8, <1>9

Shaped(c, q) == ShapeIsRight /\ (c => sent["start"][1].intact) /\ (q => sent["start"][1].intact)
Counted2(w) ==
    /\ \A f \in {"tx", "ood", "fold_nonces"} : Len(sent[f]) = w.V[w.m + 2][f]
    /\ Len(sent["yr"]) = w.n

(* A step that reads nothing. *)
LEMMA Passing ==
  ASSUME cfg \in Configs, NEW w, w = PlanOf(cfg), NEW T, Walked(w, T), phase = "verify",
         pos \in 1..(w.m + w.n + 7), pos' = pos \/ pos' = pos + 1,
         NEW U, Listening(U)', Kept(log, T, log', U), Tells(U[tr'.at], tr'.since, Cut(sent, idx)),
         made' = made, sent' = sent, cfg' = cfg, phase' = phase, idx' = idx,
         \A f \in Told : w.V[pos'][f] = w.V[pos][f], claim' \in BOOLEAN, quad' \in BOOLEAN,
         claim' => claim \/ idx["yr"] = 0,
         w.d + 1 < pos' /\ pos' <= w.m + w.n + 5 => U[chal'] = Cut(sent, LastCount(w)),
         pos' > 1 => Shaped(claim', quad'),
         pos' > w.m + 2 => Counted2(w),
         \A l \in Nat : l < w.V[pos']["opens"] => Opened(l)
  PROVE  Walked(w, U)'
<1>1. Sizes(cfg, w) /\ Complete(w, T) /\ Reading(w, T) /\ Listening(T) /\ InOrder
  BY Verifying
<1>2. w.m \in Nat /\ w.n \in Nat /\ w.d \in Nat
  BY <1>1 DEF Sizes
<1>3. /\ Complete(w, U)' /\ InOrder' /\ ShapeIsRight' = ShapeIsRight
      /\ \A i : YrRight(w, T, i) => YrRight(w, U, i)'
      /\ \A l : Opened(l)' = Opened(l)
  BY <1>1, ReadOn
<1>4. pos' \in 1..(w.m + w.n + 8) /\ (pos' <= w.m + 2 => pos <= w.m + 2)
  BY <1>2
<1>5. \A f \in Told : idx[f] = w.V[pos][f] /\ idx[f] <= Len(sent[f])
  BY <1>1 DEF Reading
<1>6. \A f \in Told : idx'[f] = w.V[pos'][f] /\ idx'[f] <= Len(sent'[f])
  BY <1>5
<1>7. claim' => \A i \in 1..idx'["yr"] : YrRight(w, U, i)'
  <2>1. claim => \A i \in 1..idx["yr"] : YrRight(w, T, i)
    BY <1>1 DEF Reading
  <2>2. idx["yr"] = 0 => \A i \in 1..idx["yr"] : FALSE
    OBVIOUS
  <2> QED
    BY <1>3, <2>1, <2>2
<1>8. pos' <= w.m + 2 => idx'["yr"] = 0
  BY <1>1, <1>4 DEF Reading
<1>9. idx' = [f \in Lists |-> idx'[f]]
  BY <1>1 DEF Reading
<1>10. pos' > 1 => ShapeIsRight' /\ (claim' => sent'["start"][1].intact) /\ (quad' => sent'["start"][1].intact)
  BY <1>3 DEF Shaped
<1>11. pos' > w.m + 2 => (\A f \in {"tx", "ood", "fold_nonces"} : Len(sent'[f]) = w.V[w.m + 2][f]) /\ Len(sent'["yr"]) = w.n
  BY DEF Counted2
<1>12. \A l \in Nat : l < w.V[pos']["opens"] => Opened(l)'
  BY <1>3
<1>13. w.d + 1 < pos' /\ pos' <= w.m + w.n + 5 => U[chal'] = Cut(sent', LastCount(w))
  OBVIOUS
<1>14. Tells(U[tr'.at], tr'.since, Cut(sent', idx'))
  OBVIOUS
<1>15. Reading(w, U)'
  BY <1>4, <1>6, <1>7, <1>8, <1>9, <1>10, <1>11, <1>12, <1>13, <1>14 DEF Reading
<1> QED
  BY <1>3, <1>15 DEF Walked

Midway(m, n, d, p, yr) ==
    /\ m \in Nat /\ n \in Nat \ {0} /\ d \in 1..m /\ p \in 1..(m + n + 8) /\ yr \in BOOLEAN
    /\ p # d + 1 /\ p # 1 /\ p # m + 2 /\ p # m + n + 8 /\ (yr => p \in (m + 3)..(m + n + 2))
Onward(m, n, d, p, q, yr) ==
    /\ q \in 1..(m + n + 8) /\ q > 1 /\ p > 1 /\ (q <= m + 2 => p <= m + 2 /\ ~yr)
    /\ (q > m + 2 => p > m + 2)
    /\ (d + 1 < q /\ q <= m + n + 5 => d + 1 < p /\ p <= m + n + 5)

LEMMA NextPlace ==
  ASSUME NEW m, NEW n, NEW d, NEW p, NEW yr, Midway(m, n, d, p, yr), NEW q, q = p + 1
  PROVE  Onward(m, n, d, p, q, yr)
BY DEF Midway, Onward

(* An element is read and absorbed. *)
LEMMA Taking ==
  ASSUME cfg \in Configs, NEW w, w = PlanOf(cfg), NEW T, Walked(w, T), phase = "verify",
         NEW U, Recalls(log', U), Kept(log, T, log', U),
         pos \in 1..(w.m + w.n + 8), NEW op, VerifierMeets(cfg, w, pos, op), op.act \in {"say", "grind"},
         NEW e, NextIdx(op.of) <= Len(sent[op.of]), e = sent[op.of][NextIdx(op.of)],
         tr' = Absorbed(tr, <<op.of, e>>), idx' = [idx EXCEPT ![op.of] = @ + 1], pos' = pos + 1,
         cfg' = cfg, phase' = phase, chal' = chal, made' = made, sent' = sent,
         claim' \in BOOLEAN, quad' \in BOOLEAN, claim' => claim, quad' => quad,
         claim' /\ op.of = "yr" => Right(e, NextIdx(op.of))
  PROVE  Walked(w, U)'
<1>1. Sizes(cfg, w) /\ Complete(w, T) /\ Reading(w, T) /\ Listening(T) /\ InOrder
  BY Verifying
<1>2. w.m \in Nat \ {0} /\ w.n \in Nat \ {0} /\ w.d \in 1..w.m
  BY <1>1 DEF Sizes
<1>3. PICK f, i : f = op.of /\ i = idx[f]
  OBVIOUS
<1>4. /\ Meets(op, w.V[pos], w.V[pos + 1])
      /\ (op.act = "say" /\ f = "yr" <=> pos \in (w.m + 3)..(w.m + w.n + 2))
      /\ pos # w.d + 1 /\ pos # 1 /\ pos # w.m + 2 /\ pos # w.m + w.n + 8
  BY <1>3 DEF VerifierMeets, Check
<1>5. f \in Told /\ f \in Lists \ {"start"} /\ f # "opens" /\ f \in Counted
  BY <1>3, <1>4, TagsApart DEF Meets
<1>6. f = "yr" <=> pos \in (w.m + 3)..(w.m + w.n + 2)
  <2>1. op.act = "grind" => f # "yr"
    BY <1>3, <1>4 DEF Meets, NonceLists
  <2> QED
    BY <1>4, <2>1
<1>7. \A g \in Told : w.V[pos + 1][g] = IF g = f THEN w.V[pos][g] + 1 ELSE w.V[pos][g]
  BY <1>3, <1>4, MeetsCounts, TagsApart, SMTT(30)
<1>8. w.V[pos + 1]["opens"] = w.V[pos]["opens"] /\ \A g \in Told : w.V[pos][g] \in Nat
  BY <1>3, <1>4, <1>5, MeetsCounts, TagsApart
<1>9. idx = [g \in Lists |-> idx[g]] /\ \A g \in Told : idx[g] = w.V[pos][g] /\ idx[g] <= Len(sent[g])
  BY <1>1 DEF Reading
<1>10. \A g \in Told : idx'[g] = IF g = f THEN idx[g] + 1 ELSE idx[g]
  BY <1>3, <1>9, TagsApart
<1>11. i \in Nat /\ i + 1 <= Len(sent[f]) /\ e = sent[f][i + 1]
  BY <1>3, <1>5, <1>8, <1>9 DEF NextIdx
<1>12. \A g \in Told : idx'[g] = w.V[pos'][g] /\ idx'[g] <= Len(sent[g])
  BY <1>3, <1>7, <1>9, <1>10, <1>11, SMTT(30)
<1>13. Tell(Cut(sent, idx), <<f, e>>) = Cut(sent, idx')
  <2>1. PICK p, k, r : p = sent /\ k = idx /\ r = idx'
    OBVIOUS
  <2>2. IsSeq(p[f])
    BY <1>1, <1>5, <2>1 DEF Complete
  <2>3. k[f] \in Nat /\ k[f] + 1 <= Len(p[f]) /\ e = p[f][k[f] + 1]
    BY <1>3, <1>11, <2>1
  <2>4. \A g \in Told : r[g] = IF g = f THEN k[g] + 1 ELSE k[g]
    BY <1>10, <2>1
  <2>5. Tell(Cut(p, k), <<f, e>>) = Cut(p, r)
    <3>1. Reads(p, k, r, f, e)
      BY <1>5, <2>2, <2>3, <2>4 DEF Reads
    <3> QED
      BY <3>1, TellsRead
  <2> QED
    BY <2>1, <2>5
<1>14. /\ Listening(U)' /\ U[chal'] = T[chal]
       /\ Tells(U[tr'.at], tr'.since, Tell(Cut(sent, idx), <<f, e>>))
  <2>1. Tells(T[tr.at], tr.since, Cut(sent, idx))
    BY <1>1 DEF Reading
  <2> QED
    BY <1>1, <1>3, <2>1, ListenKept
<1>15. /\ Complete(w, U)' /\ InOrder' /\ ShapeIsRight' = ShapeIsRight
       /\ \A j : YrRight(w, T, j) => YrRight(w, U, j)'
       /\ \A l : Opened(l)' = Opened(l)
  BY <1>1, ReadOn
<1>16. /\ pos' \in 1..(w.m + w.n + 8) /\ pos' > 1 /\ pos > 1 /\ (pos' <= w.m + 2 => pos <= w.m + 2 /\ f # "yr")
       /\ (pos' > w.m + 2 => pos > w.m + 2)
       /\ (w.d + 1 < pos' /\ pos' <= w.m + w.n + 5 => w.d + 1 < pos /\ pos <= w.m + w.n + 5)
  <2>1. PICK m, n, d, p, q, yr : m = w.m /\ n = w.n /\ d = w.d /\ p = pos /\ q = pos' /\ yr = (f = "yr")
    OBVIOUS
  <2>2. Midway(m, n, d, p, yr)
    BY <1>2, <1>4, <1>6, <2>1 DEF Midway
  <2>3. Onward(m, n, d, p, q, yr)
    BY <2>1, <2>2, NextPlace
  <2> QED
    BY <2>1, <2>3 DEF Onward
<1>17. pos' <= w.m + 2 => idx'["yr"] = 0
  BY <1>1, <1>10, <1>16, TagsApart DEF Reading
<1>18. w.d + 1 < pos' /\ pos' <= w.m + w.n + 5 => U[chal'] = Cut(sent', LastCount(w))
  BY <1>1, <1>14, <1>16 DEF Reading
<1>19. ASSUME claim'
       PROVE  \A j \in 1..idx'["yr"] : YrRight(w, U, j)'
  <2>1. \A j \in 1..idx["yr"] : YrRight(w, U, j)'
    BY <1>1, <1>15, <1>19 DEF Reading
  <2>2. CASE f # "yr"
    <3>1. idx'["yr"] = idx["yr"]
      BY <1>10, <2>2, TagsApart
    <3> QED
      BY <2>1, <3>1
  <2>3. CASE f = "yr"
    <3>1. PICK k : k = i + 1
      OBVIOUS
    <3>a. idx'[f] = k
      BY <1>3, <1>5, <1>10, <3>1
    <3>b. \A j \in 1..k : j \in 1..i \/ j = k
      BY <1>11, <3>1
    <3>2. idx'["yr"] = k /\ \A j \in 1..k : j \in 1..i \/ j = k
      BY <2>3, <3>a, <3>b
    <3>3. e.intact /\ e.no = k /\ e.at = chal /\ e = sent["yr"][k]
      BY <1>3, <1>11, <1>19, <2>3, <3>1 DEF Right, NextIdx
    <3>4. w.d + 1 < pos /\ pos <= w.m + w.n + 5
      BY <1>2, <1>6, <2>3, SMTT(30)
    <3>5. chal' \in 0..Len(log') /\ U[chal'] = Cut(sent, LastCount(w))
      BY <1>1, <1>14, <3>4 DEF Listening, Reading
    <3>6. YrRight(w, U, k)'
      BY <3>3, <3>5 DEF YrRight
    <3> QED
      BY <1>3, <2>1, <2>3, <3>2, <3>6
  <2> QED
    BY <2>2, <2>3
<1>20. ShapeIsRight' /\ (claim' => sent'["start"][1].intact) /\ (quad' => sent'["start"][1].intact)
  BY <1>1, <1>15, <1>16 DEF Reading
<1>21. pos' > w.m + 2 => (\A g \in {"tx", "ood", "fold_nonces"} : Len(sent'[g]) = w.V[w.m + 2][g]) /\ Len(sent'["yr"]) = w.n
  BY <1>1, <1>16 DEF Reading
<1>22. \A l \in Nat : l < w.V[pos']["opens"] => Opened(l)'
  BY <1>1, <1>8, <1>15 DEF Reading
<1>23. idx' = [g \in Lists |-> idx'[g]]
  BY <1>9
<1>24. Tells(U[tr'.at], tr'.since, Cut(sent', idx'))
  BY <1>13, <1>14
<1>25. \A g \in Told : idx'[g] = w.V[pos'][g] /\ idx'[g] <= Len(sent'[g])
  BY <1>12, SMTT(30)
<1>26. Reading(w, U)'
  BY <1>16, <1>17, <1>18, <1>19, <1>20, <1>21, <1>22, <1>23, <1>24, <1>25 DEF Reading
<1> QED
  BY <1>14, <1>15, <1>26 DEF Walked

LEMMA Speaking ==
  ASSUME cfg \in Configs, NEW w, w = PlanOf(cfg), NEW T, Walked(w, T), VerifierSays
  PROVE  phase' = "reject" \/ \E U : Walked(w, U)'
<1>0. phase = "verify" /\ AtOp("say")
  BY DEF VerifierSays
<1>1. Listening(T) /\ Reading(w, T)
  BY <1>0, Verifying
<1>2. PICK op : op = Op
  OBVIOUS
<1>3. pos \in 1..(w.m + w.n + 8) /\ op.act = "say" /\ VerifierMeets(cfg, w, pos, op)
  BY <1>0, <1>2, Verifying
<1>4. CASE Missing(op.of)
  BY <1>2, <1>4 DEF VerifierSays, Reject
<1>5. CASE ~Missing(op.of)
  <2>1. PICK e : e = sent[op.of][NextIdx(op.of)]
    OBVIOUS
  <2>2. /\ tr' = Absorbed(tr, <<op.of, e>>) /\ idx' = [idx EXCEPT ![op.of] = @ + 1]
        /\ quad' = (quad /\ (op.of \in {"tx", "ood"} => Right(e, NextIdx(op.of))))
        /\ claim' = (claim /\ (op.of \in {"ood", "yr"} => Right(e, NextIdx(op.of))))
        /\ pos' = pos + 1 /\ cfg' = cfg /\ phase' = phase /\ chal' = chal /\ log' = log /\ made' = made /\ sent' = sent
    BY <1>2, <1>5, <2>1 DEF VerifierSays, Advance
  <2>3. claim' \in BOOLEAN /\ quad' \in BOOLEAN /\ (claim' => claim) /\ (quad' => quad)
        /\ (claim' /\ op.of = "yr" => Right(e, NextIdx(op.of)))
    BY <2>2
  <2>4. Recalls(log', T) /\ Kept(log, T, log', T)
    BY <1>1, <2>2, LogStays
  <2>5. NextIdx(op.of) <= Len(sent[op.of])
    <3>1. op.of \in Told /\ op.of \in Counted
      BY <1>3, TagsApart DEF VerifierMeets, Meets, Counted
    <3>2. IsSeq(sent[op.of])
      BY <1>0, <3>1, Verifying, TagsApart DEF Complete
    <3>3. Len(sent[op.of]) \in Nat
      BY <3>2, AnyLength
    <3>4. idx[op.of] = w.V[pos][op.of]
      BY <1>1, <3>1 DEF Reading
    <3>5. w.V[pos][op.of] \in Nat
      BY <1>3, <3>1, MeetsCounts DEF VerifierMeets
    <3> QED
      BY <1>5, <3>3, <3>4, <3>5 DEF Missing, NextIdx
  <2>6. op.act \in {"say", "grind"}
    BY <1>3
  <2>7. Walked(w, T)'
    BY <1>0, <1>3, <2>1, <2>2, <2>3, <2>4, <2>5, <2>6, Taking
  <2> QED
    BY <2>7
<1> QED
  BY <1>4, <1>5

LEMMA Powing ==
  ASSUME cfg \in Configs, NEW w, w = PlanOf(cfg), NEW T, Walked(w, T), NEW hits, VerifyPow(hits)
  PROVE  phase' = "reject" \/ \E U : Walked(w, U)'
<1>0. phase = "verify" /\ AtOp("grind")
  BY DEF VerifyPow
<1>1. Listening(T) /\ Reading(w, T)
  BY <1>0, Verifying
<1>2. PICK op, bad : op = Op /\ bad = (0 \notin hits)
  OBVIOUS
<1>3. pos \in 1..(w.m + w.n + 8) /\ op.act = "grind" /\ VerifierMeets(cfg, w, pos, op)
  BY <1>0, <1>2, Verifying
<1>4. CASE Missing(op.of)
  BY <1>2, <1>4 DEF VerifyPow, Reject
<1>5. CASE ~Missing(op.of)
  <2>1. PICK e, x, p : e = sent[op.of][NextIdx(op.of)] /\ x = <<"pow">> /\ p = Absorbed(tr, x)
    OBVIOUS
  <2>2. /\ tr' = Absorbed(tr, <<op.of, e>>) /\ idx' = [idx EXCEPT ![op.of] = @ + 1]
        /\ quad' = quad /\ claim' = claim /\ (log' = log \/ Answered(p, hits, bad))
        /\ phase' = "reject" \/ (pos' = pos + 1 /\ phase' = phase)
        /\ cfg' = cfg /\ chal' = chal /\ made' = made /\ sent' = sent
    BY <1>2, <1>5, <2>1 DEF VerifyPow, Advance
  <2>3. claim' \in BOOLEAN /\ quad' \in BOOLEAN /\ (claim' => claim) /\ (quad' => quad)
    BY <1>1, <2>2 DEF Reading
  <2>4. PICK U : Recalls(log', U) /\ Kept(log, T, log', U)
    <3>1. CASE log' = log
      BY <1>1, <3>1, LogStays
    <3>2. CASE Answered(p, hits, bad)
      <4>1. x[1] \notin Told
        BY <2>1, TagsApart
      <4>2. Tells(T[tr.at], tr.since, Cut(sent, idx))
        BY <1>1 DEF Reading
      <4> QED
        BY <1>1, <2>1, <3>2, <4>1, <4>2, Asking
    <3> QED
      BY <2>2, <3>1, <3>2
  <2>a. op.of \in Told /\ op.of \in Counted /\ op.of # "yr"
    BY <1>3, TagsApart DEF VerifierMeets, Meets, Counted, NonceLists
  <2>5. NextIdx(op.of) <= Len(sent[op.of])
    <3>2. IsSeq(sent[op.of])
      BY <1>0, <2>a, Verifying, TagsApart DEF Complete
    <3>3. Len(sent[op.of]) \in Nat
      BY <3>2, AnyLength
    <3>4. idx[op.of] = w.V[pos][op.of]
      BY <1>1, <2>a DEF Reading
    <3>5. w.V[pos][op.of] \in Nat
      BY <1>3, <2>a, MeetsCounts DEF VerifierMeets
    <3> QED
      BY <1>5, <3>3, <3>4, <3>5 DEF Missing, NextIdx
  <2>6. op.act \in {"say", "grind"}
    BY <1>3
  <2>7. CASE pos' = pos + 1 /\ phase' = phase
    <3>1. Walked(w, U)'
      BY <1>0, <1>3, <2>1, <2>2, <2>3, <2>4, <2>5, <2>6, <2>7, <2>a, Taking
    <3> QED
      BY <3>1
  <2> QED
    BY <2>2, <2>7
<1> QED
  BY <1>4, <1>5

LEMMA Checking ==
  ASSUME cfg \in Configs, NEW w, w = PlanOf(cfg), NEW T, Walked(w, T), phase = "verify", CheckShape
  PROVE  phase' = "reject" \/ \E U : Walked(w, U)'
<1>1. Sizes(cfg, w) /\ Complete(w, T) /\ Reading(w, T) /\ Listening(T)
  BY Verifying
<1>2. PICK op : op = Op
  OBVIOUS
<1>3. pos \in 1..(w.m + w.n + 8) /\ op.act = "check" /\ VerifierMeets(cfg, w, pos, op) /\ op.of \in {"shape", "counts"}
  <2>1. AtOp("check") /\ Op.of \in {"shape", "counts"}
    BY DEF CheckShape
  <2> QED
    BY <1>2, <2>1, Verifying
<1>4. w.m \in Nat \ {0} /\ w.n \in Nat \ {0} /\ w.d \in 1..w.m /\ w.n = YrLen(cfg)
  BY <1>1 DEF Sizes
<1>5. /\ op = Check("shape") \/ op = Check("counts")
      /\ (op = Check("shape") <=> pos = 1) /\ (op = Check("counts") <=> pos = w.m + 2)
      /\ pos # w.m + w.n + 8
  <2>1. Check("shape").of = "shape" /\ Check("counts").of = "counts" /\ Check("residual").of = "residual"
    BY DEF Check
  <2> QED
    BY <1>3, <2>1 DEF VerifierMeets
<1>6. CASE phase' = "reject"
  BY <1>6
<1>7. CASE phase' # "reject"
  <2>1. /\ op.of = "shape" => ShapeIsRight
        /\ op.of # "shape" => CountsAreRight
        /\ pos' = pos + 1 /\ claim' = (claim /\ sent["start"][1].intact) /\ quad' = (quad /\ sent["start"][1].intact)
        /\ cfg' = cfg /\ phase' = phase /\ tr' = tr /\ chal' = chal /\ log' = log /\ made' = made /\ sent' = sent /\ idx' = idx
    BY <1>2, <1>7 DEF CheckShape, Advance, Reject
  <2>2. Recalls(log', T) /\ Kept(log, T, log', T)
    BY <1>1, <2>1, LogStays
  <2>3. Listening(T)'
    BY <1>1, <2>1 DEF Listening
  <2>4. Tells(T[tr'.at], tr'.since, Cut(sent, idx))
    BY <1>1, <2>1 DEF Reading
  <2>5. w.V[pos'] = w.V[pos]
    BY <1>3, <2>1, MeetsCounts DEF VerifierMeets
  <2>6. claim' \in BOOLEAN /\ quad' \in BOOLEAN /\ (claim' => claim)
    BY <2>1
  <2>7. pos \in 1..(w.m + w.n + 7)
    BY <1>3, <1>4, <1>5
  <2>8. pos = 1 \/ pos = w.m + 2
    BY <1>5
  <2>9. ShapeIsRight
    <3>1. CASE pos = 1
      <4>1. op.of = "shape"
        BY <1>5, <3>1 DEF Check
      <4> QED
        BY <2>1, <4>1
    <3>2. CASE pos = w.m + 2
      <4>1. pos > 1
        BY <1>4, <3>2
      <4> QED
        BY <1>1, <4>1 DEF Reading
    <3> QED
      BY <2>8, <3>1, <3>2
  <2>10. Shaped(claim', quad')
    BY <2>1, <2>9 DEF Shaped
  <2>11. pos' > w.m + 2 => Counted2(w)
    <3>1. ASSUME pos' > w.m + 2
          PROVE  Counted2(w)
      <4>1. pos = w.m + 2
        BY <1>4, <2>1, <2>8, <3>1
      <4>2. CountsAreRight
        <5>1. op.of = "counts"
          BY <1>5, <4>1 DEF Check
        <5> QED
          BY <2>1, <5>1
      <4>3. \A f \in {"tx", "ood", "fold_nonces"} : idx[f] = w.V[pos][f]
        BY <1>1, TagsApart DEF Reading
      <4> QED
        BY <1>4, <4>1, <4>2, <4>3 DEF CountsAreRight, Counted2
    <3> QED
      BY <3>1
  <2>12. w.d + 1 < pos' /\ pos' <= w.m + w.n + 5 => T[chal'] = Cut(sent, LastCount(w))
    <3>1. ASSUME w.d + 1 < pos'
          PROVE  T[chal'] = Cut(sent, LastCount(w))
      <4>1. pos = w.m + 2
        BY <1>4, <2>1, <2>8, <3>1
      <4>2. w.d + 1 < pos /\ pos <= w.m + w.n + 5
        BY <1>4, <4>1
      <4> QED
        BY <1>1, <2>1, <4>2 DEF Reading
    <3> QED
      BY <3>1
  <2>13. \A l \in Nat : l < w.V[pos']["opens"] => Opened(l)
    BY <1>1, <2>5 DEF Reading
  <2>14. Walked(w, T)'
    BY <2>1, <2>2, <2>3, <2>4, <2>5, <2>6, <2>7, <2>10, <2>11, <2>12, <2>13, Passing
  <2> QED
    BY <2>14
<1> QED
  BY <1>6, <1>7

(* The facts that a step that neither checks nor opens leaves alone. *)
LEMMA Staying ==
  ASSUME NEW w, w.m \in Nat \ {0}, w.n \in Nat \ {0}, w.d \in 1..w.m, NEW T, Reading(w, T),
         pos' = pos \/ pos' = pos + 1, pos # 1, pos # w.m + 2
  PROVE  /\ pos' > 1 => Shaped(claim, quad) /\ Shaped(quad, quad)
         /\ pos' > w.m + 2 => Counted2(w)
<1>1. pos \in 1..(w.m + w.n + 8)
  BY DEF Reading
<1>2. pos > 1 /\ (pos' > w.m + 2 => pos > w.m + 2)
  BY <1>1
<1> QED
  BY <1>2 DEF Reading, Shaped, Counted2

LEMMA VerifierDraws ==
  ASSUME cfg \in Configs, NEW w, w = PlanOf(cfg), NEW T, Walked(w, T), phase = "verify", DrawChallenge
  PROVE  \E U : Walked(w, U)'
<1>1. Sizes(cfg, w) /\ Complete(w, T) /\ Reading(w, T) /\ Listening(T)
  BY Verifying
<1>2. PICK op : op = Op
  OBVIOUS
<1>3. pos \in 1..(w.m + w.n + 8) /\ op.act = "draw" /\ VerifierMeets(cfg, w, pos, op)
  <2>1. AtOp("draw")
    BY DEF DrawChallenge
  <2> QED
    BY <1>2, <2>1, Verifying
<1>4. PICK x, p : x = <<"squeeze", op.of \in {"z", "alpha"}, op.n>> /\ p = Absorbed(tr, x)
  OBVIOUS
<1>5. x[1] \notin Told
  BY <1>4, TagsApart
<1>6. /\ \/ op.n = 0 /\ tr' = p /\ chal' = chal /\ log' = log
         \/ op.n # 0 /\ Answered(p, 0, FALSE) /\ tr' = After(p) /\ chal' = PointId(p)
      /\ pos' = pos + 1 /\ cfg' = cfg /\ phase' = phase /\ made' = made /\ sent' = sent /\ idx' = idx
      /\ quad' = quad /\ (claim' = claim \/ (op.of = "fold" /\ claim' = quad))
  BY <1>2, <1>4 DEF DrawChallenge, Advance
<1>7. Tells(T[tr.at], tr.since, Cut(sent, idx))
  BY <1>1 DEF Reading
<1>8. w.m \in Nat \ {0} /\ w.n \in Nat \ {0} /\ w.d \in 1..w.m
  BY <1>1 DEF Sizes
<1>9. /\ pos <= w.d + 1 \/ pos >= w.m + w.n + 5
      /\ (pos = w.d + 1 => op.n = 1) /\ Meets(op, w.V[pos], w.V[pos + 1])
      /\ (op.of = "fold" => pos <= w.m + 1)
      /\ pos # 1 /\ pos # w.m + 2 /\ pos # w.m + w.n + 8
  BY <1>3 DEF VerifierMeets, Check
<1>10. w.V[pos'] = w.V[pos]
  BY <1>3, <1>6, <1>9, MeetsCounts
<1>11. claim' \in BOOLEAN /\ quad' \in BOOLEAN /\ (claim' => claim \/ idx["yr"] = 0)
  <2>1. op.of = "fold" => pos <= w.m + 2
    BY <1>3, <1>8, <1>9
  <2> QED
    BY <1>1, <1>6, <2>1 DEF Reading
<1>12. (pos' > 1 => Shaped(claim', quad')) /\ (pos' > w.m + 2 => Counted2(w))
  BY <1>1, <1>6, <1>8, <1>9, Staying
<1>13. \A l \in Nat : l < w.V[pos']["opens"] => Opened(l)
  BY <1>1, <1>10 DEF Reading
<1>14. pos \in 1..(w.m + w.n + 7)
  BY <1>3, <1>8, <1>9
<1>15. (w.d + 1 < pos' /\ pos' <= w.m + w.n + 5) => pos = w.d + 1
  BY <1>3, <1>6, <1>8, <1>9
<1>16. CASE op.n = 0
  <2>1. Recalls(log', T) /\ Kept(log, T, log', T)
    BY <1>1, <1>6, <1>16, LogStays
  <2>2. tr' = Absorbed(tr, x) /\ chal' = chal
    BY <1>4, <1>6, <1>16
  <2>3. Listening(T)' /\ Tells(T[tr'.at], tr'.since, Tell(Cut(sent, idx), x))
    BY <1>1, <1>7, <2>1, <2>2, ListenKept
  <2>4. Tells(T[tr'.at], tr'.since, Cut(sent, idx))
    BY <1>5, <2>3, TellsNot
  <2>5. ~(w.d + 1 < pos' /\ pos' <= w.m + w.n + 5)
    BY <1>9, <1>15, <1>16
  <2>6. Walked(w, T)'
    BY <1>6, <1>10, <1>11, <1>12, <1>13, <1>14, <2>1, <2>3, <2>4, <2>5, Passing
  <2> QED
    BY <2>6
<1>17. CASE op.n # 0
  <2>a. PICK a, bad : a = 0 /\ bad = FALSE
    OBVIOUS
  <2>1. Answered(p, a, bad) /\ tr' = After(p) /\ chal' = PointId(p)
    BY <1>6, <1>17, <2>a
  <2>2. PICK U : /\ Recalls(log', U) /\ Kept(log, T, log', U)
                 /\ PointId(p) \in 0..Len(log') /\ U[PointId(p)] = Cut(sent, idx)
    BY <1>1, <1>4, <1>5, <1>7, <2>1, Asking
  <2>3. /\ tr' = [at |-> tr'.at, since |-> tr'.since] /\ tr'.at \in 0..Len(log') /\ IsSeq(tr'.since)
        /\ Tells(U[tr'.at], tr'.since, U[PointId(p)])
    BY <2>1, <2>2, Squeezed
  <2>4. Listening(U)'
    BY <2>1, <2>2, <2>3 DEF Listening
  <2>5. ASSUME w.d + 1 < pos' /\ pos' <= w.m + w.n + 5
        PROVE  U[chal'] = Cut(sent, LastCount(w))
    <3>1. LastCount(w) = w.V[pos]
      BY <1>15, <2>5 DEF LastCount
    <3>2. \A f \in Told : LastCount(w)[f] = idx[f]
      BY <1>1, <3>1 DEF Reading
    <3>3. Cut(sent, LastCount(w)) = Cut(sent, idx)
      BY <3>2 DEF Cut
    <3> QED
      BY <2>1, <2>2, <3>3
  <2>6. Tells(U[tr'.at], tr'.since, Cut(sent, idx))
    BY <2>2, <2>3
  <2>7. Walked(w, U)'
    BY <1>6, <1>10, <1>11, <1>12, <1>13, <1>14, <2>2, <2>4, <2>5, <2>6, Passing
  <2> QED
    BY <2>7
<1> QED
  BY <1>16, <1>17

LEMMA VerifierSamples ==
  ASSUME cfg \in Configs, NEW w, w = PlanOf(cfg), NEW T, Walked(w, T), phase = "verify", NEW v, SamplePosition(v)
  PROVE  \E U : Walked(w, U)'
<1>1. Sizes(cfg, w) /\ Complete(w, T) /\ Reading(w, T) /\ Listening(T)
  BY Verifying
<1>2. PICK op : op = Op
  OBVIOUS
<1>3. pos \in 1..(w.m + w.n + 8) /\ op.act = "queries" /\ VerifierMeets(cfg, w, pos, op)
  <2>1. AtOp("queries")
    BY DEF SamplePosition
  <2> QED
    BY <1>2, <2>1, Verifying
<1>4. PICK x, p : x = <<"squeeze", FALSE, 1>> /\ p = Absorbed(tr, x)
  OBVIOUS
<1>5. x[1] \notin Told
  BY <1>4, TagsApart
<1>6. /\ Answered(p, v, v \in got) /\ tr' = After(p) /\ chal' = chal
      /\ (pos' = pos \/ pos' = pos + 1) /\ cfg' = cfg /\ phase' = phase /\ made' = made /\ sent' = sent
      /\ idx' = idx /\ claim' = claim /\ quad' = quad
  BY <1>4 DEF SamplePosition, Advance, checkVars
<1>7. Tells(T[tr.at], tr.since, Cut(sent, idx))
  BY <1>1 DEF Reading
<1>8. w.m \in Nat \ {0} /\ w.n \in Nat \ {0} /\ w.d \in 1..w.m
  BY <1>1 DEF Sizes
<1>9. /\ pos # w.d + 1 /\ Meets(op, w.V[pos], w.V[pos + 1])
      /\ pos # 1 /\ pos # w.m + 2 /\ pos # w.m + w.n + 8
  BY <1>3 DEF VerifierMeets, Check
<1>10. /\ \A f \in Told : w.V[pos'][f] = w.V[pos][f]
       /\ w.V[pos']["opens"] = w.V[pos]["opens"]
  BY <1>3, <1>6, <1>9, MeetsCounts
<1>11. claim' \in BOOLEAN /\ quad' \in BOOLEAN /\ (claim' => claim \/ idx["yr"] = 0)
  BY <1>1, <1>6 DEF Reading
<1>12. (pos' > 1 => Shaped(claim', quad')) /\ (pos' > w.m + 2 => Counted2(w))
  BY <1>1, <1>6, <1>8, <1>9, Staying
<1>13. \A l \in Nat : l < w.V[pos']["opens"] => Opened(l)
  BY <1>1, <1>10 DEF Reading
<1>14. pos \in 1..(w.m + w.n + 7)
  BY <1>3, <1>8, <1>9
<1>15. (w.d + 1 < pos' /\ pos' <= w.m + w.n + 5) => w.d + 1 < pos /\ pos <= w.m + w.n + 5
  BY <1>3, <1>6, <1>8, <1>9
<1>16. PICK U : /\ Recalls(log', U) /\ Kept(log, T, log', U)
                /\ PointId(p) \in 0..Len(log') /\ U[PointId(p)] = Cut(sent, idx)
  BY <1>1, <1>4, <1>5, <1>6, <1>7, Asking
<1>17. /\ tr' = [at |-> tr'.at, since |-> tr'.since] /\ tr'.at \in 0..Len(log') /\ IsSeq(tr'.since)
       /\ Tells(U[tr'.at], tr'.since, U[PointId(p)])
  BY <1>6, <1>16, Squeezed
<1>18. chal \in 0..Len(log') /\ U[chal] = T[chal]
  <2>1. chal \in 0..Len(log) /\ Len(log) \in Nat /\ Len(log') \in Nat /\ Len(log) <= Len(log')
    BY <1>1, <1>16 DEF Listening, Kept
  <2>2. chal \in 0..Len(log')
    BY <2>1
  <2> QED
    BY <1>16, <2>1, <2>2 DEF Kept
<1>19. Listening(U)'
  BY <1>6, <1>16, <1>17, <1>18 DEF Listening
<1>20. (w.d + 1 < pos' /\ pos' <= w.m + w.n + 5) => U[chal'] = Cut(sent, LastCount(w))
  BY <1>1, <1>6, <1>15, <1>18 DEF Reading
<1>21. Tells(U[tr'.at], tr'.since, Cut(sent, idx))
  BY <1>16, <1>17
<1>22. Walked(w, U)'
  BY <1>6, <1>10, <1>11, <1>12, <1>13, <1>14, <1>16, <1>19, <1>20, <1>21, Passing
<1> QED
  BY <1>22

LEMMA VerifierOpening ==
  ASSUME cfg \in Configs, NEW w, w = PlanOf(cfg), NEW T, Walked(w, T), VerifierOpens
  PROVE  phase' = "reject" \/ \E U : Walked(w, U)'
<1>0. phase = "verify" /\ AtOp("open")
  BY DEF VerifierOpens
<1>1. Sizes(cfg, w) /\ Complete(w, T) /\ Reading(w, T) /\ Listening(T)
  BY <1>0, Verifying
<1>2. PICK op : op = Op
  OBVIOUS
<1>3. pos \in 1..(w.m + w.n + 8) /\ op.act = "open" /\ VerifierMeets(cfg, w, pos, op)
  BY <1>0, <1>2, Verifying
<1>4. w.m \in Nat \ {0} /\ w.n \in Nat \ {0} /\ w.d \in 1..w.m
  BY <1>1 DEF Sizes
<1>5. /\ pos # w.d + 1 /\ Meets(op, w.V[pos], w.V[pos + 1])
      /\ pos # 1 /\ pos # w.m + 2 /\ pos # w.m + w.n + 8
  BY <1>3 DEF VerifierMeets, Check
<1>6. CASE ~OpensTo(op.n)
  BY <1>2, <1>6 DEF VerifierOpens, Reject
<1>7. CASE OpensTo(op.n)
  <2>1. /\ pos' = pos + 1 /\ cfg' = cfg /\ phase' = phase /\ tr' = tr /\ chal' = chal /\ log' = log /\ made' = made
        /\ sent' = sent /\ idx' = idx /\ claim' = claim /\ quad' = quad
    BY <1>2, <1>7 DEF VerifierOpens, Advance
  <2>2. Recalls(log', T) /\ Kept(log, T, log', T)
    BY <1>1, <2>1, LogStays
  <2>3. Listening(T)'
    BY <1>1, <2>1 DEF Listening
  <2>4. Tells(T[tr'.at], tr'.since, Cut(sent, idx))
    BY <1>1, <2>1 DEF Reading
  <2>5. op.of = "opens" /\ op.n = w.V[pos]["opens"]
    BY <1>3, <1>5 DEF Meets
  <2>6. "opens" \notin Told /\ "opens" \in Counted /\ Told \subseteq Counted
    BY TagsApart DEF Counted
  <2>7. \A f \in Told : w.V[pos'][f] = w.V[pos][f]
    BY <1>3, <1>5, <2>1, <2>5, <2>6, MeetsCounts
  <2>8. op.n \in Nat /\ w.V[pos']["opens"] = op.n + 1
    BY <1>3, <1>5, <2>1, <2>5, <2>6, MeetsCounts
  <2>9. Opened(op.n)
    BY <1>7 DEF OpensTo, Opened
  <2>10. \A l \in Nat : l < w.V[pos']["opens"] => Opened(l)
    <3> TAKE l \in Nat
    <3>1. l < op.n + 1 => l < op.n \/ l = op.n
      BY <2>8
    <3>2. l < op.n => Opened(l)
      BY <1>1, <2>5 DEF Reading
    <3> QED
      BY <2>8, <2>9, <3>1, <3>2
  <2>11. claim' \in BOOLEAN /\ quad' \in BOOLEAN /\ (claim' => claim)
    BY <1>1, <2>1 DEF Reading
  <2>12. (pos' > 1 => Shaped(claim', quad')) /\ (pos' > w.m + 2 => Counted2(w))
    BY <1>1, <1>4, <1>5, <2>1, Staying
  <2>13. pos \in 1..(w.m + w.n + 7)
    BY <1>3, <1>4, <1>5
  <2>14. (w.d + 1 < pos' /\ pos' <= w.m + w.n + 5) => w.d + 1 < pos /\ pos <= w.m + w.n + 5
    BY <1>3, <1>4, <1>5, <2>1
  <2>15. (w.d + 1 < pos' /\ pos' <= w.m + w.n + 5) => T[chal'] = Cut(sent, LastCount(w))
    BY <1>1, <2>1, <2>14 DEF Reading
  <2>16. Walked(w, T)'
    BY <1>0, <2>1, <2>2, <2>3, <2>4, <2>7, <2>10, <2>11, <2>12, <2>13, <2>15, Passing
  <2> QED
    BY <2>16
<1> QED
  BY <1>6, <1>7

LEMMA Deciding ==
  ASSUME cfg \in Configs, NEW w, w = PlanOf(cfg), NEW T, Walked(w, T), phase = "verify", Residual
  PROVE  phase' = "reject" \/ (phase' = "accept" /\ \E U : Walked(w, U)')
<1>1. Sizes(cfg, w) /\ Complete(w, T) /\ Reading(w, T) /\ Listening(T) /\ InOrder
  BY Verifying
<1>2. AtOp("check") /\ Op.of = "residual"
  BY DEF Residual
<1>3. VerifierMeets(cfg, w, pos, Op) /\ Op.act = "check"
  BY <1>2, Verifying
<1>4. pos = w.m + w.n + 8
  <2>1. Check("shape").of = "shape" /\ Check("counts").of = "counts"
    BY DEF Check
  <2>2. Op = Check("residual")
    BY <1>2, <1>3, <2>1 DEF VerifierMeets
  <2> QED
    BY <1>3, <2>2 DEF VerifierMeets
<1>5. /\ phase' = "reject" \/ (phase' = "accept" /\ claim)
      /\ cfg' = cfg /\ pos' = pos /\ tr' = tr /\ chal' = chal /\ log' = log /\ made' = made /\ sent' = sent
      /\ idx' = idx /\ claim' = claim /\ quad' = quad
  BY DEF Residual, walkVars, checkVars
<1>6. Recalls(log', T) /\ Kept(log, T, log', T)
  BY <1>1, <1>5, LogStays
<1>7. /\ Complete(w, T)' /\ InOrder' /\ ShapeIsRight' = ShapeIsRight
      /\ \A i : YrRight(w, T, i) => YrRight(w, T, i)'
      /\ \A l : Opened(l)' = Opened(l)
  BY <1>1, <1>5, <1>6, ReadOn
<1>8. Listening(T)'
  BY <1>1, <1>5 DEF Listening
<1>9. Reading(w, T)'
  BY <1>1, <1>5, <1>7 DEF Reading
<1>10. CASE phase' = "accept" /\ claim
  <2>1. Walked(w, T)'
    BY <1>4, <1>5, <1>7, <1>8, <1>9, <1>10 DEF Walked
  <2> QED
    BY <1>10, <2>1
<1> QED
  BY <1>5, <1>10

(* Nothing happens. *)
LEMMA Resting ==
  ASSUME cfg \in Configs, NEW w, w = PlanOf(cfg), NEW T, Walked(w, T), phase \in {"prove", "verify", "accept"}, UNCHANGED vars
  PROVE  Walked(w, T)'
<1>1. /\ cfg' = cfg /\ phase' = phase /\ pos' = pos /\ tr' = tr /\ chal' = chal /\ log' = log /\ made' = made /\ sent' = sent
      /\ idx' = idx /\ claim' = claim /\ quad' = quad /\ ris' = ris /\ ctxs' = ctxs
  BY DEF vars, walkVars, checkVars
<1>2. Listening(T) /\ InOrder
  BY DEF Walked
<1>3. Listening(T)'
  BY <1>1, <1>2 DEF Listening
<1>4. \A i : Salts(i)' = Salts(i)
  BY <1>1 DEF Salts
<1>5. InOrder'
  BY <1>1, <1>2, <1>4 DEF InOrder
<1>6. CASE phase = "prove"
  <2>1. NoChecks /\ Making(w, T)
    BY <1>6 DEF Walked
  <2>2. NoChecks'
    BY <1>1, <2>1 DEF NoChecks
  <2>3. Making(w, T)'
    BY <1>1, <2>1 DEF Making
  <2> QED
    BY <1>1, <1>3, <1>5, <1>6, <2>2, <2>3 DEF Walked
<1>7. CASE phase # "prove"
  <2>1. Complete(w, T) /\ Reading(w, T) /\ (phase = "accept" => pos = w.m + w.n + 8 /\ claim)
    BY <1>7 DEF Walked
  <2>2. Kept(log, T, log', T)
    BY <1>1, <1>2, LogStays
  <2>3. /\ Complete(w, T)' /\ ShapeIsRight' = ShapeIsRight
        /\ \A i : YrRight(w, T, i) => YrRight(w, T, i)'
        /\ \A l : Opened(l)' = Opened(l)
    BY <1>1, <1>2, <2>1, <2>2, ReadOn
  <2>4. Reading(w, T)'
    BY <1>1, <2>1, <2>3 DEF Reading
  <2> QED
    BY <1>1, <1>3, <1>5, <1>7, <2>1, <2>3, <2>4 DEF Walked
<1> QED
  BY <1>6, <1>7

LEMMA NextWalked ==
  ASSUME IInv, [Next]_vars
  PROVE  IInv'
<1>1. cfg \in Configs /\ phase \in {"prove", "verify", "accept", "reject", "panic"}
  BY DEF IInv
<1>2. PICK w : w = PlanOf(cfg)
  OBVIOUS
<1>3. ASSUME phase \in {"prove", "verify", "accept"}
      PROVE  \E T : Walked(w, T)
  BY <1>2, <1>3 DEF IInv
<1>4. ASSUME phase' = "reject" \/ phase' = "panic", cfg' = cfg
      PROVE  IInv'
  BY <1>1, <1>4 DEF IInv
<1>5. ASSUME NEW U, Walked(w, U)', cfg' = cfg, phase' \in {"prove", "verify", "accept"}
      PROVE  IInv'
  <2>1. PlanOf(cfg') = w
    BY <1>2, <1>5
  <2>2. PlanOf(cfg)' = PlanOf(cfg')
    BY DEF PlanOf, Span, YrLen, LastDraw, ProverBook, VerifierBook
  <2> QED
    BY <1>1, <1>5, <2>1, <2>2 DEF IInv
<1>6. ASSUME ProverSays PROVE IInv'
  <2>1. phase = "prove" /\ phase' = phase /\ cfg' = cfg
    BY <1>6 DEF ProverSays
  <2>2. PICK T : Walked(w, T)
    BY <1>3, <2>1
  <2>3. PICK U : Walked(w, U)'
    BY <1>1, <1>2, <1>6, <2>2, ProverSaying
  <2> QED
    BY <1>5, <2>1, <2>3
<1>7. ASSUME ProverOpens PROVE IInv'
  <2>1. phase = "prove" /\ phase' = phase /\ cfg' = cfg
    BY <1>7 DEF ProverOpens
  <2>2. PICK T : Walked(w, T)
    BY <1>3, <2>1
  <2>3. PICK U : Walked(w, U)'
    BY <1>1, <1>2, <1>7, <2>2, ProverOpening
  <2> QED
    BY <1>5, <2>1, <2>3
<1>8. ASSUME NEW hits, ProverGrinds(hits) PROVE IInv'
  <2>1. phase = "prove" /\ phase' = phase /\ cfg' = cfg
    BY <1>8 DEF ProverGrinds
  <2>2. PICK T : Walked(w, T)
    BY <1>3, <2>1
  <2>3. PICK U : Walked(w, U)'
    BY <1>1, <1>2, <1>8, <2>2, ProverGrinding
  <2> QED
    BY <1>5, <2>1, <2>3
<1>9. ASSUME VerifierSays PROVE IInv'
  <2>1. phase = "verify" /\ (phase' = phase \/ phase' = "reject") /\ cfg' = cfg
    BY <1>9 DEF VerifierSays, Reject
  <2>2. PICK T : Walked(w, T)
    BY <1>3, <2>1
  <2>3. phase' = "reject" \/ \E U : Walked(w, U)'
    BY <1>1, <1>2, <1>9, <2>2, Speaking
  <2> QED
    BY <1>4, <1>5, <2>1, <2>3
<1>10. ASSUME VerifierOpens PROVE IInv'
  <2>1. phase = "verify" /\ (phase' = phase \/ phase' = "reject") /\ cfg' = cfg
    BY <1>10 DEF VerifierOpens, Reject
  <2>2. PICK T : Walked(w, T)
    BY <1>3, <2>1
  <2>3. phase' = "reject" \/ \E U : Walked(w, U)'
    BY <1>1, <1>2, <1>10, <2>2, VerifierOpening
  <2> QED
    BY <1>4, <1>5, <2>1, <2>3
<1>11. ASSUME NEW hits, VerifyPow(hits) PROVE IInv'
  <2>1. phase = "verify" /\ (phase' = phase \/ phase' = "reject") /\ cfg' = cfg
    BY <1>11 DEF VerifyPow, Reject
  <2>2. PICK T : Walked(w, T)
    BY <1>3, <2>1
  <2>3. phase' = "reject" \/ \E U : Walked(w, U)'
    BY <1>1, <1>2, <1>11, <2>2, Powing
  <2> QED
    BY <1>4, <1>5, <2>1, <2>3
<1>12. ASSUME Walking, DrawChallenge PROVE IInv'
  <2>1. (phase = "prove" \/ phase = "verify") /\ phase' = phase /\ cfg' = cfg
    BY <1>12 DEF DrawChallenge, Walking
  <2>2. PICK T : Walked(w, T)
    BY <1>3, <2>1
  <2>3. PICK U : Walked(w, U)'
    BY <1>1, <1>2, <1>12, <2>1, <2>2, ProverDraws, VerifierDraws
  <2> QED
    BY <1>5, <2>1, <2>3
<1>13. ASSUME Panic PROVE IInv'
  BY <1>4, <1>13 DEF Panic
<1>14. ASSUME Walking, CheckShape PROVE IInv'
  <2>1. (phase = "prove" \/ phase = "verify") /\ (phase' = phase \/ phase' = "reject") /\ cfg' = cfg
    BY <1>14 DEF CheckShape, Reject, Walking
  <2>2. PICK T : Walked(w, T)
    BY <1>3, <2>1
  <2>3. CASE phase = "prove"
    <3>1. AtOp("check")
      BY <1>14 DEF CheckShape
    <3>2. Op.act = "check" /\ ProverMeets(w, pos, Op)
      BY <1>1, <1>2, <2>2, <2>3, <3>1, Proving
    <3> QED
      BY <3>2 DEF ProverMeets
  <2>4. CASE phase = "verify"
    <3>1. phase' = "reject" \/ \E U : Walked(w, U)'
      BY <1>1, <1>2, <1>14, <2>2, <2>4, Checking
    <3> QED
      BY <1>4, <1>5, <2>1, <2>4, <3>1
  <2> QED
    BY <2>1, <2>3, <2>4
<1>15. ASSUME Walking, Residual PROVE IInv'
  <2>1. (phase = "prove" \/ phase = "verify") /\ cfg' = cfg
    BY <1>15 DEF Residual, Walking
  <2>2. PICK T : Walked(w, T)
    BY <1>3, <2>1
  <2>3. CASE phase = "prove"
    <3>1. AtOp("check")
      BY <1>15 DEF Residual
    <3>2. Op.act = "check" /\ ProverMeets(w, pos, Op)
      BY <1>1, <1>2, <2>2, <2>3, <3>1, Proving
    <3> QED
      BY <3>2 DEF ProverMeets
  <2>4. CASE phase = "verify"
    <3>1. phase' = "reject" \/ (phase' = "accept" /\ \E U : Walked(w, U)')
      BY <1>1, <1>2, <1>15, <2>2, <2>4, Deciding
    <3> QED
      BY <1>4, <1>5, <2>1, <3>1
  <2> QED
    BY <2>1, <2>3, <2>4
<1>16. ASSUME Walking, NEW v, SamplePosition(v) PROVE IInv'
  <2>1. (phase = "prove" \/ phase = "verify") /\ phase' = phase /\ cfg' = cfg
    BY <1>16 DEF SamplePosition, Walking
  <2>2. PICK T : Walked(w, T)
    BY <1>3, <2>1
  <2>3. CASE phase = "prove"
    <3>1. PICK U : Walked(w, U)'
      BY <1>1, <1>2, <1>16, <2>2, <2>3, ProverSamples
    <3> QED
      BY <1>5, <2>1, <3>1
  <2>4. CASE phase = "verify"
    <3>1. PICK U : Walked(w, U)'
      BY <1>1, <1>2, <1>16, <2>2, <2>4, VerifierSamples
    <3> QED
      BY <1>5, <2>1, <3>1
  <2> QED
    BY <2>1, <2>3, <2>4
<1>17. ASSUME Deliver PROVE IInv'
  <2>1. phase = "prove" /\ phase' = "verify" /\ cfg' = cfg
    BY <1>17 DEF Deliver
  <2>2. PICK T : Walked(w, T)
    BY <1>3, <2>1
  <2>3. PICK U : Walked(w, U)'
    BY <1>1, <1>2, <1>17, <2>2, Delivering
  <2> QED
    BY <1>5, <2>1, <2>3
<1>18. ASSUME UNCHANGED vars PROVE IInv'
  <2>1. phase' = phase /\ cfg' = cfg
    BY <1>18 DEF vars
  <2>2. CASE phase \in {"prove", "verify", "accept"}
    <3>1. PICK T : Walked(w, T)
      BY <1>3, <2>2
    <3>2. Walked(w, T)'
      BY <1>1, <1>2, <1>18, <2>2, <3>1, Resting
    <3> QED
      BY <1>5, <2>1, <2>2, <3>2
  <2>3. CASE phase \in {"reject", "panic"}
    BY <1>4, <2>1, <2>3
  <2> QED
    BY <1>1, <2>2, <2>3
<1> QED
  BY <1>6, <1>7, <1>8, <1>9, <1>10, <1>11, <1>12, <1>13, <1>14, <1>15, <1>16, <1>17, <1>18 DEF Next
-----------------------------------------------------------------------------
(* Two lists with the same elements up to k, the length of both.                    *)
LEMMA SameWhole ==
  ASSUME NEW s, NEW t, IsSeq(s), IsSeq(t), NEW k, Len(s) = k, Len(t) = k, SubSeq(s, 1, k) = SubSeq(t, 1, k)
  PROVE  s = t
<1>1. SubSeq(s, 1, Len(s)) = s /\ SubSeq(t, 1, Len(t)) = t
  BY PartAll
<1> QED
  BY <1>1

LEMMA SameFront ==
  ASSUME NEW s, NEW t, NEW k \in Nat, Len(s) = k + 1, Len(t) = k + 1, SubSeq(s, 1, k) = SubSeq(t, 1, k)
  PROVE  Front(s) = Front(t)
<1>1. Len(s) - 1 = k /\ Len(t) - 1 = k
  OBVIOUS
<1> QED
  BY <1>1 DEF Front

(* The challenge the folded message was made with stands for all that was made      *)
(* before it, and for all that was read before it: so the two are the same.         *)
LEMMA AcceptedIsMade ==
  ASSUME cfg \in Configs, NEW w, Sizes(cfg, w), NEW T, Complete(w, T), Reading(w, T), InOrder, pos = w.m + w.n + 8, claim
  PROVE  /\ \A f \in {"ood", "roots", "fold_nonces", "yr", "start", "opens"} : sent[f] = made[f]
         /\ Len(sent["tx"]) = Len(made["tx"]) /\ Front(sent["tx"]) = Front(made["tx"])
         /\ SubSeq(sent["nonces"], 1, Steps(cfg)) = SubSeq(made["nonces"], 1, Steps(cfg))
<1>1. PICK m, n, s, L, e, r : m = w.m /\ n = w.n /\ s = Steps(cfg) /\ L = LastCount(w) /\ e = w.V[w.m + 2] /\ r = w.P[w.m + w.n + 4]
  OBVIOUS
<1>2. m \in Nat \ {0} /\ n \in Nat \ {0} /\ s \in Nat \ {0} /\ w.V[m + n + 8] = r /\ Ending(cfg, w, L, e, r)
  BY <1>1 DEF Sizes, LastCount
<1>3. /\ \A f \in {"ood", "roots", "fold_nonces", "nonces"} : e[f] = L[f]
      /\ (e["tx"] = L["tx"] \/ e["tx"] = L["tx"] + 1)
      /\ \A f \in {"ood", "roots", "fold_nonces", "tx"} : r[f] = e[f]
      /\ r["yr"] = n /\ e["roots"] = s /\ e["nonces"] = s /\ r["opens"] = s + 1
  BY <1>1, <1>2 DEF Ending
<1>4. Formed(made)
  <2>1. Len(made["opens"]) = w.P[w.m + w.n + 4]["opens"]
    BY TagsApart DEF Complete
  <2> QED
    BY <2>1, MadeFormed
<1>5. /\ \A f \in Lists : IsSeq(made[f]) /\ IsSeq(sent[f])
      /\ \A f \in Lists \ {"start"} : Len(made[f]) = r[f]
  BY <1>1 DEF Complete, InOrder
<1>6. \A g \in Lists : Left(g, made[g], sent[g])
  <2>1. PICK q : q = sent
    OBVIOUS
  <2>2. q \in {made} \cup Altered(made)
    BY <2>1 DEF Complete
  <2>3. \A g \in Lists : Left(g, made[g], q[g])
    BY <1>4, <2>2, AlteredLeft
  <2> QED
    BY <2>1, <2>3
<1>7. pos > 1 /\ pos > w.m + 2
  BY <1>1, <1>2
<1>8. /\ ShapeIsRight /\ sent["start"][1].intact
      /\ (\A f \in {"tx", "ood", "fold_nonces"} : Len(sent[f]) = e[f]) /\ Len(sent["yr"]) = n
      /\ \A l \in Nat : l < r["opens"] => Opened(l)
  BY <1>1, <1>2, <1>7 DEF Reading
<1>9. Len(sent["roots"]) = s /\ Len(sent["opens"]) = s + 1 /\ sent["start"][2].intact
  BY <1>1, <1>8 DEF ShapeIsRight
<1>10. PICK a \in 0..Len(log) : T[a] = Cut(made, L) /\ \A i \in 1..Len(made["yr"]) : made["yr"][i].at = a
  BY <1>1 DEF Complete
<1>11. Len(made["yr"]) = n /\ IsSeq(made["yr"]) /\ IsSeq(sent["yr"])
  BY <1>3, <1>5, TagsApart
<1>12. \A i \in 1..n : YrRight(w, T, i)
  <2>1. idx["yr"] = w.V[pos]["yr"]
    BY TagsApart DEF Reading
  <2>2. idx["yr"] = n
    BY <1>1, <1>2, <1>3, <2>1
  <2> QED
    BY <2>2 DEF Reading
<1>13. \A i \in 1..n : sent["yr"][i] = made["yr"][i]
  <2> TAKE i \in 1..n
  <2>1. sent["yr"][i].intact /\ sent["yr"][i].no = i
    BY <1>12 DEF YrRight
  <2>2. sent["yr"][i].intact \in BOOLEAN
    BY <1>6, <1>8, TagsApart DEF Left
  <2>3. sent["yr"][i].intact = TRUE
    BY <2>1, <2>2
  <2>4. PICK j \in 1..n : sent["yr"][i] = made["yr"][j]
    BY <1>6, <1>8, <1>11, <2>3, TagsApart DEF Left
  <2>5. made["yr"][j].no = j
    BY <1>11, TagsApart DEF InOrder
  <2> QED
    BY <2>1, <2>4, <2>5
<1>14. sent["yr"] = made["yr"]
  <2>1. PICK y, z : y = sent["yr"] /\ z = made["yr"]
    OBVIOUS
  <2>2. IsSeq(y) /\ IsSeq(z) /\ Len(y) = Len(z) /\ \A i \in 1..Len(y) : y[i] = z[i]
    BY <1>8, <1>11, <1>13, <2>1
  <2>3. y = z
    BY <2>2, AnySame
  <2> QED
    BY <2>1, <2>3
<1>15. Cut(made, L) = Cut(sent, L)
  <2>1. PICK i \in 1..n : i = 1
    BY <1>2
  <2>2. T[sent["yr"][i].at] = Cut(sent, L)
    BY <1>1, <1>12 DEF YrRight
  <2>3. sent["yr"][i].at = a
    BY <1>10, <1>11, <1>13
  <2> QED
    BY <1>10, <2>2, <2>3
<1>16. \A f \in Told : SubSeq(sent[f], 1, L[f]) = SubSeq(made[f], 1, L[f])
  <2> TAKE f \in Told
  <2>1. Cut(made, L)[f] = SubSeq(made[f], 1, L[f]) /\ Cut(sent, L)[f] = SubSeq(sent[f], 1, L[f])
    BY DEF Cut
  <2> QED
    BY <1>15, <2>1
<1>17. \A f \in {"ood", "roots", "fold_nonces"} : sent[f] = made[f]
  <2> TAKE f \in {"ood", "roots", "fold_nonces"}
  <2>1. f \in Told /\ f \in Lists /\ f # "start"
    BY TagsApart
  <2>2. PICK y, z, k : y = sent[f] /\ z = made[f] /\ k = L[f]
    OBVIOUS
  <2>3. Len(z) = k
    BY <1>3, <1>5, <2>1, <2>2
  <2>4. Len(y) = k
    BY <1>3, <1>8, <1>9, <2>2
  <2>5. IsSeq(y) /\ IsSeq(z) /\ SubSeq(y, 1, k) = SubSeq(z, 1, k)
    BY <1>5, <1>16, <2>1, <2>2
  <2>6. y = z
    BY <2>3, <2>4, <2>5, SameWhole
  <2> QED
    BY <2>2, <2>6
<1>18. Len(sent["tx"]) = Len(made["tx"]) /\ Front(sent["tx"]) = Front(made["tx"])
  <2>1. PICK y, z, k : y = sent["tx"] /\ z = made["tx"] /\ k = L["tx"]
    OBVIOUS
  <2>2. Len(y) = e["tx"] /\ Len(z) = e["tx"] /\ IsSeq(y) /\ IsSeq(z) /\ SubSeq(y, 1, k) = SubSeq(z, 1, k)
    BY <1>3, <1>5, <1>8, <1>16, <2>1, TagsApart
  <2>3. k \in Nat
    <3>1. \A f \in Told : L[f] \in Nat
      BY <1>1, CountKept
    <3> QED
      BY <2>1, <3>1, TagsApart
  <2>4. CASE e["tx"] = k
    <3>1. y = z
      BY <2>2, <2>4, SameWhole
    <3> QED
      BY <2>1, <3>1
  <2>5. CASE e["tx"] = k + 1
    <3>1. Len(y) = k + 1 /\ Len(z) = k + 1
      BY <2>2, <2>5
    <3>2. Front(y) = Front(z)
      BY <2>2, <2>3, <3>1, SameFront
    <3> QED
      BY <2>1, <2>2, <3>2
  <2> QED
    BY <1>3, <2>1, <2>4, <2>5
<1>19. SubSeq(sent["nonces"], 1, s) = SubSeq(made["nonces"], 1, s)
  <2>1. L["nonces"] = s
    BY <1>3
  <2> QED
    BY <1>16, <2>1, TagsApart
<1>20. sent["start"] = made["start"]
  <2>1. sent["start"] = made["start"] \/ sent["start"][1].intact = FALSE \/ sent["start"][2].intact = FALSE
    BY <1>6, TagsApart DEF Left
  <2> QED
    BY <1>8, <1>9, <2>1
<1>21. sent["opens"] = made["opens"]
  <2>1. PICK y, z : y = sent["opens"] /\ z = made["opens"]
    OBVIOUS
  <2>2. \/ y = z \/ Len(y) # Len(z)
        \/ \E i \in 1..Len(z) : y[i].intact = FALSE \/ y[i].val.salts # z[i].val.salts
    BY <1>6, <2>1, TagsApart DEF Left
  <2>3. Len(y) = s + 1 /\ Len(z) = s + 1
    BY <1>3, <1>5, <1>9, <2>1, TagsApart
  <2>4. ASSUME NEW i \in 1..Len(z)
        PROVE  y[i].intact # FALSE /\ y[i].val.salts = z[i].val.salts
    <3>1. PICK l \in Nat : l = i - 1
      BY <1>2, <2>3
    <3>2. l + 1 = i /\ l < r["opens"]
      BY <1>2, <1>3, <2>3, <3>1
    <3>3. Opened(l)
      BY <1>8, <3>2
    <3>4. y[i].intact /\ y[i].val.salts = Salts(l)
      BY <2>1, <3>2, <3>3 DEF Opened
    <3>5. z[i].val = [rows |-> z[i].val.rows, salts |-> Salts(i - 1)]
      BY <2>1 DEF InOrder
    <3>6. z[i].val.salts = Salts(l)
      <4>1. PICK v, x, h : v = z[i].val /\ x = v.rows /\ h = Salts(l)
        OBVIOUS
      <4>2. v = [rows |-> x, salts |-> h]
        BY <3>1, <3>5, <4>1
      <4>3. v.salts = h
        BY <4>2
      <4> QED
        BY <4>1, <4>3
    <3> QED
      BY <3>4, <3>6
  <2>5. y = z
    BY <2>2, <2>3, <2>4
  <2> QED
    BY <2>1, <2>5
<1> QED
  BY <1>1, <1>14, <1>17, <1>18, <1>19, <1>20, <1>21

LEMMA IInvAccepts ==
  ASSUME IInv
  PROVE  AcceptsOnlyTheMade
<1>1. SUFFICES ASSUME phase = "accept"
               PROVE  /\ \A f \in Lists \ {"tx", "nonces"} : sent[f] = made[f]
                      /\ Len(sent.tx) = Len(made.tx) /\ Front(sent.tx) = Front(made.tx)
                      /\ SubSeq(sent.nonces, 1, Steps(cfg)) = SubSeq(made.nonces, 1, Steps(cfg))
  BY DEF AcceptsOnlyTheMade
<1>2. PICK w : w = PlanOf(cfg)
  OBVIOUS
<1>3. PICK T : Walked(w, T)
  BY <1>1, <1>2 DEF IInv
<1>4. cfg \in Configs
  BY DEF IInv
<1>5. Sizes(cfg, w)
  BY <1>2, <1>4, Planned DEF Itinerary
<1>6. Complete(w, T) /\ Reading(w, T) /\ InOrder /\ pos = w.m + w.n + 8 /\ claim
  BY <1>1, <1>3 DEF Walked
<1>7. Lists \ {"tx", "nonces"} = {"ood", "roots", "fold_nonces", "yr", "start", "opens"}
  BY TagsApart
<1>8. /\ \A f \in {"ood", "roots", "fold_nonces", "yr", "start", "opens"} : sent[f] = made[f]
      /\ Len(sent["tx"]) = Len(made["tx"]) /\ Front(sent["tx"]) = Front(made["tx"])
      /\ SubSeq(sent["nonces"], 1, Steps(cfg)) = SubSeq(made["nonces"], 1, Steps(cfg))
  BY <1>4, <1>5, <1>6, AcceptedIsMade
<1> QED
  BY <1>7, <1>8

(* For every configuration, a proof that is accepted is the proof that was made, but *)
(* for the last sumcheck message, the last nonce and nonces after it.                *)
THEOREM AcceptedOpeningsAreMade == Spec => []AcceptsOnlyTheMade
<1>1. Init => IInv
  BY InitWalked
<1>2. IInv /\ [Next]_vars => IInv'
  BY NextWalked
<1>3. IInv => AcceptsOnlyTheMade
  BY IInvAccepts
<1> QED
  BY <1>1, <1>2, <1>3, PTL DEF Spec
-----------------------------------------------------------------------------
(* What a challenge depends on.  An item with the tag of a list is a pair, of the  *)
(* list's name and an element of it.                                               *)
IsPair(x) == x[1] \in Told => x = <<x[1], x[2]>>
Paired(s) == \A j \in 1..Len(s) : IsPair(s[j])
PairedLog(g) == \A k \in 1..Len(g) : Paired(g[k].point.since)

Listed(t) == t = [f \in Told |-> t[f]] /\ \A f \in Told : IsSeq(t[f])
Items(t, f) == {<<f, t[f][i]>> : i \in 1..Len(t[f])}
Tagged(A, f) == {x \in A : x[1] = f}

LEMMA TellItems ==
  ASSUME NEW t, Listed(t), NEW x, IsPair(x)
  PROVE  Listed(Tell(t, x)) /\ \A f \in Told : Items(Tell(t, x), f) = Items(t, f) \cup Tagged({x}, f)
<1>1. CASE x[1] \notin Told
  <2>1. Tell(t, x) = t
    BY <1>1, TellsNot
  <2>2. \A f \in Told : Tagged({x}, f) = {}
    BY <1>1 DEF Tagged
  <2> QED
    BY <2>1, <2>2
<1>2. CASE x[1] \in Told
  <2>1. PICK g, e : g = x[1] /\ e = x[2]
    OBVIOUS
  <2>2. g \in Told /\ x = <<g, e>>
    BY <1>2, <2>1 DEF IsPair
  <2>3. PICK s : s = t[g]
    OBVIOUS
  <2>4. IsSeq(s)
    BY <2>2, <2>3 DEF Listed
  <2>5. PICK n \in Nat : n = Len(s)
    BY <2>4, AnyLength
  <2>6. PICK u : u = Append(s, e)
    OBVIOUS
  <2>7. IsSeq(u) /\ Len(u) = n + 1 /\ (\A i \in 1..n : u[i] = s[i]) /\ u[n + 1] = e
    BY <2>4, <2>5, <2>6, AnyAppend
  <2>8. PICK r : r = Tell(t, x)
    OBVIOUS
  <2>9. r = [f \in Told |-> IF f = g THEN u ELSE t[f]]
    BY <1>2, <2>1, <2>2, <2>3, <2>6, <2>8 DEF Tell, Listed
  <2>10. Listed(r)
    BY <2>2, <2>7, <2>9 DEF Listed
  <2>11. ASSUME NEW f \in Told
         PROVE  Items(r, f) = Items(t, f) \cup Tagged({x}, f)
    <3>1. CASE f = g
      <4>1. Items(r, f) = {<<g, u[i]>> : i \in 1..(n + 1)}
        BY <2>7, <2>9, <3>1 DEF Items
      <4>2. Items(t, f) = {<<g, s[i]>> : i \in 1..n}
        BY <2>3, <2>5, <3>1 DEF Items
      <4>3. Tagged({x}, f) = {<<g, e>>}
        BY <2>1, <2>2, <3>1 DEF Tagged
      <4>4. \A i \in 1..(n + 1) : i \in 1..n \/ i = n + 1
        BY <2>5
      <4>5. \A i \in 1..n : i \in 1..(n + 1)
        BY <2>5
      <4>6. n + 1 \in 1..(n + 1)
        BY <2>5
      <4>7. \A i \in 1..(n + 1) : <<g, u[i]>> \in {<<g, s[j]>> : j \in 1..n} \cup {<<g, e>>}
        BY <2>7, <4>4
      <4>8. \A i \in 1..n : <<g, s[i]>> \in {<<g, u[j]>> : j \in 1..(n + 1)}
        BY <2>7, <4>5
      <4>9. <<g, e>> \in {<<g, u[j]>> : j \in 1..(n + 1)}
        BY <2>7, <4>6
      <4> QED
        BY <4>1, <4>2, <4>3, <4>7, <4>8, <4>9, ZenonT(40)
    <3>2. CASE f # g
      <4>1. r[f] = t[f]
        BY <2>9, <3>2
      <4>2. Tagged({x}, f) = {}
        BY <2>1, <3>2 DEF Tagged
      <4> QED
        BY <4>1, <4>2 DEF Items
    <3> QED
      BY <3>1, <3>2
  <2> QED
    BY <2>8, <2>10, <2>11
<1> QED
  BY <1>1, <1>2

Heard(t, s, j, r) ==
    Listed(r) /\ \A f \in Told : Items(r, f) = Items(t, f) \cup Tagged({s[i] : i \in 1..j}, f)

LEMMA HeardNone ==
  ASSUME NEW t, Listed(t), NEW s
  PROVE  Heard(t, s, 0, t)
BY DEF Heard, Tagged

LEMMA HeardMore ==
  ASSUME NEW t, NEW s, NEW j \in Nat, NEW r, Heard(t, s, j, r), IsPair(s[j + 1])
  PROVE  Heard(t, s, j + 1, Tell(r, s[j + 1]))
<1>1. PICK x, q : x = s[j + 1] /\ q = Tell(r, x)
  OBVIOUS
<1>2. Listed(q) /\ \A f \in Told : Items(q, f) = Items(r, f) \cup Tagged({x}, f)
  BY <1>1, TellItems DEF Heard
<1>3. {s[i] : i \in 1..(j + 1)} = {s[i] : i \in 1..j} \cup {x}
  <2>1. \A i \in 1..(j + 1) : i \in 1..j \/ i = j + 1
    OBVIOUS
  <2>2. j + 1 \in 1..(j + 1) /\ \A i \in 1..j : i \in 1..(j + 1)
    OBVIOUS
  <2>3. {s[i] : i \in 1..(j + 1)} \subseteq {s[i] : i \in 1..j} \cup {x}
    BY <1>1, <2>1
  <2>4. {s[i] : i \in 1..j} \cup {x} \subseteq {s[i] : i \in 1..(j + 1)}
    BY <1>1, <2>2
  <2> QED
    BY <2>3, <2>4
<1>4. \A f : Tagged({s[i] : i \in 1..j} \cup {x}, f) = Tagged({s[i] : i \in 1..j}, f) \cup Tagged({x}, f)
  BY DEF Tagged
<1>5. \A f \in Told : Items(q, f) = Items(t, f) \cup Tagged({s[i] : i \in 1..(j + 1)}, f)
  BY <1>2, <1>3, <1>4 DEF Heard
<1> QED
  BY <1>1, <1>2, <1>5 DEF Heard

(* A transcript tells the elements it absorbs. *)
LEMMA TellsItems ==
  ASSUME NEW t, Listed(t), NEW s, IsSeq(s), Paired(s), NEW r, Tells(t, s, r)
  PROVE  Listed(r) /\ \A f \in Told : Items(r, f) = Items(t, f) \cup Tagged(ToSet(s), f)
<1>1. PICK n \in Nat : n = Len(s)
  BY AnyLength
<1>2. PICK W : W[0] = t /\ (\A j \in 1..n : W[j] = Tell(W[j - 1], s[j])) /\ W[n] = r
  BY <1>1 DEF Tells
<1> DEFINE S == {j \in 0..n : ~Heard(t, s, j, W[j])}
<1>3. S = {}
  <2> SUFFICES ASSUME S # {} PROVE FALSE
    OBVIOUS
  <2>1. S \subseteq Nat
    OBVIOUS
  <2>2. PICK j \in S : \A i \in S : j <= i
    BY <2>1, LeastNat
  <2>3. j # 0
    BY <1>2, HeardNone
  <2>4. PICK k \in Nat : k = j - 1 /\ k + 1 = j
    BY <2>3
  <2>5. k \in 0..n /\ ~(j <= k) /\ j \in 1..n
    BY <2>3, <2>4
  <2>6. Heard(t, s, k, W[k])
    BY <2>2, <2>5
  <2>7. IsPair(s[k + 1])
    BY <1>1, <2>4, <2>5 DEF Paired
  <2>8. Heard(t, s, k + 1, Tell(W[k], s[k + 1]))
    BY <2>6, <2>7, HeardMore
  <2> QED
    BY <1>2, <2>4, <2>5, <2>8
<1>4. Heard(t, s, n, r)
  BY <1>2, <1>3
<1>5. ToSet(s) = {s[i] : i \in 1..n}
  <2>1. DOMAIN s = 1..n
    BY <1>1, AnyLength
  <2> QED
    BY <2>1 DEF ToSet
<1> QED
  BY <1>4, <1>5 DEF Heard
-----------------------------------------------------------------------------
(* What each point depends on, up to point n of the log g.                         *)
PastOf(g, n, d) == d = [k \in 0..n |-> IF k = 0 THEN {} ELSE d[g[k].point.at] \cup ToSet(g[k].point.since)]

LEMMA PastsExist ==
  ASSUME NEW g, NEW n \in Nat, \A k \in 1..n : g[k].point.at \in 0..(k - 1)
  PROVE  \E d : PastOf(g, n, d)
<1> DEFINE S == {k \in 0..n : ~\E d : PastOf(g, k, d)}
<1>1. SUFFICES ASSUME S # {} PROVE FALSE
  OBVIOUS
<1>2. S \subseteq Nat
  OBVIOUS
<1>3. PICK k \in S : \A m \in S : k <= m
  BY <1>1, <1>2, LeastNat
<1>4. k \in 0..n /\ ~\E d : PastOf(g, k, d)
  BY <1>3
<1>5. CASE k = 0
  <2>1. PICK d : d = [i \in 0..0 |-> {}]
    OBVIOUS
  <2>2. d = [i \in 0..0 |-> IF i = 0 THEN {} ELSE d[g[i].point.at] \cup ToSet(g[i].point.since)]
    BY <2>1
  <2> QED
    BY <1>4, <1>5, <2>2 DEF PastOf
<1>6. CASE k # 0
  <2>1. PICK m \in Nat : k = m + 1
    BY <1>4, <1>6
  <2>2. m \in 0..n /\ ~(k <= m) /\ k \in 1..n /\ \A i \in 0..k : i \in 0..m \/ i = k
    BY <1>4, <2>1
  <2>3. PICK d : PastOf(g, m, d)
    BY <1>3, <2>2
  <2>4. PICK e : e = d[g[k].point.at] \cup ToSet(g[k].point.since)
    OBVIOUS
  <2>5. PICK h : h = [i \in 0..k |-> IF i = k THEN e ELSE d[i]]
    OBVIOUS
  <2>6. \A i \in 0..m : i # k /\ i \in 0..k
    BY <2>1
  <2>7. \A i \in 0..m : h[i] = d[i]
    BY <2>5, <2>6
  <2>8. h[k] = e
    BY <2>2, <2>5
  <2>9. ASSUME NEW i \in 0..k
        PROVE  h[i] = IF i = 0 THEN {} ELSE h[g[i].point.at] \cup ToSet(g[i].point.since)
    <3>1. CASE i = k
      <4>1. g[k].point.at \in 0..m
        BY <2>1, <2>2
      <4>2. h[g[k].point.at] = d[g[k].point.at]
        BY <2>7, <4>1
      <4> QED
        BY <1>6, <2>4, <2>8, <3>1, <4>2
    <3>2. CASE i # k
      <4>1. i \in 0..m
        BY <2>2, <3>2
      <4>2. d[i] = IF i = 0 THEN {} ELSE d[g[i].point.at] \cup ToSet(g[i].point.since)
        BY <2>3, <4>1, Zenon DEF PastOf
      <4>3. i # 0 => g[i].point.at \in 0..m
        <5>1. i # 0 => i \in 1..n /\ g[i].point.at \in 0..(i - 1)
          BY <1>4, <2>2, <4>1
        <5> QED
          BY <2>1, <4>1, <5>1
      <4>4. i # 0 => h[g[i].point.at] = d[g[i].point.at]
        BY <2>7, <4>3
      <4> QED
        BY <2>7, <4>1, <4>2, <4>4, Zenon
    <3> QED
      BY <3>1, <3>2
  <2>10. h = [i \in 0..k |-> IF i = 0 THEN {} ELSE h[g[i].point.at] \cup ToSet(g[i].point.since)]
    BY <2>5, <2>9
  <2> QED
    BY <1>4, <2>10 DEF PastOf
<1> QED
  BY <1>5, <1>6

LEMMA PastIs ==
  ASSUME NEW T, Recalls(log, T)
  PROVE  /\ Past[0] = {}
         /\ \A k \in 1..Len(log) : Past[k] = Past[log[k].point.at] \cup ToSet(log[k].point.since)
<1>1. PICK n \in Nat : n = Len(log)
  BY AnyLength DEF Recalls
<1>2. \A k \in 1..n : log[k].point.at \in 0..(k - 1)
  BY <1>1 DEF Recalls
<1>3. \E d : PastOf(log, n, d)
  BY <1>2, PastsExist
<1>4. Past = CHOOSE d : PastOf(log, n, d)
  BY <1>1 DEF Past, PastOf
<1>5. PICK h : h = Past
  OBVIOUS
<1>6. PastOf(log, n, h)
  BY <1>3, <1>4, <1>5
<1>7. h[0] = {}
  BY <1>6 DEF PastOf
<1>8. \A k \in 1..n : k \in 0..n /\ k # 0
  BY SMTT(30)
<1>9. \A k \in 1..n : h[k] = h[log[k].point.at] \cup ToSet(log[k].point.since)
  BY <1>6, <1>8 DEF PastOf
<1> QED
  BY <1>1, <1>5, <1>7, <1>9

(* What a point tells is what it depends on. *)
LEMMA PastTold ==
  ASSUME NEW T, Recalls(log, T), PairedLog(log)
  PROVE  \A k \in 0..Len(log) : Listed(T[k]) /\ \A f \in Told : Tagged(Past[k], f) = Items(T[k], f)
<1>1. PICK n \in Nat : n = Len(log)
  BY AnyLength DEF Recalls
<1> DEFINE Same(k) == Listed(T[k]) /\ \A f \in Told : Tagged(Past[k], f) = Items(T[k], f)
           S == {k \in 0..n : ~Same(k)}
<1>2. Same(0)
  <2>1. T[0] = Nothing /\ Past[0] = {}
    BY PastIs DEF Recalls
  <2>2. Listed(Nothing) /\ \A f \in Told : Nothing[f] = <<>>
    BY AnyNone DEF Listed, Nothing
  <2>3. \A f \in Told : Items(Nothing, f) = {}
    BY <2>2, AnyNone DEF Items
  <2>4. \A f \in Told : Tagged({}, f) = {}
    BY DEF Tagged
  <2> QED
    BY <2>1, <2>2, <2>3, <2>4
<1>3. S = {}
  <2> SUFFICES ASSUME S # {} PROVE FALSE
    OBVIOUS
  <2>1. S \subseteq Nat
    OBVIOUS
  <2>2. PICK k \in S : \A i \in S : k <= i
    BY <2>1, LeastNat
  <2>3. k # 0 /\ k \in 0..n /\ ~Same(k)
    BY <1>2, <2>2
  <2>4. k \in 1..n
    BY <2>3
  <2>5. PICK p, a, s : p = log[k].point /\ a = p.at /\ s = p.since
    OBVIOUS
  <2>6. a \in 0..(k - 1) /\ IsSeq(s) /\ Tells(T[a], s, T[k])
    BY <1>1, <2>4, <2>5 DEF Recalls
  <2>7. a \in 0..n /\ ~(k <= a)
    BY <2>4, <2>6
  <2>8. Same(a)
    BY <2>2, <2>7
  <2>9. Paired(s)
    BY <1>1, <2>4, <2>5 DEF PairedLog
  <2>10. Listed(T[k]) /\ \A f \in Told : Items(T[k], f) = Items(T[a], f) \cup Tagged(ToSet(s), f)
    BY <2>6, <2>8, <2>9, TellsItems
  <2>11. Past[k] = Past[a] \cup ToSet(s)
    BY <1>1, <2>4, <2>5, PastIs
  <2>12. \A f : Tagged(Past[a] \cup ToSet(s), f) = Tagged(Past[a], f) \cup Tagged(ToSet(s), f)
    BY DEF Tagged
  <2>13. Same(k)
    BY <2>8, <2>10, <2>11, <2>12
  <2> QED
    BY <2>3, <2>13
<1> QED
  BY <1>1, <1>3

Apart(s) == \A i, j \in 1..Len(s) : i # j => s[i] # s[j]

(* How much of a list a transcript depends on is how much it tells, if no element   *)
(* is there twice.                                                                  *)
LEMMA DependsTold ==
  ASSUME NEW T, Listening(T), PairedLog(log), Paired(tr.since), NEW r, Tells(T[tr.at], tr.since, r),
         NEW f \in Told, Apart(r[f])
  PROVE  Depends(tr, f) = Len(r[f])
<1>1. Recalls(log, T) /\ tr.at \in 0..Len(log) /\ IsSeq(tr.since)
  BY DEF Listening
<1>2. Listed(T[tr.at]) /\ Tagged(Past[tr.at], f) = Items(T[tr.at], f)
  BY <1>1, PastTold
<1>3. Listed(r) /\ Items(r, f) = Items(T[tr.at], f) \cup Tagged(ToSet(tr.since), f)
  BY <1>1, <1>2, TellsItems
<1>4. Tagged(Past[tr.at] \cup ToSet(tr.since), f) = Items(r, f)
  <2>1. Tagged(Past[tr.at] \cup ToSet(tr.since), f) = Tagged(Past[tr.at], f) \cup Tagged(ToSet(tr.since), f)
    BY DEF Tagged
  <2> QED
    BY <1>2, <1>3, <2>1
<1>5. Depends(tr, f) = Cardinality(Items(r, f))
  BY <1>4 DEF Depends, Tagged
<1>6. PICK s, n : s = r[f] /\ n = Len(s)
  OBVIOUS
<1>7. n \in Nat /\ IsSeq(s)
  BY <1>3, <1>6, AnyLength DEF Listed
<1>8. PICK B : B = [i \in 1..n |-> <<f, s[i]>>]
  OBVIOUS
<1>9. Items(r, f) = {<<f, s[i]>> : i \in 1..n}
  BY <1>6 DEF Items
<1>10. B \in Bijection(1..n, Items(r, f))
  <2>1. B \in [1..n -> Items(r, f)]
    BY <1>8, <1>9
  <2>2. \A i, j \in 1..n : i # j => s[i] # s[j]
    BY <1>6 DEF Apart
  <2>3. \A i, j \in 1..n : B[i] = B[j] => i = j
    BY <1>8, <2>2
  <2>4. \A x \in Items(r, f) : \E i \in 1..n : B[i] = x
    BY <1>8, <1>9
  <2>5. B \in Injection(1..n, Items(r, f))
    BY <2>1, <2>3 DEF Injection, IsInjective
  <2>6. B \in Surjection(1..n, Items(r, f))
    BY <2>1, <2>4 DEF Surjection
  <2> QED
    BY <2>5, <2>6 DEF Bijection
<1>11. IsFiniteSet(1..n) /\ Cardinality(1..n) = n
  BY <1>7, FS_Interval
<1>12. Cardinality(Items(r, f)) = n
  BY <1>10, <1>11, FS_Bijection DEF ExistsBijection
<1> QED
  BY <1>5, <1>6, <1>12
-----------------------------------------------------------------------------
(* Nothing that may happen to the proof puts an element where the verifier reads   *)
(* another one too: a list has an element twice only behind its last place.        *)
Numbered(p) ==
    /\ p = [f \in Lists |-> p[f]]
    /\ \A f \in Lists : IsSeq(p[f]) /\ \A i \in 1..Len(p[f]) : IsElem(p[f][i]) /\ p[f][i].no = i

Unlike(t, s) == \A i, j \in 1..Len(t) : i # j /\ i <= Len(s) /\ j <= Len(s) => s[i] # s[j]

LEMMA UnlikeNumbered ==
  ASSUME NEW t, NEW s, \A i \in 1..Len(t) : i <= Len(s) => s[i].no = i
  PROVE  Unlike(t, s)
BY DEF Unlike

LEMMA OneUnlike ==
  ASSUME NEW p, NEW q, Numbered(p), NEW f \in Lists, NEW s, Patched(q, p, f, s), Unlike(p[f], s)
  PROVE  \A g \in Lists : Unlike(p[g], q[g])
<1>1. p = [g \in Lists |-> p[g]] /\ q = [p EXCEPT ![f] = s]
  BY DEF Numbered, Patched
<1>2. \A g \in Lists : q[g] = IF g = f THEN s ELSE p[g]
  BY <1>1
<1>3. \A g \in Lists : Unlike(p[g], p[g])
  BY UnlikeNumbered DEF Numbered
<1> QED
  BY <1>2, <1>3

LEMMA ChangedUnlike ==
  ASSUME NEW p, Numbered(p), NEW f \in Lists, NEW i \in 1..Len(p[f]), NEW v, v.no = i
  PROVE  Unlike(p[f], [p[f] EXCEPT ![i] = v])
<1>1. PICK t, s : t = p[f] /\ s = [t EXCEPT ![i] = v]
  OBVIOUS
<1>2. Patched(s, t, i, v)
  BY <1>1 DEF Patched
<1>3. IsSeq(t) /\ i \in 1..Len(t) /\ \A j \in 1..Len(t) : t[j].no = j
  BY <1>1 DEF Numbered
<1>4. \A j \in 1..Len(t) : s[j] = IF j = i THEN v ELSE t[j]
  BY <1>2, <1>3, AnyExcept
<1>5. \A j \in 1..Len(t) : s[j].no = j
  BY <1>3, <1>4
<1>6. Unlike(t, s)
  BY <1>5, UnlikeNumbered, SMTT(30)
<1> QED
  BY <1>1, <1>6

LEMMA AlteredUnlike ==
  ASSUME NEW p, Numbered(p), NEW q, q \in {p} \cup Altered(p), Len(p["opens"]) = Steps(cfg) + 1, Steps(cfg) \in Nat
  PROVE  \A g \in Lists : Unlike(p[g], q[g])
<1>0. /\ p = [f \in Lists |-> p[f]]
      /\ \A f \in Lists : IsSeq(p[f]) /\ \A i \in 1..Len(p[f]) : IsElem(p[f][i]) /\ p[f][i].no = i
      /\ \A f \in Lists : DOMAIN p[f] = 1..Len(p[f])
  BY AnyLength DEF Numbered
<1>1. CASE q = p
  BY <1>0, <1>1, UnlikeNumbered
<1>2. CASE q \in {[p EXCEPT ![x[1]][x[2]].intact = FALSE] : x \in Places(p, Lists \ NonceLists)}
  <2>1. PICK x \in Places(p, Lists \ NonceLists) : q = [p EXCEPT ![x[1]][x[2]].intact = FALSE]
    BY <1>2
  <2>2. PICK f \in Lists \ NonceLists : x \in {f} \X DOMAIN p[f]
    BY <2>1 DEF Places
  <2>3. PICK i : i = x[2]
    OBVIOUS
  <2>4. x[1] = f /\ i \in 1..Len(p[f])
    BY <1>0, <2>2, <2>3
  <2>5. PICK e, v, s : e = p[f][i] /\ v = [e EXCEPT !.intact = FALSE] /\ s = [p[f] EXCEPT ![i] = v]
    OBVIOUS
  <2>6. Patched(q, p, f, s)
    BY <2>1, <2>3, <2>4, <2>5 DEF Patched
  <2>7. v.no = i
    <3>1. IsElem(e) /\ e.no = i
      BY <1>0, <2>4, <2>5
    <3> QED
      BY <2>5, <3>1 DEF IsElem
  <2>8. Unlike(p[f], s)
    BY <2>4, <2>5, <2>7, ChangedUnlike
  <2> QED
    BY <2>6, <2>8, OneUnlike
<1>3. CASE q \in {[p EXCEPT ![x[1]][x[2]].val = 1 - @] : x \in Places(p, NonceLists)}
  <2>1. PICK x \in Places(p, NonceLists) : q = [p EXCEPT ![x[1]][x[2]].val = 1 - @]
    BY <1>3
  <2>2. PICK f \in NonceLists : x \in {f} \X DOMAIN p[f]
    BY <2>1 DEF Places
  <2>3. PICK i : i = x[2]
    OBVIOUS
  <2>4. x[1] = f /\ i \in 1..Len(p[f]) /\ f \in Lists
    BY <1>0, <2>2, <2>3 DEF Lists
  <2>5. PICK e, v, s : e = p[f][i] /\ v = [e EXCEPT !.val = 1 - @] /\ s = [p[f] EXCEPT ![i] = v]
    OBVIOUS
  <2>6. Patched(q, p, f, s)
    BY <2>1, <2>3, <2>4, <2>5 DEF Patched
  <2>7. v.no = i
    <3>1. IsElem(e) /\ e.no = i
      BY <1>0, <2>4, <2>5
    <3> QED
      BY <2>5, <3>1 DEF IsElem
  <2>8. Unlike(p[f], s)
    BY <2>4, <2>5, <2>7, ChangedUnlike
  <2> QED
    BY <2>4, <2>6, <2>8, OneUnlike
<1>4. ASSUME NEW f \in Lists \ {"start"}, p[f] # <<>>, q = [p EXCEPT ![f] = Front(@)]
      PROVE  \A g \in Lists : Unlike(p[g], q[g])
  <2>1. PICK t, s : t = p[f] /\ s = Front(t)
    OBVIOUS
  <2>2. Patched(q, p, f, s)
    BY <1>4, <2>1 DEF Patched
  <2>3. IsSeq(t) /\ t # <<>> /\ \A i \in 1..Len(t) : t[i].no = i
    BY <1>0, <1>4, <2>1
  <2>4. /\ Len(t) \in Nat \ {0} /\ Len(s) = Len(t) - 1
        /\ \A i \in 1..(Len(t) - 1) : s[i] = t[i]
    BY <2>1, <2>3, AnyFilled
  <2>5. \A i \in 1..Len(t) : i <= Len(s) => s[i].no = i
    <3>1. \A i \in 1..Len(t) : i <= Len(s) => i \in 1..(Len(t) - 1)
      BY <2>4
    <3> QED
      BY <2>3, <2>4, <3>1
  <2>6. Unlike(p[f], s)
    BY <2>1, <2>5, UnlikeNumbered
  <2> QED
    BY <2>2, <2>6, OneUnlike
<1>5. ASSUME NEW f \in Lists \ {"start"}, p[f] # <<>>, q = [p EXCEPT ![f] = Append(@, Last(@))]
      PROVE  \A g \in Lists : Unlike(p[g], q[g])
  <2>1. PICK t, e, s : t = p[f] /\ e = Last(t) /\ s = Append(t, e)
    OBVIOUS
  <2>2. Patched(q, p, f, s)
    BY <1>5, <2>1 DEF Patched
  <2>3. IsSeq(t) /\ \A i \in 1..Len(t) : t[i].no = i
    BY <1>0, <2>1
  <2>4. \A i \in 1..Len(t) : s[i] = t[i]
    BY <2>1, <2>3, AnyAppend
  <2>5. \A i \in 1..Len(t) : i <= Len(s) => s[i].no = i
    BY <2>3, <2>4
  <2>6. Unlike(p[f], s)
    BY <2>1, <2>5, UnlikeNumbered
  <2> QED
    BY <2>2, <2>6, OneUnlike
<1>6. CASE q \in {[p EXCEPT ![x[1]] = Swapped(@, x[2])] :
                    x \in {y \in Places(p, {"tx", "ood", "roots", "yr"}) : y[2] < Len(p[y[1]])}}
  <2>1. PICK x \in {y \in Places(p, {"tx", "ood", "roots", "yr"}) : y[2] < Len(p[y[1]])} : q = [p EXCEPT ![x[1]] = Swapped(@, x[2])]
    BY <1>6
  <2>2. PICK f \in {"tx", "ood", "roots", "yr"} : x \in {f} \X DOMAIN p[f]
    BY <2>1 DEF Places
  <2>3. PICK i : i = x[2]
    OBVIOUS
  <2>4. x[1] = f /\ f \in Lists
    BY <2>2, TagsApart
  <2>5. PICK t, n : t = p[f] /\ n = Len(t)
    OBVIOUS
  <2>6. IsSeq(t) /\ n \in Nat /\ i \in 1..n /\ i < n /\ \A j \in 1..n : t[j].no = j
    BY <1>0, <2>1, <2>2, <2>3, <2>4, <2>5, AnyLength
  <2>7. PICK a, b, k : a = t[i] /\ b = t[k] /\ k = i + 1
    OBVIOUS
  <2>8. k \in 1..n /\ i # k
    BY <2>6, <2>7
  <2>9. PICK r, s : r = [t EXCEPT ![i] = b] /\ s = [r EXCEPT ![k] = a]
    OBVIOUS
  <2>10. Swapped(t, i) = s
    BY <2>7, <2>9 DEF Swapped
  <2>11. Patched(q, p, f, s)
    BY <2>1, <2>3, <2>4, <2>5, <2>10 DEF Patched
  <2>12. IsSeq(r) /\ Len(r) = n /\ \A j \in 1..n : r[j] = IF j = i THEN b ELSE t[j]
    <3>1. Patched(r, t, i, b)
      BY <2>9 DEF Patched
    <3> QED
      BY <2>5, <2>6, <3>1, AnyExcept
  <2>13. IsSeq(s) /\ Len(s) = n /\ \A j \in 1..n : s[j] = IF j = k THEN a ELSE r[j]
    <3>1. Patched(s, r, k, a)
      BY <2>9 DEF Patched
    <3> QED
      BY <2>8, <2>12, <3>1, AnyExcept
  <2>14. a.no = i /\ b.no = k
    BY <2>6, <2>7, <2>8
  <2>15. \A j \in 1..n : s[j].no = IF j = k THEN i ELSE IF j = i THEN k ELSE j
    BY <2>6, <2>8, <2>12, <2>13, <2>14
  <2>16. \A j, h \in 1..n : j # h => s[j].no # s[h].no
    BY <2>8, <2>15
  <2>17. Unlike(p[f], s)
    BY <2>5, <2>16 DEF Unlike
  <2> QED
    BY <2>4, <2>11, <2>17, OneUnlike
<1>7. CASE q \in {[p EXCEPT !.opens[k].val.salts = @ + 1] : k \in 1..Steps(cfg)}
  <2>1. PICK k \in 1..Steps(cfg) : q = [p EXCEPT !["opens"][k].val.salts = @ + 1]
    BY <1>7
  <2>2. PICK f : f = "opens"
    OBVIOUS
  <2>3. f \in Lists /\ k \in 1..Len(p[f])
    BY <2>2, TagsApart
  <2>4. PICK e : e = p[f][k]
    OBVIOUS
  <2>5. IsElem(e) /\ e.no = k
    BY <1>0, <2>3, <2>4
  <2>7. PICK y, v, s : y = [e.val EXCEPT !.salts = @ + 1] /\ v = [e EXCEPT !.val = y] /\ s = [p[f] EXCEPT ![k] = v]
    OBVIOUS
  <2>8. Patched(q, p, f, s)
    BY <2>1, <2>2, <2>4, <2>7 DEF Patched
  <2>10. v.no = k
    BY <2>5, <2>7 DEF IsElem
  <2>12. Unlike(p[f], s)
    BY <2>3, <2>7, <2>10, ChangedUnlike
  <2> QED
    BY <2>3, <2>8, <2>12, OneUnlike
<1>8. CASE q \in {[p EXCEPT ![f] = Front(@)] : f \in {f \in Lists \ {"start"} : p[f] # <<>>}}
  BY <1>4, <1>8
<1>9. CASE q \in {[p EXCEPT ![f] = Append(@, Last(@))] : f \in {f \in Lists \ {"start"} : p[f] # <<>>}}
  BY <1>5, <1>9
<1> QED
  BY <1>1, <1>2, <1>3, <1>6, <1>7, <1>8, <1>9, Zenon DEF Altered
-----------------------------------------------------------------------------
(* What is asked and absorbed is made of pairs.                                    *)
LEMMA AnsweredPaired ==
  ASSUME IsSeq(log), PairedLog(log), NEW p, Paired(p.since), NEW a, NEW bad, Answered(p, a, bad)
  PROVE  PairedLog(log')
<1>1. CASE IsKnown(p)
  <2>1. log' = log
    BY <1>1 DEF Answered
  <2> QED
    BY <2>1
<1>2. CASE ~IsKnown(p)
  <2>1. PICK n \in Nat : n = Len(log)
    BY AnyLength
  <2>2. PICK x, h : x = [point |-> p, answer |-> a, bad |-> bad] /\ h = Append(log, x)
    OBVIOUS
  <2>3. log' = h
    BY <1>2, <2>2 DEF Answered
  <2>4. Len(h) = n + 1 /\ (\A i \in 1..n : h[i] = log[i]) /\ h[n + 1] = x
    BY <2>1, <2>2, AnyAppend
  <2>5. \A k \in 1..(n + 1) : k \in 1..n \/ k = n + 1
    BY <2>1
  <2>6. x.point = p
    BY <2>2
  <2>7. \A k \in 1..n : Paired(h[k].point.since)
    BY <2>1, <2>4 DEF PairedLog
  <2>8. \A k \in 1..(n + 1) : Paired(h[k].point.since)
    BY <2>4, <2>5, <2>6, <2>7
  <2> QED
    BY <2>3, <2>4, <2>8 DEF PairedLog
<1> QED
  BY <1>1, <1>2

LEMMA AbsorbedPaired ==
  ASSUME tr = [at |-> tr.at, since |-> tr.since], IsSeq(tr.since), Paired(tr.since), NEW x, IsPair(x)
  PROVE  Paired(Absorbed(tr, x).since)
<1>1. PICK s, u : s = tr.since /\ u = Append(s, x)
  OBVIOUS
<1>2. Absorbed(tr, x).since = u
  BY <1>1 DEF Absorbed
<1>3. PICK n \in Nat : n = Len(s)
  BY <1>1, AnyLength
<1>4. Len(u) = n + 1 /\ (\A i \in 1..n : u[i] = s[i]) /\ u[n + 1] = x
  BY <1>1, <1>3, AnyAppend
<1>5. \A k \in 1..(n + 1) : k \in 1..n \/ k = n + 1
  BY <1>3
<1>6. \A k \in 1..(n + 1) : IsPair(u[k])
  BY <1>1, <1>3, <1>4, <1>5 DEF Paired
<1> QED
  BY <1>2, <1>4, <1>6 DEF Paired

LEMMA PairsThere ==
  /\ \A a, b : IsPair(<<a, b>>)
  /\ IsPair(<<"pow">>) /\ \A a, b : IsPair(<<"squeeze", a, b>>)
  /\ \A p : Paired(After(p).since) /\ Paired(Opening(p).since)
<1>1. \A a, b : IsPair(<<a, b>>)
  BY DEF IsPair
<1>2. ASSUME NEW x, x[1] \notin Told PROVE IsPair(x)
  BY <1>2 DEF IsPair
<1>3. IsPair(<<"pow">>)
  <2>1. PICK x : x = <<"pow">>
    OBVIOUS
  <2>2. x[1] = "pow"
    BY <2>1
  <2> QED
    BY <1>2, <2>1, <2>2, TagsApart
<1>4. ASSUME NEW a, NEW b PROVE IsPair(<<"squeeze", a, b>>)
  <2>1. PICK x : x = <<"squeeze", a, b>>
    OBVIOUS
  <2>2. x[1] = "squeeze"
    BY <2>1
  <2> QED
    BY <1>2, <2>1, <2>2, TagsApart
<1>5. ASSUME NEW p PROVE Paired(After(p).since)
  <2>1. After(p).since = <<>>
    BY DEF After
  <2> QED
    BY <2>1, AnyNone DEF Paired
<1>6. ASSUME NEW p PROVE Paired(Opening(p).since)
  <2>1. PICK x : x = <<"flock-ligerito-basis", p.start[1], p.start[2]>>
    OBVIOUS
  <2>2. x[1] = "flock-ligerito-basis"
    BY <2>1
  <2>3. Opening(p).since = <<x>>
    BY <2>1 DEF Opening
  <2>4. Len(<<x>>) = 1 /\ <<x>>[1] = x
    BY AnyOne
  <2>5. \A j \in 1..1 : j = 1
    OBVIOUS
  <2> QED
    BY <1>2, <2>2, <2>3, <2>4, <2>5, TagsApart DEF Paired
<1> QED
  BY <1>1, <1>3, <1>4, <1>5, <1>6

AllPaired == PairedLog(log) /\ Paired(tr.since)

LEMMA PairedAsked ==
  ASSUME AllPaired, IsSeq(log), tr = [at |-> tr.at, since |-> tr.since], IsSeq(tr.since),
         NEW x, IsPair(x), NEW p, p = Absorbed(tr, x)
  PROVE  Paired(p.since) /\ \A a, bad : Answered(p, a, bad) => PairedLog(log')
BY AnsweredPaired, AbsorbedPaired DEF AllPaired

LEMMA NextPaired ==
  ASSUME IInv, AllPaired, [Next]_vars
  PROVE  AllPaired'
<1>1. ASSUME phase \in {"prove", "verify"}
      PROVE  IsSeq(log) /\ tr = [at |-> tr.at, since |-> tr.since] /\ IsSeq(tr.since)
  <2>1. PICK T : Walked(PlanOf(cfg), T)
    BY <1>1 DEF IInv
  <2> QED
    BY <2>1 DEF Walked, Listening, Recalls
<1>2. ASSUME UNCHANGED <<log, tr>> PROVE AllPaired'
  BY <1>2 DEF AllPaired
<1>3. ASSUME phase \in {"prove", "verify"}, log' = log, NEW a, NEW b, tr' = Absorbed(tr, <<a, b>>) PROVE AllPaired'
  BY <1>1, <1>3, AbsorbedPaired, PairsThere DEF AllPaired
<1>4. ASSUME phase \in {"prove", "verify"}, NEW a, NEW b, tr' = Absorbed(tr, <<a, b>>),
             NEW hits, NEW bad, Answered(Absorbed(tr, <<"pow">>), hits, bad)
      PROVE  AllPaired'
  <2>1. PICK p : p = Absorbed(tr, <<"pow">>)
    OBVIOUS
  <2>2. Answered(p, hits, bad)
    BY <1>4, <2>1
  <2>3. PairedLog(log')
    BY <1>1, <1>4, <2>1, <2>2, PairedAsked, PairsThere
  <2>4. Paired(tr'.since)
    BY <1>1, <1>4, AbsorbedPaired, PairsThere DEF AllPaired
  <2> QED
    BY <2>3, <2>4 DEF AllPaired
<1>5. ASSUME phase \in {"prove", "verify"}, NEW c, NEW n, NEW p, p = Absorbed(tr, <<"squeeze", c, n>>)
      PROVE  /\ Paired(p.since)
             /\ \A a, bad : Answered(p, a, bad) => PairedLog(log')
  <2>1. PICK x : x = <<"squeeze", c, n>>
    OBVIOUS
  <2>2. IsPair(x) /\ p = Absorbed(tr, x)
    BY <1>5, <2>1, PairsThere
  <2> QED
    BY <1>1, <1>5, <2>2, PairedAsked
<1>6. ASSUME ProverSays PROVE AllPaired'
  <2>1. PICK e : e = NewElem(Op.of, 0)
    OBVIOUS
  <2>2. phase = "prove" /\ log' = log /\ tr' = Absorbed(tr, <<Op.of, e>>)
    BY <1>6, <2>1 DEF ProverSays
  <2> QED
    BY <1>3, <2>2
<1>7. ASSUME ProverOpens PROVE AllPaired'
  BY <1>2, <1>7 DEF ProverOpens
<1>8. ASSUME NEW hits, ProverGrinds(hits) PROVE AllPaired'
  <2>1. PICK e : e = NewElem(Op.of, LeastOf(hits))
    OBVIOUS
  <2>2. /\ phase = "prove" /\ tr' = Absorbed(tr, <<Op.of, e>>)
        /\ log' = log \/ Answered(Absorbed(tr, <<"pow">>), hits, 0 \notin hits)
    BY <1>8, <2>1 DEF ProverGrinds
  <2> QED
    BY <1>3, <1>4, <2>2
<1>9. ASSUME VerifierSays PROVE AllPaired'
  <2>1. CASE Missing(Op.of)
    BY <1>2, <1>9, <2>1 DEF VerifierSays, Reject, walkVars
  <2>2. CASE ~Missing(Op.of)
    <3>1. PICK e : e = sent[Op.of][NextIdx(Op.of)]
      OBVIOUS
    <3>2. phase = "verify" /\ log' = log /\ tr' = Absorbed(tr, <<Op.of, e>>)
      BY <1>9, <2>2, <3>1 DEF VerifierSays
    <3> QED
      BY <1>3, <3>2
  <2> QED
    BY <2>1, <2>2
<1>10. ASSUME VerifierOpens PROVE AllPaired'
  BY <1>2, <1>10 DEF VerifierOpens, Reject, walkVars
<1>11. ASSUME NEW hits, VerifyPow(hits) PROVE AllPaired'
  <2>1. CASE Missing(Op.of)
    BY <1>2, <1>11, <2>1 DEF VerifyPow, Reject, walkVars
  <2>2. CASE ~Missing(Op.of)
    <3>1. PICK e : e = sent[Op.of][NextIdx(Op.of)]
      OBVIOUS
    <3>2. /\ phase = "verify" /\ tr' = Absorbed(tr, <<Op.of, e>>)
          /\ log' = log \/ Answered(Absorbed(tr, <<"pow">>), hits, 0 \notin hits)
      BY <1>11, <2>2, <3>1 DEF VerifyPow
    <3> QED
      BY <1>3, <1>4, <3>2
  <2> QED
    BY <2>1, <2>2
<1>12. ASSUME Walking, DrawChallenge PROVE AllPaired'
  <2>1. phase \in {"prove", "verify"}
    BY <1>12 DEF Walking
  <2>2. PICK c, p : c = (Op.of \in {"z", "alpha"}) /\ p = Absorbed(tr, <<"squeeze", c, Op.n>>)
    OBVIOUS
  <2>3. (tr' = p /\ log' = log) \/ (Answered(p, 0, FALSE) /\ tr' = After(p))
    BY <1>12, <2>2 DEF DrawChallenge
  <2>4. Paired(p.since) /\ \A a, bad : Answered(p, a, bad) => PairedLog(log')
    BY <1>5, <2>1, <2>2
  <2>5. Paired(tr'.since)
    BY <2>3, <2>4, PairsThere
  <2>6. PairedLog(log')
    BY <2>3, <2>4 DEF AllPaired
  <2> QED
    BY <2>5, <2>6 DEF AllPaired
<1>13. ASSUME Panic PROVE AllPaired'
  BY <1>2, <1>13 DEF Panic, walkVars
<1>14. ASSUME CheckShape PROVE AllPaired'
  BY <1>2, <1>14 DEF CheckShape, Reject, walkVars
<1>15. ASSUME Residual PROVE AllPaired'
  BY <1>2, <1>15 DEF Residual, walkVars
<1>16. ASSUME Walking, NEW v, SamplePosition(v) PROVE AllPaired'
  <2>1. phase \in {"prove", "verify"}
    BY <1>16 DEF Walking
  <2>2. PICK p : p = Absorbed(tr, <<"squeeze", FALSE, 1>>)
    OBVIOUS
  <2>3. Answered(p, v, v \in got) /\ tr' = After(p)
    BY <1>16, <2>2 DEF SamplePosition
  <2>4. \A a, bad : Answered(p, a, bad) => PairedLog(log')
    BY <1>5, <2>1, <2>2
  <2>5. Paired(tr'.since)
    BY <2>3, PairsThere
  <2> QED
    BY <2>3, <2>4, <2>5 DEF AllPaired
<1>17. ASSUME Deliver PROVE AllPaired'
  <2>1. log' = log /\ tr' = Opening(sent')
    BY <1>17 DEF Deliver
  <2> QED
    BY <2>1, PairsThere DEF AllPaired
<1>18. ASSUME UNCHANGED vars PROVE AllPaired'
  BY <1>2, <1>18 DEF vars, walkVars
<1> QED
  BY <1>6, <1>7, <1>8, <1>9, <1>10, <1>11, <1>12, <1>13, <1>14, <1>15, <1>16, <1>17, <1>18, Zenon DEF Next
-----------------------------------------------------------------------------
(* Positions have been sampled where the weights of their rows are drawn.          *)
GotSome(w) == phase = "verify" /\ w.V[pos]["queries"] = w.V[pos]["opens"] + 1 => got # {}

LEMMA PhaseCounts ==
  ASSUME NEW op, NEW k, NEW r, Meets(op, k, r), r["queries"] = r["opens"] + 1,
         op.act \in {"say", "grind", "draw", "open", "check"}
  PROVE  k["queries"] = k["opens"] + 1 /\ op.act # "open"
<1>1. /\ k \in Counts /\ \A f \in Counted : k[f] \in Nat
      /\ op.act \in {"say", "grind", "open"} =>
           op.of \in Counted /\ \A f \in Counted : r[f] = IF f = op.of THEN k[f] + 1 ELSE k[f]
      /\ op.act \in {"draw", "check"} => r = k
  BY MeetsCounts
<1>2. {"queries", "opens"} \subseteq Counted /\ "queries" # "opens"
  BY DEF Counted
<1>3. k["queries"] \in Nat /\ k["opens"] \in Nat
  BY <1>1, <1>2
<1>4. CASE op.act \in {"draw", "check"}
  BY <1>1, <1>4
<1>5. CASE op.act \in {"say", "grind"}
  <2>1. op.of # "queries" /\ op.of # "opens"
    BY <1>5 DEF Meets, NonceLists
  <2> QED
    BY <1>1, <1>2, <1>5, <2>1
<1>6. CASE op.act = "open"
  <2>1. op.of = "opens" /\ k["queries"] = k["opens"] + 1
    BY <1>6 DEF Meets
  <2>2. r["queries"] = k["queries"] /\ r["opens"] = k["opens"] + 1
    BY <1>1, <1>2, <1>6, <2>1
  <2> QED
    BY <1>3, <2>1, <2>2
<1> QED
  BY <1>4, <1>5, <1>6

LEMMA GotOn ==
  ASSUME cfg \in Configs, NEW w, w = PlanOf(cfg), NEW T, Walked(w, T), phase = "verify", GotSome(w),
         NEW act, AtOp(act), act # "queries", pos' = pos + 1, got' = got \/ act = "open"
  PROVE  GotSome(w)'
<1>1. PICK op, k, r : op = Op /\ k = w.V[pos] /\ r = w.V[pos + 1]
  OBVIOUS
<1>2. op.act = act /\ VerifierMeets(cfg, w, pos, op)
  BY <1>1, Verifying
<1>3. Meets(op, k, r) /\ op.act \in {"say", "grind", "draw", "open", "check"}
  BY <1>1, <1>2 DEF VerifierMeets
<1>4. ASSUME r["queries"] = r["opens"] + 1
      PROVE  got' # {}
  BY <1>1, <1>2, <1>3, <1>4, PhaseCounts DEF GotSome
<1> QED
  BY <1>1, <1>4 DEF GotSome

LEMMA NextGot ==
  ASSUME IInv, NEW w, w = PlanOf(cfg), GotSome(w), [Next]_vars
  PROVE  GotSome(w)'
<1>1. cfg \in Configs
  BY DEF IInv
<1>2. ASSUME phase = "verify"
      PROVE  \E T : Walked(w, T)
  BY <1>2 DEF IInv
<1>3. ASSUME NEW act, AtOp(act), act # "queries", phase = "verify", pos' = pos + 1, got' = got \/ act = "open"
      PROVE  GotSome(w)'
  <2>1. PICK T : Walked(w, T)
    BY <1>2, <1>3
  <2> QED
    BY <1>1, <1>3, <2>1, GotOn
<1>4. ASSUME phase' # "verify" PROVE GotSome(w)'
  BY <1>4 DEF GotSome
<1>5. ASSUME UNCHANGED <<phase, pos, got>> PROVE GotSome(w)'
  BY <1>5 DEF GotSome
<1>6. ASSUME ProverSays \/ ProverOpens PROVE GotSome(w)'
  BY <1>4, <1>6 DEF ProverSays, ProverOpens
<1>7. ASSUME NEW hits, ProverGrinds(hits) PROVE GotSome(w)'
  BY <1>4, <1>7 DEF ProverGrinds
<1>8. ASSUME VerifierSays PROVE GotSome(w)'
  <2>1. phase' = "reject" \/ (pos' = pos + 1 /\ got' = got)
    BY <1>8 DEF VerifierSays, Reject, Advance
  <2>2. phase = "verify" /\ AtOp("say")
    BY <1>8 DEF VerifierSays
  <2> QED
    BY <1>3, <1>4, <2>1, <2>2
<1>9. ASSUME VerifierOpens PROVE GotSome(w)'
  <2>1. phase' = "reject" \/ pos' = pos + 1
    BY <1>9 DEF VerifierOpens, Reject, Advance
  <2>2. phase = "verify" /\ AtOp("open")
    BY <1>9 DEF VerifierOpens
  <2> QED
    BY <1>3, <1>4, <2>1, <2>2
<1>10. ASSUME NEW hits, VerifyPow(hits) PROVE GotSome(w)'
  <2>1. phase' = "reject" \/ (pos' = pos + 1 /\ got' = got)
    BY <1>10 DEF VerifyPow, Reject, Advance
  <2>2. phase = "verify" /\ AtOp("grind")
    BY <1>10 DEF VerifyPow
  <2> QED
    BY <1>3, <1>4, <2>1, <2>2
<1>11. ASSUME Walking, DrawChallenge PROVE GotSome(w)'
  <2>1. phase' = phase /\ pos' = pos + 1 /\ got' = got /\ AtOp("draw")
    BY <1>11 DEF DrawChallenge, Advance
  <2> QED
    BY <1>3, <1>4, <2>1
<1>12. ASSUME Panic PROVE GotSome(w)'
  BY <1>4, <1>12 DEF Panic
<1>13. ASSUME Walking, CheckShape PROVE GotSome(w)'
  <2>1. phase' = "reject" \/ (phase' = phase /\ pos' = pos + 1 /\ got' = got)
    BY <1>13 DEF CheckShape, Reject, Advance
  <2>2. AtOp("check")
    BY <1>13 DEF CheckShape
  <2> QED
    BY <1>3, <1>4, <2>1, <2>2
<1>14. ASSUME Residual PROVE GotSome(w)'
  BY <1>4, <1>14 DEF Residual
<1>15. ASSUME NEW v, SamplePosition(v) PROVE GotSome(w)'
  BY <1>15 DEF SamplePosition, GotSome
<1>16. ASSUME Deliver PROVE GotSome(w)'
  <2>1. pos' = 1
    BY <1>16 DEF Deliver
  <2>2. w.V[1] = Zero
    BY <1>1, Planned DEF Itinerary, Sizes
  <2>3. Zero["queries"] = 0 /\ Zero["opens"] = 0
    BY DEF Zero, Counted
  <2> QED
    BY <2>1, <2>2, <2>3 DEF GotSome
<1>17. ASSUME UNCHANGED vars PROVE GotSome(w)'
  BY <1>5, <1>17 DEF vars, walkVars
<1> QED
  BY <1>6, <1>7, <1>8, <1>9, <1>10, <1>11, <1>12, <1>13, <1>14, <1>15, <1>16, <1>17, Zenon DEF Next

-----------------------------------------------------------------------------
(* The verifier never reads more of a list than there was to make.                 *)
LEMMA CountsGrow ==
  ASSUME cfg \in Configs, NEW w, w = PlanOf(cfg), NEW n \in Nat, n = w.m + w.n + 8, NEW p \in 1..n, NEW f \in Told
  PROVE  w.V[p][f] \in Nat /\ w.V[n][f] \in Nat /\ w.V[p][f] <= w.V[n][f]
<1>1. Itinerary(cfg, w)
  BY Planned
<1>2. ASSUME NEW q \in 1..n
      PROVE  /\ w.V[q][f] \in Nat
             /\ w.V[q + 1][f] = w.V[q][f] \/ w.V[q + 1][f] = w.V[q][f] + 1
  <2>1. PICK op, k, r : op = VerifierScripts[cfg][q] /\ k = w.V[q] /\ r = w.V[q + 1]
    OBVIOUS
  <2>2. VerifierMeets(cfg, w, q, op)
    BY <1>1, <2>1 DEF Itinerary
  <2>3. Meets(op, k, r) /\ op.act \in {"say", "grind", "draw", "queries", "open", "check"}
    BY <2>1, <2>2 DEF VerifierMeets
  <2>4. /\ k \in Counts /\ \A g \in Counted : k[g] \in Nat
        /\ op.act \in {"say", "grind", "open"} =>
             op.of \in Counted /\ \A g \in Counted : r[g] = IF g = op.of THEN k[g] + 1 ELSE k[g]
        /\ op.act \in {"draw", "queries", "check"} => \A g \in Told \cup {"opens"} : r[g] = k[g]
    BY <2>3, MeetsCounts
  <2>5. f \in Counted
    BY DEF Counted
  <2>6. k[f] \in Nat /\ (r[f] = k[f] \/ r[f] = k[f] + 1)
    BY <2>3, <2>4, <2>5
  <2> QED
    BY <2>1, <2>6
<1>3. \A q \in 1..n : w.V[q][f] \in Nat
  BY <1>2
<1>4. n \in 1..n
  OBVIOUS
<1> DEFINE S == {d \in 0..(n - 1) : ~(w.V[n - d][f] <= w.V[n][f])}
<1>5. S = {}
  <2> SUFFICES ASSUME S # {} PROVE FALSE
    OBVIOUS
  <2>1. S \subseteq Nat
    OBVIOUS
  <2>2. PICK d \in S : \A i \in S : d <= i
    <3>1. \A D : D \subseteq Nat /\ D # {} => \E d \in D : \A i \in D : d <= i
      BY LeastNat
    <3> HIDE DEF S
    <3> QED
      BY <2>1, <3>1
  <2>3. d # 0
    BY <1>3, <1>4, <2>2
  <2>4. d \in 0..(n - 1) /\ ~(w.V[n - d][f] <= w.V[n][f])
    BY <2>2
  <2>5. PICK q \in Nat : q = n - d
    BY <2>4
  <2>6. q \in 1..n /\ q + 1 \in 1..n /\ q + 1 = n - (d - 1) /\ d - 1 \in 0..(n - 1) /\ ~(d <= d - 1)
    BY <2>3, <2>4, <2>5
  <2>7. w.V[n - (d - 1)][f] <= w.V[n][f]
    BY <2>2, <2>6
  <2>8. PICK a, b, c : a = w.V[q][f] /\ b = w.V[q + 1][f] /\ c = w.V[n][f]
    OBVIOUS
  <2>9. a \in Nat /\ c \in Nat /\ (b = a \/ b = a + 1) /\ b <= c
    BY <1>2, <1>3, <1>4, <2>6, <2>7, <2>8
  <2>10. a <= c
    BY <2>9
  <2> QED
    BY <2>4, <2>5, <2>8, <2>10
<1>6. n - p \in 0..(n - 1) /\ n - (n - p) = p
  OBVIOUS
<1>7. w.V[p][f] <= w.V[n][f]
  BY <1>5, <1>6
<1> QED
  BY <1>3, <1>4, <1>7

(* What the verifier's transcript depends on is what the verifier has read.         *)
LEMMA ReadIsBound ==
  ASSUME IInv, AllPaired, phase = "verify", NEW f \in Told
  PROVE  Depends(tr, f) = idx[f]
<1>1. PICK w : w = PlanOf(cfg)
  OBVIOUS
<1>2. cfg \in Configs
  BY DEF IInv
<1>3. PICK T : Walked(w, T)
  BY <1>1 DEF IInv
<1>4. Sizes(cfg, w) /\ Complete(w, T) /\ Reading(w, T) /\ Listening(T) /\ InOrder
  BY <1>1, <1>2, <1>3, Verifying
<1>5. PICK n \in Nat : n = w.m + w.n + 8
  BY <1>4 DEF Sizes
<1>6. pos \in 1..n /\ idx[f] = w.V[pos][f] /\ idx[f] <= Len(sent[f]) /\ Tells(T[tr.at], tr.since, Cut(sent, idx))
  BY <1>4, <1>5 DEF Reading
<1>7. Len(made[f]) = w.V[n][f]
  <2>1. Len(made[f]) = w.P[w.m + w.n + 4][f] /\ w.P[w.m + w.n + 4] = w.V[w.m + w.n + 8]
    BY <1>4, TagsApart DEF Complete, Sizes
  <2> QED
    BY <1>5, <2>1
<1>8. PICK j : j = idx[f]
  OBVIOUS
<1>9. j \in Nat /\ j <= Len(made[f])
  BY <1>1, <1>2, <1>5, <1>6, <1>7, <1>8, CountsGrow
<1>10. Unlike(made[f], sent[f])
  <2>1. Numbered(made)
    BY <1>4 DEF Numbered, InOrder
  <2>2. Len(made["opens"]) = Steps(cfg) + 1 /\ Steps(cfg) \in Nat
    BY <1>4, TagsApart DEF Complete, Sizes, Ending
  <2>3. sent \in {made} \cup Altered(made)
    BY <1>4 DEF Complete
  <2> QED
    BY <2>1, <2>2, <2>3, AlteredUnlike, TagsApart
<1>11. PICK s, u : s = sent[f] /\ u = SubSeq(s, 1, j)
  OBVIOUS
<1>12. IsSeq(s) /\ j <= Len(s)
  BY <1>4, <1>6, <1>8, <1>11, TagsApart DEF Complete
<1>13. Len(u) = j /\ \A i \in 1..j : u[i] = s[i]
  <2>1. Len(s) \in Nat
    BY <1>12, AnyLength
  <2>2. j \in 0..Len(s)
    BY <1>9, <1>12, <2>1
  <2> QED
    BY <1>11, <1>12, <2>2, AnyPart
<1>14. Apart(u)
  <2>1. Len(made[f]) \in Nat
    BY <1>4, AnyLength, TagsApart DEF InOrder
  <2>2. Len(s) \in Nat
    BY <1>12, AnyLength
  <2>3. \A i \in 1..j : i \in 1..Len(made[f]) /\ i <= Len(s)
    BY <1>9, <1>12, <2>1, <2>2
  <2>4. \A i, k \in 1..j : i # k => s[i] # s[k]
    BY <1>10, <1>11, <2>3 DEF Unlike
  <2> QED
    BY <1>13, <2>4 DEF Apart
<1>15. Cut(sent, idx)[f] = u
  BY <1>8, <1>11 DEF Cut
<1>16. PICK r : r = Cut(sent, idx)
  OBVIOUS
<1>17. Depends(tr, f) = Len(r[f])
  <2>1. Apart(r[f])
    BY <1>14, <1>15, <1>16
  <2> QED
    BY <1>4, <1>6, <1>16, <2>1, DependsTold DEF AllPaired
<1> QED
  BY <1>8, <1>13, <1>15, <1>16, <1>17

-----------------------------------------------------------------------------
(* Every step keeps the configuration, and so the walks.                           *)
LEMMA ConfigKept ==
  ASSUME [Next]_vars
  PROVE  cfg' = cfg
<1>1. ASSUME ProverSays \/ ProverOpens PROVE cfg' = cfg
  BY <1>1 DEF ProverSays, ProverOpens
<1>2. ASSUME VerifierSays PROVE cfg' = cfg
  BY <1>2 DEF VerifierSays, Reject
<1>3. ASSUME VerifierOpens PROVE cfg' = cfg
  BY <1>3 DEF VerifierOpens, Reject
<1>4. ASSUME NEW hits, ProverGrinds(hits) PROVE cfg' = cfg
  BY <1>4 DEF ProverGrinds
<1>5. ASSUME NEW hits, VerifyPow(hits) PROVE cfg' = cfg
  BY <1>5 DEF VerifyPow, Reject
<1>6. ASSUME DrawChallenge PROVE cfg' = cfg
  BY <1>6 DEF DrawChallenge
<1>7. ASSUME Panic PROVE cfg' = cfg
  BY <1>7 DEF Panic
<1>8. ASSUME CheckShape PROVE cfg' = cfg
  BY <1>8 DEF CheckShape, Reject
<1>9. ASSUME Residual PROVE cfg' = cfg
  BY <1>9 DEF Residual
<1>10. ASSUME NEW v, SamplePosition(v) PROVE cfg' = cfg
  BY <1>10 DEF SamplePosition
<1>11. ASSUME Deliver PROVE cfg' = cfg
  BY <1>11 DEF Deliver
<1>12. ASSUME UNCHANGED vars PROVE cfg' = cfg
  BY <1>12 DEF vars
<1> QED
  BY <1>1, <1>2, <1>3, <1>4, <1>5, <1>6, <1>7, <1>8, <1>9, <1>10, <1>11, <1>12, Zenon DEF Next

(* The invariant of the order in which an opening is bound.                        *)
BindInv == IInv /\ AllPaired /\ GotSome(PlanOf(cfg))

LEMMA InitBind ==
  ASSUME Init
  PROVE  BindInv
<1>1. IInv
  BY InitWalked
<1>2. log = <<>> /\ tr = Opening(made) /\ phase = "prove"
  BY DEF Init
<1>3. PairedLog(log) /\ Paired(tr.since)
  <2>1. PairedLog(<<>>)
    BY AnyNone DEF PairedLog
  <2>2. Paired(Opening(made).since)
    BY PairsThere
  <2> QED
    BY <1>2, <2>1, <2>2
<1>4. GotSome(PlanOf(cfg))
  BY <1>2 DEF GotSome
<1> QED
  BY <1>1, <1>3, <1>4 DEF BindInv, AllPaired

LEMMA NextBind ==
  ASSUME BindInv, [Next]_vars
  PROVE  BindInv'
<1>1. PICK w : w = PlanOf(cfg)
  OBVIOUS
<1>2. IInv /\ AllPaired /\ GotSome(w)
  BY <1>1 DEF BindInv
<1>3. IInv' /\ AllPaired'
  BY <1>2, NextWalked, NextPaired
<1>4. GotSome(w)'
  BY <1>1, <1>2, NextGot
<1>5. PlanOf(cfg)' = w
  <2>1. PlanOf(cfg') = w
    BY <1>1, ConfigKept
  <2>2. PlanOf(cfg)' = PlanOf(cfg')
    BY DEF PlanOf, Span, YrLen, LastDraw, ProverBook, VerifierBook
  <2> QED
    BY <2>1, <2>2
<1>6. GotSome(PlanOf(cfg))'
  BY <1>4, <1>5 DEF GotSome
<1> QED
  BY <1>3, <1>6 DEF BindInv

LEMMA BindInvBinds ==
  ASSUME BindInv
  PROVE  BindingOrder
<1>1. PICK w : w = PlanOf(cfg)
  OBVIOUS
<1>2. IInv /\ AllPaired /\ GotSome(w) /\ cfg \in Configs
  BY <1>1 DEF BindInv, IInv
<1>3. ASSUME phase = "verify"
      PROVE  /\ \A f \in Told : Depends(tr, f) = idx[f] /\ idx[f] = w.V[pos][f] /\ idx[f] \in Nat
             /\ w.n = YrLen(cfg) /\ Steps(cfg) \in Nat
             /\ \A act : AtOp(act) => Op.act = act /\ VerifierMeets(cfg, w, pos, Op)
  <2>1. PICK T : Walked(w, T)
    BY <1>1, <1>2, <1>3 DEF IInv
  <2>2. /\ Sizes(cfg, w) /\ Reading(w, T)
        /\ \A act : AtOp(act) => Op.act = act /\ VerifierMeets(cfg, w, pos, Op)
    BY <1>1, <1>2, <1>3, <2>1, Verifying
  <2>3. PICK n \in Nat : n = w.m + w.n + 8
    BY <2>2 DEF Sizes
  <2>4. pos \in 1..n /\ \A f \in Told : idx[f] = w.V[pos][f]
    BY <2>2, <2>3 DEF Reading
  <2>5. \A f \in Told : idx[f] \in Nat
    BY <1>1, <1>2, <2>3, <2>4, CountsGrow
  <2>6. \A f \in Told : Depends(tr, f) = idx[f]
    BY <1>2, <1>3, ReadIsBound
  <2>7. w.n = YrLen(cfg) /\ Steps(cfg) \in Nat
    BY <2>2 DEF Sizes
  <2> QED
    BY <2>2, <2>4, <2>5, <2>6, <2>7
<1>4. ASSUME phase = "verify", AtOp("queries")
      PROVE  /\ Depends(tr, "nonces") > Op.n
             /\ IF Op.n < Steps(cfg)
                THEN Depends(tr, "roots") > Op.n /\ Depends(tr, "ood") >= OodUpTo(cfg, Op.n + 1)
                ELSE Depends(tr, "yr") = YrLen(cfg)
  <2>1. Op.act = "queries" /\ Bound(cfg, w, Op, w.V[pos])
    BY <1>3, <1>4 DEF VerifierMeets
  <2>2. PICK l, s, o : l = Op.n /\ s = Steps(cfg) /\ o = OodUpTo(cfg, Op.n + 1)
    OBVIOUS
  <2>3. /\ l \in 0..s /\ w.V[pos]["nonces"] = l + 1
        /\ l < s => w.V[pos]["roots"] = l + 1 /\ w.V[pos]["ood"] = o
        /\ l = s => w.V[pos]["yr"] = w.n
    BY <2>1, <2>2 DEF Bound
  <2>4. {"nonces", "roots", "ood", "yr"} \subseteq Told
    BY TagsApart
  <2>5. Depends(tr, "nonces") > l
    <3>1. Depends(tr, "nonces") = l + 1
      BY <1>3, <1>4, <2>3, <2>4
    <3> QED
      BY <2>3, <3>1
  <2>6. ASSUME l < s PROVE Depends(tr, "roots") > l /\ Depends(tr, "ood") >= o
    <3>1. Depends(tr, "roots") = l + 1 /\ Depends(tr, "ood") = o /\ o \in Nat
      BY <1>3, <1>4, <2>3, <2>4, <2>6
    <3> QED
      BY <2>3, <3>1
  <2>7. ASSUME ~(l < s) PROVE Depends(tr, "yr") = YrLen(cfg)
    <3>1. l = s
      BY <1>3, <1>4, <2>2, <2>3, <2>7
    <3> QED
      BY <1>3, <1>4, <2>3, <2>4, <3>1
  <2> QED
    BY <2>2, <2>5, <2>6, <2>7
<1>5. ASSUME phase = "verify", AtOp("draw"), Op.of = "alpha"
      PROVE  got # {} /\ Depends(tr, "yr") = idx["yr"]
  <2>1. w.V[pos]["queries"] = w.V[pos]["opens"] + 1
    <3>1. Op.act = "draw" /\ VerifierMeets(cfg, w, pos, Op)
      BY <1>3, <1>5
    <3> QED
      BY <1>5, <3>1 DEF VerifierMeets, Meets
  <2>2. got # {}
    BY <1>2, <1>5, <2>1 DEF GotSome
  <2>3. Depends(tr, "yr") = idx["yr"]
    BY <1>3, <1>5, TagsApart
  <2> QED
    BY <2>2, <2>3
<1> QED
  BY <1>4, <1>5 DEF BindingOrder

(* For every configuration and whatever arrives, the verifier draws the positions of *)
(* a level from a transcript that depends on its nonce and on all that comes before  *)
(* it: the next root and its out-of-domain values, or the whole of yr.  The weights  *)
(* of the rows are drawn after a position.                                           *)
THEOREM PositionsComeLate == Spec => []BindingOrder
<1>1. Init => BindInv
  BY InitBind
<1>2. BindInv /\ [Next]_vars => BindInv'
  BY NextBind
<1>3. BindInv => BindingOrder
  BY BindInvBinds
<1> QED
  BY <1>1, <1>2, <1>3, PTL DEF Spec
-----------------------------------------------------------------------------
(* How the dimension goes down: the lanes are folded level by level.               *)
Falls(c, l, d) == d = [k \in 0..l |-> IF k = 0 THEN c.logN ELSE d[k - 1] - Lanes(c, k - 1)]

LEMMA FallsExist ==
  ASSUME NEW c \in Configs, NEW l \in Nat
  PROVE  \E d : Falls(c, l, d)
<1> DEFINE S == {n \in 0..l : ~\E d : Falls(c, n, d)}
<1>1. SUFFICES ASSUME S # {} PROVE FALSE
  OBVIOUS
<1>2. S \subseteq Nat
  OBVIOUS
<1>3. PICK n \in S : \A m \in S : n <= m
  BY <1>1, <1>2, LeastNat
<1>4. n \in 0..l /\ ~\E d : Falls(c, n, d)
  BY <1>3
<1>5. CASE n = 0
  <2> DEFINE d == [k \in 0..0 |-> c.logN]
  <2>1. d = [k \in 0..0 |-> IF k = 0 THEN c.logN ELSE d[k - 1] - Lanes(c, k - 1)]
    OBVIOUS
  <2>2. Falls(c, 0, d)
    BY <2>1 DEF Falls
  <2> QED
    BY <1>4, <1>5, <2>2
<1>6. CASE n # 0
  <2>1. n - 1 \in 0..l /\ n - 1 \notin S /\ n \in Nat \ {0}
    BY <1>3, <1>4, <1>6
  <2>2. PICK u : Falls(c, n - 1, u)
    BY <2>1
  <2> DEFINE end == u[n - 1] - Lanes(c, n - 1)
             g == [k \in 0..n |-> IF k = n THEN end ELSE u[k]]
             next(k) == IF k = 0 THEN c.logN ELSE g[k - 1] - Lanes(c, k - 1)
  <2>3. ASSUME NEW k \in 0..n PROVE g[k] = next(k)
    <3>1. CASE k = n
      <4>1. n - 1 \in 0..n /\ n - 1 # n /\ n # 0
        BY <2>1
      <4>2. g[n - 1] = u[n - 1] /\ g[n] = end
        BY <4>1
      <4> HIDE DEF g
      <4> QED
        BY <3>1, <4>1, <4>2
    <3>2. CASE k # n
      <4>1. k \in 0..(n - 1) /\ (k # 0 => k - 1 \in 0..n /\ k - 1 # n)
        BY <2>1, <3>2
      <4>2. u[k] = IF k = 0 THEN c.logN ELSE u[k - 1] - Lanes(c, k - 1)
        BY <2>2, <4>1 DEF Falls
      <4>3. k # 0 => g[k - 1] = u[k - 1]
        BY <4>1
      <4>4. g[k] = u[k]
        BY <3>2
      <4> HIDE DEF g
      <4> QED
        BY <4>2, <4>3, <4>4
    <3> QED
      BY <3>1, <3>2
  <2>4. g = [k \in 0..n |-> g[k]]
    OBVIOUS
  <2>5. g = [k \in 0..n |-> next(k)]
    <3> HIDE DEF g, next
    <3> QED
      BY <2>3, <2>4
  <2>6. Falls(c, n, g)
    BY <2>5 DEF Falls
  <2> QED
    BY <1>4, <2>6
<1> QED
  BY <1>5, <1>6

LEMMA FallsAgree ==
  ASSUME NEW c \in Configs, NEW l \in Nat, NEW n \in Nat, NEW d, NEW e, Falls(c, l, d), Falls(c, n, e)
  PROVE  \A k \in 0..l : k \in 0..n => d[k] = e[k]
<1> DEFINE S == {k \in 0..l : k \in 0..n /\ d[k] # e[k]}
<1>1. SUFFICES ASSUME S # {} PROVE FALSE
  OBVIOUS
<1>2. S \subseteq Nat
  OBVIOUS
<1>3. PICK k \in S : \A m \in S : k <= m
  BY <1>1, <1>2, LeastNat
<1>4. k \in 0..l /\ k \in 0..n /\ d[k] # e[k]
  BY <1>3
<1>5. /\ d[k] = IF k = 0 THEN c.logN ELSE d[k - 1] - Lanes(c, k - 1)
      /\ e[k] = IF k = 0 THEN c.logN ELSE e[k - 1] - Lanes(c, k - 1)
  BY <1>4 DEF Falls
<1>6. k # 0 => k - 1 \in 0..l /\ k - 1 \in 0..n /\ k - 1 \notin S
  BY <1>3, <1>4
<1> QED
  BY <1>4, <1>5, <1>6

LEMMA DimIs ==
  ASSUME NEW c \in Configs, NEW l \in Nat, NEW d, Falls(c, l, d)
  PROVE  Dim(c, l) = d[l]
<1>1. PICK e : Falls(c, l, e)
  BY FallsExist
<1> DEFINE e2 == CHOOSE f : f = [k \in 0..l |-> IF k = 0 THEN c.logN ELSE f[k - 1] - Lanes(c, k - 1)]
<1>2. Falls(c, l, e2)
  BY <1>1 DEF Falls
<1>3. Dim(c, l) = e2[l]
  BY DEF Dim
<1>4. l \in 0..l
  OBVIOUS
<1> HIDE DEF e2
<1> QED
  BY <1>2, <1>3, <1>4, FallsAgree

LEMMA DimFalls ==
  ASSUME NEW c \in Configs, NEW l \in 0..Steps(c)
  PROVE  Dim(c, l + 1) = Dim(c, l) - Lanes(c, l)
<1>1. PICK m \in Nat : m = l + 1 /\ l = m - 1 /\ l \in Nat
  BY StepsType
<1>2. PICK d : Falls(c, m, d)
  BY <1>1, FallsExist
<1>3. PICK e : Falls(c, l, e)
  BY <1>1, FallsExist
<1>4. Dim(c, m) = d[m] /\ Dim(c, l) = e[l]
  BY <1>1, <1>2, <1>3, DimIs
<1>5. l \in 0..m /\ l \in 0..l /\ m \in 0..m /\ m # 0
  BY <1>1
<1>6. d[l] = e[l]
  BY <1>1, <1>2, <1>3, <1>5, FallsAgree
<1>7. d[m] = d[m - 1] - Lanes(c, m - 1)
  BY <1>2, <1>5 DEF Falls
<1> QED
  BY <1>1, <1>4, <1>6, <1>7

LEMMA DimTyped ==
  ASSUME NEW c \in Configs
  PROVE  /\ Dim(c, 0) = c.logN /\ c.logN \in Nat /\ \A l \in 0..(Steps(c) + 1) : Dim(c, l) \in Int
<1>1. c.logN \in Nat
  <2>1. {c.logN, c.k0} \subseteq Nat
    BY ConfigAssumption, Zenon
  <2> QED
    BY <2>1
<1>2. Dim(c, 0) = c.logN
  <2>1. PICK d : Falls(c, 0, d)
    BY FallsExist
  <2>2. d[0] = c.logN
    BY <2>1 DEF Falls
  <2> QED
    BY <2>1, <2>2, DimIs
<1> DEFINE S == {l \in 0..(Steps(c) + 1) : Dim(c, l) \notin Int}
<1>3. S = {}
  <2>1. SUFFICES ASSUME S # {} PROVE FALSE
    OBVIOUS
  <2>2. S \subseteq Nat
    BY StepsType
  <2>3. PICK l \in S : \A m \in S : l <= m
    BY <2>1, <2>2, LeastNat
  <2>4. l \in 0..(Steps(c) + 1) /\ Dim(c, l) \notin Int
    BY <2>3
  <2>5. l # 0
    BY <1>1, <1>2, <2>4
  <2>6. PICK k \in 0..Steps(c) : l = k + 1
    <3>1. PICK n \in Nat : n = Steps(c)
      BY StepsType
    <3>2. l - 1 \in 0..n /\ l = (l - 1) + 1
      BY <2>4, <2>5, <3>1
    <3> QED
      BY <3>1, <3>2
  <2>7. k \notin S /\ k \in 0..(Steps(c) + 1)
    <3>1. PICK n \in Nat : n = Steps(c)
      BY StepsType
    <3>2. ~(l <= k)
      BY <2>6, <3>1
    <3> QED
      BY <2>3, <2>6, <3>1, <3>2
  <2>8. Dim(c, k) \in Int
    BY <2>7
  <2>9. Dim(c, l) = Dim(c, k) - Lanes(c, k) /\ Lanes(c, k) \in Nat
    BY <2>6, DimFalls, ConfigTypes
  <2> QED
    BY <2>4, <2>8, <2>9
<1> QED
  BY <1>1, <1>2, <1>3
-----------------------------------------------------------------------------
(* The challenges that fold: how many the operations before a place draw.  Where a *)
(* basis is noted, they are as many as the dimension has lost.                     *)
Raises(op) == IF op.act = "draw" /\ op.of = "fold" THEN 1 ELSE 0
LevelAt(c, op, a) ==
    /\ op.act = "draw" /\ op.of = "z" => op.n \in Int /\ op.n + a = c.logN
    /\ op.act = "open" => Dim(c, op.n + 1) \in Int /\ Dim(c, op.n + 1) + a = c.logN

Rising(c, s, a, F) ==
    /\ F \in [0..Len(s) -> Int] /\ F[0] = a
    /\ \A j \in 1..Len(s) : LevelAt(c, s[j], F[j - 1]) /\ F[j] = F[j - 1] + Raises(s[j])
Rises(c, s, a, b) == s \in Seq(Ops) /\ \E F : Rising(c, s, a, F) /\ F[Len(s)] = b

LEMMA RisesJoins ==
  ASSUME NEW c, NEW s, NEW t, NEW a, NEW b, NEW e, Rises(c, s, a, b), Rises(c, t, b, e)
  PROVE  Rises(c, s \o t, a, e)
<1>1. s \in Seq(Ops) /\ t \in Seq(Ops)
  BY DEF Rises
<1> HIDE DEF Ops
<1>2. PICK F : Rising(c, s, a, F) /\ F[Len(s)] = b
  BY DEF Rises
<1>3. PICK G : Rising(c, t, b, G) /\ G[Len(t)] = e
  BY DEF Rises
<1>4. PICK m \in Nat, n \in Nat : m = Len(s) /\ n = Len(t)
  BY <1>1
<1>5. s \o t \in Seq(Ops) /\ Len(s \o t) = m + n
  BY <1>1, <1>4, Concatenation
<1> DEFINE B == [j \in 0..(m + n) |-> IF j <= m THEN F[j] ELSE G[j - m]]
<1>6. F \in [0..m -> Int] /\ G \in [0..n -> Int] /\ F[0] = a /\ F[m] = b /\ G[0] = b /\ G[n] = e
  BY <1>2, <1>3, <1>4 DEF Rising
<1>7. B \in [0..(m + n) -> Int] /\ B[0] = a
  BY <1>6
<1>8. \A j \in 0..n : B[m + j] = G[j]
  <2> TAKE j \in 0..n
  <2>1. CASE j = 0
    BY <1>6, <2>1
  <2>2. CASE j # 0
    <3>1. m + j \in 0..(m + n) /\ ~(m + j <= m) /\ (m + j) - m = j
      BY <2>2
    <3> QED
      BY <3>1
  <2> QED
    BY <2>1, <2>2
<1>9. \A j \in 0..m : B[j] = F[j]
  OBVIOUS
<1> HIDE DEF B
<1>10. B[m + n] = e
  BY <1>6, <1>8
<1>11. ASSUME NEW j \in 1..(m + n)
       PROVE  LevelAt(c, (s \o t)[j], B[j - 1]) /\ B[j] = B[j - 1] + Raises((s \o t)[j])
  <2>1. CASE j <= m
    <3>1. j \in 1..m /\ j \in 0..m /\ j - 1 \in 0..m
      BY <2>1
    <3>2. (s \o t)[j] = s[j]
      BY <1>1, <1>4, <3>1, Concatenation
    <3>3. LevelAt(c, s[j], F[j - 1]) /\ F[j] = F[j - 1] + Raises(s[j])
      BY <1>2, <1>4, <3>1 DEF Rising
    <3> QED
      BY <1>9, <3>1, <3>2, <3>3
  <2>2. CASE j > m
    <3>1. PICK i \in 1..n : j = m + i
      BY <2>2
    <3>2. (s \o t)[j] = t[i]
      BY <1>1, <1>4, <3>1, Concatenation
    <3>3. LevelAt(c, t[i], G[i - 1]) /\ G[i] = G[i - 1] + Raises(t[i])
      BY <1>3, <1>4, <3>1 DEF Rising
    <3>4. i - 1 \in 0..n /\ i \in 0..n /\ j - 1 = m + (i - 1)
      BY <3>1
    <3>5. B[j] = G[i] /\ B[j - 1] = G[i - 1]
      BY <1>8, <3>1, <3>4
    <3> QED
      BY <3>2, <3>3, <3>5
  <2>3. j <= m \/ j > m
    OBVIOUS
  <2> QED
    BY <2>1, <2>2, <2>3, Zenon
<1>12. Rising(c, s \o t, a, B)
  BY <1>5, <1>7, <1>11 DEF Rising
<1> QED
  BY <1>5, <1>10, <1>12 DEF Rises

(* Operations that fold nothing. *)
LEMMA RisesPlain ==
  ASSUME NEW c, NEW s \in Seq(Ops), NEW a \in Int,
         \A j \in 1..Len(s) : LevelAt(c, s[j], a) /\ Raises(s[j]) = 0
  PROVE  Rises(c, s, a, a)
<1> HIDE DEF Ops
<1>1. PICK n \in Nat : n = Len(s)
  OBVIOUS
<1>2. PICK F : F = [j \in 0..n |-> a]
  OBVIOUS
<1>3. F \in [0..n -> Int] /\ \A j \in 0..n : F[j] = a
  BY <1>2
<1>4. ASSUME NEW j \in 1..n
      PROVE  LevelAt(c, s[j], F[j - 1]) /\ F[j] = F[j - 1] + Raises(s[j])
  <2>1. F[j - 1] = a /\ F[j] = a
    BY <1>3
  <2>2. LevelAt(c, s[j], a) /\ Raises(s[j]) = 0
    BY <1>1
  <2> QED
    BY <2>1, <2>2
<1>5. Rising(c, s, a, F)
  BY <1>1, <1>3, <1>4 DEF Rising
<1>6. F[Len(s)] = a
  BY <1>1, <1>3
<1> QED
  BY <1>5, <1>6 DEF Rises

LEMMA RisesFlattens ==
  ASSUME NEW c, NEW s \in Seq(Seq(Ops)), NEW R, R[0] \in Int,
         \A i \in 1..Len(s) : Rises(c, s[i], R[i - 1], R[i])
  PROVE  Rises(c, FlattenSeq(s), R[0], R[Len(s)])
<1> HIDE DEF Ops
<1>1. PICK n \in Nat : n = Len(s)
  OBVIOUS
<1>2. PICK d \in [0..n -> Seq(Ops)] :
         d[0] = <<>> /\ (\A i \in 1..n : d[i] = d[i - 1] \o s[i]) /\ FlattenSeq(s) = d[n]
  BY <1>1, FlattenSums
<1> DEFINE S == {i \in 0..n : ~Rises(c, d[i], R[0], R[i])}
<1>3. S = {}
  <2>1. SUFFICES ASSUME S # {} PROVE FALSE
    OBVIOUS
  <2>2. S \subseteq Nat
    OBVIOUS
  <2>3. PICK i \in S : \A m \in S : i <= m
    BY <2>1, <2>2, LeastNat
  <2>4. i \in 0..n /\ ~Rises(c, d[i], R[0], R[i])
    BY <2>3
  <2>5. CASE i = 0
    <3>1. PICK e, a : e = <<>> /\ a = R[0]
      OBVIOUS
    <3>2. e \in Seq(Ops) /\ Len(e) = 0 /\ a \in Int
      <4>1. <<>> \in Seq(Ops) /\ Len(<<>>) = 0
        OBVIOUS
      <4> QED
        BY <3>1, <4>1
    <3>3. Rises(c, e, a, a)
      <4>1. \A j \in 1..Len(e) : LevelAt(c, e[j], a) /\ Raises(e[j]) = 0
        BY <3>2
      <4> QED
        BY <3>2, <4>1, RisesPlain
    <3> QED
      BY <1>2, <2>4, <2>5, <3>1, <3>3
  <2>6. CASE i # 0
    <3>1. i \in 1..n /\ i - 1 \in 0..n /\ i - 1 \notin S
      BY <2>3, <2>4, <2>6
    <3>2. Rises(c, d[i - 1], R[0], R[i - 1])
      BY <3>1
    <3>3. Rises(c, s[i], R[i - 1], R[i])
      BY <1>1, <3>1
    <3>4. Rises(c, d[i - 1] \o s[i], R[0], R[i])
      BY <3>2, <3>3, RisesJoins
    <3> QED
      BY <1>2, <2>4, <3>1, <3>4
  <2> QED
    BY <2>5, <2>6
<1>4. n \in 0..n /\ n \notin S
  <2> HIDE DEF S
  <2> QED
    BY <1>3
<1>5. Rises(c, d[n], R[0], R[n])
  BY <1>4 DEF Rises
<1>6. FlattenSeq(s) = d[n] /\ n = Len(s)
  BY <1>1, <1>2
<1> HIDE DEF S
<1> QED
  BY <1>5, <1>6, Zenon
LEMMA FoldsRise ==
  ASSUME NEW c \in Configs, NEW l \in 0..Steps(c), NEW a \in Int
  PROVE  Rises(c, ProverFolds(c, l), a, a + Lanes(c, l))
<1> DEFINE part(j) == (IF FoldBits(c, l, j - 1) > 0 THEN <<Grind("fold_nonces", FoldBits(c, l, j - 1))>> ELSE <<>>)
                      \o <<Draw("fold", 1), Say("tx")>>
           s == [j \in 1..Lanes(c, l) |-> part(j)]
<1>1. PICK n \in Nat : n = Lanes(c, l)
  BY ConfigTypes
<1>2. ASSUME NEW j \in 1..n, NEW x \in Int
      PROVE  Rises(c, part(j), x, x + 1)
  <2>1. PICK g, d, t : g = Grind("fold_nonces", FoldBits(c, l, j - 1)) /\ d = Draw("fold", 1) /\ t = Say("tx")
    OBVIOUS
  <2>2. j - 1 \in Nat
    OBVIOUS
  <2>3. g \in Ops /\ d \in Ops /\ t \in Ops
    BY <2>1, <2>2, OpsAre
  <2>4. Raises(g) = 0 /\ Raises(d) = 1 /\ Raises(t) = 0
    BY <2>1 DEF Raises, Grind, Draw, Say
  <2>5. \A y : LevelAt(c, g, y) /\ LevelAt(c, d, y) /\ LevelAt(c, t, y)
    BY <2>1 DEF LevelAt, Grind, Draw, Say
  <2> HIDE DEF Ops
  <2>6. PICK p, q, e : p = <<g>> /\ q = <<d, t>> /\ e = <<>>
    OBVIOUS
  <2>7. /\ p \in Seq(Ops) /\ Len(p) = 1 /\ p[1] = g /\ e \in Seq(Ops) /\ Len(e) = 0
        /\ q \in Seq(Ops) /\ Len(q) = 2 /\ q[1] = d /\ q[2] = t
    BY <2>3, <2>6
  <2>8. Rises(c, p, x, x)
    <3>1. \A i \in 1..Len(p) : p[i] = g
      BY <2>7
    <3> QED
      BY <2>4, <2>5, <2>7, <3>1, RisesPlain
  <2>9. Rises(c, e, x, x)
    <3>1. \A i \in 1..Len(e) : LevelAt(c, e[i], x) /\ Raises(e[i]) = 0
      BY <2>7
    <3> QED
      BY <2>7, <3>1, RisesPlain
  <2>10. Rises(c, q, x, x + 1)
    <3>1. PICK F : F = [i \in 0..2 |-> IF i = 0 THEN x ELSE x + 1]
      OBVIOUS
    <3>2. F \in [0..2 -> Int] /\ F[0] = x /\ F[1] = x + 1 /\ F[2] = x + 1
      BY <3>1
    <3>3. ASSUME NEW i \in 1..2
          PROVE  LevelAt(c, q[i], F[i - 1]) /\ F[i] = F[i - 1] + Raises(q[i])
      <4>1. CASE i = 1
        BY <2>4, <2>5, <2>7, <3>2, <4>1
      <4>2. CASE i = 2
        BY <2>4, <2>5, <2>7, <3>2, <4>2
      <4> QED
        BY <4>1, <4>2
    <3>4. Rising(c, q, x, F)
      BY <2>7, <3>2, <3>3 DEF Rising
    <3>5. F[Len(q)] = x + 1
      BY <2>7, <3>2
    <3> QED
      BY <2>7, <3>4, <3>5 DEF Rises
  <2>11. part(j) = p \o q \/ part(j) = e \o q
    BY <2>1, <2>6
  <2> HIDE DEF part
  <2>12. Rises(c, p \o q, x, x + 1) /\ Rises(c, e \o q, x, x + 1)
    BY <2>8, <2>9, <2>10, RisesJoins
  <2> QED
    BY <2>11, <2>12
<1>3. PICK R : R = [i \in 0..n |-> a + i]
  OBVIOUS
<1>4. \A i \in 0..n : R[i] = a + i
  BY <1>3
<1>5. s \in Seq(Seq(Ops)) /\ Len(s) = n /\ \A j \in 1..n : s[j] = part(j)
  <2>1. ASSUME NEW j \in 1..n PROVE part(j) \in Seq(Ops)
    <3> HIDE DEF part
    <3> QED
      BY <1>2 DEF Rises
  <2> HIDE DEF part, Ops
  <2> QED
    BY <1>1, <2>1
<1>6. ProverFolds(c, l) = FlattenSeq(s)
  BY DEF ProverFolds
<1> HIDE DEF s, part
<1>7. \A i \in 1..Len(s) : Rises(c, s[i], R[i - 1], R[i])
  <2> TAKE i \in 1..Len(s)
  <2>1. i \in 1..n /\ i - 1 \in 0..n /\ i \in 0..n
    BY <1>5
  <2>2. PICK x \in Int : x = a + (i - 1)
    OBVIOUS
  <2>3. R[i - 1] = x /\ R[i] = x + 1
    BY <1>4, <2>1, <2>2
  <2>4. Rises(c, part(i), x, x + 1)
    BY <1>2, <2>1
  <2> QED
    BY <1>5, <2>1, <2>3, <2>4
<1>8. R[0] = a /\ R[n] = a + n
  BY <1>4
<1>9. Rises(c, FlattenSeq(s), R[0], R[Len(s)])
  <2> HIDE DEF Ops
  <2>1. R[0] \in Int
    BY <1>8
  <2> QED
    BY <1>5, <1>7, <2>1, RisesFlattens
<1> QED
  BY <1>1, <1>5, <1>6, <1>8, <1>9

LEMMA OodRises ==
  ASSUME NEW c \in Configs, NEW l \in 0..Steps(c), NEW a \in Int, Dim(c, l) + a = c.logN
  PROVE  Rises(c, ProverOod(c, l), a, a)
<1>1. PICK n \in Nat : n = c.ood[l + 1]
  BY ConfigTypes
<1>2. PICK part : part = <<Draw("z", Dim(c, l)), Say("ood"), Say("tx"), Draw("beta", 1)>>
  OBVIOUS
<1>3. PICK s : s = [j \in 1..n |-> part]
  OBVIOUS
<1>4. part \in Seq(Ops) /\ Rises(c, part, a, a)
  <2>1. PICK z, v, t, b : z = Draw("z", Dim(c, l)) /\ v = Say("ood") /\ t = Say("tx") /\ b = Draw("beta", 1)
    OBVIOUS
  <2>2. z \in Ops /\ v \in Ops /\ t \in Ops /\ b \in Ops
    BY <2>1, OpsAre
  <2>3. Raises(z) = 0 /\ Raises(v) = 0 /\ Raises(t) = 0 /\ Raises(b) = 0
    BY <2>1 DEF Raises, Draw, Say
  <2>4. LevelAt(c, v, a) /\ LevelAt(c, t, a) /\ LevelAt(c, b, a)
    BY <2>1 DEF LevelAt, Draw, Say
  <2>5. Dim(c, l) \in Int
    <3>1. l \in 0..(Steps(c) + 1)
      BY StepsType
    <3> QED
      BY <3>1, DimTyped
  <2>6. LevelAt(c, z, a)
    BY <2>1, <2>5 DEF LevelAt, Draw
  <2> HIDE DEF Ops
  <2>7. part = <<z, v, t, b>>
    BY <1>2, <2>1
  <2>8. part \in Seq(Ops) /\ Len(part) = 4 /\ part[1] = z /\ part[2] = v /\ part[3] = t /\ part[4] = b
    BY <2>2, <2>7
  <2>9. \A j \in 1..Len(part) : part[j] = z \/ part[j] = v \/ part[j] = t \/ part[j] = b
    BY <2>8
  <2>10. \A j \in 1..Len(part) : LevelAt(c, part[j], a) /\ Raises(part[j]) = 0
    BY <2>3, <2>4, <2>6, <2>9
  <2> QED
    BY <2>8, <2>10, RisesPlain
<1>5. s \in Seq(Seq(Ops)) /\ Len(s) = n /\ \A j \in 1..n : s[j] = part
  <2> HIDE DEF Ops
  <2> QED
    BY <1>3, <1>4
<1>6. PICK R : R = [i \in 0..n |-> a]
  OBVIOUS
<1>7. \A i \in 0..n : R[i] = a
  BY <1>6
<1>8. \A i \in 1..Len(s) : Rises(c, s[i], R[i - 1], R[i])
  <2> TAKE i \in 1..Len(s)
  <2>1. i \in 1..n /\ i - 1 \in 0..n /\ i \in 0..n
    BY <1>5
  <2> QED
    BY <1>4, <1>5, <1>7, <2>1
<1>9. R[0] = a /\ R[n] = a
  BY <1>7
<1>10. Rises(c, FlattenSeq(s), R[0], R[Len(s)])
  <2> HIDE DEF Ops
  <2>1. R[0] \in Int
    BY <1>9
  <2> QED
    BY <1>5, <1>8, <2>1, RisesFlattens
<1>11. ProverOod(c, l) = FlattenSeq(s)
  BY <1>1, <1>2, <1>3 DEF ProverOod
<1> QED
  BY <1>5, <1>9, <1>10, <1>11
(* What has been folded away before a level. *)
Gone(c, l) == c.logN - Dim(c, l)

LEMMA GoneGrows ==
  ASSUME NEW c \in Configs
  PROVE  /\ Gone(c, 0) = 0 /\ \A l \in 0..(Steps(c) + 1) : Gone(c, l) \in Int /\ Dim(c, l) + Gone(c, l) = c.logN
         /\ \A l \in 0..Steps(c) : Gone(c, l + 1) = Gone(c, l) + Lanes(c, l)
<1>1. /\ Dim(c, 0) = c.logN /\ c.logN \in Int /\ \A l \in 0..(Steps(c) + 1) : Dim(c, l) \in Int
  BY DimTyped
<1>2. ASSUME NEW l \in 0..Steps(c) PROVE Gone(c, l + 1) = Gone(c, l) + Lanes(c, l)
  <2>1. Dim(c, l + 1) = Dim(c, l) - Lanes(c, l) /\ Lanes(c, l) \in Nat
    BY DimFalls, ConfigTypes
  <2>2. l \in 0..(Steps(c) + 1)
    BY StepsType
  <2>3. PICK x \in Int, y \in Nat, z \in Int : x = Dim(c, l) /\ y = Lanes(c, l) /\ z = c.logN
    BY <1>1, <2>1, <2>2
  <2>4. z - (x - y) = (z - x) + y
    OBVIOUS
  <2> QED
    BY <2>1, <2>3, <2>4 DEF Gone
<1> QED
  BY <1>1, <1>2 DEF Gone

LEMMA QueriesRise ==
  ASSUME NEW c \in Configs, NEW l \in 0..Steps(c), NEW a \in Int, LevelAt(c, Open(l), a)
  PROVE  /\ Rises(c, ProverQueries(c, l), a, a)
         /\ Rises(c, <<LastProof(c), Queries(Steps(c)), Draw("alpha", CeilLog2(c.queries[Steps(c) + 1])),
                       Open(l), Draw("beta", 1), Check("residual")>>, a, a)
<1>1. PICK g, q, d, o, t, b, p, x, r :
         /\ g = Grind("nonces", c.grind[l + 1]) /\ q = Queries(l) /\ d = Draw("alpha", CeilLog2(c.queries[l + 1]))
         /\ o = Open(l) /\ t = Say("tx") /\ b = Draw("beta", 1)
         /\ p = LastProof(c) /\ x = Queries(Steps(c)) /\ r = Check("residual")
  OBVIOUS
<1>a. PICK e : e = Draw("alpha", CeilLog2(c.queries[Steps(c) + 1]))
  OBVIOUS
<1>2. g \in Ops /\ q \in Ops /\ d \in Ops /\ o \in Ops /\ t \in Ops /\ b \in Ops
  BY <1>1, OpsAre
<1>3. p \in Ops /\ x \in Ops /\ r \in Ops /\ e \in Ops
  <2>1. Steps(c) \in 0..Steps(c)
    BY StepsType
  <2> QED
    BY <1>1, <1>a, <2>1, OpsAre DEF LastProof
<1>4. /\ Raises(g) = 0 /\ Raises(q) = 0 /\ Raises(d) = 0 /\ Raises(o) = 0 /\ Raises(t) = 0 /\ Raises(b) = 0
      /\ Raises(p) = 0 /\ Raises(x) = 0 /\ Raises(r) = 0 /\ Raises(e) = 0
  BY <1>1, <1>a DEF Raises, Draw, Say, Grind, Queries, Open, Check, LastProof
<1>5. /\ LevelAt(c, g, a) /\ LevelAt(c, q, a) /\ LevelAt(c, d, a) /\ LevelAt(c, t, a) /\ LevelAt(c, b, a)
      /\ LevelAt(c, p, a) /\ LevelAt(c, x, a) /\ LevelAt(c, r, a) /\ LevelAt(c, e, a)
  BY <1>1, <1>a DEF LevelAt, Draw, Say, Grind, Queries, Check, LastProof
<1>6. LevelAt(c, o, a)
  BY <1>1
<1> HIDE DEF Ops
<1>7. PICK s, u : s = <<g, q, d, o, t, b>> /\ u = <<p, x, e, o, b, r>>
  OBVIOUS
<1>8. /\ s \in Seq(Ops) /\ Len(s) = 6
      /\ s[1] = g /\ s[2] = q /\ s[3] = d /\ s[4] = o /\ s[5] = t /\ s[6] = b
  BY <1>2, <1>7, Extends
<1>9. /\ u \in Seq(Ops) /\ Len(u) = 6
      /\ u[1] = p /\ u[2] = x /\ u[3] = e /\ u[4] = o /\ u[5] = b /\ u[6] = r
  BY <1>2, <1>3, <1>7, Extends
<1>10. Rises(c, s, a, a)
  <2>1. \A j \in 1..Len(s) : s[j] = g \/ s[j] = q \/ s[j] = d \/ s[j] = o \/ s[j] = t \/ s[j] = b
    BY <1>8
  <2>2. \A j \in 1..Len(s) : LevelAt(c, s[j], a) /\ Raises(s[j]) = 0
    BY <1>4, <1>5, <1>6, <2>1
  <2> QED
    BY <1>8, <2>2, RisesPlain
<1>11. Rises(c, u, a, a)
  <2>1. \A j \in 1..Len(u) : u[j] = p \/ u[j] = x \/ u[j] = e \/ u[j] = o \/ u[j] = b \/ u[j] = r
    BY <1>9
  <2>2. \A j \in 1..Len(u) : LevelAt(c, u[j], a) /\ Raises(u[j]) = 0
    BY <1>4, <1>5, <1>6, <2>1
  <2> QED
    BY <1>9, <2>2, RisesPlain
<1>12. ProverQueries(c, l) = s
  BY <1>1, <1>7 DEF ProverQueries
<1> QED
  BY <1>1, <1>a, <1>7, <1>10, <1>11, <1>12

LEMMA SaysRise ==
  ASSUME NEW c \in Configs, NEW a \in Int
  PROVE  /\ Rises(c, <<Say("roots")>>, a, a) /\ Rises(c, <<Check("counts")>>, a, a)
         /\ Rises(c, <<Check("shape"), Say("tx")>>, a, a) /\ Rises(c, YrPart(c), a, a)
<1>1. PICK r, k, h, t, y : r = Say("roots") /\ k = Check("counts") /\ h = Check("shape") /\ t = Say("tx") /\ y = Say("yr")
  OBVIOUS
<1>2. r \in Ops /\ k \in Ops /\ h \in Ops /\ t \in Ops /\ y \in Ops
  <2>1. 0 \in 0..Steps(c)
    BY StepsType
  <2> QED
    BY <1>1, <2>1, OpsAre
<1>3. Raises(r) = 0 /\ Raises(k) = 0 /\ Raises(h) = 0 /\ Raises(t) = 0 /\ Raises(y) = 0
  BY <1>1 DEF Raises, Say, Check
<1>4. LevelAt(c, r, a) /\ LevelAt(c, k, a) /\ LevelAt(c, h, a) /\ LevelAt(c, t, a) /\ LevelAt(c, y, a)
  BY <1>1 DEF LevelAt, Say, Check
<1> HIDE DEF Ops
<1>5. PICK s1, s2, s3, s4 : s1 = <<r>> /\ s2 = <<k>> /\ s3 = <<h, t>> /\ s4 = YrPart(c)
  OBVIOUS
<1>6. /\ s1 \in Seq(Ops) /\ Len(s1) = 1 /\ s1[1] = r /\ s2 \in Seq(Ops) /\ Len(s2) = 1 /\ s2[1] = k
      /\ s3 \in Seq(Ops) /\ Len(s3) = 2 /\ s3[1] = h /\ s3[2] = t
  BY <1>2, <1>5, Extends
<1>7. s4 \in Seq(Ops) /\ \A j \in 1..Len(s4) : s4[j] = y
  BY <1>1, <1>5, YrTyped
<1>8. \A j \in 1..Len(s1) : LevelAt(c, s1[j], a) /\ Raises(s1[j]) = 0
  BY <1>3, <1>4, <1>6
<1>9. \A j \in 1..Len(s2) : LevelAt(c, s2[j], a) /\ Raises(s2[j]) = 0
  BY <1>3, <1>4, <1>6
<1>10. \A j \in 1..Len(s3) : LevelAt(c, s3[j], a) /\ Raises(s3[j]) = 0
  <2>1. \A j \in 1..Len(s3) : s3[j] = h \/ s3[j] = t
    BY <1>6
  <2> QED
    BY <1>3, <1>4, <2>1
<1>11. \A j \in 1..Len(s4) : LevelAt(c, s4[j], a) /\ Raises(s4[j]) = 0
  BY <1>3, <1>4, <1>7
<1>12. Rises(c, s1, a, a) /\ Rises(c, s2, a, a)
  BY <1>6, <1>8, <1>9, RisesPlain
<1>13. Rises(c, s3, a, a) /\ Rises(c, s4, a, a)
  BY <1>6, <1>7, <1>10, <1>11, RisesPlain
<1> QED
  BY <1>1, <1>5, <1>12, <1>13

LEMMA BlocksRise ==
  ASSUME NEW c \in Configs
  PROVE  Rises(c, Blocks(c), 0, Gone(c, Steps(c)))
<1>1. PICK n \in Nat : n = Steps(c)
  BY StepsType
<1>2. ASSUME NEW i \in 1..n
      PROVE  Rises(c, Block(c, i), Gone(c, i - 1), Gone(c, i))
  <2>1. i - 1 \in 0..Steps(c) /\ i \in 0..Steps(c) /\ (i - 1) + 1 = i
    BY <1>1
  <2>2. /\ Gone(c, i - 1) \in Int /\ Gone(c, i) \in Int /\ Gone(c, i) = Gone(c, i - 1) + Lanes(c, i - 1)
        /\ Dim(c, i) + Gone(c, i) = c.logN
    <3>1. i - 1 \in 0..(Steps(c) + 1) /\ i \in 0..(Steps(c) + 1)
      BY <1>1
    <3>2. Gone(c, (i - 1) + 1) = Gone(c, i - 1) + Lanes(c, i - 1)
      BY <2>1, GoneGrows
    <3> QED
      BY <2>1, <3>1, <3>2, GoneGrows
  <2>3. PICK x \in Int, y \in Int, l \in 0..Steps(c) : x = Gone(c, i - 1) /\ y = Gone(c, i) /\ l = i - 1
    BY <2>1, <2>2
  <2>4. Rises(c, ProverFolds(c, l), x, y)
    <3>1. Rises(c, ProverFolds(c, l), x, x + Lanes(c, l))
      BY FoldsRise
    <3> QED
      BY <2>2, <2>3, <3>1
  <2>5. Rises(c, <<Say("roots")>>, y, y)
    BY SaysRise
  <2>6. Rises(c, ProverOod(c, i), y, y)
    BY <2>1, <2>2, <2>3, OodRises
  <2>7. Rises(c, ProverQueries(c, l), y, y)
    <3>1. l + 1 = i /\ Dim(c, i) \in Int
      <4>1. i \in 0..(Steps(c) + 1)
        BY <1>1
      <4>2. l + 1 = i
        BY <2>3
      <4> QED
        BY <4>1, <4>2, DimTyped
    <3>2. LevelAt(c, Open(l), y)
      BY <2>2, <2>3, <3>1 DEF LevelAt, Open
    <3> QED
      BY <3>2, QueriesRise
  <2>8. Rises(c, ProverFolds(c, l) \o <<Say("roots")>> \o ProverOod(c, i) \o ProverQueries(c, l), x, y)
    BY <2>4, <2>5, <2>6, <2>7, RisesJoins
  <2> QED
    BY <2>3, <2>8 DEF Block
<1>3. PICK s, R : s = [i \in 1..n |-> Block(c, i)] /\ R = [i \in 0..n |-> Gone(c, i)]
  OBVIOUS
<1>4. \A i \in 0..n : R[i] = Gone(c, i)
  BY <1>3
<1>5. s \in Seq(Seq(Ops)) /\ Len(s) = n /\ \A i \in 1..n : s[i] = Block(c, i)
  <2>1. \A i \in 1..n : Block(c, i) \in Seq(Ops)
    BY <1>2 DEF Rises
  <2> HIDE DEF Ops
  <2> QED
    BY <1>3, <2>1
<1>6. \A i \in 1..Len(s) : Rises(c, s[i], R[i - 1], R[i])
  <2> TAKE i \in 1..Len(s)
  <2>1. i \in 1..n /\ i - 1 \in 0..n /\ i \in 0..n
    BY <1>5
  <2>2. R[i - 1] = Gone(c, i - 1) /\ R[i] = Gone(c, i)
    BY <1>4, <2>1
  <2> QED
    BY <1>2, <1>5, <2>1, <2>2
<1>7. R[0] = 0 /\ R[n] = Gone(c, n)
  BY <1>4, GoneGrows
<1>8. Rises(c, FlattenSeq(s), R[0], R[Len(s)])
  <2> HIDE DEF Ops
  <2>1. R[0] \in Int
    BY <1>7
  <2>2. s \in Seq(Seq(Ops))
    BY <1>5
  <2> QED
    BY <1>6, <2>1, <2>2, RisesFlattens, Zenon
<1>9. Blocks(c) = FlattenSeq(s)
  BY <1>1, <1>3 DEF Blocks
<1> QED
  BY <1>1, <1>5, <1>7, <1>8, <1>9

LEMMA ScriptRises ==
  ASSUME NEW c \in Configs
  PROVE  Rises(c, VerifierScript(c), 0, Gone(c, Steps(c) + 1))
<1>1. PICK n \in Nat : n = Steps(c)
  BY StepsType
<1>2. PICK x \in Int, y \in Int : x = Gone(c, n) /\ y = Gone(c, n + 1)
  BY <1>1, GoneGrows
<1>3. y = x + Lanes(c, n)
  BY <1>1, <1>2, GoneGrows
<1>4. n \in 0..Steps(c)
  BY <1>1
<1>5. Rises(c, ProverFolds(c, n), x, y)
  <2>1. Rises(c, ProverFolds(c, n), x, x + Lanes(c, n))
    BY <1>4, FoldsRise
  <2> QED
    BY <1>3, <2>1
<1>6. PICK T : T = <<LastProof(c), Queries(Steps(c)), Draw("alpha", CeilLog2(c.queries[Steps(c) + 1])),
                     Open(n), Draw("beta", 1), Check("residual")>>
  OBVIOUS
<1>7. Rises(c, T, y, y)
  <2>1. n + 1 \in 0..(Steps(c) + 1)
    BY <1>1
  <2>2. Dim(c, n + 1) \in Int /\ Dim(c, n + 1) + y = c.logN
    BY <1>2, <2>1, DimTyped, GoneGrows
  <2>3. LevelAt(c, Open(n), y)
    BY <2>2 DEF LevelAt, Open
  <2> QED
    BY <1>4, <1>6, <2>3, QueriesRise
<1>8. Rises(c, <<Check("counts")>>, y, y) /\ Rises(c, YrPart(c), y, y)
  BY SaysRise
<1>9. Rises(c, ProverFolds(c, n) \o <<Check("counts")>> \o YrPart(c) \o T, x, y)
  BY <1>5, <1>7, <1>8, RisesJoins
<1>10. PICK z \in Int : z = 0
  OBVIOUS
<1>11. Rises(c, <<Check("shape"), Say("tx")>>, z, z)
  BY SaysRise
<1>12. Rises(c, Blocks(c), z, x)
  BY <1>1, <1>2, <1>10, BlocksRise
<1>13. PICK E : E = ProverFolds(c, n) \o <<Check("counts")>> \o YrPart(c) \o T
  OBVIOUS
<1>14. Rises(c, <<Check("shape"), Say("tx")>> \o Blocks(c) \o E, z, y)
  BY <1>9, <1>11, <1>12, <1>13, RisesJoins
<1>15. VerifierScript(c) = <<Check("shape"), Say("tx")>> \o Blocks(c) \o E
  <2>1. VerifierLast(c) = E
    BY <1>1, <1>6, <1>13, SameFolds DEF VerifierLast, YrPart, LastProof
  <2>2. [i \in 1..Steps(c) |-> VerifierFolds(c, i - 1) \o <<Say("roots")>> \o VerifierOod(c, i) \o VerifierQueries(c, i - 1)]
        = [i \in 1..Steps(c) |-> Block(c, i)]
    BY SameFolds DEF Block
  <2> QED
    BY <2>1, <2>2 DEF VerifierScript, Blocks
<1> QED
  BY <1>1, <1>2, <1>10, <1>14, <1>15

(* Each basis was noted when as many challenges had been drawn as its dimension has *)
(* lost; F counts those that the script draws.                                      *)
Fitting(c, x, a) == x.cols \in Int /\ x.start \in Int /\ x.cols + x.start = c.logN /\ x.start <= a
Fits(c, F) ==
    phase = "verify" => ris = F[pos - 1] /\ \A x \in ctxs : Fitting(c, x, ris)
RisesAs(c, F) ==
    /\ Rising(c, VerifierScripts[c], 0, F) /\ F[Len(VerifierScripts[c])] = Gone(c, Steps(c) + 1)

LEMMA RisesThere ==
  ASSUME NEW c \in Configs
  PROVE  \E F : RisesAs(c, F)
<1>1. VerifierScripts[c] = VerifierScript(c)
  BY DEF VerifierScripts
<1>2. Rises(c, VerifierScript(c), 0, Gone(c, Steps(c) + 1))
  BY ScriptRises
<1> QED
  BY <1>1, <1>2 DEF Rises, RisesAs

(* A step of the verifier from one place to the next: what it draws, and the basis  *)
(* it may note.                                                                     *)
LEMMA FitsOn ==
  ASSUME cfg \in Configs, NEW w, w = PlanOf(cfg), NEW T, Walked(w, T), phase = "verify",
         NEW c, c = cfg, NEW F, RisesAs(c, F), Fits(c, F),
         NEW act, AtOp(act), pos' = pos + 1,
         ris' = ris + Raises(Op),
         \A x \in ctxs' : \/ x \in ctxs
                          \/ /\ x = [cols |-> x.cols, start |-> ris]
                             /\ \/ Op.act = "draw" /\ Op.of = "z" /\ x.cols = Op.n
                                \/ Op.act = "open" /\ x.cols = Dim(c, Op.n + 1)
  PROVE  Fits(c, F)'
<1>1. PICK op, n : op = Op /\ n = Len(VerifierScripts[c])
  OBVIOUS
<1>2. pos \in 1..n /\ op = VerifierScripts[c][pos] /\ n \in Nat
  <2>1. Sizes(cfg, w) /\ pos \in 1..(w.m + w.n + 8)
    BY Verifying
  <2>2. Script = VerifierScripts[c]
    BY DEF Script
  <2>3. n = w.m + w.n + 8 /\ n \in Nat
    <3>1. w.m \in Nat /\ w.n \in Nat
      BY <2>1 DEF Sizes
    <3>2. Len(VerifierScripts[cfg]) = w.m + w.n + 8
      BY <2>1, Zenon DEF Sizes
    <3> QED
      BY <1>1, <3>1, <3>2
  <2> QED
    BY <1>1, <2>1, <2>2, <2>3 DEF Op
<1>3. LevelAt(c, op, F[pos - 1]) /\ F[pos] = F[pos - 1] + Raises(op) /\ F[pos - 1] \in Int
  <2>1. Rising(c, VerifierScripts[c], 0, F)
    BY DEF RisesAs
  <2>2. pos - 1 \in 0..n
    BY <1>2
  <2> QED
    BY <1>1, <1>2, <2>1, <2>2 DEF Rising
<1>4. ris = F[pos - 1] /\ \A x \in ctxs : Fitting(c, x, ris)
  BY DEF Fits
<1>5. Raises(op) \in {0, 1}
  BY DEF Raises
<1>6. pos' - 1 = pos /\ ris' = F[pos' - 1] /\ ris' \in Int /\ ris \in Int /\ ris <= ris'
  <2>1. pos' - 1 = pos
    BY <1>2
  <2>2. ris' = ris + Raises(op) /\ ris = F[pos - 1]
    BY <1>1, <1>4
  <2>3. ris' = F[pos]
    BY <1>3, <2>2
  <2> HIDE DEF Raises
  <2> QED
    BY <1>3, <1>5, <2>1, <2>2, <2>3
<1>7. ASSUME NEW x \in ctxs'
      PROVE  Fitting(c, x, ris')
  <2>1. CASE x \in ctxs
    <3>1. Fitting(c, x, ris)
      BY <1>4, <2>1
    <3> QED
      BY <1>6, <3>1 DEF Fitting
  <2>2. CASE /\ x = [cols |-> x.cols, start |-> ris]
             /\ Op.act = "draw" /\ Op.of = "z" /\ x.cols = Op.n
    <3>1. x.start = ris
      BY <2>2
    <3>2. x.cols \in Int /\ x.cols + ris = c.logN
      BY <1>1, <1>3, <1>4, <2>2 DEF LevelAt
    <3> QED
      BY <1>6, <3>1, <3>2 DEF Fitting
  <2>3. CASE /\ x = [cols |-> x.cols, start |-> ris]
             /\ Op.act = "open" /\ x.cols = Dim(c, Op.n + 1)
    <3>1. x.start = ris
      BY <2>3
    <3>2. x.cols \in Int /\ x.cols + ris = c.logN
      BY <1>1, <1>3, <1>4, <2>3 DEF LevelAt
    <3> QED
      BY <1>6, <3>1, <3>2 DEF Fitting
  <2> QED
    BY <1>7, <2>1, <2>2, <2>3
<1> QED
  BY <1>6, <1>7 DEF Fits

LEMMA NextFits ==
  ASSUME IInv, NEW c, c = cfg, NEW F, RisesAs(c, F), Fits(c, F), [Next]_vars
  PROVE  Fits(c, F)'
<1>1. cfg \in Configs
  BY DEF IInv
<1>2. PICK w : w = PlanOf(cfg)
  OBVIOUS
<1>3. ASSUME phase = "verify"
      PROVE  \E T : Walked(w, T)
  BY <1>2, <1>3 DEF IInv
<1>4. ASSUME NEW act, AtOp(act), act # "draw", act # "open", phase = "verify", pos' = pos + 1, ris' = ris, ctxs' = ctxs
      PROVE  Fits(c, F)'
  <2>1. PICK T : Walked(w, T)
    BY <1>3, <1>4
  <2>2. Raises(Op) = 0 /\ ris \in Int
    <3>1. Op.act = act
      BY <1>4 DEF AtOp, Op
    <3>2. ris = F[pos - 1]
      BY <1>4 DEF Fits
    <3>3. pos \in 1..Len(VerifierScripts[c]) /\ Len(VerifierScripts[c]) \in Nat
      BY <1>1, <1>2, <1>4, <2>1, Verifying DEF Sizes
    <3>4. pos - 1 \in 0..Len(VerifierScripts[c]) /\ F \in [0..Len(VerifierScripts[c]) -> Int]
      BY <3>3 DEF RisesAs, Rising
    <3> QED
      BY <1>4, <3>1, <3>2, <3>4 DEF Raises
  <2>3. ris' = ris + Raises(Op)
    BY <1>4, <2>2
  <2> QED
    BY <1>1, <1>2, <1>4, <2>1, <2>3, FitsOn
<1>5. ASSUME phase' # "verify" PROVE Fits(c, F)'
  BY <1>5 DEF Fits
<1>6. ASSUME UNCHANGED <<phase, pos, ris, ctxs>> PROVE Fits(c, F)'
  BY <1>6 DEF Fits
<1>7. ASSUME ProverSays \/ ProverOpens PROVE Fits(c, F)'
  BY <1>5, <1>7 DEF ProverSays, ProverOpens
<1>8. ASSUME NEW hits, ProverGrinds(hits) PROVE Fits(c, F)'
  BY <1>5, <1>8 DEF ProverGrinds
<1>9. ASSUME VerifierSays PROVE Fits(c, F)'
  <2>1. phase' = "reject" \/ (pos' = pos + 1 /\ ris' = ris /\ ctxs' = ctxs)
    BY <1>9 DEF VerifierSays, Reject, Advance
  <2>2. phase = "verify" /\ AtOp("say")
    BY <1>9 DEF VerifierSays
  <2> QED
    BY <1>4, <1>5, <2>1, <2>2
<1>10. ASSUME VerifierOpens PROVE Fits(c, F)'
  <2>1. phase = "verify" /\ AtOp("open")
    BY <1>10 DEF VerifierOpens
  <2>2. CASE phase' = "reject"
    BY <1>5, <2>2
  <2>3. CASE phase' # "reject"
    <3>1. ctxs' = ctxs \cup {Basis(Dim(cfg, Op.n + 1))} /\ pos' = pos + 1 /\ ris' = ris
      BY <1>10, <2>3 DEF VerifierOpens, Reject, Advance
    <3>2. PICK T : Walked(w, T)
      BY <1>3, <2>1
    <3>3. Op.act = "open" /\ Raises(Op) = 0
      BY <2>1 DEF AtOp, Op, Raises
    <3>4. ris \in Int
      <4>1. pos \in 1..Len(VerifierScripts[c]) /\ Len(VerifierScripts[c]) \in Nat
        BY <1>1, <1>2, <2>1, <3>2, Verifying DEF Sizes
      <4>2. pos - 1 \in 0..Len(VerifierScripts[c]) /\ F \in [0..Len(VerifierScripts[c]) -> Int]
        BY <4>1 DEF RisesAs, Rising
      <4> QED
        BY <2>1, <4>2 DEF Fits
    <3>5. ris' = ris + Raises(Op)
      BY <3>1, <3>3, <3>4
    <3>6. ASSUME NEW x \in ctxs', x \notin ctxs
          PROVE  x = [cols |-> x.cols, start |-> ris] /\ x.cols = Dim(c, Op.n + 1)
      BY <3>1, <3>6 DEF Basis
    <3> QED
      BY <1>1, <1>2, <2>1, <3>1, <3>2, <3>3, <3>5, <3>6, FitsOn
  <2> QED
    BY <2>2, <2>3
<1>11. ASSUME NEW hits, VerifyPow(hits) PROVE Fits(c, F)'
  <2>1. phase' = "reject" \/ (pos' = pos + 1 /\ ris' = ris /\ ctxs' = ctxs)
    BY <1>11 DEF VerifyPow, Reject, Advance
  <2>2. phase = "verify" /\ AtOp("grind")
    BY <1>11 DEF VerifyPow
  <2> QED
    BY <1>4, <1>5, <2>1, <2>2
<1>12. ASSUME Walking, DrawChallenge PROVE Fits(c, F)'
  <2>1. phase' = phase /\ pos' = pos + 1 /\ AtOp("draw")
    BY <1>12 DEF DrawChallenge, Advance
  <2>2. CASE phase # "verify"
    BY <1>5, <2>1, <2>2
  <2>3. CASE phase = "verify"
    <3>1. PICK T : Walked(w, T)
      BY <1>3, <2>3
    <3>2. Op.act = "draw"
      BY <2>1 DEF AtOp, Op
    <3>3. ris \in Int
      <4>1. pos \in 1..Len(VerifierScripts[c]) /\ Len(VerifierScripts[c]) \in Nat
        BY <1>1, <1>2, <2>1, <2>3, <3>1, Verifying DEF Sizes
      <4>2. pos - 1 \in 0..Len(VerifierScripts[c]) /\ F \in [0..Len(VerifierScripts[c]) -> Int]
        BY <4>1 DEF RisesAs, Rising
      <4> QED
        BY <2>3, <4>2 DEF Fits
    <3>4. ris' = ris + Raises(Op)
      <4>1. IF Op.of = "fold" THEN ris' = ris + 1 ELSE ris' = ris
        BY <1>12, <2>3 DEF DrawChallenge
      <4> QED
        BY <3>2, <3>3, <4>1 DEF Raises
    <3>5. ASSUME NEW x \in ctxs', x \notin ctxs
          PROVE  x = [cols |-> x.cols, start |-> ris] /\ Op.of = "z" /\ x.cols = Op.n
      <4>1. IF Op.of = "z" THEN ctxs' = ctxs \cup {Basis(Op.n)} ELSE ctxs' = ctxs
        BY <1>12, <2>3 DEF DrawChallenge
      <4> QED
        BY <3>5, <4>1 DEF Basis
    <3> QED
      BY <1>1, <1>2, <2>1, <2>3, <3>1, <3>2, <3>4, <3>5, FitsOn
  <2> QED
    BY <2>2, <2>3
<1>13. ASSUME Panic PROVE Fits(c, F)'
  BY <1>5, <1>13 DEF Panic
<1>14. ASSUME Walking, CheckShape PROVE Fits(c, F)'
  <2>1. phase' = "reject" \/ (phase' = phase /\ pos' = pos + 1 /\ ris' = ris /\ ctxs' = ctxs)
    BY <1>14 DEF CheckShape, Reject, Advance
  <2>2. AtOp("check")
    BY <1>14 DEF CheckShape
  <2> QED
    BY <1>4, <1>5, <2>1, <2>2
<1>15. ASSUME Residual PROVE Fits(c, F)'
  BY <1>5, <1>15 DEF Residual
<1>16. ASSUME Walking, NEW v, SamplePosition(v) PROVE Fits(c, F)'
  <2>1. phase' = phase /\ (pos' = pos + 1 \/ pos' = pos) /\ ris' = ris /\ ctxs' = ctxs /\ AtOp("queries")
    BY <1>16 DEF SamplePosition, Advance, checkVars
  <2>2. CASE phase = "verify" /\ pos' = pos + 1
    BY <1>4, <2>1, <2>2
  <2> QED
    BY <1>5, <1>6, <2>1, <2>2
<1>17. ASSUME Deliver PROVE Fits(c, F)'
  <2>1. pos' = 1 /\ ris' = ris /\ ctxs' = ctxs /\ phase = "prove"
    BY <1>17 DEF Deliver, checkVars
  <2>2. PICK T : Walked(w, T)
    BY <1>2, <2>1 DEF IInv
  <2>3. NoChecks
    BY <1>1, <1>2, <2>1, <2>2, Proving
  <2>4. ris' = 0 /\ ctxs' = {} /\ pos' - 1 = 0 /\ F[0] = 0
    BY <2>1, <2>3 DEF NoChecks, RisesAs, Rising
  <2> QED
    BY <2>4 DEF Fits
<1>18. ASSUME UNCHANGED vars PROVE Fits(c, F)'
  BY <1>6, <1>18 DEF vars, walkVars, checkVars
<1> QED
  BY <1>7, <1>8, <1>9, <1>10, <1>11, <1>12, <1>13, <1>14, <1>15, <1>16, <1>17, <1>18, Zenon DEF Next

(* At the residual all the challenges have been drawn.                               *)
LEMMA FitsTheResidual ==
  ASSUME IInv, NEW c, c = cfg, NEW F, RisesAs(c, F), Fits(c, F)
  PROVE  ResidualFits
<1>1. SUFFICES ASSUME phase = "verify", AtOp("check"), Op.of = "residual", NEW x \in ctxs
               PROVE  /\ x.cols >= Dim(cfg, Steps(cfg) + 1)
                      /\ x.start + (x.cols - Dim(cfg, Steps(cfg) + 1)) = ris
  BY DEF ResidualFits
<1>2. cfg \in Configs
  BY DEF IInv
<1>3. PICK w : w = PlanOf(cfg)
  OBVIOUS
<1>4. PICK T : Walked(w, T)
  BY <1>1, <1>3 DEF IInv
<1>5. PICK op, n : op = Op /\ n = w.m + w.n + 8
  OBVIOUS
<1>6. /\ Sizes(cfg, w) /\ pos \in 1..n /\ op.act = "check" /\ VerifierMeets(cfg, w, pos, op)
  BY <1>1, <1>2, <1>3, <1>4, <1>5, Verifying
<1>7. op.of = "residual"
  BY <1>1, <1>5
<1>8. op = Check("residual")
  BY <1>6, <1>7 DEF VerifierMeets, Check
<1>9. pos = n /\ n = Len(VerifierScripts[c]) /\ n \in Nat
  BY <1>5, <1>6, <1>8 DEF VerifierMeets, Sizes
<1>10. n - 1 \in 0..n /\ n \in 1..n
  BY <1>6, <1>9
<1>11. F[n] = F[n - 1] + Raises(VerifierScripts[c][n]) /\ F[n - 1] \in Int
  BY <1>9, <1>10 DEF RisesAs, Rising
<1>12. VerifierScripts[c][n] = op
  BY <1>1, <1>5, <1>9 DEF Op, Script
<1>13. F[n] = F[n - 1]
  BY <1>6, <1>11, <1>12 DEF Raises
<1>14. ris = F[n] /\ Fitting(c, x, ris)
  BY <1>1, <1>9, <1>13 DEF Fits
<1>15. PICK d, l : d = Dim(c, l) /\ l = Steps(c) + 1
  OBVIOUS
<1>16. F[n] = Gone(c, l)
  BY <1>9, <1>15 DEF RisesAs
<1>17. l \in 0..(Steps(c) + 1)
  BY <1>2, <1>15, StepsType
<1>18. Gone(c, l) \in Int /\ d + Gone(c, l) = c.logN /\ d \in Int
  <2>1. Gone(c, l) \in Int /\ Dim(c, l) + Gone(c, l) = c.logN
    BY <1>2, <1>17, GoneGrows
  <2>2. Dim(c, l) \in Int
    BY <1>2, <1>17, DimTyped
  <2> QED
    BY <1>15, <2>1, <2>2
<1>19. x.cols >= d /\ x.start + (x.cols - d) = ris
  BY <1>14, <1>16, <1>18 DEF Fitting
<1> QED
  BY <1>15, <1>19

-----------------------------------------------------------------------------
(* The oracle has one answer for a point, and keeps it.                             *)
OneEach(g) == \A i, j \in 1..Len(g) : g[i].point = g[j].point => i = j
Has(g, j, p) == j \in 1..Len(g) /\ g[j].point = p
Prefixed(s, t) ==
    /\ IsSeq(s) /\ IsSeq(t) /\ Len(s) \in Nat /\ Len(t) \in Nat /\ Len(s) <= Len(t)
    /\ \A i \in 1..Len(s) : t[i] = s[i]

LEMMA HasIsKnown ==
  ASSUME IsSeq(log), OneEach(log), NEW p, NEW j, Has(log, j, p)
  PROVE  IsKnown(p) /\ PointId(p) = j
<1>1. DOMAIN log = 1..Len(log)
  BY AnyLength
<1>2. IsKnown(p)
  BY <1>1 DEF IsKnown, Has
<1>3. PICK i : i = PointId(p)
  OBVIOUS
<1>4. i \in DOMAIN log /\ log[i].point = p
  BY <1>2, <1>3 DEF PointId, IsKnown
<1>5. i = j
  BY <1>1, <1>4 DEF OneEach, Has
<1> QED
  BY <1>2, <1>3, <1>5

LEMMA HasAnswer ==
  ASSUME IsSeq(log), OneEach(log), NEW p, NEW j, Has(log, j, p), NEW a, NEW bad, Answered(p, a, bad)
  PROVE  a = log[j].answer /\ log' = log /\ PointId(p) = j
<1>1. IsKnown(p) /\ PointId(p) = j
  BY HasIsKnown
<1> QED
  BY <1>1 DEF Answered

LEMMA AnswerKept ==
  ASSUME IsSeq(log), OneEach(log), NEW p, NEW a, NEW bad, Answered(p, a, bad)
  PROVE  /\ OneEach(log') /\ Prefixed(log, log')
         /\ Has(log', PointId(p), p) /\ log'[PointId(p)].answer = a
<1>1. DOMAIN log = 1..Len(log)
  BY AnyLength
<1>2. Len(log) \in Nat
  BY AnyLength
<1>3. CASE IsKnown(p)
  <2>1. log' = log /\ a = log[PointId(p)].answer
    BY <1>3 DEF Answered
  <2>2. PICK i : i = PointId(p)
    OBVIOUS
  <2>3. i \in DOMAIN log /\ log[i].point = p
    BY <1>3, <2>2 DEF PointId, IsKnown
  <2>4. Has(log, i, p)
    BY <1>1, <2>3 DEF Has
  <2>5. Prefixed(log, log)
    BY <1>2 DEF Prefixed
  <2> QED
    BY <2>1, <2>2, <2>4, <2>5
<1>4. CASE ~IsKnown(p)
  <2>1. PICK x, g : x = [point |-> p, answer |-> a, bad |-> bad] /\ g = Append(log, x)
    OBVIOUS
  <2>2. log' = Append(log, x) /\ PointId(p) = Len(log) + 1
    BY <1>4, <2>1 DEF Answered, PointId
  <2>3. PICK n \in Nat : n = Len(log)
    BY <1>2
  <2>4. IsSeq(g) /\ Len(g) = n + 1 /\ (\A i \in 1..n : g[i] = log[i]) /\ g[n + 1] = x
    <3>1. /\ IsSeq(Append(log, x)) /\ Len(Append(log, x)) = Len(log) + 1
          /\ \A i \in 1..Len(log) : Append(log, x)[i] = log[i]
          /\ Append(log, x)[Len(log) + 1] = x
      BY AnyAppend
    <3> QED
      BY <2>1, <2>3, <3>1
  <2>5. \A i \in 1..n : log[i].point # p
    BY <1>1, <1>4, <2>3 DEF IsKnown
  <2>6. Prefixed(log, g)
    <3>1. IsSeq(g) /\ Len(log) \in Nat /\ Len(g) \in Nat /\ Len(log) <= Len(g)
      BY <2>3, <2>4
    <3>2. \A i \in 1..Len(log) : g[i] = log[i]
      BY <2>3, <2>4
    <3> QED
      BY <3>1, <3>2, Zenon DEF Prefixed
  <2>7. Has(g, n + 1, p) /\ g[n + 1].answer = a
    BY <2>1, <2>4 DEF Has
  <2>8. OneEach(g)
    <3>1. SUFFICES ASSUME NEW i \in 1..(n + 1), NEW j \in 1..(n + 1), g[i].point = g[j].point
                   PROVE  i = j
      BY <2>4 DEF OneEach
    <3>2. x.point = p
      BY <2>1
    <3>3. CASE i # n + 1 /\ j # n + 1
      <4>1. i \in 1..n /\ j \in 1..n
        BY <3>3
      <4> QED
        BY <2>3, <2>4, <3>1, <4>1 DEF OneEach
    <3>4. CASE i = n + 1 /\ j # n + 1
      <4>1. j \in 1..n
        BY <3>4
      <4> QED
        BY <2>4, <2>5, <3>1, <3>2, <3>4, <4>1
    <3>5. CASE i # n + 1 /\ j = n + 1
      <4>1. i \in 1..n
        BY <3>5
      <4> QED
        BY <2>4, <2>5, <3>1, <3>2, <3>5, <4>1
    <3> QED
      BY <3>3, <3>4, <3>5
  <2> QED
    BY <2>1, <2>2, <2>3, <2>6, <2>7, <2>8, Zenon
<1> QED
  BY <1>3, <1>4

-----------------------------------------------------------------------------
(* The prover's walk as the places it was at, with its transcript, challenge and    *)
(* positions there: one step from h to x, by the proof q and the answers g.         *)
State(p, t, a, s) == [pos |-> p, tr |-> t, chal |-> a, got |-> s]
Squeeze(t, op) == Absorbed(t, <<"squeeze", op.of \in {"z", "alpha"}, op.n>>)
Restart(j) == [at |-> j, since |-> <<>>]

Says(q, op, k, h, x) ==
    LET e == q[op.of][k[op.of] + 1]
    IN  /\ op.of \in Lists /\ k[op.of] + 1 \in 1..Len(q[op.of]) /\ e.at = h.chal
        /\ x = State(h.pos + 1, Absorbed(h.tr, <<op.of, e>>), h.chal, h.got)
Grinds(g, q, op, k, h, x) ==
    LET e == q[op.of][k[op.of] + 1]
    IN  /\ op.of \in Lists /\ k[op.of] + 1 \in 1..Len(q[op.of])
        /\ IF op.n = 0 THEN e.val = 0
           ELSE \E j : Has(g, j, Absorbed(h.tr, <<"pow">>)) /\ e.val \in g[j].answer
        /\ x = State(h.pos + 1, Absorbed(h.tr, <<op.of, e>>), h.chal, h.got)
Draws(g, op, h, x) ==
    IF op.n = 0 THEN x = State(h.pos + 1, Squeeze(h.tr, op), h.chal, h.got)
    ELSE \E j : Has(g, j, Squeeze(h.tr, op)) /\ x = State(h.pos + 1, Restart(j), j, h.got)
Samples(c, g, op, h, x) ==
    \E j, s : /\ Has(g, j, Absorbed(h.tr, <<"squeeze", FALSE, 1>>)) /\ s = h.got \cup {g[j].answer}
              /\ x = State(IF Cardinality(s) = c.queries[op.n + 1] THEN h.pos + 1 ELSE h.pos, Restart(j), h.chal, s)
OpensRows(q, op, h, x) ==
    /\ op.n + 1 \in 1..Len(q["opens"]) /\ q["opens"][op.n + 1].val.rows = h.got
    /\ x = State(h.pos + 1, h.tr, h.chal, {})

OneStep(c, g, q, op, k, h, x) ==
    \/ op.act = "say" /\ Says(q, op, k, h, x)
    \/ op.act = "grind" /\ Grinds(g, q, op, k, h, x)
    \/ op.act = "draw" /\ Draws(g, op, h, x)
    \/ op.act = "queries" /\ Samples(c, g, op, h, x)
    \/ op.act = "open" /\ OpensRows(q, op, h, x)
StepFrom(c, w, g, q, h, x) == OneStep(c, g, q, ProverScripts[c][h.pos], w.P[h.pos], h, x)

Trail(c, w, g, q, H, n) ==
    /\ n \in Nat \ {0} /\ H[1] = State(1, Opening(q), 0, {})
    /\ \A i \in 1..(n - 1) : StepFrom(c, w, g, q, H[i], H[i + 1])

(* What was answered and what was made stay so.                                      *)
Longer(g, q, u, v) == Prefixed(g, u) /\ (\A f \in Lists : Prefixed(q[f], v[f])) /\ Opening(v) = Opening(q)

LEMMA HasStays ==
  ASSUME NEW g, NEW u, Prefixed(g, u), NEW j, NEW p, Has(g, j, p)
  PROVE  Has(u, j, p) /\ u[j].answer = g[j].answer
BY DEF Prefixed, Has

LEMMA StepStays ==
  ASSUME NEW c, NEW g, NEW q, NEW u, NEW v, Longer(g, q, u, v), NEW op, NEW k, NEW h, NEW x, OneStep(c, g, q, op, k, h, x)
  PROVE  OneStep(c, u, v, op, k, h, x)
<1>1. Prefixed(g, u) /\ \A f \in Lists : Prefixed(q[f], v[f])
  BY DEF Longer
<1>2. ASSUME NEW f \in Lists, NEW i \in 1..Len(q[f])
      PROVE  i \in 1..Len(v[f]) /\ v[f][i] = q[f][i]
  <2>1. Prefixed(q[f], v[f])
    BY <1>1
  <2> QED
    BY <2>1 DEF Prefixed
<1>3. CASE op.act = "say" /\ Says(q, op, k, h, x)
  <2>1. PICK i : i = k[op.of] + 1
    OBVIOUS
  <2>2. op.of \in Lists /\ i \in 1..Len(q[op.of])
    BY <1>3, <2>1 DEF Says
  <2>3. i \in 1..Len(v[op.of]) /\ v[op.of][i] = q[op.of][i]
    BY <1>2, <2>2
  <2>4. Says(v, op, k, h, x)
    BY <1>3, <2>1, <2>3 DEF Says
  <2> QED
    BY <1>3, <2>4 DEF OneStep
<1>4. CASE op.act = "grind" /\ Grinds(g, q, op, k, h, x)
  <2>1. PICK i : i = k[op.of] + 1
    OBVIOUS
  <2>2. op.of \in Lists /\ i \in 1..Len(q[op.of])
    BY <1>4, <2>1 DEF Grinds
  <2>3. i \in 1..Len(v[op.of]) /\ v[op.of][i] = q[op.of][i]
    BY <1>2, <2>2
  <2>4. PICK e : e = q[op.of][i]
    OBVIOUS
  <2>5. IF op.n = 0 THEN e.val = 0 ELSE \E j : Has(u, j, Absorbed(h.tr, <<"pow">>)) /\ e.val \in u[j].answer
    <3>1. IF op.n = 0 THEN e.val = 0 ELSE \E j : Has(g, j, Absorbed(h.tr, <<"pow">>)) /\ e.val \in g[j].answer
      BY <1>4, <2>1, <2>4 DEF Grinds
    <3> QED
      BY <1>1, <3>1, HasStays
  <2>6. x = State(h.pos + 1, Absorbed(h.tr, <<op.of, e>>), h.chal, h.got)
    BY <1>4, <2>1, <2>4 DEF Grinds
  <2>7. Grinds(u, v, op, k, h, x)
    BY <2>1, <2>2, <2>3, <2>4, <2>5, <2>6 DEF Grinds
  <2> QED
    BY <1>4, <2>7 DEF OneStep
<1>5. CASE op.act = "draw" /\ Draws(g, op, h, x)
  <2>1. Draws(u, op, h, x)
    BY <1>1, <1>5, HasStays DEF Draws
  <2> QED
    BY <1>5, <2>1 DEF OneStep
<1>6. CASE op.act = "queries" /\ Samples(c, g, op, h, x)
  <2>1. PICK j, s : /\ Has(g, j, Absorbed(h.tr, <<"squeeze", FALSE, 1>>)) /\ s = h.got \cup {g[j].answer}
                    /\ x = State(IF Cardinality(s) = c.queries[op.n + 1] THEN h.pos + 1 ELSE h.pos, Restart(j), h.chal, s)
    BY <1>6 DEF Samples
  <2>2. Has(u, j, Absorbed(h.tr, <<"squeeze", FALSE, 1>>)) /\ u[j].answer = g[j].answer
    BY <1>1, <2>1, HasStays
  <2>3. Samples(c, u, op, h, x)
    BY <2>1, <2>2 DEF Samples
  <2> QED
    BY <1>6, <2>3 DEF OneStep
<1>7. CASE op.act = "open" /\ OpensRows(q, op, h, x)
  <2>1. PICK i : i = op.n + 1
    OBVIOUS
  <2>2. i \in 1..Len(q["opens"]) /\ "opens" \in Lists
    BY <1>7, <2>1, TagsApart DEF OpensRows
  <2>3. i \in 1..Len(v["opens"]) /\ v["opens"][i] = q["opens"][i]
    BY <1>2, <2>2
  <2>4. OpensRows(v, op, h, x)
    BY <1>7, <2>1, <2>3 DEF OpensRows
  <2> QED
    BY <1>7, <2>4 DEF OneStep
<1> QED
  BY <1>3, <1>4, <1>5, <1>6, <1>7 DEF OneStep

LEMMA TrailStays ==
  ASSUME NEW c, NEW w, NEW g, NEW q, NEW u, NEW v, Longer(g, q, u, v), NEW H, NEW n, Trail(c, w, g, q, H, n)
  PROVE  Trail(c, w, u, v, H, n)
<1>1. n \in Nat \ {0} /\ H[1] = State(1, Opening(v), 0, {})
  BY DEF Trail, Longer
<1>2. ASSUME NEW i \in 1..(n - 1)
      PROVE  StepFrom(c, w, u, v, H[i], H[i + 1])
  <2>1. StepFrom(c, w, g, q, H[i], H[i + 1])
    BY DEF Trail
  <2> QED
    BY <2>1, StepStays DEF StepFrom
<1> QED
  BY <1>1, <1>2 DEF Trail

LEMMA TrailMore ==
  ASSUME NEW c, NEW w, NEW g, NEW q, NEW H, NEW n, Trail(c, w, g, q, H, n), NEW x, StepFrom(c, w, g, q, H[n], x)
  PROVE  \E F, k : Trail(c, w, g, q, F, k) /\ F[k] = x
<1> DEFINE F == [i \in 1..(n + 1) |-> IF i = n + 1 THEN x ELSE H[i]]
<1>1. n \in Nat \ {0}
  BY DEF Trail
<1>2. F[n + 1] = x /\ \A i \in 1..n : F[i] = H[i]
  BY <1>1
<1> HIDE DEF F
<1>3. F[1] = State(1, Opening(q), 0, {})
  BY <1>1, <1>2 DEF Trail
<1>4. ASSUME NEW i \in 1..n
      PROVE  StepFrom(c, w, g, q, F[i], F[i + 1])
  <2>1. CASE i = n
    BY <1>2, <2>1
  <2>2. CASE i # n
    <3>1. i \in 1..(n - 1) /\ i + 1 \in 1..n
      BY <1>1, <2>2
    <3>2. StepFrom(c, w, g, q, H[i], H[i + 1])
      BY <3>1 DEF Trail
    <3> QED
      BY <1>2, <3>1, <3>2
  <2> QED
    BY <2>1, <2>2
<1>5. PICK k \in Nat \ {0} : k = n + 1 /\ k - 1 = n
  BY <1>1
<1>6. Trail(c, w, g, q, F, k)
  BY <1>3, <1>4, <1>5 DEF Trail
<1> QED
  BY <1>2, <1>5, <1>6

(* The prover is at the end of its trail.                                           *)
Trailing(w) == \E H, n : Trail(cfg, w, log, made, H, n) /\ H[n] = State(pos, tr, chal, got)

LEMMA TrailOn ==
  ASSUME NEW w, Trailing(w), cfg' = cfg, NEW g, g = log', NEW q, q = made', Longer(log, made, g, q),
         OneStep(cfg, g, q, ProverScripts[cfg][pos], w.P[pos], State(pos, tr, chal, got), State(pos, tr, chal, got)')
  PROVE  Trailing(w)'
<1>1. PICK H, n : Trail(cfg, w, log, made, H, n) /\ H[n] = State(pos, tr, chal, got)
  BY DEF Trailing
<1>2. Trail(cfg, w, g, q, H, n)
  BY <1>1, TrailStays
<1>3. PICK x : x = State(pos, tr, chal, got)'
  OBVIOUS
<1>4. StepFrom(cfg, w, g, q, H[n], x)
  <2>1. H[n].pos = pos
    BY <1>1 DEF State
  <2> QED
    BY <1>1, <1>3, <2>1 DEF StepFrom
<1>5. PICK F, k : Trail(cfg, w, g, q, F, k) /\ F[k] = x
  BY <1>2, <1>4, TrailMore
<1> QED
  BY <1>3, <1>5 DEF Trailing

LEMMA StateIs ==
  ASSUME NEW p, NEW t, NEW a, NEW s, NEW h, h = State(p, t, a, s)
  PROVE  h.pos = p /\ h.tr = t /\ h.chal = a /\ h.got = s
BY DEF State

LEMMA PrefixedSame ==
  ASSUME NEW s, IsSeq(s)
  PROVE  Prefixed(s, s)
BY AnyLength DEF Prefixed

(* Nothing is made.                                                                  *)
LEMMA LongerLog ==
  ASSUME InOrder, NEW g, Prefixed(log, g)
  PROVE  Longer(log, made, g, made)
BY PrefixedSame DEF InOrder, Longer

(* An element is made.                                                               *)
LEMMA LongerProof ==
  ASSUME InOrder, NEW g, Prefixed(log, g), NEW f, NEW e, Fresh(f, e), Adds(f, e), cfg' = cfg
  PROVE  /\ Longer(log, made, g, made')
         /\ Len(made[f]) + 1 \in 1..Len(made'[f]) /\ made'[f][Len(made[f]) + 1] = e
<1>1. /\ \A h \in Lists : made'[h] = IF h = f THEN Append(made[f], e) ELSE made[h]
      /\ Len(made'[f]) = Len(made[f]) + 1 /\ made'[f][Len(made[f]) + 1] = e
      /\ \A i \in 1..Len(made[f]) : made'[f][i] = made[f][i]
      /\ InOrder'
  BY OrderKept
<1>2. \A h \in Lists : IsSeq(made[h]) /\ IsSeq(made'[h])
  BY <1>1 DEF InOrder
<1>3. f \in Lists /\ f # "start"
  BY DEF Fresh
<1>4. ASSUME NEW h \in Lists
      PROVE  Prefixed(made[h], made'[h])
  <2>1. CASE h = f
    <3>1. PICK s, t : s = made[f] /\ t = made'[f]
      OBVIOUS
    <3>2. IsSeq(s) /\ IsSeq(t)
      BY <1>2, <1>3, <3>1
    <3>3. Len(s) \in Nat /\ Len(t) \in Nat
      BY <3>2, AnyLength
    <3>4. Len(t) = Len(s) + 1 /\ \A i \in 1..Len(s) : t[i] = s[i]
      BY <1>1, <3>1
    <3>5. Len(s) <= Len(t)
      BY <3>3, <3>4
    <3> QED
      BY <2>1, <3>1, <3>2, <3>3, <3>4, <3>5 DEF Prefixed
  <2>2. CASE h # f
    BY <1>1, <1>2, <2>2, PrefixedSame
  <2> QED
    BY <2>1, <2>2
<1>5. Opening(made') = Opening(made)
  <2>1. made'["start"] = made["start"]
    BY <1>1, <1>3, TagsApart
  <2> QED
    BY <2>1 DEF Opening
<1>6. Len(made[f]) + 1 \in 1..Len(made'[f])
  <2>1. PICK s : s = made[f]
    OBVIOUS
  <2>2. Len(s) \in Nat
    BY <1>2, <1>3, <2>1, AnyLength
  <2> QED
    BY <1>1, <2>1, <2>2
<1> QED
  BY <1>1, <1>4, <1>5, <1>6 DEF Longer

LEMMA TrailSays ==
  ASSUME cfg \in Configs, NEW w, w = PlanOf(cfg), NEW T, Walked(w, T), Trailing(w), ProverSays
  PROVE  Trailing(w)'
<1>0. phase = "prove" /\ AtOp("say")
  BY DEF ProverSays
<1>1. Making(w, T) /\ Listening(T) /\ InOrder
  BY <1>0, Proving
<1>2. PICK op, k : op = Op /\ k = w.P[pos]
  OBVIOUS
<1>3. pos \in 1..(w.m + w.n + 3) /\ op.act = "say" /\ ProverMeets(w, pos, op)
  BY <1>0, <1>2, Proving
<1>4. PICK e, f : e = NewElem(op.of, 0) /\ f = op.of
  OBVIOUS
<1>5. /\ made' = [made EXCEPT ![f] = Append(@, e)] /\ tr' = Absorbed(tr, <<f, e>>)
      /\ pos' = pos + 1 /\ cfg' = cfg /\ chal' = chal /\ log' = log /\ got' = got
  BY <1>2, <1>4 DEF ProverSays, Advance
<1>6. f \in Told
  BY <1>3, <1>4, TagsApart DEF ProverMeets, Meets
<1>7. Fresh(f, e) /\ Adds(f, e) /\ e.at = chal
  <2>1. f # "opens" /\ f \in Lists \ {"start"}
    BY <1>6, TagsApart
  <2>2. IsElem(e) /\ e.no = Len(made[f]) + 1 /\ e.intact = TRUE /\ e.at = chal
    BY <1>4 DEF NewElem, Elem, IsElem
  <2> QED
    BY <1>5, <2>1, <2>2 DEF Fresh, Adds
<1>8. Prefixed(log, log)
  BY <1>1, PrefixedSame DEF Listening, Recalls
<1>9. Longer(log, made, log, made') /\ Len(made[f]) + 1 \in 1..Len(made'[f]) /\ made'[f][Len(made[f]) + 1] = e
  BY <1>1, <1>5, <1>7, <1>8, LongerProof
<1>10. k[f] = Len(made[f])
  BY <1>1, <1>2, <1>6, TagsApart DEF Making
<1>11. PICK h, x : h = State(pos, tr, chal, got) /\ x = State(pos, tr, chal, got)'
  OBVIOUS
<1>12. h.pos = pos /\ h.tr = tr /\ h.chal = chal /\ h.got = got /\ x = State(pos', tr', chal', got')
  BY <1>11, StateIs DEF State
<1>13. PICK q : q = made'
  OBVIOUS
<1>14. Says(q, op, k, h, x)
  <2>1. q[op.of][k[op.of] + 1] = e /\ k[op.of] + 1 \in 1..Len(q[op.of])
    BY <1>4, <1>9, <1>10, <1>13
  <2>2. x = State(h.pos + 1, Absorbed(h.tr, <<op.of, e>>), h.chal, h.got)
    BY <1>4, <1>5, <1>12
  <2>3. op.of \in Lists
    BY <1>4, <1>6, TagsApart
  <2> QED
    BY <1>7, <1>12, <2>1, <2>2, <2>3 DEF Says
<1>15. op = ProverScripts[cfg][pos]
  BY <1>0, <1>2 DEF Op, Script
<1>16. OneStep(cfg, log, q, op, k, h, x)
  BY <1>3, <1>14 DEF OneStep
<1>17. PICK g : g = log'
  OBVIOUS
<1> QED
  BY <1>2, <1>5, <1>9, <1>11, <1>13, <1>15, <1>16, <1>17, TrailOn

LEMMA LeastIsOne ==
  ASSUME NEW hits \in HitSets
  PROVE  LeastOf(hits) \in hits
<1>1. hits \subseteq Nat /\ hits # {}
  BY DEF HitSets
<1>2. \E n \in hits : \A m \in hits : n <= m
  BY <1>1, LeastNat
<1> QED
  BY <1>2 DEF LeastOf

LEMMA TrailGrinds ==
  ASSUME cfg \in Configs, NEW w, w = PlanOf(cfg), NEW T, Walked(w, T), OneEach(log), Trailing(w),
         NEW hits \in HitSets, ProverGrinds(hits)
  PROVE  Trailing(w)' /\ OneEach(log')
<1>0. phase = "prove" /\ AtOp("grind")
  BY DEF ProverGrinds
<1>1. Making(w, T) /\ Listening(T) /\ InOrder /\ IsSeq(log)
  BY <1>0, Proving DEF Listening, Recalls
<1>2. PICK op, k : op = Op /\ k = w.P[pos]
  OBVIOUS
<1>3. pos \in 1..(w.m + w.n + 3) /\ op.act = "grind" /\ ProverMeets(w, pos, op)
  BY <1>0, <1>2, Proving
<1>4. PICK e, f, p, bad : e = NewElem(op.of, LeastOf(hits)) /\ f = op.of /\ p = Absorbed(tr, <<"pow">>) /\ bad = (0 \notin hits)
  OBVIOUS
<1>5. /\ made' = [made EXCEPT ![f] = Append(@, e)] /\ tr' = Absorbed(tr, <<f, e>>)
      /\ pos' = pos + 1 /\ cfg' = cfg /\ chal' = chal /\ got' = got
      /\ IF op.n = 0 THEN hits = {0} /\ log' = log ELSE Answered(p, hits, bad)
  BY <1>2, <1>4 DEF ProverGrinds, Advance
<1>6. f \in NonceLists /\ f \in Told
  BY <1>3, <1>4, TagsApart DEF ProverMeets, Meets
<1>7. Fresh(f, e) /\ Adds(f, e) /\ e.val = LeastOf(hits)
  <2>1. f # "opens" /\ f \in Lists \ {"start"}
    BY <1>6, TagsApart
  <2>2. IsElem(e) /\ e.no = Len(made[f]) + 1 /\ e.intact = TRUE /\ e.val = LeastOf(hits)
    BY <1>4 DEF NewElem, Elem, IsElem
  <2> QED
    BY <1>5, <2>1, <2>2 DEF Fresh, Adds
<1>8. PICK g : g = log'
  OBVIOUS
<1>9. OneEach(g) /\ Prefixed(log, g) /\ (op.n # 0 => Has(g, PointId(p), p) /\ g[PointId(p)].answer = hits)
  <2>1. CASE op.n = 0
    BY <1>1, <1>5, <1>8, <2>1, PrefixedSame
  <2>2. CASE op.n # 0
    BY <1>1, <1>5, <1>8, <2>2, AnswerKept
  <2> QED
    BY <2>1, <2>2
<1>10. Longer(log, made, g, made') /\ Len(made[f]) + 1 \in 1..Len(made'[f]) /\ made'[f][Len(made[f]) + 1] = e
  BY <1>1, <1>5, <1>7, <1>9, LongerProof
<1>11. k[f] = Len(made[f])
  BY <1>1, <1>2, <1>6, TagsApart DEF Making
<1>12. PICK h, x, q : h = State(pos, tr, chal, got) /\ x = State(pos, tr, chal, got)' /\ q = made'
  OBVIOUS
<1>13. h.pos = pos /\ h.tr = tr /\ h.chal = chal /\ h.got = got /\ x = State(pos', tr', chal', got')
  BY <1>12, StateIs DEF State
<1>14. Grinds(g, q, op, k, h, x)
  <2>1. q[op.of][k[op.of] + 1] = e /\ k[op.of] + 1 \in 1..Len(q[op.of])
    BY <1>4, <1>10, <1>11, <1>12
  <2>2. x = State(h.pos + 1, Absorbed(h.tr, <<op.of, e>>), h.chal, h.got)
    BY <1>4, <1>5, <1>13
  <2>3. op.of \in Lists
    BY <1>4, <1>6, TagsApart
  <2>4. IF op.n = 0 THEN e.val = 0 ELSE \E j : Has(g, j, Absorbed(h.tr, <<"pow">>)) /\ e.val \in g[j].answer
    <3>1. e.val \in hits
      BY <1>7, LeastIsOne
    <3>2. CASE op.n = 0
      BY <1>5, <3>1, <3>2
    <3>3. CASE op.n # 0
      BY <1>4, <1>9, <1>13, <3>1, <3>3
    <3> QED
      BY <3>2, <3>3
  <2> QED
    BY <2>1, <2>2, <2>3, <2>4 DEF Grinds
<1>15. op = ProverScripts[cfg][pos]
  BY <1>0, <1>2 DEF Op, Script
<1>16. OneStep(cfg, g, q, op, k, h, x)
  BY <1>3, <1>14 DEF OneStep
<1>17. Trailing(w)'
  BY <1>2, <1>5, <1>8, <1>10, <1>12, <1>15, <1>16, TrailOn
<1> QED
  BY <1>8, <1>9, <1>17

LEMMA TrailDraws ==
  ASSUME cfg \in Configs, NEW w, w = PlanOf(cfg), NEW T, Walked(w, T), OneEach(log), Trailing(w), phase = "prove", DrawChallenge
  PROVE  Trailing(w)' /\ OneEach(log')
<1>1. Listening(T) /\ InOrder /\ IsSeq(log)
  BY Proving DEF Listening, Recalls
<1>2. PICK op, k : op = Op /\ k = w.P[pos]
  OBVIOUS
<1>3. op.act = "draw"
  BY <1>2 DEF DrawChallenge, AtOp, Op
<1>4. PICK p, a, bad : p = Squeeze(tr, op) /\ a = 0 /\ bad = FALSE
  OBVIOUS
<1>5. /\ \/ op.n = 0 /\ tr' = p /\ chal' = chal /\ log' = log
         \/ op.n # 0 /\ Answered(p, a, bad) /\ tr' = After(p) /\ chal' = PointId(p)
      /\ pos' = pos + 1 /\ cfg' = cfg /\ made' = made /\ got' = got
  BY <1>2, <1>4 DEF DrawChallenge, Advance, Squeeze
<1>6. PICK g, q : g = log' /\ q = made'
  OBVIOUS
<1>7. OneEach(g) /\ Prefixed(log, g) /\ (op.n # 0 => Has(g, PointId(p), p))
  <2>1. CASE op.n = 0
    BY <1>1, <1>5, <1>6, <2>1, PrefixedSame
  <2>2. CASE op.n # 0
    BY <1>1, <1>5, <1>6, <2>2, AnswerKept
  <2> QED
    BY <2>1, <2>2
<1>8. Longer(log, made, g, q)
  BY <1>1, <1>5, <1>6, <1>7, LongerLog
<1>9. PICK h, x : h = State(pos, tr, chal, got) /\ x = State(pos, tr, chal, got)'
  OBVIOUS
<1>10. h.pos = pos /\ h.tr = tr /\ h.chal = chal /\ h.got = got /\ x = State(pos', tr', chal', got')
  BY <1>9, StateIs DEF State
<1>11. Draws(g, op, h, x)
  <2>1. CASE op.n = 0
    BY <1>4, <1>5, <1>10, <2>1 DEF Draws
  <2>2. CASE op.n # 0
    <3>1. PICK j : j = PointId(p)
      OBVIOUS
    <3>2. tr' = Restart(j) /\ chal' = j
      BY <1>5, <2>2, <3>1 DEF After, Restart
    <3> QED
      BY <1>4, <1>5, <1>7, <1>10, <2>2, <3>1, <3>2 DEF Draws
  <2> QED
    BY <2>1, <2>2
<1>12. op = ProverScripts[cfg][pos]
  BY <1>2 DEF Op, Script
<1>13. OneStep(cfg, g, q, op, k, h, x)
  BY <1>3, <1>11 DEF OneStep
<1>14. Trailing(w)'
  BY <1>2, <1>5, <1>6, <1>8, <1>9, <1>12, <1>13, TrailOn
<1> QED
  BY <1>6, <1>7, <1>14

LEMMA TrailSamples ==
  ASSUME cfg \in Configs, NEW w, w = PlanOf(cfg), NEW T, Walked(w, T), OneEach(log), Trailing(w), phase = "prove",
         NEW v, SamplePosition(v)
  PROVE  Trailing(w)' /\ OneEach(log')
<1>1. Listening(T) /\ InOrder /\ IsSeq(log)
  BY Proving DEF Listening, Recalls
<1>2. PICK op, k : op = Op /\ k = w.P[pos]
  OBVIOUS
<1>3. op.act = "queries"
  BY <1>2 DEF SamplePosition, AtOp, Op
<1>4. PICK p, s, bad : p = Absorbed(tr, <<"squeeze", FALSE, 1>>) /\ s = got \cup {v} /\ bad = (v \in got)
  OBVIOUS
<1>5. /\ Answered(p, v, bad) /\ tr' = After(p) /\ chal' = chal /\ got' = s
      /\ pos' = (IF Cardinality(s) = cfg.queries[op.n + 1] THEN pos + 1 ELSE pos)
      /\ cfg' = cfg /\ made' = made
  <2>1. Answered(p, v, bad) /\ tr' = After(p) /\ chal' = chal /\ got' = s /\ cfg' = cfg /\ made' = made
    BY <1>4 DEF SamplePosition
  <2>2. IF Cardinality(got') = cfg.queries[op.n + 1] THEN pos' = pos + 1 ELSE pos' = pos
    BY <1>2 DEF SamplePosition, Advance
  <2> QED
    BY <2>1, <2>2
<1>6. PICK g, q : g = log' /\ q = made'
  OBVIOUS
<1>7. OneEach(g) /\ Prefixed(log, g) /\ Has(g, PointId(p), p) /\ g[PointId(p)].answer = v
  BY <1>1, <1>5, <1>6, AnswerKept
<1>8. Longer(log, made, g, q)
  BY <1>1, <1>5, <1>6, <1>7, LongerLog
<1>9. PICK h, x : h = State(pos, tr, chal, got) /\ x = State(pos, tr, chal, got)'
  OBVIOUS
<1>10. h.pos = pos /\ h.tr = tr /\ h.chal = chal /\ h.got = got /\ x = State(pos', tr', chal', got')
  BY <1>9, StateIs DEF State
<1>11. Samples(cfg, g, op, h, x)
  <2>1. PICK j : j = PointId(p)
    OBVIOUS
  <2>2. tr' = Restart(j)
    BY <1>5, <2>1 DEF After, Restart
  <2>3. Has(g, j, Absorbed(h.tr, <<"squeeze", FALSE, 1>>)) /\ s = h.got \cup {g[j].answer}
    BY <1>4, <1>7, <1>10, <2>1
  <2>4. x = State(IF Cardinality(s) = cfg.queries[op.n + 1] THEN h.pos + 1 ELSE h.pos, Restart(j), h.chal, s)
    BY <1>5, <1>10, <2>2
  <2> QED
    BY <2>3, <2>4 DEF Samples
<1>12. op = ProverScripts[cfg][pos]
  BY <1>2 DEF Op, Script
<1>13. OneStep(cfg, g, q, op, k, h, x)
  BY <1>3, <1>11 DEF OneStep
<1>14. Trailing(w)'
  BY <1>2, <1>5, <1>6, <1>8, <1>9, <1>12, <1>13, TrailOn
<1> QED
  BY <1>6, <1>7, <1>14

LEMMA TrailOpens ==
  ASSUME cfg \in Configs, NEW w, w = PlanOf(cfg), NEW T, Walked(w, T), Trailing(w), ProverOpens
  PROVE  Trailing(w)'
<1>0. phase = "prove" /\ AtOp("open")
  BY DEF ProverOpens
<1>1. Making(w, T) /\ Listening(T) /\ InOrder
  BY <1>0, Proving
<1>2. PICK op, f, v : op = Op /\ f = "opens" /\ v = [rows |-> got, salts |-> Salts(op.n)]
  OBVIOUS
<1>3. pos \in 1..(w.m + w.n + 3) /\ op.act = "open" /\ ProverMeets(w, pos, op)
  BY <1>0, <1>2, Proving
<1>4. PICK e, k : e = NewElem(f, v) /\ k = w.P[pos]
  OBVIOUS
<1>5. /\ made' = [made EXCEPT ![f] = Append(@, e)] /\ tr' = tr /\ got' = {}
      /\ pos' = pos + 1 /\ cfg' = cfg /\ chal' = chal /\ log' = log
  BY <1>2, <1>4 DEF ProverOpens, Advance
<1>6. op.n = k["opens"]
  BY <1>3, <1>4 DEF ProverMeets, Meets
<1>7. Len(made[f]) = op.n
  BY <1>1, <1>2, <1>4, <1>6, TagsApart DEF Making
<1>8. Fresh(f, e) /\ Adds(f, e) /\ e.val.rows = got
  <2>1. f \in Lists \ {"start"}
    BY <1>2, TagsApart
  <2>2. IsElem(e) /\ e.no = Len(made[f]) + 1 /\ e.intact = TRUE /\ e.val = v
    BY <1>4 DEF NewElem, Elem, IsElem
  <2>3. e.val = [rows |-> e.val.rows, salts |-> Salts(Len(made["opens"]))] /\ e.val.rows = got
    BY <1>2, <1>7, <2>2
  <2> QED
    BY <1>5, <2>1, <2>2, <2>3 DEF Fresh, Adds
<1>9. Prefixed(log, log)
  BY <1>1, PrefixedSame DEF Listening, Recalls
<1>10. Longer(log, made, log, made') /\ Len(made[f]) + 1 \in 1..Len(made'[f]) /\ made'[f][Len(made[f]) + 1] = e
  BY <1>1, <1>5, <1>8, <1>9, LongerProof
<1>11. PICK h, x, q : h = State(pos, tr, chal, got) /\ x = State(pos, tr, chal, got)' /\ q = made'
  OBVIOUS
<1>12. h.pos = pos /\ h.tr = tr /\ h.chal = chal /\ h.got = got /\ x = State(pos', tr', chal', got')
  BY <1>11, StateIs DEF State
<1>13. OpensRows(q, op, h, x)
  <2>1. op.n + 1 \in 1..Len(q["opens"]) /\ q["opens"][op.n + 1].val.rows = h.got
    BY <1>2, <1>7, <1>8, <1>10, <1>11, <1>12
  <2>2. x = State(h.pos + 1, h.tr, h.chal, {})
    BY <1>5, <1>12
  <2> QED
    BY <2>1, <2>2 DEF OpensRows
<1>14. op = ProverScripts[cfg][pos]
  BY <1>0, <1>2 DEF Op, Script
<1>15. OneStep(cfg, log, q, op, k, h, x)
  BY <1>3, <1>13 DEF OneStep
<1>16. PICK g : g = log'
  OBVIOUS
<1> QED
  BY <1>4, <1>5, <1>10, <1>11, <1>14, <1>15, <1>16, TrailOn

-----------------------------------------------------------------------------
(* Where the prover was when the verifier is at a place: behind by its first check, *)
(* from the folded message on by the second one as well; when the last rows are     *)
(* weighed it was at their opening.                                                 *)
Opposite(w, p) ==
    IF p = 1 THEN 1 ELSE IF p <= w.m + 2 THEN p - 1 ELSE IF p <= w.m + w.n + 5 THEN p - 2 ELSE w.m + w.n + 3
Alike(c, w, p) ==
    /\ Opposite(w, p) \in 1..(w.m + w.n + 2)
    /\ VerifierScripts[c][p] = ProverScripts[c][Opposite(w, p)] /\ w.V[p] = w.P[Opposite(w, p)]
    /\ Opposite(w, p + 1) = Opposite(w, p) + 1

LEMMA PlacesAlike ==
  ASSUME NEW c \in Configs, NEW w, w = PlanOf(c), NEW p \in 1..(w.m + w.n + 4), p # 1, p # w.m + 2
  PROVE  Alike(c, w, p)
<1>1. PICK m \in Nat \ {0}, n \in Nat \ {0} : m = w.m /\ n = w.n /\ m = Span(c) /\ n = YrLen(c)
  <2>1. Sizes(c, w)
    BY Planned DEF Itinerary
  <2>2. w.m = Span(c) /\ w.n = YrLen(c)
    BY DEF PlanOf
  <2> QED
    BY <2>1, <2>2 DEF Sizes
<1>2. PICK j, P, V, A, B : /\ j = Opposite(w, p) /\ P = ProverScripts[c] /\ V = VerifierScripts[c]
                           /\ A = ProverBook(c, m, n) /\ B = VerifierBook(c, m, n)
  OBVIOUS
<1>3. w.P = A /\ w.V = B /\ P = ProverScript(c) /\ V = VerifierScript(c)
  BY <1>1, <1>2 DEF PlanOf, ProverScripts, VerifierScripts
<1>4. m \in Nat /\ n \in Nat
  OBVIOUS
<1>5. /\ \A i \in 1..m : P[i] = Common(c)[i] /\ V[i + 1] = Common(c)[i]
      /\ \A i \in 1..n : P[m + i] = Say("yr") /\ V[m + 2 + i] = Say("yr")
      /\ P[m + n + 1] = LastProof(c) /\ P[m + n + 2] = Queries(Steps(c))
      /\ V[m + n + 3] = LastProof(c) /\ V[m + n + 4] = Queries(Steps(c))
  <2>1. /\ \A i \in 1..m : ProverScript(c)[i] = Common(c)[i]
        /\ \A i \in 1..n : ProverScript(c)[m + i] = Say("yr")
        /\ ProverScript(c)[m + n + 1] = LastProof(c) /\ ProverScript(c)[m + n + 2] = Queries(Steps(c))
    BY <1>1, <1>4, ProverPlaces
  <2>2. /\ \A i \in 1..m : VerifierScript(c)[i + 1] = Common(c)[i]
        /\ \A i \in 1..n : VerifierScript(c)[m + 2 + i] = Say("yr")
        /\ VerifierScript(c)[m + n + 3] = LastProof(c) /\ VerifierScript(c)[m + n + 4] = Queries(Steps(c))
    BY <1>1, <1>4, VerifierPlaces
  <2> QED
    BY <1>3, <2>1, <2>2, Zenon
<1>6. /\ \A i \in 1..(m + 1) : A[i] = Taken(c)[i - 1] /\ B[i + 1] = Taken(c)[i - 1]
      /\ \A y \in 0..n : A[m + 1 + y] = Late(c, y, 0, 0, 0) /\ B[m + 3 + y] = Late(c, y, 0, 0, 0)
      /\ A[m + n + 2] = Late(c, n, 1, 0, 0) /\ B[m + n + 4] = Late(c, n, 1, 0, 0)
  <2>1. /\ \A i \in 1..(m + 1) : ProverBook(c, m, n)[i] = Taken(c)[i - 1]
        /\ \A y \in 0..n : ProverBook(c, m, n)[m + 1 + y] = Late(c, y, 0, 0, 0)
        /\ ProverBook(c, m, n)[m + n + 2] = Late(c, n, 1, 0, 0)
    BY <1>1, <1>4, BookPlaces
  <2>2. /\ \A i \in 1..(m + 1) : VerifierBook(c, m, n)[i + 1] = Taken(c)[i - 1]
        /\ \A y \in 0..n : VerifierBook(c, m, n)[m + 3 + y] = Late(c, y, 0, 0, 0)
        /\ VerifierBook(c, m, n)[m + n + 4] = Late(c, n, 1, 0, 0)
    BY <1>1, <1>4, VerifierBookPlaces
  <2> QED
    BY <1>2, <2>1, <2>2, Zenon
<1>7. /\ p \in 1..(m + n + 4) /\ p # 1 /\ p # m + 2
      /\ \A i : Opposite(w, i) = IF i = 1 THEN 1 ELSE IF i <= m + 2 THEN i - 1
                                ELSE IF i <= m + n + 5 THEN i - 2 ELSE m + n + 3
  BY <1>1 DEF Opposite
<1>8. CASE p <= m + 1
  <2>1. j = p - 1 /\ j \in 1..m /\ p = j + 1 /\ j \in 1..(m + 1)
    BY <1>2, <1>8, <1>7
  <2>2. V[p] = P[j] /\ B[p] = A[j]
    BY <1>5, <1>6, <2>1
  <2>3. Opposite(w, p + 1) = j + 1 /\ j \in 1..(m + n + 2)
    BY <1>7, <2>1
  <2> QED
    BY <1>1, <1>2, <1>3, <2>2, <2>3 DEF Alike
<1>9. CASE p > m + 2
  <2>1. j = p - 2 /\ j \in (m + 1)..(m + n + 2) /\ p = j + 2
    BY <1>2, <1>9, <1>7
  <2>2. V[p] = P[j] /\ B[p] = A[j]
    <3>1. CASE j <= m + n
      <4>1. PICK i \in 1..n : i = j - m
        BY <2>1, <3>1
      <4>2. PICK y \in 0..n : y = j - (m + 1)
        BY <2>1, <3>1
      <4>3. j = m + i /\ p = m + 2 + i /\ j = m + 1 + y /\ p = m + 3 + y
        BY <2>1, <4>1, <4>2
      <4>4. V[p] = P[j]
        BY <1>5, <4>3
      <4>5. B[p] = A[j]
        BY <1>6, <4>3
      <4> QED
        BY <4>4, <4>5
    <3>2. CASE j = m + n + 1
      <4>1. p = m + n + 3 /\ p = m + 3 + n /\ j = m + 1 + n /\ n \in 0..n
        BY <2>1, <3>2
      <4>2. V[p] = P[j]
        BY <1>5, <3>2, <4>1
      <4>3. B[p] = A[j]
        BY <1>6, <4>1
      <4> QED
        BY <4>2, <4>3
    <3>3. CASE j = m + n + 2
      <4>1. p = m + n + 4
        BY <2>1, <3>3
      <4> QED
        BY <1>5, <1>6, <3>3, <4>1
    <3> QED
      BY <2>1, <3>1, <3>2, <3>3
  <2>3. Opposite(w, p + 1) = j + 1 /\ j \in 1..(m + n + 2)
    BY <1>7, <2>1
  <2> QED
    BY <1>1, <1>2, <1>3, <2>2, <2>3 DEF Alike
<1> QED
  BY <1>8, <1>9, <1>7

(* The verifier of a proof as it was made follows the prover's trail, up to the last *)
(* opening: the same transcript, challenge and positions.                            *)
Follows(w, H, i) ==
    /\ H[i].pos = Opposite(w, pos) /\ H[i].got = got
    /\ pos <= w.m + w.n + 4 => H[i].tr = tr /\ H[i].chal = chal
WholeTrail(w, H, n) == Trail(cfg, w, log, made, H, n) /\ H[n].pos = w.m + w.n + 4
Followed(w) == \E H, n : WholeTrail(w, H, n) /\ \E i \in 1..n : Follows(w, H, i)
Following(w) == claim = TRUE /\ quad = TRUE /\ (pos <= w.m + w.n + 6 => Followed(w))

(* The step of the prover that the verifier is to take.                              *)
Ahead(w, h, x) ==
    \E H, n : WholeTrail(w, H, n) /\ \E i \in 1..(n - 1) : Follows(w, H, i) /\ h = H[i] /\ x = H[i + 1]

LEMMA StepAhead ==
  ASSUME cfg \in Configs, NEW w, w = PlanOf(cfg), Followed(w), pos \in 1..(w.m + w.n + 6)
  PROVE  \E h, x : /\ Ahead(w, h, x) /\ StepFrom(cfg, w, log, made, h, x)
                   /\ h.pos = Opposite(w, pos) /\ h.got = got
                   /\ pos <= w.m + w.n + 4 => h.tr = tr /\ h.chal = chal
<1>1. PICK H, n : WholeTrail(w, H, n) /\ \E i \in 1..n : Follows(w, H, i)
  BY DEF Followed
<1>2. PICK i \in 1..n : Follows(w, H, i)
  BY <1>1
<1>3. n \in Nat \ {0} /\ (\A j \in 1..(n - 1) : StepFrom(cfg, w, log, made, H[j], H[j + 1]))
  BY <1>1 DEF WholeTrail, Trail
<1>4. w.m \in Nat /\ w.n \in Nat
  BY Planned DEF Itinerary, Sizes
<1>5. Opposite(w, pos) < w.m + w.n + 4
  BY <1>4 DEF Opposite
<1>6. H[n].pos = w.m + w.n + 4 /\ H[i].pos = Opposite(w, pos)
  BY <1>1, <1>2 DEF WholeTrail, Follows
<1>7. i # n
  BY <1>4, <1>5, <1>6
<1>8. i \in 1..(n - 1)
  BY <1>3, <1>7
<1>9. PICK h, x : h = H[i] /\ x = H[i + 1]
  OBVIOUS
<1>10. Ahead(w, h, x)
  BY <1>1, <1>2, <1>8, <1>9 DEF Ahead
<1>11. StepFrom(cfg, w, log, made, h, x)
  BY <1>3, <1>8, <1>9
<1> QED
  BY <1>2, <1>9, <1>10, <1>11 DEF Follows

LEMMA AheadFollows ==
  ASSUME NEW w, NEW h, NEW x, Ahead(w, h, x), cfg' = cfg, log' = log, made' = made,
         x.tr = tr', x.chal = chal', x.got = got', x.pos = Opposite(w, pos')
  PROVE  Followed(w)'
<1>1. PICK H, n : WholeTrail(w, H, n) /\ \E i \in 1..(n - 1) : Follows(w, H, i) /\ h = H[i] /\ x = H[i + 1]
  BY DEF Ahead
<1>2. PICK i \in 1..(n - 1) : h = H[i] /\ x = H[i + 1]
  BY <1>1
<1>3. n \in Nat \ {0}
  BY <1>1 DEF WholeTrail, Trail
<1>4. PICK j \in 1..n : j = i + 1
  BY <1>3
<1>5. WholeTrail(w, H, n)'
  BY <1>1 DEF WholeTrail
<1>6. Follows(w, H, j)'
  BY <1>2, <1>4 DEF Follows, Opposite
<1> QED
  BY <1>5, <1>6 DEF Followed

(* A step of the verifier that the prover has not, or has done already.             *)
LEMMA FollowStays ==
  ASSUME cfg \in Configs, NEW w, w = PlanOf(cfg), InOrder, Followed(w), cfg' = cfg, made' = made, NEW g, g = log', Prefixed(log, g),
         pos \in {1, w.m + 2, w.m + w.n + 5}, pos' = pos + 1, got' = got,
         pos <= w.m + w.n + 4 => tr' = tr /\ chal' = chal
  PROVE  Followed(w)'
<1>1. PICK H, n : WholeTrail(w, H, n) /\ \E i \in 1..n : Follows(w, H, i)
  BY DEF Followed
<1>2. PICK i \in 1..n : Follows(w, H, i)
  BY <1>1
<1>3. w.m \in Nat \ {0} /\ w.n \in Nat \ {0}
  BY Planned DEF Itinerary, Sizes
<1>4. Opposite(w, pos + 1) = Opposite(w, pos) /\ (pos + 1 <= w.m + w.n + 4 => pos <= w.m + w.n + 4)
  BY <1>3 DEF Opposite
<1>5. Longer(log, made, g, made)
  BY LongerLog
<1>6. Trail(cfg, w, g, made, H, n) /\ H[n].pos = w.m + w.n + 4
  BY <1>1, <1>5, TrailStays DEF WholeTrail
<1>7. WholeTrail(w, H, n)'
  BY <1>6 DEF WholeTrail
<1>8. Follows(w, H, i)'
  <2>1. Opposite(w, pos') = Opposite(w, pos) /\ (pos' <= w.m + w.n + 4 => pos <= w.m + w.n + 4)
    BY <1>4
  <2>2. H[i].pos = Opposite(w, pos') /\ H[i].got = got'
    BY <1>2, <2>1 DEF Follows
  <2>3. pos' <= w.m + w.n + 4 => H[i].tr = tr' /\ H[i].chal = chal'
    BY <1>2, <2>1 DEF Follows
  <2> QED
    BY <2>2, <2>3 DEF Follows, Opposite
<1> QED
  BY <1>7, <1>8 DEF Followed

(* Which operations stand where the sides differ.                                   *)
Shared(w, p) == p \in 1..(w.m + w.n + 4) /\ p # 1 /\ p # w.m + 2

LEMMA PlaceOfAct ==
  ASSUME NEW c \in Configs, NEW w, w = PlanOf(c), NEW p \in 1..(w.m + w.n + 8), NEW op, op = VerifierScripts[c][p]
  PROVE  /\ op.act \in {"say", "grind", "queries"} => Shared(w, p)
         /\ op.act = "draw" => Shared(w, p) \/ p = w.m + w.n + 5 \/ p = w.m + w.n + 7
         /\ op.act = "open" => Shared(w, p) \/ (p = w.m + w.n + 6 /\ op = ProverScripts[c][w.m + w.n + 3])
         /\ op.act = "check" => p = 1 \/ p = w.m + 2 \/ p = w.m + w.n + 8
<1>1. PICK m \in Nat \ {0}, n \in Nat \ {0} : m = w.m /\ n = w.n /\ m = Span(c) /\ n = YrLen(c)
  <2>1. Sizes(c, w)
    BY Planned DEF Itinerary
  <2>2. w.m = Span(c) /\ w.n = YrLen(c)
    BY DEF PlanOf
  <2> QED
    BY <2>1, <2>2 DEF Sizes
<1>2. m \in Nat /\ n \in Nat
  OBVIOUS
<1>3. PICK V : V = VerifierScripts[c] /\ V = VerifierScript(c)
  BY DEF VerifierScripts
<1>4. /\ V[1] = Check("shape") /\ V[m + 2] = Check("counts")
      /\ V[m + n + 5] = Draw("alpha", CeilLog2(c.queries[Steps(c) + 1]))
      /\ V[m + n + 6] = Open(Steps(c)) /\ V[m + n + 7] = Draw("beta", 1)
      /\ V[m + n + 8] = Check("residual")
  <2>1. /\ VerifierScript(c)[1] = Check("shape") /\ VerifierScript(c)[m + 2] = Check("counts")
        /\ VerifierScript(c)[m + n + 5] = Draw("alpha", CeilLog2(c.queries[Steps(c) + 1]))
        /\ VerifierScript(c)[m + n + 6] = Open(Steps(c)) /\ VerifierScript(c)[m + n + 7] = Draw("beta", 1)
        /\ VerifierScript(c)[m + n + 8] = Check("residual")
    BY <1>1, <1>2, VerifierPlaces
  <2> QED
    BY <1>3, <2>1, Zenon
<1>5. /\ V[1].act = "check" /\ V[m + 2].act = "check" /\ V[m + n + 5].act = "draw"
      /\ V[m + n + 6].act = "open" /\ V[m + n + 7].act = "draw" /\ V[m + n + 8].act = "check"
  BY <1>4, OpsApart
<1>6. V[m + n + 6] = ProverScripts[c][m + n + 3]
  <2>1. ProverScripts[c] = ProverScript(c)
    BY DEF ProverScripts
  <2>2. ProverScript(c)[m + n + 3] = Open(Steps(c))
    BY <1>1, <1>2, ProverPlaces
  <2> QED
    BY <1>4, <2>1, <2>2
<1>7. Shared(w, p) \/ p \in {1, m + 2, m + n + 5, m + n + 6, m + n + 7, m + n + 8}
  BY <1>1 DEF Shared
<1>8. ~Shared(w, p) => op.act \in {"check", "draw", "open"}
  BY <1>3, <1>5, <1>7
<1>9. op.act = "draw" => Shared(w, p) \/ p = m + n + 5 \/ p = m + n + 7
  BY <1>3, <1>5, <1>7
<1>10. op.act = "open" => Shared(w, p) \/ (p = m + n + 6 /\ op = ProverScripts[c][m + n + 3])
  BY <1>3, <1>5, <1>6, <1>7
<1>11. op.act = "check" => p = 1 \/ p = m + 2 \/ p = m + n + 8
  <2>1. VerifierMeets(c, w, p, op)
    BY Planned DEF Itinerary
  <2> QED
    BY <1>1, <2>1 DEF VerifierMeets
<1> QED
  BY <1>1, <1>8, <1>9, <1>10, <1>11

LEMMA SharedStep ==
  ASSUME cfg \in Configs, NEW w, w = PlanOf(cfg), Followed(w), Shared(w, pos), NEW op, op = VerifierScripts[cfg][pos]
  PROVE  \E h, x : /\ Ahead(w, h, x) /\ OneStep(cfg, log, made, op, w.V[pos], h, x)
                   /\ h.pos = Opposite(w, pos) /\ Opposite(w, pos + 1) = h.pos + 1
                   /\ h.tr = tr /\ h.chal = chal /\ h.got = got
<1>1. w.m \in Nat /\ w.n \in Nat
  BY Planned DEF Itinerary, Sizes
<1>2. pos \in 1..(w.m + w.n + 6) /\ pos <= w.m + w.n + 4
  BY <1>1 DEF Shared
<1>3. PICK h, x : /\ Ahead(w, h, x) /\ StepFrom(cfg, w, log, made, h, x)
                  /\ h.pos = Opposite(w, pos) /\ h.got = got /\ h.tr = tr /\ h.chal = chal
  BY <1>2, StepAhead
<1>4. PICK p : p = pos
  OBVIOUS
<1>5. Alike(cfg, w, p)
  BY <1>4, PlacesAlike DEF Shared
<1>6. OneStep(cfg, log, made, op, w.V[pos], h, x)
  BY <1>3, <1>4, <1>5 DEF Alike, StepFrom
<1>7. Opposite(w, pos + 1) = h.pos + 1
  BY <1>3, <1>4, <1>5 DEF Alike
<1> QED
  BY <1>3, <1>6, <1>7

LEMMA ActIsOne ==
  ASSUME NEW c, NEW g, NEW q, NEW op, NEW k, NEW h, NEW x, OneStep(c, g, q, op, k, h, x)
  PROVE  /\ op.act = "say" => Says(q, op, k, h, x)
         /\ op.act = "grind" => Grinds(g, q, op, k, h, x)
         /\ op.act = "draw" => Draws(g, op, h, x)
         /\ op.act = "queries" => Samples(c, g, op, h, x)
         /\ op.act = "open" => OpensRows(q, op, h, x)
BY DEF OneStep

(* What of the invariant the verifier's steps need.                                 *)
LEMMA Ready ==
  ASSUME cfg \in Configs, NEW w, w = PlanOf(cfg), NEW T, Walked(w, T), phase = "verify", sent = made, Following(w)
  PROVE  /\ Sizes(cfg, w) /\ Complete(w, T) /\ Reading(w, T) /\ InOrder /\ IsSeq(log)
         /\ Script = VerifierScripts[cfg] /\ pos \in 1..(w.m + w.n + 8)
         /\ claim = TRUE /\ quad = TRUE /\ (Shared(w, pos) => Followed(w))
         /\ \A f \in Told : idx[f] = w.V[pos][f]
         /\ \A f \in Lists : \A i \in 1..Len(sent[f]) : sent[f][i].intact = TRUE /\ sent[f][i].no = i
<1>1. Sizes(cfg, w) /\ Complete(w, T) /\ Reading(w, T) /\ InOrder /\ IsSeq(log)
  BY Verifying DEF Listening, Recalls
<1>2. Script = VerifierScripts[cfg]
  BY DEF Script
<1>3. pos \in 1..(w.m + w.n + 8) /\ \A f \in Told : idx[f] = w.V[pos][f]
  BY <1>1 DEF Reading
<1>4. \A f \in Lists : \A i \in 1..Len(sent[f]) : sent[f][i].intact = TRUE /\ sent[f][i].no = i
  BY <1>1 DEF InOrder
<1>5. w.m \in Nat /\ w.n \in Nat
  BY <1>1 DEF Sizes
<1>6. Shared(w, pos) => Followed(w)
  BY <1>5 DEF Shared, Following
<1> QED
  BY <1>1, <1>2, <1>3, <1>4, <1>6 DEF Following

LEMMA FollowingSays ==
  ASSUME cfg \in Configs, NEW w, w = PlanOf(cfg), NEW T, Walked(w, T), sent = made, Following(w), VerifierSays
  PROVE  phase' = "verify" /\ Following(w)'
<1>1. phase = "verify" /\ AtOp("say")
  BY DEF VerifierSays
<1>2. PICK op, f, k : op = Op /\ f = Op.of /\ k = w.V[pos]
  OBVIOUS
<1>3. op = VerifierScripts[cfg][pos] /\ op.act = "say" /\ pos \in 1..(w.m + w.n + 8)
  BY <1>1, <1>2, Ready DEF Op, AtOp
<1>4. Shared(w, pos) /\ Followed(w)
  BY <1>1, <1>3, PlaceOfAct, Ready
<1>5. PICK h, x : /\ Ahead(w, h, x) /\ OneStep(cfg, log, made, op, k, h, x)
                  /\ h.pos = Opposite(w, pos) /\ Opposite(w, pos + 1) = h.pos + 1
                  /\ h.tr = tr /\ h.chal = chal /\ h.got = got
  BY <1>2, <1>3, <1>4, SharedStep
<1>6. Says(made, op, k, h, x)
  BY <1>3, <1>5, ActIsOne
<1>7. f \in Told
  <2>1. VerifierMeets(cfg, w, pos, op)
    BY <1>1, <1>2, Verifying
  <2> QED
    BY <1>2, <1>3, <2>1, TagsApart DEF VerifierMeets, Meets
<1>8. PICK i, e : i = NextIdx(f) /\ e = sent[f][i]
  OBVIOUS
<1>9. i = k[f] + 1 /\ f \in Lists
  <2>1. f \in Lists
    BY <1>7, TagsApart
  <2>2. idx[f] = w.V[pos][f]
    BY <1>1, <1>7, Ready
  <2> QED
    BY <1>2, <1>8, <2>1, <2>2 DEF NextIdx
<1>10. i \in 1..Len(sent[f]) /\ e.at = chal /\ x = State(h.pos + 1, Absorbed(h.tr, <<f, e>>), h.chal, h.got)
  <2>1. op.of = f
    BY <1>2
  <2>2. k[op.of] + 1 = i /\ made[op.of] = sent[f]
    BY <1>9, <2>1
  <2>3. made[op.of][k[op.of] + 1] = e
    BY <1>8, <2>2
  <2> QED
    BY <1>5, <1>6, <1>8, <2>1, <2>2, <2>3 DEF Says
<1>11. ~Missing(f)
  <2>1. IsSeq(sent[f])
    BY <1>1, <1>9, Ready DEF InOrder
  <2>2. Len(sent[f]) \in Nat
    BY <2>1, AnyLength
  <2> QED
    BY <1>8, <1>10, <2>2 DEF Missing
<1>12. Right(e, i)
  <2>1. sent[f][i].intact = TRUE /\ sent[f][i].no = i
    BY <1>1, <1>9, <1>10, Ready
  <2> QED
    BY <1>8, <1>10, <2>1 DEF Right
<1>13. /\ tr' = Absorbed(tr, <<f, e>>) /\ pos' = pos + 1 /\ cfg' = cfg /\ phase' = phase /\ chal' = chal
       /\ got' = got /\ log' = log /\ made' = made
       /\ quad' = (quad /\ (f \in {"tx", "ood"} => Right(e, i)))
       /\ claim' = (claim /\ (f \in {"ood", "yr"} => Right(e, i)))
  BY <1>2, <1>8, <1>11 DEF VerifierSays, Advance
<1>14. claim' = TRUE /\ quad' = TRUE
  BY <1>12, <1>13 DEF Following
<1>15. x.tr = tr' /\ x.chal = chal' /\ x.got = got' /\ x.pos = Opposite(w, pos')
  <2>1. x.pos = h.pos + 1 /\ x.tr = Absorbed(h.tr, <<f, e>>) /\ x.chal = h.chal /\ x.got = h.got
    BY <1>10, StateIs
  <2> QED
    BY <1>5, <1>13, <2>1
<1>16. Followed(w)'
  BY <1>5, <1>13, <1>15, AheadFollows
<1> QED
  BY <1>1, <1>13, <1>14, <1>16 DEF Following

LEMMA FollowingPows ==
  ASSUME cfg \in Configs, NEW w, w = PlanOf(cfg), NEW T, Walked(w, T), OneEach(log), sent = made, Following(w),
         NEW hits, VerifyPow(hits)
  PROVE  phase' = "verify" /\ log' = log /\ Following(w)'
<1>1. phase = "verify" /\ AtOp("grind")
  BY DEF VerifyPow
<1>2. PICK op, f, k : op = Op /\ f = Op.of /\ k = w.V[pos]
  OBVIOUS
<1>3. op = VerifierScripts[cfg][pos] /\ op.act = "grind" /\ pos \in 1..(w.m + w.n + 8)
  BY <1>1, <1>2, Ready DEF Op, AtOp
<1>4. Shared(w, pos) /\ Followed(w)
  BY <1>1, <1>3, PlaceOfAct, Ready
<1>5. PICK h, x : /\ Ahead(w, h, x) /\ OneStep(cfg, log, made, op, k, h, x)
                  /\ h.pos = Opposite(w, pos) /\ Opposite(w, pos + 1) = h.pos + 1
                  /\ h.tr = tr /\ h.chal = chal /\ h.got = got
  BY <1>2, <1>3, <1>4, SharedStep
<1>6. Grinds(log, made, op, k, h, x)
  BY <1>3, <1>5, ActIsOne
<1>7. f \in Told
  <2>1. VerifierMeets(cfg, w, pos, op)
    BY <1>1, <1>2, Verifying
  <2> QED
    BY <1>2, <1>3, <2>1, TagsApart DEF VerifierMeets, Meets
<1>8. PICK i, e, p, bad : i = NextIdx(f) /\ e = sent[f][i] /\ p = Absorbed(tr, <<"pow">>) /\ bad = (0 \notin hits)
  OBVIOUS
<1>9. i = k[f] + 1 /\ f \in Lists
  <2>1. f \in Lists
    BY <1>7, TagsApart
  <2>2. idx[f] = w.V[pos][f]
    BY <1>1, <1>7, Ready
  <2> QED
    BY <1>2, <1>8, <2>1, <2>2 DEF NextIdx
<1>10. /\ i \in 1..Len(sent[f]) /\ x = State(h.pos + 1, Absorbed(h.tr, <<f, e>>), h.chal, h.got)
       /\ IF op.n = 0 THEN e.val = 0 ELSE \E j : Has(log, j, p) /\ e.val \in log[j].answer
  <2>1. op.of = f
    BY <1>2
  <2>2. k[op.of] + 1 = i /\ made[op.of] = sent[f]
    BY <1>9, <2>1
  <2>3. made[op.of][k[op.of] + 1] = e
    BY <1>8, <2>2
  <2> QED
    BY <1>5, <1>6, <1>8, <2>1, <2>2, <2>3 DEF Grinds
<1>11. ~Missing(f)
  <2>1. IsSeq(sent[f])
    BY <1>1, <1>9, Ready DEF InOrder
  <2>2. Len(sent[f]) \in Nat
    BY <2>1, AnyLength
  <2> QED
    BY <1>8, <1>10, <2>2 DEF Missing
<1>12. /\ IF op.n = 0 THEN hits = {0} /\ log' = log ELSE Answered(p, hits, bad)
       /\ tr' = Absorbed(tr, <<f, e>>) /\ cfg' = cfg /\ chal' = chal
       /\ got' = got /\ made' = made /\ claim' = claim /\ quad' = quad
       /\ e.val \in hits => pos' = pos + 1 /\ phase' = phase
  BY <1>2, <1>8, <1>11 DEF VerifyPow, Advance
<1>13. e.val \in hits /\ log' = log
  <2>1. CASE op.n = 0
    BY <1>10, <1>12, <2>1
  <2>2. CASE op.n # 0
    <3>1. PICK j : Has(log, j, p) /\ e.val \in log[j].answer
      BY <1>10, <2>2
    <3>2. Answered(p, hits, bad)
      BY <1>12, <2>2
    <3>3. hits = log[j].answer /\ log' = log
      <4>1. IsSeq(log)
        BY <1>1, Ready
      <4> QED
        BY <3>1, <3>2, <4>1, HasAnswer
    <3> QED
      BY <3>1, <3>3
  <2> QED
    BY <2>1, <2>2
<1>14. pos' = pos + 1 /\ phase' = phase
  BY <1>12, <1>13
<1>15. x.tr = tr' /\ x.chal = chal' /\ x.got = got' /\ x.pos = Opposite(w, pos')
  <2>1. x.pos = h.pos + 1 /\ x.tr = Absorbed(h.tr, <<f, e>>) /\ x.chal = h.chal /\ x.got = h.got
    BY <1>10, StateIs
  <2> QED
    BY <1>5, <1>12, <1>14, <2>1
<1>16. Followed(w)'
  BY <1>5, <1>12, <1>13, <1>15, AheadFollows
<1> QED
  BY <1>1, <1>12, <1>13, <1>14, <1>16 DEF Following

LEMMA FollowingDraws ==
  ASSUME cfg \in Configs, NEW w, w = PlanOf(cfg), NEW T, Walked(w, T), OneEach(log), phase = "verify", sent = made, Following(w),
         DrawChallenge
  PROVE  Following(w)' /\ OneEach(log')
<1>1. PICK op, k : op = Op /\ k = w.V[pos]
  OBVIOUS
<1>2. op = VerifierScripts[cfg][pos] /\ op.act = "draw" /\ pos \in 1..(w.m + w.n + 8)
  <2>1. AtOp("draw")
    BY DEF DrawChallenge
  <2> QED
    BY <1>1, <2>1, Ready DEF Op, AtOp
<1>3. PICK p, a, bad : p = Squeeze(tr, op) /\ a = 0 /\ bad = FALSE
  OBVIOUS
<1>4. /\ \/ op.n = 0 /\ tr' = p /\ chal' = chal /\ log' = log
         \/ op.n # 0 /\ Answered(p, a, bad) /\ tr' = After(p) /\ chal' = PointId(p)
      /\ pos' = pos + 1 /\ cfg' = cfg /\ made' = made /\ got' = got
  BY <1>1, <1>3 DEF DrawChallenge, Advance, Squeeze
<1>5. claim' = TRUE /\ quad' = TRUE
  <2>1. (claim' = quad \/ claim' = claim) /\ quad' = quad
    BY DEF DrawChallenge
  <2> QED
    BY <2>1 DEF Following
<1>6. IsSeq(log) /\ InOrder /\ w.m \in Nat /\ w.n \in Nat
  <2>1. Sizes(cfg, w) /\ IsSeq(log) /\ InOrder
    BY Ready
  <2> QED
    BY <2>1 DEF Sizes
<1>7. PICK g : g = log'
  OBVIOUS
<1>8. OneEach(g) /\ Prefixed(log, g)
  <2>1. CASE op.n = 0
    BY <1>4, <1>6, <1>7, <2>1, PrefixedSame
  <2>2. CASE op.n # 0
    BY <1>4, <1>6, <1>7, <2>2, AnswerKept
  <2> QED
    BY <2>1, <2>2
<1>9. CASE Shared(w, pos)
  <2>1. PICK h, x : /\ Ahead(w, h, x) /\ OneStep(cfg, log, made, op, k, h, x)
                    /\ h.pos = Opposite(w, pos) /\ Opposite(w, pos + 1) = h.pos + 1
                    /\ h.tr = tr /\ h.chal = chal /\ h.got = got
    BY <1>1, <1>2, <1>9, SharedStep, Ready
  <2>2. Draws(log, op, h, x)
    BY <1>2, <2>1, ActIsOne
  <2>3. log' = log /\ x = State(h.pos + 1, tr', chal', h.got)
    <3>1. CASE op.n = 0
      BY <1>3, <1>4, <2>1, <2>2, <3>1 DEF Draws
    <3>2. CASE op.n # 0
      <4>1. PICK j : Has(log, j, p) /\ x = State(h.pos + 1, Restart(j), j, h.got)
        BY <1>3, <2>1, <2>2, <3>2 DEF Draws
      <4>2. Answered(p, a, bad) /\ tr' = After(p) /\ chal' = PointId(p)
        BY <1>4, <3>2
      <4>3. log' = log /\ PointId(p) = j
        BY <1>6, <4>1, <4>2, HasAnswer
      <4> QED
        BY <4>1, <4>2, <4>3 DEF After, Restart
    <3> QED
      BY <3>1, <3>2
  <2>4. x.pos = h.pos + 1 /\ x.tr = tr' /\ x.chal = chal' /\ x.got = h.got
    BY <2>3, StateIs
  <2>5. x.got = got' /\ x.pos = Opposite(w, pos')
    BY <1>4, <2>1, <2>4
  <2>6. Followed(w)'
    BY <1>4, <2>1, <2>3, <2>4, <2>5, AheadFollows
  <2> QED
    BY <1>5, <1>7, <1>8, <2>6 DEF Following
<1>10. CASE pos = w.m + w.n + 5
  <2>1. Followed(w)
    BY <1>6, <1>10 DEF Following
  <2>2. ~(pos <= w.m + w.n + 4)
    BY <1>6, <1>10
  <2>3. Followed(w)'
    BY <1>4, <1>6, <1>7, <1>8, <1>10, <2>1, <2>2, FollowStays
  <2> QED
    BY <1>5, <1>7, <1>8, <2>3 DEF Following
<1>11. CASE pos = w.m + w.n + 7
  <2>1. ~(pos' <= w.m + w.n + 6)
    BY <1>4, <1>6, <1>11
  <2> QED
    BY <1>5, <1>7, <1>8, <2>1 DEF Following
<1> QED
  BY <1>2, <1>9, <1>10, <1>11, PlaceOfAct

LEMMA FollowingSamples ==
  ASSUME cfg \in Configs, NEW w, w = PlanOf(cfg), NEW T, Walked(w, T), OneEach(log), phase = "verify", sent = made, Following(w),
         NEW v, SamplePosition(v)
  PROVE  Following(w)' /\ log' = log
<1>1. PICK op, k : op = Op /\ k = w.V[pos]
  OBVIOUS
<1>2. op = VerifierScripts[cfg][pos] /\ op.act = "queries" /\ pos \in 1..(w.m + w.n + 8)
  <2>1. AtOp("queries")
    BY DEF SamplePosition
  <2> QED
    BY <1>1, <2>1, Ready DEF Op, AtOp
<1>3. Shared(w, pos) /\ Followed(w) /\ IsSeq(log)
  BY <1>2, PlaceOfAct, Ready
<1>4. PICK p, bad : p = Absorbed(tr, <<"squeeze", FALSE, 1>>) /\ bad = (v \in got)
  OBVIOUS
<1>5. /\ Answered(p, v, bad) /\ tr' = After(p) /\ chal' = chal /\ got' = got \cup {v}
      /\ cfg' = cfg /\ made' = made /\ claim' = claim /\ quad' = quad
      /\ pos' = IF Cardinality(got') = cfg.queries[op.n + 1] THEN pos + 1 ELSE pos
  <2>1. /\ Answered(p, v, bad) /\ tr' = After(p) /\ chal' = chal /\ got' = got \cup {v}
        /\ cfg' = cfg /\ made' = made /\ claim' = claim /\ quad' = quad
    BY <1>4 DEF SamplePosition, checkVars
  <2>2. IF Cardinality(got') = cfg.queries[op.n + 1] THEN pos' = pos + 1 ELSE pos' = pos
    BY <1>1 DEF SamplePosition, Advance
  <2> QED
    BY <2>1, <2>2
<1>6. PICK h, x : /\ Ahead(w, h, x) /\ OneStep(cfg, log, made, op, k, h, x)
                  /\ h.pos = Opposite(w, pos) /\ Opposite(w, pos + 1) = h.pos + 1
                  /\ h.tr = tr /\ h.chal = chal /\ h.got = got
  BY <1>1, <1>2, <1>3, SharedStep
<1>7. Samples(cfg, log, op, h, x)
  BY <1>2, <1>6, ActIsOne
<1>8. PICK j, s : /\ Has(log, j, p) /\ s = got \cup {log[j].answer}
                  /\ x = State(IF Cardinality(s) = cfg.queries[op.n + 1] THEN h.pos + 1 ELSE h.pos, Restart(j), chal, s)
  BY <1>4, <1>6, <1>7 DEF Samples
<1>9. v = log[j].answer /\ log' = log /\ PointId(p) = j
  BY <1>3, <1>5, <1>8, HasAnswer
<1>10. s = got' /\ tr' = Restart(j)
  BY <1>5, <1>8, <1>9 DEF After, Restart
<1>11. /\ x.pos = IF Cardinality(s) = cfg.queries[op.n + 1] THEN h.pos + 1 ELSE h.pos
       /\ x.tr = Restart(j) /\ x.chal = chal /\ x.got = s
  BY <1>8, StateIs
<1>12. x.pos = Opposite(w, pos')
  BY <1>5, <1>6, <1>10, <1>11
<1>13. x.tr = tr' /\ x.chal = chal' /\ x.got = got'
  BY <1>5, <1>10, <1>11
<1>14. Followed(w)'
  BY <1>5, <1>6, <1>9, <1>12, <1>13, AheadFollows
<1> QED
  BY <1>5, <1>9, <1>14 DEF Following

(* What there is of each list when the proof is made.                               *)
LEMMA MadeLengths ==
  ASSUME cfg \in Configs, NEW w, Sizes(cfg, w), NEW T, Complete(w, T)
  PROVE  /\ Steps(cfg) \in Nat \ {0} /\ Len(made["roots"]) = Steps(cfg) /\ Len(made["opens"]) = Steps(cfg) + 1
         /\ Len(made["yr"]) = YrLen(cfg)
         /\ \A f \in {"tx", "ood", "fold_nonces"} : Len(made[f]) = w.V[w.m + 2][f]
<1>1. PICK k, e, r : k = w.V[w.d + 1] /\ e = w.V[w.m + 2] /\ r = w.P[w.m + w.n + 4]
  OBVIOUS
<1>2. Ending(cfg, w, k, e, r) /\ w.n = YrLen(cfg) /\ Steps(cfg) \in Nat \ {0}
  BY <1>1 DEF Sizes
<1>3. \A f \in Lists \ {"start"} : Len(made[f]) = r[f]
  BY <1>1 DEF Complete
<1>4. \A f \in {"ood", "roots", "fold_nonces", "tx"} : r[f] = e[f]
  BY <1>2 DEF Ending
<1>5. r["yr"] = w.n /\ e["roots"] = Steps(cfg) /\ r["opens"] = Steps(cfg) + 1
  BY <1>2 DEF Ending
<1>6. /\ Len(made["roots"]) = r["roots"] /\ Len(made["opens"]) = r["opens"] /\ Len(made["yr"]) = r["yr"]
      /\ \A f \in {"tx", "ood", "fold_nonces"} : Len(made[f]) = r[f]
  BY <1>3, TagsApart
<1> QED
  BY <1>1, <1>2, <1>4, <1>5, <1>6

LEMMA FollowingOpens ==
  ASSUME cfg \in Configs, NEW w, w = PlanOf(cfg), NEW T, Walked(w, T), sent = made, Following(w), VerifierOpens
  PROVE  phase' = "verify" /\ log' = log /\ Following(w)'
<1>1. phase = "verify" /\ AtOp("open")
  BY DEF VerifierOpens
<1>2. PICK op, k, l : op = Op /\ k = w.V[pos] /\ l = op.n
  OBVIOUS
<1>3. op = VerifierScripts[cfg][pos] /\ op.act = "open" /\ pos \in 1..(w.m + w.n + 8)
  BY <1>1, <1>2, Ready DEF Op, AtOp
<1>4. w.m \in Nat /\ w.n \in Nat /\ Sizes(cfg, w) /\ Complete(w, T) /\ InOrder
  <2>1. Sizes(cfg, w) /\ Complete(w, T) /\ InOrder
    BY <1>1, Ready
  <2> QED
    BY <2>1 DEF Sizes
<1>5. Shared(w, pos) \/ (pos = w.m + w.n + 6 /\ op = ProverScripts[cfg][w.m + w.n + 3])
  BY <1>3, PlaceOfAct
<1>6. pos \in 1..(w.m + w.n + 6) /\ Followed(w)
  BY <1>1, <1>4, <1>5 DEF Shared, Following
<1>7. \E h, x : OpensRows(made, op, h, x) /\ h.got = got
  <2>1. CASE Shared(w, pos)
    <3>1. PICK h, x : OneStep(cfg, log, made, op, k, h, x) /\ h.got = got
      BY <1>2, <1>3, <1>6, <2>1, SharedStep
    <3> QED
      BY <1>3, <3>1, ActIsOne
  <2>2. CASE pos = w.m + w.n + 6 /\ op = ProverScripts[cfg][w.m + w.n + 3]
    <3>1. PICK h, x : StepFrom(cfg, w, log, made, h, x) /\ h.pos = Opposite(w, pos) /\ h.got = got
      BY <1>6, StepAhead
    <3>2. h.pos = w.m + w.n + 3
      BY <1>4, <2>2, <3>1 DEF Opposite
    <3>3. OneStep(cfg, log, made, op, w.P[h.pos], h, x)
      BY <2>2, <3>1, <3>2 DEF StepFrom
    <3> QED
      BY <1>3, <3>1, <3>3, ActIsOne
  <2> QED
    BY <1>5, <2>1, <2>2
<1>8. PICK i : i = l + 1
  OBVIOUS
<1>9. i \in 1..Len(sent["opens"]) /\ sent["opens"][i].val.rows = got
  BY <1>2, <1>7, <1>8 DEF OpensRows
<1>10. l \in Nat /\ l = i - 1 /\ l \in 0..Steps(cfg) /\ Steps(cfg) \in Nat
  <2>1. Len(sent["opens"]) = Steps(cfg) + 1 /\ Steps(cfg) \in Nat
    BY <1>4, MadeLengths
  <2>2. l \in Nat
    <3>1. VerifierMeets(cfg, w, pos, op)
      BY <1>1, <1>2, Verifying
    <3>2. l = k["opens"] /\ k \in Counts
      BY <1>2, <1>3, <3>1 DEF VerifierMeets, Meets
    <3> QED
      BY <3>2 DEF Counts, Counted
  <2> QED
    BY <1>8, <1>9, <2>1, <2>2
<1>11. /\ \A f \in Lists : \A j \in 1..Len(sent[f]) : sent[f][j].intact = TRUE /\ sent[f][j].no = j
  BY <1>1, Ready
<1>12. "opens" \in Lists /\ "roots" \in Lists /\ "start" \in Lists
  BY TagsApart
<1>13. /\ sent["opens"][i].intact = TRUE /\ sent["opens"][i].no = i
       /\ sent["opens"][i].val.salts = Salts(l)
  <2>1. sent["opens"][i].val = [rows |-> sent["opens"][i].val.rows, salts |-> Salts(i - 1)]
    BY <1>4, <1>9 DEF InOrder
  <2>2. Salts(i - 1) = Salts(l)
    BY <1>10
  <2>3. sent["opens"][i].val.salts = Salts(l)
    BY <2>1, <2>2
  <2> QED
    BY <1>9, <1>11, <1>12, <2>3
<1>14. ASSUME NEW root, root = IF l = 0 THEN sent["start"][2] ELSE sent["roots"][l]
       PROVE  root.intact = TRUE /\ root.no = IF l = 0 THEN 2 ELSE l
  <2>1. CASE l = 0
    <3>1. Len(sent["start"]) = 2
      BY <1>4 DEF InOrder
    <3>2. 2 \in 1..Len(sent["start"])
      BY <3>1
    <3> QED
      BY <1>11, <1>12, <1>14, <2>1, <3>2
  <2>2. CASE l # 0
    <3>1. Len(sent["roots"]) = Steps(cfg)
      BY <1>4, MadeLengths
    <3>2. l \in 1..Len(sent["roots"])
      <4>1. l \in Nat /\ l \in 0..Steps(cfg) /\ Steps(cfg) \in Nat
        BY <1>10
      <4>2. l \in 1..Steps(cfg)
        BY <2>2, <4>1
      <4> QED
        BY <3>1, <4>2
    <3> QED
      BY <1>11, <1>12, <1>14, <2>2, <3>2
  <2> QED
    BY <2>1, <2>2
<1>15. OpensTo(l)
  BY <1>8, <1>9, <1>13, <1>14 DEF OpensTo
<1>16. /\ got' = {} /\ pos' = pos + 1 /\ cfg' = cfg /\ phase' = phase /\ tr' = tr /\ chal' = chal
       /\ log' = log /\ made' = made /\ claim' = claim /\ quad' = quad
  BY <1>2, <1>15 DEF VerifierOpens, Advance
<1>17. CASE Shared(w, pos)
  <2>1. PICK h, x : /\ Ahead(w, h, x) /\ OneStep(cfg, log, made, op, k, h, x)
                    /\ h.pos = Opposite(w, pos) /\ Opposite(w, pos + 1) = h.pos + 1
                    /\ h.tr = tr /\ h.chal = chal /\ h.got = got
    BY <1>2, <1>3, <1>6, <1>17, SharedStep
  <2>2. OpensRows(made, op, h, x)
    BY <1>3, <2>1, ActIsOne
  <2>3. x = State(h.pos + 1, h.tr, h.chal, {})
    BY <2>2 DEF OpensRows
  <2>4. x.pos = h.pos + 1 /\ x.tr = h.tr /\ x.chal = h.chal /\ x.got = {}
    BY <2>3, StateIs
  <2>5. x.pos = Opposite(w, pos') /\ x.tr = tr' /\ x.chal = chal' /\ x.got = got'
    BY <1>16, <2>1, <2>4
  <2>6. Followed(w)'
    BY <1>16, <2>1, <2>5, AheadFollows
  <2> QED
    BY <1>1, <1>16, <2>6 DEF Following
<1>18. CASE pos = w.m + w.n + 6
  <2>1. ~(pos' <= w.m + w.n + 6)
    BY <1>4, <1>16, <1>18
  <2> QED
    BY <1>1, <1>16, <2>1 DEF Following
<1> QED
  BY <1>5, <1>17, <1>18

LEMMA FollowingChecks ==
  ASSUME cfg \in Configs, NEW w, w = PlanOf(cfg), NEW T, Walked(w, T), phase = "verify", sent = made, Following(w),
         CheckShape
  PROVE  phase' = "verify" /\ log' = log /\ Following(w)'
<1>1. PICK op, k : op = Op /\ k = w.V[pos]
  OBVIOUS
<1>2. op.act = "check" /\ op.of \in {"shape", "counts"} /\ pos \in 1..(w.m + w.n + 8) /\ VerifierMeets(cfg, w, pos, op)
  <2>1. AtOp("check") /\ Op.of \in {"shape", "counts"}
    BY DEF CheckShape
  <2> QED
    BY <1>1, <2>1, Verifying
<1>3. Sizes(cfg, w) /\ Complete(w, T) /\ InOrder /\ IsSeq(log)
  BY Ready
<1>4. w.m \in Nat \ {0} /\ w.n \in Nat \ {0} /\ w.n = YrLen(cfg)
  BY <1>3 DEF Sizes
<1>5. (op.of = "shape" /\ pos = 1) \/ (op.of = "counts" /\ pos = w.m + 2)
  <2>1. Check("shape").of = "shape" /\ Check("counts").of = "counts" /\ Check("residual").of = "residual"
    BY DEF Check
  <2>2. op = Check("shape") \/ op = Check("counts") \/ op = Check("residual")
    BY <1>2 DEF VerifierMeets
  <2>3. (op = Check("shape") <=> pos = 1) /\ (op = Check("counts") <=> pos = w.m + 2)
    BY <1>2 DEF VerifierMeets
  <2> QED
    BY <1>2, <2>1, <2>2, <2>3
<1>6. "start" \in Lists /\ "opens" \in Lists /\ Len(made["start"]) = 2
  BY <1>3, TagsApart DEF InOrder
<1>7. sent["start"][1].intact = TRUE /\ sent["start"][2].intact = TRUE
  <2>1. \A f \in Lists : \A i \in 1..Len(sent[f]) : sent[f][i].intact = TRUE
    BY Ready
  <2>2. 1 \in 1..Len(sent["start"]) /\ 2 \in 1..Len(sent["start"])
    BY <1>6
  <2> QED
    BY <1>6, <2>1, <2>2
<1>8. /\ Steps(cfg) \in Nat \ {0} /\ Len(made["roots"]) = Steps(cfg) /\ Len(made["opens"]) = Steps(cfg) + 1
      /\ Len(made["yr"]) = YrLen(cfg)
      /\ \A f \in {"tx", "ood", "fold_nonces"} : Len(made[f]) = w.V[w.m + 2][f]
  BY <1>3, MadeLengths
<1>9. ShapeIsRight
  <2>1. ASSUME NEW j \in 2..Steps(cfg)
        PROVE  sent["opens"][j].val.salts = 0
    <3>1. j \in 1..Len(made["opens"]) /\ j - 1 # 0
      BY <1>8
    <3>2. made["opens"][j].val = [rows |-> made["opens"][j].val.rows, salts |-> Salts(j - 1)]
      BY <1>3, <3>1 DEF InOrder
    <3>3. Salts(j - 1) = 0
      BY <3>1 DEF Salts
    <3> QED
      BY <3>2, <3>3
  <2> QED
    BY <1>7, <1>8, <2>1 DEF ShapeIsRight
<1>10. op.of = "counts" => CountsAreRight
  <2>1. ASSUME op.of = "counts"
        PROVE  CountsAreRight
    <3>1. \A f \in Told : idx[f] = w.V[pos][f]
      BY Ready
    <3>2. \A f \in {"tx", "ood", "fold_nonces"} : idx[f] = w.V[w.m + 2][f]
      BY <1>5, <2>1, <3>1, TagsApart
    <3>3. \A f \in {"tx", "ood", "fold_nonces"} : idx[f] = Len(sent[f])
      BY <1>8, <3>2
    <3> QED
      BY <1>8, <3>3 DEF CountsAreRight
  <2> QED
    BY <2>1
<1>11. /\ pos' = pos + 1 /\ claim' = (claim /\ sent["start"][1].intact) /\ quad' = (quad /\ sent["start"][1].intact)
       /\ cfg' = cfg /\ phase' = phase /\ tr' = tr /\ chal' = chal /\ got' = got /\ log' = log /\ made' = made
  <2>1. IF Op.of = "shape" THEN ShapeIsRight ELSE CountsAreRight
    BY <1>1, <1>5, <1>9, <1>10
  <2> QED
    BY <2>1 DEF CheckShape, Advance
<1>12. claim' = TRUE /\ quad' = TRUE
  BY <1>7, <1>11 DEF Following
<1>13. Followed(w)
  <2>1. pos <= w.m + w.n + 6
    BY <1>4, <1>5
  <2> QED
    BY <2>1 DEF Following
<1>14. PICK g : g = log' /\ Prefixed(log, g)
  BY <1>3, <1>11, PrefixedSame
<1>15. pos \in {1, w.m + 2, w.m + w.n + 5}
  BY <1>5
<1>16. Followed(w)'
  BY <1>3, <1>11, <1>13, <1>14, <1>15, FollowStays
<1> QED
  BY <1>11, <1>12, <1>16 DEF Following

LEMMA FollowingDecides ==
  ASSUME NEW w, phase = "verify", Following(w), Residual
  PROVE  phase' = "accept"
<1>1. claim = TRUE
  BY DEF Following
<1> QED
  BY <1>1 DEF Residual

(* The proof arrives as it was made, and the verifier begins where the prover did.   *)
LEMMA FollowingStarts ==
  ASSUME cfg \in Configs, NEW w, w = PlanOf(cfg), NEW T, Walked(w, T), OneEach(log), Trailing(w), Deliver, sent' = made'
  PROVE  OneEach(log') /\ Following(w)'
<1>1. phase = "prove" /\ pos > Len(Script)
  BY DEF Deliver
<1>2. Sizes(cfg, w) /\ Making(w, T) /\ NoChecks
  BY <1>1, Proving
<1>3. w.m \in Nat \ {0} /\ w.n \in Nat \ {0} /\ Len(ProverScripts[cfg]) = w.m + w.n + 3
  BY <1>2 DEF Sizes
<1>4. pos = w.m + w.n + 4
  <2>1. Script = ProverScripts[cfg]
    BY <1>1 DEF Script
  <2>2. pos \in 1..(w.m + w.n + 4)
    BY <1>2 DEF Making
  <2> QED
    BY <1>1, <1>3, <2>1, <2>2
<1>5. /\ pos' = 1 /\ chal' = 0 /\ got' = {} /\ tr' = Opening(sent') /\ cfg' = cfg /\ log' = log /\ made' = made
      /\ claim' = claim /\ quad' = quad
  BY DEF Deliver, checkVars
<1>6. PICK H, n : Trail(cfg, w, log, made, H, n) /\ H[n] = State(pos, tr, chal, got)
  BY DEF Trailing
<1>7. H[n].pos = w.m + w.n + 4
  BY <1>4, <1>6 DEF State
<1>8. n \in Nat \ {0} /\ H[1] = State(1, Opening(made), 0, {})
  BY <1>6 DEF Trail
<1>9. WholeTrail(w, H, n)'
  BY <1>5, <1>6, <1>7 DEF WholeTrail
<1>10. Follows(w, H, 1)'
  <2>1. H[1].pos = 1 /\ H[1].tr = Opening(made) /\ H[1].chal = 0 /\ H[1].got = {}
    BY <1>8, StateIs
  <2>2. Opposite(w, 1) = 1
    BY <1>3 DEF Opposite
  <2>3. tr' = Opening(made)
    BY <1>5 DEF Opening
  <2> QED
    BY <1>5, <2>1, <2>2, <2>3 DEF Follows, Opposite
<1>11. 1 \in 1..n
  BY <1>8
<1>12. Followed(w)'
  BY <1>9, <1>10, <1>11 DEF Followed
<1>13. claim = TRUE /\ quad = TRUE
  BY <1>2 DEF NoChecks
<1> QED
  BY <1>5, <1>12, <1>13 DEF Following

-----------------------------------------------------------------------------
(* The prover keeps its trail, and the verifier of what was made follows it.          *)
FollowInv(w) ==
    /\ phase = "prove" => OneEach(log) /\ Trailing(w)
    /\ phase = "verify" /\ sent = made => OneEach(log) /\ Following(w)
    /\ phase = "reject" => sent # made

LEMMA InitFollows ==
  ASSUME Init, NEW w
  PROVE  FollowInv(w)
<1>1. phase = "prove" /\ log = <<>> /\ pos = 1 /\ chal = 0 /\ got = {} /\ tr = Opening(made)
  BY DEF Init
<1>2. OneEach(log)
  <2>1. Len(<<>>) = 0
    BY AnyNone
  <2> QED
    BY <1>1, <2>1 DEF OneEach
<1>3. Trailing(w)
  <2>1. PICK H : H = [i \in {1} |-> State(1, Opening(made), 0, {})]
    OBVIOUS
  <2>2. PICK n \in Nat \ {0} : n = 1
    OBVIOUS
  <2>3. H[1] = State(1, Opening(made), 0, {})
    BY <2>1
  <2>4. Trail(cfg, w, log, made, H, n)
    BY <2>2, <2>3 DEF Trail
  <2>5. H[n] = State(pos, tr, chal, got)
    BY <1>1, <2>2, <2>3
  <2> QED
    BY <2>4, <2>5 DEF Trailing
<1> QED
  BY <1>1, <1>2, <1>3 DEF FollowInv

LEMMA NextFollows ==
  ASSUME IInv, NEW w, w = PlanOf(cfg), FollowInv(w), [Next]_vars
  PROVE  FollowInv(w)'
<1>1. cfg \in Configs
  BY DEF IInv
<1>2. ASSUME phase \in {"prove", "verify"}
      PROVE  \E T : Walked(w, T)
  BY <1>2 DEF IInv
<1>3. ASSUME phase = "prove" PROVE OneEach(log) /\ Trailing(w)
  BY <1>3 DEF FollowInv
<1>4. ASSUME phase = "verify", sent = made PROVE OneEach(log) /\ Following(w)
  BY <1>4 DEF FollowInv
<1>5. ASSUME phase' = "prove", OneEach(log'), Trailing(w)' PROVE FollowInv(w)'
  BY <1>5 DEF FollowInv
<1>6. ASSUME phase' \in {"verify", "accept", "reject"}, sent' = sent, made' = made,
             sent = made => phase' = "accept" \/ (phase' = "verify" /\ OneEach(log') /\ Following(w)')
      PROVE  FollowInv(w)'
  BY <1>6 DEF FollowInv
<1>7. ASSUME ProverSays PROVE FollowInv(w)'
  <2>1. phase = "prove" /\ phase' = "prove" /\ log' = log
    BY <1>7 DEF ProverSays
  <2>2. PICK T : Walked(w, T)
    BY <1>2, <2>1
  <2>3. OneEach(log) /\ Trailing(w)
    BY <1>3, <2>1
  <2>4. Trailing(w)'
    BY <1>1, <1>7, <2>2, <2>3, TrailSays
  <2> QED
    BY <1>5, <2>1, <2>3, <2>4
<1>8. ASSUME ProverOpens PROVE FollowInv(w)'
  <2>1. phase = "prove" /\ phase' = "prove" /\ log' = log
    BY <1>8 DEF ProverOpens
  <2>2. PICK T : Walked(w, T)
    BY <1>2, <2>1
  <2>3. OneEach(log) /\ Trailing(w)
    BY <1>3, <2>1
  <2>4. Trailing(w)'
    BY <1>1, <1>8, <2>2, <2>3, TrailOpens
  <2> QED
    BY <1>5, <2>1, <2>3, <2>4
<1>9. ASSUME NEW hits \in HitSets, ProverGrinds(hits) PROVE FollowInv(w)'
  <2>1. phase = "prove" /\ phase' = "prove"
    BY <1>9 DEF ProverGrinds
  <2>2. PICK T : Walked(w, T)
    BY <1>2, <2>1
  <2>3. OneEach(log) /\ Trailing(w)
    BY <1>3, <2>1
  <2>4. Trailing(w)' /\ OneEach(log')
    BY <1>1, <1>9, <2>2, <2>3, TrailGrinds
  <2> QED
    BY <1>5, <2>1, <2>4
<1>10. ASSUME VerifierSays PROVE FollowInv(w)'
  <2>1. phase = "verify" /\ phase' \in {"verify", "accept", "reject"} /\ sent' = sent /\ made' = made /\ log' = log
    BY <1>10 DEF VerifierSays, Reject, walkVars
  <2>2. PICK T : Walked(w, T)
    BY <1>2, <2>1
  <2>3. ASSUME sent = made
        PROVE  phase' = "verify" /\ OneEach(log') /\ Following(w)'
    <3>1. OneEach(log) /\ Following(w)
      BY <1>4, <2>1, <2>3
    <3>2. phase' = "verify" /\ Following(w)'
      BY <1>1, <1>10, <2>2, <2>3, <3>1, FollowingSays
    <3> QED
      BY <2>1, <3>1, <3>2
  <2> QED
    BY <1>6, <2>1, <2>3
<1>11. ASSUME VerifierOpens PROVE FollowInv(w)'
  <2>1. phase = "verify" /\ phase' \in {"verify", "accept", "reject"} /\ sent' = sent /\ made' = made
    BY <1>11 DEF VerifierOpens, Reject
  <2>2. PICK T : Walked(w, T)
    BY <1>2, <2>1
  <2>3. ASSUME sent = made
        PROVE  phase' = "verify" /\ OneEach(log') /\ Following(w)'
    <3>1. OneEach(log) /\ Following(w)
      BY <1>4, <2>1, <2>3
    <3>2. phase' = "verify" /\ log' = log /\ Following(w)'
      BY <1>1, <1>11, <2>2, <2>3, <3>1, FollowingOpens
    <3> QED
      BY <3>1, <3>2
  <2> QED
    BY <1>6, <2>1, <2>3
<1>12. ASSUME NEW hits, VerifyPow(hits) PROVE FollowInv(w)'
  <2>1. phase = "verify" /\ phase' \in {"verify", "accept", "reject"} /\ sent' = sent /\ made' = made
    BY <1>12 DEF VerifyPow, Reject
  <2>2. PICK T : Walked(w, T)
    BY <1>2, <2>1
  <2>3. ASSUME sent = made
        PROVE  phase' = "verify" /\ OneEach(log') /\ Following(w)'
    <3>1. OneEach(log) /\ Following(w)
      BY <1>4, <2>1, <2>3
    <3>2. phase' = "verify" /\ log' = log /\ Following(w)'
      BY <1>1, <1>12, <2>2, <2>3, <3>1, FollowingPows
    <3> QED
      BY <3>1, <3>2
  <2> QED
    BY <1>6, <2>1, <2>3
<1>13. ASSUME Walking, DrawChallenge PROVE FollowInv(w)'
  <2>1. (phase = "prove" \/ phase = "verify") /\ phase' = phase /\ sent' = sent /\ made' = made
    BY <1>13 DEF DrawChallenge, Walking
  <2>2. PICK T : Walked(w, T)
    BY <1>2, <2>1
  <2>3. CASE phase = "prove"
    <3>1. OneEach(log) /\ Trailing(w)
      BY <1>3, <2>3
    <3>2. Trailing(w)' /\ OneEach(log')
      BY <1>1, <1>13, <2>2, <2>3, <3>1, TrailDraws
    <3> QED
      BY <1>5, <2>1, <2>3, <3>2
  <2>4. CASE phase = "verify"
    <3>1. ASSUME sent = made
          PROVE  OneEach(log') /\ Following(w)'
      <4>1. OneEach(log) /\ Following(w)
        BY <1>4, <2>4, <3>1
      <4> QED
        BY <1>1, <1>13, <2>2, <2>4, <3>1, <4>1, FollowingDraws
    <3> QED
      BY <1>6, <2>1, <2>4, <3>1
  <2> QED
    BY <2>1, <2>3, <2>4
<1>14. ASSUME Walking, CheckShape PROVE FollowInv(w)'
  <2>1. /\ phase = "prove" \/ phase = "verify"
        /\ phase' = phase \/ phase' = "reject"
        /\ sent' = sent /\ made' = made /\ AtOp("check")
    BY <1>14 DEF CheckShape, Reject, Walking
  <2>2. PICK T : Walked(w, T)
    BY <1>2, <2>1
  <2>3. CASE phase = "prove"
    <3>1. Op.act = "check" /\ ProverMeets(w, pos, Op)
      BY <1>1, <2>1, <2>2, <2>3, Proving
    <3> QED
      BY <3>1 DEF ProverMeets
  <2>4. CASE phase = "verify"
    <3>1. ASSUME sent = made
          PROVE  phase' = "verify" /\ OneEach(log') /\ Following(w)'
      <4>1. OneEach(log) /\ Following(w)
        BY <1>4, <2>4, <3>1
      <4>2. phase' = "verify" /\ log' = log /\ Following(w)'
        BY <1>1, <1>14, <2>2, <2>4, <3>1, <4>1, FollowingChecks
      <4> QED
        BY <4>1, <4>2
    <3> QED
      BY <1>6, <2>1, <2>4, <3>1
  <2> QED
    BY <2>1, <2>3, <2>4
<1>15. ASSUME Walking, Residual PROVE FollowInv(w)'
  <2>1. /\ phase = "prove" \/ phase = "verify"
        /\ phase' \in {"accept", "reject"}
        /\ sent' = sent /\ made' = made /\ AtOp("check")
    BY <1>15 DEF Residual, Walking
  <2>2. PICK T : Walked(w, T)
    BY <1>2, <2>1
  <2>3. CASE phase = "prove"
    <3>1. Op.act = "check" /\ ProverMeets(w, pos, Op)
      BY <1>1, <2>1, <2>2, <2>3, Proving
    <3> QED
      BY <3>1 DEF ProverMeets
  <2>4. CASE phase = "verify"
    <3>1. ASSUME sent = made
          PROVE  phase' = "accept"
      <4>1. Following(w)
        BY <1>4, <2>4, <3>1
      <4> QED
        BY <1>15, <2>4, <4>1, FollowingDecides
    <3> QED
      BY <1>6, <2>1, <3>1
  <2> QED
    BY <2>1, <2>3, <2>4
<1>16. ASSUME Walking, NEW v, SamplePosition(v) PROVE FollowInv(w)'
  <2>1. (phase = "prove" \/ phase = "verify") /\ phase' = phase /\ sent' = sent /\ made' = made
    BY <1>16 DEF SamplePosition, Walking
  <2>2. PICK T : Walked(w, T)
    BY <1>2, <2>1
  <2>3. CASE phase = "prove"
    <3>1. OneEach(log) /\ Trailing(w)
      BY <1>3, <2>3
    <3>2. Trailing(w)' /\ OneEach(log')
      BY <1>1, <1>16, <2>2, <2>3, <3>1, TrailSamples
    <3> QED
      BY <1>5, <2>1, <2>3, <3>2
  <2>4. CASE phase = "verify"
    <3>1. ASSUME sent = made
          PROVE  OneEach(log') /\ Following(w)'
      <4>1. OneEach(log) /\ Following(w)
        BY <1>4, <2>4, <3>1
      <4>2. Following(w)' /\ log' = log
        BY <1>1, <1>16, <2>2, <2>4, <3>1, <4>1, FollowingSamples
      <4> QED
        BY <4>1, <4>2
    <3> QED
      BY <1>6, <2>1, <2>4, <3>1
  <2> QED
    BY <2>1, <2>3, <2>4
<1>17. ASSUME Panic PROVE FollowInv(w)'
  BY <1>17 DEF Panic, FollowInv
<1>18. ASSUME Deliver PROVE FollowInv(w)'
  <2>1. phase = "prove" /\ phase' = "verify"
    BY <1>18 DEF Deliver
  <2>2. PICK T : Walked(w, T)
    BY <1>2, <2>1
  <2>3. OneEach(log) /\ Trailing(w)
    BY <1>3, <2>1
  <2>4. sent' = made' => OneEach(log') /\ Following(w)'
    BY <1>1, <1>18, <2>2, <2>3, FollowingStarts
  <2> QED
    BY <2>1, <2>4 DEF FollowInv
<1>19. ASSUME UNCHANGED vars PROVE FollowInv(w)'
  <2>1. /\ cfg' = cfg /\ phase' = phase /\ pos' = pos /\ tr' = tr /\ chal' = chal /\ got' = got /\ log' = log
        /\ made' = made /\ sent' = sent /\ claim' = claim /\ quad' = quad
    BY <1>19 DEF vars, walkVars, checkVars
  <2>2. Trailing(w)' <=> Trailing(w)
    BY <2>1 DEF Trailing
  <2>3. Following(w)' <=> Following(w)
    BY <2>1 DEF Following, Followed, WholeTrail, Follows
  <2> QED
    BY <2>1, <2>2, <2>3 DEF FollowInv
<1> QED
  BY <1>7, <1>8, <1>9, <1>10, <1>11, <1>12, <1>13, <1>14, <1>15, <1>16, <1>17, <1>18, <1>19, Zenon DEF Next

-----------------------------------------------------------------------------
(* The invariant of an opening that arrives as it was made.                           *)
CompleteInv ==
    /\ IInv /\ FollowInv(PlanOf(cfg))
    /\ \E F : RisesAs(cfg, F) /\ Fits(cfg, F)

LEMMA InitComplete ==
  ASSUME Init
  PROVE  CompleteInv
<1>1. IInv /\ cfg \in Configs
  BY InitWalked DEF IInv
<1>2. FollowInv(PlanOf(cfg))
  BY InitFollows
<1>3. PICK F : RisesAs(cfg, F)
  BY <1>1, RisesThere
<1>4. Fits(cfg, F)
  BY DEF Init, Fits
<1> QED
  BY <1>1, <1>2, <1>3, <1>4 DEF CompleteInv

LEMMA NextComplete ==
  ASSUME CompleteInv, [Next]_vars
  PROVE  CompleteInv'
<1>1. PICK w, c : w = PlanOf(cfg) /\ c = cfg
  OBVIOUS
<1>2. IInv /\ FollowInv(w)
  BY <1>1 DEF CompleteInv
<1>3. PICK F : RisesAs(c, F) /\ Fits(c, F)
  BY <1>1 DEF CompleteInv
<1>4. IInv' /\ FollowInv(w)'
  BY <1>1, <1>2, NextWalked, NextFollows
<1>5. Fits(c, F)'
  BY <1>1, <1>2, <1>3, NextFits
<1>6. PlanOf(cfg)' = w /\ cfg' = c
  <2>1. PlanOf(cfg') = w /\ cfg' = c
    BY <1>1, ConfigKept
  <2>2. PlanOf(cfg)' = PlanOf(cfg')
    BY DEF PlanOf, Span, YrLen, LastDraw, ProverBook, VerifierBook
  <2> QED
    BY <2>1, <2>2
<1>7. FollowInv(PlanOf(cfg))'
  BY <1>4, <1>6 DEF FollowInv, Trailing, Following, Followed, WholeTrail, Follows
<1>8. RisesAs(cfg, F)' /\ Fits(cfg, F)'
  <2>1. RisesAs(cfg, F)' <=> RisesAs(c, F)
    BY <1>6 DEF RisesAs
  <2>2. Fits(cfg, F)' <=> Fits(c, F)'
    BY <1>6 DEF Fits, Fitting
  <2> QED
    BY <1>3, <1>5, <2>1, <2>2
<1> QED
  BY <1>4, <1>7, <1>8 DEF CompleteInv

LEMMA CompleteInvCompletes ==
  ASSUME CompleteInv
  PROVE  Completeness
<1>1. sent = made => phase # "reject"
  BY DEF CompleteInv, FollowInv
<1>2. PICK c, F : c = cfg /\ RisesAs(c, F) /\ Fits(c, F)
  BY DEF CompleteInv
<1>3. ResidualFits
  BY <1>2, FitsTheResidual DEF CompleteInv
<1> QED
  BY <1>1, <1>3 DEF Completeness

(* For every configuration and every answer of the oracle, an opening that arrives as *)
(* it was made is not rejected: the verifier of ligerito.rs finds each value where    *)
(* the prover put it, draws the challenges and positions that the prover drew, and    *)
(* its checks hold; and whatever arrives, each basis was noted when as many fold      *)
(* challenges had been drawn as its dimension has lost, so that the residual slices   *)
(* ris from there to its end.                                                         *)
THEOREM OpeningsComplete == Spec => []Completeness
<1>1. Init => CompleteInv
  BY InitComplete
<1>2. CompleteInv /\ [Next]_vars => CompleteInv'
  BY NextComplete
<1>3. CompleteInv => Completeness
  BY CompleteInvCompletes
<1> QED
  BY <1>1, <1>2, <1>3, PTL DEF Spec
=============================================================================
