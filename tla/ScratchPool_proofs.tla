------------------------- MODULE ScratchPool_proofs -------------------------
(***************************************************************************)
(* A held buffer is never longer than its allocation, and an eviction       *)
(* spares the large ones, for every number of threads, two sizes and a bound. *)
(***************************************************************************)
EXTENDS ScratchPool, SequenceTheorems, FiniteSetTheorems, WellFoundedInduction, TLAPS

(* A set of numbers has a least one. *)
LEMMA LeastNat ==
  ASSUME NEW S \in SUBSET Nat, S # {}
  PROVE  \E x \in S : \A y \in S : x <= y
<1> DEFINE R == OpToRel(<, Nat)
<1>1. IsWellFoundedOn(R, Nat)
  BY NatLessThanWellFounded
<1>2. PICK x \in S : \A y \in S : ~ (<<y, x>> \in R)
  BY <1>1, WFMin, Zenon
<1>3. ASSUME NEW y \in S PROVE x <= y
  <2>1. <<y, x>> \in Nat \X Nat /\ ~ (<<y, x>> \in R)
    BY <1>2
  <2>2. ~ (y < x)
    BY <2>1 DEF OpToRel
  <2> QED BY <2>2
<1> QED BY <1>2, <1>3

(* swap_remove takes one element out of a vector without repetitions. *)
LEMMA RemoveElement ==
  ASSUME NEW S, NEW s \in Seq(S), IsInjective(s), NEW i \in DOMAIN s
  PROVE  /\ SwapRemove(s, i).out = s[i]
         /\ SwapRemove(s, i).rest \in Seq(S)
         /\ Len(SwapRemove(s, i).rest) = Len(s) - 1
         /\ IsInjective(SwapRemove(s, i).rest)
         /\ Range(SwapRemove(s, i).rest) = Range(s) \ {s[i]}
<1>1. /\ Len(s) \in Nat \ {0} /\ DOMAIN s = 1 .. Len(s) /\ i \in 1 .. Len(s)
      /\ \A k, l \in DOMAIN s : s[k] = s[l] => k = l
  BY LenProperties DEF IsInjective
<1> DEFINE n == Len(s) - 1
           r == SwapRemove(s, i).rest
<1>2. /\ Front(s) \in Seq(S) /\ Len(Front(s)) = n /\ DOMAIN Front(s) = 1 .. n
      /\ \A k \in 1 .. n : Front(s)[k] = s[k]
  BY <1>1 DEF Front
<1>3. /\ r \in Seq(S) /\ Len(r) = n /\ DOMAIN r = 1 .. n
      /\ \A k \in 1 .. n : r[k] = IF k = i THEN s[Len(s)] ELSE s[k]
  <2>1. CASE i = Len(s)
    BY <1>1, <1>2, <2>1 DEF SwapRemove
  <2>2. CASE i # Len(s)
    <3>1. r = [Front(s) EXCEPT ![i] = s[Len(s)]]
      BY <2>2 DEF SwapRemove, Last
    <3>2. i \in 1 .. n /\ s[Len(s)] \in S
      BY <1>1, <2>2
    <3> QED BY <1>2, <3>1, <3>2, ExceptSeq
  <2> QED BY <2>1, <2>2
<1>9. SwapRemove(s, i).out = s[i]
  BY DEF SwapRemove
<1> HIDE DEF r
<1>4. IsInjective(r)
  BY <1>1, <1>3 DEF IsInjective
<1>5. ASSUME NEW k \in 1 .. n PROVE \E l \in 1 .. Len(s) : l # i /\ r[k] = s[l]
  <2>1. CASE k = i
    BY <1>1, <1>3, <2>1
  <2>2. CASE k # i
    BY <1>1, <1>3, <2>2
  <2> QED BY <2>1, <2>2
<1>6. ASSUME NEW k \in 1 .. Len(s), k # i PROVE \E l \in 1 .. n : r[l] = s[k]
  <2>1. CASE k = Len(s)
    <3>1. i \in 1 .. n
      BY <1>1, <1>6, <2>1
    <3> QED BY <1>3, <2>1, <3>1
  <2>2. CASE k # Len(s)
    <3>1. k \in 1 .. n
      <4>1. Len(s) \in Nat
        BY <1>1
      <4> QED BY <4>1, <2>2
    <3> QED BY <1>3, <1>6, <3>1
  <2> QED BY <2>1, <2>2
<1>7. Range(r) \subseteq Range(s) \ {s[i]}
  BY <1>1, <1>3, <1>5 DEF Range
<1>8. ASSUME NEW x \in Range(s), x # s[i] PROVE x \in Range(r)
  <2>1. PICK k \in 1 .. Len(s) : x = s[k]
    BY <1>1 DEF Range
  <2>2. PICK l \in 1 .. n : r[l] = s[k]
    BY <1>6, <1>8, <2>1
  <2> QED BY <1>3, <2>1, <2>2 DEF Range
<1> QED BY <1>3, <1>4, <1>7, <1>8, <1>9 DEF r

LEMMA AddElement ==
  ASSUME NEW S, NEW s \in Seq(S), IsInjective(s), NEW b \in S, b \notin Range(s)
  PROVE  /\ Append(s, b) \in Seq(S) /\ Len(Append(s, b)) = Len(s) + 1
         /\ IsInjective(Append(s, b)) /\ Range(Append(s, b)) = Range(s) \cup {b}
<1>1. /\ Len(s) \in Nat /\ DOMAIN s = 1 .. Len(s) /\ Append(s, b) \in Seq(S)
      /\ DOMAIN Append(s, b) = 1 .. Len(s) + 1 /\ Len(Append(s, b)) = Len(s) + 1
      /\ \A k \in 1 .. Len(s) : Append(s, b)[k] = s[k]
      /\ Append(s, b)[Len(s) + 1] = b
  BY AppendProperties, LenProperties
<1>2. IsInjective(Append(s, b))
  BY <1>1 DEF IsInjective, Range
<1>3. Range(Append(s, b)) = Range(s) \cup {b}
  BY <1>1 DEF Range
<1> QED BY <1>1, <1>2, <1>3

LEMMA RemoveHead ==
  ASSUME NEW S, NEW s \in Seq(S), IsInjective(s), s # <<>>
  PROVE  /\ Head(s) \in S /\ Head(s) \in Range(s) /\ Tail(s) \in Seq(S) /\ IsInjective(Tail(s))
         /\ Range(Tail(s)) = Range(s) \ {Head(s)}
<1>1. /\ Len(s) \in Nat \ {0} /\ DOMAIN s = 1 .. Len(s) /\ Head(s) = s[1] /\ Tail(s) \in Seq(S) /\ s[1] \in S
      /\ Len(Tail(s)) = Len(s) - 1
      /\ \A k \in 1 .. Len(s) - 1 : Tail(s)[k] = s[k + 1]
  BY HeadTailProperties, LenProperties, EmptySeq
<1>2. DOMAIN Tail(s) = 1 .. Len(s) - 1
  BY <1>1, LenProperties
<1>3. \A k, l \in 1 .. Len(s) : s[k] = s[l] => k = l
  BY <1>1 DEF IsInjective
<1>4. IsInjective(Tail(s))
  BY <1>1, <1>2, <1>3 DEF IsInjective
<1>5. ASSUME NEW k \in 1 .. Len(s) - 1
      PROVE  Tail(s)[k] \in Range(s) \ {Head(s)}
  <2>1. k + 1 \in 1 .. Len(s) /\ k + 1 # 1 /\ 1 \in 1 .. Len(s) /\ Tail(s)[k] = s[k + 1]
    BY <1>1
  <2> QED BY <1>1, <1>3, <2>1 DEF Range
<1>6. ASSUME NEW k \in 1 .. Len(s), k # 1
      PROVE  s[k] \in Range(Tail(s))
  <2>1. k - 1 \in 1 .. Len(s) - 1 /\ Tail(s)[k - 1] = s[k]
    BY <1>1, <1>6
  <2> QED BY <1>2, <2>1 DEF Range
<1>7. Range(Tail(s)) = Range(s) \ {Head(s)}
  BY <1>1, <1>2, <1>5, <1>6 DEF Range
<1> QED BY <1>1, <1>4, <1>7 DEF Range

-----------------------------------------------------------------------------
OwnershipType ==
    /\ cap \in [Buffers -> Nat] /\ len \in [Buffers -> Nat]
    /\ pool \in Seq(Buffers) /\ Len(pool) <= MAX_POOLED
    /\ held \in [Threads -> SUBSET Buffers]
    /\ todo \in [Threads -> Seq(Sizes)]
    /\ bufs \in [Threads -> Seq(Buffers)]

(* No buffer is at two places of one vector, in two collections, with two threads. *)
Apart ==
    /\ IsInjective(pool)
    /\ \A t \in Threads : /\ IsInjective(bufs[t])
                          /\ held[t] \cap Range(bufs[t]) = {}
                          /\ Holds(t) \cap Range(pool) = {}
    /\ \A t, u \in Threads : t # u => Holds(t) \cap Holds(u) = {}

(* The live buffers are those somebody owns. *)
Live == \A b \in Buffers : cap[b] # 0 <=> (b \in Range(pool) \/ \E t \in Threads : b \in Holds(t))

(* A live buffer, pooled or held, is no longer than its allocation. *)
Lengths == \A b \in Buffers : cap[b] # 0 => 0 < len[b] /\ len[b] <= cap[b]

IInv == OwnershipType /\ Apart /\ Live /\ Lengths

LEMMA RangeOfElements ==
  ASSUME NEW S, NEW s \in Seq(S)
  PROVE  Range(s) \subseteq S /\ \A i \in DOMAIN s : s[i] \in S /\ s[i] \in Range(s)
  BY ElementOfSeq, LenProperties DEF Range

LEMMA FirstSmallest ==
  ASSUME NEW p \in Seq(Buffers), cap \in [Buffers -> Nat], NEW D \in SUBSET DOMAIN p, D # {}
  PROVE  \E i \in D : \A j \in D : \/ cap[p[i]] < cap[p[j]]
                                   \/ cap[p[i]] = cap[p[j]] /\ i <= j
<1>1. \A i \in D : i \in Nat /\ cap[p[i]] \in Nat
  BY ElementOfSeq, LenProperties
<1> DEFINE Caps == {cap[p[i]] : i \in D}
<1>2. PICK c \in Caps : \A d \in Caps : c <= d
  <2>1. Caps \in SUBSET Nat /\ Caps # {}
    BY <1>1
  <2> HIDE DEF Caps
  <2> QED BY <2>1, LeastNat
<1> DEFINE At == {i \in D : cap[p[i]] = c}
<1>3. At # {} /\ At \in SUBSET Nat
  BY <1>1
<1>4. PICK i \in At : \A j \in At : i <= j
  BY <1>3, LeastNat
<1>5. ASSUME NEW j \in D
      PROVE  cap[p[i]] < cap[p[j]] \/ (cap[p[i]] = cap[p[j]] /\ i <= j)
  <2>1. cap[p[i]] = c /\ c \in Nat /\ cap[p[j]] \in Nat /\ c <= cap[p[j]]
    BY <1>1, <1>2
  <2>2. CASE cap[p[j]] = c
    BY <1>4, <2>1, <2>2
  <2>3. CASE cap[p[j]] # c
    BY <2>1, <2>3
  <2> QED BY <2>2, <2>3
<1> QED BY <1>5

LEMMA BestFitFits ==
  ASSUME cap \in [Buffers -> Nat], NEW p \in Seq(Buffers), NEW n, Fitting(p, n) # {}
  PROVE  BestFit(p, n) \in Fitting(p, n)
<1>1. Fitting(p, n) \in SUBSET DOMAIN p
  BY DEF Fitting
<1>2. \E i \in Fitting(p, n) : \A j \in Fitting(p, n) :
         \/ cap[p[i]] < cap[p[j]]
         \/ cap[p[i]] = cap[p[j]] /\ i <= j
  BY <1>1, FirstSmallest
<1> QED BY <1>2 DEF BestFit

LEMMA SmallestIsLeast ==
  ASSUME cap \in [Buffers -> Nat], NEW p \in Seq(Buffers), p # <<>>
  PROVE  /\ Smallest(p) \in DOMAIN p
         /\ \A j \in DOMAIN p : cap[p[Smallest(p)]] <= cap[p[j]]
<1>1. DOMAIN p # {}
  <2>1. Len(p) \in Nat /\ Len(p) # 0 /\ DOMAIN p = 1 .. Len(p)
    BY LenProperties, EmptySeq
  <2>2. 1 \in DOMAIN p
    BY <2>1
  <2> QED BY <2>2
<1>2. \E i \in DOMAIN p : \A j \in DOMAIN p :
         \/ cap[p[i]] < cap[p[j]]
         \/ cap[p[i]] = cap[p[j]] /\ i <= j
  BY <1>1, FirstSmallest
<1>3. /\ Smallest(p) \in DOMAIN p
      /\ \A j \in DOMAIN p : \/ cap[p[Smallest(p)]] < cap[p[j]]
                             \/ cap[p[Smallest(p)]] = cap[p[j]] /\ Smallest(p) <= j
  BY <1>2 DEF Smallest
<1>4. \A j \in DOMAIN p : cap[p[j]] \in Nat
  BY ElementOfSeq, LenProperties
<1> QED BY <1>3, <1>4

-----------------------------------------------------------------------------
(* A buffer that is handed out was pooled or not allocated, and is nobody's now. *)
LEMMA TakenIsFree ==
  ASSUME IInv, NEW t \in Threads, NEW n \in Sizes, TakeFrom(t, n)
  PROVE  /\ Taken(n) \in Buffers
         /\ \A u \in Threads : Taken(n) \notin Holds(u)
         /\ pool' \in Seq(Buffers) /\ Len(pool') <= MAX_POOLED /\ IsInjective(pool')
         /\ Range(pool') = Range(pool) \ {Taken(n)}
         /\ cap' \in [Buffers -> Nat] /\ cap'[Taken(n)] # 0
         /\ len' \in [Buffers -> Nat] /\ 0 < len'[Taken(n)] /\ len'[Taken(n)] <= cap'[Taken(n)]
         /\ \A c \in Buffers \ {Taken(n)} : cap'[c] = cap[c] /\ len'[c] = len[c]
<1> USE DEF IInv, OwnershipType
<1>1. n \in Nat \ {0} /\ len' = [len EXCEPT ![Taken(n)] = n]
  BY SizesAssumption DEF Sizes, TakeFrom
<1>2. CASE Fitting(pool, n) # {}
  <2> DEFINE i == BestFit(pool, n)
  <2>1. /\ i \in DOMAIN pool /\ Taken(n) = SwapRemove(pool, i).out /\ cap' = cap
        /\ pool' = SwapRemove(pool, i).rest /\ cap[pool[i]] >= n
    BY <1>2, BestFitFits DEF TakeFrom, Taken, Reused, Fitting
  <2>2. pool[i] \in Buffers /\ pool[i] \in Range(pool)
    BY <2>1, RangeOfElements
  <2>3. /\ pool' \in Seq(Buffers) /\ Len(pool') = Len(pool) - 1 /\ Taken(n) = pool[i]
        /\ IsInjective(pool') /\ Range(pool') = Range(pool) \ {pool[i]}
    BY <2>1, RemoveElement DEF Apart
  <2>4. Len(pool') <= MAX_POOLED
    BY <2>3, LenProperties, WarmSetAssumption
  <2>5. cap'[pool[i]] # 0 /\ n <= cap'[pool[i]]
    BY <1>1, <2>1, <2>2
  <2>6. \A u \in Threads : pool[i] \notin Holds(u)
    BY <2>2 DEF Apart
  <2>7. /\ len' \in [Buffers -> Nat] /\ len'[pool[i]] = n /\ 0 < n
        /\ \A c \in Buffers \ {pool[i]} : len'[c] = len[c]
    BY <1>1, <2>2, <2>3
  <2> QED BY <2>1, <2>2, <2>3, <2>4, <2>5, <2>6, <2>7
<1>3. CASE Fitting(pool, n) = {}
  <2>1. /\ Taken(n) = Fresh /\ pool' = pool /\ cap' = [cap EXCEPT ![Fresh] = n]
        /\ \E b \in Buffers : cap[b] = 0
    BY <1>3 DEF TakeFrom, Taken
  <2>2. Fresh \in Buffers /\ cap[Fresh] = 0
    BY <2>1 DEF Fresh
  <2>3. Fresh \notin Range(pool) /\ \A u \in Threads : Fresh \notin Holds(u)
    BY <2>2 DEF Live
  <2>4. cap' \in [Buffers -> Nat] /\ cap'[Fresh] = n /\ \A c \in Buffers \ {Fresh} : cap'[c] = cap[c]
    BY <1>1, <2>1, <2>2
  <2>5. /\ len' \in [Buffers -> Nat] /\ len'[Fresh] = n /\ 0 < n /\ n <= n
        /\ \A c \in Buffers \ {Fresh} : len'[c] = len[c]
    BY <1>1, <2>1, <2>2
  <2> QED BY <1>1, <2>1, <2>2, <2>3, <2>4, <2>5 DEF Apart
<1> QED BY <1>2, <1>3

(* A buffer that is given back is pooled, and at most one is freed, none larger than *)
(* one that stays.                                                                  *)
LEMMA GivenIsPooled ==
  ASSUME IInv, NEW t \in Threads, NEW b \in Holds(t), GiveTo(t, b)
  PROVE  /\ b \in Buffers
         /\ pool' \in Seq(Buffers) /\ Len(pool') <= MAX_POOLED /\ IsInjective(pool')
         /\ cap' \in [Buffers -> Nat] /\ len' \in [Buffers -> Nat]
         /\ \/ Range(pool') = Range(pool) \cup {b} /\ cap' = cap /\ len' = len
            \/ \E v \in Range(pool) \cup {b} :
                  /\ Range(pool') = (Range(pool) \cup {b}) \ {v}
                  /\ cap' = [cap EXCEPT ![v] = 0] /\ len' = [len EXCEPT ![v] = 0]
                  /\ \A c \in Range(pool') : cap[v] <= cap[c]
<1> USE DEF IInv, OwnershipType
<1> DEFINE p == Append(pool, b)
<1>1. b \in Buffers /\ b \notin Range(pool)
  <2>1. Range(bufs[t]) \subseteq Buffers /\ held[t] \subseteq Buffers
    BY RangeOfElements
  <2> QED BY <2>1 DEF Apart, Holds
<1>2. p \in Seq(Buffers) /\ Len(p) = Len(pool) + 1 /\ IsInjective(p) /\ Range(p) = Range(pool) \cup {b}
  BY <1>1, AddElement DEF Apart
<1>3. CASE Len(p) <= MAX_POOLED
  <2>1. pool' = p /\ cap' = cap /\ len' = len
    BY <1>2, <1>3, LenProperties, WarmSetAssumption DEF GiveTo
  <2> QED BY <1>1, <1>2, <1>3, <2>1
<1>4. CASE Len(p) > MAX_POOLED
  <2> DEFINE v == Smallest(p)
  <2> DEFINE e == SwapRemove(p, v)
  <2>1. /\ pool' = e.rest /\ cap' = [cap EXCEPT ![e.out] = 0]
        /\ len' = [len EXCEPT ![e.out] = 0]
    BY <1>4 DEF GiveTo
  <2>2. v \in DOMAIN p /\ \A j \in DOMAIN p : cap[p[v]] <= cap[p[j]]
    <3>1. p # <<>>
      <4>1. Len(pool) \in Nat
        BY LenProperties
      <4> HIDE DEF p
      <4> QED BY <1>2, <4>1, EmptySeq
    <3> QED BY <1>2, <3>1, SmallestIsLeast
  <2>3. p[v] \in Range(p) /\ p[v] \in Buffers
    BY <1>2, <2>2, RangeOfElements
  <2>9. /\ e.out = p[v] /\ e.rest \in Seq(Buffers) /\ Len(e.rest) = Len(p) - 1
        /\ IsInjective(e.rest) /\ Range(e.rest) = Range(p) \ {p[v]}
    <3>1. /\ SwapRemove(p, v).out = p[v] /\ SwapRemove(p, v).rest \in Seq(Buffers)
          /\ Len(SwapRemove(p, v).rest) = Len(p) - 1
          /\ IsInjective(SwapRemove(p, v).rest)
          /\ Range(SwapRemove(p, v).rest) = Range(p) \ {p[v]}
      <4>1. p \in Seq(Buffers) /\ IsInjective(p) /\ v \in DOMAIN p
        BY <1>2, <2>2
      <4> HIDE DEF p, v, e
      <4> QED BY <4>1, RemoveElement
    <3> QED BY <3>1
  <2> HIDE DEF e
  <2>4. /\ pool' \in Seq(Buffers) /\ Len(pool') = Len(p) - 1
        /\ IsInjective(pool') /\ Range(pool') = Range(p) \ {p[v]}
    BY <2>1, <2>9
  <2>5. Len(pool') <= MAX_POOLED
    BY <1>2, <2>4, LenProperties, WarmSetAssumption
  <2>6. \A c \in Range(pool') : cap[p[v]] <= cap[c]
    BY <2>2, <2>4 DEF Range
  <2>7. cap' = [cap EXCEPT ![p[v]] = 0] /\ len' = [len EXCEPT ![p[v]] = 0]
    BY <2>1, <2>9
  <2>8. cap' \in [Buffers -> Nat] /\ len' \in [Buffers -> Nat]
    BY <2>7
  <2> HIDE DEF v, p
  <2> QED BY <1>1, <1>2, <2>8, <2>3, <2>4, <2>5, <2>6, <2>7
<1>5. Len(p) <= MAX_POOLED \/ Len(p) > MAX_POOLED
  <2>1. Len(p) \in Nat /\ MAX_POOLED \in Nat
    BY <1>2, LenProperties, WarmSetAssumption
  <2> HIDE DEF p
  <2> QED BY <2>1
<1> QED BY <1>3, <1>4, <1>5

-----------------------------------------------------------------------------
(* A buffer that was free or pooled goes to a thread. *)
LEMMA Received ==
  ASSUME IInv, NEW t \in Threads, NEW b \in Buffers, OwnershipType',
         \A u \in Threads : b \notin Holds(u),
         IsInjective(pool'), Range(pool') = Range(pool) \ {b},
         cap'[b] # 0, 0 < len'[b] /\ len'[b] <= cap'[b],
         \A c \in Buffers \ {b} : cap'[c] = cap[c] /\ len'[c] = len[c],
         \A u \in Threads : IsInjective(bufs'[u]) /\ held'[u] \cap Range(bufs'[u]) = {},
         \A u \in Threads : Holds(u)' = IF u = t THEN Holds(u) \cup {b} ELSE Holds(u)
  PROVE  IInv'
<1>1. Apart'
  <2>1. \A u \in Threads : Holds(u)' \cap Range(pool') = {}
    BY DEF IInv, Apart
  <2>2. \A u, w \in Threads : u # w => Holds(u)' \cap Holds(w)' = {}
    BY DEF IInv, Apart
  <2> QED BY <2>1, <2>2 DEF Apart
<1>2. Live'
  <2>1. ASSUME NEW c \in Buffers
        PROVE  cap'[c] # 0 <=> (c \in Range(pool') \/ \E u \in Threads : c \in Holds(u)')
    <3>1. CASE c = b
      BY <3>1
    <3>2. CASE c # b
      BY <3>2 DEF IInv, Live
    <3> QED BY <3>1, <3>2
  <2> QED BY <2>1 DEF Live
<1>3. Lengths'
  BY DEF IInv, Lengths
<1> QED BY <1>1, <1>2, <1>3 DEF IInv

(* A buffer of a thread goes to the pool, which may free one. *)
LEMMA Pooled ==
  ASSUME IInv, NEW t \in Threads, NEW b \in Holds(t), GiveTo(t, b), OwnershipType',
         \A u \in Threads : IsInjective(bufs'[u]) /\ held'[u] \cap Range(bufs'[u]) = {},
         \A u \in Threads : Holds(u)' = IF u = t THEN Holds(u) \ {b} ELSE Holds(u)
  PROVE  IInv'
<1>1. /\ b \in Buffers /\ IsInjective(pool')
      /\ \/ Range(pool') = Range(pool) \cup {b} /\ cap' = cap /\ len' = len
         \/ \E v \in Range(pool) \cup {b} :
               /\ Range(pool') = (Range(pool) \cup {b}) \ {v}
               /\ cap' = [cap EXCEPT ![v] = 0] /\ len' = [len EXCEPT ![v] = 0]
  BY GivenIsPooled
<1>2. Range(pool') \subseteq Range(pool) \cup {b}
  BY <1>1
<1>3. \A u \in Threads : u # t => b \notin Holds(u)
  BY DEF IInv, Apart
<1>4. Apart'
  <2>1. \A u \in Threads : Holds(u)' \cap Range(pool') = {}
    BY <1>2, <1>3 DEF IInv, Apart
  <2>2. \A u, w \in Threads : u # w => Holds(u)' \cap Holds(w)' = {}
    BY DEF IInv, Apart
  <2> QED BY <1>1, <2>1, <2>2 DEF Apart
<1>5. ASSUME NEW c \in Buffers
      PROVE  cap'[c] # 0 <=> (c \in Range(pool') \/ \E u \in Threads : c \in Holds(u)')
  <2>1. (c \in Range(pool) \cup {b} \/ \E u \in Threads : c \in Holds(u)') <=> cap[c] # 0
    BY DEF IInv, Live
  <2>2. CASE Range(pool') = Range(pool) \cup {b} /\ cap' = cap
    BY <2>1, <2>2
  <2>3. ASSUME NEW v \in Range(pool) \cup {b}, Range(pool') = (Range(pool) \cup {b}) \ {v},
               cap' = [cap EXCEPT ![v] = 0]
        PROVE  cap'[c] # 0 <=> (c \in Range(pool') \/ \E u \in Threads : c \in Holds(u)')
    <3>1. \A u \in Threads : v \notin Holds(u)'
      BY <1>3 DEF IInv, Apart
    <3>2. cap'[c] = IF c = v THEN 0 ELSE cap[c]
      BY <2>3 DEF IInv, OwnershipType
    <3> QED BY <2>1, <2>3, <3>1, <3>2
  <2> QED BY <1>1, <2>2, <2>3
<1>6. Lengths'
  BY <1>1 DEF IInv, OwnershipType, Lengths
<1> QED BY <1>4, <1>5, <1>6 DEF IInv, Live

-----------------------------------------------------------------------------
LEMMA EmptyVector ==
  /\ \A S : <<>> \in Seq(S)
  /\ Len(<<>>) = 0 /\ IsInjective(<<>>) /\ Range(<<>>) = {}
  BY EmptySeq DEF IsInjective, Range

LEMMA InitInv == Init => IInv
<1> SUFFICES ASSUME Init PROVE IInv
  OBVIOUS
<1>1. OwnershipType
  BY EmptyVector, WarmSetAssumption DEF Init, OwnershipType
<1>2. \A t \in Threads : Holds(t) = {}
  BY EmptyVector DEF Init, Holds
<1>3. Apart
  BY <1>2, EmptyVector DEF Init, Apart
<1>4. Live
  BY <1>2, EmptyVector DEF Init, Live
<1>5. Lengths
  BY DEF Init, Lengths
<1> QED BY <1>1, <1>3, <1>4, <1>5 DEF IInv

LEMMA TakeKeeps ==
  ASSUME IInv, NEW t \in Threads, Take(t)
  PROVE  IInv'
<1> PICK n \in Sizes : TakeFrom(t, n) /\ held' = [held EXCEPT ![t] = @ \cup {Taken(n)}]
  BY DEF Take
<1> DEFINE b == Taken(n)
<1>1. /\ b \in Buffers /\ \A u \in Threads : b \notin Holds(u)
      /\ pool' \in Seq(Buffers) /\ Len(pool') <= MAX_POOLED /\ IsInjective(pool')
      /\ Range(pool') = Range(pool) \ {b}
      /\ cap' \in [Buffers -> Nat] /\ cap'[b] # 0
      /\ len' \in [Buffers -> Nat] /\ 0 < len'[b] /\ len'[b] <= cap'[b]
      /\ \A c \in Buffers \ {b} : cap'[c] = cap[c] /\ len'[c] = len[c]
  BY TakenIsFree
<1>2. bufs' = bufs /\ todo' = todo
  BY DEF Take
<1> HIDE DEF b
<1>3. held' = [u \in Threads |-> IF u = t THEN held[u] \cup {b} ELSE held[u]]
  BY DEF b, IInv, OwnershipType
<1>4. OwnershipType'
  BY <1>1, <1>2, <1>3 DEF IInv, OwnershipType
<1>5. \A u \in Threads : Holds(u)' = IF u = t THEN Holds(u) \cup {b} ELSE Holds(u)
  BY <1>2, <1>3 DEF Holds
<1>6. \A u \in Threads : IsInjective(bufs'[u]) /\ held'[u] \cap Range(bufs'[u]) = {}
  BY <1>1, <1>2, <1>3 DEF IInv, Apart, Holds
<1> QED BY <1>1, <1>4, <1>5, <1>6, Received

LEMMA GiveKeeps ==
  ASSUME IInv, NEW t \in Threads, Give(t)
  PROVE  IInv'
<1> PICK b \in held[t] : GiveTo(t, b) /\ held' = [held EXCEPT ![t] = @ \ {b}]
  BY DEF Give
<1>1. b \in Holds(t)
  BY DEF Holds
<1>2. bufs' = bufs /\ todo' = todo
  BY DEF Give
<1>3. held' = [u \in Threads |-> IF u = t THEN held[u] \ {b} ELSE held[u]]
  BY DEF IInv, OwnershipType
<1>4. OwnershipType'
  <2>1. pool' \in Seq(Buffers) /\ Len(pool') <= MAX_POOLED /\ cap' \in [Buffers -> Nat] /\ len' \in [Buffers -> Nat]
    BY <1>1, GivenIsPooled
  <2> QED BY <1>2, <1>3, <2>1 DEF IInv, OwnershipType
<1>5. \A u \in Threads : Holds(u)' = IF u = t THEN Holds(u) \ {b} ELSE Holds(u)
  <2>1. b \notin Range(bufs[t])
    BY DEF IInv, Apart
  <2> QED BY <1>2, <1>3, <2>1 DEF Holds
<1>6. \A u \in Threads : IsInjective(bufs'[u]) /\ held'[u] \cap Range(bufs'[u]) = {}
  BY <1>2, <1>3 DEF IInv, Apart
<1> QED BY <1>1, <1>4, <1>5, <1>6, Pooled

LEMMA PrewarmTakeKeeps ==
  ASSUME IInv, NEW t \in Threads, PrewarmTake(t)
  PROVE  IInv'
<1> DEFINE n == Head(todo[t])
           b == Taken(n)
<1>1. n \in Sizes /\ Tail(todo[t]) \in Seq(Sizes) /\ TakeFrom(t, n)
  BY HeadTailProperties DEF PrewarmTake, IInv, OwnershipType
<1>2. /\ bufs' = [u \in Threads |-> IF u = t THEN Append(bufs[u], b) ELSE bufs[u]]
      /\ todo' = [u \in Threads |-> IF u = t THEN Tail(todo[u]) ELSE todo[u]]
      /\ held' = held
  BY DEF PrewarmTake, IInv, OwnershipType
<1> HIDE DEF n
<1>3. /\ b \in Buffers /\ \A u \in Threads : b \notin Holds(u)
      /\ pool' \in Seq(Buffers) /\ Len(pool') <= MAX_POOLED /\ IsInjective(pool')
      /\ Range(pool') = Range(pool) \ {b}
      /\ cap' \in [Buffers -> Nat] /\ cap'[b] # 0
      /\ len' \in [Buffers -> Nat] /\ 0 < len'[b] /\ len'[b] <= cap'[b]
      /\ \A c \in Buffers \ {b} : cap'[c] = cap[c] /\ len'[c] = len[c]
  BY <1>1, TakenIsFree
<1> HIDE DEF b
<1>4. /\ Append(bufs[t], b) \in Seq(Buffers) /\ IsInjective(Append(bufs[t], b))
      /\ Range(Append(bufs[t], b)) = Range(bufs[t]) \cup {b}
  BY <1>3, AddElement DEF IInv, OwnershipType, Apart, Holds
<1>5. OwnershipType'
  BY <1>1, <1>2, <1>3, <1>4 DEF IInv, OwnershipType, n
<1>6. \A u \in Threads : Holds(u)' = IF u = t THEN Holds(u) \cup {b} ELSE Holds(u)
  BY <1>2, <1>4 DEF Holds
<1>7. \A u \in Threads : IsInjective(bufs'[u]) /\ held'[u] \cap Range(bufs'[u]) = {}
  BY <1>2, <1>3, <1>4 DEF IInv, Apart, Holds
<1> QED BY <1>3, <1>5, <1>6, <1>7, Received

LEMMA PrewarmGiveKeeps ==
  ASSUME IInv, NEW t \in Threads, PrewarmGive(t)
  PROVE  IInv'
<1> DEFINE b == Head(bufs[t])
<1>1. /\ b \in Buffers /\ b \in Range(bufs[t]) /\ Tail(bufs[t]) \in Seq(Buffers)
      /\ IsInjective(Tail(bufs[t])) /\ Range(Tail(bufs[t])) = Range(bufs[t]) \ {b}
  BY RemoveHead DEF PrewarmGive, IInv, OwnershipType, Apart
<1>2. /\ bufs' = [u \in Threads |-> IF u = t THEN Tail(bufs[u]) ELSE bufs[u]]
      /\ held' = held /\ todo' = todo /\ GiveTo(t, b)
  BY DEF PrewarmGive, IInv, OwnershipType
<1> HIDE DEF b
<1>3. b \in Holds(t)
  BY <1>1 DEF Holds
<1>4. OwnershipType'
  <2>1. pool' \in Seq(Buffers) /\ Len(pool') <= MAX_POOLED /\ cap' \in [Buffers -> Nat] /\ len' \in [Buffers -> Nat]
    BY <1>2, <1>3, GivenIsPooled
  <2> QED BY <1>1, <1>2, <2>1 DEF IInv, OwnershipType
<1>5. \A u \in Threads : Holds(u)' = IF u = t THEN Holds(u) \ {b} ELSE Holds(u)
  <2>1. b \notin held[t]
    BY <1>1 DEF IInv, Apart
  <2> QED BY <1>1, <1>2, <2>1 DEF Holds
<1>6. \A u \in Threads : IsInjective(bufs'[u]) /\ held'[u] \cap Range(bufs'[u]) = {}
  BY <1>1, <1>2 DEF IInv, Apart
<1> QED BY <1>2, <1>3, <1>4, <1>5, <1>6, Pooled

LEMMA DiscardKeeps ==
  ASSUME IInv, NEW t \in Threads, Discard(t)
  PROVE  IInv'
<1> PICK b \in held[t] : /\ cap' = [cap EXCEPT ![b] = 0] /\ len' = [len EXCEPT ![b] = 0]
                         /\ held' = [held EXCEPT ![t] = @ \ {b}]
  BY DEF Discard
<1>1. pool' = pool /\ bufs' = bufs /\ todo' = todo
  BY DEF Discard
<1>2. /\ cap' = [c \in Buffers |-> IF c = b THEN 0 ELSE cap[c]]
      /\ len' = [c \in Buffers |-> IF c = b THEN 0 ELSE len[c]]
      /\ held' = [u \in Threads |-> IF u = t THEN held[u] \ {b} ELSE held[u]]
  BY DEF IInv, OwnershipType
<1>3. OwnershipType'
  BY <1>1, <1>2 DEF IInv, OwnershipType
<1>4. /\ b \in Buffers /\ b \notin Range(pool) /\ b \notin Range(bufs[t]) /\ b \in Holds(t)
      /\ \A u \in Threads : u # t => b \notin Holds(u)
  BY DEF IInv, OwnershipType, Apart, Holds
<1>5. \A u \in Threads : Holds(u)' = Holds(u) \ {b}
  BY <1>1, <1>2, <1>4 DEF Holds
<1>6. Apart'
  <2>1. \A u \in Threads : held'[u] \cap Range(bufs'[u]) = {} /\ Holds(u)' \cap Range(pool') = {}
    BY <1>1, <1>2, <1>5 DEF IInv, Apart
  <2>2. \A u, w \in Threads : u # w => Holds(u)' \cap Holds(w)' = {}
    BY <1>5 DEF IInv, Apart
  <2> QED BY <1>1, <2>1, <2>2 DEF IInv, Apart
<1>7. Live'
  BY <1>1, <1>2, <1>4, <1>5 DEF IInv, Live
<1>8. Lengths'
  BY <1>2 DEF IInv, Lengths
<1> QED BY <1>3, <1>6, <1>7, <1>8 DEF IInv

LEMMA ClearKeeps ==
  ASSUME IInv, NEW t \in Threads, Clear(t)
  PROVE  IInv'
<1>1. /\ cap' = [b \in Buffers |-> IF b \in Range(pool) THEN 0 ELSE cap[b]] /\ pool' = <<>>
      /\ len' = [b \in Buffers |-> IF b \in Range(pool) THEN 0 ELSE len[b]]
      /\ bufs' = bufs /\ todo' = todo /\ held' = held
  BY DEF Clear
<1>2. OwnershipType'
  BY <1>1, EmptyVector, WarmSetAssumption DEF IInv, OwnershipType
<1>3. Range(pool') = {} /\ IsInjective(pool') /\ \A u \in Threads : Holds(u)' = Holds(u)
  BY <1>1, EmptyVector DEF Holds
<1>4. Apart'
  BY <1>1, <1>3 DEF IInv, Apart
<1>5. Live'
  BY <1>1, <1>3 DEF IInv, Live, Apart
<1>6. Lengths'
  BY <1>1 DEF IInv, Lengths
<1> QED BY <1>2, <1>4, <1>5, <1>6 DEF IInv

LEMMA PrewarmStartKeeps ==
  ASSUME IInv, NEW t \in Threads, PrewarmStart(t)
  PROVE  IInv'
<1>1. cap' = cap /\ len' = len /\ pool' = pool /\ held' = held /\ bufs' = bufs /\ todo' = [todo EXCEPT ![t] = WarmSet]
  BY DEF PrewarmStart
<1>2. WarmSet \in Seq(Sizes)
  <2>1. NLarge + NSmall \in Nat
    BY WarmSetAssumption
  <2> QED BY <2>1 DEF WarmSet, Sizes
<1>3. OwnershipType'
  BY <1>1, <1>2 DEF IInv, OwnershipType
<1>4. \A u \in Threads : Holds(u)' = Holds(u)
  BY <1>1 DEF Holds
<1> QED BY <1>1, <1>3, <1>4 DEF IInv, Apart, Live, Lengths

LEMMA Step == IInv /\ [Next]_vars => IInv'
<1> SUFFICES ASSUME IInv, [Next]_vars PROVE IInv'
  OBVIOUS
<1>1. ASSUME NEW t \in Threads, ThreadNext(t) PROVE IInv'
  BY <1>1, TakeKeeps, GiveKeeps, DiscardKeeps, ClearKeeps, PrewarmStartKeeps, PrewarmTakeKeeps, PrewarmGiveKeeps
     DEF ThreadNext
<1>2. CASE UNCHANGED vars
  BY <1>2 DEF vars, IInv, OwnershipType, Apart, Live, Lengths, Holds
<1> QED BY <1>1, <1>2 DEF Next

LEMMA Inductive == Spec => []IInv
  BY InitInv, Step, PTL DEF Spec

-----------------------------------------------------------------------------
(* Whatever any number of threads take, give, prewarm, evict and clear, in any order, *)
(* the buffers they hold are allocated and no longer than their allocation.           *)
THEOREM HeldBuffersFit == Spec => []LengthsFit
<1>1. ASSUME IInv PROVE LengthsFit
  <2>1. ASSUME NEW t \in Threads, NEW b \in Holds(t) PROVE 0 < len[b] /\ len[b] <= cap[b]
    <3>1. held[t] \subseteq Buffers /\ Range(bufs[t]) \subseteq Buffers
      BY <1>1, RangeOfElements DEF IInv, OwnershipType
    <3>2. b \in Buffers
      BY <3>1 DEF Holds
    <3> QED BY <1>1, <3>2 DEF IInv, Live, Lengths
  <2> QED BY <1>1, <2>1 DEF LengthsFit, IInv, OwnershipType
<1> QED BY <1>1, Inductive, PTL

LEMMA EvictsTheSmallest ==
  ASSUME IInv, NEW b \in Buffers, cap[b] # 0, cap'[b] = 0,
         NEW t \in Threads, Give(t) \/ PrewarmGive(t)
  PROVE  \A i \in DOMAIN pool' : cap[b] <= cap'[pool'[i]]
<1>1. PICK c \in Holds(t) : GiveTo(t, c)
  <2>1. CASE Give(t)
    BY <2>1 DEF Give, Holds
  <2>2. CASE PrewarmGive(t)
    BY <2>2, RemoveHead DEF PrewarmGive, Holds, IInv, OwnershipType, Apart
  <2> QED BY <2>1, <2>2
<1>2. PICK v \in Range(pool) \cup {c} :
        /\ Range(pool') = (Range(pool) \cup {c}) \ {v}
        /\ cap' = [cap EXCEPT ![v] = 0]
        /\ \A d \in Range(pool') : cap[v] <= cap[d]
  BY <1>1, GivenIsPooled
<1>3. v = b
  BY <1>2 DEF IInv, OwnershipType
<1>4. Range(pool') \subseteq Buffers
  BY <1>1, GivenIsPooled, RangeOfElements
<1>5. ASSUME NEW i \in DOMAIN pool' PROVE cap[b] <= cap'[pool'[i]]
  <2>1. pool'[i] \in Range(pool') /\ pool'[i] # v
    BY <1>2 DEF Range
  <2>2. cap'[pool'[i]] = cap[pool'[i]]
    BY <1>2, <1>4, <2>1 DEF IInv, OwnershipType
  <2> QED BY <1>2, <1>3, <2>1, <2>2
<1> QED BY <1>5

(* Giving a buffer back never frees one that is larger than one the pool keeps. *)
THEOREM EvictionSparesTheLarge == Spec => LargeBuffersSurvive
<1>1. IInv /\ [Next]_vars =>
        [\A b \in Buffers :
          cap[b] # 0 /\ cap'[b] = 0 /\ (\E t \in Threads : Give(t) \/ PrewarmGive(t))
            => \A i \in DOMAIN pool' : cap[b] <= cap'[pool'[i]]]_vars
  BY EvictsTheSmallest
<1> QED BY <1>1, Inductive, PTL DEF Spec, LargeBuffersSurvive
=============================================================================
