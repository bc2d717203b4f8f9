------------------------- MODULE VeilFlock_proofs -------------------------
(***************************************************************************)
(* The succinct VEIL protocol for every layout, number of rounds, bound    *)
(* and run of bad answers: every mask pads one message, a proof that is    *)
(* accepted is the one that was sent up to query nonces nobody reads, the  *)
(* one that was sent is accepted, and no challenge is drawn before what it *)
(* must not be chosen by.                                                  *)
(***************************************************************************)
EXTENDS VeilFlock, WellFoundedInduction, TLAPS

-----------------------------------------------------------------------------
(* The layout of the masks: where each private message begins.                    *)
RingClaimFields == {"ring1_witness", "ring1_blind", "ring2_witness", "ring2_blind"}
Private == PiopFields \cup RingClaimFields

Base == [round1_ab |-> 0, round1_c |-> Ell, rounds |-> 2 * Ell,
         finals |-> 2 * Ell + 2 * ZcRounds, lc_rounds |-> 2 * Ell + 2 * ZcRounds + 2,
         z_partial |-> 2 * Ell + 2 * ZcRounds + 2 + 2 * LcRounds,
         ring1_witness |-> PiopCount, ring1_blind |-> PiopCount + RingWidth,
         ring2_witness |-> PiopCount + 2 * RingWidth, ring2_blind |-> PiopCount + 3 * RingWidth]

Padded(f, i) == [V(f, i) EXCEPT !.mask = Base[f] + i]

LEMMA Bounds ==
  /\ Ell \in Nat \ {0} /\ ZPartial \in Nat \ {0} /\ RingWidth \in Nat \ {0}
  /\ ZcRounds \in Nat /\ LcRounds \in Nat /\ FoldSites \in Nat /\ ConstPin \in BOOLEAN
BY LayoutAssumption

LEMMA Lengths ==
  /\ FieldLen["round1_ab"] = Ell /\ FieldLen["round1_c"] = Ell
  /\ FieldLen["rounds"] = 2 * ZcRounds /\ FieldLen["finals"] = 2
  /\ FieldLen["lc_rounds"] = 2 * LcRounds /\ FieldLen["z_partial"] = ZPartial
  /\ FieldLen["ring1_witness"] = RingWidth /\ FieldLen["ring1_blind"] = RingWidth
  /\ FieldLen["ring2_witness"] = RingWidth /\ FieldLen["ring2_blind"] = RingWidth
BY DEF FieldLen

LEMMA PublicLengths ==
  /\ FieldLen["direct_blinds"] = 1 /\ FieldLen["blind_nonce"] = 1
  /\ FieldLen["q1"] = RingWidth /\ FieldLen["q2"] = RingWidth /\ FieldLen["fold_nonces"] = FoldSites
  /\ FieldLen["surplus"] = 0
BY DEF FieldLen

LEMMA FieldNames ==
  Field = Private \cup {"statement", "root", "proof_nonce", "outer", "veil_linear",
            "veil_hadamard", "veil_root", "direct_blinds", "blind_nonce", "q1", "q2",
            "fold_nonces", "surplus", "pcs_body", "veil_body"}
BY DEF FieldLen, Field, Private, PiopFields, RingClaimFields

LEMMA LengthsAreNat == \A f \in Field : FieldLen[f] \in Nat
BY Bounds DEF FieldLen, Field

LEMMA Bases ==
  /\ Base["round1_ab"] = 0 /\ Base["round1_c"] = Ell /\ Base["rounds"] = 2 * Ell
  /\ Base["finals"] = 2 * Ell + 2 * ZcRounds /\ Base["lc_rounds"] = 2 * Ell + 2 * ZcRounds + 2
  /\ Base["z_partial"] = 2 * Ell + 2 * ZcRounds + 2 + 2 * LcRounds
  /\ Base["ring1_witness"] = PiopCount /\ Base["ring1_blind"] = PiopCount + RingWidth
  /\ Base["ring2_witness"] = PiopCount + 2 * RingWidth
  /\ Base["ring2_blind"] = PiopCount + 3 * RingWidth
BY DEF Base

(* v counts the elements of the fields before each. *)
Counts(fields, v) ==
    v = [k \in DOMAIN fields |-> IF k = 1 THEN 0 ELSE v[k - 1] + FieldLen[fields[k - 1]]]
Distinct(fields) == \A j, k \in DOMAIN fields : fields[j] = fields[k] => j = k

(* A solution of the recursion in Before is what Before returns, field by field. *)
LEMMA BeforeIsRecursive ==
  ASSUME NEW fields, NEW u, Counts(fields, u), Distinct(fields)
  PROVE  \E v : Counts(fields, v) /\ \A k \in DOMAIN fields : Before(fields)[fields[k]] = v[k]
<1> DEFINE v == CHOOSE g : g = [k \in DOMAIN fields |-> IF k = 1 THEN 0 ELSE g[k - 1] + FieldLen[fields[k - 1]]]
<1>1. Counts(fields, v)
  BY DEF Counts
<1>2. Before(fields) = [f \in Range(fields) |-> v[CHOOSE k \in DOMAIN fields : fields[k] = f]]
  BY DEF Before
<1> HIDE DEF v
<1>3. ASSUME NEW k \in DOMAIN fields PROVE Before(fields)[fields[k]] = v[k]
  <2>1. fields[k] \in Range(fields)
    BY DEF Range
  <2>2. (CHOOSE j \in DOMAIN fields : fields[j] = fields[k]) = k
    BY DEF Distinct
  <2> QED
    BY <1>2, <2>1, <2>2, Zenon
<1> WITNESS v
<1> QED
  BY <1>1, <1>3

PiopOrder == <<"round1_ab", "round1_c", "rounds", "finals", "lc_rounds", "z_partial">>
RingOrder == <<"ring1_witness", "ring1_blind", "ring2_witness", "ring2_blind">>

(* mask_proofs pads each field from its base on. *)
LEMMA PiopBefore ==
  Range(PiopOrder) = PiopFields /\ \A f \in PiopFields : Before(PiopOrder)[f] = Base[f]
<1> DEFINE u == [k \in 1..6 |-> CASE k = 1 -> 0 [] k = 2 -> Ell [] k = 3 -> 2 * Ell
              [] k = 4 -> 2 * Ell + 2 * ZcRounds [] k = 5 -> 2 * Ell + 2 * ZcRounds + 2
              [] k = 6 -> 2 * Ell + 2 * ZcRounds + 2 + 2 * LcRounds]
<1>1. Counts(PiopOrder, u)
  BY Lengths, Bounds DEF Counts, PiopOrder
<1> HIDE DEF u
<1>5. DOMAIN PiopOrder = 1..6 /\ Distinct(PiopOrder)
  BY DEF Distinct, PiopOrder
<1>2. PICK v : Counts(PiopOrder, v) /\ \A k \in DOMAIN PiopOrder : Before(PiopOrder)[PiopOrder[k]] = v[k]
  BY <1>1, <1>5, BeforeIsRecursive
<1>3. /\ v[1] = 0 /\ v[2] = Ell /\ v[3] = 2 * Ell /\ v[4] = 2 * Ell + 2 * ZcRounds
      /\ v[5] = 2 * Ell + 2 * ZcRounds + 2 /\ v[6] = 2 * Ell + 2 * ZcRounds + 2 + 2 * LcRounds
  BY <1>2, Lengths, Bounds DEF Counts, PiopOrder
<1>4. DOMAIN PiopOrder = 1..6 /\ Range(PiopOrder) = PiopFields
  BY DEF PiopOrder, Range, PiopFields
<1>6. \A k \in 1..6 : Before(PiopOrder)[PiopOrder[k]] = v[k]
  BY <1>2, <1>5
<1>7. \A k \in 1..6 : v[k] = Base[PiopOrder[k]]
  BY <1>3, Bases DEF PiopOrder
<1> QED
  BY <1>4, <1>6, <1>7 DEF Range

(* mask_ring_claims goes on where the PIOP's masks end. *)
LEMMA RingBefore ==
  Range(RingOrder) = RingClaimFields
    /\ \A f \in RingClaimFields : PiopCount + Before(RingOrder)[f] = Base[f]
<1> DEFINE u == [k \in 1..4 |-> CASE k = 1 -> 0 [] k = 2 -> RingWidth [] k = 3 -> 2 * RingWidth
              [] k = 4 -> 3 * RingWidth]
<1>1. Counts(RingOrder, u)
  BY Lengths, Bounds DEF Counts, RingOrder
<1> HIDE DEF u
<1>5. DOMAIN RingOrder = 1..4 /\ Distinct(RingOrder)
  BY DEF Distinct, RingOrder
<1>2. PICK v : Counts(RingOrder, v) /\ \A k \in DOMAIN RingOrder : Before(RingOrder)[RingOrder[k]] = v[k]
  BY <1>1, <1>5, BeforeIsRecursive
<1>3. /\ v[1] = 0 /\ v[2] = RingWidth /\ v[3] = 2 * RingWidth /\ v[4] = 3 * RingWidth
  BY <1>2, Lengths, Bounds DEF Counts, RingOrder
<1>4. DOMAIN RingOrder = 1..4 /\ Range(RingOrder) = RingClaimFields
  BY DEF RingOrder, Range, RingClaimFields
<1>6. \A k \in 1..4 : Before(RingOrder)[RingOrder[k]] = v[k]
  BY <1>2, <1>5
<1>7. \A k \in 1..4 : PiopCount + v[k] = Base[RingOrder[k]]
  BY <1>3, Bases, Bounds DEF RingOrder, PiopCount
<1> QED
  BY <1>4, <1>6, <1>7 DEF Range

(* The circuit takes its variables in the order of the masks. *)
LEMMA UnmaskBefore ==
  Range(UnmaskOrder) = Private /\ \A f \in Private : Before(UnmaskOrder)[f] = Base[f]
<1> DEFINE u == [k \in 1..10 |-> CASE k = 1 -> 0 [] k = 2 -> Ell [] k = 3 -> 2 * Ell
              [] k = 4 -> 2 * Ell + 2 * ZcRounds [] k = 5 -> 2 * Ell + 2 * ZcRounds + 2
              [] k = 6 -> 2 * Ell + 2 * ZcRounds + 2 + 2 * LcRounds
              [] k = 7 -> PiopCount [] k = 8 -> PiopCount + RingWidth
              [] k = 9 -> PiopCount + 2 * RingWidth [] k = 10 -> PiopCount + 3 * RingWidth]
<1>1. Counts(UnmaskOrder, u)
  BY Lengths, Bounds DEF Counts, UnmaskOrder, PiopCount
<1> HIDE DEF u
<1>5. DOMAIN UnmaskOrder = 1..10 /\ Distinct(UnmaskOrder)
  BY DEF Distinct, UnmaskOrder
<1>2. PICK v : Counts(UnmaskOrder, v) /\ \A k \in DOMAIN UnmaskOrder : Before(UnmaskOrder)[UnmaskOrder[k]] = v[k]
  BY <1>1, <1>5, BeforeIsRecursive
<1>3. /\ v[1] = 0 /\ v[2] = Ell /\ v[3] = 2 * Ell /\ v[4] = 2 * Ell + 2 * ZcRounds
      /\ v[5] = 2 * Ell + 2 * ZcRounds + 2 /\ v[6] = 2 * Ell + 2 * ZcRounds + 2 + 2 * LcRounds
      /\ v[7] = PiopCount /\ v[8] = PiopCount + RingWidth
      /\ v[9] = PiopCount + 2 * RingWidth /\ v[10] = PiopCount + 3 * RingWidth
  BY <1>2, Lengths, Bounds DEF Counts, UnmaskOrder, PiopCount
<1>4. DOMAIN UnmaskOrder = 1..10 /\ Range(UnmaskOrder) = Private
  BY DEF UnmaskOrder, Range, Private, PiopFields, RingClaimFields
<1>6. \A k \in 1..10 : Before(UnmaskOrder)[UnmaskOrder[k]] = v[k]
  BY <1>2, <1>5
<1>7. \A k \in 1..10 : v[k] = Base[UnmaskOrder[k]]
  BY <1>3, Bases DEF UnmaskOrder
<1> QED
  BY <1>4, <1>6, <1>7 DEF Range

(* What masking makes of a proof. *)
LEMMA MaskedProofIs ==
  ASSUME NEW q
  PROVE  MaskedProof(q) = [f \in Field |-> IF f \in Private THEN [i \in 1..FieldLen[f] |-> Padded(f, i)]
                                           ELSE q[f]]
<1>1. MaskProofs = [f \in PiopFields |-> [i \in 1..FieldLen[f] |-> Padded(f, i)]]
  <2>1. MaskProofs = [f \in Range(PiopOrder) |->
                        [i \in 1..FieldLen[f] |-> [V(f, i) EXCEPT !.mask = 0 + Before(PiopOrder)[f] + i]]]
    BY DEF MaskProofs, Masked, PiopOrder
  <2>2. \A f \in PiopFields : 0 + Before(PiopOrder)[f] = Base[f]
    BY PiopBefore, Bases, Bounds DEF PiopFields
  <2> QED
    BY <2>1, <2>2, PiopBefore DEF Padded
<1>2. MaskRingClaims = [f \in RingClaimFields |-> [i \in 1..FieldLen[f] |-> Padded(f, i)]]
  <2>1. MaskRingClaims = [f \in Range(RingOrder) |->
                        [i \in 1..FieldLen[f] |-> [V(f, i) EXCEPT !.mask = PiopCount + Before(RingOrder)[f] + i]]]
    BY DEF MaskRingClaims, Masked, RingOrder
  <2> QED
    BY <2>1, RingBefore DEF Padded
<1> QED
  BY <1>1, <1>2 DEF MaskedProof, Private

(* No mask pads two coordinates. *)
LEMMA MasksAreDisjoint ==
  ASSUME NEW f \in Private, NEW i \in 1..FieldLen[f], NEW g \in Private, NEW j \in 1..FieldLen[g]
  PROVE  Base[f] + i # 0 /\ (Base[f] + i = Base[g] + j => f = g /\ i = j)
<1>1. Base[f] \in Nat /\ Base[g] \in Nat /\ i \in Nat \ {0} /\ j \in Nat \ {0}
  BY Bases, Lengths, Bounds DEF PiopCount, Private, PiopFields, RingClaimFields
<1>2. i <= FieldLen[f] /\ j <= FieldLen[g] /\ FieldLen[f] \in Nat /\ FieldLen[g] \in Nat
  BY LengthsAreNat, FieldNames
<1>3. f # g => Base[f] + FieldLen[f] <= Base[g] \/ Base[g] + FieldLen[g] <= Base[f]
  BY Bases, Lengths, Bounds DEF PiopCount, Private, PiopFields, RingClaimFields
<1> QED
  BY <1>1, <1>2, <1>3

-----------------------------------------------------------------------------
(* The blocks of the PIOP, one by one. *)
Pins == IF ConstPin THEN 1 ELSE 0
N == 4 + Pins + ZcRounds + LcRounds

Round(f, r) == Block(<<Scalar(f, 2 * r - 1), Scalar(f, 2 * r)>>, "rho")
Opening == <<Block(<<Mark("flock-zerocheck")>>, "eq"),
             Block(<<Slice("round1_ab"), Slice("round1_c")>>, "z")>>
Finals == Block(<<Scalar("finals", 1), Scalar("finals", 2), Mark("flock-lincheck")>>, "alpha")
Pinning == IF ConstPin THEN <<Block(<<>>, "beta")>> ELSE <<>>
Closing == Block(<<Slice("z_partial")>>, "r_inner_skip")
BlockSet ==
    {Opening[1], Opening[2], Finals, Block(<<>>, "beta"), Closing}
        \cup {Round(f, r) : f \in {"rounds", "lc_rounds"}, r \in Nat}

LEMMA Concatenation ==
  ASSUME NEW S, NEW s \in Seq(S), NEW t \in Seq(S)
  PROVE  /\ s \o t \in Seq(S) /\ Len(s \o t) = Len(s) + Len(t)
         /\ \A i \in 1..Len(s) : (s \o t)[i] = s[i]
         /\ \A i \in 1..Len(t) : (s \o t)[Len(s) + i] = t[i]
OBVIOUS

LEMMA PinsType == Pins \in 0..1 /\ N \in Nat /\ N >= 4
BY Bounds DEF Pins, N

LEMMA BlockTypes ==
  /\ Opening \in Seq(BlockSet) /\ <<Finals>> \in Seq(BlockSet) /\ Pinning \in Seq(BlockSet)
  /\ <<Closing>> \in Seq(BlockSet)
  /\ RoundBlocks("rounds", ZcRounds, "rho") \in Seq(BlockSet)
  /\ RoundBlocks("lc_rounds", LcRounds, "rho") \in Seq(BlockSet)
<1>1. \A f \in {"rounds", "lc_rounds"}, n \in Nat : RoundBlocks(f, n, "rho") \in Seq(BlockSet)
  <2> TAKE f \in {"rounds", "lc_rounds"}, n \in Nat
  <2>1. RoundBlocks(f, n, "rho") = [i \in 1..n |-> Round(f, i)]
    BY DEF RoundBlocks, Round
  <2>2. \A i \in 1..n : Round(f, i) \in BlockSet
    BY DEF BlockSet
  <2> QED
    BY <2>1, <2>2
<1>2. Opening[1] \in BlockSet /\ Opening[2] \in BlockSet /\ Finals \in BlockSet
      /\ Block(<<>>, "beta") \in BlockSet /\ Closing \in BlockSet
  BY DEF BlockSet
<1>3. Opening \in Seq(BlockSet)
  <2>1. Opening = <<Opening[1], Opening[2]>>
    BY DEF Opening
  <2>2. \A a, b \in BlockSet : <<a, b>> \in Seq(BlockSet)
    OBVIOUS
  <2> QED
    BY <2>1, <2>2, <1>2, Zenon
<1>4. Pinning \in Seq(BlockSet)
  <2>1. CASE ConstPin
    BY <2>1, <1>2 DEF Pinning
  <2>2. CASE ~ConstPin
    BY <2>2 DEF Pinning
  <2> QED
    BY <2>1, <2>2
<1>5. <<Finals>> \in Seq(BlockSet) /\ <<Closing>> \in Seq(BlockSet)
  BY <1>2
<1> QED
  BY <1>1, <1>3, <1>4, <1>5, Bounds, Zenon

(* Where each block stands. *)
LEMMA BlocksAre ==
  /\ ProverBlocks \in Seq(BlockSet) /\ Len(ProverBlocks) = N
  /\ ProverBlocks[1] = Block(<<Mark("flock-zerocheck")>>, "eq")
  /\ ProverBlocks[2] = Block(<<Slice("round1_ab"), Slice("round1_c")>>, "z")
  /\ \A r \in 1..ZcRounds : ProverBlocks[2 + r] = Round("rounds", r)
  /\ ProverBlocks[3 + ZcRounds] = Finals
  /\ ConstPin => ProverBlocks[4 + ZcRounds] = Block(<<>>, "beta")
  /\ \A r \in 1..LcRounds : ProverBlocks[3 + ZcRounds + Pins + r] = Round("lc_rounds", r)
  /\ ProverBlocks[N] = Closing
<1> DEFINE B == RoundBlocks("rounds", ZcRounds, "rho")
           D == RoundBlocks("lc_rounds", LcRounds, "rho")
           s2 == Opening \o B
           s3 == s2 \o <<Finals>>
           s4 == s3 \o Pinning
           s5 == s4 \o D
<1>1. ProverBlocks = s5 \o <<Closing>>
  BY DEF ProverBlocks, Opening, Finals, Pinning, Closing
<1>2. Len(B) = ZcRounds /\ \A r \in 1..ZcRounds : B[r] = Round("rounds", r)
  BY Bounds DEF RoundBlocks, Round
<1>3. Len(D) = LcRounds /\ \A r \in 1..LcRounds : D[r] = Round("lc_rounds", r)
  BY Bounds DEF RoundBlocks, Round
<1>4. Len(Opening) = 2 /\ Len(<<Finals>>) = 1 /\ Len(Pinning) = Pins /\ Len(<<Closing>>) = 1
  BY DEF Opening, Pinning, Pins
<1>5. B \in Seq(BlockSet) /\ D \in Seq(BlockSet)
  BY BlockTypes
<1> HIDE DEF B, D
<1>6. /\ s2 \in Seq(BlockSet) /\ Len(s2) = 2 + ZcRounds
      /\ s2[1] = Opening[1] /\ s2[2] = Opening[2]
      /\ \A r \in 1..ZcRounds : s2[2 + r] = Round("rounds", r)
  <2>1. /\ s2 \in Seq(BlockSet) /\ Len(s2) = Len(Opening) + Len(B)
        /\ \A i \in 1..Len(Opening) : s2[i] = Opening[i]
        /\ \A i \in 1..Len(B) : s2[Len(Opening) + i] = B[i]
    BY <1>5, BlockTypes, Concatenation
  <2> HIDE DEF s2
  <2> QED
    BY <2>1, <1>2, <1>4, Bounds
<1> HIDE DEF s2
<1>7. /\ s3 \in Seq(BlockSet) /\ Len(s3) = 3 + ZcRounds
      /\ \A i \in 1..(2 + ZcRounds) : s3[i] = s2[i]
      /\ s3[3 + ZcRounds] = Finals
  <2>1. /\ s3 \in Seq(BlockSet) /\ Len(s3) = Len(s2) + Len(<<Finals>>)
        /\ \A i \in 1..Len(s2) : s3[i] = s2[i]
        /\ \A i \in 1..Len(<<Finals>>) : s3[Len(s2) + i] = <<Finals>>[i]
    BY <1>6, BlockTypes, Concatenation, SMTT(30)
  <2> HIDE DEF s3
  <2>2. s3[Len(s2) + 1] = Finals
    BY <2>1, <1>4
  <2> QED
    BY <2>1, <2>2, <1>4, <1>6, Bounds
<1> HIDE DEF s3
<1>8. /\ s4 \in Seq(BlockSet) /\ Len(s4) = 3 + ZcRounds + Pins
      /\ \A i \in 1..(3 + ZcRounds) : s4[i] = s3[i]
      /\ ConstPin => s4[4 + ZcRounds] = Block(<<>>, "beta")
  <2>1. /\ s4 \in Seq(BlockSet) /\ Len(s4) = Len(s3) + Len(Pinning)
        /\ \A i \in 1..Len(s3) : s4[i] = s3[i]
        /\ \A i \in 1..Len(Pinning) : s4[Len(s3) + i] = Pinning[i]
    <3>1. s3 \in Seq(BlockSet)
      BY <1>7
    <3>2. Pinning \in Seq(BlockSet)
      BY BlockTypes
    <3> QED
      BY <3>1, <3>2, Concatenation
  <2> HIDE DEF s4
  <2>2. ConstPin => Pinning[1] = Block(<<>>, "beta") /\ Pins = 1
    BY DEF Pinning, Pins
  <2>3. ConstPin => s4[Len(s3) + 1] = Block(<<>>, "beta")
    BY <2>1, <2>2, <1>4
  <2> QED
    BY <2>1, <2>3, <1>4, <1>7, Bounds, PinsType, SMTT(30)
<1> HIDE DEF s4
<1>9. /\ s5 \in Seq(BlockSet) /\ Len(s5) = 3 + ZcRounds + Pins + LcRounds
      /\ \A i \in 1..(3 + ZcRounds + Pins) : s5[i] = s4[i]
      /\ \A r \in 1..LcRounds : s5[3 + ZcRounds + Pins + r] = Round("lc_rounds", r)
  <2>1. /\ s5 \in Seq(BlockSet) /\ Len(s5) = Len(s4) + Len(D)
        /\ \A i \in 1..Len(s4) : s5[i] = s4[i]
        /\ \A i \in 1..Len(D) : s5[Len(s4) + i] = D[i]
    <3>1. s4 \in Seq(BlockSet)
      BY <1>8
    <3>2. D \in Seq(BlockSet)
      BY <1>5
    <3> QED
      BY <3>1, <3>2, Concatenation
  <2> HIDE DEF s5
  <2> QED
    BY <2>1, <1>3, <1>8, Bounds, PinsType
<1> HIDE DEF s5
<1>10. /\ ProverBlocks \in Seq(BlockSet) /\ Len(ProverBlocks) = N
       /\ \A i \in 1..(3 + ZcRounds + Pins + LcRounds) : ProverBlocks[i] = s5[i]
       /\ ProverBlocks[N] = Closing
  <2>1. /\ ProverBlocks \in Seq(BlockSet) /\ Len(ProverBlocks) = Len(s5) + Len(<<Closing>>)
        /\ \A i \in 1..Len(s5) : ProverBlocks[i] = s5[i]
        /\ \A i \in 1..Len(<<Closing>>) : ProverBlocks[Len(s5) + i] = <<Closing>>[i]
    BY <1>1, <1>9, BlockTypes, Concatenation, SMTT(30)
  <2>2. ProverBlocks[Len(s5) + 1] = Closing
    BY <2>1, <1>4
  <2>3. N = Len(s5) + 1
    BY <1>9, Bounds, PinsType DEF N
  <2> QED
    BY <2>1, <2>2, <2>3, <1>4, <1>9
<1>11. Opening[1] = Block(<<Mark("flock-zerocheck")>>, "eq")
       /\ Opening[2] = Block(<<Slice("round1_ab"), Slice("round1_c")>>, "z")
  BY DEF Opening
<1>12. ASSUME NEW i \in 1..(2 + ZcRounds) PROVE ProverBlocks[i] = s2[i]
  BY <1>7, <1>8, <1>9, <1>10, Bounds, PinsType
<1>13. ProverBlocks[3 + ZcRounds] = Finals
  BY <1>7, <1>8, <1>9, <1>10, Bounds, PinsType
<1>14. ConstPin => ProverBlocks[4 + ZcRounds] = Block(<<>>, "beta")
  <2>1. ConstPin => Pins = 1
    BY DEF Pins
  <2> QED
    BY <2>1, <1>8, <1>9, <1>10, Bounds, PinsType
<1>15. \A r \in 1..LcRounds : ProverBlocks[3 + ZcRounds + Pins + r] = Round("lc_rounds", r)
  BY <1>9, <1>10, Bounds, PinsType
<1> QED
  BY <1>6, <1>10, <1>11, <1>12, <1>13, <1>14, <1>15, Bounds, SMTT(30)

-----------------------------------------------------------------------------
(* The prover's cursor before each block, and what it therefore says in it.       *)
CursorAt(n) ==
    IF n <= 2 THEN 0
    ELSE IF n <= 3 + ZcRounds THEN 2 * Ell + 2 * (n - 3)
    ELSE IF n <= 3 + ZcRounds + Pins THEN LincheckCursor
    ELSE IF n <= N THEN LincheckCursor + 2 * (n - (4 + ZcRounds + Pins))
    ELSE PiopCount

SaysOf(n) == ProverBlocks[n].says
Said(q, says) == [j \in DOMAIN says |-> ProofSay(q, says[j])]
MaskedSays(says, c) == [j \in DOMAIN says |-> MaskedSay(says[j], c + Taken(says, j))]

NextCursor(says, c) ==
    IF Mark("flock-lincheck") \in Range(says) THEN LincheckCursor ELSE c + Taken(says, Len(says) + 1)

LEMMA BlockCases ==
  ASSUME NEW n \in 1..N
  PROVE  \/ n = 1 \/ n = 2
         \/ \E r \in 1..ZcRounds : n = 2 + r
         \/ n = 3 + ZcRounds
         \/ (ConstPin /\ n = 4 + ZcRounds)
         \/ \E r \in 1..LcRounds : n = 3 + ZcRounds + Pins + r
         \/ n = N
<1>1. ConstPin => Pins = 1
  BY DEF Pins
<1>2. ~ConstPin => Pins = 0
  BY DEF Pins
<1>3. n \in 3..(2 + ZcRounds) => n - 2 \in 1..ZcRounds /\ n = 2 + (n - 2)
  BY Bounds
<1>4. n \in (4 + ZcRounds + Pins)..(3 + ZcRounds + Pins + LcRounds) =>
        /\ n - (3 + ZcRounds + Pins) \in 1..LcRounds
        /\ n = 3 + ZcRounds + Pins + (n - (3 + ZcRounds + Pins))
  BY Bounds, PinsType
<1> QED
  BY <1>1, <1>2, <1>3, <1>4, Bounds, PinsType DEF N

LEMMA SayPadded ==
  ASSUME NEW q, NEW f \in Private, NEW op, op # "label", NEW m \in Nat \ {0}, NEW to \in Nat,
         to <= FieldLen[f], NEW first, first = Base[f] + m - 1
  PROVE  LET say == [op |-> op, field |-> f, from |-> m, to |-> to]
         IN  MaskedSay(say, first) = ProofSay(MaskedProof(q), say)
<1> DEFINE say == [op |-> op, field |-> f, from |-> m, to |-> to]
<1>1. FieldLen[f] \in Nat /\ f \in Field /\ Base[f] \in Nat
  BY LengthsAreNat, FieldNames, Bases, Bounds DEF Private, PiopFields, RingClaimFields, PiopCount
<1>2. MaskedProof(q)[f] = [i \in 1..FieldLen[f] |-> Padded(f, i)]
  BY MaskedProofIs, <1>1
<1>3. SayWidth(say) = to + 1 - m
  BY DEF SayWidth
<1>4. ASSUME NEW k \in 1..SayWidth(say)
      PROVE  [V(say.field, say.from + k - 1) EXCEPT !.mask = first + k] = MaskedProof(q)[say.field][say.from + k - 1]
  <2>1. m + k - 1 \in 1..FieldLen[f] /\ first + k = Base[f] + (m + k - 1)
    BY <1>1, <1>3
  <2> QED
    BY <2>1, <1>2 DEF Padded
<1> QED
  BY <1>4 DEF MaskedSay, ProofSay

(* In every block the prover pads its messages as mask_proofs pads them for the   *)
(* proof, and leaves the cursor where the next block takes it up.                  *)
LEMMA BlockIsPadded ==
  ASSUME NEW q, NEW n \in 1..N
  PROVE  /\ MaskedSays(SaysOf(n), CursorAt(n)) = Said(MaskedProof(q), SaysOf(n))
         /\ NextCursor(SaysOf(n), CursorAt(n)) = CursorAt(n + 1)
<1> DEFINE Goal(k) == /\ MaskedSays(SaysOf(k), CursorAt(k)) = Said(MaskedProof(q), SaysOf(k))
                      /\ NextCursor(SaysOf(k), CursorAt(k)) = CursorAt(k + 1)
<1> USE DEF Block
<1>1. Goal(1)
  <2>1. SaysOf(1) = <<Mark("flock-zerocheck")>>
    BY BlocksAre DEF SaysOf
  <2>2. CursorAt(1) = 0 /\ CursorAt(2) = 0
    BY DEF CursorAt
  <2>3. MaskedSay(Mark("flock-zerocheck"), 0 + 0) = ProofSay(MaskedProof(q), Mark("flock-zerocheck"))
    BY DEF MaskedSay, ProofSay, Mark
  <2>4. Taken(SaysOf(1), 1) = 0 /\ Taken(SaysOf(1), 2) = 0
    BY <2>1 DEF Taken, SayWidth, Mark
  <2>5. Mark("flock-lincheck") \notin Range(SaysOf(1)) /\ Len(SaysOf(1)) = 1 /\ DOMAIN SaysOf(1) = {1}
    BY <2>1 DEF Range, Mark
  <2>6. MaskedSays(SaysOf(1), CursorAt(1)) = Said(MaskedProof(q), SaysOf(1))
    BY <2>1, <2>2, <2>3, <2>4, <2>5 DEF MaskedSays, Said
  <2>7. NextCursor(SaysOf(1), CursorAt(1)) = 0 + Taken(SaysOf(1), 1 + 1)
    BY <2>2, <2>5 DEF NextCursor
  <2>8. 1 + 1 = 2 /\ 0 + 0 = 0
    OBVIOUS
  <2> QED
    BY <2>2, <2>4, <2>6, <2>7, <2>8
<1>2. Goal(2)
  <2>1. SaysOf(2) = <<Slice("round1_ab"), Slice("round1_c")>>
    BY BlocksAre DEF SaysOf
  <2>2. CursorAt(2) = 0 /\ CursorAt(3) = 2 * Ell
    BY Bounds DEF CursorAt
  <2>3. MaskedSay(Slice("round1_ab"), 0) = ProofSay(MaskedProof(q), Slice("round1_ab"))
    BY SayPadded, Lengths, Bases, Bounds DEF Slice, Private, PiopFields
  <2>4. MaskedSay(Slice("round1_c"), Ell) = ProofSay(MaskedProof(q), Slice("round1_c"))
    BY SayPadded, Lengths, Bases, Bounds DEF Slice, Private, PiopFields
  <2>5. Taken(SaysOf(2), 1) = 0 /\ Taken(SaysOf(2), 2) = Ell /\ Taken(SaysOf(2), 3) = 2 * Ell
    BY <2>1, Lengths, Bounds DEF Taken, SayWidth, Slice
  <2>6. Mark("flock-lincheck") \notin Range(SaysOf(2)) /\ Len(SaysOf(2)) = 2 /\ DOMAIN SaysOf(2) = {1, 2}
    BY <2>1 DEF Range, Mark, Slice
  <2>7. MaskedSays(SaysOf(2), CursorAt(2)) = Said(MaskedProof(q), SaysOf(2))
    BY <2>1, <2>2, <2>3, <2>4, <2>5, <2>6, Bounds DEF MaskedSays, Said
  <2>8. NextCursor(SaysOf(2), CursorAt(2)) = 0 + Taken(SaysOf(2), 2 + 1)
    BY <2>2, <2>6 DEF NextCursor
  <2>9. 2 + 1 = 3 /\ 0 + 2 * Ell = 2 * Ell
    BY Bounds
  <2> QED
    BY <2>2, <2>5, <2>7, <2>8, <2>9
<1>3. ASSUME NEW f \in {"rounds", "lc_rounds"}, NEW r \in Nat \ {0}, 2 * r <= FieldLen[f],
             NEW k \in Nat, SaysOf(k) = Round(f, r).says, CursorAt(k) = Base[f] + 2 * r - 2
      PROVE  /\ MaskedSays(SaysOf(k), CursorAt(k)) = Said(MaskedProof(q), SaysOf(k))
             /\ NextCursor(SaysOf(k), CursorAt(k)) = CursorAt(k) + 2
  <2>1. SaysOf(k) = <<Scalar(f, 2 * r - 1), Scalar(f, 2 * r)>>
    BY <1>3 DEF Round
  <2>2. f \in Private /\ Base[f] \in Nat
    BY Bases, Bounds DEF Private, PiopFields
  <2>3. MaskedSay(Scalar(f, 2 * r - 1), CursorAt(k)) = ProofSay(MaskedProof(q), Scalar(f, 2 * r - 1))
    <3>1. /\ 2 * r - 1 \in Nat \ {0} /\ 2 * r - 1 <= FieldLen[f] /\ CursorAt(k) = Base[f] + (2 * r - 1) - 1
          /\ 2 * r - 1 \in Nat
      BY <1>3, <2>2, LengthsAreNat, FieldNames
    <3> QED
      BY <3>1, <2>2, SayPadded DEF Scalar
  <2>4. MaskedSay(Scalar(f, 2 * r), CursorAt(k) + 1) = ProofSay(MaskedProof(q), Scalar(f, 2 * r))
    <3>1. 2 * r \in Nat \ {0} /\ CursorAt(k) + 1 = Base[f] + (2 * r) - 1 /\ 2 * r \in Nat
      BY <1>3, <2>2
    <3> QED
      BY <1>3, <3>1, <2>2, SayPadded DEF Scalar
  <2>5. Taken(SaysOf(k), 1) = 0 /\ Taken(SaysOf(k), 2) = 1 /\ Taken(SaysOf(k), 3) = 2
    BY <2>1 DEF Taken, SayWidth, Scalar
  <2>6. Mark("flock-lincheck") \notin Range(SaysOf(k)) /\ Len(SaysOf(k)) = 2 /\ DOMAIN SaysOf(k) = {1, 2}
    BY <2>1 DEF Range, Mark, Scalar
  <2>7. MaskedSays(SaysOf(k), CursorAt(k)) = Said(MaskedProof(q), SaysOf(k))
    <3>1. CursorAt(k) + 0 = CursorAt(k)
      BY <1>3, <2>2
    <3> QED
      BY <2>1, <2>3, <2>4, <2>5, <2>6, <3>1 DEF MaskedSays, Said
  <2> QED
    BY <2>5, <2>6, <2>7 DEF NextCursor
<1>4. ASSUME NEW r \in 1..ZcRounds PROVE Goal(2 + r)
  <2>1. SaysOf(2 + r) = Round("rounds", r).says
    BY BlocksAre DEF SaysOf
  <2>2. CursorAt(2 + r) = Base["rounds"] + 2 * r - 2 /\ CursorAt(2 + r + 1) = CursorAt(2 + r) + 2
    BY Bounds, Bases, PinsType DEF CursorAt
  <2>3. 2 * r <= FieldLen["rounds"] /\ r \in Nat \ {0} /\ 2 + r \in Nat
    BY Lengths, Bounds
  <2> QED
    BY <1>3, <2>1, <2>2, <2>3
<1>5. Goal(3 + ZcRounds)
  <2> DEFINE k == 3 + ZcRounds
  <2>1. SaysOf(k) = <<Scalar("finals", 1), Scalar("finals", 2), Mark("flock-lincheck")>>
    BY BlocksAre DEF SaysOf, Finals
  <2>2. CursorAt(k) = Base["finals"] /\ CursorAt(k + 1) = LincheckCursor /\ Base["finals"] \in Nat
    BY Bounds, Bases, PinsType DEF CursorAt, N, LincheckCursor, PiopCount
  <2>3. MaskedSay(Scalar("finals", 1), CursorAt(k)) = ProofSay(MaskedProof(q), Scalar("finals", 1))
    <3>1. CursorAt(k) = Base["finals"] + 1 - 1
      BY <2>2
    <3> QED
      BY <3>1, SayPadded, Lengths DEF Scalar, Private, PiopFields
  <2>4. MaskedSay(Scalar("finals", 2), CursorAt(k) + 1) = ProofSay(MaskedProof(q), Scalar("finals", 2))
    <3>1. CursorAt(k) + 1 = Base["finals"] + 2 - 1
      BY <2>2
    <3> QED
      BY <3>1, SayPadded, Lengths DEF Scalar, Private, PiopFields
  <2>5. MaskedSay(Mark("flock-lincheck"), CursorAt(k) + 2) = ProofSay(MaskedProof(q), Mark("flock-lincheck"))
    BY DEF MaskedSay, ProofSay, Mark
  <2>6. Taken(SaysOf(k), 1) = 0 /\ Taken(SaysOf(k), 2) = 1 /\ Taken(SaysOf(k), 3) = 2
    BY <2>1 DEF Taken, SayWidth, Scalar
  <2>7. Mark("flock-lincheck") \in Range(SaysOf(k)) /\ DOMAIN SaysOf(k) = {1, 2, 3}
    BY <2>1 DEF Range
  <2>8. MaskedSays(SaysOf(k), CursorAt(k)) = Said(MaskedProof(q), SaysOf(k))
    <3>1. CursorAt(k) + 0 = CursorAt(k)
      BY <2>2
    <3> QED
      BY <2>1, <2>3, <2>4, <2>5, <2>6, <2>7, <3>1 DEF MaskedSays, Said
  <2> QED
    BY <2>2, <2>7, <2>8 DEF NextCursor
<1>6. ASSUME ConstPin PROVE Goal(4 + ZcRounds)
  <2>1. SaysOf(4 + ZcRounds) = <<>>
    BY <1>6, BlocksAre DEF SaysOf
  <2>2. Pins = 1
    BY <1>6 DEF Pins
  <2>3. CursorAt(4 + ZcRounds) = LincheckCursor /\ CursorAt(4 + ZcRounds + 1) = LincheckCursor
        /\ LincheckCursor \in Nat
    <3>1. LincheckCursor \in Nat
      BY Bounds DEF LincheckCursor
    <3>2. N = 5 + ZcRounds + LcRounds
      BY <2>2, Bounds DEF N
    <3>3. CursorAt(4 + ZcRounds) = LincheckCursor
      BY <2>2, Bounds DEF CursorAt
    <3>4. CursorAt(4 + ZcRounds + 1) = LincheckCursor + 2 * (4 + ZcRounds + 1 - (4 + ZcRounds + 1))
      BY <2>2, <3>2, Bounds DEF CursorAt
    <3> QED
      BY <3>1, <3>3, <3>4, Bounds
  <2>4. Taken(<<>>, Len(<<>>) + 1) = 0
    BY DEF Taken
  <2> QED
    BY <2>1, <2>3, <2>4 DEF NextCursor, MaskedSays, Said, Range
<1>7. ASSUME NEW r \in 1..LcRounds PROVE Goal(3 + ZcRounds + Pins + r)
  <2> DEFINE k == 3 + ZcRounds + Pins + r
  <2>1. SaysOf(k) = Round("lc_rounds", r).says
    BY BlocksAre DEF SaysOf
  <2>2. CursorAt(k) = Base["lc_rounds"] + 2 * r - 2 /\ CursorAt(k + 1) = CursorAt(k) + 2
    <3>1. LincheckCursor = Base["lc_rounds"] /\ LincheckCursor \in Nat
      BY Bounds, Bases DEF LincheckCursor
    <3>2. /\ ~(k <= 2) /\ ~(k <= 3 + ZcRounds) /\ ~(k <= 3 + ZcRounds + Pins)
          /\ ~(k + 1 <= 2) /\ ~(k + 1 <= 3 + ZcRounds) /\ ~(k + 1 <= 3 + ZcRounds + Pins)
          /\ k <= N /\ k + 1 <= N
      BY Bounds, PinsType DEF N
    <3>5. k - (4 + ZcRounds + Pins) = r - 1 /\ (k + 1) - (4 + ZcRounds + Pins) = r
      BY Bounds, PinsType
    <3> HIDE DEF k
    <3>6. ASSUME NEW m, ~(m <= 2), ~(m <= 3 + ZcRounds), ~(m <= 3 + ZcRounds + Pins), m <= N
          PROVE  CursorAt(m) = LincheckCursor + 2 * (m - (4 + ZcRounds + Pins))
      BY <3>6 DEF CursorAt
    <3>3. CursorAt(k) = LincheckCursor + 2 * (k - (4 + ZcRounds + Pins))
      BY <3>2, <3>6
    <3>4. CursorAt(k + 1) = LincheckCursor + 2 * ((k + 1) - (4 + ZcRounds + Pins))
      BY <3>2, <3>6
    <3> QED
      BY <3>1, <3>3, <3>4, <3>5
  <2>3. 2 * r <= FieldLen["lc_rounds"] /\ r \in Nat \ {0} /\ k \in Nat
    BY Lengths, Bounds, PinsType
  <2> QED
    BY <1>3, <2>1, <2>2, <2>3
<1>8. Goal(N)
  <2>1. SaysOf(N) = <<Slice("z_partial")>>
    BY BlocksAre DEF SaysOf, Closing
  <2>2. CursorAt(N) = Base["z_partial"] /\ CursorAt(N + 1) = PiopCount /\ Base["z_partial"] \in Nat
    BY Bounds, Bases, PinsType DEF CursorAt, N, LincheckCursor
  <2>3. MaskedSay(Slice("z_partial"), CursorAt(N)) = ProofSay(MaskedProof(q), Slice("z_partial"))
    <3>1. CursorAt(N) = Base["z_partial"] + 1 - 1
      BY <2>2
    <3> QED
      BY <3>1, SayPadded, Lengths, Bounds DEF Slice, Private, PiopFields
  <2>4. Taken(SaysOf(N), 1) = 0 /\ Taken(SaysOf(N), 2) = ZPartial
    BY <2>1, Lengths, Bounds DEF Taken, SayWidth, Slice
  <2>5. Mark("flock-lincheck") \notin Range(SaysOf(N)) /\ Len(SaysOf(N)) = 1 /\ DOMAIN SaysOf(N) = {1}
    BY <2>1 DEF Range, Mark, Slice
  <2>6. MaskedSays(SaysOf(N), CursorAt(N)) = Said(MaskedProof(q), SaysOf(N))
    <3>1. CursorAt(N) + 0 = CursorAt(N)
      BY <2>2
    <3> QED
      BY <2>1, <2>3, <2>4, <2>5, <3>1 DEF MaskedSays, Said
  <2>7. PiopCount = Base["z_partial"] + ZPartial
    BY Bases DEF PiopCount
  <2> QED
    BY <2>2, <2>4, <2>5, <2>6, <2>7 DEF NextCursor
<1> HIDE DEF Goal
<1>9. Goal(n)
  BY <1>1, <1>2, <1>4, <1>5, <1>6, <1>7, <1>8, BlockCases
<1> QED
  BY <1>9 DEF Goal

-----------------------------------------------------------------------------
(* What is ever said: elements of which a private one carries its own mask.       *)
Labels == {"flock-blake3-preimage", "flock-r1cs", "veil-flock-tree-nonces",
           "veil-flock-mask-root", "veil-flock-ring-masks", "veil-flock-public-pcs-blind",
           "veil-flock-blinded-ring", "flock-zerocheck", "flock-lincheck", "flock-digest-bind",
           "veil-flock-pcs-fork", "veil-flock-inner-fork", "veil-f128-constraint-system"}
Public == Field \ Private

Element == [name : Field \cup Labels \cup {"nonce"}, i : Nat, mask : Nat, at : Nat, intact : BOOLEAN]
OncePadded(v) == v.name \in Private => v.i \in 1..FieldLen[v.name] /\ v.mask = Base[v.name] + v.i
Sayable == {v \in Element : OncePadded(v)}
SayableItem == [op : {"label", "bytes", "slice", "scalar", "pow"}, vals : Seq(Sayable)]
Transcript == [at : Nat, since : Seq(SayableItem)]
After(k) == [at |-> k, since |-> <<>>]

LEMMA NamesApart ==
  /\ Private \cap Labels = {} /\ "nonce" \notin Private /\ Private \subseteq Field
  /\ PiopFields \subseteq Private /\ RingClaimFields \subseteq Private
  /\ Field \cap Labels = {} /\ "nonce" \notin Field
  /\ Private \cup Public = Field
  /\ Public = {"statement", "root", "proof_nonce", "outer", "veil_linear",
            "veil_hadamard", "veil_root", "direct_blinds", "blind_nonce", "q1", "q2",
            "fold_nonces", "surplus", "pcs_body", "veil_body"}
<1>1. Private \cap Labels = {} /\ "nonce" \notin Private /\ PiopFields \subseteq Private
      /\ RingClaimFields \subseteq Private
  BY DEF Private, PiopFields, RingClaimFields, Labels
<1>2. Field \cap Labels = {} /\ "nonce" \notin Field /\ Private \subseteq Field
  BY FieldNames DEF Private, PiopFields, RingClaimFields, Labels
<1>3. Public = {"statement", "root", "proof_nonce", "outer", "veil_linear",
            "veil_hadamard", "veil_root", "direct_blinds", "blind_nonce", "q1", "q2",
            "fold_nonces", "surplus", "pcs_body", "veil_body"}
  BY FieldNames DEF Public, Private, PiopFields, RingClaimFields
<1> QED
  BY <1>1, <1>2, <1>3 DEF Public

LEMMA PublicElement ==
  ASSUME NEW f \in Public \cup Labels \cup {"nonce"}, NEW i \in Nat
  PROVE  V(f, i) \in Sayable
<1>1. V(f, i) \in Element /\ V(f, i).name = f
  BY NamesApart DEF V, Element
<1>2. f \notin Private
  BY NamesApart DEF Public
<1> QED
  BY <1>1, <1>2 DEF Sayable, OncePadded

LEMMA LabelItem == \A l \in Labels : Label(l) \in SayableItem
<1> TAKE l \in Labels
<1>1. V(l, 0) \in Sayable
  BY PublicElement
<1>2. <<V(l, 0)>> \in Seq(Sayable)
  BY <1>1
<1> QED
  BY <1>2 DEF Label, Item, SayableItem

LEMMA ItemTyped ==
  ASSUME NEW op \in {"label", "bytes", "slice", "scalar", "pow"}, NEW vals \in Seq(Sayable)
  PROVE  Item(op, vals) \in SayableItem
BY DEF Item, SayableItem

LEMMA PaddedElement ==
  ASSUME NEW f \in Private, NEW i \in 1..FieldLen[f]
  PROVE  Padded(f, i) \in Sayable /\ Padded(f, i).name = f /\ Padded(f, i).i = i
         /\ Padded(f, i).mask = Base[f] + i /\ Padded(f, i).intact = TRUE
<1>1. Base[f] \in Nat /\ i \in Nat
  BY Bases, Bounds, LengthsAreNat, NamesApart DEF Private, PiopFields, RingClaimFields, PiopCount
<1>2. f \in Field
  BY NamesApart
<1>3. Padded(f, i) = [name |-> f, i |-> i, mask |-> Base[f] + i, at |-> 0, intact |-> TRUE]
  <2>1. \A e, m : [[name |-> f, i |-> i, mask |-> 0, at |-> 0, intact |-> e] EXCEPT !.mask = m]
                   = [name |-> f, i |-> i, mask |-> m, at |-> 0, intact |-> e]
    OBVIOUS
  <2> QED
    BY <2>1, Zenon DEF Padded, V
<1> QED
  BY <1>1, <1>2, <1>3 DEF Sayable, OncePadded, Element

LEMMA MaskedFields ==
  ASSUME NEW q
  PROVE  /\ \A f \in Private : /\ MaskedProof(q)[f] = [i \in 1..FieldLen[f] |-> Padded(f, i)]
                               /\ MaskedProof(q)[f] \in Seq(Sayable)
                               /\ Len(MaskedProof(q)[f]) = FieldLen[f]
         /\ \A f \in Public : MaskedProof(q)[f] = q[f]
         /\ DOMAIN MaskedProof(q) = Field
<1>1. ASSUME NEW f \in Private
      PROVE  /\ MaskedProof(q)[f] = [i \in 1..FieldLen[f] |-> Padded(f, i)]
             /\ MaskedProof(q)[f] \in Seq(Sayable)
             /\ Len(MaskedProof(q)[f]) = FieldLen[f]
  <2>1. MaskedProof(q)[f] = [i \in 1..FieldLen[f] |-> Padded(f, i)]
    BY MaskedProofIs, NamesApart
  <2>2. FieldLen[f] \in Nat /\ \A i \in 1..FieldLen[f] : Padded(f, i) \in Sayable
    BY LengthsAreNat, NamesApart, PaddedElement
  <2> QED
    BY <2>1, <2>2
<1>2. \A f \in Public : MaskedProof(q)[f] = q[f]
  BY MaskedProofIs, NamesApart DEF Public
<1> QED
  BY <1>1, <1>2, MaskedProofIs

LEMMA AbsorbTyped ==
  ASSUME NEW t \in Transcript, NEW items \in Seq(SayableItem)
  PROVE  Absorb(t, items) \in Transcript /\ Absorb(t, items).at = t.at
         /\ Absorb(t, items).since = t.since \o items
<1>1. t.since \o items \in Seq(SayableItem)
  BY DEF Transcript
<1> HIDE DEF SayableItem
<1> QED
  BY <1>1 DEF Transcript, Absorb

(* What a block says, of a proof whose messages have their lengths. *)
LEMMA SaysTyped ==
  ASSUME NEW n \in 1..N
  PROVE  /\ DOMAIN SaysOf(n) = 1..Len(SaysOf(n)) /\ Len(SaysOf(n)) \in Nat
         /\ \A j \in DOMAIN SaysOf(n) :
              LET say == SaysOf(n)[j]
              IN  \/ say.op = "label" /\ say.field \in {"flock-zerocheck", "flock-lincheck"}
                  \/ /\ say.op \in {"slice", "scalar"} /\ say.field \in PiopFields
                     /\ say.from \in Nat \ {0} /\ say.to \in Nat /\ say.to <= FieldLen[say.field]
<1> DEFINE Fine(say) ==
             \/ say.op = "label" /\ say.field \in {"flock-zerocheck", "flock-lincheck"}
             \/ /\ say.op \in {"slice", "scalar"} /\ say.field \in PiopFields
                /\ say.from \in Nat \ {0} /\ say.to \in Nat /\ say.to <= FieldLen[say.field]
           Typed(says) == /\ DOMAIN says = 1..Len(says) /\ Len(says) \in Nat
                          /\ \A j \in DOMAIN says : Fine(says[j])
<1>1. Fine(Mark("flock-zerocheck")) /\ Fine(Mark("flock-lincheck"))
  BY DEF Mark
<1>2. \A f \in PiopFields : Fine(Slice(f))
  BY LengthsAreNat, NamesApart DEF Slice
<1>3. \A f \in PiopFields : \A i \in Nat \ {0} : i <= FieldLen[f] => Fine(Scalar(f, i))
  BY DEF Scalar
<1>4. PiopFields = {"round1_ab", "round1_c", "rounds", "finals", "lc_rounds", "z_partial"}
  BY DEF PiopFields
<1> HIDE DEF Fine
<1>5. \A a : Fine(a) => Typed(<<a>>)
  OBVIOUS
<1>6. \A a, b : Fine(a) /\ Fine(b) => Typed(<<a, b>>)
  OBVIOUS
<1>7. \A a, b, c : Fine(a) /\ Fine(b) /\ Fine(c) => Typed(<<a, b, c>>)
  OBVIOUS
<1>8. Typed(<<>>)
  OBVIOUS
<1>9. ASSUME NEW f \in {"rounds", "lc_rounds"}, NEW r \in Nat \ {0}, 2 * r <= FieldLen[f]
      PROVE  Typed(Round(f, r).says)
  <2>1. Fine(Scalar(f, 2 * r - 1)) /\ Fine(Scalar(f, 2 * r))
    <3>1. f \in PiopFields /\ 2 * r - 1 \in Nat \ {0} /\ 2 * r \in Nat \ {0} /\ 2 * r - 1 <= FieldLen[f]
      BY <1>4, <1>9, LengthsAreNat, NamesApart
    <3> QED
      BY <1>3, <1>9, <3>1
  <2>2. Round(f, r).says = <<Scalar(f, 2 * r - 1), Scalar(f, 2 * r)>>
    BY DEF Round, Block
  <2> QED
    BY <1>6, <2>1, <2>2
<1> HIDE DEF Typed
<1>10. SaysOf(1) = <<Mark("flock-zerocheck")>> /\ SaysOf(2) = <<Slice("round1_ab"), Slice("round1_c")>>
       /\ SaysOf(3 + ZcRounds) = <<Scalar("finals", 1), Scalar("finals", 2), Mark("flock-lincheck")>>
       /\ SaysOf(N) = <<Slice("z_partial")>>
  BY BlocksAre DEF SaysOf, Block, Finals, Closing
<1>11. Fine(Scalar("finals", 1)) /\ Fine(Scalar("finals", 2))
  BY <1>3, <1>4, Lengths
<1>12. Typed(SaysOf(1)) /\ Typed(SaysOf(2)) /\ Typed(SaysOf(3 + ZcRounds)) /\ Typed(SaysOf(N))
  BY <1>1, <1>2, <1>4, <1>5, <1>6, <1>7, <1>10, <1>11
<1>13. ConstPin => Typed(SaysOf(4 + ZcRounds))
  BY <1>8, BlocksAre DEF SaysOf, Block
<1>14. ASSUME NEW r \in 1..ZcRounds PROVE Typed(SaysOf(2 + r))
  <2>1. r \in Nat \ {0} /\ 2 * r <= FieldLen["rounds"]
    BY Lengths, Bounds
  <2>2. SaysOf(2 + r) = Round("rounds", r).says
    BY BlocksAre DEF SaysOf
  <2> QED
    BY <1>9, <2>1, <2>2
<1>15. ASSUME NEW r \in 1..LcRounds PROVE Typed(SaysOf(3 + ZcRounds + Pins + r))
  <2>1. r \in Nat \ {0} /\ 2 * r <= FieldLen["lc_rounds"]
    BY Lengths, Bounds
  <2>2. SaysOf(3 + ZcRounds + Pins + r) = Round("lc_rounds", r).says
    BY BlocksAre DEF SaysOf
  <2> QED
    BY <1>9, <2>1, <2>2
<1>16. Typed(SaysOf(n))
  BY <1>12, <1>13, <1>14, <1>15, BlockCases
<1> QED
  BY <1>16 DEF Typed, Fine

LEMMA SaidTyped ==
  ASSUME NEW n \in 1..N, NEW q,
         \A f \in PiopFields : q[f] \in Seq(Sayable) /\ Len(q[f]) = FieldLen[f]
  PROVE  Said(q, SaysOf(n)) \in Seq(SayableItem)
<1>1. ASSUME NEW j \in DOMAIN SaysOf(n)
      PROVE  ProofSay(q, SaysOf(n)[j]) \in SayableItem
  <2> DEFINE say == SaysOf(n)[j]
  <2>1. CASE say.op = "label" /\ say.field \in {"flock-zerocheck", "flock-lincheck"}
    BY <2>1, LabelItem DEF ProofSay, Labels
  <2>2. CASE /\ say.op \in {"slice", "scalar"} /\ say.field \in PiopFields
             /\ say.from \in Nat \ {0} /\ say.to \in Nat /\ say.to <= FieldLen[say.field]
    <3>1. SayWidth(say) \in Int /\ SayWidth(say) = say.to + 1 - say.from
      BY <2>2 DEF SayWidth
    <3>2. ASSUME NEW k \in 1..SayWidth(say) PROVE q[say.field][say.from + k - 1] \in Sayable
      <4>3. FieldLen[say.field] \in Nat
        BY <2>2, LengthsAreNat, NamesApart
      <4>4. \A a, b, l \in Nat, w \in Int : a # 0 /\ b <= l /\ w = b + 1 - a /\ k \in 1..w => a + k - 1 \in 1..l
        OBVIOUS
      <4>1. say.from + k - 1 \in 1..FieldLen[say.field]
        <5> HIDE DEF say
        <5> QED
          BY <2>2, <3>1, <4>3, <4>4
      <4>2. q[say.field] \in Seq(Sayable) /\ Len(q[say.field]) = FieldLen[say.field]
        BY <2>2
      <4> HIDE DEF say
      <4> QED
        BY <4>1, <4>2
    <3> DEFINE vals == [k \in 1..SayWidth(say) |-> q[say.field][say.from + k - 1]]
    <3>3. vals \in Seq(Sayable)
      <4>1. CASE SayWidth(say) \in Nat
        BY <3>2, <4>1
      <4>2. CASE SayWidth(say) \notin Nat
        BY <3>1, <4>2, 1..SayWidth(say) = 1..0
      <4> QED
        BY <4>1, <4>2
    <3>4. ProofSay(q, say) = Item(say.op, vals)
      BY <2>2 DEF ProofSay
    <3> HIDE DEF say, vals
    <3>5. say.op \in {"label", "bytes", "slice", "scalar", "pow"}
      BY <2>2
    <3>6. ProofSay(q, say) \in SayableItem
      BY <3>3, <3>4, <3>5, ItemTyped
    <3> QED
      BY <3>6 DEF say
  <2> QED
    BY <2>1, <2>2, SaysTyped
<1> QED
  BY <1>1, SaysTyped DEF Said

-----------------------------------------------------------------------------
(* The oracle: a point is answered once, and only after the point it follows.     *)
Answer == [point : Transcript, class : Class]
OracleOK(o) ==
    /\ o \in Seq(Answer)
    /\ \A j, k \in DOMAIN o : o[j].point = o[k].point => j = k
    /\ \A k \in DOMAIN o : o[k].point.at < k
Grown(o, p) == \A k \in DOMAIN o : k \in DOMAIN p /\ p[k] = o[k]
IsId(o, k, t) == k \in DOMAIN o /\ o[k].point = t
TranscriptOK(t, o) == t \in Transcript /\ t.at <= Len(o)

LEMMA AnsweredGives ==
  ASSUME OracleOK(oracle), NEW p, TranscriptOK(p, oracle), NEW c \in Class, Answered(p, c)
  PROVE  /\ OracleOK(oracle') /\ Grown(oracle, oracle') /\ Len(oracle) <= Len(oracle')
         /\ IsId(oracle', IdOf(p), p) /\ oracle'[IdOf(p)].class = c
         /\ IdOf(p) \in Nat \ {0} /\ IdOf(p) <= Len(oracle')
         /\ TranscriptOK(Squeezed(p), oracle') /\ Squeezed(p) = After(IdOf(p))
<1> HIDE DEF Class, Transcript
<1>1. oracle \in Seq(Answer) /\ p \in Transcript
  BY DEF OracleOK, TranscriptOK
<1> DEFINE k == IdOf(p)
           Most == /\ OracleOK(oracle') /\ Grown(oracle, oracle') /\ Len(oracle) <= Len(oracle')
                   /\ IsId(oracle', k, p) /\ oracle'[k].class = c
                   /\ k \in Nat \ {0} /\ k <= Len(oracle')
<1>2. ASSUME Known(p) PROVE Most
  <2>1. k \in DOMAIN oracle /\ oracle[k].point = p
    <3>1. k = CHOOSE j \in DOMAIN oracle : oracle[j].point = p
      BY <1>2 DEF IdOf
    <3>2. \E j \in DOMAIN oracle : oracle[j].point = p
      BY <1>2 DEF Known
    <3> HIDE DEF k
    <3> QED
      BY <3>1, <3>2
  <2>2. oracle' = oracle /\ c = oracle[k].class
    BY <1>2 DEF Answered
  <2>3. k \in Nat \ {0} /\ k <= Len(oracle) /\ Len(oracle) \in Nat
    <3> HIDE DEF k, Answer
    <3> QED
      BY <1>1, <2>1
  <2> HIDE DEF k
  <2>4. Grown(oracle, oracle') /\ IsId(oracle', k, p) /\ oracle'[k].class = c
    BY <2>1, <2>2 DEF Grown, IsId
  <2> QED
    BY <2>2, <2>3, <2>4
<1>3. ASSUME ~Known(p) PROVE Most
  <2>1. k = Len(oracle) + 1 /\ oracle' = Append(oracle, [point |-> p, class |-> c])
    BY <1>3 DEF IdOf, Answered
  <2> HIDE DEF k
  <2>2. [point |-> p, class |-> c] \in Answer
    BY <1>1 DEF Answer
  <2>3. /\ oracle' \in Seq(Answer) /\ Len(oracle') = k /\ k \in Nat \ {0}
        /\ \A j \in DOMAIN oracle : oracle'[j] = oracle[j]
        /\ oracle'[k] = [point |-> p, class |-> c]
        /\ DOMAIN oracle' = DOMAIN oracle \cup {k}
    <3> HIDE DEF Answer
    <3> QED
      BY <1>1, <2>1, <2>2
  <2>4. \A j \in DOMAIN oracle : oracle[j].point # p
    BY <1>3 DEF Known
  <2>5. p.at < k /\ p.at \in Nat
    BY <1>1, <2>1 DEF TranscriptOK, Transcript
  <2>6. k \notin DOMAIN oracle /\ Len(oracle) <= Len(oracle') /\ k <= Len(oracle')
    <3> HIDE DEF Answer
    <3> QED
      BY <1>1, <2>1, <2>3
  <2>7. /\ \A j, m \in DOMAIN oracle : oracle[j].point = oracle[m].point => j = m
        /\ \A j \in DOMAIN oracle : oracle[j].point.at < j
    BY DEF OracleOK
  <2>8. oracle'[k].point = p /\ oracle'[k].class = c
    BY <2>3
  <2>9. OracleOK(oracle')
    <3>1. \A j \in DOMAIN oracle' : oracle'[j].point.at < j
      BY <2>3, <2>5, <2>7, <2>8
    <3>2. \A j, m \in DOMAIN oracle' : oracle'[j].point = oracle'[m].point => j = m
      BY <2>3, <2>4, <2>6, <2>7, <2>8
    <3> QED
      BY <2>3, <3>1, <3>2 DEF OracleOK
  <2>10. Grown(oracle, oracle') /\ IsId(oracle', k, p)
    BY <2>3, <2>8 DEF Grown, IsId
  <2> QED
    BY <2>3, <2>6, <2>8, <2>9, <2>10
<1>4. TranscriptOK(Squeezed(p), oracle') /\ Squeezed(p) = After(IdOf(p))
  <2>1. k \in Nat /\ k <= Len(oracle')
    BY <1>2, <1>3
  <2>2. Squeezed(p) = [at |-> k, since |-> <<>>]
    BY DEF Squeezed
  <2>3. <<>> \in Seq(SayableItem)
    OBVIOUS
  <2> HIDE DEF k, SayableItem
  <2> QED
    BY <2>1, <2>2, <2>3 DEF TranscriptOK, Transcript, After, k
<1> QED
  BY <1>2, <1>3, <1>4

LEMMA GrownTranscript ==
  ASSUME NEW o, NEW p, OracleOK(o), OracleOK(p), Len(o) <= Len(p), NEW t, TranscriptOK(t, o)
  PROVE  TranscriptOK(t, p)
BY DEF TranscriptOK, OracleOK, Transcript

LEMMA AbsorbOK ==
  ASSUME NEW o, NEW t, TranscriptOK(t, o), NEW items \in Seq(SayableItem)
  PROVE  TranscriptOK(Absorb(t, items), o)
BY AbsorbTyped DEF TranscriptOK

-----------------------------------------------------------------------------
(* The invariant behind MasksPadOnce: types, control, the cursor and the masks.    *)
Places == {"idle", "bind", "walk", "redraw", "rings", "pow", "nonzero", "blinded", "circuit",
           "join", "shipped", "accept", "draw", "open", "done"} \cup Errors
Walkers == Main \cup Replay

VarTypes ==
    /\ pc \in [Threads -> Places]
    /\ blk \in [Threads -> Nat \ {0}]
    /\ chal \in [Walkers -> Seq(Nat \ {0})]
    /\ cursor \in Nat
    /\ link \in [Main -> [digest : Nat, blind : Nat]]
    /\ trial \in [{"prover", "pcs"} -> Nat]
    /\ DOMAIN attest = {"pcs", "veil"}

Transcripts ==
    /\ DOMAIN tr = Threads /\ \A b \in Threads : TranscriptOK(tr[b], oracle)
    /\ DOMAIN start = Main /\ \A b \in Main : TranscriptOK(start[b], oracle)

ProofOK(q) ==
    /\ DOMAIN q = Field
    /\ \A f \in Public : q[f] \in Seq(Sayable)
    /\ Len(q.blind_nonce) = 1

(* What prove returns has a nonce for every fold grind and no query nonce too many. *)
Counted(q) == Len(q["fold_nonces"]) = FoldSites /\ q["surplus"] = <<>>

Proofs == DOMAIN proof = Main /\ (\A b \in Main : ProofOK(proof[b])) /\ Counted(proof["prover"])

(* The second walk of a side goes on while that side is at "circuit". *)
Control ==
    /\ pc["prover"] = "bind" => cursor = 0
    /\ \A b \in Main : pc[b] \in {"idle", "bind"} => blk[b] = 1
    /\ \A b \in Main : pc[Second[b]] = "idle" => blk[Second[b]] = 1
    /\ pc["prover"] \in {"walk", "redraw"} => blk["prover"] <= N + 1 /\ cursor = CursorAt(blk["prover"])
    /\ \A b \in Walkers : pc[b] = "redraw" => blk[b] = 1
    /\ \A b \in Main : pc[Second[b]] \in {"walk", "redraw"} /\ blk[Second[b]] <= N => pc[b] = "circuit"
    /\ pc["pcs"] \in {"draw", "pow"} => pc["prover"] \in {"join", "shipped"}
    /\ pc["pcs"] = "pow" /\ pc[Side] = "join" => blk["pcs"] <= FoldSites

(* From mask_proofs on, the prover's messages are padded; the verifier's are       *)
(* those, or altered ones.                                                        *)
Unmasked == {"bind", "walk", "redraw", "InvalidShape"}
Pads ==
    /\ pc["prover"] \notin Unmasked =>
        \A f \in Private : proof["prover"][f] = [i \in 1..FieldLen[f] |-> Padded(f, i)]
    /\ pc["verifier"] # "idle" =>
        pc["prover"] = "shipped" /\ \A f \in Private : proof["verifier"][f] \in Seq(Sayable)

PadInv == OracleOK(oracle) /\ VarTypes /\ Transcripts /\ Proofs /\ Control /\ Pads

LEMMA PadInvGives ==
  ASSUME PadInv
  PROVE  MasksPadOnce
<1> DEFINE private == PiopFields \cup RingClaims
           sent == IF pc["prover"] \in {"bind", "walk", "redraw", "InvalidShape"} THEN {}
                   ELSE UNION {Range(proof["prover"][f]) : f \in private}
           asked == UNION {Elements(oracle[k].point.since) : k \in DOMAIN oracle}
           said == asked \cup sent
<1>1. private = Private
  BY DEF RingClaims, Private, RingClaimFields
<1>2. ASSUME NEW k \in DOMAIN oracle, NEW v \in Elements(oracle[k].point.since)
      PROVE  v \in Sayable
  <2>1. oracle[k].point.since \in Seq(SayableItem)
    <3>1. oracle[k] \in Answer
      <4> HIDE DEF Answer
      <4> QED
        BY DEF PadInv, OracleOK
    <3> QED
      BY <3>1 DEF Answer, Transcript
  <2>2. PICK j \in DOMAIN oracle[k].point.since : v \in Range(oracle[k].point.since[j].vals)
    BY <1>2 DEF Elements
  <2>3. oracle[k].point.since[j] \in SayableItem
    <3> HIDE DEF SayableItem
    <3> QED
      BY <2>1, <2>2
  <2>4. oracle[k].point.since[j].vals \in Seq(Sayable)
    BY <2>3 DEF SayableItem
  <2> QED
    <3> HIDE DEF Sayable
    <3> QED
      BY <2>2, <2>4 DEF Range
<1>3. ASSUME NEW v \in sent PROVE v \in Sayable
  <2>1. pc["prover"] \notin Unmasked
    BY <1>3 DEF Unmasked
  <2>2. PICK f \in Private : v \in Range(proof["prover"][f])
    BY <1>1, <1>3
  <2>3. proof["prover"][f] = [i \in 1..FieldLen[f] |-> Padded(f, i)]
    BY <2>1 DEF PadInv, Pads
  <2>4. PICK i \in 1..FieldLen[f] : v = Padded(f, i)
    BY <2>2, <2>3 DEF Range
  <2> QED
    BY <2>4, PaddedElement
<1>4. ASSUME NEW v \in Sayable, NEW w \in Sayable, v.name \in private, w.name \in private
      PROVE  v.mask # 0 /\ (v.mask = w.mask <=> <<v.name, v.i>> = <<w.name, w.i>>)
  <2>1. /\ v.i \in 1..FieldLen[v.name] /\ v.mask = Base[v.name] + v.i
        /\ w.i \in 1..FieldLen[w.name] /\ w.mask = Base[w.name] + w.i
    BY <1>1, <1>4 DEF Sayable, OncePadded
  <2>2. v.mask # 0 /\ (v.mask = w.mask => v.name = w.name /\ v.i = w.i)
    BY <1>1, <1>4, <2>1, MasksAreDisjoint
  <2> QED
    BY <2>1, <2>2
<1>5. \A v \in said : v \in Sayable
  <2> TAKE v \in said
  <2> HIDE DEF sent
  <2>1. CASE v \in sent
    BY <1>3, <2>1
  <2>2. CASE v \notin sent
    <3>2. v \in asked
      BY <2>2
    <3>1. PICK k \in DOMAIN oracle : v \in Elements(oracle[k].point.since)
      BY <3>2, Zenon
    <3> QED
      BY <1>2, <3>1
  <2> QED
    BY <2>1, <2>2
<1> HIDE DEF said, private, sent
<1>6. \A v, w \in {u \in said : u.name \in private} :
         v.mask # 0 /\ (v.mask = w.mask <=> <<v.name, v.i>> = <<w.name, w.i>>)
  BY <1>4, <1>5
<1> QED
  BY <1>6 DEF MasksPadOnce, said, asked, private, sent

LEMMA ThreadNames ==
  /\ Main = {"prover", "verifier"} /\ Replay = {"replay", "recheck"} /\ Terminal = {"pcs", "veil"}
  /\ Walkers = {"prover", "verifier", "replay", "recheck"}
  /\ Threads = {"prover", "verifier", "replay", "recheck", "pcs", "veil"}
  /\ Owner["prover"] = "prover" /\ Owner["replay"] = "prover"
  /\ Owner["verifier"] = "verifier" /\ Owner["recheck"] = "verifier"
  /\ Second["prover"] = "replay" /\ Second["verifier"] = "recheck"
BY DEF Main, Replay, Terminal, Walkers, Threads, Owner, Second

LEMMA SameBlocks == \A b : Blocks(b) = ProverBlocks
<1>1. CircuitBlocks = ProverBlocks
  BY DEF CircuitBlocks, ProverBlocks
<1> QED
  BY <1>1 DEF Blocks

LEMMA TypesGive ==
  ASSUME PadInv
  PROVE  /\ DOMAIN pc = Threads /\ DOMAIN blk = Threads /\ DOMAIN tr = Threads
         /\ \A b \in Threads : pc[b] \in Places /\ blk[b] \in Nat \ {0}
         /\ DOMAIN chal = Walkers /\ \A b \in Walkers : chal[b] \in Seq(Nat \ {0})
         /\ DOMAIN proof = Main /\ (\A b \in Main : ProofOK(proof[b])) /\ Counted(proof["prover"])
         /\ DOMAIN start = Main /\ DOMAIN link = Main
BY DEF PadInv, VarTypes, Transcripts, Proofs

(* The proof whose messages a walker observes. *)
WalkedProof(b) == IF b = "prover" THEN MaskedProof(proof["prover"]) ELSE proof[Owner[b]]

LEMMA ObservedIs ==
  ASSUME PadInv, NEW b \in Walkers, pc[b] = "walk", blk[b] <= N,
         b # "prover" => Shaped(b, PiopFields)
  PROVE  /\ blk[b] \in 1..N
         /\ Observed(b, Blocks(b)[blk[b]].says) = Said(WalkedProof(b), SaysOf(blk[b]))
         /\ Said(WalkedProof(b), SaysOf(blk[b])) \in Seq(SayableItem)
<1> DEFINE n == blk[b]
           says == SaysOf(n)
<1>1. n \in 1..N
  <2>1. n \in Nat \ {0} /\ N \in Nat
    BY ThreadNames, PinsType, TypesGive
  <2> QED
    BY <2>1
<1>2. Blocks(b)[n].says = says
  BY SameBlocks DEF SaysOf
<1>3. Observed(b, says) = Said(WalkedProof(b), says)
  <2>1. CASE b = "prover"
    <3>1. cursor = CursorAt(n)
      BY <2>1, ThreadNames DEF PadInv, Control
    <3>2. Observed(b, says) = MaskedSays(says, CursorAt(n))
      BY <2>1, <3>1 DEF Observed, MaskedSays
    <3> QED
      BY <1>1, <2>1, <3>2, BlockIsPadded DEF WalkedProof
  <2>2. CASE b # "prover"
    BY <2>2 DEF Observed, Said, WalkedProof
  <2> QED
    BY <2>1, <2>2
<1>4. \A f \in PiopFields : WalkedProof(b)[f] \in Seq(Sayable) /\ Len(WalkedProof(b)[f]) = FieldLen[f]
  <2> TAKE f \in PiopFields
  <2>1. CASE b = "prover"
    <3>1. MaskedProof(proof["prover"])[f] \in Seq(Sayable) /\ Len(MaskedProof(proof["prover"])[f]) = FieldLen[f]
      <4>1. f \in Private
        BY NamesApart
      <4> QED
        BY <4>1, MaskedFields, Zenon
    <3> QED
      BY <2>1, <3>1 DEF WalkedProof
  <2>2. CASE b = "verifier"
    BY <2>2, ThreadNames, NamesApart DEF WalkedProof, PadInv, Pads, Shaped
  <2>3. CASE b = "recheck"
    <3>1. pc["verifier"] = "circuit"
      BY <2>3, ThreadNames DEF PadInv, Control
    <3> QED
      BY <2>3, <3>1, ThreadNames, NamesApart DEF WalkedProof, PadInv, Pads, Shaped
  <2>4. CASE b = "replay"
    <3>1. pc["prover"] = "circuit"
      BY <2>4, ThreadNames DEF PadInv, Control
    <3>2. f \in Private
      BY NamesApart
    <3>3. proof["prover"][f] = [i \in 1..FieldLen[f] |-> Padded(f, i)]
      BY <3>1, <3>2 DEF PadInv, Pads, Unmasked
    <3>4. proof["prover"][f] \in Seq(Sayable) /\ Len(proof["prover"][f]) = FieldLen[f]
      BY <3>2, <3>3, MaskedFields, Zenon
    <3> QED
      BY <2>4, <3>4, ThreadNames DEF WalkedProof
  <2> QED
    BY <2>1, <2>2, <2>3, <2>4, ThreadNames
<1>5. Said(WalkedProof(b), says) \in Seq(SayableItem)
  BY <1>1, <1>4, SaidTyped
<1> QED
  BY <1>1, <1>2, <1>3, <1>5

LEMMA MoveTranscript ==
  ASSUME Transcripts, OracleOK(oracle), OracleOK(oracle'), Len(oracle) <= Len(oracle'),
         NEW b \in Threads, NEW t, TranscriptOK(t, oracle'), tr' = [tr EXCEPT ![b] = t], start' = start
  PROVE  Transcripts'
BY GrownTranscript DEF Transcripts

LEMMA SameTranscripts ==
  ASSUME Transcripts, OracleOK(oracle), OracleOK(oracle'), Len(oracle) <= Len(oracle'),
         tr' = tr, start' = start
  PROVE  Transcripts'
BY GrownTranscript DEF Transcripts

LEMMA SameOracle ==
  ASSUME OracleOK(oracle), oracle' = oracle
  PROVE  OracleOK(oracle') /\ Len(oracle) <= Len(oracle') /\ Grown(oracle, oracle')
BY DEF OracleOK, Grown

LEMMA PlaceNames ==
  /\ Errors = {"InvalidShape", "InvalidParameters", "GrindingLimitExceeded",
               "UnsatisfiedCircuit", "PcsRejected", "VeilRejected"}
  /\ Places = {"idle", "bind", "walk", "redraw", "rings", "pow", "nonzero", "blinded", "circuit",
               "join", "shipped", "accept", "draw", "open", "done"} \cup Errors
  /\ Unmasked = {"bind", "walk", "redraw", "InvalidShape"}
BY DEF Errors, Places, Unmasked

(* What each block draws. *)
LEMMA DrawsAre ==
  /\ ProverBlocks[1].draws = "eq" /\ ProverBlocks[2].draws = "z"
  /\ ProverBlocks[3 + ZcRounds].draws = "alpha" /\ ProverBlocks[N].draws = "r_inner_skip"
  /\ ConstPin => ProverBlocks[4 + ZcRounds].draws = "beta"
  /\ \A r \in 1..ZcRounds : ProverBlocks[2 + r].draws = "rho"
  /\ \A r \in 1..LcRounds : ProverBlocks[3 + ZcRounds + Pins + r].draws = "rho"
  /\ \A n \in 1..N : ProverBlocks[n].draws = "eq" => n = 1
<1>1. \A says, d : Block(says, d).draws = d
  BY DEF Block
<1>2. Finals.draws = "alpha" /\ Closing.draws = "r_inner_skip" /\ \A f, r : Round(f, r).draws = "rho"
  BY <1>1 DEF Finals, Closing, Round
<1>3. /\ ProverBlocks[1].draws = "eq" /\ ProverBlocks[2].draws = "z"
      /\ ConstPin => ProverBlocks[4 + ZcRounds].draws = "beta"
  BY <1>1, BlocksAre, ZenonT(40)
<1>4. ProverBlocks[3 + ZcRounds].draws = "alpha" /\ ProverBlocks[N].draws = "r_inner_skip"
  BY <1>2, BlocksAre, Zenon
<1>5. /\ \A r \in 1..ZcRounds : ProverBlocks[2 + r].draws = "rho"
      /\ \A r \in 1..LcRounds : ProverBlocks[3 + ZcRounds + Pins + r].draws = "rho"
  BY <1>2, BlocksAre, ZenonT(40)
<1>6. ASSUME NEW n \in 1..N, n # 1 PROVE ProverBlocks[n].draws # "eq"
  BY <1>3, <1>4, <1>5, <1>6, BlockCases
<1> QED
  BY <1>3, <1>4, <1>5, <1>6

(* The prover has taken the zerocheck's masks, and no others, when the lincheck begins. *)
LEMMA MasksAreCounted ==
  ASSUME NEW n \in 1..N, Mark("flock-lincheck") \in Range(SaysOf(n))
  PROVE  CursorAt(n) + Taken(SaysOf(n), Len(SaysOf(n)) + 1) = ZerocheckMasks
<1> USE DEF Block
<1>1. n = 3 + ZcRounds
  <2>1. CASE n = 1
    <3>1. SaysOf(n) = <<Mark("flock-zerocheck")>>
      BY <2>1, BlocksAre DEF SaysOf
    <3> QED
      BY <3>1 DEF Range, Mark
  <2>2. CASE n = 2
    <3>1. SaysOf(n) = <<Slice("round1_ab"), Slice("round1_c")>>
      BY <2>2, BlocksAre DEF SaysOf
    <3> QED
      BY <3>1 DEF Range, Mark, Slice
  <2>3. ASSUME NEW f, NEW r, SaysOf(n) = Round(f, r).says PROVE FALSE
    BY <2>3 DEF Range, Mark, Scalar, Round
  <2>4. CASE \E r \in 1..ZcRounds : n = 2 + r
    BY <2>3, <2>4, BlocksAre DEF SaysOf
  <2>5. CASE ConstPin /\ n = 4 + ZcRounds
    <3>1. SaysOf(n) = <<>>
      BY <2>5, BlocksAre DEF SaysOf
    <3> QED
      BY <3>1 DEF Range
  <2>6. CASE \E r \in 1..LcRounds : n = 3 + ZcRounds + Pins + r
    BY <2>3, <2>6, BlocksAre DEF SaysOf
  <2>7. CASE n = N
    <3>1. SaysOf(n) = <<Slice("z_partial")>>
      BY <2>7, BlocksAre DEF SaysOf, Closing
    <3> QED
      BY <3>1 DEF Range, Mark, Slice
  <2> QED
    BY <2>1, <2>2, <2>4, <2>5, <2>6, <2>7, BlockCases
<1>2. SaysOf(n) = <<Scalar("finals", 1), Scalar("finals", 2), Mark("flock-lincheck")>>
  BY <1>1, BlocksAre DEF SaysOf, Finals
<1>3. Taken(SaysOf(n), Len(SaysOf(n)) + 1) = 2
  BY <1>2 DEF Taken, SayWidth, Scalar, Mark
<1>4. CursorAt(n) = 2 * Ell + 2 * ZcRounds
  BY <1>1, Bounds DEF CursorAt
<1> QED
  BY <1>3, <1>4, Bounds DEF ZerocheckMasks

(* The count never fails: a walk draws. *)
LEMMA WalkIsDraw ==
  ASSUME PadInv, NEW b \in Walkers, NEW c \in Class, WalkBlock(b, c)
  PROVE  DrawBlock(b, c)
<1>1. ASSUME Miscounted(b) PROVE FALSE
  <2>1. /\ b = "prover" /\ pc["prover"] = "walk" /\ blk["prover"] <= N
        /\ Mark("flock-lincheck") \in Range(SaysOf(blk["prover"]))
        /\ cursor + Taken(SaysOf(blk["prover"]), Len(SaysOf(blk["prover"])) + 1) # ZerocheckMasks
    BY <1>1, SameBlocks, BlocksAre DEF Miscounted, SaysOf
  <2>2. blk["prover"] \in 1..N
    BY <2>1, ThreadNames, PinsType, TypesGive
  <2>3. cursor = CursorAt(blk["prover"])
    BY <2>1 DEF PadInv, Control
  <2> QED
    BY <2>1, <2>2, <2>3, MasksAreCounted
<1> QED
  BY <1>1 DEF WalkBlock

LEMMA DrawBlockPads ==
  ASSUME PadInv, NEW b \in Walkers, NEW c \in Class, DrawBlock(b, c)
  PROVE  PadInv'
<1> DEFINE block == Blocks(b)[blk[b]]
           again == pc[b] = "redraw"
           t == IF again THEN tr[b] ELSE Absorb(tr[b], Observed(b, block.says))
<1>1. /\ pc[b] \in {"walk", "redraw"} /\ blk[b] <= Len(Blocks(b))
      /\ b # "prover" => Shaped(b, PiopFields)
      /\ block.draws # "eq" => c = "good"
      /\ Answered(t, c)
      /\ Says(b, Squeezed(t))
      /\ IF DrawAgain(c)
         THEN Goto(b, "redraw") /\ UNCHANGED <<blk, chal>>
         ELSE /\ Goto(b, IF Degenerate(b) THEN "InvalidShape" ELSE "walk")
              /\ blk' = [blk EXCEPT ![b] = @ + 1]
              /\ chal' = [chal EXCEPT ![b] = Append(@, IdOf(t))]
      /\ cursor' = IF b # "prover" \/ again THEN cursor
                   ELSE IF Mark("flock-lincheck") \in Range(block.says) THEN LincheckCursor
                   ELSE cursor + Taken(block.says, Len(block.says) + 1)
      /\ UNCHANGED <<start, link, trial, proof, attest>>
  BY DEF DrawBlock
<1>2. blk[b] \in 1..N /\ block = ProverBlocks[blk[b]] /\ block.says = SaysOf(blk[b])
  <2>1. blk[b] \in Nat \ {0} /\ N \in Nat
    BY ThreadNames, PinsType, TypesGive
  <2>2. Blocks(b) = ProverBlocks /\ Len(ProverBlocks) = N
    BY SameBlocks, BlocksAre
  <2> QED
    BY <1>1, <2>1, <2>2 DEF SaysOf
<1>3. TranscriptOK(t, oracle)
  <2>1. TranscriptOK(tr[b], oracle)
    BY ThreadNames DEF PadInv, Transcripts
  <2>2. CASE again
    BY <2>1, <2>2
  <2>3. CASE ~again
    <3>1. Observed(b, block.says) \in Seq(SayableItem)
      BY <1>1, <1>2, <2>3, ObservedIs
    <3> QED
      BY <2>1, <2>3, <3>1, AbsorbOK
  <2> QED
    BY <2>2, <2>3
<1> HIDE DEF t
<1>4. /\ OracleOK(oracle') /\ Len(oracle) <= Len(oracle') /\ IdOf(t) \in Nat \ {0}
      /\ TranscriptOK(Squeezed(t), oracle')
  BY <1>1, <1>3, AnsweredGives DEF PadInv
<1>5. Transcripts'
  BY <1>1, <1>4, MoveTranscript, ThreadNames DEF PadInv, Says
<1>6. blk[b] # 1 => c = "good"
  BY <1>1, <1>2, DrawsAre
<1>7. cursor' \in Nat
      /\ (b = "prover" => cursor' = CursorAt(IF DrawAgain(c) THEN blk[b] ELSE blk[b] + 1))
  <2>1. CASE b # "prover"
    BY <1>1, <2>1 DEF PadInv, VarTypes
  <2>2. CASE b = "prover" /\ again
    <3>1. blk[b] = 1 /\ cursor' = cursor /\ cursor = CursorAt(1)
      BY <1>1, <2>2, ThreadNames DEF PadInv, Control
    <3>2. CursorAt(1) = 0 /\ CursorAt(1 + 1) = 0
      BY DEF CursorAt
    <3> QED
      BY <3>1, <3>2
  <2>3. CASE b = "prover" /\ ~again
    <3>1. cursor = CursorAt(blk[b])
      BY <1>1, <2>3, ThreadNames DEF PadInv, Control
    <3>2. cursor' = CursorAt(blk[b] + 1)
      BY <1>1, <1>2, <2>3, <3>1, BlockIsPadded DEF NextCursor
    <3>3. DrawAgain(c) => blk[b] = 1 /\ CursorAt(1) = 0 /\ CursorAt(1 + 1) = 0
      BY <1>6 DEF CursorAt, DrawAgain
    <3>4. CursorAt(blk[b] + 1) \in Nat
      BY <1>2, Bounds, PinsType DEF CursorAt, LincheckCursor, PiopCount
    <3> QED
      BY <3>2, <3>3, <3>4
  <2> QED
    BY <2>1, <2>2, <2>3
<1>8. VarTypes'
  <2>1. pc' \in [Threads -> Places]
    <3>1. pc \in [Threads -> Places] /\ b \in Threads
      BY ThreadNames DEF PadInv, VarTypes
    <3>2. PICK p \in {"redraw", "InvalidShape", "walk"} : pc' = [pc EXCEPT ![b] = p]
      BY <1>1 DEF Goto
    <3>3. p \in Places
      BY PlaceNames
    <3> QED
      BY <3>1, <3>2, <3>3
  <2>2. blk' \in [Threads -> Nat \ {0}]
    <3>1. blk \in [Threads -> Nat \ {0}] /\ b \in Threads
      BY ThreadNames DEF PadInv, VarTypes
    <3>2. blk' = blk \/ blk' = [blk EXCEPT ![b] = @ + 1]
      BY <1>1
    <3> QED
      BY <3>1, <3>2
  <2>3. chal' \in [Walkers -> Seq(Nat \ {0})]
    <3>1. chal \in [Walkers -> Seq(Nat \ {0})]
      BY DEF PadInv, VarTypes
    <3>2. chal' = chal \/ chal' = [chal EXCEPT ![b] = Append(@, IdOf(t))]
      BY <1>1
    <3>3. Append(chal[b], IdOf(t)) \in Seq(Nat \ {0})
      BY <1>4, <3>1
    <3> QED
      BY <3>1, <3>2, <3>3
  <2> QED
    BY <1>1, <1>7, <2>1, <2>2, <2>3 DEF PadInv, VarTypes
<1>9. Proofs' /\ Pads'
  <2>1. pc'["prover"] \notin Unmasked => pc["prover"] \notin Unmasked
    BY <1>1, ThreadNames, PlaceNames, ZenonT(40) DEF PadInv, VarTypes, Goto
  <2>2. pc'["verifier"] # "idle" => pc["verifier"] # "idle"
    BY <1>1, ThreadNames DEF PadInv, VarTypes, Goto
  <2>3. pc["prover"] = "shipped" => pc'["prover"] = "shipped"
    BY <1>1, ThreadNames DEF PadInv, VarTypes, Goto
  <2> QED
    BY <1>1, <2>1, <2>2, <2>3 DEF PadInv, Proofs, Pads
<1>10. Control'
  <2>1. /\ DOMAIN pc = Threads /\ DOMAIN blk = Threads /\ blk[b] \in Nat
    BY ThreadNames DEF PadInv, VarTypes
  <2>2. /\ \A x \in Threads \ {b} : pc'[x] = pc[x] /\ blk'[x] = blk[x]
        /\ pc'[b] \in {"walk", "redraw", "InvalidShape"}
        /\ pc'[b] = "redraw" => DrawAgain(c) /\ blk'[b] = blk[b]
        /\ pc'[b] = "walk" => ~DrawAgain(c) /\ blk'[b] = blk[b] + 1
        /\ blk'[b] \in {blk[b], blk[b] + 1}
    BY <1>1, <2>1, ThreadNames DEF Goto
  <2>3. DrawAgain(c) => blk[b] = 1
    BY <1>6 DEF DrawAgain
  <2>4. pc[b] \in {"walk", "redraw"} /\ blk[b] <= N
    BY <1>1, <1>2
  <2>5. pc'["prover"] # "bind" \/ (cursor' = cursor /\ pc["prover"] = "bind")
    BY <1>1, <2>2, ThreadNames
  <2>6. pc'["prover"] \in {"walk", "redraw"} => blk'["prover"] <= N + 1 /\ cursor' = CursorAt(blk'["prover"])
    <3>1. CASE b = "prover"
      <4>1. blk[b] \in Nat /\ blk[b] <= N /\ N \in Nat
        BY <1>2, PinsType
      <4> QED
        BY <1>7, <2>2, <3>1, <4>1
    <3>2. CASE b # "prover"
      BY <1>1, <2>2, <3>2, ThreadNames DEF PadInv, Control
    <3> QED
      BY <3>1, <3>2
  <2>7. \A x \in Main : /\ pc'[x] \in {"idle", "bind"} => blk'[x] = 1
                        /\ pc'[Second[x]] = "idle" => blk'[Second[x]] = 1
                        /\ pc'[Second[x]] \in {"walk", "redraw"} /\ blk'[Second[x]] <= N => pc'[x] = "circuit"
    <3> TAKE x \in Main
    <3>1. pc[x] \in {"idle", "bind"} => blk[x] = 1
      BY DEF PadInv, Control
    <3>2. pc[Second[x]] = "idle" => blk[Second[x]] = 1
      BY DEF PadInv, Control
    <3>3. pc[Second[x]] \in {"walk", "redraw"} /\ blk[Second[x]] <= N => pc[x] = "circuit"
      BY DEF PadInv, Control
    <3>4. x \in Threads /\ Second[x] \in Threads /\ x # Second[x]
      BY ThreadNames
    <3>5. CASE b = x
      BY <2>2, <2>4, <3>1, <3>2, <3>3, <3>4, <3>5
    <3>6. CASE b = Second[x]
      BY <2>2, <2>4, <3>1, <3>2, <3>3, <3>4, <3>6
    <3>7. CASE b # x /\ b # Second[x]
      BY <2>2, <3>1, <3>2, <3>3, <3>4, <3>7
    <3> QED
      BY <3>5, <3>6, <3>7
  <2>8. \A x \in Walkers : pc'[x] = "redraw" => blk'[x] = 1
    BY <2>2, <2>3, ThreadNames DEF PadInv, Control
  <2>9. /\ pc'["pcs"] \in {"draw", "pow"} => pc'["prover"] \in {"join", "shipped"}
        /\ pc'["pcs"] = "pow" /\ pc'[Side'] = "join" => blk'["pcs"] <= FoldSites
    <3>1. /\ pc["pcs"] \in {"draw", "pow"} => pc["prover"] \in {"join", "shipped"}
          /\ pc["pcs"] = "pow" /\ pc[Side] = "join" => blk["pcs"] <= FoldSites
      BY DEF PadInv, Control
    <3>2. pc'["pcs"] = pc["pcs"] /\ blk'["pcs"] = blk["pcs"]
      BY <2>2, ThreadNames
    <3>3. pc["prover"] \in {"join", "shipped"} => pc'["prover"] = pc["prover"]
      BY <2>2, <2>4, ThreadNames
    <3>4. pc'["verifier"] = "join" => pc["verifier"] = "join"
      BY <2>2, <2>4, ThreadNames
    <3> QED
      BY <3>1, <3>2, <3>3, <3>4 DEF Side
  <2> QED
    BY <2>5, <2>6, <2>7, <2>8, <2>9, <1>1 DEF PadInv, Control
<1> QED
  BY <1>4, <1>5, <1>8, <1>9, <1>10 DEF PadInv

LEMMA Tuples ==
  ASSUME NEW S
  PROVE  /\ \A a \in S : <<a>> \in Seq(S)
         /\ \A a, b \in S : <<a, b>> \in Seq(S)
         /\ \A a, b, c \in S : <<a, b, c>> \in Seq(S)
         /\ \A a, b, c, d, e \in S : <<a, b, c, d, e>> \in Seq(S)
         /\ \A a, b, c, d, e, f, g, h, i \in S : <<a, b, c, d, e, f, g, h, i>> \in Seq(S)
OBVIOUS

(* What each side observes outside the blocks. *)
LEMMA ItemsTyped ==
  ASSUME NEW q, ProofOK(q)
  PROVE  /\ StatementItems(q) \o BindItems(q) \in Seq(SayableItem)
         /\ DirectItems(q) \in Seq(SayableItem) /\ BlindedItems(q) \in Seq(SayableItem)
         /\ (\A f \in RingClaimFields : q[f] \in Seq(Sayable)) =>
                RingItems(q) \o <<Label("flock-digest-bind")>> \in Seq(SayableItem)
<1>1. \A f \in Public : Item("bytes", q[f]) \in SayableItem /\ Item("slice", q[f]) \in SayableItem
  BY ItemTyped DEF ProofOK
<1>2. \A l \in Labels : Label(l) \in SayableItem
  BY LabelItem
<1>3. {"statement", "root", "proof_nonce", "outer", "veil_linear", "veil_hadamard", "veil_root",
       "direct_blinds", "q1", "q2"} \subseteq Public
  BY NamesApart
<1>4. StatementItems(q) \in Seq(SayableItem)
  <2>1. Label("flock-blake3-preimage") \in SayableItem /\ Item("bytes", q["statement"]) \in SayableItem
    BY <1>1, <1>2, <1>3 DEF Labels
  <2> QED
    BY <2>1, Tuples, Zenon DEF StatementItems
<1>5. BindItems(q) \in Seq(SayableItem)
  <2>1. /\ Label("flock-r1cs") \in SayableItem /\ Label("veil-flock-tree-nonces") \in SayableItem
        /\ Label("veil-flock-mask-root") \in SayableItem
        /\ \A f \in {"proof_nonce", "root", "outer", "veil_linear", "veil_hadamard", "veil_root"} :
              Item("bytes", q[f]) \in SayableItem
    BY <1>1, <1>2, <1>3 DEF Labels
  <2>2. /\ Item("bytes", q["proof_nonce"]) \in SayableItem /\ Item("bytes", q["root"]) \in SayableItem
        /\ Item("bytes", q["outer"]) \in SayableItem /\ Item("bytes", q["veil_linear"]) \in SayableItem
        /\ Item("bytes", q["veil_hadamard"]) \in SayableItem /\ Item("bytes", q["veil_root"]) \in SayableItem
    BY <2>1
  <2> QED
    BY <2>1, <2>2, Tuples, Zenon DEF BindItems
<1>6. DirectItems(q) \in Seq(SayableItem)
  <2>1. Label("veil-flock-public-pcs-blind") \in SayableItem /\ Item("slice", q["direct_blinds"]) \in SayableItem
    BY <1>1, <1>2, <1>3 DEF Labels
  <2> QED
    BY <2>1, Tuples, Zenon DEF DirectItems
<1>7. BlindedItems(q) \in Seq(SayableItem)
  <2>1. /\ Label("veil-flock-blinded-ring") \in SayableItem
        /\ Item("slice", q["q1"]) \in SayableItem /\ Item("slice", q["q2"]) \in SayableItem
    BY <1>1, <1>2, <1>3 DEF Labels
  <2> QED
    BY <2>1, Tuples, Zenon DEF BlindedItems
<1>8. ASSUME \A f \in RingClaimFields : q[f] \in Seq(Sayable)
      PROVE  RingItems(q) \o <<Label("flock-digest-bind")>> \in Seq(SayableItem)
  <2>1. Label("veil-flock-ring-masks") \in SayableItem /\ Label("flock-digest-bind") \in SayableItem
    BY <1>2 DEF Labels
  <2>2. \A f \in RingClaimFields : Item("slice", q[f]) \in SayableItem
    BY <1>8, ItemTyped
  <2>3. /\ Item("slice", q["ring1_witness"]) \in SayableItem /\ Item("slice", q["ring1_blind"]) \in SayableItem
        /\ Item("slice", q["ring2_witness"]) \in SayableItem /\ Item("slice", q["ring2_blind"]) \in SayableItem
    BY <2>2 DEF RingClaimFields
  <2>4. RingItems(q) \in Seq(SayableItem)
    BY <2>1, <2>3, Tuples, Zenon DEF RingItems
  <2>5. <<Label("flock-digest-bind")>> \in Seq(SayableItem)
    BY <2>1, Tuples, Zenon
  <2> QED
    BY <2>4, <2>5, Concatenation
<1>9. StatementItems(q) \o BindItems(q) \in Seq(SayableItem)
  BY <1>4, <1>5, Concatenation
<1> QED
  BY <1>6, <1>7, <1>8, <1>9

LEMMA PowTyped ==
  /\ \A v \in Sayable : <<PowBytes(v)>> \in Seq(SayableItem)
  /\ \A o, t : \A n \in Nat : TranscriptOK(t, o) => TranscriptOK(PowPoint(t, n), o)
<1>1. \A v \in Sayable : <<v>> \in Seq(Sayable)
  BY Tuples
<1>2. \A v \in Sayable : PowBytes(v) \in SayableItem
  BY <1>1, ItemTyped DEF PowBytes
<1>3. ASSUME NEW o, NEW t, NEW n \in Nat, TranscriptOK(t, o)
      PROVE  TranscriptOK(PowPoint(t, n), o)
  <2>1. V("nonce", n) \in Sayable
    BY PublicElement
  <2>2. Item("pow", <<V("nonce", n)>>) \in SayableItem
    BY <1>1, <2>1, ItemTyped
  <2>3. <<Item("pow", <<V("nonce", n)>>)>> \in Seq(SayableItem)
    BY <2>2, Tuples
  <2> QED
    BY <1>3, <2>3, AbsorbOK DEF PowPoint
<1>4. \A v \in Sayable : <<PowBytes(v)>> \in Seq(SayableItem)
  BY <1>2, Tuples
<1> QED
  BY <1>3, <1>4

(* The bounds on pc after a thread moves. *)
LEMMA MovePlace ==
  ASSUME PadInv, NEW b \in Threads, NEW p \in Places, pc' = [pc EXCEPT ![b] = p]
  PROVE  pc' \in [Threads -> Places] /\ pc'[b] = p /\ \A x \in Threads \ {b} : pc'[x] = pc[x]
<1>1. pc \in [Threads -> Places]
  BY DEF PadInv, VarTypes
<1> QED
  BY <1>1

LEMMA BindPads ==
  ASSUME PadInv, NEW b \in Main, Bind(b)
  PROVE  PadInv'
<1> DEFINE t == Absorb(tr[b], StatementItems(proof[b]) \o BindItems(proof[b]))
<1>1. /\ pc[b] = "bind" /\ tr' = [tr EXCEPT ![b] = t] /\ start' = [start EXCEPT ![b] = t]
      /\ pc' = [pc EXCEPT ![b] = "walk"]
      /\ UNCHANGED <<oracle, blk, chal, cursor, link, trial, proof, attest>>
  BY DEF Bind, Says, Goto
<1>2. TranscriptOK(t, oracle)
  <2>1. StatementItems(proof[b]) \o BindItems(proof[b]) \in Seq(SayableItem)
    BY ItemsTyped, TypesGive
  <2>2. TranscriptOK(tr[b], oracle)
    BY ThreadNames DEF PadInv, Transcripts
  <2> QED
    BY <2>1, <2>2, AbsorbOK
<1> HIDE DEF t
<1>3. Transcripts' /\ OracleOK(oracle')
  BY <1>1, <1>2, SMTT(30) DEF PadInv, Transcripts, TranscriptOK
<1>4. /\ pc' \in [Threads -> Places] /\ pc'[b] = "walk" /\ b \in Threads
      /\ \A x \in Threads \ {b} : pc'[x] = pc[x]
  BY <1>1, ThreadNames, PlaceNames, MovePlace, Zenon
<1>5. VarTypes' /\ Proofs'
  BY <1>1, <1>4 DEF PadInv, VarTypes, Proofs
<1>6. Pads'
  BY <1>1, <1>4, ThreadNames DEF PadInv, Pads, Unmasked
<1>7. Control'
  <2>1. blk[b] = 1 /\ CursorAt(1) = 0 /\ 1 <= N + 1
    BY <1>1, PinsType DEF PadInv, Control, CursorAt
  <2> QED
    BY <1>1, <1>4, <2>1, ThreadNames DEF PadInv, Control, Side
<1> QED
  BY <1>3, <1>5, <1>6, <1>7 DEF PadInv

LEMMA RefuseShapePads ==
  ASSUME PadInv, NEW b \in Walkers, RefuseShape(b)
  PROVE  PadInv'
<1>1. /\ b # "prover" /\ pc[b] = "walk" /\ pc' = [pc EXCEPT ![b] = "InvalidShape"]
      /\ UNCHANGED <<oracle, tr, blk, chal, cursor, start, link, trial, proof, attest>>
  BY SMTT(30) DEF RefuseShape, Goto
<1>2. /\ pc' \in [Threads -> Places] /\ pc'[b] = "InvalidShape" /\ b \in Threads
      /\ \A x \in Threads \ {b} : pc'[x] = pc[x]
  BY <1>1, ThreadNames, PlaceNames, MovePlace, Zenon
<1>3. VarTypes' /\ Proofs' /\ Transcripts' /\ OracleOK(oracle')
  BY <1>1, <1>2 DEF PadInv, VarTypes, Proofs, Transcripts
<1>4. Pads'
  BY <1>1, <1>2, ThreadNames DEF PadInv, Pads, Unmasked
<1>5. Control'
  BY <1>1, <1>2, ThreadNames DEF PadInv, Control, Side
<1> QED
  BY <1>3, <1>4, <1>5 DEF PadInv

LEMMA MaskMessagesPads ==
  ASSUME PadInv, MaskMessages
  PROVE  PadInv'
<1>1. /\ pc["prover"] = "walk" /\ blk["prover"] > Len(Blocks("prover"))
      /\ UNCHANGED <<oracle, tr, blk, chal, cursor, start, link, trial, attest>>
      /\ \/ /\ proof' = [proof EXCEPT !["prover"] = MaskedProof(@)] /\ pc' = [pc EXCEPT !["prover"] = "rings"]
         \/ pc' = [pc EXCEPT !["prover"] = "InvalidShape"] /\ proof' = proof
  BY DEF MaskMessages, Goto
<1>2. PICK p \in {"rings", "InvalidShape"} :
         /\ pc' = [pc EXCEPT !["prover"] = p]
         /\ p = "rings" => proof' = [proof EXCEPT !["prover"] = MaskedProof(@)]
         /\ p = "InvalidShape" => proof' = proof
  BY <1>1, SMTT(30)
<1>3. /\ pc' \in [Threads -> Places] /\ pc'["prover"] = p /\ "prover" \in Threads
      /\ \A x \in Threads \ {"prover"} : pc'[x] = pc[x]
  BY <1>2, ThreadNames, PlaceNames, MovePlace, Zenon
<1>4. VarTypes' /\ Transcripts' /\ OracleOK(oracle')
  BY <1>1, <1>3 DEF PadInv, VarTypes, Transcripts
<1>5. Proofs'
  <2>1. ASSUME NEW q, ProofOK(q) PROVE ProofOK(MaskedProof(q)) /\ (Counted(q) => Counted(MaskedProof(q)))
    <3>1. /\ DOMAIN MaskedProof(q) = Field /\ \A f \in Public : MaskedProof(q)[f] = q[f]
      BY MaskedFields
    <3>2. "blind_nonce" \in Public /\ "fold_nonces" \in Public /\ "surplus" \in Public
      BY NamesApart
    <3> QED
      BY <2>1, <3>1, <3>2 DEF ProofOK, Counted
  <2> QED
    BY <1>2, <2>1, ThreadNames DEF PadInv, Proofs
<1>6. Pads'
  <2>1. pc["verifier"] = "idle"
    BY <1>1 DEF PadInv, Pads
  <2>2. p = "rings" => \A f \in Private : proof'["prover"][f] = [i \in 1..FieldLen[f] |-> Padded(f, i)]
    BY <1>2, MaskedFields, ThreadNames DEF PadInv, Proofs
  <2> QED
    BY <1>2, <1>3, <2>1, <2>2, ThreadNames, PlaceNames DEF Pads
<1>7. Control'
  BY <1>1, <1>2, <1>3, ThreadNames DEF PadInv, Control, Side
<1> QED
  BY <1>4, <1>5, <1>6, <1>7 DEF PadInv

LEMMA WalkedPads ==
  ASSUME PadInv, Walked
  PROVE  PadInv'
<1>1. /\ pc["verifier"] = "walk" /\ pc' = [pc EXCEPT !["verifier"] = "rings"]
      /\ UNCHANGED <<oracle, tr, blk, chal, cursor, start, link, trial, proof, attest>>
  BY SMTT(30) DEF Walked, Goto
<1>2. /\ pc' \in [Threads -> Places] /\ pc'["verifier"] = "rings" /\ "verifier" \in Threads
      /\ \A x \in Threads \ {"verifier"} : pc'[x] = pc[x]
  BY <1>1, ThreadNames, PlaceNames, MovePlace, Zenon
<1>3. VarTypes' /\ Proofs' /\ Transcripts' /\ OracleOK(oracle')
  BY <1>1, <1>2 DEF PadInv, VarTypes, Proofs, Transcripts
<1>4. Pads'
  BY <1>1, <1>2, ThreadNames DEF PadInv, Pads, Unmasked
<1>5. Control'
  BY <1>1, <1>2, ThreadNames DEF PadInv, Control, Side
<1> QED
  BY <1>3, <1>4, <1>5 DEF PadInv

LEMMA RingsPads ==
  ASSUME PadInv, NEW b \in Main, Rings(b)
  PROVE  PadInv'
<1> DEFINE t == Absorb(tr[b], RingItems(proof[b]) \o <<Label("flock-digest-bind")>>)
<1>1. /\ pc[b] = "rings" /\ Answered(t, "good")
      /\ link' = [link EXCEPT ![b].digest = IdOf(t)]
      /\ UNCHANGED <<blk, chal, cursor, start, trial, proof, attest>>
      /\ \/ /\ tr' = [tr EXCEPT ![b] = Absorb(Squeezed(t), DirectItems(proof[b]))]
            /\ pc' = [pc EXCEPT ![b] = "pow"]
         \/ tr' = [tr EXCEPT ![b] = Squeezed(t)] /\ pc' = [pc EXCEPT ![b] = "InvalidShape"]
  BY DEF Rings, Says, Goto
<1>2. TranscriptOK(t, oracle)
  <2>1. \A f \in RingClaimFields : proof[b][f] \in Seq(Sayable)
    <3> TAKE f \in RingClaimFields
    <3>1. f \in Private
      BY NamesApart
    <3>2. CASE b = "prover"
      <4>1. proof["prover"][f] = [i \in 1..FieldLen[f] |-> Padded(f, i)]
        BY <1>1, <3>1, <3>2 DEF PadInv, Pads, Unmasked
      <4> QED
        BY <3>1, <3>2, <4>1, MaskedFields, Zenon
    <3>3. CASE b = "verifier"
      BY <1>1, <3>1, <3>3 DEF PadInv, Pads
    <3> QED
      BY <3>2, <3>3, ThreadNames
  <2>2. TranscriptOK(tr[b], oracle) /\ ProofOK(proof[b])
    BY ThreadNames, TypesGive DEF PadInv, Transcripts
  <2> QED
    BY <2>1, <2>2, ItemsTyped, AbsorbOK
<1> HIDE DEF t
<1>3. /\ OracleOK(oracle') /\ Len(oracle) <= Len(oracle') /\ IdOf(t) \in Nat \ {0}
      /\ TranscriptOK(Squeezed(t), oracle')
  BY <1>1, <1>2, AnsweredGives DEF PadInv, Class
<1>4. TranscriptOK(Absorb(Squeezed(t), DirectItems(proof[b])), oracle')
  BY <1>3, ItemsTyped, TypesGive, AbsorbOK
<1>5. Transcripts'
  BY <1>1, <1>3, <1>4, MoveTranscript, ThreadNames DEF PadInv
<1>6. PICK p \in {"pow", "InvalidShape"} : pc' = [pc EXCEPT ![b] = p]
  BY <1>1, SMTT(30)
<1>7. /\ pc' \in [Threads -> Places] /\ pc'[b] = p /\ b \in Threads
      /\ \A x \in Threads \ {b} : pc'[x] = pc[x]
  BY <1>6, ThreadNames, PlaceNames, MovePlace, Zenon
<1>8. VarTypes' /\ Proofs'
  <2>1. VarTypes'
    <3>1. link' \in [Main -> [digest : Nat, blind : Nat]]
      BY <1>1, <1>3 DEF PadInv, VarTypes
    <3> QED
      BY <1>1, <1>7, <3>1 DEF PadInv, VarTypes
  <2>2. Proofs'
    BY <1>1 DEF PadInv, Proofs
  <2> QED
    BY <2>1, <2>2
<1>9. Pads'
  BY <1>1, <1>6, <1>7, ThreadNames DEF PadInv, Pads, Unmasked
<1>10. Control'
  BY <1>1, <1>6, <1>7, ThreadNames DEF PadInv, Control, Side
<1> QED
  BY <1>3, <1>5, <1>8, <1>9, <1>10 DEF PadInv

LEMMA GrindBlindPads ==
  ASSUME PadInv, NEW c \in Class, GrindBlind(c)
  PROVE  PadInv'
<1> DEFINE t == PowPoint(tr["prover"], trial["prover"])
           v == V("blind_nonce", trial["prover"])
<1>1. /\ pc["prover"] = "pow" /\ Answered(t, c)
      /\ UNCHANGED <<blk, chal, cursor, start, link, attest>>
      /\ \/ trial' = [trial EXCEPT !["prover"] = @ + 1] /\ UNCHANGED <<pc, tr, proof>>
         \/ /\ proof' = [proof EXCEPT !["prover"]["blind_nonce"] = <<v>>]
            /\ tr' = [tr EXCEPT !["prover"] = Absorb(tr["prover"], <<PowBytes(v)>>)]
            /\ pc' = [pc EXCEPT !["prover"] = IF BlindInBounds(v.i) THEN "nonzero" ELSE "GrindingLimitExceeded"]
            /\ UNCHANGED trial
  BY DEF GrindBlind, Says, Goto, NextTrial
<1>2. trial["prover"] \in Nat /\ TranscriptOK(tr["prover"], oracle)
  BY ThreadNames DEF PadInv, VarTypes, Transcripts
<1>3. TranscriptOK(t, oracle)
  BY <1>2, PowTyped
<1>4. v \in Sayable
  BY <1>2, PublicElement, NamesApart
<1> HIDE DEF t, v
<1>5. /\ OracleOK(oracle') /\ Len(oracle) <= Len(oracle')
  BY <1>1, <1>3, AnsweredGives DEF PadInv
<1>6. CASE trial' = [trial EXCEPT !["prover"] = @ + 1] /\ UNCHANGED <<pc, tr, proof>>
  <2>1. Transcripts'
    BY <1>1, <1>5, <1>6, SameTranscripts DEF PadInv
  <2>2. VarTypes' /\ Proofs' /\ Pads' /\ Control'
    BY <1>1, <1>2, <1>6 DEF PadInv, VarTypes, Proofs, Pads, Control, Side
  <2> QED
    BY <1>5, <2>1, <2>2 DEF PadInv
<1>7. CASE /\ proof' = [proof EXCEPT !["prover"]["blind_nonce"] = <<v>>]
           /\ tr' = [tr EXCEPT !["prover"] = Absorb(tr["prover"], <<PowBytes(v)>>)]
           /\ pc' = [pc EXCEPT !["prover"] = IF BlindInBounds(v.i) THEN "nonzero" ELSE "GrindingLimitExceeded"]
           /\ UNCHANGED trial
  <2>1. TranscriptOK(Absorb(tr["prover"], <<PowBytes(v)>>), oracle')
    BY <1>2, <1>4, <1>5, PowTyped, AbsorbOK, GrownTranscript DEF PadInv
  <2>2. Transcripts'
    BY <1>1, <1>5, <1>7, <2>1, MoveTranscript, ThreadNames DEF PadInv
  <2>3. PICK p \in {"nonzero", "GrindingLimitExceeded"} : pc' = [pc EXCEPT !["prover"] = p]
    BY <1>7
  <2>4. /\ pc' \in [Threads -> Places] /\ pc'["prover"] = p /\ "prover" \in Threads
        /\ \A x \in Threads \ {"prover"} : pc'[x] = pc[x]
    BY <2>3, ThreadNames, PlaceNames, MovePlace, Zenon
  <2>5. VarTypes'
    BY <1>1, <1>7, <2>4 DEF PadInv, VarTypes
  <2>6. Proofs'
    <3>1. <<v>> \in Seq(Sayable) /\ Len(<<v>>) = 1
      BY <1>4, Tuples
    <3>2. "blind_nonce" \in Field
      BY NamesApart DEF Public
    <3> QED
      BY <1>7, <3>1, <3>2, ThreadNames DEF PadInv, Proofs, ProofOK, Counted
  <2>7. Pads'
    <3>1. \A f \in Private : proof'["prover"][f] = proof["prover"][f]
      BY <1>7, NamesApart, TypesGive, ThreadNames DEF Public, ProofOK
    <3>2. proof'["verifier"] = proof["verifier"]
      BY <1>7, ThreadNames, TypesGive
    <3> QED
      BY <1>1, <2>3, <2>4, <3>1, <3>2, ThreadNames DEF PadInv, Pads, Unmasked
  <2>8. Control'
    BY <1>1, <2>3, <2>4, ThreadNames DEF PadInv, Control, Side
  <2> QED
    BY <1>5, <2>2, <2>5, <2>6, <2>7, <2>8 DEF PadInv
<1> QED
  BY <1>1, <1>6, <1>7

LEMMA VerifyBlindPads ==
  ASSUME PadInv, NEW c \in Class, VerifyBlind(c)
  PROVE  PadInv'
<1> DEFINE v == proof.verifier.blind_nonce[1]
           t == PowPoint(tr["verifier"], v.i)
<1>1. /\ pc["verifier"] = "pow"
      /\ UNCHANGED <<blk, chal, cursor, start, link, trial, proof, attest>>
      /\ \/ /\ Answered(t, c)
            /\ tr' = [tr EXCEPT !["verifier"] = Absorb(tr["verifier"], <<PowBytes(v)>>)]
            /\ pc' = [pc EXCEPT !["verifier"] = IF c = "good" THEN "nonzero" ELSE "InvalidParameters"]
         \/ pc' = [pc EXCEPT !["verifier"] = "InvalidParameters"] /\ UNCHANGED <<oracle, tr>>
  BY DEF VerifyBlind, Says, Goto
<1>2. v \in Sayable
  <2>1. proof["verifier"]["blind_nonce"] \in Seq(Sayable) /\ Len(proof["verifier"]["blind_nonce"]) = 1
    BY TypesGive, ThreadNames, NamesApart DEF ProofOK
  <2>2. \A S : \A s \in Seq(S) : Len(s) = 1 => s[1] \in S
    OBVIOUS
  <2> HIDE DEF Sayable
  <2> QED
    BY <2>1, <2>2
<1>3. v.i \in Nat
  BY <1>2 DEF Sayable, Element
<1>4. TranscriptOK(tr["verifier"], oracle) /\ TranscriptOK(t, oracle)
  BY <1>3, ThreadNames, PowTyped DEF PadInv, Transcripts
<1> HIDE DEF t, v
<1>5. /\ OracleOK(oracle') /\ Len(oracle) <= Len(oracle') /\ Transcripts'
  <2>1. CASE /\ Answered(t, c)
             /\ tr' = [tr EXCEPT !["verifier"] = Absorb(tr["verifier"], <<PowBytes(v)>>)]
    <3>1. OracleOK(oracle') /\ Len(oracle) <= Len(oracle')
      BY <1>4, <2>1, AnsweredGives DEF PadInv
    <3>2. TranscriptOK(Absorb(tr["verifier"], <<PowBytes(v)>>), oracle')
      BY <1>2, <1>4, <3>1, PowTyped, AbsorbOK, GrownTranscript DEF PadInv
    <3> QED
      BY <1>1, <2>1, <3>1, <3>2, MoveTranscript, ThreadNames DEF PadInv
  <2>2. CASE UNCHANGED <<oracle, tr>>
    BY <1>1, <2>2, SameOracle, SameTranscripts DEF PadInv
  <2> QED
    BY <1>1, <2>1, <2>2
<1>6. PICK p \in {"nonzero", "InvalidParameters"} : pc' = [pc EXCEPT !["verifier"] = p]
  BY <1>1
<1>7. /\ pc' \in [Threads -> Places] /\ pc'["verifier"] = p /\ "verifier" \in Threads
      /\ \A x \in Threads \ {"verifier"} : pc'[x] = pc[x]
  BY <1>6, ThreadNames, PlaceNames, MovePlace, Zenon
<1>8. VarTypes' /\ Proofs'
  BY <1>1, <1>7 DEF PadInv, VarTypes, Proofs
<1>9. Pads'
  BY <1>1, <1>6, <1>7, ThreadNames DEF PadInv, Pads, Unmasked
<1>10. Control'
  BY <1>1, <1>6, <1>7, ThreadNames DEF PadInv, Control, Side
<1> QED
  BY <1>5, <1>8, <1>9, <1>10 DEF PadInv

LEMMA SampleNonzeroPads ==
  ASSUME PadInv, NEW b \in Main, NEW c \in Class, SampleNonzero(b, c)
  PROVE  PadInv'
<1>1. /\ pc[b] = "nonzero" /\ Answered(tr[b], c) /\ tr' = [tr EXCEPT ![b] = Squeezed(tr[b])]
      /\ \/ pc' = pc /\ link' = link
         \/ pc' = [pc EXCEPT ![b] = "blinded"] /\ link' = [link EXCEPT ![b].blind = IdOf(tr[b])]
      /\ UNCHANGED <<blk, chal, cursor, start, trial, proof, attest>>
  BY DEF SampleNonzero, Says, Goto
<1>2. TranscriptOK(tr[b], oracle)
  BY ThreadNames DEF PadInv, Transcripts
<1>3. /\ OracleOK(oracle') /\ Len(oracle) <= Len(oracle') /\ IdOf(tr[b]) \in Nat \ {0}
      /\ TranscriptOK(Squeezed(tr[b]), oracle')
  BY <1>1, <1>2, AnsweredGives DEF PadInv
<1>4. Transcripts'
  BY <1>1, <1>3, MoveTranscript, ThreadNames DEF PadInv
<1>5. PICK p \in {"nonzero", "blinded"} : pc' = [pc EXCEPT ![b] = p]
  <2>1. pc' = pc => pc' = [pc EXCEPT ![b] = "nonzero"]
    BY <1>1 DEF PadInv, VarTypes
  <2> QED
    BY <1>1, <2>1
<1>6. /\ pc' \in [Threads -> Places] /\ pc'[b] = p /\ b \in Threads
      /\ \A x \in Threads \ {b} : pc'[x] = pc[x]
  BY <1>5, ThreadNames, PlaceNames, MovePlace, Zenon
<1>7. VarTypes' /\ Proofs'
  <2>1. link \in [Main -> [digest : Nat, blind : Nat]]
    BY DEF PadInv, VarTypes
  <2>2. link' \in [Main -> [digest : Nat, blind : Nat]]
    <3>1. CASE link' = link
      BY <2>1, <3>1
    <3>2. CASE link' = [link EXCEPT ![b].blind = IdOf(tr[b])]
      BY <1>3, <2>1, <3>2
    <3> QED
      BY <1>1, <3>1, <3>2
  <2> QED
    BY <1>1, <1>6, <2>2 DEF PadInv, VarTypes, Proofs
<1>8. Pads'
  BY <1>1, <1>5, <1>6, ThreadNames DEF PadInv, Pads, Unmasked
<1>9. Control'
  BY <1>1, <1>5, <1>6, ThreadNames DEF PadInv, Control, Side
<1> QED
  BY <1>3, <1>4, <1>7, <1>8, <1>9 DEF PadInv

LEMMA StartCircuitPads ==
  ASSUME PadInv, NEW b \in Main, StartCircuit(b)
  PROVE  PadInv'
<1> DEFINE q == IF b = "prover" THEN [proof[b] EXCEPT !.q1 = QSlice("q1"), !.q2 = QSlice("q2")]
                ELSE proof[b]
           w == Second[b]
<1>1. /\ pc[b] = "blinded" /\ proof' = [proof EXCEPT ![b] = q]
      /\ tr' = [tr EXCEPT ![b] = Absorb(tr[b], BlindedItems(q)), ![w] = start[b]]
      /\ pc' = [pc EXCEPT ![b] = "circuit", ![w] = "walk"]
      /\ UNCHANGED <<oracle, blk, chal, cursor, start, link, trial, attest>>
  BY DEF StartCircuit
<1>2. b \in Threads /\ w \in Threads /\ b # w /\ w \in Walkers /\ w \notin Main /\ b \in Walkers
  BY ThreadNames
<1>3. QSlice("q1") \in Seq(Sayable) /\ QSlice("q2") \in Seq(Sayable)
  <2>1. link["prover"]["blind"] \in Nat /\ RingWidth \in Nat
    BY ThreadNames, Bounds DEF PadInv, VarTypes
  <2>2. ASSUME NEW f \in {"q1", "q2"}, NEW i \in 1..RingWidth
        PROVE  [V(f, i) EXCEPT !.at = link["prover"]["blind"]] \in Sayable
    <3>1. V(f, i) \in Sayable /\ V(f, i) \in Element /\ f \notin Private /\ V(f, i).name = f
      BY PublicElement, NamesApart DEF Public, Sayable, V
    <3> QED
      BY <2>1, <3>1 DEF Sayable, OncePadded, Element
  <2>3. ASSUME NEW f \in {"q1", "q2"} PROVE QSlice(f) \in Seq(Sayable)
    <3> DEFINE e(i) == [V(f, i) EXCEPT !.at = link["prover"]["blind"]]
    <3>1. QSlice(f) = [i \in 1..RingWidth |-> e(i)]
      BY DEF QSlice
    <3>2. \A i \in 1..RingWidth : e(i) \in Sayable
      BY <2>2
    <3> HIDE DEF e, Sayable
    <3> QED
      BY <2>1, <3>1, <3>2
  <2> QED
    BY <2>3
<1>4. /\ ProofOK(q) /\ \A f \in Private : q[f] = proof[b][f]
      /\ b = "prover" => Counted(q)
  <2>1. ProofOK(proof[b]) /\ (b = "prover" => Counted(proof[b]))
    BY TypesGive
  <2>2. CASE b = "prover"
    <3>1. /\ DOMAIN q = Field /\ q["q1"] = QSlice("q1") /\ q["q2"] = QSlice("q2")
          /\ \A f \in Field \ {"q1", "q2"} : q[f] = proof[b][f]
      BY <2>1, <2>2, NamesApart DEF ProofOK
    <3>2. Public \subseteq Field /\ Private \subseteq Field /\ "q1" \notin Private /\ "q2" \notin Private
          /\ {"blind_nonce", "fold_nonces", "surplus"} \subseteq Public \ {"q1", "q2"}
      BY NamesApart DEF Public
    <3> HIDE DEF q
    <3> QED
      BY <1>3, <2>1, <2>2, <3>1, <3>2 DEF ProofOK, Counted
  <2>3. CASE b # "prover"
    BY <2>1, <2>3
  <2> QED
    BY <2>2, <2>3
<1> HIDE DEF q
<1>5. Transcripts' /\ OracleOK(oracle')
  <2>1. TranscriptOK(tr[b], oracle) /\ TranscriptOK(start[b], oracle)
    BY <1>2 DEF PadInv, Transcripts
  <2>2. TranscriptOK(Absorb(tr[b], BlindedItems(q)), oracle)
    BY <1>4, <2>1, ItemsTyped, AbsorbOK
  <2> QED
    BY <1>1, <1>2, <2>1, <2>2, SameOracle DEF PadInv, Transcripts
<1>6. /\ pc' \in [Threads -> Places] /\ pc'[b] = "circuit" /\ pc'[w] = "walk"
      /\ \A x \in Threads \ {b, w} : pc'[x] = pc[x]
  BY <1>1, <1>2, PlaceNames DEF PadInv, VarTypes
<1>7. VarTypes' /\ Proofs'
  BY <1>1, <1>4, <1>6, ThreadNames DEF PadInv, VarTypes, Proofs
<1>8. Pads'
  <2>1. DOMAIN proof = Main /\ \A x \in Main, f \in Private : proof'[x][f] = proof[x][f]
    BY <1>1, <1>4, TypesGive
  <2> QED
    BY <1>1, <1>6, <2>1, ThreadNames DEF PadInv, Pads, Unmasked
<1>9. Control'
  BY <1>1, <1>6, ThreadNames DEF PadInv, Control, Side
<1> QED
  BY <1>5, <1>7, <1>8, <1>9 DEF PadInv

LEMMA ForkPads ==
  ASSUME PadInv, NEW b \in Main, Fork(b)
  PROVE  PadInv'
<1> DEFINE w == Second[b]
           fork(l) == Absorb(tr[b], <<Label(l)>>)
<1>1. /\ pc[b] = "circuit" /\ (pc[w] = "InvalidShape" \/ (pc[w] = "walk" /\ blk[w] > Len(Blocks(w))))
      /\ UNCHANGED <<oracle, chal, cursor, start, link, trial, proof, attest>>
      /\ \/ /\ UNCHANGED <<tr, blk>>
            /\ \/ pc' = [pc EXCEPT ![b] = "InvalidShape"]
               \/ b = "verifier" /\ pc' = [pc EXCEPT ![b] = "GrindingLimitExceeded"]
         \/ /\ tr' = [tr EXCEPT !["pcs"] = fork("veil-flock-pcs-fork"), !["veil"] = fork("veil-flock-inner-fork")]
            /\ blk' = [blk EXCEPT !["pcs"] = 1]
            /\ pc' = [pc EXCEPT ![b] = "join", !["pcs"] = "draw",
                                !["veil"] = IF b = "prover" THEN "open" ELSE "idle"]
  BY DEF Fork, Goto
<1>2. Len(Blocks(w)) = N /\ w \in Walkers /\ w # b /\ b \in Threads /\ w \in Threads
  BY SameBlocks, BlocksAre, ThreadNames
<1>3. pc[w] \notin {"walk", "redraw"} \/ ~(blk[w] <= N)
  <2>1. blk[w] \in Nat /\ N \in Nat
    BY <1>2, PinsType, TypesGive
  <2> QED
    BY <1>1, <1>2, <2>1
<1>4. CASE /\ UNCHANGED <<tr, blk>>
           /\ \/ pc' = [pc EXCEPT ![b] = "InvalidShape"]
              \/ b = "verifier" /\ pc' = [pc EXCEPT ![b] = "GrindingLimitExceeded"]
  <2>1. PICK p \in {"InvalidShape", "GrindingLimitExceeded"} :
           pc' = [pc EXCEPT ![b] = p] /\ (b = "prover" => p = "InvalidShape")
    BY <1>4
  <2>2. /\ pc' \in [Threads -> Places] /\ pc'[b] = p /\ \A x \in Threads \ {b} : pc'[x] = pc[x]
    BY <1>2, <2>1, PlaceNames, MovePlace
  <2>3. VarTypes' /\ Proofs' /\ Transcripts' /\ OracleOK(oracle')
    BY <1>1, <1>4, <2>2 DEF PadInv, VarTypes, Proofs, Transcripts
  <2>4. Pads'
    BY <1>1, <2>1, <2>2, ThreadNames DEF PadInv, Pads, Unmasked
  <2>5. Control'
    BY <1>1, <1>3, <1>4, <2>1, <2>2, ThreadNames DEF PadInv, Control, Side
  <2> QED
    BY <2>3, <2>4, <2>5 DEF PadInv
<1>5. CASE /\ tr' = [tr EXCEPT !["pcs"] = fork("veil-flock-pcs-fork"), !["veil"] = fork("veil-flock-inner-fork")]
           /\ blk' = [blk EXCEPT !["pcs"] = 1]
           /\ pc' = [pc EXCEPT ![b] = "join", !["pcs"] = "draw",
                               !["veil"] = IF b = "prover" THEN "open" ELSE "idle"]
  <2>1. TranscriptOK(fork("veil-flock-pcs-fork"), oracle) /\ TranscriptOK(fork("veil-flock-inner-fork"), oracle)
    <3>1. TranscriptOK(tr[b], oracle)
      BY <1>2 DEF PadInv, Transcripts
    <3>2. \A l \in Labels : <<Label(l)>> \in Seq(SayableItem)
      BY LabelItem, Tuples
    <3>3. "veil-flock-pcs-fork" \in Labels /\ "veil-flock-inner-fork" \in Labels
      BY DEF Labels
    <3> QED
      BY <3>1, <3>2, <3>3, AbsorbOK
  <2> HIDE DEF fork
  <2>2. PICK p \in {"open", "idle"} :
           pc' = [pc EXCEPT ![b] = "join", !["pcs"] = "draw", !["veil"] = p]
    BY <1>5
  <2>3. /\ pc' \in [Threads -> Places] /\ pc'[b] = "join" /\ pc'["pcs"] = "draw" /\ pc'["veil"] = p
        /\ \A x \in Threads \ {b, "pcs", "veil"} : pc'[x] = pc[x]
    BY <1>2, <2>2, ThreadNames, PlaceNames DEF PadInv, VarTypes
  <2>4. blk' \in [Threads -> Nat \ {0}] /\ blk'["pcs"] = 1 /\ \A x \in Threads \ {"pcs"} : blk'[x] = blk[x]
    BY <1>5, ThreadNames, SMTT(30) DEF PadInv, VarTypes
  <2>5. VarTypes' /\ Proofs'
    BY <1>1, <2>3, <2>4 DEF PadInv, VarTypes, Proofs
  <2>6. Transcripts' /\ OracleOK(oracle')
    BY <1>1, <1>5, <2>1, ThreadNames, SameOracle DEF PadInv, Transcripts
  <2>7. Pads'
    BY <1>1, <2>3, ThreadNames DEF PadInv, Pads, Unmasked
  <2>8. Control'
    <3>1. b = "verifier" => pc["prover"] = "shipped"
      BY <1>1 DEF PadInv, Pads
    <3> QED
      BY <1>1, <1>3, <2>3, <2>4, <3>1, ThreadNames DEF PadInv, Control, Side
  <2> QED
    BY <2>5, <2>6, <2>7, <2>8 DEF PadInv
<1> QED
  BY <1>1, <1>4, <1>5

LEMMA SideIs == Side \in Main /\ (Side = "verifier" <=> pc["prover"] = "shipped")
BY ThreadNames DEF Side

LEMMA Replaced ==
  ASSUME NEW S, NEW s \in Seq(S), NEW i, NEW v \in S
  PROVE  [s EXCEPT ![i] = v] \in Seq(S) /\ Len([s EXCEPT ![i] = v]) = Len(s)
<1>1. PICK n \in Nat : DOMAIN s = 1..n /\ Len(s) = n /\ \A k \in 1..n : s[k] \in S
  OBVIOUS
<1> DEFINE e == [s EXCEPT ![i] = v]
<1>2. e = [k \in 1..n |-> IF k = i THEN v ELSE s[k]]
  BY <1>1
<1> HIDE DEF e
<1>3. e \in Seq(S) /\ Len(e) = n
  BY <1>1, <1>2
<1> QED
  BY <1>1, <1>3 DEF e

LEMMA PcsDrawPads ==
  ASSUME PadInv, PcsDraw
  PROVE  PadInv'
<1> DEFINE t == tr["pcs"]
<1>1. /\ pc["pcs"] = "draw" /\ pc[Side] = "join" /\ Answered(t, "good")
      /\ tr' = [tr EXCEPT !["pcs"] = Squeezed(t)]
      /\ UNCHANGED <<blk, chal, cursor, start, link, proof>>
      /\ \/ /\ blk["pcs"] <= FoldSites /\ pc' = [pc EXCEPT !["pcs"] = "pow"]
            /\ trial' = [trial EXCEPT !["pcs"] = 0] /\ UNCHANGED attest
         \/ /\ Side = "prover" /\ pc' = [pc EXCEPT !["pcs"] = "done"] /\ UNCHANGED trial
            /\ attest' = [attest EXCEPT !["pcs"] = PcsClaim(Side, IdOf(t))]
         \/ /\ Side = "verifier" /\ UNCHANGED <<trial, attest>>
            /\ \/ pc' = [pc EXCEPT !["pcs"] = "done", !["veil"] = "open"]
               \/ pc' = [pc EXCEPT !["verifier"] = "PcsRejected"]
  BY SideIs, ThreadNames DEF PcsDraw, Says, Goto
<1>2. TranscriptOK(t, oracle)
  BY ThreadNames DEF PadInv, Transcripts
<1>3. /\ OracleOK(oracle') /\ Len(oracle) <= Len(oracle') /\ TranscriptOK(Squeezed(t), oracle')
  BY <1>1, <1>2, AnsweredGives DEF PadInv, Class
<1>4. Transcripts'
  BY <1>1, <1>3, MoveTranscript, ThreadNames DEF PadInv
<1> HIDE DEF t
<1>5. CASE blk["pcs"] <= FoldSites /\ pc' = [pc EXCEPT !["pcs"] = "pow"]
           /\ trial' = [trial EXCEPT !["pcs"] = 0] /\ UNCHANGED attest
  <2>1. /\ pc' \in [Threads -> Places] /\ pc'["pcs"] = "pow" /\ \A x \in Threads \ {"pcs"} : pc'[x] = pc[x]
    BY <1>5, ThreadNames, PlaceNames, MovePlace, Zenon
  <2>2. VarTypes' /\ Proofs'
    BY <1>1, <1>5, <2>1 DEF PadInv, VarTypes, Proofs
  <2>3. Pads' /\ Control'
    BY <1>1, <1>5, <2>1, ThreadNames, SMTT(30) DEF PadInv, Pads, Control, Side
  <2> QED
    BY <1>3, <1>4, <2>2, <2>3 DEF PadInv
<1>6. CASE Side = "prover" /\ pc' = [pc EXCEPT !["pcs"] = "done"] /\ UNCHANGED trial
            /\ attest' = [attest EXCEPT !["pcs"] = PcsClaim(Side, IdOf(t))]
  <2>1. /\ pc' \in [Threads -> Places] /\ pc'["pcs"] = "done" /\ \A x \in Threads \ {"pcs"} : pc'[x] = pc[x]
    BY <1>6, ThreadNames, PlaceNames, MovePlace, Zenon
  <2>2. VarTypes' /\ Proofs'
    BY <1>1, <1>6, <2>1 DEF PadInv, VarTypes, Proofs
  <2>3. Pads' /\ Control'
    BY <1>1, <1>6, <2>1, ThreadNames DEF PadInv, Pads, Control, Side
  <2> QED
    BY <1>3, <1>4, <2>2, <2>3 DEF PadInv
<1>7. CASE Side = "verifier" /\ UNCHANGED <<trial, attest>>
            /\ \/ pc' = [pc EXCEPT !["pcs"] = "done", !["veil"] = "open"]
               \/ pc' = [pc EXCEPT !["verifier"] = "PcsRejected"]
  <2>1. /\ pc' \in [Threads -> Places] /\ pc'["pcs"] \in {"done", pc["pcs"]} /\ pc'["verifier"] \in {"PcsRejected", pc["verifier"]}
        /\ \A x \in Threads \ {"pcs", "veil", "verifier"} : pc'[x] = pc[x]
    BY <1>7, ThreadNames, PlaceNames DEF PadInv, VarTypes
  <2>2. VarTypes' /\ Proofs'
    BY <1>1, <1>7, <2>1 DEF PadInv, VarTypes, Proofs
  <2>3. Pads' /\ Control'
    BY <1>1, <1>7, <2>1, ThreadNames DEF PadInv, Pads, Control, Side
  <2> QED
    BY <1>3, <1>4, <2>2, <2>3 DEF PadInv
<1> QED
  BY <1>1, <1>5, <1>6, <1>7

LEMMA PcsGrindPads ==
  ASSUME PadInv, NEW c \in Class, PcsGrind(c)
  PROVE  PadInv'
<1> DEFINE n == trial["pcs"]
           v == V("fold_nonces", n)
           t == PowPoint(tr["pcs"], n)
<1>1. /\ Side = "prover" /\ pc["pcs"] = "pow" /\ Answered(t, c)
      /\ UNCHANGED <<chal, cursor, start, link, attest>>
      /\ \/ trial' = [trial EXCEPT !["pcs"] = n + 1] /\ UNCHANGED <<pc, tr, blk, proof>>
         \/ /\ proof' = [proof EXCEPT !["prover"]["fold_nonces"][blk["pcs"]] = v]
            /\ tr' = [tr EXCEPT !["pcs"] = Absorb(tr["pcs"], <<PowBytes(v)>>)]
            /\ blk' = [blk EXCEPT !["pcs"] = @ + 1]
            /\ pc' = [pc EXCEPT !["pcs"] = "draw"] /\ UNCHANGED trial
  BY DEF PcsGrind, Says, Goto, NextTrial
<1>2. n \in Nat /\ TranscriptOK(tr["pcs"], oracle)
  BY ThreadNames DEF PadInv, VarTypes, Transcripts
<1>3. TranscriptOK(t, oracle)
  BY <1>2, PowTyped
<1>4. v \in Sayable
  BY <1>2, PublicElement, NamesApart
<1> HIDE DEF t, v
<1>5. /\ OracleOK(oracle') /\ Len(oracle) <= Len(oracle')
  BY <1>1, <1>3, AnsweredGives DEF PadInv
<1>6. CASE trial' = [trial EXCEPT !["pcs"] = n + 1] /\ UNCHANGED <<pc, tr, blk, proof>>
  <2>1. Transcripts'
    BY <1>1, <1>5, <1>6, SameTranscripts DEF PadInv
  <2>2. VarTypes' /\ Proofs' /\ Pads' /\ Control'
    BY <1>1, <1>2, <1>6 DEF PadInv, VarTypes, Proofs, Pads, Control, Side
  <2> QED
    BY <1>5, <2>1, <2>2 DEF PadInv
<1>7. CASE /\ proof' = [proof EXCEPT !["prover"]["fold_nonces"][blk["pcs"]] = v]
           /\ tr' = [tr EXCEPT !["pcs"] = Absorb(tr["pcs"], <<PowBytes(v)>>)]
           /\ blk' = [blk EXCEPT !["pcs"] = @ + 1]
           /\ pc' = [pc EXCEPT !["pcs"] = "draw"] /\ UNCHANGED trial
  <2>1. TranscriptOK(Absorb(tr["pcs"], <<PowBytes(v)>>), oracle')
    BY <1>2, <1>4, <1>5, PowTyped, AbsorbOK, GrownTranscript DEF PadInv
  <2>2. Transcripts'
    BY <1>1, <1>5, <1>7, <2>1, MoveTranscript, ThreadNames DEF PadInv
  <2>3. /\ pc' \in [Threads -> Places] /\ pc'["pcs"] = "draw" /\ \A x \in Threads \ {"pcs"} : pc'[x] = pc[x]
    BY <1>7, ThreadNames, PlaceNames, MovePlace, Zenon
  <2>4. blk' \in [Threads -> Nat \ {0}] /\ \A x \in Threads \ {"pcs"} : blk'[x] = blk[x]
    <3>1. blk \in [Threads -> Nat \ {0}] /\ "pcs" \in Threads
      BY ThreadNames DEF PadInv, VarTypes
    <3>2. blk["pcs"] + 1 \in Nat \ {0}
      BY <3>1
    <3> QED
      BY <1>7, <3>1, <3>2
  <2>5. VarTypes'
    BY <1>1, <1>7, <2>3, <2>4 DEF PadInv, VarTypes
  <2>6. Proofs'
    <3> DEFINE d == proof["prover"]["fold_nonces"]
               e == [d EXCEPT ![blk["pcs"]] = v]
    <3>1. d \in Seq(Sayable) /\ Len(d) = FoldSites /\ DOMAIN proof["prover"] = Field
      BY ThreadNames, TypesGive, NamesApart DEF ProofOK, Counted
    <3>2. e \in Seq(Sayable) /\ Len(e) = FoldSites
      BY <1>4, <3>1, Replaced, SMTT(30)
    <3>3. proof' = [proof EXCEPT !["prover"]["fold_nonces"] = e]
      BY <1>7
    <3> HIDE DEF e
    <3>4. "fold_nonces" \in Field /\ "fold_nonces" \in Public
      BY NamesApart DEF Public
    <3> QED
      BY <3>1, <3>2, <3>3, <3>4, ThreadNames DEF PadInv, Proofs, ProofOK, Counted
  <2>7. Pads'
    <3>1. \A f \in Private : proof'["prover"][f] = proof["prover"][f]
      BY <1>7, NamesApart, TypesGive, ThreadNames DEF Public, ProofOK
    <3>2. proof'["verifier"] = proof["verifier"]
      BY <1>7, ThreadNames, TypesGive
    <3> QED
      BY <1>1, <2>3, <3>1, <3>2, ThreadNames DEF PadInv, Pads, Unmasked
  <2>8. Control'
    BY <1>1, <2>3, <2>4, ThreadNames DEF PadInv, Control, Side
  <2> QED
    BY <1>5, <2>2, <2>5, <2>6, <2>7, <2>8 DEF PadInv
<1> QED
  BY <1>1, <1>6, <1>7

LEMMA PcsVerifyPowPads ==
  ASSUME PadInv, NEW c \in Class, PcsVerifyPow(c)
  PROVE  PadInv'
<1> DEFINE n == blk["pcs"]
           v == proof.verifier.fold_nonces[n]
           t == PowPoint(tr["pcs"], v.i)
<1>1. /\ Side = "verifier" /\ pc["pcs"] = "pow" /\ pc["verifier"] = "join"
      /\ UNCHANGED <<chal, cursor, start, link, trial, proof, attest>>
      /\ \/ /\ n <= Len(proof["verifier"]["fold_nonces"]) /\ Answered(t, c)
            /\ tr' = [tr EXCEPT !["pcs"] = Absorb(tr["pcs"], <<PowBytes(v)>>)]
            /\ blk' = [blk EXCEPT !["pcs"] = @ + 1]
         \/ UNCHANGED <<oracle, tr, blk>>
      /\ \/ c = "good" /\ pc' = [pc EXCEPT !["pcs"] = "draw"]
         \/ pc' = [pc EXCEPT !["verifier"] = "PcsRejected"]
  BY DEF PcsVerifyPow, VerifyFold, Says, Goto
<1>2. blk \in [Threads -> Nat \ {0}] /\ "pcs" \in Threads
  BY ThreadNames DEF PadInv, VarTypes
<1>3. /\ OracleOK(oracle') /\ Len(oracle) <= Len(oracle') /\ Transcripts'
  <2>1. CASE /\ n <= Len(proof["verifier"]["fold_nonces"]) /\ Answered(t, c)
             /\ tr' = [tr EXCEPT !["pcs"] = Absorb(tr["pcs"], <<PowBytes(v)>>)]
    <3>1. v \in Sayable
      <4>1. proof["verifier"]["fold_nonces"] \in Seq(Sayable)
        BY TypesGive, ThreadNames, NamesApart DEF ProofOK
      <4>2. n \in Nat \ {0}
        BY <1>2
      <4>3. \A S : \A s \in Seq(S) : \A i \in Nat \ {0} : i <= Len(s) => s[i] \in S
        OBVIOUS
      <4> HIDE DEF Sayable
      <4> QED
        BY <2>1, <4>1, <4>2, <4>3
    <3>2. v.i \in Nat
      BY <3>1 DEF Sayable, Element
    <3>3. TranscriptOK(tr["pcs"], oracle) /\ TranscriptOK(t, oracle)
      BY <3>2, ThreadNames, PowTyped DEF PadInv, Transcripts
    <3> HIDE DEF t, v
    <3>4. /\ OracleOK(oracle') /\ Len(oracle) <= Len(oracle')
      BY <2>1, <3>3, AnsweredGives DEF PadInv
    <3>5. TranscriptOK(Absorb(tr["pcs"], <<PowBytes(v)>>), oracle')
      BY <3>1, <3>3, <3>4, PowTyped, AbsorbOK, GrownTranscript DEF PadInv
    <3> QED
      BY <1>1, <2>1, <3>4, <3>5, MoveTranscript, ThreadNames DEF PadInv
  <2>2. CASE UNCHANGED <<oracle, tr>>
    BY <1>1, <2>2, SameOracle, SameTranscripts DEF PadInv
  <2> QED
    BY <1>1, <2>1, <2>2
<1>8. /\ pc' \in [Threads -> Places]
      /\ \/ pc'["pcs"] = "draw" /\ pc'["verifier"] = "join"
         \/ pc'["pcs"] = "pow" /\ pc'["verifier"] = "PcsRejected"
      /\ \A x \in Threads \ {"pcs", "verifier"} : pc'[x] = pc[x]
  BY <1>1, ThreadNames, PlaceNames DEF PadInv, VarTypes
<1>9. blk' \in [Threads -> Nat \ {0}] /\ \A x \in Threads \ {"pcs"} : blk'[x] = blk[x]
  <2>1. blk["pcs"] + 1 \in Nat \ {0}
    BY <1>2
  <2> QED
    BY <1>1, <1>2, <2>1
<1>10. VarTypes' /\ Proofs'
  BY <1>1, <1>8, <1>9 DEF PadInv, VarTypes, Proofs
<1>11. Pads'
  BY <1>1, <1>8, ThreadNames DEF PadInv, Pads, Unmasked
<1>12. Control'
  BY <1>1, <1>8, <1>9, ThreadNames DEF PadInv, Control, Side
<1> QED
  BY <1>3, <1>10, <1>11, <1>12 DEF PadInv

LEMMA VeilPointTyped ==
  ASSUME PadInv
  PROVE  TranscriptOK(Absorb(tr["veil"], <<Label("veil-f128-constraint-system"),
                                           Item("bytes", proof[Side].veil_root)>>), oracle)
<1>1. TranscriptOK(tr["veil"], oracle)
  BY ThreadNames DEF PadInv, Transcripts
<1>2. proof[Side]["veil_root"] \in Seq(Sayable)
  BY SideIs, TypesGive, NamesApart DEF ProofOK
<1>3. Item("bytes", proof[Side].veil_root) \in SayableItem
  BY <1>2, ItemTyped
<1>4. Label("veil-f128-constraint-system") \in SayableItem
  BY LabelItem DEF Labels
<1>5. <<Label("veil-f128-constraint-system"), Item("bytes", proof[Side].veil_root)>> \in Seq(SayableItem)
  BY <1>3, <1>4, Tuples
<1> QED
  BY <1>1, <1>5, AbsorbOK

LEMMA VeilBranchPads ==
  ASSUME PadInv, VeilBranch
  PROVE  PadInv'
<1> DEFINE t == Absorb(tr["veil"], <<Label("veil-f128-constraint-system"), Item("bytes", proof[Side].veil_root)>>)
<1>1. /\ pc["veil"] = "open" /\ pc[Side] = "join"
      /\ UNCHANGED <<blk, chal, cursor, start, link, trial, proof>>
      /\ \/ pc' = [pc EXCEPT !["veil"] = "UnsatisfiedCircuit"] /\ UNCHANGED <<oracle, tr, attest>>
         \/ /\ Answered(t, "good") /\ tr' = [tr EXCEPT !["veil"] = Squeezed(t)]
            /\ \/ /\ pc' = [pc EXCEPT !["veil"] = "done"]
                  /\ attest' = [attest EXCEPT !["veil"] = VeilClaim(Side, IdOf(t))]
               \/ /\ Side = "verifier" /\ UNCHANGED attest
                  /\ \E p \in {"accept", "VeilRejected"} : pc' = [pc EXCEPT !["verifier"] = p]
  <2>1. Side = "prover" \/ Side = "verifier"
    BY SideIs, ThreadNames
  <2> QED
    BY <2>1 DEF VeilBranch, Says, Goto
<1>2. TranscriptOK(t, oracle)
  BY VeilPointTyped
<1> HIDE DEF t
<1>3. OracleOK(oracle') /\ Len(oracle) <= Len(oracle') /\ Transcripts'
  <2>1. CASE Answered(t, "good") /\ tr' = [tr EXCEPT !["veil"] = Squeezed(t)]
    <3>1. /\ OracleOK(oracle') /\ Len(oracle) <= Len(oracle') /\ TranscriptOK(Squeezed(t), oracle')
      BY <1>2, <2>1, AnsweredGives DEF PadInv, Class
    <3> QED
      BY <1>1, <2>1, <3>1, MoveTranscript, ThreadNames DEF PadInv
  <2>2. CASE UNCHANGED <<oracle, tr>>
    BY <1>1, <2>2, SameOracle, SameTranscripts DEF PadInv
  <2> QED
    BY <1>1, <2>1, <2>2
<1>4. /\ pc' \in [Threads -> Places] /\ pc'["verifier"] \in {pc["verifier"], "accept", "VeilRejected"}
      /\ pc'["verifier"] # pc["verifier"] => Side = "verifier"
      /\ \A x \in Threads \ {"veil", "verifier"} : pc'[x] = pc[x]
  <2>1. pc \in [Threads -> Places]
    BY DEF PadInv, VarTypes
  <2>2. PICK x \in {"veil", "verifier"}, p \in {"UnsatisfiedCircuit", "done", "accept", "VeilRejected"} :
           /\ pc' = [pc EXCEPT ![x] = p]
           /\ x = "verifier" => Side = "verifier" /\ p \in {"accept", "VeilRejected"}
    BY <1>1
  <2>3. x \in Threads /\ p \in Places
    BY ThreadNames, PlaceNames
  <2> QED
    BY <2>1, <2>2, <2>3, ThreadNames
<1>5. VarTypes' /\ Proofs'
  <2>1. DOMAIN attest' = DOMAIN attest
    BY <1>1
  <2> QED
    BY <1>1, <1>4, <2>1 DEF PadInv, VarTypes, Proofs
<1>6. Pads'
  BY <1>1, <1>4, ThreadNames DEF PadInv, Pads, Unmasked, Side
<1>7. Control'
  <2>1. ~(pc["verifier"] \in {"idle", "bind"}) \/ pc'["verifier"] = pc["verifier"]
    BY <1>1, <1>4 DEF Side
  <2>2. pc["verifier"] = "circuit" => pc'["verifier"] = "circuit"
    BY <1>1, <1>4 DEF Side
  <2>3. pc'["verifier"] = "join" => pc["verifier"] = "join"
    BY <1>4
  <2>4. Side' = Side
    BY <1>4, ThreadNames DEF Side
  <2> QED
    BY <1>1, <1>4, <2>1, <2>2, <2>3, <2>4, ThreadNames, SideIs DEF PadInv, Control
<1> QED
  BY <1>3, <1>5, <1>6, <1>7 DEF PadInv

LEMMA JoinPads ==
  ASSUME PadInv, Join
  PROVE  PadInv'
<1>1. /\ pc["prover"] = "join" /\ pc["pcs"] = "done"
      /\ UNCHANGED <<oracle, tr, blk, chal, cursor, start, link, trial, proof, attest>>
  BY DEF Join
<1>2. PICK p \in {"GrindingLimitExceeded", "shipped", "UnsatisfiedCircuit"} : pc' = [pc EXCEPT !["prover"] = p]
  BY DEF Join, Goto
<1>3. /\ pc' \in [Threads -> Places] /\ pc'["prover"] = p /\ \A x \in Threads \ {"prover"} : pc'[x] = pc[x]
  BY <1>2, ThreadNames, PlaceNames, MovePlace, Zenon
<1>4. VarTypes' /\ Proofs' /\ Transcripts' /\ OracleOK(oracle')
  BY <1>1, <1>3 DEF PadInv, VarTypes, Proofs, Transcripts
<1>5. Pads'
  BY <1>1, <1>2, <1>3, ThreadNames DEF PadInv, Pads, Unmasked
<1>6. Control'
  BY <1>1, <1>2, <1>3, ThreadNames DEF PadInv, Control, Side
<1> QED
  BY <1>4, <1>5, <1>6 DEF PadInv

(* What becomes of a proof on its way. *)
LEMMA AlteredIs ==
  ASSUME NEW q, DOMAIN q = Field, NEW r \in Altered(q)
  PROVE  \/ \E f \in Field \ Nonces : \E i \in DOMAIN q[f] : r = [q EXCEPT ![f][i].intact = FALSE]
         \/ \E f \in Nonces : \E i \in DOMAIN q[f] : \E n \in 0..MAX_BAD : r = [q EXCEPT ![f][i] = V(f, n)]
         \/ \E f \in Cuttable : q[f] # <<>> /\ r = [q EXCEPT ![f] = Truncated(q, f)]
         \/ \E f \in Extendable : \E k \in 1..2 : \E n \in 0..MAX_BAD :
              r = [q EXCEPT ![f] = Extended(q, f, k, n)]
<1> DEFINE changed(f) == {[q EXCEPT ![f][i].intact = FALSE] : i \in DOMAIN q[f]}
           nonced(f) == {[q EXCEPT ![f][i] = V(f, n)] : i \in DOMAIN q[f], n \in 0..MAX_BAD}
           cut == {[q EXCEPT ![f] = Truncated(q, f)] : f \in {g \in Cuttable : q[g] # <<>>}}
           longer == {[q EXCEPT ![f] = Extended(q, f, k, n)] :
                         f \in Extendable, k \in 1..2, n \in 0..MAX_BAD}
<1>1. Altered(q) = (UNION {changed(f) : f \in Field \ Nonces}) \cup (UNION {nonced(f) : f \in Nonces})
                     \cup cut \cup longer
  BY DEF Altered
<1>2. r \in longer => \E f \in Extendable : \E k \in 1..2 : \E n \in 0..MAX_BAD :
                        r = [q EXCEPT ![f] = Extended(q, f, k, n)]
  BY SMT
<1>3. r \in cut => \E f \in Cuttable : q[f] # <<>> /\ r = [q EXCEPT ![f] = Truncated(q, f)]
  BY Zenon
<1>4. \A f : r \in changed(f) => \E i \in DOMAIN q[f] : r = [q EXCEPT ![f][i].intact = FALSE]
  BY Zenon
<1>5. \A f : r \in nonced(f) => \E i \in DOMAIN q[f] : \E n \in 0..MAX_BAD : r = [q EXCEPT ![f][i] = V(f, n)]
  BY SMT
<1> HIDE DEF changed, nonced, cut, longer
<1>6. \/ \E f \in Field \ Nonces : r \in changed(f)
      \/ \E f \in Nonces : r \in nonced(f)
      \/ r \in cut \/ r \in longer
  BY <1>1, Zenon
<1> QED
  BY <1>2, <1>3, <1>4, <1>5, <1>6, Zenon

LEMMA AlteredOK ==
  ASSUME NEW q, ProofOK(q), \A f \in Private : q[f] \in Seq(Sayable), NEW r \in Altered(q)
  PROVE  ProofOK(r) /\ \A f \in Private : r[f] \in Seq(Sayable)
<1>1. \A f \in Field : q[f] \in Seq(Sayable)
  BY NamesApart DEF ProofOK
<1>2. DOMAIN q = Field /\ Len(q.blind_nonce) = 1
  BY DEF ProofOK
<1>3. Nonces \subseteq Public /\ Cuttable \subseteq Field /\ Public \subseteq Field /\ Private \subseteq Field
      /\ "blind_nonce" \in Public /\ "blind_nonce" \notin Cuttable \cup Extendable /\ Extendable \subseteq Public
  <2>1. Cuttable \subseteq Private \cup {"q1", "q2", "direct_blinds", "fold_nonces"}
    BY NamesApart DEF Cuttable, RingFields, RingClaimFields, Private, PiopFields
  <2>2. Nonces \subseteq Public /\ Public \subseteq Field /\ Private \subseteq Field
    BY NamesApart DEF Nonces, Public
  <2>3. {"q1", "q2", "direct_blinds", "fold_nonces", "surplus", "blind_nonce"} \subseteq Public
    BY NamesApart
  <2>4. "blind_nonce" \notin Private \cup {"q1", "q2", "direct_blinds", "fold_nonces", "surplus"}
    BY DEF Private, PiopFields, RingClaimFields
  <2> QED
    BY <2>1, <2>2, <2>3, <2>4 DEF Extendable
<1>4. ASSUME NEW s \in Seq(Sayable), NEW f \in Field, r = [q EXCEPT ![f] = s],
             f = "blind_nonce" => Len(s) = Len(q[f])
      PROVE  ProofOK(r) /\ \A g \in Private : r[g] \in Seq(Sayable)
  <2>1. DOMAIN r = Field /\ r[f] = s /\ \A g \in Field \ {f} : r[g] = q[g]
    BY <1>2, <1>4
  <2>2. \A g \in Field : r[g] \in Seq(Sayable)
    BY <1>1, <2>1
  <2>3. Len(r["blind_nonce"]) = 1
    BY <1>2, <1>3, <1>4, <2>1
  <2> QED
    BY <1>3, <2>1, <2>2, <2>3 DEF ProofOK
<1>5. ASSUME NEW f \in Field, NEW i \in DOMAIN q[f], NEW v \in Sayable
      PROVE  [q[f] EXCEPT ![i] = v] \in Seq(Sayable) /\ Len([q[f] EXCEPT ![i] = v]) = Len(q[f])
  <2>1. q[f] \in Seq(Sayable)
    BY <1>1
  <2> QED
    BY <2>1, Replaced
<1>6. ASSUME NEW f \in Field, NEW i \in DOMAIN q[f], r = [q EXCEPT ![f][i].intact = FALSE]
      PROVE  ProofOK(r) /\ \A g \in Private : r[g] \in Seq(Sayable)
  <2> DEFINE v == [q[f][i] EXCEPT !.intact = FALSE]
             s == [q[f] EXCEPT ![i] = v]
  <2>1. q[f][i] \in Sayable
    <3>1. q[f] \in Seq(Sayable)
      BY <1>1
    <3> HIDE DEF Sayable
    <3> QED
      BY <3>1
  <2>2. v \in Sayable
    BY <2>1 DEF Sayable, Element, OncePadded
  <2>3. r = [q EXCEPT ![f] = s]
    BY <1>6
  <2>4. s \in Seq(Sayable) /\ Len(s) = Len(q[f])
    BY <1>5, <2>2
  <2> HIDE DEF s
  <2> QED
    BY <1>4, <2>3, <2>4
<1>7. ASSUME NEW f \in Nonces, NEW i \in DOMAIN q[f], NEW n \in 0..MAX_BAD, r = [q EXCEPT ![f][i] = V(f, n)]
      PROVE  ProofOK(r) /\ \A g \in Private : r[g] \in Seq(Sayable)
  <2> DEFINE s == [q[f] EXCEPT ![i] = V(f, n)]
  <2>1. V(f, n) \in Sayable /\ f \in Field
    BY <1>3, PublicElement
  <2>2. s \in Seq(Sayable) /\ Len(s) = Len(q[f])
    BY <1>5, <2>1
  <2>3. r = [q EXCEPT ![f] = s]
    BY <1>7
  <2> HIDE DEF s
  <2> QED
    BY <1>4, <2>1, <2>2, <2>3
<1>8. ASSUME NEW f \in Cuttable, q[f] # <<>>, r = [q EXCEPT ![f] = Truncated(q, f)]
      PROVE  ProofOK(r) /\ \A g \in Private : r[g] \in Seq(Sayable)
  <2>1. f \in Field /\ f # "blind_nonce"
    BY <1>3
  <2>2. Truncated(q, f) \in Seq(Sayable)
    <3>1. q[f] \in Seq(Sayable)
      BY <1>1, <2>1
    <3>2. \A S : \A s \in Seq(S) : \A m \in Int : m <= Len(s) => SubSeq(s, 1, m) \in Seq(S)
      OBVIOUS
    <3>3. \E m \in Int : m <= Len(q[f]) /\ Truncated(q, f) = SubSeq(q[f], 1, m)
      <4>1. Len(q[f]) \in Nat
        <5> HIDE DEF Sayable
        <5> QED
          BY <3>1
      <4>2. \A l \in Nat : l - 2 \in Int /\ l - 1 \in Int /\ l - 2 <= l /\ l - 1 <= l
        OBVIOUS
      <4>3. CASE f \in {"rounds", "lc_rounds"}
        <5>1. Truncated(q, f) = SubSeq(q[f], 1, Len(q[f]) - 2)
          BY <4>3 DEF Truncated
        <5> QED
          BY <4>1, <4>2, <5>1
      <4>4. CASE f \notin {"rounds", "lc_rounds"}
        <5>1. Truncated(q, f) = SubSeq(q[f], 1, Len(q[f]) - 1)
          BY <4>4 DEF Truncated
        <5> QED
          BY <4>1, <4>2, <5>1
      <4> QED
        BY <4>3, <4>4
    <3> HIDE DEF Sayable
    <3> QED
      BY <3>1, <3>2, <3>3
  <2> QED
    BY <1>4, <1>8, <2>1, <2>2
<1>13. ASSUME NEW f \in Extendable, NEW k \in 1..2, NEW n \in 0..MAX_BAD,
              r = [q EXCEPT ![f] = Extended(q, f, k, n)]
       PROVE  ProofOK(r) /\ \A g \in Private : r[g] \in Seq(Sayable)
  <2> DEFINE more == [i \in 1..k |-> V(f, n)]
             s == Extended(q, f, k, n)
  <2>1. V(f, n) \in Sayable /\ f \in Field /\ f # "blind_nonce"
    BY <1>3, PublicElement
  <2>2. more \in Seq(Sayable) /\ q[f] \in Seq(Sayable)
    <3> HIDE DEF Sayable, V
    <3> QED
      BY <1>1, <2>1
  <2>3. r = [q EXCEPT ![f] = s]
    BY <1>13
  <2>4. s \in Seq(Sayable)
    <3>1. s = q[f] \o more
      BY DEF Extended
    <3> HIDE DEF more, s, Sayable
    <3> QED
      BY <2>2, <3>1
  <2> HIDE DEF s
  <2> QED
    BY <1>4, <2>1, <2>3, <2>4
<1>9. CASE \E f \in Field \ Nonces : \E i \in DOMAIN q[f] : r = [q EXCEPT ![f][i].intact = FALSE]
  BY <1>6, <1>9
<1>10. CASE \E f \in Nonces : \E i \in DOMAIN q[f] : \E n \in 0..MAX_BAD : r = [q EXCEPT ![f][i] = V(f, n)]
  BY <1>7, <1>10
<1>11. CASE \E f \in Cuttable : q[f] # <<>> /\ r = [q EXCEPT ![f] = Truncated(q, f)]
  BY <1>8, <1>11
<1>14. CASE \E f \in Extendable : \E k \in 1..2 : \E n \in 0..MAX_BAD :
              r = [q EXCEPT ![f] = Extended(q, f, k, n)]
  BY <1>13, <1>14
<1>12. \/ \E f \in Field \ Nonces : \E i \in DOMAIN q[f] : r = [q EXCEPT ![f][i].intact = FALSE]
       \/ \E f \in Nonces : \E i \in DOMAIN q[f] : \E n \in 0..MAX_BAD : r = [q EXCEPT ![f][i] = V(f, n)]
       \/ \E f \in Cuttable : q[f] # <<>> /\ r = [q EXCEPT ![f] = Truncated(q, f)]
       \/ \E f \in Extendable : \E k \in 1..2 : \E n \in 0..MAX_BAD :
            r = [q EXCEPT ![f] = Extended(q, f, k, n)]
  BY <1>2, AlteredIs, Zenon
<1> QED
  BY <1>9, <1>10, <1>11, <1>12, <1>14, Zenon

LEMMA DeliverPads ==
  ASSUME PadInv, Deliver
  PROVE  PadInv'
<1>1. PICK q \in {proof["prover"]} \cup Altered(proof["prover"]) :
         /\ pc["prover"] = "shipped" /\ pc["verifier"] = "idle" /\ pc' = [pc EXCEPT !["verifier"] = "bind"]
         /\ proof' = [proof EXCEPT !["verifier"] = q]
         /\ UNCHANGED <<oracle, tr, blk, chal, cursor, start, link, trial, attest>>
  BY DEF Deliver, Goto
<1>2. ProofOK(q) /\ \A f \in Private : q[f] \in Seq(Sayable)
  <2>1. ProofOK(proof["prover"])
    BY TypesGive, ThreadNames
  <2>2. \A f \in Private : proof["prover"][f] \in Seq(Sayable)
    <3> TAKE f \in Private
    <3>1. proof["prover"][f] = [i \in 1..FieldLen[f] |-> Padded(f, i)]
      BY <1>1, SMTT(30) DEF PadInv, Pads, Unmasked
    <3> QED
      BY <3>1, MaskedFields, Zenon
  <2> QED
    BY <2>1, <2>2, AlteredOK
<1>3. /\ pc' \in [Threads -> Places] /\ pc'["verifier"] = "bind" /\ \A x \in Threads \ {"verifier"} : pc'[x] = pc[x]
  BY <1>1, ThreadNames, PlaceNames, MovePlace, Zenon
<1>4. VarTypes' /\ Transcripts' /\ OracleOK(oracle')
  BY <1>1, <1>3 DEF PadInv, VarTypes, Transcripts
<1>5. Proofs'
  BY <1>1, <1>2, ThreadNames DEF PadInv, Proofs
<1>6. Pads'
  BY <1>1, <1>2, <1>3, ThreadNames, TypesGive DEF PadInv, Pads, Unmasked
<1>7. Control'
  BY <1>1, <1>3, ThreadNames DEF PadInv, Control, Side
<1> QED
  BY <1>4, <1>5, <1>6, <1>7 DEF PadInv

LEMMA InitPads == Init => PadInv
<1> SUFFICES ASSUME Init PROVE PadInv
  OBVIOUS
<1>1. OracleOK(oracle)
  BY DEF Init, OracleOK
<1>2. VarTypes
  <2>1. "bind" \in Places /\ "idle" \in Places
    BY PlaceNames
  <2> QED
    BY <2>1 DEF Init, VarTypes, Walkers
<1>3. Transcripts
  <2>1. <<>> \in Seq(SayableItem) /\ Len(oracle) = 0
    BY DEF Init
  <2>2. [at |-> 0, since |-> <<>>] \in Transcript
    BY <2>1 DEF Transcript
  <2>3. TranscriptOK([at |-> 0, since |-> <<>>], oracle)
    BY <2>1, <2>2 DEF TranscriptOK
  <2> HIDE DEF TranscriptOK
  <2> QED
    BY <2>3 DEF Init, Transcripts
<1>4. Proofs
  <2> DEFINE q == [f \in Field |-> Honest(f)]
  <2>1. \A f \in Public : Honest(f) \in Seq(Sayable) /\ Len(Honest(f)) = FieldLen[f]
    <3> TAKE f \in Public
    <3>1. FieldLen[f] \in Nat /\ f \in Field
      BY LengthsAreNat DEF Public
    <3>2. \A i \in 1..FieldLen[f] : V(f, i) \in Sayable
      BY <3>1, PublicElement
    <3>3. Honest(f) = [i \in 1..FieldLen[f] |-> V(f, i)]
      BY DEF Honest
    <3> HIDE DEF Sayable
    <3> QED
      BY <3>1, <3>2, <3>3
  <2>2. {"blind_nonce", "fold_nonces", "surplus"} \subseteq Public /\ Public \subseteq Field
    BY NamesApart DEF Public
  <2>3. ProofOK(q)
    BY <2>1, <2>2, PublicLengths DEF ProofOK
  <2>4. Counted(q)
    <3>1. q["surplus"] \in Seq(Sayable) /\ Len(q["surplus"]) = 0 /\ Len(q["fold_nonces"]) = FoldSites
      BY <2>1, <2>2, PublicLengths
    <3>2. \A S : \A s \in Seq(S) : Len(s) = 0 => s = <<>>
      OBVIOUS
    <3> HIDE DEF Sayable, q
    <3> QED
      BY <3>1, <3>2 DEF Counted
  <2> HIDE DEF q, ProofOK, Counted
  <2> QED
    BY <2>3, <2>4, ThreadNames DEF Init, Proofs, q
<1>5. Control /\ Pads
  BY ThreadNames DEF Init, Control, Pads, Unmasked, Side
<1> QED
  BY <1>1, <1>2, <1>3, <1>4, <1>5 DEF PadInv

LEMMA PadInvStep == PadInv /\ [Next]_vars => PadInv'
<1> SUFFICES ASSUME PadInv, [Next]_vars PROVE PadInv'
  OBVIOUS
<1>1. CASE UNCHANGED vars
  BY <1>1 DEF vars, PadInv, OracleOK, VarTypes, Transcripts, Proofs, Control, Pads, Side
<1>2. CASE Step
  <2>1. ASSUME NEW b \in Main, Bind(b) \/ Rings(b) \/ StartCircuit(b) \/ Fork(b) PROVE PadInv'
    BY <2>1, BindPads, RingsPads, StartCircuitPads, ForkPads
  <2>2. ASSUME NEW b \in Main \cup Replay, RefuseShape(b) PROVE PadInv'
    BY <2>2, RefuseShapePads DEF Walkers
  <2>3. ASSUME NEW b \in Main \cup Replay, NEW c \in Class, WalkBlock(b, c) PROVE PadInv'
    BY <2>3, WalkIsDraw, DrawBlockPads DEF Walkers
  <2>4. ASSUME NEW b \in Main, NEW c \in Class, SampleNonzero(b, c) PROVE PadInv'
    BY <2>4, SampleNonzeroPads
  <2>5. ASSUME NEW c \in Class, GrindBlind(c) \/ VerifyBlind(c) \/ PcsGrind(c) \/ PcsVerifyPow(c) PROVE PadInv'
    BY <2>5, GrindBlindPads, VerifyBlindPads, PcsGrindPads, PcsVerifyPowPads
  <2>6. ASSUME MaskMessages \/ Walked \/ PcsDraw \/ VeilBranch \/ Join \/ Deliver PROVE PadInv'
    BY <2>6, MaskMessagesPads, WalkedPads, PcsDrawPads, VeilBranchPads, JoinPads, DeliverPads
  <2> QED
    BY <1>2, <2>1, <2>2, <2>3, <2>4, <2>5, <2>6 DEF Step
<1>3. CASE Done
  BY <1>1, <1>3 DEF Done
<1> QED
  BY <1>1, <1>2, <1>3 DEF Next

(* Every mask is a one-time pad: whatever is observed or sent, in however many     *)
(* redraws, second walks and branches, a private message is padded by its own      *)
(* mask and no other message is.                                                   *)
THEOREM MasksAreUsedOnce == Spec => []MasksPadOnce
<1>1. Init => PadInv
  BY InitPads
<1>2. PadInv /\ [Next]_vars => PadInv'
  BY PadInvStep
<1>3. PadInv => MasksPadOnce
  BY PadInvGives
<1> QED
  BY <1>1, <1>2, <1>3, PTL DEF Spec

-----------------------------------------------------------------------------
(* A challenge drawn again while the answer is bad: a chain of points, each the    *)
(* transcript right after the bad answer before it, from the first one on.         *)
Chain(o, S, k, p) ==
    /\ S \subseteq DOMAIN o /\ k \in S
    /\ \A j \in S : o[j].point = p \/ (o[j].point.since = <<>> /\ o[j].point.at \in S)
    /\ \A j \in S \ {k} : o[j].class = "bad" /\ \E m \in S : o[m].point = After(j)
Drawing(o, k, p) == \E S : Chain(o, S, k, p)
Drawn(o, k, p) == Drawing(o, k, p) /\ o[k].class = "good"

LEMMA LeastNat ==
  ASSUME NEW S, S \subseteq Nat, S # {}
  PROVE  \E n \in S : \A m \in S : n <= m
<1>1. IsWellFoundedOn(OpToRel(<, Nat), Nat)
  BY NatLessThanWellFounded, Zenon
<1>2. PICK n \in S : \A m \in S : ~(<<m, n>> \in OpToRel(<, Nat))
  BY <1>1, WFMin, Zenon
<1>3. \A m \in S : ~(m < n)
  BY <1>2 DEF OpToRel
<1> QED
  BY <1>3

LEMMA MostNat ==
  ASSUME NEW b \in Nat, NEW S, S \subseteq 0..b, S # {}
  PROVE  \E n \in S : \A m \in S : m <= n
<1> DEFINE T == {b - n : n \in S}
<1>1. T \subseteq Nat /\ T # {}
  <2>1. \A n \in S : n \in Nat /\ n <= b /\ b - n \in Nat
    OBVIOUS
  <2> QED
    BY <2>1
<1>2. PICK t \in T : \A m \in T : t <= m
  BY <1>1, LeastNat
<1>3. PICK n \in S : t = b - n
  OBVIOUS
<1>4. \A m \in S : b - n <= b - m
  BY <1>2, <1>3
<1> QED
  BY <1>4

LEMMA OracleIndices ==
  ASSUME NEW o, OracleOK(o)
  PROVE  /\ Len(o) \in Nat /\ DOMAIN o = 1..Len(o)
         /\ \A k \in DOMAIN o : k \in Nat \ {0} /\ o[k] \in Answer /\ o[k].point.at \in Nat
<1>1. o \in Seq(Answer)
  BY DEF OracleOK
<1>2. Len(o) \in Nat /\ DOMAIN o = 1..Len(o) /\ \A k \in DOMAIN o : k \in Nat \ {0} /\ o[k] \in Answer
  <2> HIDE DEF Answer
  <2> QED
    BY <1>1
<1>3. \A a \in Answer : a.point.at \in Nat
  BY DEF Answer, Transcript
<1> QED
  BY <1>2, <1>3

(* The chain's own points: it begins at p, and a bad end goes on. *)
LEMMA ChainBegins ==
  ASSUME NEW o, OracleOK(o), NEW S, NEW k, NEW p, Chain(o, S, k, p)
  PROVE  \E j \in S : o[j].point = p
<1>1. S \subseteq Nat /\ S # {}
  BY OracleIndices DEF Chain
<1>2. PICK j \in S : \A m \in S : j <= m
  BY <1>1, LeastNat
<1>3. o[j].point.at < j /\ o[j].point.at \in Nat /\ j \in Nat
  BY <1>1, OracleIndices DEF Chain, OracleOK
<1>4. o[j].point.at \notin S
  BY <1>2, <1>3
<1> QED
  BY <1>4 DEF Chain

LEMMA DrawingStarts ==
  ASSUME NEW o, NEW k, NEW p, IsId(o, k, p)
  PROVE  Drawing(o, k, p)
<1>1. Chain(o, {k}, k, p)
  BY DEF Chain, IsId
<1> QED
  BY <1>1 DEF Drawing

LEMMA DrawingGoesOn ==
  ASSUME NEW o, NEW k, NEW p, Drawing(o, k, p), o[k].class = "bad", NEW m, IsId(o, m, After(k))
  PROVE  Drawing(o, m, p)
<1>1. PICK S : Chain(o, S, k, p)
  BY DEF Drawing
<1>2. o[m].point.since = <<>> /\ o[m].point.at = k
  BY DEF IsId, After
<1>3. Chain(o, S \cup {m}, m, p)
  BY <1>1, <1>2 DEF Chain, IsId
<1> QED
  BY <1>3 DEF Drawing

LEMMA DrawingGrows ==
  ASSUME NEW o, NEW r, Grown(o, r), NEW k, NEW p, Drawing(o, k, p)
  PROVE  Drawing(r, k, p) /\ r[k] = o[k] /\ k \in DOMAIN o
<1>1. PICK S : Chain(o, S, k, p)
  BY DEF Drawing
<1>2. Chain(r, S, k, p) /\ k \in DOMAIN o
  BY <1>1 DEF Chain, Grown
<1> QED
  BY <1>2 DEF Drawing, Grown

(* From one point, at most one challenge is drawn for good. *)
LEMMA DrawnOnce ==
  ASSUME NEW o, OracleOK(o), NEW p, NEW k, NEW m, Drawn(o, k, p), Drawn(o, m, p)
  PROVE  k = m
<1>1. PICK S : Chain(o, S, k, p)
  BY DEF Drawn, Drawing
<1>2. PICK T : Chain(o, T, m, p)
  BY DEF Drawn, Drawing
<1>3. S \cap T # {} /\ S \cap T \subseteq 0..Len(o) /\ Len(o) \in Nat
  <2>1. PICK i \in S : o[i].point = p
    BY <1>1, ChainBegins
  <2>2. PICK j \in T : o[j].point = p
    BY <1>2, ChainBegins
  <2>3. i = j
    BY <1>1, <1>2, <2>1, <2>2 DEF Chain, OracleOK
  <2> QED
    BY <1>1, <2>1, <2>2, <2>3, OracleIndices DEF Chain
<1>4. PICK i \in S \cap T : \A j \in S \cap T : j <= i
  BY <1>3, MostNat
<1>5. ASSUME i # k, i # m PROVE FALSE
  <2>1. PICK j \in S : o[j].point = After(i)
    BY <1>1, <1>5 DEF Chain
  <2>2. PICK l \in T : o[l].point = After(i)
    BY <1>2, <1>5 DEF Chain
  <2>3. j = l
    BY <1>1, <1>2, <2>1, <2>2 DEF Chain, OracleOK
  <2>4. i < j
    BY <1>1, <2>1 DEF Chain, OracleOK, After
  <2>5. i \in Nat /\ j \in Nat
    BY <1>1, OracleIndices DEF Chain
  <2> QED
    BY <1>4, <2>3, <2>4, <2>5
<1>6. i = k => i = m
  BY <1>2 DEF Drawn, Chain
<1>7. i = m => i = k
  BY <1>1 DEF Drawn, Chain
<1> QED
  BY <1>5, <1>6, <1>7

(* And a challenge is drawn from one point only. *)
LEMMA DrawnFromOne ==
  ASSUME NEW o, OracleOK(o), NEW k, NEW p, NEW r, Drawing(o, k, p), Drawing(o, k, r),
         p.since # <<>>, r.since # <<>>
  PROVE  p = r
<1>1. PICK S : Chain(o, S, k, p)
  BY DEF Drawing
<1>2. PICK T : Chain(o, T, k, r)
  BY DEF Drawing
<1>3. S \cap T # {} /\ S \cap T \subseteq Nat
  BY <1>1, <1>2, OracleIndices DEF Chain
<1>4. PICK i \in S \cap T : \A j \in S \cap T : i <= j
  BY <1>3, LeastNat
<1>5. o[i].point.at < i /\ i \in Nat /\ o[i].point.at \in Nat
  BY <1>1, OracleIndices DEF Chain, OracleOK
<1>6. ~(o[i].point.at \in S /\ o[i].point.at \in T)
  BY <1>4, <1>5
<1> QED
  BY <1>1, <1>2, <1>6 DEF Chain

-----------------------------------------------------------------------------
(* The trace: what each thread's transcript, challenges and links are, as a        *)
(* function of the proof its side works with.                                     *)
BeginT(q) == Absorb(After(0), StatementItems(q) \o BindItems(q))
EqPoint(q) == Absorb(BeginT(q), Said(q, SaysOf(1)))
WalkPoint(q, c, i) == Absorb(After(c[i - 1]), Said(q, SaysOf(i)))
WalkEnd(q, c, n) == IF n = 1 THEN BeginT(q) ELSE After(c[n - 1])
RingPoint(q, c) == Absorb(After(c[N]), RingItems(q) \o <<Label("flock-digest-bind")>>)
PowT(q, d) == Absorb(After(d), DirectItems(q))
BlindNonce(q) == q["blind_nonce"][1]
BlindT(q, d) == Absorb(PowT(q, d), <<PowBytes(BlindNonce(q))>>)
BlindedT(q, k) == Absorb(After(k), BlindedItems(q))
ForkT(q, k, l) == Absorb(BlindedT(q, k), <<Label(l)>>)
FoldT(q, d, j) == Absorb(After(d[j]), <<PowBytes(q["fold_nonces"][j])>>)
VeilT(q, k) ==
    Absorb(ForkT(q, k, "veil-flock-inner-fork"),
           <<Label("veil-f128-constraint-system"), Item("bytes", q["veil_root"])>>)

(* What a transcript depends on until the blinding challenge. *)
Core == Private \cup {"statement", "root", "proof_nonce", "outer", "veil_linear",
                      "veil_hadamard", "veil_root", "direct_blinds"}
SameOn(q, r, fields) == \A f \in fields : q[f] = r[f]

(* The challenges c of a walk over q. *)
WalkChain(o, q, c) ==
    \A i \in 1..Len(c) :
        IF i = 1 THEN Drawn(o, c[1], EqPoint(q)) ELSE IsId(o, c[i], WalkPoint(q, c, i))

(* A loop that draws again from p has come to t. *)
Redrawn(o, t, p) == t = After(t.at) /\ Drawing(o, t.at, p) /\ o[t.at].class = "bad"

Hit(o, t) == \E k \in DOMAIN o : o[k].point = t /\ o[k].class = "good"

(* The first n draws of an opening, and the proofs of work after the first m. *)
FoldChain(o, q, k, d, n) ==
    \A j \in 1..n : IsId(o, d[j], IF j = 1 THEN ForkT(q, k, "veil-flock-pcs-fork") ELSE FoldT(q, d, j - 1))
FoldHits(o, q, d, m) == \A j \in 1..m : Hit(o, PowPoint(After(d[j]), q["fold_nonces"][j].i))

(* A walker at block n with challenges c, at place p with transcript t. *)
WalkAt(o, q, c, n, p, t) ==
    /\ Len(c) + 1 = n /\ n <= N + 1
    /\ WalkChain(o, q, c)
    /\ p = "walk" => t = WalkEnd(q, c, n)
    /\ p = "redraw" => Redrawn(o, t, EqPoint(q))

Bound == {"rings", "pow", "nonzero", "blinded", "circuit", "join", "shipped", "accept"}
Blinded == {"circuit", "join", "shipped", "accept"}
Unlinked == {"idle", "bind", "walk", "redraw", "rings"}

(* The blinding challenge and the nonce before it. *)
Ground(o, q, d) ==
    /\ Hit(o, PowPoint(PowT(q, d), BlindNonce(q).i))
    /\ BlindNonce(q).i < MAX_BLIND_GRIND_TRIALS

(* A side with links d and k, at place p with transcript t. *)
LinkAt(o, q, d, k, c, n, p, t, s) ==
    /\ p \in {"idle", "bind"} => t = After(0)
    /\ p \notin {"idle", "bind"} => s = BeginT(q)
    /\ p \in Unlinked => d = 0
    /\ p \in Bound => n = N + 1
    /\ p = "rings" => t = After(c[N])
    /\ d # 0 => n = N + 1 /\ IsId(o, d, RingPoint(q, c))
    /\ k # 0 => d # 0 /\ Drawn(o, k, BlindT(q, d)) /\ Ground(o, q, d)
    /\ p = "pow" => d # 0 /\ k = 0 /\ t = PowT(q, d)
    /\ p = "nonzero" => /\ d # 0 /\ k = 0 /\ Ground(o, q, d)
                        /\ t = BlindT(q, d) \/ Redrawn(o, t, BlindT(q, d))
    /\ p = "blinded" => k # 0 /\ t = After(k)
    /\ p \in Blinded => k # 0 /\ t = BlindedT(q, k)

(* The opening: n draws and m proofs of work done, and the transcript after them. *)
OpeningAt(o, q, k, n, m, t) ==
    \E d \in [1..n -> DOMAIN o] :
        /\ FoldChain(o, q, k, d, n) /\ FoldHits(o, q, d, m)
        /\ t = IF n = 0 THEN ForkT(q, k, "veil-flock-pcs-fork")
               ELSE IF m = n THEN FoldT(q, d, n) ELSE After(d[n])

(* The proof a side's transcript is a function of. *)
SideProof(b) == IF b = "prover" THEN MaskedProof(proof["prover"]) ELSE proof["verifier"]

WalkInv(b) ==
    /\ WalkAt(oracle, SideProof(Owner[b]), chal[b], blk[b], pc[b], tr[b])
    /\ b # "prover" /\ blk[b] > 1 => Shaped(b, PiopFields)

LinkInv(b) ==
    /\ LinkAt(oracle, SideProof(b), link[b].digest, link[b].blind, chal[b], blk[b], pc[b], tr[b], start[b])
    /\ pc[b] \in Bound \ {"rings"} => Shaped(b, {"direct_blinds"})

(* The second walk has met the first one's challenges by the join. *)
SecondInv(b) ==
    /\ pc[Second[b]] # "idle" => pc[b] \in Errors \cup Blinded
    /\ pc[b] \in {"join", "shipped", "accept"} => chal[Second[b]] = chal[b] /\ Shaped(b, RingFields)
    /\ pc[b] = "circuit" => pc[Second[b]] # "idle"

(* The terminal branches of the side that runs them. *)
OpeningInv ==
    LET q == SideProof(Side)
        k == link[Side].blind
        n == blk["pcs"]
    IN  pc[Side] = "join" =>
            /\ pc["pcs"] = "draw" => n <= FoldSites + 1 /\ OpeningAt(oracle, q, k, n - 1, n - 1, tr["pcs"])
            /\ pc["pcs"] = "pow" => n <= FoldSites /\ OpeningAt(oracle, q, k, n, n - 1, tr["pcs"])
            /\ (Side = "verifier" \/ pc["veil"] = "open") => tr["veil"] = ForkT(q, k, "veil-flock-inner-fork")

Opened(b, claim) ==
    \E d \in [1..(FoldSites + 1) -> DOMAIN oracle] :
        /\ FoldChain(oracle, SideProof(b), link[b].blind, d, FoldSites + 1)
        /\ FoldHits(oracle, SideProof(b), d, FoldSites)
        /\ claim = PcsClaim(b, d[FoldSites + 1])

Proved(b, claim) ==
    \E k \in DOMAIN oracle : IsId(oracle, k, VeilT(SideProof(b), link[b].blind)) /\ claim = VeilClaim(b, k)

AttestInv ==
    /\ attest["pcs"] # <<>> \/ attest["veil"] # <<>> =>
        pc["prover"] \in {"join", "shipped", "GrindingLimitExceeded", "UnsatisfiedCircuit"}
    /\ pc["prover"] = "join" =>
        /\ pc["pcs"] \in {"draw", "pow", "done"}
        /\ pc["pcs"] \in {"draw", "pow"} => attest["pcs"] = <<>>
        /\ pc["pcs"] = "done" => attest["pcs"] # <<>>
        /\ pc["veil"] = "open" => attest["veil"] = <<>>
        /\ pc["veil"] = "done" => attest["veil"] # <<>>
    /\ pc["prover"] = "shipped" => attest["pcs"] # <<>> /\ attest["veil"] # <<>>
    /\ attest["pcs"] # <<>> => Opened("prover", attest["pcs"])
    /\ attest["veil"] # <<>> => Proved("prover", attest["veil"])
    /\ pc["verifier"] = "accept" \/ (pc["verifier"] = "join" /\ pc["veil"] = "open") =>
        Opened("verifier", attest["pcs"]) /\ OpeningIsWhole(proof["verifier"])
    /\ pc["verifier"] = "accept" =>
        Proved("verifier", attest["veil"]) /\ proof["verifier"]["veil_body"] = Honest("veil_body")

(* Elements are where they belong, and the prover's are all there. *)
Named(q) == \A f \in Field : \A i \in DOMAIN q[f] : q[f][i].name = f /\ (f \notin Nonces => q[f][i].i = i)
Total(q) == q = [f \in Field |-> q[f]]
ElementsInv ==
    /\ \A b \in Main : Named(proof[b]) /\ Total(proof[b])
    /\ \A f \in Field : Len(proof["prover"][f]) = FieldLen[f]
    /\ proof["prover"]["pcs_body"] = Honest("pcs_body") /\ proof["prover"]["veil_body"] = Honest("veil_body")
    /\ pc["prover"] \in Blinded => proof["prover"]["q1"] = QSlice("q1") /\ proof["prover"]["q2"] = QSlice("q2")

TraceInv ==
    /\ \A b \in Walkers : WalkInv(b)
    /\ \A b \in Main : LinkInv(b) /\ SecondInv(b)
    /\ OpeningInv /\ AttestInv /\ ElementsInv

LEMMA CoreIs ==
  /\ Private \subseteq Core /\ PiopFields \subseteq Core
  /\ Core \ Private \subseteq Public /\ Core \subseteq Field
  /\ {"blind_nonce", "q1", "q2", "fold_nonces"} \cap Core = {}
<1>1. {"blind_nonce", "q1", "q2", "fold_nonces"} \cap Private = {}
  BY DEF Private, PiopFields, RingClaimFields
<1>2. Core \ Private \subseteq Public
  BY NamesApart DEF Core
<1>3. Private \subseteq Core /\ PiopFields \subseteq Core
  BY NamesApart DEF Core
<1>4. {"blind_nonce", "q1", "q2", "fold_nonces"} \cap Core = {}
  BY <1>1 DEF Core
<1> QED
  BY <1>2, <1>3, <1>4, NamesApart DEF Public

(* What a block says depends on the PIOP's messages only. *)
LEMMA SaidSame ==
  ASSUME NEW q, NEW r, SameOn(q, r, PiopFields), NEW n \in 1..N
  PROVE  Said(q, SaysOf(n)) = Said(r, SaysOf(n))
<1>1. \A j \in DOMAIN SaysOf(n) : ProofSay(q, SaysOf(n)[j]) = ProofSay(r, SaysOf(n)[j])
  <2> TAKE j \in DOMAIN SaysOf(n)
  <2> DEFINE say == SaysOf(n)[j]
  <2>1. say.op = "label" \/ say.field \in PiopFields
    BY SaysTyped
  <2>2. CASE say.op = "label"
    BY <2>2 DEF ProofSay
  <2>3. CASE say.field \in PiopFields
    <3>1. q[say.field] = r[say.field]
      BY <2>3 DEF SameOn
    <3> QED
      BY <3>1 DEF ProofSay
  <2> QED
    BY <2>1, <2>2, <2>3
<1> QED
  BY <1>1 DEF Said

LEMMA CoreSame ==
  ASSUME NEW q, NEW r, SameOn(q, r, Core)
  PROVE  /\ BeginT(q) = BeginT(r) /\ EqPoint(q) = EqPoint(r)
         /\ \A c : \A i \in 1..N : WalkPoint(q, c, i) = WalkPoint(r, c, i)
         /\ \A c, n : WalkEnd(q, c, n) = WalkEnd(r, c, n)
         /\ \A c : RingPoint(q, c) = RingPoint(r, c)
         /\ \A d : PowT(q, d) = PowT(r, d)
<1>1. /\ q["statement"] = r["statement"] /\ q["root"] = r["root"] /\ q["proof_nonce"] = r["proof_nonce"]
      /\ q["outer"] = r["outer"] /\ q["veil_linear"] = r["veil_linear"]
      /\ q["veil_hadamard"] = r["veil_hadamard"] /\ q["veil_root"] = r["veil_root"]
      /\ q["direct_blinds"] = r["direct_blinds"]
  BY DEF SameOn, Core
<1>2. /\ q["ring1_witness"] = r["ring1_witness"] /\ q["ring1_blind"] = r["ring1_blind"]
      /\ q["ring2_witness"] = r["ring2_witness"] /\ q["ring2_blind"] = r["ring2_blind"]
  BY DEF SameOn, Core, Private, RingClaimFields
<1>3. StatementItems(q) \o BindItems(q) = StatementItems(r) \o BindItems(r)
  BY <1>1 DEF StatementItems, BindItems
<1>4. RingItems(q) = RingItems(r)
  BY <1>2 DEF RingItems
<1>5. DirectItems(q) = DirectItems(r)
  BY <1>1 DEF DirectItems
<1>6. \A i \in 1..N : Said(q, SaysOf(i)) = Said(r, SaysOf(i))
  <2>1. SameOn(q, r, PiopFields)
    BY CoreIs DEF SameOn
  <2> QED
    BY <2>1, SaidSame
<1>7. 1 \in 1..N
  BY PinsType
<1>8. BeginT(q) = BeginT(r)
  BY <1>3 DEF BeginT
<1>9. EqPoint(q) = EqPoint(r)
  BY <1>6, <1>7, <1>8 DEF EqPoint
<1>10. \A c : \A i \in 1..N : WalkPoint(q, c, i) = WalkPoint(r, c, i)
  BY <1>6 DEF WalkPoint
<1>11. \A c, n : WalkEnd(q, c, n) = WalkEnd(r, c, n)
  BY <1>8 DEF WalkEnd
<1>12. \A c : RingPoint(q, c) = RingPoint(r, c)
  BY <1>4 DEF RingPoint
<1>13. \A d : PowT(q, d) = PowT(r, d)
  BY <1>5 DEF PowT
<1> QED
  BY <1>8, <1>9, <1>10, <1>11, <1>12, <1>13

(* What grows with the oracle. *)
LEMMA IdGrows ==
  ASSUME NEW o, NEW r, Grown(o, r)
  PROVE  /\ \A k, t : IsId(o, k, t) => IsId(r, k, t)
         /\ \A k, p : Drawn(o, k, p) => Drawn(r, k, p)
         /\ \A t, p : Redrawn(o, t, p) => Redrawn(r, t, p)
         /\ \A t : Hit(o, t) => Hit(r, t)
         /\ DOMAIN o \subseteq DOMAIN r
<1>1. \A k, t : IsId(o, k, t) => IsId(r, k, t)
  BY DEF Grown, IsId
<1>2. \A k, p : Drawn(o, k, p) => Drawn(r, k, p)
  BY DrawingGrows DEF Drawn
<1>3. \A t, p : Redrawn(o, t, p) => Redrawn(r, t, p)
  BY DrawingGrows DEF Redrawn
<1>4. \A t : Hit(o, t) => Hit(r, t)
  BY DEF Hit, Grown
<1> QED
  BY <1>1, <1>2, <1>3, <1>4 DEF Grown

LEMMA WalkChainGrows ==
  ASSUME NEW o, NEW r, Grown(o, r), NEW q, NEW u, SameOn(q, u, Core),
         NEW c \in Seq(Nat \ {0}), Len(c) <= N, WalkChain(o, q, c)
  PROVE  WalkChain(r, u, c)
<1>1. \A i \in 1..Len(c) : i \in 1..N
  BY PinsType
<1>2. \A i \in 1..Len(c) : WalkPoint(q, c, i) = WalkPoint(u, c, i)
  BY <1>1, CoreSame
<1>3. EqPoint(q) = EqPoint(u)
  BY CoreSame
<1> HIDE DEF Drawn, IsId
<1>4. /\ \A k, t : IsId(o, k, t) => IsId(r, k, t)
      /\ \A k, p : Drawn(o, k, p) => Drawn(r, k, p)
  BY IdGrows
<1> QED
  BY <1>2, <1>3, <1>4 DEF WalkChain

LEMMA WalkAtGrows ==
  ASSUME NEW o, NEW r, Grown(o, r), NEW q, NEW u, SameOn(q, u, Core),
         NEW c \in Seq(Nat \ {0}), NEW n, NEW p, NEW t, WalkAt(o, q, c, n, p, t)
  PROVE  WalkAt(r, u, c, n, p, t)
<1>1. Len(c) <= N
  BY PinsType DEF WalkAt
<1>2. WalkChain(r, u, c)
  BY <1>1, WalkChainGrows DEF WalkAt
<1>3. EqPoint(q) = EqPoint(u) /\ WalkEnd(q, c, n) = WalkEnd(u, c, n)
  BY CoreSame
<1>4. Redrawn(o, t, EqPoint(q)) => Redrawn(r, t, EqPoint(u))
  BY <1>3, IdGrows
<1> QED
  BY <1>2, <1>3, <1>4 DEF WalkAt

LEMMA WalkAtStops ==
  ASSUME NEW o, NEW q, NEW c, NEW n, NEW p, NEW t, WalkAt(o, q, c, n, p, t),
         NEW p2, p2 \notin {"walk", "redraw"}, NEW t2
  PROVE  WalkAt(o, q, c, n, p2, t2)
BY DEF WalkAt

LEMMA WalkAtStarts ==
  ASSUME NEW o, NEW q, NEW c, NEW p, NEW t, WalkAt(o, q, c, 1, p, t)
  PROVE  WalkAt(o, q, c, 1, "walk", BeginT(q))
BY DEF WalkAt, WalkEnd

(* A bad answer: the walker draws again. *)
LEMMA WalkAtRedraws ==
  ASSUME NEW o, NEW r, Grown(o, r), NEW q, NEW c \in Seq(Nat \ {0}), NEW p, NEW t,
         WalkAt(o, q, c, 1, p, t),
         NEW k, r[k].class = "bad",
         \/ p = "walk" /\ IsId(r, k, Absorb(t, Said(q, SaysOf(1))))
         \/ p = "redraw" /\ IsId(r, k, t)
  PROVE  WalkAt(r, q, c, 1, "redraw", After(k)) /\ Drawing(r, k, EqPoint(q))
<1>1. WalkAt(r, q, c, 1, p, t)
  BY WalkAtGrows DEF SameOn
<1>2. Drawing(r, k, EqPoint(q))
  <2>1. CASE p = "walk" /\ IsId(r, k, Absorb(t, Said(q, SaysOf(1))))
    <3>1. t = BeginT(q)
      BY <1>1, <2>1 DEF WalkAt, WalkEnd
    <3> QED
      BY <2>1, <3>1, DrawingStarts DEF EqPoint
  <2>2. CASE p = "redraw" /\ IsId(r, k, t)
    <3>1. t = After(t.at) /\ Drawing(r, t.at, EqPoint(q)) /\ r[t.at].class = "bad"
      BY <1>1, <2>2 DEF WalkAt, Redrawn
    <3>2. IsId(r, k, After(t.at))
      BY <2>2, <3>1
    <3> QED
      BY <3>1, <3>2, DrawingGoesOn
  <2> QED
    BY <2>1, <2>2
<1>3. After(k).at = k
  BY DEF After
<1> QED
  BY <1>1, <1>2, <1>3 DEF WalkAt, Redrawn

(* A good one: the challenge. *)
LEMMA WalkAtDrawsEq ==
  ASSUME NEW o, NEW r, Grown(o, r), NEW q, NEW c \in Seq(Nat \ {0}), NEW p, NEW t,
         WalkAt(o, q, c, 1, p, t),
         NEW k \in Nat \ {0}, r[k].class = "good",
         \/ p = "walk" /\ IsId(r, k, Absorb(t, Said(q, SaysOf(1))))
         \/ p = "redraw" /\ IsId(r, k, t)
  PROVE  WalkAt(r, q, Append(c, k), 2, "walk", After(k))
<1>1. WalkAt(r, q, c, 1, p, t)
  BY WalkAtGrows DEF SameOn
<1>2. Drawing(r, k, EqPoint(q))
  <2>1. CASE p = "walk" /\ IsId(r, k, Absorb(t, Said(q, SaysOf(1))))
    <3>1. t = BeginT(q)
      BY <1>1, <2>1 DEF WalkAt, WalkEnd
    <3> QED
      BY <2>1, <3>1, DrawingStarts DEF EqPoint
  <2>2. CASE p = "redraw" /\ IsId(r, k, t)
    <3>1. t = After(t.at) /\ Drawing(r, t.at, EqPoint(q)) /\ r[t.at].class = "bad"
      BY <1>1, <2>2 DEF WalkAt, Redrawn
    <3>2. IsId(r, k, After(t.at))
      BY <2>2, <3>1
    <3> QED
      BY <3>1, <3>2, DrawingGoesOn
  <2> QED
    BY <2>1, <2>2
<1>3. Drawn(r, k, EqPoint(q))
  BY <1>2 DEF Drawn
<1>4. Len(c) = 0 /\ Len(Append(c, k)) = 1 /\ Append(c, k)[1] = k
  <2>1. Len(c) = 0
    BY <1>1 DEF WalkAt
  <2> QED
    BY <2>1
<1>5. WalkChain(r, q, Append(c, k))
  <2>1. \A i \in 1..Len(Append(c, k)) : i = 1
    BY <1>4
  <2> QED
    BY <1>3, <1>4, <2>1, Zenon DEF WalkChain
<1>6. WalkEnd(q, Append(c, k), 2) = After(k)
  BY <1>4 DEF WalkEnd
<1> QED
  BY <1>4, <1>5, <1>6, PinsType DEF WalkAt

LEMMA WalkAtDraws ==
  ASSUME NEW o, NEW r, Grown(o, r), NEW q, NEW c \in Seq(Nat \ {0}), NEW n \in 2..N, NEW t,
         WalkAt(o, q, c, n, "walk", t),
         NEW k \in Nat \ {0}, IsId(r, k, Absorb(t, Said(q, SaysOf(n))))
  PROVE  WalkAt(r, q, Append(c, k), n + 1, "walk", After(k))
<1>1. WalkAt(r, q, c, n, "walk", t)
  BY WalkAtGrows DEF SameOn
<1>2. Len(c) + 1 = n /\ WalkChain(r, q, c)
  BY <1>1 DEF WalkAt
<1>3. t = After(c[n - 1])
  BY <1>1 DEF WalkAt, WalkEnd
<1> DEFINE e == Append(c, k)
<1>4. Len(e) = n /\ e[n] = k /\ \A i \in 1..(n - 1) : e[i] = c[i]
  BY <1>2
<1> HIDE DEF e
<1>5. IsId(r, e[n], WalkPoint(q, e, n))
  <2>1. e[n - 1] = c[n - 1]
    BY <1>4
  <2> QED
    BY <1>3, <1>4, <2>1 DEF WalkPoint
<1>6. WalkChain(r, q, e)
  <2> SUFFICES ASSUME NEW i \in 1..Len(e)
               PROVE  IF i = 1 THEN Drawn(r, e[1], EqPoint(q)) ELSE IsId(r, e[i], WalkPoint(q, e, i))
    BY DEF WalkChain
  <2>1. CASE i = n
    BY <1>5, <2>1
  <2>2. CASE i # n
    <3>1. i \in 1..Len(c) /\ i \in 1..(n - 1)
      BY <1>2, <1>4, <2>2
    <3>2. IF i = 1 THEN Drawn(r, c[1], EqPoint(q)) ELSE IsId(r, c[i], WalkPoint(q, c, i))
      BY <1>2, <3>1 DEF WalkChain
    <3>3. i # 1 => e[i - 1] = c[i - 1]
      BY <1>4, <3>1
    <3>4. e[i] = c[i]
      BY <1>4, <3>1
    <3>5. i # 1 => WalkPoint(q, e, i) = WalkPoint(q, c, i)
      BY <3>3 DEF WalkPoint
    <3> QED
      BY <3>2, <3>4, <3>5
  <2> QED
    BY <2>1, <2>2
<1>7. WalkEnd(q, e, n + 1) = After(k)
  BY <1>4 DEF WalkEnd
<1>8. WalkAt(r, q, e, n + 1, "walk", After(k))
  BY <1>4, <1>6, <1>7, PinsType DEF WalkAt
<1> QED
  BY <1>8 DEF e

(* A side that does not move, or that fails. *)
LEMMA LinkAtGrows ==
  ASSUME NEW o, NEW r, Grown(o, r), NEW q, NEW u, SameOn(q, u, Core),
         NEW d, NEW k, NEW c, NEW n, NEW p, NEW t, NEW s, LinkAt(o, q, d, k, c, n, p, t, s),
         k # 0 \/ p = "nonzero" => u["blind_nonce"] = q["blind_nonce"],
         p \in Blinded => u["q1"] = q["q1"] /\ u["q2"] = q["q2"]
  PROVE  LinkAt(r, u, d, k, c, n, p, t, s)
<1>1. /\ BeginT(q) = BeginT(u) /\ RingPoint(q, c) = RingPoint(u, c) /\ PowT(q, d) = PowT(u, d)
  BY CoreSame
<1>2. k # 0 \/ p = "nonzero" => BlindNonce(u) = BlindNonce(q) /\ BlindT(u, d) = BlindT(q, d)
  BY <1>1 DEF BlindNonce, BlindT
<1>3. p \in Blinded => BlindedT(u, k) = BlindedT(q, k)
  BY DEF BlindedT, BlindedItems
<1> HIDE DEF IsId, Drawn, Redrawn, Hit
<1>4. /\ \A j, v : IsId(o, j, v) => IsId(r, j, v)
      /\ \A j, v : Drawn(o, j, v) => Drawn(r, j, v)
      /\ \A v, w : Redrawn(o, v, w) => Redrawn(r, v, w)
      /\ \A v : Hit(o, v) => Hit(r, v)
  BY IdGrows
<1>5. k # 0 \/ p = "nonzero" => (Ground(o, q, d) => Ground(r, u, d))
  BY <1>1, <1>2, <1>4 DEF Ground
<1> HIDE DEF Ground
<1>6. d # 0 => n = N + 1 /\ IsId(r, d, RingPoint(u, c))
  BY <1>1, <1>4 DEF LinkAt
<1>7. k # 0 => d # 0 /\ Drawn(r, k, BlindT(u, d)) /\ Ground(r, u, d)
  BY <1>2, <1>4, <1>5 DEF LinkAt
<1>8. p = "nonzero" => /\ d # 0 /\ k = 0 /\ Ground(r, u, d)
                       /\ t = BlindT(u, d) \/ Redrawn(r, t, BlindT(u, d))
  BY <1>2, <1>4, <1>5 DEF LinkAt
<1>9. p = "pow" => d # 0 /\ k = 0 /\ t = PowT(u, d)
  BY <1>1 DEF LinkAt
<1>10. p \in Blinded => k # 0 /\ t = BlindedT(u, k)
  BY <1>3 DEF LinkAt
<1> QED
  BY <1>1, <1>6, <1>7, <1>8, <1>9, <1>10 DEF LinkAt

LEMMA LinkAtStops ==
  ASSUME NEW o, NEW q, NEW d, NEW k, NEW c, NEW n, NEW p, NEW t, NEW s, LinkAt(o, q, d, k, c, n, p, t, s),
         p \notin {"idle", "bind"}, NEW p2 \in Errors, NEW t2
  PROVE  LinkAt(o, q, d, k, c, n, p2, t2, s)
<1>1. p2 \notin Unlinked \cup Bound \cup Blinded \cup {"idle", "bind"}
  BY PlaceNames DEF Unlinked, Bound, Blinded
<1>2. {"rings", "pow", "nonzero", "blinded"} \subseteq Bound
  BY DEF Bound
<1> QED
  BY <1>1, <1>2 DEF LinkAt

-----------------------------------------------------------------------------
(* What a step leaves alone.                                                      *)
Other(b) == IF b = "prover" THEN "verifier" ELSE "prover"
SideInv(b) == WalkInv(b) /\ WalkInv(Second[b]) /\ LinkInv(b) /\ SecondInv(b)
StillWalker(b) == pc'[b] = pc[b] /\ tr'[b] = tr[b] /\ blk'[b] = blk[b] /\ chal'[b] = chal[b]
StillSide(b) ==
    /\ StillWalker(b) /\ StillWalker(Second[b])
    /\ start'[b] = start[b] /\ link'[b] = link[b] /\ proof'[b] = proof[b]

LEMMA OtherIs ==
  /\ \A b \in Main : Other(b) \in Main /\ Other(b) # b /\ Other(Other(b)) = b /\ Main = {b, Other(b)}
  /\ \A b \in Main : Second[b] \in Walkers /\ b \in Walkers /\ Owner[b] = b /\ Owner[Second[b]] = b
                     /\ Second[b] # b /\ Second[b] \notin Main /\ Second[Other(b)] # Second[b]
                     /\ Second[b] # "prover" /\ b \in Threads /\ Second[b] \in Threads
  /\ Walkers = {"prover", "verifier"} \cup {Second["prover"], Second["verifier"]}
  /\ \A b \in Main : Walkers = {b, Other(b), Second[b], Second[Other(b)]}
  /\ Other("prover") = "verifier" /\ Other("verifier") = "prover"
BY ThreadNames DEF Other

LEMMA Sides == TraceInv <=> (\A b \in Main : SideInv(b)) /\ OpeningInv /\ AttestInv /\ ElementsInv
<1>1. (\A b \in Walkers : WalkInv(b)) <=> \A b \in Main : WalkInv(b) /\ WalkInv(Second[b])
  BY OtherIs, ThreadNames
<1> QED
  BY <1>1 DEF TraceInv, SideInv

LEMMA BothSides ==
  ASSUME NEW b \in Main, SideInv(b)', SideInv(Other(b))', OpeningInv', AttestInv', ElementsInv'
  PROVE  TraceInv'
<1>1. \A x \in Main : x = b \/ x = Other(b)
  BY OtherIs
<1>2. \A x \in Main : SideInv(x)'
  BY <1>1
<1>3. (\A x \in Walkers : WalkInv(x)')
  <2>1. \A x \in Main : WalkInv(x)' /\ WalkInv(Second[x])'
    BY <1>2 DEF SideInv
  <2>2. \A x \in Walkers : x \in Main \/ \E y \in Main : x = Second[y]
    BY ThreadNames
  <2> QED
    BY <2>1, <2>2, Zenon
<1>4. \A x \in Main : LinkInv(x)' /\ SecondInv(x)'
  BY <1>2 DEF SideInv
<1> QED
  BY <1>3, <1>4 DEF TraceInv

LEMMA SideProofIs ==
  ASSUME PadInv, NEW b \in Main
  PROVE  /\ \A f \in Public : SideProof(b)[f] = proof[b][f]
         /\ (b = "prover" => pc["prover"] \notin Unmasked) => \A f \in Field : SideProof(b)[f] = proof[b][f]
         /\ b = "verifier" => SideProof(b) = proof[b]
<1>1. b = "verifier" => SideProof(b) = proof[b]
  BY DEF SideProof
<1>2. b = "prover" => SideProof(b) = MaskedProof(proof["prover"])
  BY DEF SideProof
<1>3. \A f \in Public : SideProof(b)[f] = proof[b][f]
  BY <1>1, <1>2, MaskedFields, ThreadNames
<1>4. ASSUME b = "prover", pc["prover"] \notin Unmasked
      PROVE  \A f \in Private : SideProof(b)[f] = proof[b][f]
  <2> TAKE f \in Private
  <2>1. proof["prover"][f] = [i \in 1..FieldLen[f] |-> Padded(f, i)]
    BY <1>4 DEF PadInv, Pads
  <2>2. MaskedProof(proof["prover"])[f] = [i \in 1..FieldLen[f] |-> Padded(f, i)]
    BY MaskedFields
  <2> QED
    BY <1>2, <1>4, <2>1, <2>2
<1>5. (b = "prover" => pc["prover"] \notin Unmasked) => \A f \in Field : SideProof(b)[f] = proof[b][f]
  BY <1>1, <1>3, <1>4, NamesApart, ThreadNames DEF Public
<1> QED
  BY <1>1, <1>3, <1>5

(* What a side observes of its proof is what its trace says. *)
LEMMA SideItems ==
  ASSUME PadInv, NEW b \in Main
  PROVE  /\ StatementItems(proof[b]) \o BindItems(proof[b]) = StatementItems(SideProof(b)) \o BindItems(SideProof(b))
         /\ DirectItems(proof[b]) = DirectItems(SideProof(b))
         /\ BlindedItems(proof[b]) = BlindedItems(SideProof(b))
         /\ proof[b]["blind_nonce"] = SideProof(b)["blind_nonce"]
         /\ proof[b]["fold_nonces"] = SideProof(b)["fold_nonces"]
         /\ proof[b]["veil_root"] = SideProof(b)["veil_root"]
         /\ (b = "prover" => pc["prover"] \notin Unmasked) => RingItems(proof[b]) = RingItems(SideProof(b))
<1>1. \A f \in Public : SideProof(b)[f] = proof[b][f]
  BY SideProofIs
<1>2. /\ SideProof(b)["statement"] = proof[b]["statement"] /\ SideProof(b)["root"] = proof[b]["root"]
      /\ SideProof(b)["proof_nonce"] = proof[b]["proof_nonce"] /\ SideProof(b)["outer"] = proof[b]["outer"]
      /\ SideProof(b)["veil_linear"] = proof[b]["veil_linear"]
      /\ SideProof(b)["veil_hadamard"] = proof[b]["veil_hadamard"]
      /\ SideProof(b)["veil_root"] = proof[b]["veil_root"]
      /\ SideProof(b)["direct_blinds"] = proof[b]["direct_blinds"]
      /\ SideProof(b)["q1"] = proof[b]["q1"] /\ SideProof(b)["q2"] = proof[b]["q2"]
      /\ SideProof(b)["blind_nonce"] = proof[b]["blind_nonce"]
      /\ SideProof(b)["fold_nonces"] = proof[b]["fold_nonces"]
  <2>1. \A f \in {"statement", "root", "proof_nonce", "outer", "veil_linear", "veil_hadamard", "veil_root",
                  "direct_blinds", "q1", "q2", "blind_nonce", "fold_nonces"} : SideProof(b)[f] = proof[b][f]
    BY <1>1, NamesApart
  <2> QED
    BY <2>1
<1>3. ASSUME b = "prover" => pc["prover"] \notin Unmasked
      PROVE  RingItems(proof[b]) = RingItems(SideProof(b))
  <2>1. \A f \in {"ring1_witness", "ring1_blind", "ring2_witness", "ring2_blind"} : SideProof(b)[f] = proof[b][f]
    BY <1>3, SideProofIs, NamesApart DEF RingClaimFields
  <2>2. /\ SideProof(b)["ring1_witness"] = proof[b]["ring1_witness"]
        /\ SideProof(b)["ring1_blind"] = proof[b]["ring1_blind"]
        /\ SideProof(b)["ring2_witness"] = proof[b]["ring2_witness"]
        /\ SideProof(b)["ring2_blind"] = proof[b]["ring2_blind"]
    BY <2>1
  <2> QED
    BY <2>2 DEF RingItems
<1>4. StatementItems(proof[b]) \o BindItems(proof[b]) = StatementItems(SideProof(b)) \o BindItems(SideProof(b))
  BY <1>2 DEF StatementItems, BindItems
<1>5. DirectItems(proof[b]) = DirectItems(SideProof(b)) /\ BlindedItems(proof[b]) = BlindedItems(SideProof(b))
  BY <1>2 DEF DirectItems, BlindedItems
<1> QED
  BY <1>2, <1>3, <1>4, <1>5

LEMMA SaidIs ==
  ASSUME PadInv, NEW b \in Walkers, pc[b] = "walk", blk[b] <= N, b # "prover" => Shaped(b, PiopFields)
  PROVE  Observed(b, Blocks(b)[blk[b]].says) = Said(SideProof(Owner[b]), SaysOf(blk[b]))
<1>1. blk[b] \in 1..N /\ Observed(b, Blocks(b)[blk[b]].says) = Said(WalkedProof(b), SaysOf(blk[b]))
  BY ObservedIs
<1>2. CASE b = "prover"
  BY <1>1, <1>2, ThreadNames DEF WalkedProof, SideProof
<1>3. CASE b \in {"verifier", "recheck"}
  BY <1>1, <1>3, ThreadNames DEF WalkedProof, SideProof
<1>4. CASE b = "replay"
  <2>1. pc["prover"] = "circuit"
    BY <1>1, <1>4, ThreadNames DEF PadInv, Control
  <2>2. \A f \in Field : SideProof("prover")[f] = proof["prover"][f]
    BY <2>1, SideProofIs, ThreadNames DEF Unmasked
  <2>3. SameOn(WalkedProof(b), SideProof("prover"), PiopFields)
    BY <1>4, <2>2, ThreadNames, NamesApart DEF SameOn, WalkedProof
  <2> QED
    BY <1>1, <1>4, <2>3, SaidSame, ThreadNames
<1> QED
  BY <1>2, <1>3, <1>4, ThreadNames

LEMMA SameProof ==
  ASSUME NEW b \in Main, proof'[b] = proof[b]
  PROVE  /\ SideProof(b)' = SideProof(b)
         /\ \A f : Shaped(b, f)' <=> Shaped(b, f)
         /\ \A f : Shaped(Second[b], f)' <=> Shaped(Second[b], f)
<1>1. SideProof(b)' = SideProof(b)
  BY ThreadNames DEF SideProof
<1> QED
  BY <1>1, OtherIs DEF Shaped

LEMMA SameClaim ==
  ASSUME NEW b, NEW k,
         \A f \in Field \ {"fold_nonces"} : proof'[b][f] = proof[b][f],
         chal'[b] = chal[b], link'[b] = link[b]
  PROVE  VeilClaim(b, k)' = VeilClaim(b, k)
<1>1. Range(UnmaskOrder) = Private
  BY DEF UnmaskOrder, Private, PiopFields, RingClaimFields, Range
<1>2. Private \subseteq Field \ {"fold_nonces"}
  BY NamesApart DEF Private, PiopFields, RingClaimFields
<1>3. /\ proof'[b]["veil_root"] = proof[b]["veil_root"] /\ proof'[b]["veil_linear"] = proof[b]["veil_linear"]
      /\ proof'[b]["veil_hadamard"] = proof[b]["veil_hadamard"]
      /\ proof'[b]["q1"] = proof[b]["q1"] /\ proof'[b]["q2"] = proof[b]["q2"]
  <2>1. {"veil_root", "veil_linear", "veil_hadamard", "q1", "q2"} \subseteq Field \ {"fold_nonces"}
    BY NamesApart DEF Public
  <2> QED
    BY <2>1
<1>4. \A f \in Private : \A i : proof'[b][f][i] = proof[b][f][i]
  BY <1>2
<1>5. Circuit(b)' = Circuit(b)
  BY <1>1, <1>3, <1>4 DEF Circuit
<1> QED
  BY <1>3, <1>5 DEF VeilClaim

(* What the branches have shown stays shown. *)
LEMMA FoldsGrow ==
  ASSUME NEW o, NEW r, Grown(o, r), NEW q, NEW k, NEW d, NEW n \in Nat, NEW m \in Nat
  PROVE  /\ FoldChain(o, q, k, d, n) => FoldChain(r, q, k, d, n)
         /\ FoldHits(o, q, d, m) => FoldHits(r, q, d, m)
<1> HIDE DEF IsId, Hit
<1>1. (\A j, v : IsId(o, j, v) => IsId(r, j, v)) /\ \A v : Hit(o, v) => Hit(r, v)
  BY IdGrows
<1>2. FoldChain(o, q, k, d, n) => FoldChain(r, q, k, d, n)
  BY <1>1 DEF FoldChain
<1>3. FoldHits(o, q, d, m) => FoldHits(r, q, d, m)
  BY <1>1 DEF FoldHits
<1> QED
  BY <1>2, <1>3

LEMMA OpenedGrows ==
  ASSUME NEW b \in Main, NEW claim, Opened(b, claim), Grown(oracle, oracle'),
         proof'[b] = proof[b], chal'[b] = chal[b], link'[b] = link[b]
  PROVE  Opened(b, claim)'
<1>1. SideProof(b)' = SideProof(b)
  BY SameProof
<1>2. PICK d \in [1..(FoldSites + 1) -> DOMAIN oracle] :
         /\ FoldChain(oracle, SideProof(b), link[b].blind, d, FoldSites + 1)
         /\ FoldHits(oracle, SideProof(b), d, FoldSites)
         /\ claim = PcsClaim(b, d[FoldSites + 1])
  BY DEF Opened
<1>3. /\ FoldChain(oracle', SideProof(b), link[b].blind, d, FoldSites + 1)
      /\ FoldHits(oracle', SideProof(b), d, FoldSites)
  BY <1>2, FoldsGrow, Bounds
<1>4. d \in [1..(FoldSites + 1) -> DOMAIN oracle']
  BY IdGrows
<1>5. \A i : PcsClaim(b, i)' = PcsClaim(b, i)
  BY DEF PcsClaim, ClaimPoints
<1> QED
  BY <1>1, <1>2, <1>3, <1>4, <1>5 DEF Opened

LEMMA ProvedGrows ==
  ASSUME NEW b \in Main, NEW claim, Proved(b, claim), Grown(oracle, oracle'),
         \A f \in Field \ {"fold_nonces"} : proof'[b][f] = proof[b][f],
         SameOn(SideProof(b), SideProof(b)', {"q1", "q2", "veil_root"}),
         chal'[b] = chal[b], link'[b] = link[b]
  PROVE  Proved(b, claim)'
<1>1. PICK k \in DOMAIN oracle : IsId(oracle, k, VeilT(SideProof(b), link[b].blind)) /\ claim = VeilClaim(b, k)
  BY DEF Proved
<1>2. VeilT(SideProof(b)', link[b].blind) = VeilT(SideProof(b), link[b].blind)
  BY DEF VeilT, ForkT, BlindedT, BlindedItems, SameOn
<1>3. k \in DOMAIN oracle' /\ IsId(oracle', k, VeilT(SideProof(b)', link[b].blind))
  BY <1>1, <1>2, IdGrows
<1>4. VeilClaim(b, k)' = VeilClaim(b, k)
  BY SameClaim
<1> QED
  BY <1>1, <1>3, <1>4 DEF Proved

LEMMA StillWalkerKeeps ==
  ASSUME PadInv, Grown(oracle, oracle'), NEW b \in Walkers, WalkInv(b), StillWalker(b),
         SameOn(SideProof(Owner[b]), SideProof(Owner[b])', Core),
         b # "prover" /\ blk[b] > 1 => (Shaped(b, PiopFields) => Shaped(b, PiopFields)')
  PROVE  WalkInv(b)'
<1>1. WalkAt(oracle', SideProof(Owner[b])', chal[b], blk[b], pc[b], tr[b])
  <2>1. chal[b] \in Seq(Nat \ {0})
    BY TypesGive
  <2>2. WalkAt(oracle, SideProof(Owner[b]), chal[b], blk[b], pc[b], tr[b])
    BY DEF WalkInv
  <2> QED
    BY <2>1, <2>2, WalkAtGrows
<1> QED
  BY <1>1 DEF WalkInv, StillWalker

LEMMA SecondKept ==
  ASSUME NEW b \in Main, SecondInv(b), proof'[b] = proof[b], chal'[b] = chal[b],
         chal'[Second[b]] = chal[Second[b]], pc'[Second[b]] = pc[Second[b]],
         pc'[b] = pc[b] \/ pc'[b] \in Errors \/ (pc[Second[b]] = "idle" /\ pc'[b] \notin Blinded)
  PROVE  SecondInv(b)'
<1>1. Shaped(b, RingFields)' <=> Shaped(b, RingFields)
  BY SameProof
<1>2. "circuit" \in Blinded /\ {"join", "shipped", "accept"} \subseteq Blinded /\ Errors \cap Blinded = {}
  BY PlaceNames DEF Blinded
<1> QED
  BY <1>1, <1>2 DEF SecondInv

LEMMA StillSideKeeps ==
  ASSUME PadInv, Grown(oracle, oracle'), NEW b \in Main, SideInv(b), StillSide(b)
  PROVE  SideInv(b)'
<1>1. proof'[b] = proof[b] /\ StillWalker(b) /\ StillWalker(Second[b])
  BY DEF StillSide
<1>2. /\ SideProof(b)' = SideProof(b)
      /\ \A f : Shaped(b, f)' <=> Shaped(b, f)
      /\ \A f : Shaped(Second[b], f)' <=> Shaped(Second[b], f)
  BY <1>1, SameProof
<1>3. SameOn(SideProof(b), SideProof(b)', Core)
  BY <1>2 DEF SameOn
<1>4. WalkInv(b)'
  BY <1>1, <1>2, <1>3, StillWalkerKeeps, OtherIs DEF SideInv
<1>5. WalkInv(Second[b])'
  BY <1>1, <1>2, <1>3, StillWalkerKeeps, OtherIs DEF SideInv
<1>6. LinkInv(b)'
  <2>1. LinkAt(oracle, SideProof(b), link[b].digest, link[b].blind, chal[b], blk[b], pc[b], tr[b], start[b])
    BY DEF SideInv, LinkInv
  <2>2. LinkAt(oracle', SideProof(b)', link[b].digest, link[b].blind, chal[b], blk[b], pc[b], tr[b], start[b])
    BY <1>2, <1>3, <2>1, LinkAtGrows
  <2> QED
    BY <1>1, <1>2, <2>2 DEF SideInv, LinkInv, StillSide, StillWalker
<1>7. SecondInv(b)'
  BY <1>1, SecondKept DEF SideInv, StillWalker
<1> QED
  BY <1>4, <1>5, <1>6, <1>7 DEF SideInv

(* A step of a side before its branches fork, or of its second walk.              *)
Quiet(b) ==
    /\ pc[b] \notin {"idle", "join", "shipped", "accept"} \cup Errors
    /\ pc'[b] \notin {"join", "shipped", "accept"}
    /\ StillSide(Other(b)) /\ attest' = attest

LEMMA QuietKeeps ==
  ASSUME PadInv, Grown(oracle, oracle'), NEW b \in Main, AttestInv, Quiet(b)
  PROVE  OpeningInv' /\ AttestInv'
<1>1. /\ pc[b] \notin {"idle", "join", "shipped", "accept"} \cup Errors
      /\ pc'[b] \notin {"join", "shipped", "accept"}
      /\ pc'[Other(b)] = pc[Other(b)] /\ proof'[Other(b)] = proof[Other(b)]
      /\ chal'[Other(b)] = chal[Other(b)] /\ link'[Other(b)] = link[Other(b)] /\ attest' = attest
  BY DEF Quiet, StillSide, StillWalker
<1>2. CASE b = "prover"
  <2>1. pc["verifier"] = "idle" /\ pc'["verifier"] = "idle"
    BY <1>1, <1>2, OtherIs DEF PadInv, Pads
  <2>2. attest["pcs"] = <<>> /\ attest["veil"] = <<>>
    BY <1>1, <1>2, PlaceNames DEF AttestInv
  <2> QED
    BY <1>1, <1>2, <2>1, <2>2 DEF OpeningInv, AttestInv, Side
<1>3. CASE b = "verifier"
  <2>1. pc["prover"] = "shipped" /\ pc'["prover"] = "shipped"
    BY <1>1, <1>3, OtherIs DEF PadInv, Pads
  <2>2. OpeningInv'
    BY <1>1, <1>3, <2>1 DEF OpeningInv, Side
  <2>3. SideProof("prover")' = SideProof("prover")
    BY <1>1, <1>3, OtherIs, SameProof
  <2>4. Opened("prover", attest["pcs"])'
    <3>1. Opened("prover", attest["pcs"])
      BY <2>1 DEF AttestInv
    <3> QED
      BY <1>1, <1>3, <2>3, <3>1, OpenedGrows, OtherIs
  <2>5. Proved("prover", attest["veil"])'
    <3>1. Proved("prover", attest["veil"])
      BY <2>1 DEF AttestInv
    <3> QED
      BY <1>1, <1>3, <2>3, <3>1, ProvedGrows, OtherIs DEF SameOn
  <2> QED
    BY <1>1, <1>3, <2>1, <2>2, <2>4, <2>5 DEF AttestInv
<1> QED
  BY <1>2, <1>3, ThreadNames

LEMMA ElementsKept ==
  ASSUME ElementsInv, proof' = proof,
         pc'["prover"] \in Blinded => pc["prover"] \in Blinded /\ link'["prover"] = link["prover"]
  PROVE  ElementsInv'
BY DEF ElementsInv, QSlice

-----------------------------------------------------------------------------
(* One step at a time: the walks.                                                 *)
LEMMA LinkAtWalks ==
  ASSUME NEW o, NEW q, NEW d, NEW k, NEW c, NEW n, NEW p, NEW t, NEW s, LinkAt(o, q, d, k, c, n, p, t, s),
         p \in {"walk", "redraw"}, NEW p2 \in {"walk", "redraw", "InvalidShape"},
         NEW o2, NEW c2, NEW n2, NEW t2
  PROVE  LinkAt(o2, q, d, k, c2, n2, p2, t2, s)
<1>1. d = 0 /\ k = 0 /\ s = BeginT(q)
  BY DEF LinkAt, Unlinked
<1>2. p2 \notin Bound \cup Blinded
  BY DEF Bound, Blinded
<1> QED
  BY <1>1, <1>2 DEF LinkAt, Bound

LEMMA BindTrace ==
  ASSUME PadInv, TraceInv, NEW b \in Main, Bind(b)
  PROVE  TraceInv'
<1> DEFINE t == Absorb(tr[b], StatementItems(proof[b]) \o BindItems(proof[b]))
           q == SideProof(b)
<1>1. /\ pc[b] = "bind" /\ tr' = [tr EXCEPT ![b] = t] /\ start' = [start EXCEPT ![b] = t]
      /\ pc' = [pc EXCEPT ![b] = "walk"]
      /\ UNCHANGED <<oracle, blk, chal, cursor, link, trial, proof, attest>>
  BY DEF Bind, Says, Goto
<1>2. /\ pc'[b] = "walk" /\ tr'[b] = t /\ start'[b] = t
      /\ \A x \in Threads \ {b} : pc'[x] = pc[x] /\ tr'[x] = tr[x]
      /\ \A x \in Main \ {b} : start'[x] = start[x]
  BY <1>1, OtherIs, TypesGive, ZenonT(40)
<1>3. SideInv(b) /\ SideInv(Other(b)) /\ AttestInv /\ ElementsInv
  BY Sides, OtherIs
<1>4. Grown(oracle, oracle')
  BY <1>1 DEF Grown
<1>5. StillSide(Other(b)) /\ StillWalker(Second[b])
  BY <1>1, <1>2, OtherIs DEF StillSide, StillWalker
<1>6. SideInv(Other(b))'
  BY <1>3, <1>4, <1>5, StillSideKeeps, OtherIs
<1>7. OpeningInv' /\ AttestInv'
  <2>1. Quiet(b)
    BY <1>1, <1>2, <1>5, PlaceNames DEF Quiet
  <2> QED
    BY <1>3, <1>4, <2>1, QuietKeeps
<1>8. ElementsInv'
  BY <1>1, <1>2, <1>3, OtherIs, ElementsKept DEF Blinded
<1>9. q' = q /\ \A f : Shaped(b, f)' <=> Shaped(b, f)
  BY <1>1, SameProof
<1>10. t = BeginT(q)
  <2>1. tr[b] = After(0)
    BY <1>1, <1>3 DEF SideInv, LinkInv, LinkAt
  <2> QED
    BY <2>1, SideItems DEF BeginT
<1>11. blk[b] = 1
  BY <1>1 DEF PadInv, Control
<1> HIDE DEF q, t
<1>12. WalkInv(b)'
  <2>1. WalkAt(oracle, q, chal[b], 1, "bind", tr[b])
    BY <1>1, <1>3, <1>11, OtherIs DEF SideInv, WalkInv, q
  <2>2. WalkAt(oracle, q, chal[b], 1, "walk", t)
    BY <1>10, <2>1, WalkAtStarts
  <2> QED
    BY <1>1, <1>2, <1>9, <1>11, <2>2, OtherIs DEF WalkInv, q
<1>13. WalkInv(Second[b])'
  <2>1. SameOn(SideProof(Owner[Second[b]]), SideProof(Owner[Second[b]])', Core)
    BY <1>9, OtherIs DEF SameOn, q
  <2>2. Shaped(Second[b], PiopFields) => Shaped(Second[b], PiopFields)'
    BY <1>1, SameProof
  <2> QED
    BY <1>3, <1>4, <1>5, <2>1, <2>2, StillWalkerKeeps, OtherIs DEF SideInv
<1>14. LinkInv(b)'
  <2>1. LinkAt(oracle, q, link[b].digest, link[b].blind, chal[b], blk[b], "bind", tr[b], start[b])
    BY <1>1, <1>3 DEF SideInv, LinkInv, q
  <2>2. LinkAt(oracle, q, link[b].digest, link[b].blind, chal[b], blk[b], "walk", t, t)
    <3>1. link[b].digest = 0 /\ link[b].blind = 0
      BY <2>1 DEF LinkAt, Unlinked
    <3> QED
      BY <1>10, <3>1 DEF LinkAt, Bound, Blinded
  <2> QED
    BY <1>1, <1>2, <1>9, <2>2 DEF LinkInv, q, Bound
<1>15. SecondInv(b)'
  BY <1>1, <1>2, <1>3, OtherIs, PlaceNames DEF SideInv, SecondInv, Blinded
<1>16. SideInv(b)'
  BY <1>12, <1>13, <1>14, <1>15 DEF SideInv
<1> QED
  BY <1>6, <1>7, <1>8, <1>16, BothSides

LEMMA RefuseShapeTrace ==
  ASSUME PadInv, TraceInv, NEW w \in Walkers, RefuseShape(w)
  PROVE  TraceInv'
<1> DEFINE b == Owner[w]
<1>1. /\ w # "prover" /\ pc[w] = "walk" /\ blk[w] = 1 /\ pc' = [pc EXCEPT ![w] = "InvalidShape"]
      /\ UNCHANGED <<oracle, tr, blk, chal, cursor, start, link, trial, proof, attest>>
  BY DEF RefuseShape, Goto
<1>2. b \in Main /\ w \in {b, Second[b]} /\ w \in Threads
  BY ThreadNames
<1> HIDE DEF b
<1>3. pc'[w] = "InvalidShape" /\ \A x \in Threads \ {w} : pc'[x] = pc[x]
  BY <1>1, <1>2, TypesGive
<1>4. SideInv(b) /\ SideInv(Other(b)) /\ AttestInv /\ ElementsInv
  BY <1>2, Sides, OtherIs
<1>5. Grown(oracle, oracle')
  BY <1>1 DEF Grown
<1>6. StillSide(Other(b)) /\ \A x \in {b, Second[b]} \ {w} : StillWalker(x)
  BY <1>1, <1>2, <1>3, OtherIs DEF StillSide, StillWalker
<1>7. SideInv(Other(b))'
  BY <1>2, <1>4, <1>5, <1>6, StillSideKeeps, OtherIs
<1>8. w = Second[b] => pc[b] = "circuit" /\ pc'[b] = "circuit"
  <2>1. 1 <= N
    BY PinsType
  <2> QED
    BY <1>1, <1>2, <1>3, <2>1, OtherIs DEF PadInv, Control
<1>9. OpeningInv' /\ AttestInv'
  <2>1. Quiet(b)
    BY <1>1, <1>2, <1>3, <1>6, <1>8, PlaceNames DEF Quiet
  <2> QED
    BY <1>2, <1>4, <1>5, <2>1, QuietKeeps
<1>10. ElementsInv'
  BY <1>1, <1>2, <1>3, <1>4, OtherIs, ThreadNames, ElementsKept
<1>11. /\ SideProof(b)' = SideProof(b)
       /\ \A f : Shaped(b, f)' <=> Shaped(b, f)
       /\ \A f : Shaped(Second[b], f)' <=> Shaped(Second[b], f)
  BY <1>1, <1>2, SameProof
<1>12. WalkInv(b)' /\ WalkInv(Second[b])'
  <2>1. ASSUME NEW x \in {b, Second[b]}, WalkInv(x) PROVE WalkInv(x)'
    <3>1. CASE x = w
      <4>1. WalkAt(oracle, SideProof(b), chal[x], blk[x], "InvalidShape", tr[x])
        BY <1>2, <2>1, OtherIs, WalkAtStops DEF WalkInv
      <4> QED
        BY <1>1, <1>2, <1>3, <1>11, <2>1, <3>1, <4>1, OtherIs DEF WalkInv
    <3>2. CASE x # w
      <4>1. SameOn(SideProof(Owner[x]), SideProof(Owner[x])', Core)
        BY <1>2, <1>11, OtherIs DEF SameOn
      <4> QED
        BY <1>2, <1>5, <1>6, <1>11, <2>1, <3>2, <4>1, StillWalkerKeeps, OtherIs
    <3> QED
      BY <3>1, <3>2
  <2> QED
    BY <1>4, <2>1 DEF SideInv
<1>13. LinkInv(b)'
  <2>1. LinkAt(oracle, SideProof(b), link[b].digest, link[b].blind, chal[b], blk[b], pc[b], tr[b], start[b])
    BY <1>4 DEF SideInv, LinkInv
  <2>2. LinkAt(oracle, SideProof(b), link[b].digest, link[b].blind, chal[b], blk[b], pc'[b], tr[b], start[b])
    <3>1. CASE w = b
      BY <1>1, <1>3, <2>1, <3>1, LinkAtWalks
    <3>2. CASE w # b
      BY <1>2, <1>3, <2>1, <3>2, OtherIs
    <3> QED
      BY <3>1, <3>2
  <2>3. pc'[b] \in Bound \ {"rings"} => pc[b] \in Bound \ {"rings"}
    BY <1>2, <1>3, OtherIs DEF Bound
  <2> QED
    BY <1>1, <1>4, <1>11, <2>2, <2>3 DEF LinkInv, SideInv
<1>14. SecondInv(b)'
  <2>1. CASE w = b
    <3>1. pc[Second[b]] = "idle"
      BY <1>1, <1>4, <2>1, PlaceNames DEF SideInv, SecondInv, Blinded
    <3> QED
      BY <1>1, <1>2, <1>3, <2>1, <3>1, OtherIs, PlaceNames DEF SecondInv
  <2>2. CASE w = Second[b]
    BY <1>1, <1>2, <1>3, <1>4, <1>8, <2>2, OtherIs DEF SideInv, SecondInv, Blinded
  <2> QED
    BY <1>2, <2>1, <2>2
<1>15. SideInv(b)'
  BY <1>12, <1>13, <1>14 DEF SideInv
<1> QED
  BY <1>2, <1>7, <1>9, <1>10, <1>15, BothSides

LEMMA DrawBlockMoves ==
  ASSUME PadInv, NEW w \in Walkers, NEW c \in Class, DrawBlock(w, c), WalkInv(w)
  PROVE  \E k \in Nat \ {0}, p \in {"walk", "redraw", "InvalidShape"} :
            /\ WalkAt(oracle', SideProof(Owner[w]), chal'[w], blk'[w], p, After(k))
            /\ pc' = [pc EXCEPT ![w] = p] /\ tr' = [tr EXCEPT ![w] = After(k)]
            /\ \A x \in Threads \ {w} : blk'[x] = blk[x]
            /\ \A x \in Walkers \ {w} : chal'[x] = chal[x]
            /\ UNCHANGED <<start, link, trial, proof, attest>>
            /\ Grown(oracle, oracle')
            /\ w # "prover" => Shaped(w, PiopFields)
            /\ pc[w] \in {"walk", "redraw"} /\ blk[w] <= N
<1> DEFINE block == Blocks(w)[blk[w]]
           again == pc[w] = "redraw"
           t == IF again THEN tr[w] ELSE Absorb(tr[w], Observed(w, block.says))
           q == SideProof(Owner[w])
           k == IdOf(t)
<1>1. /\ pc[w] \in {"walk", "redraw"} /\ blk[w] <= Len(Blocks(w))
      /\ w # "prover" => Shaped(w, PiopFields)
      /\ block.draws # "eq" => c = "good"
      /\ Answered(t, c)
      /\ Says(w, Squeezed(t))
      /\ IF DrawAgain(c)
         THEN Goto(w, "redraw") /\ UNCHANGED <<blk, chal>>
         ELSE /\ Goto(w, IF Degenerate(w) THEN "InvalidShape" ELSE "walk")
              /\ blk' = [blk EXCEPT ![w] = @ + 1]
              /\ chal' = [chal EXCEPT ![w] = Append(@, IdOf(t))]
      /\ UNCHANGED <<start, link, trial, proof, attest>>
  BY DEF DrawBlock
<1>2. blk[w] \in 1..N /\ block = ProverBlocks[blk[w]] /\ blk[w] <= N
  <2>1. blk[w] \in Nat \ {0} /\ N \in Nat
    BY ThreadNames, PinsType, TypesGive
  <2>2. Blocks(w) = ProverBlocks /\ Len(ProverBlocks) = N
    BY SameBlocks, BlocksAre
  <2> QED
    BY <1>1, <2>1, <2>2
<1>3. ~again => Observed(w, block.says) = Said(q, SaysOf(blk[w])) /\ t = Absorb(tr[w], Said(q, SaysOf(blk[w])))
  BY <1>1, <1>2, SaidIs
<1>4. TranscriptOK(t, oracle)
  <2>1. TranscriptOK(tr[w], oracle)
    BY ThreadNames DEF PadInv, Transcripts
  <2>2. CASE ~again
    <3>1. Observed(w, block.says) \in Seq(SayableItem)
      BY <1>1, <1>2, <2>2, ObservedIs DEF SaysOf
    <3> QED
      BY <2>1, <2>2, <3>1, AbsorbOK
  <2> QED
    BY <2>1, <2>2
<1>5. again => t = tr[w]
  OBVIOUS
<1> HIDE DEF t
<1>6. /\ Grown(oracle, oracle') /\ IsId(oracle', k, t) /\ oracle'[k].class = c
      /\ k \in Nat \ {0} /\ Squeezed(t) = After(k)
  BY <1>1, <1>4, AnsweredGives DEF PadInv
<1>7. blk[w] # 1 => c = "good"
  BY <1>1, <1>2, DrawsAre
<1>8. again => blk[w] = 1
  BY <1>1 DEF PadInv, Control
<1>9. chal[w] \in Seq(Nat \ {0}) /\ WalkAt(oracle, q, chal[w], blk[w], pc[w], tr[w])
  BY TypesGive DEF WalkInv
<1>10. tr' = [tr EXCEPT ![w] = After(k)]
  BY <1>1, <1>6 DEF Says
<1> HIDE DEF q, k
<1>11. CASE c = "bad"
  <2>1. blk[w] = 1 /\ oracle'[k].class = "bad"
    BY <1>6, <1>7, <1>11
  <2>2. WalkAt(oracle', q, chal[w], 1, "redraw", After(k))
    <3>1. \/ pc[w] = "walk" /\ IsId(oracle', k, Absorb(tr[w], Said(q, SaysOf(1))))
          \/ pc[w] = "redraw" /\ IsId(oracle', k, tr[w])
      BY <1>1, <1>3, <1>5, <1>6, <2>1
    <3> QED
      BY <1>6, <1>9, <2>1, <3>1, WalkAtRedraws
  <2>3. pc' = [pc EXCEPT ![w] = "redraw"] /\ blk' = blk /\ chal' = chal
    BY <1>1, <1>11 DEF DrawAgain, Goto
  <2> QED
    BY <1>1, <1>2, <1>6, <1>10, <2>1, <2>2, <2>3 DEF q
<1>12. CASE c = "good"
  <2>1. PICK p \in {"walk", "InvalidShape"} : pc' = [pc EXCEPT ![w] = p]
    BY <1>1, <1>12 DEF DrawAgain, Goto
  <2>2. blk' = [blk EXCEPT ![w] = @ + 1] /\ chal' = [chal EXCEPT ![w] = Append(@, k)]
    BY <1>1, <1>12 DEF DrawAgain, k
  <2>3. /\ blk'[w] = blk[w] + 1 /\ chal'[w] = Append(chal[w], k)
        /\ \A x \in Threads \ {w} : blk'[x] = blk[x]
        /\ \A x \in Walkers \ {w} : chal'[x] = chal[x]
    BY <2>2, ThreadNames, TypesGive
  <2>4. WalkAt(oracle', q, Append(chal[w], k), blk[w] + 1, "walk", After(k))
    <3>1. CASE blk[w] = 1
      <4>1. \/ pc[w] = "walk" /\ IsId(oracle', k, Absorb(tr[w], Said(q, SaysOf(1))))
            \/ pc[w] = "redraw" /\ IsId(oracle', k, tr[w])
        BY <1>1, <1>3, <1>5, <1>6, <3>1
      <4>2. WalkAt(oracle, q, chal[w], 1, pc[w], tr[w]) /\ oracle'[k].class = "good"
        BY <1>6, <1>9, <1>12, <3>1
      <4>3. WalkAt(oracle', q, Append(chal[w], k), 2, "walk", After(k))
        BY <1>6, <1>9, <4>1, <4>2, WalkAtDrawsEq
      <4> QED
        BY <3>1, <4>3
    <3>2. CASE blk[w] # 1
      <4>1. pc[w] = "walk" /\ blk[w] \in 2..N
        BY <1>1, <1>2, <1>8, <3>2
      <4>2. IsId(oracle', k, Absorb(tr[w], Said(q, SaysOf(blk[w]))))
        BY <1>3, <1>6, <4>1
      <4> QED
        BY <1>6, <1>9, <4>1, <4>2, WalkAtDraws
    <3> QED
      BY <3>1, <3>2
  <2>5. WalkAt(oracle', q, chal'[w], blk'[w], p, After(k))
    <3>1. CASE p = "walk"
      BY <2>3, <2>4, <3>1
    <3>2. CASE p = "InvalidShape"
      BY <2>3, <2>4, <3>2, WalkAtStops
    <3> QED
      BY <3>1, <3>2
  <2> QED
    BY <1>1, <1>2, <1>6, <1>10, <2>1, <2>3, <2>5 DEF q
<1> QED
  BY <1>11, <1>12 DEF Class

LEMMA DrawBlockTrace ==
  ASSUME PadInv, TraceInv, NEW w \in Walkers, NEW c \in Class, DrawBlock(w, c)
  PROVE  TraceInv'
<1> DEFINE b == Owner[w]
<1>1. b \in Main /\ w \in {b, Second[b]} /\ w \in Threads
  BY ThreadNames
<1>2. SideInv(b) /\ SideInv(Other(b)) /\ AttestInv /\ ElementsInv
  BY <1>1, Sides, OtherIs
<1>3. PICK k \in Nat \ {0}, p \in {"walk", "redraw", "InvalidShape"} :
            /\ WalkAt(oracle', SideProof(b), chal'[w], blk'[w], p, After(k))
            /\ pc' = [pc EXCEPT ![w] = p] /\ tr' = [tr EXCEPT ![w] = After(k)]
            /\ \A x \in Threads \ {w} : blk'[x] = blk[x]
            /\ \A x \in Walkers \ {w} : chal'[x] = chal[x]
            /\ UNCHANGED <<start, link, trial, proof, attest>>
            /\ Grown(oracle, oracle')
            /\ w # "prover" => Shaped(w, PiopFields)
            /\ pc[w] \in {"walk", "redraw"} /\ blk[w] <= N
  <2>1. WalkInv(w)
    BY <1>1, <1>2 DEF SideInv
  <2> QED
    BY <2>1, DrawBlockMoves
<1> HIDE DEF b
<1>4. /\ pc'[w] = p /\ tr'[w] = After(k)
      /\ \A x \in Threads \ {w} : pc'[x] = pc[x] /\ tr'[x] = tr[x]
  BY <1>1, <1>3, TypesGive
<1>5. StillSide(Other(b)) /\ \A x \in {b, Second[b]} \ {w} : StillWalker(x)
  <2>1. \A x \in Walkers \ {w} : StillWalker(x)
    <3>1. Walkers \subseteq Threads
      BY ThreadNames
    <3> QED
      BY <1>3, <1>4, <3>1 DEF StillWalker
  <2>2. Other(b) \in Walkers \ {w} /\ Second[Other(b)] \in Walkers \ {w}
        /\ {b, Second[b]} \subseteq Walkers
    BY <1>1, OtherIs
  <2>3. StillWalker(Other(b)) /\ StillWalker(Second[Other(b)])
    BY <2>1, <2>2
  <2>4. StillSide(Other(b))
    BY <1>3, <2>3 DEF StillSide
  <2> QED
    BY <2>1, <2>2, <2>4
<1>6. SideInv(Other(b))'
  BY <1>1, <1>2, <1>3, <1>5, StillSideKeeps, OtherIs
<1>7. w = Second[b] => pc[b] = "circuit" /\ pc'[b] = "circuit"
  BY <1>1, <1>3, <1>4, OtherIs DEF PadInv, Control
<1>8. OpeningInv' /\ AttestInv'
  <2>1. Quiet(b)
    BY <1>1, <1>3, <1>4, <1>5, <1>7, PlaceNames DEF Quiet
  <2> QED
    BY <1>1, <1>2, <1>3, <2>1, QuietKeeps
<1>9. ElementsInv'
  <2>1. pc'["prover"] \in Blinded => pc["prover"] \in Blinded
    BY <1>3, <1>4, ThreadNames DEF Blinded
  <2> QED
    BY <1>2, <1>3, <2>1, ElementsKept
<1>10. /\ SideProof(b)' = SideProof(b)
       /\ \A f : Shaped(b, f)' <=> Shaped(b, f)
       /\ \A f : Shaped(Second[b], f)' <=> Shaped(Second[b], f)
  BY <1>1, <1>3, SameProof
<1>11. WalkInv(b)' /\ WalkInv(Second[b])'
  <2>1. ASSUME NEW x \in {b, Second[b]}, WalkInv(x) PROVE WalkInv(x)'
    <3>1. CASE x = w
      BY <1>1, <1>3, <1>4, <1>10, <2>1, <3>1, OtherIs DEF WalkInv
    <3>2. CASE x # w
      <4>1. SameOn(SideProof(Owner[x]), SideProof(Owner[x])', Core)
        BY <1>1, <1>10, OtherIs DEF SameOn
      <4> QED
        BY <1>1, <1>3, <1>5, <1>10, <2>1, <3>2, <4>1, StillWalkerKeeps, OtherIs
    <3> QED
      BY <3>1, <3>2
  <2> QED
    BY <1>2, <2>1 DEF SideInv
<1>12. LinkInv(b)'
  <2>1. LinkAt(oracle, SideProof(b), link[b].digest, link[b].blind, chal[b], blk[b], pc[b], tr[b], start[b])
    BY <1>2 DEF SideInv, LinkInv
  <2>2. LinkAt(oracle', SideProof(b), link[b].digest, link[b].blind, chal'[b], blk'[b], pc'[b], tr'[b], start[b])
    <3>1. CASE w = b
      BY <1>3, <1>4, <2>1, <3>1, LinkAtWalks
    <3>2. CASE w # b
      <4>1. chal'[b] = chal[b] /\ blk'[b] = blk[b] /\ pc'[b] = pc[b] /\ tr'[b] = tr[b]
        BY <1>1, <1>3, <1>4, <3>2, OtherIs
      <4>2. LinkAt(oracle', SideProof(b), link[b].digest, link[b].blind, chal[b], blk[b], pc[b], tr[b], start[b])
        BY <1>3, <2>1, LinkAtGrows DEF SameOn
      <4> QED
        BY <4>1, <4>2
    <3> QED
      BY <3>1, <3>2
  <2>3. pc'[b] \in Bound \ {"rings"} => pc[b] \in Bound \ {"rings"}
    BY <1>1, <1>3, <1>4, OtherIs DEF Bound
  <2>4. link' = link /\ start' = start
    BY <1>3
  <2> QED
    BY <1>2, <1>10, <2>2, <2>3, <2>4 DEF LinkInv, SideInv
<1>13. SecondInv(b)'
  <2>1. CASE w = b
    <3>1. pc[Second[b]] = "idle"
      BY <1>2, <1>3, <2>1, PlaceNames DEF SideInv, SecondInv, Blinded
    <3> QED
      BY <1>1, <1>3, <1>4, <2>1, <3>1, OtherIs, PlaceNames DEF SecondInv
  <2>2. CASE w = Second[b]
    BY <1>1, <1>2, <1>3, <1>4, <1>7, <2>2, OtherIs DEF SideInv, SecondInv, Blinded
  <2> QED
    BY <1>1, <2>1, <2>2
<1>14. SideInv(b)'
  BY <1>11, <1>12, <1>13 DEF SideInv
<1> QED
  BY <1>1, <1>6, <1>8, <1>9, <1>14, BothSides

-----------------------------------------------------------------------------
(* Between its walk and the circuit, a side moves alone, and so does its link.     *)
LEMMA SideMoves ==
  ASSUME PadInv, TraceInv, Grown(oracle, oracle'), NEW b \in Main, NEW p,
         pc[b] \notin {"idle", "walked"} \cup Blinded \cup Errors,
         p \notin {"idle", "walk", "redraw"} \cup Blinded,
         pc' = [pc EXCEPT ![b] = p],
         \A x \in Threads \ {b} : tr'[x] = tr[x],
         \A x \in Main \ {b} : link'[x] = link[x] /\ proof'[x] = proof[x],
         UNCHANGED <<blk, chal, start, attest>>,
         b = "verifier" => proof' = proof,
         SameOn(SideProof(b), SideProof(b)', Core),
         LinkAt(oracle', SideProof(b)', link'[b].digest, link'[b].blind, chal[b], blk[b], p, tr'[b], start[b]),
         p \in Bound \ {"rings"} => Shaped(b, {"direct_blinds"})',
         proof' = proof \/ ElementsInv'
  PROVE  TraceInv'
<1>1. pc'[b] = p /\ \A x \in Threads \ {b} : pc'[x] = pc[x]
  BY OtherIs, TypesGive
<1>2. SideInv(b) /\ SideInv(Other(b)) /\ AttestInv /\ ElementsInv
  BY Sides, OtherIs
<1>3. /\ Other(b) \in Main \ {b} /\ Other(b) \in Threads \ {b} /\ Second[Other(b)] \in Threads \ {b}
      /\ Second[b] \in Threads \ {b}
  BY OtherIs, ThreadNames
<1>4. \A x \in Threads \ {b} : StillWalker(x)
  BY <1>1 DEF StillWalker
<1>5. StillSide(Other(b))
  BY <1>3, <1>4 DEF StillSide
<1>6. SideInv(Other(b))'
  BY <1>2, <1>3, <1>5, StillSideKeeps
<1>7. OpeningInv' /\ AttestInv'
  <2>1. Quiet(b)
    BY <1>1, <1>5, PlaceNames DEF Quiet, Blinded
  <2> QED
    BY <1>2, <2>1, QuietKeeps
<1>8. ElementsInv'
  <2>1. pc'["prover"] \in Blinded => pc["prover"] \in Blinded /\ link'["prover"] = link["prover"]
    BY <1>1, ThreadNames
  <2> QED
    BY <1>2, <2>1, ElementsKept
<1>9. pc[Second[b]] = "idle" /\ blk[Second[b]] = 1
  BY <1>2 DEF SideInv, SecondInv, PadInv, Control
<1>10. WalkInv(b)'
  <2>1. WalkAt(oracle, SideProof(b), chal[b], blk[b], pc[b], tr[b]) /\ chal[b] \in Seq(Nat \ {0})
    BY <1>2, OtherIs, TypesGive DEF SideInv, WalkInv
  <2>2. WalkAt(oracle', SideProof(b)', chal[b], blk[b], p, tr'[b])
    BY <2>1, WalkAtGrows, WalkAtStops
  <2>3. b # "prover" /\ blk[b] > 1 => Shaped(b, PiopFields)
    BY <1>2 DEF SideInv, WalkInv
  <2>4. b # "prover" => (Shaped(b, PiopFields)' <=> Shaped(b, PiopFields))
    BY ThreadNames, SameProof
  <2> QED
    BY <1>1, <2>2, <2>3, <2>4, OtherIs DEF WalkInv
<1>11. WalkInv(Second[b])'
  <2>1. blk[Second[b]] > 1 => (Shaped(Second[b], PiopFields) => Shaped(Second[b], PiopFields)')
    BY <1>9
  <2> QED
    BY <1>2, <1>3, <1>4, <2>1, StillWalkerKeeps, OtherIs DEF SideInv
<1>12. LinkInv(b)'
  BY <1>1 DEF LinkInv
<1>13. SecondInv(b)'
  BY <1>1, <1>3, <1>9 DEF SecondInv, Blinded
<1>14. SideInv(b)'
  BY <1>10, <1>11, <1>12, <1>13 DEF SideInv
<1> QED
  BY <1>6, <1>7, <1>8, <1>14, BothSides

LEMMA WalkedTrace ==
  ASSUME PadInv, TraceInv, Walked
  PROVE  TraceInv'
<1>1. /\ pc["verifier"] = "walk" /\ blk["verifier"] > Len(Blocks("verifier"))
      /\ pc' = [pc EXCEPT !["verifier"] = "rings"]
      /\ UNCHANGED <<oracle, tr, blk, chal, cursor, start, link, trial, proof, attest>>
  BY DEF Walked, Goto
<1> DEFINE b == "verifier"
           q == SideProof(b)
<1>2. b \in Main /\ b \in Threads
  BY ThreadNames
<1>3. SideInv(b)
  BY <1>2, Sides
<1>4. /\ WalkAt(oracle, q, chal[b], blk[b], "walk", tr[b])
      /\ LinkAt(oracle, q, link[b].digest, link[b].blind, chal[b], blk[b], "walk", tr[b], start[b])
  BY <1>1, <1>2, <1>3, OtherIs DEF SideInv, WalkInv, LinkInv
<1>5. q' = q
  BY <1>1, <1>2, SameProof
<1>6. LinkAt(oracle, q, link[b].digest, link[b].blind, chal[b], blk[b], "rings", tr[b], start[b])
  <2>1. blk[b] \in Nat /\ blk[b] > N /\ N \in Nat /\ N >= 4
    BY <1>1, <1>2, SameBlocks, BlocksAre, PinsType, TypesGive
  <2>2. blk[b] = N + 1
    BY <1>4, <2>1 DEF WalkAt
  <2>3. tr[b] = After(chal[b][N])
    BY <1>4, <2>1, <2>2 DEF WalkAt, WalkEnd
  <2>4. link[b].digest = 0 /\ link[b].blind = 0 /\ start[b] = BeginT(q)
    BY <1>4 DEF LinkAt, Unlinked
  <2> HIDE DEF q
  <2> QED
    BY <2>2, <2>3, <2>4 DEF LinkAt, Unlinked, Blinded
<1> HIDE DEF q
<1>7. Grown(oracle, oracle') /\ SameOn(q, q', Core)
  BY <1>1, <1>5 DEF Grown, SameOn
<1> QED
  BY <1>1, <1>2, <1>5, <1>6, <1>7, SideMoves, PlaceNames DEF Blinded, q

LEMMA MaskedTwice ==
  ASSUME NEW q
  PROVE  /\ MaskedProof(MaskedProof(q)) = MaskedProof(q)
         /\ Named(q) => Named(MaskedProof(q))
         /\ Total(MaskedProof(q))
         /\ \A f \in Private : Len(MaskedProof(q)[f]) = FieldLen[f]
<1> DEFINE m == MaskedProof(q)
           z == [f \in Field |-> IF f \in Private THEN [i \in 1..FieldLen[f] |-> Padded(f, i)] ELSE q[f]]
<1>1. m = z
  BY MaskedProofIs
<1>2. /\ \A f \in Private : m[f] = [i \in 1..FieldLen[f] |-> Padded(f, i)]
      /\ \A f \in Field \ Private : m[f] = q[f]
  BY <1>1, NamesApart
<1>3. MaskedProof(m) = m
  <2>1. MaskedProof(m) = [f \in Field |-> IF f \in Private THEN [i \in 1..FieldLen[f] |-> Padded(f, i)] ELSE m[f]]
    BY MaskedProofIs
  <2> QED
    BY <1>1, <1>2, <2>1
<1>4. Total(m)
  BY <1>1 DEF Total
<1>5. ASSUME NEW f \in Private
      PROVE  Len(m[f]) = FieldLen[f] /\ \A i \in DOMAIN m[f] : m[f][i].name = f /\ m[f][i].i = i
  <2>1. FieldLen[f] \in Nat
    BY LengthsAreNat, NamesApart
  <2>2. \A i \in 1..FieldLen[f] : Padded(f, i).name = f /\ Padded(f, i).i = i
    BY DEF Padded, V
  <2>3. Len(m[f]) = FieldLen[f]
    BY MaskedFields
  <2>4. DOMAIN m[f] = 1..FieldLen[f] /\ \A i \in 1..FieldLen[f] : m[f][i] = Padded(f, i)
    BY <1>2
  <2> QED
    BY <2>2, <2>3, <2>4
<1>6. ASSUME Named(q) PROVE Named(m)
  <2> HIDE DEF m
  <2>1. ASSUME NEW f \in Field, NEW i \in DOMAIN m[f]
        PROVE  m[f][i].name = f /\ (f \notin Nonces => m[f][i].i = i)
    BY <1>2, <1>5, <1>6 DEF Named
  <2> QED
    BY <2>1 DEF Named
<1> QED
  BY <1>3, <1>4, <1>5, <1>6

LEMMA MaskMessagesTrace ==
  ASSUME PadInv, TraceInv, MaskMessages
  PROVE  TraceInv'
<1> DEFINE b == "prover"
           q == SideProof(b)
<1>1. PICK p \in {"rings", "InvalidShape"} :
         /\ pc[b] = "walk" /\ blk[b] > Len(Blocks(b))
         /\ UNCHANGED <<oracle, tr, blk, chal, cursor, start, link, trial, attest>>
         /\ pc' = [pc EXCEPT ![b] = p]
         /\ p = "rings" => proof' = [proof EXCEPT ![b] = MaskedProof(proof[b])]
         /\ p = "InvalidShape" => proof' = proof
  BY DEF MaskMessages, Goto
<1>2. b \in Main /\ b \in Threads
  BY ThreadNames
<1>3. SideInv(b) /\ ElementsInv
  BY <1>2, Sides
<1>4. /\ WalkAt(oracle, q, chal[b], blk[b], "walk", tr[b])
      /\ LinkAt(oracle, q, link[b].digest, link[b].blind, chal[b], blk[b], "walk", tr[b], start[b])
  BY <1>1, <1>2, <1>3, OtherIs DEF SideInv, WalkInv, LinkInv
<1>5. p = "rings" => proof'[b] = MaskedProof(proof[b]) /\ \A x \in Main \ {b} : proof'[x] = proof[x]
  BY <1>1, <1>2, TypesGive
<1>6. q' = q
  BY <1>1, <1>5, MaskedTwice DEF SideProof
<1>7. Grown(oracle, oracle') /\ SameOn(q, q', Core)
  BY <1>1, <1>6 DEF Grown, SameOn
<1> HIDE DEF q
<1>8. LinkAt(oracle, q, link[b].digest, link[b].blind, chal[b], blk[b], p, tr[b], start[b])
  <2>1. CASE p = "rings"
    <3>1. blk[b] \in Nat /\ blk[b] > N /\ N \in Nat /\ N >= 4
      BY <1>1, <1>2, SameBlocks, BlocksAre, PinsType, TypesGive
    <3>2. blk[b] = N + 1
      BY <1>4, <3>1 DEF WalkAt
    <3>3. tr[b] = After(chal[b][N])
      BY <1>4, <3>1, <3>2 DEF WalkAt, WalkEnd
    <3>4. link[b].digest = 0 /\ link[b].blind = 0 /\ start[b] = BeginT(q)
      BY <1>4 DEF LinkAt, Unlinked
    <3> QED
      BY <2>1, <3>2, <3>3, <3>4 DEF LinkAt, Unlinked, Blinded
  <2>2. CASE p = "InvalidShape"
    BY <1>4, <2>2, LinkAtStops, PlaceNames
  <2> QED
    BY <2>1, <2>2
<1>9. pc'[b] \notin Blinded
  BY <1>1, <1>2, TypesGive DEF Blinded
<1>10. proof' = proof \/ ElementsInv'
  <2>1. SUFFICES ASSUME p = "rings" PROVE ElementsInv'
    BY <1>1
  <2>2. \A x \in Main : Named(proof'[x]) /\ Total(proof'[x])
    <3>1. Named(proof'[b]) /\ Total(proof'[b])
      BY <1>2, <1>3, <1>5, <2>1, MaskedTwice DEF ElementsInv
    <3>2. \A x \in Main \ {b} : Named(proof'[x]) /\ Total(proof'[x])
      BY <1>3, <1>5, <2>1 DEF ElementsInv
    <3> QED
      BY <3>1, <3>2
  <2>3. \A f \in Public : proof'[b][f] = proof[b][f]
    BY <1>5, <2>1, MaskedFields, <1>2, TypesGive DEF ProofOK
  <2>4. \A f \in Field : Len(proof'[b][f]) = FieldLen[f]
    <3>1. \A f \in Private : Len(proof'[b][f]) = FieldLen[f]
      BY <1>5, <2>1, MaskedTwice
    <3> QED
      BY <1>3, <2>3, <3>1, NamesApart DEF ElementsInv
  <2>5. proof'[b]["pcs_body"] = Honest("pcs_body") /\ proof'[b]["veil_body"] = Honest("veil_body")
    BY <1>3, <2>3, NamesApart DEF ElementsInv
  <2> QED
    BY <1>9, <2>2, <2>4, <2>5 DEF ElementsInv
<1> QED
  BY <1>1, <1>2, <1>5, <1>6, <1>7, <1>8, <1>10, SideMoves, PlaceNames DEF Blinded, Bound, q

LEMMA RingsTrace ==
  ASSUME PadInv, TraceInv, NEW b \in Main, Rings(b)
  PROVE  TraceInv'
<1> DEFINE t == Absorb(tr[b], RingItems(proof[b]) \o <<Label("flock-digest-bind")>>)
           q == SideProof(b)
           k == IdOf(t)
<1>1. PICK p \in {"pow", "InvalidShape"} :
         /\ pc[b] = "rings" /\ Answered(t, "good")
         /\ link' = [link EXCEPT ![b].digest = k]
         /\ UNCHANGED <<blk, chal, cursor, start, trial, proof, attest>>
         /\ pc' = [pc EXCEPT ![b] = p]
         /\ p = "pow" => /\ tr' = [tr EXCEPT ![b] = Absorb(Squeezed(t), DirectItems(proof[b]))]
                         /\ Shaped(b, {"direct_blinds"})
         /\ p = "InvalidShape" => tr' = [tr EXCEPT ![b] = Squeezed(t)]
  BY DEF Rings, Says, Goto
<1>2. TranscriptOK(t, oracle)
  <2>1. \A f \in RingClaimFields : proof[b][f] \in Seq(Sayable)
    <3> TAKE f \in RingClaimFields
    <3>1. f \in Private
      BY NamesApart
    <3>2. CASE b = "prover"
      <4>1. proof["prover"][f] = [i \in 1..FieldLen[f] |-> Padded(f, i)]
        BY <1>1, <3>1, <3>2 DEF PadInv, Pads, Unmasked
      <4> QED
        BY <3>1, <3>2, <4>1, MaskedFields, Zenon
    <3>3. CASE b = "verifier"
      BY <1>1, <3>1, <3>3 DEF PadInv, Pads
    <3> QED
      BY <3>2, <3>3, ThreadNames
  <2>2. TranscriptOK(tr[b], oracle) /\ ProofOK(proof[b])
    BY ThreadNames, TypesGive DEF PadInv, Transcripts
  <2> QED
    BY <2>1, <2>2, ItemsTyped, AbsorbOK
<1>3. SideInv(b) /\ b \in Threads
  BY Sides, OtherIs
<1>4. /\ LinkAt(oracle, q, link[b].digest, link[b].blind, chal[b], blk[b], "rings", tr[b], start[b])
  BY <1>1, <1>3 DEF SideInv, LinkInv
<1>5. t = RingPoint(q, chal[b])
  <2>1. tr[b] = After(chal[b][N])
    BY <1>4 DEF LinkAt
  <2>2. RingItems(proof[b]) = RingItems(q)
    BY <1>1, SideItems, PlaceNames
  <2> QED
    BY <2>1, <2>2 DEF RingPoint
<1>6. q' = q
  BY <1>1, SameProof
<1>7. DirectItems(proof[b]) = DirectItems(q)
  BY SideItems
<1> HIDE DEF t
<1>8. /\ Grown(oracle, oracle') /\ IsId(oracle', k, t) /\ k \in Nat \ {0} /\ Squeezed(t) = After(k)
  BY <1>1, <1>2, AnsweredGives DEF PadInv, Class
<1> HIDE DEF q, k
<1>9. link'[b].digest = k /\ link'[b].blind = link[b].blind /\ \A x \in Main \ {b} : link'[x] = link[x]
  <2>1. link \in [Main -> [digest : Nat, blind : Nat]]
    BY DEF PadInv, VarTypes
  <2> QED
    BY <1>1, <2>1
<1>10. tr'[b] = IF p = "pow" THEN PowT(q, k) ELSE After(k)
  BY <1>1, <1>3, <1>7, <1>8, TypesGive DEF PowT
<1>11. \A x \in Threads \ {b} : tr'[x] = tr[x]
  BY <1>1, <1>3, TypesGive
<1>12. LinkAt(oracle', q, k, link'[b].blind, chal[b], blk[b], p, tr'[b], start[b])
  <2>1. link[b].digest = 0 /\ link[b].blind = 0 /\ start[b] = BeginT(q) /\ blk[b] = N + 1
    BY <1>4 DEF LinkAt, Unlinked, Bound
  <2> QED
    BY <1>5, <1>8, <1>9, <1>10, <2>1 DEF LinkAt, Unlinked, Blinded
<1>13. SameOn(q, q', Core)
  BY <1>6 DEF SameOn
<1>14. p = "pow" => Shaped(b, {"direct_blinds"})'
  BY <1>1, SameProof
<1> QED
  BY <1>1, <1>6, <1>8, <1>9, <1>11, <1>12, <1>13, <1>14, SideMoves, PlaceNames DEF Blinded, Bound, q

(* A grind that misses stays where it is; one that hits names its nonce. *)
LEMMA GrindBlindTrace ==
  ASSUME PadInv, TraceInv, NEW c \in Class, GrindBlind(c)
  PROVE  TraceInv'
<1> DEFINE b == "prover"
           q == SideProof(b)
           n == trial[b]
           t == PowPoint(tr[b], n)
           v == V("blind_nonce", n)
<1>1. /\ pc[b] = "pow" /\ Answered(t, c)
      /\ UNCHANGED <<blk, chal, cursor, start, link, attest>>
      /\ \/ UNCHANGED <<pc, tr, proof>>
         \/ /\ c = "good"
            /\ proof' = [proof EXCEPT ![b]["blind_nonce"] = <<v>>]
            /\ tr' = [tr EXCEPT ![b] = Absorb(tr[b], <<PowBytes(v)>>)]
            /\ pc' = [pc EXCEPT ![b] = IF BlindInBounds(v.i) THEN "nonzero" ELSE "GrindingLimitExceeded"]
  BY DEF GrindBlind, Says, Goto, Class
<1>2. n \in Nat /\ TranscriptOK(tr[b], oracle) /\ b \in Main /\ b \in Threads
  BY ThreadNames DEF PadInv, VarTypes, Transcripts
<1>3. TranscriptOK(t, oracle)
  BY <1>2, PowTyped
<1>4. SideInv(b) /\ ElementsInv
  BY <1>2, Sides
<1>5. LinkAt(oracle, q, link[b].digest, link[b].blind, chal[b], blk[b], "pow", tr[b], start[b])
  BY <1>1, <1>4 DEF SideInv, LinkInv
<1>6. Shaped(b, {"direct_blinds"})
  BY <1>1, <1>4 DEF SideInv, LinkInv, Bound
<1>7. v.name = "blind_nonce" /\ v.i = n
  BY DEF V
<1> HIDE DEF t, v
<1>8. /\ Grown(oracle, oracle') /\ IsId(oracle', IdOf(t), t) /\ oracle'[IdOf(t)].class = c
  BY <1>1, <1>3, AnsweredGives DEF PadInv
<1>9. CASE UNCHANGED <<pc, tr, proof>>
  <2>1. q' = q
    BY <1>2, <1>9, SameProof
  <2> HIDE DEF q
  <2>2. LinkAt(oracle', q, link[b].digest, link[b].blind, chal[b], blk[b], "pow", tr[b], start[b])
    BY <1>5, <1>8, LinkAtGrows DEF SameOn, Blinded
  <2>3. pc' = [pc EXCEPT ![b] = "pow"]
    <3>1. pc \in [Threads -> Places]
      BY DEF PadInv, VarTypes
    <3> QED
      BY <1>1, <1>9, <3>1
  <2>4. SameOn(q, q', Core) /\ (Shaped(b, {"direct_blinds"})' <=> Shaped(b, {"direct_blinds"}))
    BY <1>2, <1>9, <2>1, SameProof DEF SameOn
  <2> QED
    BY <1>1, <1>2, <1>6, <1>8, <1>9, <2>1, <2>2, <2>3, <2>4, SideMoves, PlaceNames DEF Blinded, q
<1>10. CASE /\ c = "good"
            /\ proof' = [proof EXCEPT ![b]["blind_nonce"] = <<v>>]
            /\ tr' = [tr EXCEPT ![b] = Absorb(tr[b], <<PowBytes(v)>>)]
            /\ pc' = [pc EXCEPT ![b] = IF BlindInBounds(v.i) THEN "nonzero" ELSE "GrindingLimitExceeded"]
  <2>1. PICK p \in {"nonzero", "GrindingLimitExceeded"} :
           pc' = [pc EXCEPT ![b] = p] /\ (p = "nonzero" => n < MAX_BLIND_GRIND_TRIALS)
    BY <1>7, <1>10 DEF BlindInBounds
  <2>2. /\ proof'[b]["blind_nonce"] = <<v>>
        /\ \A f \in Field \ {"blind_nonce"} : proof'[b][f] = proof[b][f]
        /\ \A x \in Main \ {b} : proof'[x] = proof[x]
        /\ proof'[b] = [proof[b] EXCEPT !["blind_nonce"] = <<v>>]
    <3>1. DOMAIN proof = Main /\ DOMAIN proof[b] = Field /\ "blind_nonce" \in Field
      BY <1>2, TypesGive, NamesApart DEF ProofOK, Public
    <3> QED
      BY <1>2, <1>10, <3>1
  <2>3. /\ q'["blind_nonce"] = <<v>> /\ \A f \in Field \ {"blind_nonce"} : q'[f] = q[f]
    <3>1. /\ \A f \in Private : q'[f] = [i \in 1..FieldLen[f] |-> Padded(f, i)]
          /\ \A f \in Private : q[f] = [i \in 1..FieldLen[f] |-> Padded(f, i)]
          /\ \A f \in Public : q[f] = proof[b][f]
          /\ \A f \in Public : q'[f] = proof'[b][f]
      BY MaskedFields DEF SideProof
    <3>2. "blind_nonce" \in Public /\ Field = Private \cup Public /\ "blind_nonce" \notin Private
      BY NamesApart DEF Public
    <3> HIDE DEF q
    <3>3. \A f \in Private : q'[f] = q[f]
      BY <3>1
    <3>4. \A f \in Public \ {"blind_nonce"} : q'[f] = q[f]
      BY <2>2, <3>1, <3>2
    <3>5. q'["blind_nonce"] = <<v>>
      BY <2>2, <3>1, <3>2
    <3> QED
      BY <3>2, <3>3, <3>4, <3>5
  <2>4. SameOn(q, q', Core)
    <3>1. Core \subseteq Field \ {"blind_nonce"}
      BY CoreIs
    <3> HIDE DEF q
    <3> QED
      BY <2>3, <3>1 DEF SameOn
  <2> HIDE DEF q
  <2>5. tr'[b] = Absorb(tr[b], <<PowBytes(v)>>) /\ \A x \in Threads \ {b} : tr'[x] = tr[x]
    BY <1>2, <1>10, TypesGive
  <2> DEFINE d == link[b].digest
  <2>6. d # 0 /\ link[b].blind = 0 /\ tr[b] = PowT(q, d) /\ PowT(q', d) = PowT(q, d)
    BY <1>5, <2>4, CoreSame DEF LinkAt
  <2>7. BlindNonce(q') = v /\ BlindT(q', d) = tr'[b]
    BY <2>3, <2>5, <2>6 DEF BlindNonce, BlindT
  <2>8. p = "nonzero" => Ground(oracle', q', d)
    <3>1. t = PowPoint(PowT(q', d), BlindNonce(q').i)
      BY <1>7, <2>6, <2>7 DEF t
    <3>2. Hit(oracle', t)
      BY <1>8, <1>10 DEF Hit, IsId
    <3> QED
      BY <1>7, <2>1, <2>7, <3>1, <3>2 DEF Ground
  <2>9. LinkAt(oracle', q', d, link[b].blind, chal[b], blk[b], p, tr'[b], start[b])
    <3>1. /\ start[b] = BeginT(q') /\ blk[b] = N + 1 /\ IsId(oracle', d, RingPoint(q', chal[b]))
      BY <1>5, <1>8, <2>4, <2>6, CoreSame, IdGrows DEF LinkAt, Bound
    <3> HIDE DEF d
    <3> QED
      BY <2>1, <2>6, <2>7, <2>8, <3>1 DEF LinkAt, Unlinked, Blinded
  <2>10. Shaped(b, {"direct_blinds"})'
    <3>1. proof'[b]["direct_blinds"] = proof[b]["direct_blinds"]
      BY <2>2, NamesApart DEF Public
    <3> QED
      BY <1>2, <1>6, <3>1, OtherIs DEF Shaped
  <2>11. ElementsInv'
    <3>1. pc'[b] \notin Blinded
      BY <1>2, <2>1, TypesGive DEF Blinded
    <3>2. Named(proof'[b]) /\ Total(proof'[b])
      <4>1. Named(proof[b]) /\ Total(proof[b])
        BY <1>2, <1>4 DEF ElementsInv
      <4>2. DOMAIN <<v>> = {1} /\ <<v>>[1] = v
        OBVIOUS
      <4>3. "blind_nonce" \in Nonces
        BY DEF Nonces
      <4>4. Named(proof'[b])
        BY <1>7, <2>2, <4>1, <4>2, <4>3 DEF Named
      <4>5. Total(proof'[b])
        BY <2>2, <4>1 DEF Total
      <4> QED
        BY <4>4, <4>5
    <3>3. \A f \in Field : Len(proof'[b][f]) = FieldLen[f]
      <4>1. Len(<<v>>) = 1
        OBVIOUS
      <4> QED
        BY <1>4, <2>2, <4>1, PublicLengths DEF ElementsInv
    <3>4. /\ proof'[b]["pcs_body"] = Honest("pcs_body") /\ proof'[b]["veil_body"] = Honest("veil_body")
      BY <1>4, <2>2, NamesApart DEF ElementsInv, Public
    <3>5. \A x \in Main : Named(proof'[x]) /\ Total(proof'[x])
      BY <1>4, <2>2, <3>2 DEF ElementsInv
    <3> QED
      BY <3>1, <3>3, <3>4, <3>5 DEF ElementsInv
  <2> QED
    BY <1>1, <1>2, <1>8, <2>1, <2>2, <2>4, <2>5, <2>9, <2>10, <2>11, SideMoves, ThreadNames, PlaceNames DEF Blinded, q, d
<1> QED
  BY <1>1, <1>9, <1>10

LEMMA VerifyBlindTrace ==
  ASSUME PadInv, TraceInv, NEW c \in Class, VerifyBlind(c)
  PROVE  TraceInv'
<1> DEFINE b == "verifier"
           q == SideProof(b)
           v == proof["verifier"]["blind_nonce"][1]
           t == PowPoint(tr[b], v.i)
<1>1. PICK p \in {"nonzero", "InvalidParameters"} :
         /\ pc[b] = "pow"
         /\ UNCHANGED <<blk, chal, cursor, start, link, trial, proof, attest>>
         /\ pc' = [pc EXCEPT ![b] = p]
         /\ \/ /\ Answered(t, c)
               /\ tr' = [tr EXCEPT ![b] = Absorb(tr[b], <<PowBytes(v)>>)]
               /\ p = "nonzero" => c = "good" /\ v.i < MAX_BLIND_GRIND_TRIALS
            \/ p = "InvalidParameters" /\ UNCHANGED <<oracle, tr>>
  BY DEF VerifyBlind, Says, Goto
<1>2. b \in Main /\ b \in Threads
  BY ThreadNames
<1>3. v.i \in Nat
  <2>1. proof["verifier"]["blind_nonce"] \in Seq(Sayable) /\ Len(proof["verifier"]["blind_nonce"]) = 1
    BY TypesGive, ThreadNames, NamesApart DEF ProofOK
  <2>2. \A S : \A s \in Seq(S) : Len(s) = 1 => s[1] \in S
    OBVIOUS
  <2>3. v \in Sayable
    <3> HIDE DEF Sayable
    <3> QED
      BY <2>1, <2>2
  <2> QED
    BY <2>3 DEF Sayable, Element
<1>4. TranscriptOK(t, oracle)
  BY <1>3, ThreadNames, PowTyped DEF PadInv, Transcripts
<1>5. SideInv(b) /\ ElementsInv
  BY <1>2, Sides
<1>6. LinkAt(oracle, q, link[b].digest, link[b].blind, chal[b], blk[b], "pow", tr[b], start[b])
  BY <1>1, <1>5 DEF SideInv, LinkInv
<1>7. Shaped(b, {"direct_blinds"})' /\ q' = q /\ SameOn(q, q', Core)
  BY <1>1, <1>2, <1>5, SameProof DEF SideInv, LinkInv, Bound, SameOn
<1>8. BlindNonce(q) = v
  BY DEF BlindNonce, SideProof
<1> HIDE DEF q, v
<1> DEFINE d == link[b].digest
<1>9. d # 0 /\ link[b].blind = 0 /\ tr[b] = PowT(q, d)
  BY <1>6 DEF LinkAt
<1>10. /\ Grown(oracle, oracle') /\ \A x \in Threads \ {b} : tr'[x] = tr[x]
       /\ p = "nonzero" => tr'[b] = BlindT(q, d) /\ Ground(oracle', q, d)
  <2>1. CASE /\ Answered(t, c)
             /\ tr' = [tr EXCEPT ![b] = Absorb(tr[b], <<PowBytes(v)>>)]
             /\ p = "nonzero" => c = "good" /\ v.i < MAX_BLIND_GRIND_TRIALS
    <3>1. /\ Grown(oracle, oracle') /\ IsId(oracle', IdOf(t), t) /\ oracle'[IdOf(t)].class = c
      <4> HIDE DEF t
      <4> QED
        BY <1>4, <2>1, AnsweredGives DEF PadInv
    <3>2. tr'[b] = Absorb(tr[b], <<PowBytes(v)>>) /\ \A x \in Threads \ {b} : tr'[x] = tr[x]
      BY <1>2, <2>1, TypesGive
    <3>3. tr'[b] = BlindT(q, d)
      BY <1>8, <1>9, <3>2 DEF BlindT
    <3>4. p = "nonzero" => Ground(oracle', q, d)
      <4>1. t = PowPoint(PowT(q, d), BlindNonce(q).i)
        BY <1>8, <1>9
      <4>2. p = "nonzero" => Hit(oracle', t)
        BY <2>1, <3>1 DEF Hit, IsId
      <4> HIDE DEF d, t
      <4> QED
        BY <1>8, <2>1, <4>1, <4>2 DEF Ground
    <3> QED
      BY <3>1, <3>2, <3>3, <3>4
  <2>2. CASE p = "InvalidParameters" /\ UNCHANGED <<oracle, tr>>
    BY <2>2 DEF Grown
  <2> QED
    BY <1>1, <2>1, <2>2
<1>11. LinkAt(oracle', q, d, link[b].blind, chal[b], blk[b], p, tr'[b], start[b])
  <2>1. /\ start[b] = BeginT(q) /\ blk[b] = N + 1 /\ IsId(oracle', d, RingPoint(q, chal[b]))
    BY <1>6, <1>9, <1>10, IdGrows DEF LinkAt, Bound
  <2> HIDE DEF d
  <2> QED
    BY <1>1, <1>9, <1>10, <2>1 DEF LinkAt, Unlinked, Blinded
<1> QED
  BY <1>1, <1>2, <1>7, <1>10, <1>11, SideMoves, PlaceNames DEF Blinded, q, d

LEMMA SampleNonzeroTrace ==
  ASSUME PadInv, TraceInv, NEW b \in Main, NEW c \in Class, SampleNonzero(b, c)
  PROVE  TraceInv'
<1> DEFINE q == SideProof(b)
           k == IdOf(tr[b])
           d == link[b].digest
<1>1. PICK p \in {"nonzero", "blinded"} :
         /\ pc[b] = "nonzero" /\ Answered(tr[b], c) /\ tr' = [tr EXCEPT ![b] = Squeezed(tr[b])]
         /\ pc' = [pc EXCEPT ![b] = p]
         /\ p = "nonzero" => c = "bad" /\ link' = link
         /\ p = "blinded" => c = "good" /\ link' = [link EXCEPT ![b].blind = k]
         /\ UNCHANGED <<blk, chal, cursor, start, trial, proof, attest>>
  <2>1. pc = [pc EXCEPT ![b] = pc[b]]
    BY DEF PadInv, VarTypes
  <2> QED
    BY <2>1 DEF SampleNonzero, Says, Goto, DrawAgain, Class
<1>2. TranscriptOK(tr[b], oracle) /\ b \in Threads
  BY ThreadNames DEF PadInv, Transcripts
<1>3. /\ Grown(oracle, oracle') /\ IsId(oracle', k, tr[b]) /\ oracle'[k].class = c
      /\ k \in Nat \ {0} /\ Squeezed(tr[b]) = After(k)
  BY <1>1, <1>2, AnsweredGives DEF PadInv
<1>4. SideInv(b)
  BY Sides
<1>5. LinkAt(oracle, q, d, link[b].blind, chal[b], blk[b], "nonzero", tr[b], start[b])
  BY <1>1, <1>4 DEF SideInv, LinkInv
<1>6. Shaped(b, {"direct_blinds"})' /\ q' = q /\ SameOn(q, q', Core)
  BY <1>1, <1>4, SameProof DEF SideInv, LinkInv, Bound, SameOn
<1>7. /\ link'[b].digest = d /\ link'[b].blind = (IF p = "blinded" THEN k ELSE link[b].blind)
      /\ \A x \in Main \ {b} : link'[x] = link[x]
  <2>1. link \in [Main -> [digest : Nat, blind : Nat]]
    BY DEF PadInv, VarTypes
  <2> QED
    BY <1>1, <2>1
<1> HIDE DEF k, d, q
<1>8. d # 0 /\ link[b].blind = 0 /\ Ground(oracle', q, d)
  <2>1. d # 0 /\ link[b].blind = 0 /\ Ground(oracle, q, d)
    BY <1>5 DEF LinkAt
  <2>2. \A s : Hit(oracle, s) => Hit(oracle', s)
    BY <1>3, IdGrows
  <2> QED
    BY <2>1, <2>2 DEF Ground
<1>9. Drawing(oracle', k, BlindT(q, d))
  <2>1. CASE tr[b] = BlindT(q, d)
    BY <1>3, <2>1, DrawingStarts
  <2>2. CASE Redrawn(oracle, tr[b], BlindT(q, d))
    <3>1. Redrawn(oracle', tr[b], BlindT(q, d))
      BY <1>3, <2>2, IdGrows
    <3> DEFINE j == tr[b].at
    <3>2. tr[b] = After(j) /\ Drawing(oracle', j, BlindT(q, d)) /\ oracle'[j].class = "bad"
      BY <3>1 DEF Redrawn
    <3>3. IsId(oracle', k, After(j))
      BY <1>3, <3>2
    <3> HIDE DEF j
    <3> QED
      BY <3>2, <3>3, DrawingGoesOn
  <2> QED
    BY <1>5, <2>1, <2>2 DEF LinkAt
<1>10. tr'[b] = After(k) /\ \A x \in Threads \ {b} : tr'[x] = tr[x]
  BY <1>1, <1>2, <1>3, TypesGive
<1>11. LinkAt(oracle', q, d, link'[b].blind, chal[b], blk[b], p, tr'[b], start[b])
  <2>1. /\ start[b] = BeginT(q) /\ blk[b] = N + 1 /\ IsId(oracle', d, RingPoint(q, chal[b]))
    BY <1>3, <1>5, <1>8, IdGrows DEF LinkAt, Bound
  <2>2. CASE p = "nonzero"
    <3>1. Redrawn(oracle', After(k), BlindT(q, d))
      <4>1. After(k).at = k
        BY DEF After
      <4> QED
        BY <1>1, <1>3, <1>9, <2>2, <4>1 DEF Redrawn
    <3> QED
      BY <1>7, <1>8, <1>10, <2>1, <2>2, <3>1 DEF LinkAt, Unlinked, Blinded
  <2>3. CASE p = "blinded"
    <3>1. Drawn(oracle', k, BlindT(q, d))
      BY <1>1, <1>3, <1>9, <2>3 DEF Drawn
    <3>2. link'[b].blind = k /\ k # 0
      BY <1>3, <1>7, <2>3
    <3> QED
      BY <1>8, <1>10, <2>1, <2>3, <3>1, <3>2 DEF LinkAt, Unlinked, Blinded
  <2> QED
    BY <2>2, <2>3
<1> QED
  BY <1>1, <1>3, <1>6, <1>7, <1>10, <1>11, SideMoves, PlaceNames DEF Blinded, q

-----------------------------------------------------------------------------
(* The blinded slices, and the second walk from circuit_start.                    *)
LEMMA SlicesAre ==
  ASSUME NEW f \in {"q1", "q2"}
  PROVE  Len(QSlice(f)) = RingWidth /\ \A i \in DOMAIN QSlice(f) : QSlice(f)[i].name = f /\ QSlice(f)[i].i = i
<1> DEFINE e(i) == [V(f, i) EXCEPT !.at = link["prover"]["blind"]]
<1>1. QSlice(f) = [i \in 1..RingWidth |-> e(i)]
  BY DEF QSlice
<1>2. \A i : e(i).name = f /\ e(i).i = i
  BY DEF V
<1> HIDE DEF e
<1> QED
  BY <1>1, <1>2, Bounds

LEMMA StartCircuitTrace ==
  ASSUME PadInv, TraceInv, NEW b \in Main, StartCircuit(b)
  PROVE  TraceInv'
<1> DEFINE r == IF b = "prover" THEN [proof[b] EXCEPT !.q1 = QSlice("q1"), !.q2 = QSlice("q2")]
                ELSE proof[b]
           w == Second[b]
           q == SideProof(b)
           k == link[b].blind
           d == link[b].digest
<1>1. /\ pc[b] = "blinded" /\ proof' = [proof EXCEPT ![b] = r]
      /\ tr' = [tr EXCEPT ![b] = Absorb(tr[b], BlindedItems(r)), ![w] = start[b]]
      /\ pc' = [pc EXCEPT ![b] = "circuit", ![w] = "walk"]
      /\ UNCHANGED <<oracle, blk, chal, cursor, start, link, trial, attest>>
  BY DEF StartCircuit
<1>2. /\ b \in Threads /\ w \in Threads /\ b # w /\ w \in Walkers /\ b \in Walkers /\ Owner[w] = b /\ Owner[b] = b
      /\ w # "prover"
      /\ Other(b) \in Threads \ {b, w} /\ Second[Other(b)] \in Threads \ {b, w} /\ Other(b) \in Main \ {b}
  BY OtherIs, ThreadNames
<1>3. SideInv(b) /\ SideInv(Other(b)) /\ AttestInv /\ ElementsInv
  BY Sides, OtherIs
<1>4. /\ pc'[b] = "circuit" /\ pc'[w] = "walk" /\ \A x \in Threads \ {b, w} : pc'[x] = pc[x] /\ tr'[x] = tr[x]
      /\ tr'[b] = Absorb(tr[b], BlindedItems(r)) /\ tr'[w] = start[b]
      /\ proof'[b] = r /\ \A x \in Main \ {b} : proof'[x] = proof[x]
  BY <1>1, <1>2, TypesGive
<1>5. Grown(oracle, oracle')
  BY <1>1 DEF Grown
<1>6. StillSide(Other(b))
  BY <1>1, <1>2, <1>4 DEF StillSide, StillWalker
<1>7. SideInv(Other(b))'
  BY <1>2, <1>3, <1>5, <1>6, StillSideKeeps
<1>8. OpeningInv' /\ AttestInv'
  <2>1. Quiet(b)
    BY <1>1, <1>4, <1>6, PlaceNames DEF Quiet
  <2> QED
    BY <1>3, <1>5, <2>1, QuietKeeps
<1>9. /\ \A f \in Field \ {"q1", "q2"} : r[f] = proof[b][f]
      /\ b = "prover" => r["q1"] = QSlice("q1") /\ r["q2"] = QSlice("q2")
      /\ b = "verifier" => r = proof[b]
      /\ b = "prover" => r = [f \in Field |-> IF f \in {"q1", "q2"} THEN QSlice(f) ELSE proof[b][f]]
  <2>1. DOMAIN proof[b] = Field /\ "q1" \in Field /\ "q2" \in Field
    BY TypesGive, NamesApart DEF ProofOK, Public
  <2> QED
    BY <2>1, ThreadNames
<1> HIDE DEF r, w
<1>10. /\ \A f \in Field \ {"q1", "q2"} : q'[f] = q[f]
       /\ q'["q1"] = r["q1"] /\ q'["q2"] = r["q2"]
  <2>1. CASE b = "verifier"
    BY <1>4, <1>9, <2>1 DEF SideProof
  <2>2. CASE b = "prover"
    <3>1. /\ \A f \in Private : q'[f] = [i \in 1..FieldLen[f] |-> Padded(f, i)]
          /\ \A f \in Private : q[f] = [i \in 1..FieldLen[f] |-> Padded(f, i)]
          /\ \A f \in Public : q[f] = proof[b][f]
          /\ \A f \in Public : q'[f] = r[f]
      BY <1>4, <2>2, MaskedFields DEF SideProof
    <3> HIDE DEF q
    <3>2. "q1" \in Public /\ "q2" \in Public /\ Field = Private \cup Public
      BY NamesApart DEF Public
    <3>3. \A f \in Private : q'[f] = q[f]
      BY <3>1
    <3>4. \A f \in Public \ {"q1", "q2"} : q'[f] = q[f]
      BY <1>9, <3>1, <3>2
    <3> QED
      BY <3>1, <3>2, <3>3, <3>4
  <2> QED
    BY <2>1, <2>2, ThreadNames
<1> HIDE DEF q
<1>11. SameOn(q, q', Core) /\ q'["blind_nonce"] = q["blind_nonce"]
  <2>1. Core \subseteq Field \ {"q1", "q2"}
    BY CoreIs
  <2>2. "blind_nonce" \in Field \ {"q1", "q2"}
    BY NamesApart DEF Public
  <2> QED
    BY <1>10, <2>1, <2>2 DEF SameOn
<1>12. BlindedItems(r) = BlindedItems(q')
  BY <1>10 DEF BlindedItems
<1>13. /\ LinkAt(oracle, q, d, k, chal[b], blk[b], "blinded", tr[b], start[b])
       /\ WalkAt(oracle, q, chal[b], blk[b], "blinded", tr[b])
       /\ WalkAt(oracle, q, chal[w], 1, "idle", tr[w])
       /\ pc[w] = "idle" /\ blk[w] = 1
  <2>1. LinkAt(oracle, q, d, k, chal[b], blk[b], "blinded", tr[b], start[b])
    BY <1>1, <1>3 DEF SideInv, LinkInv, q
  <2>2. WalkAt(oracle, q, chal[b], blk[b], "blinded", tr[b])
    BY <1>1, <1>2, <1>3 DEF SideInv, WalkInv, q
  <2>3. pc[w] = "idle"
    BY <1>1, <1>3, PlaceNames DEF SideInv, SecondInv, Blinded, w
  <2>4. blk[w] = 1
    BY <2>3 DEF PadInv, Control, w
  <2>5. WalkAt(oracle, q, chal[w], 1, "idle", tr[w])
    BY <1>2, <1>3, <2>3, <2>4 DEF SideInv, WalkInv, q, w
  <2> QED
    BY <2>1, <2>2, <2>3, <2>4, <2>5
<1>14. tr[b] = After(k) /\ k # 0 /\ start[b] = BeginT(q)
  BY <1>13 DEF LinkAt
<1>15. tr'[b] = BlindedT(q', k)
  BY <1>4, <1>12, <1>14 DEF BlindedT
<1>16. WalkInv(b)'
  <2>1. WalkAt(oracle, q', chal[b], blk[b], "blinded", tr[b])
    BY <1>2, <1>11, <1>13, WalkAtGrows, TypesGive DEF Grown
  <2>2. WalkAt(oracle, q', chal[b], blk[b], "circuit", tr'[b])
    BY <2>1, WalkAtStops
  <2>3. b # "prover" /\ blk[b] > 1 => Shaped(b, PiopFields)
    BY <1>3 DEF SideInv, WalkInv
  <2>4. b # "prover" => (Shaped(b, PiopFields)' <=> Shaped(b, PiopFields))
    BY <1>4, <1>9, ThreadNames, SameProof
  <2> QED
    BY <1>1, <1>2, <1>4, <2>2, <2>3, <2>4 DEF WalkInv, q
<1>17. WalkInv(w)'
  <2>1. WalkAt(oracle, q', chal[w], 1, "idle", tr[w])
    BY <1>2, <1>11, <1>13, WalkAtGrows, TypesGive DEF Grown
  <2>2. WalkAt(oracle, q', chal[w], 1, "walk", BeginT(q'))
    BY <2>1, WalkAtStarts
  <2>3. tr'[w] = BeginT(q')
    BY <1>4, <1>11, <1>14, CoreSame
  <2>4. Owner'[w] = b
    BY <1>2
  <2> QED
    BY <1>1, <1>2, <1>4, <1>13, <2>2, <2>3 DEF WalkInv, q
<1>18. LinkInv(b)'
  <2>1. LinkAt(oracle, q', d, k, chal[b], blk[b], "blinded", tr[b], start[b])
    BY <1>11, <1>13, LinkAtGrows DEF Grown, Blinded
  <2>2. LinkAt(oracle, q', d, k, chal[b], blk[b], "circuit", tr'[b], start[b])
    BY <1>14, <1>15, <2>1 DEF LinkAt, Unlinked, Bound, Blinded
  <2>3. Shaped(b, {"direct_blinds"})'
    <3>1. proof'[b]["direct_blinds"] = proof[b]["direct_blinds"]
      BY <1>4, <1>9, NamesApart DEF Public
    <3>2. Shaped(b, {"direct_blinds"})
      BY <1>1, <1>3 DEF SideInv, LinkInv, Bound
    <3> QED
      BY <1>2, <3>1, <3>2 DEF Shaped
  <2> QED
    BY <1>1, <1>4, <2>2, <2>3 DEF LinkInv, q, d, k
<1>19. SecondInv(b)'
  BY <1>4 DEF SecondInv, Blinded, w
<1>20. SideInv(b)'
  BY <1>16, <1>17, <1>18, <1>19 DEF SideInv, w
<1>21. ElementsInv'
  <2>1. CASE b = "verifier"
    <3>1. \A x \in Main : proof'[x] = proof[x]
      BY <1>4, <1>9, <2>1
    <3>2. pc'["prover"] = pc["prover"]
      BY <1>4, <2>1, ThreadNames DEF w
    <3> QED
      BY <1>1, <1>3, <3>1, <3>2, ThreadNames DEF ElementsInv, QSlice
  <2>2. CASE b = "prover"
    <3>1. \A f \in {"q1", "q2"} : /\ r[f] = QSlice(f) /\ Len(r[f]) = RingWidth
                                  /\ \A i \in DOMAIN r[f] : r[f][i].name = f /\ r[f][i].i = i
      BY <1>9, <2>2, SlicesAre
    <3>2. Named(r)
      <4>1. Named(proof[b])
        BY <1>3 DEF ElementsInv
      <4> QED
        BY <1>9, <3>1, <4>1 DEF Named
    <3>3. Total(r)
      BY <1>9, <2>2 DEF Total
    <3>4. \A f \in Field : Len(r[f]) = FieldLen[f]
      BY <1>3, <1>9, <2>2, <3>1, PublicLengths DEF ElementsInv
    <3>5. r["pcs_body"] = Honest("pcs_body") /\ r["veil_body"] = Honest("veil_body")
      <4>1. {"pcs_body", "veil_body"} \subseteq Field \ {"q1", "q2"}
        BY NamesApart DEF Public
      <4> QED
        BY <1>3, <1>9, <2>2, <4>1 DEF ElementsInv
    <3>6. \A x \in Main : Named(proof'[x]) /\ Total(proof'[x])
      BY <1>3, <1>4, <3>2, <3>3 DEF ElementsInv
    <3>7. QSlice("q1")' = r["q1"] /\ QSlice("q2")' = r["q2"]
      BY <1>1, <1>9, <2>2 DEF QSlice
    <3> QED
      BY <1>4, <2>2, <3>4, <3>5, <3>6, <3>7 DEF ElementsInv
  <2> QED
    BY <2>1, <2>2, ThreadNames
<1> QED
  BY <1>7, <1>8, <1>20, <1>21, BothSides

-----------------------------------------------------------------------------
(* The fork.                                                                      *)
LEMMA FoldsStart ==
  ASSUME NEW o, NEW q, NEW k
  PROVE  OpeningAt(o, q, k, 0, 0, ForkT(q, k, "veil-flock-pcs-fork"))
<1> DEFINE d == [j \in 1..0 |-> CHOOSE x \in DOMAIN o : TRUE]
<1>1. 1..0 = {}
  OBVIOUS
<1>2. d \in [1..0 -> DOMAIN o]
  BY <1>1
<1> HIDE DEF d
<1>3. FoldChain(o, q, k, d, 0) /\ FoldHits(o, q, d, 0)
  BY <1>1 DEF FoldChain, FoldHits
<1> QED
  BY <1>2, <1>3 DEF OpeningAt

LEMMA ForkTrace ==
  ASSUME PadInv, TraceInv, NEW b \in Main, Fork(b)
  PROVE  TraceInv'
<1> DEFINE w == Second[b]
           q == SideProof(b)
           k == link[b].blind
           f1 == Absorb(tr[b], <<Label("veil-flock-pcs-fork")>>)
           f2 == Absorb(tr[b], <<Label("veil-flock-inner-fork")>>)
<1>1. /\ pc[b] = "circuit"
      /\ UNCHANGED <<oracle, chal, cursor, start, link, trial, proof, attest>>
      /\ \/ /\ UNCHANGED <<tr, blk>>
            /\ \E p \in Errors : pc' = [pc EXCEPT ![b] = p]
         \/ /\ tr' = [tr EXCEPT !["pcs"] = f1, !["veil"] = f2]
            /\ blk' = [blk EXCEPT !["pcs"] = 1]
            /\ pc' = [pc EXCEPT ![b] = "join", !["pcs"] = "draw",
                                !["veil"] = IF b = "prover" THEN "open" ELSE "idle"]
            /\ CircuitIsFine(b)
  BY PlaceNames DEF Fork, Goto
<1>2. /\ b \in Threads /\ w \in Threads /\ b # w /\ w \in Walkers /\ b \in Walkers /\ Owner[w] = b /\ Owner[b] = b
      /\ Other(b) \in Threads \ {b, w} /\ Second[Other(b)] \in Threads \ {b, w} /\ Other(b) \in Main \ {b}
      /\ Walkers \cap {"pcs", "veil"} = {} /\ Walkers \subseteq Threads /\ Second[Other(b)] \in Walkers
      /\ Other(b) \in Walkers
  BY OtherIs, ThreadNames
<1>3. SideInv(b) /\ SideInv(Other(b)) /\ AttestInv /\ ElementsInv
  BY Sides, OtherIs
<1>4. /\ LinkAt(oracle, q, link[b].digest, k, chal[b], blk[b], "circuit", tr[b], start[b])
      /\ WalkAt(oracle, q, chal[b], blk[b], "circuit", tr[b])
  BY <1>1, <1>2, <1>3 DEF SideInv, LinkInv, WalkInv
<1>5. /\ SideProof(b)' = q /\ Grown(oracle, oracle')
      /\ \A f : Shaped(b, f)' <=> Shaped(b, f)
      /\ \A f : Shaped(w, f)' <=> Shaped(w, f)
  BY <1>1, SameProof DEF Grown
<1>6. PICK p \in {"join"} \cup Errors :
         /\ pc'[b] = p /\ \A x \in Walkers \ {b} : pc'[x] = pc[x]
         /\ \A x \in Walkers : tr'[x] = tr[x] /\ blk'[x] = blk[x]
         /\ p = "join" => /\ pc'["pcs"] = "draw" /\ pc'["veil"] = (IF b = "prover" THEN "open" ELSE "idle")
                          /\ tr'["pcs"] = f1 /\ tr'["veil"] = f2 /\ blk'["pcs"] = 1
                          /\ CircuitIsFine(b)
         /\ p # "join" => pc' = [pc EXCEPT ![b] = p] /\ tr' = tr /\ blk' = blk
  <2>1. DOMAIN pc = Threads /\ DOMAIN tr = Threads /\ DOMAIN blk = Threads /\ "join" \notin Errors
    BY TypesGive, PlaceNames
  <2>2. CASE /\ UNCHANGED <<tr, blk>>
             /\ \E p \in Errors : pc' = [pc EXCEPT ![b] = p]
    BY <1>2, <2>1, <2>2
  <2>3. CASE /\ tr' = [tr EXCEPT !["pcs"] = f1, !["veil"] = f2]
             /\ blk' = [blk EXCEPT !["pcs"] = 1]
             /\ pc' = [pc EXCEPT ![b] = "join", !["pcs"] = "draw",
                                !["veil"] = IF b = "prover" THEN "open" ELSE "idle"]
             /\ CircuitIsFine(b)
    <3>1. "pcs" \in Threads /\ "veil" \in Threads /\ b # "pcs" /\ b # "veil"
      BY ThreadNames
    <3> HIDE DEF f1, f2
    <3>2. /\ pc'[b] = "join" /\ pc'["pcs"] = "draw" /\ pc'["veil"] = (IF b = "prover" THEN "open" ELSE "idle")
          /\ \A x \in Walkers \ {b} : pc'[x] = pc[x]
      BY <1>2, <2>1, <2>3, <3>1
    <3>3. tr'["pcs"] = f1 /\ tr'["veil"] = f2 /\ \A x \in Walkers : tr'[x] = tr[x]
      BY <1>2, <2>1, <2>3, <3>1
    <3>4. blk'["pcs"] = 1 /\ \A x \in Walkers : blk'[x] = blk[x]
      BY <1>2, <2>1, <2>3, <3>1
    <3> QED
      BY <2>1, <2>3, <3>2, <3>3, <3>4
  <2> QED
    BY <1>1, <2>2, <2>3
<1>7. f1 = ForkT(q, k, "veil-flock-pcs-fork") /\ f2 = ForkT(q, k, "veil-flock-inner-fork")
  <2>1. tr[b] = BlindedT(q, k)
    BY <1>4 DEF LinkAt, Blinded
  <2> QED
    BY <2>1 DEF ForkT
<1> HIDE DEF f1, f2, q, w
<1>8. \A x \in Walkers \ {b} : StillWalker(x)
  BY <1>1, <1>6 DEF StillWalker
<1>9. StillSide(Other(b)) /\ StillWalker(w)
  <2>1. Second[Other(b)] \in Walkers \ {b} /\ Other(b) \in Walkers \ {b} /\ w \in Walkers \ {b}
    BY <1>2
  <2> QED
    BY <1>1, <1>8, <2>1 DEF StillSide
<1>10. SideInv(Other(b))'
  BY <1>2, <1>3, <1>5, <1>9, StillSideKeeps
<1>11. WalkInv(b)' /\ WalkInv(w)'
  <2>1. WalkAt(oracle, q, chal[b], blk[b], p, tr[b])
    <3>1. p \notin {"walk", "redraw"}
      BY PlaceNames
    <3> QED
      BY <1>4, <3>1, WalkAtStops
  <2>2. b # "prover" /\ blk[b] > 1 => Shaped(b, PiopFields)
    BY <1>3 DEF SideInv, WalkInv
  <2>3. WalkInv(b)'
    BY <1>1, <1>2, <1>5, <1>6, <2>1, <2>2 DEF WalkInv
  <2>4. SameOn(SideProof(Owner[w]), SideProof(Owner[w])', Core)
    BY <1>2, <1>5 DEF SameOn, q
  <2>5. WalkInv(w)'
    BY <1>2, <1>3, <1>5, <1>9, <2>4, StillWalkerKeeps DEF SideInv, w
  <2> QED
    BY <2>3, <2>5
<1>12. LinkInv(b)'
  <2>1. LinkAt(oracle, q, link[b].digest, k, chal[b], blk[b], p, tr[b], start[b])
    <3>1. CASE p = "join"
      BY <1>4, <3>1 DEF LinkAt, Unlinked, Bound, Blinded
    <3>2. CASE p \in Errors
      BY <1>4, <3>2, LinkAtStops
    <3> QED
      BY <3>1, <3>2
  <2>2. Shaped(b, {"direct_blinds"})
    BY <1>1, <1>3 DEF SideInv, LinkInv, Bound
  <2> QED
    BY <1>1, <1>2, <1>5, <1>6, <2>1, <2>2 DEF LinkInv, k
<1>13. SecondInv(b)'
  <2>1. p = "join" => chal[w] = chal[b] /\ Shaped(b, RingFields)
    BY <1>6 DEF CircuitIsFine, w
  <2>2. p # "join" => p \notin {"join", "shipped", "accept", "circuit"}
    BY PlaceNames
  <2> QED
    BY <1>1, <1>5, <1>6, <2>1, <2>2 DEF SecondInv, Blinded, w
<1>14. SideInv(b)'
  BY <1>11, <1>12, <1>13 DEF SideInv, w
<1>15. ElementsInv'
  <2>1. pc'["prover"] \in Blinded => pc["prover"] \in Blinded
    <3>1. "prover" \in Walkers
      BY ThreadNames
    <3> QED
      BY <1>1, <1>6, <3>1 DEF Blinded
  <2> QED
    BY <1>1, <1>3, <2>1, ElementsKept
<1>16. CASE p # "join"
  <2>1. OpeningInv' /\ AttestInv'
    <3>1. p \notin {"join", "shipped", "accept"}
      BY <1>16, PlaceNames
    <3>2. Quiet(b)
      BY <1>1, <1>6, <1>9, <3>1, PlaceNames DEF Quiet
    <3> QED
      BY <1>3, <1>5, <3>2, QuietKeeps
  <2> QED
    BY <1>10, <1>14, <1>15, <2>1, BothSides
<1>17. CASE p = "join"
  <2>1. Side' = b
    <3>1. b = "verifier" => pc["prover"] = "shipped" /\ pc'["prover"] = "shipped"
      BY <1>1, <1>6, ThreadNames DEF PadInv, Pads
    <3>2. b = "prover" => pc'["prover"] = "join"
      BY <1>6, <1>17
    <3> QED
      BY <3>1, <3>2, ThreadNames DEF Side
  <2>2. OpeningInv'
    <3>1. OpeningAt(oracle, q, k, 0, 0, f1)
      BY <1>7, FoldsStart
    <3>2. 1 - 1 = 0 /\ 1 <= FoldSites + 1
      BY Bounds
    <3>3. SideProof(Side)' = q /\ link'[Side'] = link[b]
      BY <1>1, <1>5, <2>1, ThreadNames DEF SideProof
    <3> QED
      BY <1>1, <1>6, <1>7, <1>17, <2>1, <3>1, <3>2, <3>3 DEF OpeningInv, k
  <2>3. AttestInv'
    <3>1. CASE b = "prover"
      <4>1. attest["pcs"] = <<>> /\ attest["veil"] = <<>>
        BY <1>1, <1>3, <3>1 DEF AttestInv
      <4>2. pc'["verifier"] = "idle"
        <5>1. pc["verifier"] = "idle"
          BY <1>1, <3>1 DEF PadInv, Pads
        <5>2. "verifier" \in Walkers \ {b}
          BY <3>1, ThreadNames
        <5> QED
          BY <1>6, <5>1, <5>2
      <4> QED
        BY <1>1, <1>6, <1>17, <3>1, <4>1, <4>2 DEF AttestInv
    <3>2. CASE b = "verifier"
      <4>1. pc["prover"] = "shipped" /\ pc'["prover"] = "shipped"
        BY <1>1, <1>6, <3>2, ThreadNames DEF PadInv, Pads
      <4>2. SideProof("prover")' = SideProof("prover")
        BY <1>1, <3>2, ThreadNames, SameProof
      <4>3. Opened("prover", attest["pcs"])'
        BY <1>1, <1>3, <1>5, <3>2, <4>1, OpenedGrows, ThreadNames DEF AttestInv
      <4>4. Proved("prover", attest["veil"])'
        <5>1. Proved("prover", attest["veil"])
          BY <1>3, <4>1 DEF AttestInv
        <5>2. SameOn(SideProof("prover"), SideProof("prover")', {"q1", "q2", "veil_root"})
          BY <4>2 DEF SameOn
        <5> QED
          BY <1>1, <1>5, <5>1, <5>2, ProvedGrows, ThreadNames
      <4> QED
        BY <1>1, <1>3, <1>6, <1>17, <3>2, <4>1, <4>3, <4>4 DEF AttestInv
    <3> QED
      BY <3>1, <3>2, ThreadNames
  <2> QED
    BY <1>10, <1>14, <1>15, <2>2, <2>3, BothSides
<1> QED
  BY <1>16, <1>17

-----------------------------------------------------------------------------
(* The branches after the fork leave both sides' walks alone.                     *)
LEMMA FoldFrame ==
  ASSUME NEW b \in Main, \A f \in Field \ {"fold_nonces"} : proof'[b][f] = proof[b][f]
  PROVE  /\ \A f \in Field \ {"fold_nonces"} : SideProof(b)'[f] = SideProof(b)[f]
         /\ SameOn(SideProof(b), SideProof(b)', Core)
         /\ SideProof(b)'["fold_nonces"] = proof'[b]["fold_nonces"]
         /\ SideProof(b)["fold_nonces"] = proof[b]["fold_nonces"]
         /\ SideProof(b)'["q1"] = SideProof(b)["q1"] /\ SideProof(b)'["q2"] = SideProof(b)["q2"]
         /\ SideProof(b)'["veil_root"] = SideProof(b)["veil_root"]
         /\ SideProof(b)'["blind_nonce"] = SideProof(b)["blind_nonce"]
<1> DEFINE q == SideProof(b)
<1>1. /\ "fold_nonces" \in Public /\ Field = Private \cup Public /\ "fold_nonces" \notin Private
      /\ {"q1", "q2", "veil_root", "blind_nonce"} \subseteq Field \ {"fold_nonces"}
      /\ Core \subseteq Field \ {"fold_nonces"}
  BY NamesApart, CoreIs DEF Public
<1>2. CASE b = "verifier"
  <2>1. q = proof[b] /\ q' = proof'[b]
    BY <1>2 DEF SideProof
  <2> HIDE DEF q
  <2>2. \A f \in Field \ {"fold_nonces"} : q'[f] = q[f]
    BY <2>1
  <2> QED
    BY <1>1, <2>1, <2>2 DEF SameOn, q
<1>3. CASE b = "prover"
  <2>1. /\ \A f \in Private : q'[f] = [i \in 1..FieldLen[f] |-> Padded(f, i)]
        /\ \A f \in Private : q[f] = [i \in 1..FieldLen[f] |-> Padded(f, i)]
        /\ \A f \in Public : q[f] = proof[b][f]
        /\ \A f \in Public : q'[f] = proof'[b][f]
    BY <1>3, MaskedFields DEF SideProof
  <2> HIDE DEF q
  <2>2. \A f \in Private : q'[f] = q[f]
    BY <2>1
  <2>3. \A f \in Public \ {"fold_nonces"} : q'[f] = q[f]
    BY <1>1, <2>1
  <2>4. \A f \in Field \ {"fold_nonces"} : q'[f] = q[f]
    BY <1>1, <2>2, <2>3
  <2> QED
    BY <1>1, <2>1, <2>4 DEF SameOn, q
<1> QED
  BY <1>2, <1>3, ThreadNames

LEMMA SideEnds ==
  ASSUME PadInv, Grown(oracle, oracle'), NEW b \in Main, SideInv(b), NEW p, pc'[b] = p,
         p = pc[b] \/ (pc[b] = "join" /\ p \in Errors \cup {"shipped", "accept"}),
         pc'[Second[b]] = pc[Second[b]],
         \A x \in {b, Second[b]} : tr'[x] = tr[x] /\ blk'[x] = blk[x],
         UNCHANGED <<chal, start, link>>,
         \A f \in Field \ {"fold_nonces"} : proof'[b][f] = proof[b][f]
  PROVE  SideInv(b)'
<1> DEFINE q == SideProof(b)
<1>1. SameOn(q, q', Core) /\ q'["q1"] = q["q1"] /\ q'["q2"] = q["q2"] /\ q'["blind_nonce"] = q["blind_nonce"]
  BY FoldFrame
<1>2. /\ Shaped(b, PiopFields)' <=> Shaped(b, PiopFields)
      /\ Shaped(Second[b], PiopFields)' <=> Shaped(Second[b], PiopFields)
      /\ Shaped(b, RingFields)' <=> Shaped(b, RingFields)
      /\ Shaped(b, {"direct_blinds"})' <=> Shaped(b, {"direct_blinds"})
  <2>1. "fold_nonces" \notin PiopFields \cup RingFields \cup {"direct_blinds"}
        /\ PiopFields \cup RingFields \cup {"direct_blinds"} \subseteq Field
    BY NamesApart DEF PiopFields, RingFields, RingClaimFields, Public
  <2>2. \A f \in PiopFields \cup RingFields \cup {"direct_blinds"} : proof'[b][f] = proof[b][f]
    BY <2>1
  <2> QED
    BY <2>2, OtherIs, SMTT(30) DEF Shaped
<1> HIDE DEF q
<1>3. /\ WalkAt(oracle, q, chal[b], blk[b], pc[b], tr[b]) /\ b \in Walkers /\ Owner[b] = b
      /\ Owner[Second[b]] = b /\ Second[b] \in Walkers
      /\ LinkAt(oracle, q, link[b].digest, link[b].blind, chal[b], blk[b], pc[b], tr[b], start[b])
  BY OtherIs DEF SideInv, WalkInv, LinkInv, q
<1>4. pc[b] = "join" => p \notin {"walk", "redraw", "rings", "pow", "nonzero", "blinded", "circuit"}
                        /\ p \notin Unlinked \cup {"idle", "bind"}
  BY PlaceNames DEF Unlinked
<1>5. WalkInv(b)'
  <2>1. WalkAt(oracle', q', chal[b], blk[b], pc[b], tr[b])
    BY <1>1, <1>3, WalkAtGrows, TypesGive
  <2>2. WalkAt(oracle', q', chal[b], blk[b], p, tr[b])
    <3>1. CASE p = pc[b]
      BY <2>1, <3>1
    <3>2. CASE pc[b] = "join"
      BY <1>4, <2>1, <3>2, WalkAtStops
    <3> QED
      BY <3>1, <3>2
  <2> QED
    BY <1>2, <1>3, <2>2 DEF WalkInv, SideInv, q
<1>6. WalkInv(Second[b])'
  <2>1. SameOn(SideProof(Owner[Second[b]]), SideProof(Owner[Second[b]])', Core)
    BY <1>1, <1>3 DEF q
  <2>2. StillWalker(Second[b])
    BY DEF StillWalker
  <2> QED
    BY <1>2, <1>3, <2>1, <2>2, StillWalkerKeeps DEF SideInv
<1>7. LinkInv(b)'
  <2>1. LinkAt(oracle', q', link[b].digest, link[b].blind, chal[b], blk[b], pc[b], tr[b], start[b])
    BY <1>1, <1>3, LinkAtGrows
  <2>2. LinkAt(oracle', q', link[b].digest, link[b].blind, chal[b], blk[b], p, tr[b], start[b])
    <3>1. CASE p = pc[b]
      BY <2>1, <3>1
    <3>2. CASE pc[b] = "join"
      BY <1>4, <2>1, <3>2 DEF LinkAt, Unlinked, Bound, Blinded
    <3> QED
      BY <3>1, <3>2
  <2>3. p \in Bound \ {"rings"} => pc[b] \in Bound \ {"rings"}
    BY DEF Bound
  <2> QED
    BY <1>2, <2>2, <2>3 DEF LinkInv, SideInv, q
<1>8. SecondInv(b)'
  <2>1. p \in {"join", "shipped", "accept"} => pc[b] \in {"join", "shipped", "accept"}
    OBVIOUS
  <2>2. pc[b] \in Errors \cup Blinded => p \in Errors \cup Blinded
    BY DEF Blinded
  <2>3. p = "circuit" => pc[b] = "circuit"
    BY PlaceNames
  <2> QED
    BY <1>2, <2>1, <2>2, <2>3 DEF SideInv, SecondInv
<1> QED
  BY <1>5, <1>6, <1>7, <1>8 DEF SideInv

LEMMA BranchStep ==
  ASSUME PadInv, TraceInv, Grown(oracle, oracle'), NEW b \in Main, NEW p,
         p = pc[b] \/ (pc[b] = "join" /\ p \in Errors \cup {"shipped", "accept"}), pc'[b] = p,
         \A x \in Walkers \ {b} : pc'[x] = pc[x],
         \A x \in Walkers : tr'[x] = tr[x] /\ blk'[x] = blk[x],
         UNCHANGED <<chal, start, link>>,
         \A x \in Main, f \in Field \ {"fold_nonces"} : proof'[x][f] = proof[x][f],
         OpeningInv', AttestInv', ElementsInv'
  PROVE  TraceInv'
<1>1. SideInv(b) /\ SideInv(Other(b))
  BY Sides, OtherIs
<1>2. /\ Other(b) \in Main \ {b} /\ Other(b) \in Walkers \ {b} /\ Second[Other(b)] \in Walkers \ {b}
      /\ b \in Walkers /\ Second[b] \in Walkers \ {b}
  BY OtherIs
<1>3. SideInv(b)'
  BY <1>1, <1>2, SideEnds
<1>4. SideInv(Other(b))'
  <2>1. \A x \in {Other(b), Second[Other(b)]} : tr'[x] = tr[x] /\ blk'[x] = blk[x] /\ pc'[x] = pc[x]
    BY <1>2
  <2>2. \A f \in Field \ {"fold_nonces"} : proof'[Other(b)][f] = proof[Other(b)][f]
    BY <1>2
  <2> QED
    BY <1>1, <1>2, <2>1, <2>2, SideEnds
<1> QED
  BY <1>3, <1>4, BothSides

LEMMA ClaimsAreSomething ==
  ASSUME NEW b, NEW k
  PROVE  PcsClaim(b, k) # <<>> /\ VeilClaim(b, k) # <<>>
<1>1. DOMAIN <<>> = {}
  OBVIOUS
<1>2. "transcript" \in DOMAIN PcsClaim(b, k) /\ "transcript" \in DOMAIN VeilClaim(b, k)
  BY DEF PcsClaim, VeilClaim
<1> QED
  BY <1>1, <1>2

(* One more draw of the opening. *)
LEMMA OpeningDraws ==
  ASSUME NEW o, NEW r, Grown(o, r), NEW q, NEW k, NEW n \in Nat \ {0}, NEW t,
         OpeningAt(o, q, k, n - 1, n - 1, t), NEW i, IsId(r, i, t)
  PROVE  \E d \in [1..n -> DOMAIN r] :
            FoldChain(r, q, k, d, n) /\ FoldHits(r, q, d, n - 1) /\ d[n] = i
<1>1. PICK e \in [1..(n - 1) -> DOMAIN o] :
        /\ FoldChain(o, q, k, e, n - 1) /\ FoldHits(o, q, e, n - 1)
        /\ t = IF n - 1 = 0 THEN ForkT(q, k, "veil-flock-pcs-fork") ELSE FoldT(q, e, n - 1)
  BY DEF OpeningAt
<1>2. FoldChain(r, q, k, e, n - 1) /\ FoldHits(r, q, e, n - 1)
  <2>1. n - 1 \in Nat
    OBVIOUS
  <2> QED
    BY <1>1, <2>1, FoldsGrow
<1> DEFINE d == [j \in 1..n |-> IF j = n THEN i ELSE e[j]]
<1>3. d \in [1..n -> DOMAIN r]
  <2>1. DOMAIN o \subseteq DOMAIN r
    BY IdGrows
  <2>2. i \in DOMAIN r
    BY DEF IsId
  <2>3. \A j \in 1..n : j # n => j \in 1..(n - 1)
    OBVIOUS
  <2> QED
    BY <1>1, <2>1, <2>2, <2>3
<1>4. /\ d[n] = i /\ \A j \in 1..(n - 1) : d[j] = e[j]
      /\ \A j \in 1..n : j # n => j \in 1..(n - 1)
      /\ \A j \in 1..n : j # 1 => j - 1 \in 1..(n - 1)
  OBVIOUS
<1> HIDE DEF d
<1>5. \A j \in 1..(n - 1) : FoldT(q, d, j) = FoldT(q, e, j)
  BY <1>4 DEF FoldT
<1>6. FoldChain(r, q, k, d, n)
  <2> SUFFICES ASSUME NEW j \in 1..n
               PROVE  IsId(r, d[j], IF j = 1 THEN ForkT(q, k, "veil-flock-pcs-fork") ELSE FoldT(q, d, j - 1))
    BY DEF FoldChain
  <2>1. CASE j = n
    <3>1. n # 1 => FoldT(q, d, n - 1) = FoldT(q, e, n - 1)
      BY <1>4, <1>5
    <3> QED
      BY <1>1, <1>4, <2>1, <3>1
  <2>2. CASE j # n
    <3>1. j \in 1..(n - 1)
      BY <1>4, <2>2
    <3>2. IsId(r, e[j], IF j = 1 THEN ForkT(q, k, "veil-flock-pcs-fork") ELSE FoldT(q, e, j - 1))
      BY <1>2, <3>1 DEF FoldChain
    <3>3. j # 1 => FoldT(q, d, j - 1) = FoldT(q, e, j - 1)
      BY <1>4, <1>5
    <3> QED
      BY <1>4, <3>1, <3>2, <3>3
  <2> QED
    BY <2>1, <2>2
<1>7. FoldHits(r, q, d, n - 1)
  BY <1>2, <1>4 DEF FoldHits
<1> QED
  BY <1>3, <1>4, <1>6, <1>7

(* Its proof of work is paid. *)
LEMMA OpeningPays ==
  ASSUME NEW o, NEW r, Grown(o, r), NEW q, NEW u, NEW k, NEW n \in Nat \ {0}, NEW t,
         OpeningAt(o, q, k, n, n - 1, t),
         u["q1"] = q["q1"], u["q2"] = q["q2"],
         \A j \in 1..(n - 1) : u["fold_nonces"][j] = q["fold_nonces"][j],
         Hit(r, PowPoint(t, u["fold_nonces"][n].i))
  PROVE  OpeningAt(r, u, k, n, n, Absorb(t, <<PowBytes(u["fold_nonces"][n])>>))
<1>1. PICK d \in [1..n -> DOMAIN o] :
        /\ FoldChain(o, q, k, d, n) /\ FoldHits(o, q, d, n - 1)
        /\ t = After(d[n])
  BY DEF OpeningAt
<1>2. /\ FoldChain(r, q, k, d, n) /\ FoldHits(r, q, d, n - 1) /\ d \in [1..n -> DOMAIN r]
  <2>1. n - 1 \in Nat /\ n \in Nat
    OBVIOUS
  <2>2. DOMAIN o \subseteq DOMAIN r
    BY IdGrows
  <2> QED
    BY <1>1, <2>1, <2>2, FoldsGrow
<1>3. \A l : ForkT(u, k, l) = ForkT(q, k, l)
  BY DEF ForkT, BlindedT, BlindedItems
<1>4. \A j \in 1..(n - 1) : FoldT(u, d, j) = FoldT(q, d, j)
  BY DEF FoldT
<1>5. /\ \A j \in 1..n : j # n => j \in 1..(n - 1)
      /\ \A j \in 1..n : j # 1 => j - 1 \in 1..(n - 1)
  OBVIOUS
<1>6. FoldChain(r, u, k, d, n)
  BY <1>2, <1>3, <1>4, <1>5 DEF FoldChain
<1>7. FoldHits(r, u, d, n)
  <2> HIDE DEF Hit
  <2>1. ASSUME NEW j \in 1..n PROVE Hit(r, PowPoint(After(d[j]), u["fold_nonces"][j].i))
    <3>1. CASE j = n
      BY <1>1, <3>1
    <3>2. CASE j # n
      BY <1>2, <1>5, <3>2 DEF FoldHits
    <3> QED
      BY <3>1, <3>2
  <2> QED
    BY <2>1 DEF FoldHits
<1>8. Absorb(t, <<PowBytes(u["fold_nonces"][n])>>) = FoldT(u, d, n)
  BY <1>1 DEF FoldT
<1> QED
  BY <1>2, <1>6, <1>7, <1>8 DEF OpeningAt

-----------------------------------------------------------------------------
(* The branches themselves.                                                       *)
LEMMA VerifierStops ==
  ASSUME PadInv, TraceInv, Grown(oracle, oracle'), pc["prover"] = "shipped", pc["verifier"] = "join",
         NEW p \in {"PcsRejected", "VeilRejected"}, pc' = [pc EXCEPT !["verifier"] = p],
         \A x \in Walkers : tr'[x] = tr[x] /\ blk'[x] = blk[x],
         UNCHANGED <<chal, start, link, proof, attest>>
  PROVE  TraceInv'
<1>1. /\ pc'["verifier"] = p /\ \A x \in Threads \ {"verifier"} : pc'[x] = pc[x]
      /\ p \in Errors /\ p \notin {"join", "accept"} /\ "prover" \in Threads \ {"verifier"}
      /\ Walkers \subseteq Threads /\ "verifier" \in Main
  BY TypesGive, ThreadNames, PlaceNames
<1>2. OpeningInv'
  <2>1. Side' = "verifier"
    BY <1>1 DEF Side
  <2> QED
    BY <1>1, <2>1 DEF OpeningInv
<1>3. AttestInv /\ ElementsInv
  BY Sides
<1>4. \A x \in Main : SideProof(x)' = SideProof(x) /\ proof'[x] = proof[x]
  BY SameProof
<1>5. AttestInv'
  <2>1. \A c : Opened("prover", c) => Opened("prover", c)'
    <3> SUFFICES ASSUME NEW c, Opened("prover", c) PROVE Opened("prover", c)'
      OBVIOUS
    <3> QED
      BY <1>4, OpenedGrows, ThreadNames
  <2>2. \A c : Proved("prover", c) => Proved("prover", c)'
    <3> SUFFICES ASSUME NEW c, Proved("prover", c) PROVE Proved("prover", c)'
      OBVIOUS
    <3>1. SameOn(SideProof("prover"), SideProof("prover")', {"q1", "q2", "veil_root"})
      BY <1>4, ThreadNames DEF SameOn
    <3> QED
      BY <1>4, <3>1, ProvedGrows, ThreadNames
  <2>3. /\ attest["pcs"] # <<>> => Opened("prover", attest["pcs"])'
        /\ attest["veil"] # <<>> => Proved("prover", attest["veil"])'
    <3>1. PICK a : a = attest["pcs"]
      OBVIOUS
    <3>2. PICK v : v = attest["veil"]
      OBVIOUS
    <3>3. a # <<>> => Opened("prover", a)'
      BY <1>3, <2>1, <3>1 DEF AttestInv
    <3>4. v # <<>> => Proved("prover", v)'
      BY <1>3, <2>2, <3>2 DEF AttestInv
    <3>5. attest'["pcs"] = a /\ attest'["veil"] = v
      BY <3>1, <3>2
    <3> QED
      BY <3>1, <3>2, <3>3, <3>4, <3>5
  <2> QED
    BY <1>1, <1>3, <2>3 DEF AttestInv
<1>6. ElementsInv'
  BY <1>1, <1>3, ElementsKept
<1> QED
  BY <1>1, <1>2, <1>4, <1>5, <1>6, BranchStep

LEMMA PcsDrawTrace ==
  ASSUME PadInv, TraceInv, PcsDraw
  PROVE  TraceInv'
<1>a. PICK b : b = Side
  OBVIOUS
<1>b. PICK t, n, q, k : t = tr["pcs"] /\ n = blk["pcs"] /\ q = SideProof(b) /\ k = link[b].blind
  OBVIOUS
<1>c. PICK i : i = IdOf(t)
  OBVIOUS
<1>d. PICK claim : claim = PcsClaim(b, i)
  OBVIOUS
<1>1. /\ pc["pcs"] = "draw" /\ pc[b] = "join" /\ Answered(t, "good")
      /\ tr' = [tr EXCEPT !["pcs"] = Squeezed(t)]
      /\ UNCHANGED <<blk, chal, cursor, start, link, proof>>
      /\ \/ /\ n <= FoldSites /\ pc' = [pc EXCEPT !["pcs"] = "pow"] /\ UNCHANGED attest
         \/ /\ ~(n <= FoldSites) /\ b = "prover" /\ pc' = [pc EXCEPT !["pcs"] = "done"]
            /\ attest' = [attest EXCEPT !["pcs"] = claim]
         \/ /\ ~(n <= FoldSites) /\ b = "verifier" /\ UNCHANGED attest
            /\ pc' = [pc EXCEPT !["pcs"] = "done", !["veil"] = "open"]
            /\ attest["pcs"] = claim /\ OpeningIsWhole(proof["verifier"])
         \/ /\ ~(n <= FoldSites) /\ b = "verifier" /\ UNCHANGED attest
            /\ pc' = [pc EXCEPT !["verifier"] = "PcsRejected"]
  <2>1. b = "prover" \/ b = "verifier"
    BY <1>a DEF Side
  <2> QED
    BY <1>a, <1>b, <1>c, <1>d, <2>1 DEF PcsDraw, Says, Goto
<1>2. TranscriptOK(t, oracle)
  BY <1>b, ThreadNames DEF PadInv, Transcripts
<1>3. /\ Grown(oracle, oracle') /\ IsId(oracle', i, t) /\ Squeezed(t) = After(i) /\ i \in Nat \ {0}
  BY <1>1, <1>2, <1>c, AnsweredGives DEF PadInv, Class
<1>4. b \in Main /\ b \in {"prover", "verifier"} /\ (b = "verifier" <=> pc["prover"] = "shipped") /\ b = Side
      /\ {"prover", "verifier"} \subseteq Threads /\ "pcs" \in Threads /\ "veil" \in Threads
      /\ Walkers \subseteq Threads \ {"pcs", "veil"} /\ b \in Walkers
  BY <1>a, ThreadNames DEF Side
<1>5. AttestInv /\ ElementsInv /\ OpeningInv
  BY Sides
<1>6. DOMAIN pc = Threads /\ DOMAIN tr = Threads /\ DOMAIN attest = {"pcs", "veil"}
  BY TypesGive DEF PadInv, VarTypes
<1>7. \A x \in Main : SideProof(x)' = SideProof(x) /\ proof'[x] = proof[x]
  BY <1>1, SameProof
<1>8. n \in Nat \ {0} /\ n <= FoldSites + 1 /\ OpeningAt(oracle, q, k, n - 1, n - 1, t)
      /\ (b = "verifier" \/ pc["veil"] = "open" => tr["veil"] = ForkT(q, k, "veil-flock-inner-fork"))
  BY <1>1, <1>4, <1>5, <1>a, <1>b, TypesGive DEF OpeningInv
<1>9. PICK d \in [1..n -> DOMAIN oracle'] :
         FoldChain(oracle', q, k, d, n) /\ FoldHits(oracle', q, d, n - 1) /\ d[n] = i
  BY <1>3, <1>8, OpeningDraws
<1>10. tr'["pcs"] = After(i) /\ \A x \in Threads \ {"pcs"} : tr'[x] = tr[x]
  BY <1>1, <1>3, <1>4, <1>6
<1>11. \A x \in Walkers : tr'[x] = tr[x] /\ blk'[x] = blk[x]
  BY <1>1, <1>4, <1>10
<1>12. /\ attest["veil"] # <<>> => Proved("prover", attest["veil"])'
       /\ \A c : Opened("prover", c) => Opened("prover", c)'
       /\ \A c : Opened("verifier", c) => Opened("verifier", c)'
  <2>1. \A c, x : x \in Main /\ Opened(x, c) => Opened(x, c)'
    <3> SUFFICES ASSUME NEW c, NEW x \in Main, Opened(x, c) PROVE Opened(x, c)'
      OBVIOUS
    <3> QED
      BY <1>1, <1>3, <1>7, OpenedGrows
  <2>2. attest["veil"] # <<>> => Proved("prover", attest["veil"])'
    <3>1. SameOn(SideProof("prover"), SideProof("prover")', {"q1", "q2", "veil_root"})
      BY <1>7, ThreadNames DEF SameOn
    <3>2. PICK v : v = attest["veil"]
      OBVIOUS
    <3>3. v # <<>> => Proved("prover", v)
      BY <1>5, <3>2 DEF AttestInv
    <3>4. v # <<>> => Proved("prover", v)'
      BY <1>1, <1>3, <1>7, <3>1, <3>3, ProvedGrows, ThreadNames
    <3>5. attest'["veil"] = v
      <4>1. attest'["veil"] = attest["veil"]
        BY <1>1, <1>6
      <4> QED
        BY <3>2, <4>1
    <3> QED
      BY <3>2, <3>4, <3>5
  <2> QED
    BY <2>1, <2>2, ThreadNames
<1>13. attest'["veil"] = attest["veil"]
  BY <1>1, <1>6
<1>14. CASE n <= FoldSites /\ pc' = [pc EXCEPT !["pcs"] = "pow"] /\ UNCHANGED attest
  <2>1. pc'["pcs"] = "pow" /\ \A x \in Threads \ {"pcs"} : pc'[x] = pc[x]
    BY <1>4, <1>6, <1>14
  <2>2. Side' = b /\ pc'[b] = pc[b]
    BY <1>4, <2>1 DEF Side
  <2>3. OpeningAt(oracle', q, k, n, n - 1, tr'["pcs"])
    BY <1>8, <1>9, <1>10 DEF OpeningAt
  <2>4. OpeningInv'
    <3>1. SideProof(Side)' = q /\ link'[Side'] = link[b]
      BY <1>1, <1>4, <1>7, <1>b, <2>2
    <3> QED
      BY <1>1, <1>4, <1>8, <1>10, <1>14, <1>b, <2>1, <2>2, <2>3, <3>1 DEF OpeningInv
  <2>5. AttestInv'
    <3>1. PICK a : a = attest["pcs"]
      OBVIOUS
    <3>2. /\ a # <<>> => Opened("prover", a)'
          /\ pc["verifier"] = "accept" \/ (pc["verifier"] = "join" /\ pc["veil"] = "open") => Opened("verifier", a)'
      BY <1>5, <1>12, <3>1 DEF AttestInv
    <3>3. attest'["pcs"] = a
      BY <1>14, <3>1
    <3>4. /\ attest'["pcs"] # <<>> => Opened("prover", attest["pcs"])'
          /\ pc["verifier"] = "accept" \/ (pc["verifier"] = "join" /\ pc["veil"] = "open") => Opened("verifier", attest["pcs"])'
      BY <3>2, <3>3
    <3>5. pc["verifier"] # "accept"
      BY <1>1, <1>4 DEF PadInv, Pads
    <3> QED
      BY <1>1, <1>4, <1>5, <1>7, <1>12, <1>14, <2>1, <3>4, <3>5 DEF AttestInv
  <2>6. \A x \in Walkers \ {b} : pc'[x] = pc[x]
    BY <1>4, <2>1
  <2>7. ElementsInv'
    BY <1>1, <1>4, <1>5, <2>1, ElementsKept
  <2> QED
    BY <1>1, <1>3, <1>4, <1>7, <1>11, <2>2, <2>4, <2>5, <2>6, <2>7, BranchStep
<1>15. ASSUME ~(n <= FoldSites)
       PROVE  Opened(b, claim)'
  <2>1. n = FoldSites + 1 /\ n - 1 = FoldSites
    BY <1>8, <1>15, Bounds
  <2>2. claim = PcsClaim(b, i)'
    BY <1>1, <1>d DEF PcsClaim, ClaimPoints
  <2>3. SideProof(b)' = q /\ link'[b].blind = k
    BY <1>1, <1>4, <1>7, <1>b
  <2> QED
    BY <1>9, <2>1, <2>2, <2>3 DEF Opened
<1>16. CASE ~(n <= FoldSites) /\ b = "prover" /\ pc' = [pc EXCEPT !["pcs"] = "done"]
            /\ attest' = [attest EXCEPT !["pcs"] = claim]
  <2>1. pc'["pcs"] = "done" /\ \A x \in Threads \ {"pcs"} : pc'[x] = pc[x]
    BY <1>4, <1>6, <1>16
  <2>2. Side' = b /\ pc'[b] = pc[b]
    BY <1>4, <2>1 DEF Side
  <2>3. attest'["pcs"] = claim /\ claim # <<>>
    <3>1. claim # <<>>
      BY <1>d, ClaimsAreSomething
    <3> QED
      BY <1>6, <1>16, <3>1
  <2>4. Opened("prover", attest["pcs"])'
    BY <1>15, <1>16, <2>3
  <2>5. pc["verifier"] \notin {"join", "accept"}
    BY <1>1, <1>4, <1>16 DEF PadInv, Pads
  <2>6. AttestInv'
    BY <1>1, <1>4, <1>5, <1>12, <1>13, <1>16, <2>1, <2>3, <2>4, <2>5 DEF AttestInv
  <2>7. OpeningInv'
    <3>1. SideProof(Side)' = q /\ link'[Side'] = link[b]
      BY <1>1, <1>4, <1>7, <1>b, <2>2
    <3> QED
      BY <1>1, <1>4, <1>8, <1>10, <1>16, <1>b, <2>1, <2>2, <3>1 DEF OpeningInv
  <2>8. ElementsInv'
    BY <1>1, <1>4, <1>5, <2>1, ElementsKept
  <2>9. \A x \in Walkers \ {b} : pc'[x] = pc[x]
    BY <1>4, <2>1
  <2> QED
    BY <1>1, <1>3, <1>4, <1>7, <1>11, <2>2, <2>6, <2>7, <2>8, <2>9, BranchStep
<1>17. CASE ~(n <= FoldSites) /\ b = "verifier" /\ UNCHANGED attest
            /\ pc' = [pc EXCEPT !["pcs"] = "done", !["veil"] = "open"]
            /\ attest["pcs"] = claim /\ OpeningIsWhole(proof["verifier"])
  <2>1. pc'["pcs"] = "done" /\ pc'["veil"] = "open" /\ \A x \in Threads \ {"pcs", "veil"} : pc'[x] = pc[x]
    BY <1>4, <1>6, <1>17
  <2>2. Side' = b /\ pc'[b] = pc[b] /\ pc'["prover"] = pc["prover"] /\ pc'["verifier"] = "join"
    BY <1>1, <1>4, <1>17, <2>1 DEF Side
  <2>3. Opened("verifier", attest["pcs"])'
    BY <1>15, <1>17
  <2>4. attest["pcs"] # <<>> => Opened("prover", attest["pcs"])'
    <3>1. claim # <<>> => Opened("prover", claim)'
      BY <1>5, <1>12, <1>17 DEF AttestInv
    <3> QED
      BY <1>17, <3>1
  <2>5. AttestInv'
    BY <1>1, <1>4, <1>5, <1>12, <1>17, <2>1, <2>2, <2>3, <2>4 DEF AttestInv
  <2>6. OpeningInv'
    <3>1. SideProof(Side)' = q /\ link'[Side'] = link[b]
      BY <1>1, <1>4, <1>7, <1>b, <2>2
    <3> QED
      BY <1>1, <1>4, <1>8, <1>10, <1>17, <1>b, <2>1, <2>2, <3>1 DEF OpeningInv
  <2>7. ElementsInv'
    BY <1>1, <1>5, <2>2, ElementsKept
  <2>8. \A x \in Walkers \ {b} : pc'[x] = pc[x]
    BY <1>4, <2>1
  <2> QED
    BY <1>1, <1>3, <1>4, <1>7, <1>11, <2>2, <2>5, <2>6, <2>7, <2>8, BranchStep
<1>18. CASE ~(n <= FoldSites) /\ b = "verifier" /\ UNCHANGED attest
            /\ pc' = [pc EXCEPT !["verifier"] = "PcsRejected"]
  BY <1>1, <1>3, <1>4, <1>11, <1>18, VerifierStops
<1> QED
  BY <1>1, <1>14, <1>16, <1>17, <1>18

LEMMA OpeningAtGrows ==
  ASSUME NEW o, NEW r, Grown(o, r), NEW q, NEW k, NEW n \in Nat, NEW m \in Nat, NEW t,
         OpeningAt(o, q, k, n, m, t)
  PROVE  OpeningAt(r, q, k, n, m, t)
<1>1. DOMAIN o \subseteq DOMAIN r
  BY IdGrows
<1>2. PICK d \in [1..n -> DOMAIN o] :
        /\ FoldChain(o, q, k, d, n) /\ FoldHits(o, q, d, m)
        /\ t = IF n = 0 THEN ForkT(q, k, "veil-flock-pcs-fork")
               ELSE IF m = n THEN FoldT(q, d, n) ELSE After(d[n])
  BY DEF OpeningAt
<1>3. FoldChain(r, q, k, d, n) /\ FoldHits(r, q, d, m) /\ d \in [1..n -> DOMAIN r]
  BY <1>1, <1>2, FoldsGrow
<1> QED
  BY <1>2, <1>3 DEF OpeningAt

LEMMA AttestsStay ==
  ASSUME Grown(oracle, oracle'), UNCHANGED <<chal, link, proof, attest>>, NEW b \in Main
  PROVE  /\ Opened(b, attest["pcs"]) => Opened(b, attest["pcs"])'
         /\ Proved(b, attest["veil"]) => Proved(b, attest["veil"])'
<1>1. SideProof(b)' = SideProof(b) /\ proof'[b] = proof[b]
  BY SameProof
<1>2. ASSUME Opened(b, attest["pcs"]) PROVE Opened(b, attest["pcs"])'
  <2>1. PICK c : c = attest["pcs"]
    OBVIOUS
  <2>2. Opened(b, c)'
    BY <1>1, <1>2, <2>1, OpenedGrows
  <2> QED
    BY <2>1, <2>2
<1>3. ASSUME Proved(b, attest["veil"]) PROVE Proved(b, attest["veil"])'
  <2>1. PICK c : c = attest["veil"]
    OBVIOUS
  <2>2. Proved(b, c)'
    BY <1>1, <1>3, <2>1, ProvedGrows DEF SameOn
  <2> QED
    BY <2>1, <2>2
<1> QED
  BY <1>2, <1>3

LEMMA PcsGrindTrace ==
  ASSUME PadInv, TraceInv, NEW c \in Class, PcsGrind(c)
  PROVE  TraceInv'
<1>a. PICK m, n, v, q, k, t : m = trial["pcs"] /\ n = blk["pcs"] /\ v = V("fold_nonces", m)
         /\ q = SideProof("prover") /\ k = link["prover"].blind /\ t = tr["pcs"]
  OBVIOUS
<1>b. PICK u : u = SideProof("prover")'
  OBVIOUS
<1>c. PICK p : p = PowPoint(t, m)
  OBVIOUS
<1>1. /\ Side = "prover" /\ pc["pcs"] = "pow" /\ Answered(p, c)
      /\ UNCHANGED <<chal, cursor, start, link, attest>>
      /\ \/ UNCHANGED <<pc, tr, blk, proof>>
         \/ /\ c = "good"
            /\ proof' = [proof EXCEPT !["prover"]["fold_nonces"][n] = v]
            /\ tr' = [tr EXCEPT !["pcs"] = Absorb(t, <<PowBytes(v)>>)]
            /\ blk' = [blk EXCEPT !["pcs"] = n + 1]
            /\ pc' = [pc EXCEPT !["pcs"] = "draw"]
  BY <1>a, <1>c DEF PcsGrind, Says, Goto, Class
<1>2. /\ "prover" \in Main /\ "prover" \in Threads /\ "pcs" \in Threads /\ "pcs" \notin Walkers
      /\ Walkers \subseteq Threads /\ "prover" \in Walkers /\ "veil" \in Threads /\ "verifier" \in Threads
  BY ThreadNames
<1>3. m \in Nat /\ TranscriptOK(t, oracle)
  BY <1>2, <1>a DEF PadInv, VarTypes, Transcripts
<1>4. TranscriptOK(p, oracle)
  BY <1>3, <1>c, PowTyped
<1>5. /\ Grown(oracle, oracle') /\ IsId(oracle', IdOf(p), p) /\ oracle'[IdOf(p)].class = c
  BY <1>1, <1>4, AnsweredGives DEF PadInv
<1>6. AttestInv /\ ElementsInv /\ OpeningInv
  BY Sides
<1>7. pc["prover"] = "join" /\ n <= FoldSites /\ n \in Nat \ {0}
  <2>1. pc["prover"] # "shipped"
    BY <1>1 DEF Side
  <2>2. pc["prover"] = "join"
    BY <1>1, <2>1 DEF PadInv, Control
  <2>3. n <= FoldSites
    BY <1>1, <1>a, <2>2 DEF PadInv, Control
  <2> QED
    BY <1>2, <1>a, <2>2, <2>3, TypesGive
<1>8. OpeningAt(oracle, q, k, n, n - 1, t)
      /\ (pc["veil"] = "open" => tr["veil"] = ForkT(q, k, "veil-flock-inner-fork"))
  BY <1>1, <1>6, <1>7, <1>a DEF OpeningInv
<1>9. pc["verifier"] = "idle"
  BY <1>7 DEF PadInv, Pads
<1>10. CASE UNCHANGED <<pc, tr, blk, proof>>
  <2>1. Side' = "prover" /\ u = q
    BY <1>1, <1>2, <1>10, <1>a, <1>b, SameProof DEF Side
  <2>2. OpeningInv'
    <3>1. n \in Nat /\ n - 1 \in Nat
      BY <1>7
    <3>2. OpeningAt(oracle', q, k, n, n - 1, t)
      BY <1>5, <1>8, <3>1, OpeningAtGrows
    <3>3. SideProof(Side)' = q /\ link' = link
      BY <1>1, <1>b, <2>1
    <3> QED
      BY <1>1, <1>7, <1>8, <1>10, <1>a, <2>1, <3>2, <3>3 DEF OpeningInv
  <2>3. AttestInv'
    <3>1. /\ Opened("prover", attest["pcs"]) => Opened("prover", attest["pcs"])'
          /\ Proved("prover", attest["veil"]) => Proved("prover", attest["veil"])'
      BY <1>1, <1>2, <1>5, <1>10, AttestsStay
    <3> QED
      BY <1>1, <1>6, <1>9, <1>10, <3>1 DEF AttestInv
  <2>4. ElementsInv'
    BY <1>1, <1>6, <1>10, ElementsKept
  <2> QED
    BY <1>1, <1>2, <1>5, <1>10, <2>2, <2>3, <2>4, BranchStep
<1>11. CASE /\ c = "good"
            /\ proof' = [proof EXCEPT !["prover"]["fold_nonces"][n] = v]
            /\ tr' = [tr EXCEPT !["pcs"] = Absorb(t, <<PowBytes(v)>>)]
            /\ blk' = [blk EXCEPT !["pcs"] = n + 1]
            /\ pc' = [pc EXCEPT !["pcs"] = "draw"]
  <2>1. /\ pc'["pcs"] = "draw" /\ \A x \in Threads \ {"pcs"} : pc'[x] = pc[x]
        /\ tr'["pcs"] = Absorb(t, <<PowBytes(v)>>) /\ \A x \in Threads \ {"pcs"} : tr'[x] = tr[x]
        /\ blk'["pcs"] = n + 1 /\ \A x \in Threads \ {"pcs"} : blk'[x] = blk[x]
    BY <1>2, <1>11, TypesGive
  <2>2. /\ proof'["prover"]["fold_nonces"] = [proof["prover"]["fold_nonces"] EXCEPT ![n] = v]
        /\ \A f \in Field \ {"fold_nonces"} : proof'["prover"][f] = proof["prover"][f]
        /\ \A x \in Main \ {"prover"} : proof'[x] = proof[x]
        /\ proof'["prover"] = [proof["prover"] EXCEPT !["fold_nonces"] = [proof["prover"]["fold_nonces"] EXCEPT ![n] = v]]
    <3>1. DOMAIN proof = Main /\ DOMAIN proof["prover"] = Field /\ "fold_nonces" \in Field
      BY <1>2, TypesGive, NamesApart DEF ProofOK, Public
    <3> QED
      BY <1>2, <1>11, <3>1
  <2>3. PICK g \in Seq(Sayable) : g = proof["prover"]["fold_nonces"] /\ Len(g) = FoldSites
    BY <1>2, TypesGive, NamesApart DEF ProofOK, Counted, Public
  <2>4. v \in Sayable /\ v.name = "fold_nonces" /\ v.i = m
    BY <1>3, <1>a, PublicElement, NamesApart DEF V, Public
  <2>5. PICK h : h = proof'["prover"]["fold_nonces"]
    OBVIOUS
  <2>6. /\ Len(h) = FoldSites /\ DOMAIN h = 1..FoldSites /\ h[n] = v
        /\ \A j \in (1..FoldSites) \ {n} : h[j] = g[j]
    <3> DEFINE e == [g EXCEPT ![n] = v]
    <3>1. h = e
      BY <2>2, <2>3, <2>5
    <3>5. e \in Seq(Sayable) /\ Len(e) = FoldSites
      <4>1. v \in Sayable
        BY <2>4
      <4>2. Len(g) = FoldSites
        BY <2>3
      <4> QED
        BY <4>1, <4>2, Replaced
    <3>2. Len(h) = FoldSites /\ h \in Seq(Sayable)
      BY <3>1, <3>5
    <3>3. DOMAIN g = 1..FoldSites /\ n \in 1..FoldSites
      BY <1>7, <2>3, Bounds
    <3>4. DOMAIN h = 1..FoldSites
      BY <3>2
    <3> QED
      BY <3>1, <3>2, <3>3, <3>4
  <2>7. /\ u["fold_nonces"] = h /\ q["fold_nonces"] = g
        /\ u["q1"] = q["q1"] /\ u["q2"] = q["q2"] /\ u["veil_root"] = q["veil_root"]
    BY <1>2, <1>a, <1>b, <2>2, <2>3, <2>5, FoldFrame
  <2>8. OpeningAt(oracle', u, k, n, n, Absorb(t, <<PowBytes(v)>>))
    <3>1. \A j \in 1..(n - 1) : u["fold_nonces"][j] = q["fold_nonces"][j]
      BY <1>7, <2>6, <2>7, Bounds
    <3>2. u["fold_nonces"][n] = v
      BY <2>6, <2>7
    <3>3. Hit(oracle', PowPoint(t, v.i))
      BY <1>5, <1>11, <1>c, <2>4 DEF Hit, IsId
    <3> QED
      BY <1>5, <1>7, <1>8, <2>7, <3>1, <3>2, <3>3, OpeningPays
  <2>9. \A l : ForkT(u, k, l) = ForkT(q, k, l)
    BY <2>7 DEF ForkT, BlindedT, BlindedItems
  <2>10. Side' = "prover" /\ pc'["prover"] = "join" /\ pc'["verifier"] = "idle"
    BY <1>2, <1>7, <1>9, <2>1 DEF Side
  <2>11. OpeningInv'
    <3>1. SideProof(Side)' = u /\ link' = link
      BY <1>1, <1>b, <2>10
    <3>2. n + 1 <= FoldSites + 1 /\ (n + 1) - 1 = n
      BY <1>7, Bounds
    <3> QED
      BY <1>2, <1>8, <1>a, <2>1, <2>8, <2>9, <2>10, <3>1, <3>2 DEF OpeningInv
  <2>12. AttestInv'
    <3>1. attest["pcs"] = <<>>
      BY <1>1, <1>6, <1>7 DEF AttestInv
    <3>2. attest["veil"] # <<>> => Proved("prover", attest["veil"])'
      <4>1. PICK a : a = attest["veil"]
        OBVIOUS
      <4>2. a # <<>> => Proved("prover", a)
        BY <1>6, <4>1 DEF AttestInv
      <4>3. SameOn(SideProof("prover"), SideProof("prover")', {"q1", "q2", "veil_root"})
        BY <1>a, <1>b, <2>7 DEF SameOn
      <4>4. a # <<>> => Proved("prover", a)'
        BY <1>1, <1>2, <1>5, <2>2, <4>2, <4>3, ProvedGrows
      <4> QED
        BY <1>1, <4>1, <4>4
    <3> QED
      BY <1>1, <1>2, <1>6, <1>7, <2>1, <2>10, <3>1, <3>2 DEF AttestInv
  <2>13. ElementsInv'
    <3>1. Named(proof'["prover"]) /\ Total(proof'["prover"])
      <4>1. Named(proof["prover"]) /\ Total(proof["prover"])
        BY <1>2, <1>6 DEF ElementsInv
      <4>2. "fold_nonces" \in Nonces
        BY DEF Nonces
      <4>3. \A i \in DOMAIN h : h[i].name = "fold_nonces"
        <5>1. \A i \in DOMAIN g : g[i].name = "fold_nonces"
          BY <2>3, <4>1, NamesApart DEF Named, Public
        <5>2. DOMAIN g = 1..FoldSites
          BY <2>3
        <5> QED
          BY <2>4, <2>6, <5>1, <5>2
      <4>4. Named(proof'["prover"])
        BY <2>2, <2>5, <4>1, <4>2, <4>3 DEF Named
      <4>5. Total(proof'["prover"])
        BY <2>2, <4>1 DEF Total
      <4> QED
        BY <4>4, <4>5
    <3>2. \A f \in Field : Len(proof'["prover"][f]) = FieldLen[f]
      BY <1>6, <2>2, <2>5, <2>6, PublicLengths DEF ElementsInv
    <3>3. "fold_nonces" \notin {"pcs_body", "veil_body", "q1", "q2"}
          /\ {"pcs_body", "veil_body", "q1", "q2"} \subseteq Field
      BY NamesApart DEF Public
    <3>4. \A f \in {"pcs_body", "veil_body", "q1", "q2"} : proof'["prover"][f] = proof["prover"][f]
      BY <2>2, <3>3
    <3>5. \A x \in Main : Named(proof'[x]) /\ Total(proof'[x])
      BY <1>6, <2>2, <3>1 DEF ElementsInv
    <3>6. QSlice("q1")' = QSlice("q1") /\ QSlice("q2")' = QSlice("q2") /\ pc["prover"] \in Blinded
      BY <1>1, <1>7 DEF QSlice, Blinded
    <3> QED
      BY <1>6, <3>2, <3>4, <3>5, <3>6 DEF ElementsInv
  <2>14. \A x \in Walkers : pc'[x] = pc[x] /\ tr'[x] = tr[x] /\ blk'[x] = blk[x]
    BY <1>2, <2>1
  <2>15. \A x \in Main, f \in Field \ {"fold_nonces"} : proof'[x][f] = proof[x][f]
    BY <2>2
  <2> QED
    BY <1>1, <1>2, <1>5, <2>11, <2>12, <2>13, <2>14, <2>15, BranchStep
<1> QED
  BY <1>1, <1>10, <1>11

LEMMA PcsVerifyPowTrace ==
  ASSUME PadInv, TraceInv, NEW c \in Class, PcsVerifyPow(c)
  PROVE  TraceInv'
<1>a. PICK n, q, k, t : n = blk["pcs"] /\ q = SideProof("verifier") /\ k = link["verifier"].blind /\ t = tr["pcs"]
  OBVIOUS
<1>b. PICK v : v = q["fold_nonces"][n]
  OBVIOUS
<1>c. PICK p : p = PowPoint(t, v.i)
  OBVIOUS
<1>d. q = proof["verifier"]
  BY <1>a DEF SideProof
<1>e. /\ Side = "verifier" /\ pc["pcs"] = "pow" /\ pc["verifier"] = "join"
      /\ UNCHANGED <<chal, cursor, start, link, trial, proof, attest>>
      /\ \/ /\ n <= Len(q["fold_nonces"]) /\ Answered(p, c)
            /\ tr' = [tr EXCEPT !["pcs"] = Absorb(t, <<PowBytes(v)>>)]
            /\ blk' = [blk EXCEPT !["pcs"] = n + 1]
            /\ \/ c = "good" /\ pc' = [pc EXCEPT !["pcs"] = "draw"]
               \/ pc' = [pc EXCEPT !["verifier"] = "PcsRejected"]
         \/ UNCHANGED <<oracle, tr, blk>> /\ pc' = [pc EXCEPT !["verifier"] = "PcsRejected"]
  BY <1>a, <1>b, <1>c, <1>d DEF PcsVerifyPow, VerifyFold, Says, Goto
<1>2. /\ "verifier" \in Main /\ "verifier" \in Threads /\ "pcs" \in Threads /\ "pcs" \notin Walkers
      /\ Walkers \subseteq Threads /\ "verifier" \in Walkers /\ "veil" \in Threads /\ "prover" \in Threads
      /\ "prover" \in Main
  BY ThreadNames
<1>3. pc["prover"] = "shipped" /\ n <= FoldSites /\ n \in Nat \ {0}
  BY <1>e, <1>2, <1>a, SideIs, TypesGive DEF PadInv, Control
<1>f. CASE UNCHANGED <<oracle, tr, blk>> /\ pc' = [pc EXCEPT !["verifier"] = "PcsRejected"]
  <2>1. Grown(oracle, oracle')
    BY <1>f, SameOracle DEF PadInv
  <2> QED
    BY <1>e, <1>3, <1>f, <2>1, VerifierStops
<1> SUFFICES ASSUME n <= Len(q["fold_nonces"]), Answered(p, c),
                    tr' = [tr EXCEPT !["pcs"] = Absorb(t, <<PowBytes(v)>>)],
                    blk' = [blk EXCEPT !["pcs"] = n + 1],
                    \/ c = "good" /\ pc' = [pc EXCEPT !["pcs"] = "draw"]
                    \/ pc' = [pc EXCEPT !["verifier"] = "PcsRejected"]
             PROVE  TraceInv'
  BY <1>e, <1>f
<1>1. /\ Side = "verifier" /\ pc["pcs"] = "pow" /\ pc["verifier"] = "join" /\ Answered(p, c)
      /\ n <= Len(q["fold_nonces"])
      /\ tr' = [tr EXCEPT !["pcs"] = Absorb(t, <<PowBytes(v)>>)]
      /\ blk' = [blk EXCEPT !["pcs"] = n + 1]
      /\ \/ c = "good" /\ pc' = [pc EXCEPT !["pcs"] = "draw"]
         \/ pc' = [pc EXCEPT !["verifier"] = "PcsRejected"]
      /\ UNCHANGED <<chal, cursor, start, link, trial, proof, attest>>
  BY <1>e
<1>4. v \in Sayable
  <2>1. q["fold_nonces"] \in Seq(Sayable)
    BY <1>2, <1>d, TypesGive, NamesApart DEF ProofOK
  <2>2. \A S : \A s \in Seq(S) : \A i \in Nat \ {0} : i <= Len(s) => s[i] \in S
    OBVIOUS
  <2> HIDE DEF Sayable
  <2> QED
    BY <1>1, <1>3, <1>b, <2>1, <2>2
<1>5. v.i \in Nat
  BY <1>4 DEF Sayable, Element
<1>6. TranscriptOK(p, oracle)
  <2>1. TranscriptOK(t, oracle)
    BY <1>2, <1>a DEF PadInv, Transcripts
  <2> QED
    BY <1>5, <1>c, <2>1, PowTyped
<1>7. /\ Grown(oracle, oracle') /\ IsId(oracle', IdOf(p), p) /\ oracle'[IdOf(p)].class = c
  BY <1>1, <1>6, AnsweredGives DEF PadInv
<1>8. AttestInv /\ ElementsInv /\ OpeningInv
  BY Sides
<1>9. OpeningAt(oracle, q, k, n, n - 1, t) /\ tr["veil"] = ForkT(q, k, "veil-flock-inner-fork")
  BY <1>1, <1>3, <1>8, <1>a DEF OpeningInv
<1>10. /\ tr'["pcs"] = Absorb(t, <<PowBytes(v)>>) /\ \A x \in Threads \ {"pcs"} : tr'[x] = tr[x]
       /\ blk'["pcs"] = n + 1 /\ \A x \in Threads \ {"pcs"} : blk'[x] = blk[x]
  BY <1>1, <1>2, TypesGive
<1>11. \A x \in Walkers : tr'[x] = tr[x] /\ blk'[x] = blk[x]
  BY <1>2, <1>10
<1>12. CASE c = "good" /\ pc' = [pc EXCEPT !["pcs"] = "draw"]
  <2>1. /\ pc'["pcs"] = "draw" /\ \A x \in Threads \ {"pcs"} : pc'[x] = pc[x]
    BY <1>2, <1>12, TypesGive
  <2>2. Side' = "verifier" /\ SideProof("verifier")' = q /\ pc'["verifier"] = "join" /\ pc'["prover"] = "shipped"
    BY <1>1, <1>2, <1>3, <1>a, <2>1, SameProof DEF Side
  <2>3. OpeningAt(oracle', q, k, n, n, Absorb(t, <<PowBytes(v)>>))
    <3>1. Hit(oracle', PowPoint(t, v.i))
      BY <1>7, <1>12, <1>c DEF Hit, IsId
    <3> QED
      BY <1>3, <1>7, <1>9, <1>b, <3>1, OpeningPays
  <2>4. OpeningInv'
    <3>1. SideProof(Side)' = q /\ link' = link
      BY <1>1, <2>2
    <3>2. n + 1 <= FoldSites + 1 /\ (n + 1) - 1 = n
      BY <1>3, Bounds
    <3> QED
      BY <1>2, <1>9, <1>10, <1>a, <2>1, <2>2, <2>3, <3>1, <3>2 DEF OpeningInv
  <2>5. AttestInv'
    <3>1. \A x \in Main : /\ Opened(x, attest["pcs"]) => Opened(x, attest["pcs"])'
                          /\ Proved(x, attest["veil"]) => Proved(x, attest["veil"])'
      BY <1>1, <1>7, AttestsStay
    <3> QED
      BY <1>1, <1>2, <1>3, <1>8, <2>1, <2>2, <3>1 DEF AttestInv
  <2>6. ElementsInv'
    BY <1>1, <1>3, <1>8, <2>2, ElementsKept DEF Blinded
  <2>7. \A x \in Walkers : pc'[x] = pc[x]
    BY <1>2, <2>1
  <2> QED
    BY <1>1, <1>2, <1>7, <1>11, <2>4, <2>5, <2>6, <2>7, BranchStep
<1>13. CASE pc' = [pc EXCEPT !["verifier"] = "PcsRejected"]
  BY <1>1, <1>3, <1>7, <1>11, <1>13, VerifierStops
<1> QED
  BY <1>1, <1>12, <1>13

LEMMA VeilBranchTrace ==
  ASSUME PadInv, TraceInv, VeilBranch
  PROVE  TraceInv'
<1>a. PICK b, q, k, t : b = Side /\ q = SideProof(b) /\ k = link[b].blind
         /\ t = Absorb(tr["veil"], <<Label("veil-f128-constraint-system"), Item("bytes", proof[b].veil_root)>>)
  OBVIOUS
<1>b. PICK i : i = IdOf(t)
  OBVIOUS
<1>c. PICK claim : claim = VeilClaim(b, i)
  OBVIOUS
<1>1. /\ pc["veil"] = "open" /\ pc[b] = "join"
      /\ UNCHANGED <<blk, chal, cursor, start, link, trial, proof>>
      /\ \/ b = "prover" /\ pc' = [pc EXCEPT !["veil"] = "UnsatisfiedCircuit"] /\ UNCHANGED <<oracle, tr, attest>>
         \/ /\ Answered(t, "good") /\ tr' = [tr EXCEPT !["veil"] = Squeezed(t)]
            /\ b = "prover" /\ pc' = [pc EXCEPT !["veil"] = "done"]
            /\ attest' = [attest EXCEPT !["veil"] = claim]
         \/ /\ Answered(t, "good") /\ tr' = [tr EXCEPT !["veil"] = Squeezed(t)]
            /\ b = "verifier" /\ UNCHANGED attest
            /\ \/ /\ pc' = [pc EXCEPT !["verifier"] = "accept"]
                  /\ attest["veil"] = claim /\ proof["verifier"]["veil_body"] = Honest("veil_body")
               \/ pc' = [pc EXCEPT !["verifier"] = "VeilRejected"]
  <2>1. b = "prover" \/ b = "verifier"
    BY <1>a DEF Side
  <2> QED
    BY <1>a, <1>b, <1>c, <2>1 DEF VeilBranch, Says, Goto
<1>2. b \in Main /\ b \in {"prover", "verifier"} /\ (b = "verifier" <=> pc["prover"] = "shipped") /\ b = Side
      /\ {"prover", "verifier"} \subseteq Threads /\ "pcs" \in Threads /\ "veil" \in Threads
      /\ Walkers \subseteq Threads \ {"pcs", "veil"} /\ b \in Walkers /\ "verifier" \in Walkers
  BY <1>a, ThreadNames DEF Side
<1>3. AttestInv /\ ElementsInv /\ OpeningInv
  BY Sides
<1>4. t = VeilT(q, k)
  <2>1. tr["veil"] = ForkT(q, k, "veil-flock-inner-fork")
    BY <1>1, <1>2, <1>3, <1>a DEF OpeningInv
  <2>2. proof[b]["veil_root"] = q["veil_root"]
    BY <1>2, <1>a, SideItems
  <2> QED
    BY <1>a, <2>1, <2>2 DEF VeilT
<1>5. TranscriptOK(t, oracle)
  BY <1>a, VeilPointTyped
<1>6. DOMAIN pc = Threads /\ DOMAIN tr = Threads /\ DOMAIN attest = {"pcs", "veil"}
  BY TypesGive DEF PadInv, VarTypes
<1>7. Grown(oracle, oracle') /\ (Answered(t, "good") => IsId(oracle', i, t))
  <2>1. Answered(t, "good") => Grown(oracle, oracle') /\ IsId(oracle', i, t)
    BY <1>5, <1>b, AnsweredGives DEF PadInv, Class
  <2>2. UNCHANGED oracle => Grown(oracle, oracle')
    BY SameOracle DEF PadInv
  <2> QED
    BY <1>1, <2>1, <2>2
<1>8. \A x \in Threads \ {"veil"} : tr'[x] = tr[x]
  BY <1>1, <1>6
<1>9. \A x \in Walkers : tr'[x] = tr[x] /\ blk'[x] = blk[x]
  BY <1>1, <1>2, <1>8
<1>10. \A x \in Main : SideProof(x)' = SideProof(x) /\ proof'[x] = proof[x]
  BY <1>1, SameProof
<1>11. ASSUME Answered(t, "good")
       PROVE  Proved(b, claim)'
  <2>1. claim = VeilClaim(b, i)'
    BY <1>1, <1>c DEF VeilClaim, Circuit
  <2>2. SideProof(b)' = q /\ link'[b].blind = k
    BY <1>1, <1>2, <1>10, <1>a
  <2>3. i \in DOMAIN oracle' /\ IsId(oracle', i, VeilT(q, k))
    BY <1>4, <1>7, <1>11 DEF IsId
  <2> QED
    BY <2>1, <2>2, <2>3 DEF Proved
<1>12. attest'["pcs"] = attest["pcs"] /\ \A x \in Main : Opened(x, attest["pcs"]) => Opened(x, attest["pcs"])'
  <2>1. attest'["pcs"] = attest["pcs"]
    BY <1>1, <1>6
  <2>2. PICK a : a = attest["pcs"]
    OBVIOUS
  <2>3. \A x \in Main : Opened(x, a) => Opened(x, a)'
    <3> SUFFICES ASSUME NEW x \in Main, Opened(x, a) PROVE Opened(x, a)'
      OBVIOUS
    <3> QED
      BY <1>1, <1>7, <1>10, OpenedGrows
  <2> QED
    BY <2>1, <2>2, <2>3
<1>13. PICK n \in Nat \ {0} : n = blk["pcs"]
  BY <1>2, TypesGive
<1>14. ASSUME pc'["pcs"] = pc["pcs"], Side' = b, pc'[b] = pc[b], pc'["veil"] # "open", b = "prover"
       PROVE  OpeningInv'
  <2>1. n - 1 \in Nat /\ n \in Nat
    BY <1>13
  <2>2. \A m \in Nat : OpeningAt(oracle, q, k, m, n - 1, tr["pcs"]) => OpeningAt(oracle', q, k, m, n - 1, tr["pcs"])
    BY <1>7, <2>1, OpeningAtGrows
  <2>3. /\ pc["pcs"] = "draw" => n <= FoldSites + 1 /\ OpeningAt(oracle', q, k, n - 1, n - 1, tr["pcs"])
        /\ pc["pcs"] = "pow" => n <= FoldSites /\ OpeningAt(oracle', q, k, n, n - 1, tr["pcs"])
    BY <1>1, <1>2, <1>3, <1>13, <1>a, <2>1, <2>2 DEF OpeningInv
  <2>4. SideProof(Side)' = q /\ link' = link /\ tr'["pcs"] = tr["pcs"] /\ blk' = blk
    BY <1>1, <1>2, <1>8, <1>10, <1>14, <1>a
  <2>5. link'[Side'].blind = k
    BY <1>14, <1>a, <2>4
  <2> QED
    BY <1>13, <1>14, <2>3, <2>4, <2>5 DEF OpeningInv
<1>15. CASE b = "prover" /\ pc' = [pc EXCEPT !["veil"] = "UnsatisfiedCircuit"] /\ UNCHANGED <<oracle, tr, attest>>
  <2>1. pc'["veil"] = "UnsatisfiedCircuit" /\ \A x \in Threads \ {"veil"} : pc'[x] = pc[x]
    BY <1>2, <1>6, <1>15
  <2>2. Side' = b /\ pc'[b] = pc[b] /\ pc'["pcs"] = pc["pcs"] /\ pc'["prover"] = pc["prover"]
    BY <1>2, <1>15, <2>1, ThreadNames DEF Side
  <2>3. OpeningInv'
    BY <1>14, <1>15, <2>1, <2>2
  <2>4. pc["verifier"] \notin {"join", "accept"} /\ pc'["verifier"] = pc["verifier"]
    BY <1>1, <1>2, <1>15, <2>1, ThreadNames DEF PadInv, Pads
  <2>5. AttestInv'
    <3>1. Proved("prover", attest["veil"]) => Proved("prover", attest["veil"])'
      BY <1>1, <1>2, <1>7, <1>15, AttestsStay
    <3> QED
      BY <1>1, <1>2, <1>3, <1>12, <1>15, <2>1, <2>2, <2>4, <3>1 DEF AttestInv
  <2>6. ElementsInv'
    BY <1>1, <1>3, <2>2, ElementsKept
  <2>7. \A x \in Walkers \ {b} : pc'[x] = pc[x]
    BY <1>2, <2>1
  <2> QED
    BY <1>1, <1>2, <1>7, <1>9, <1>10, <2>2, <2>3, <2>5, <2>6, <2>7, BranchStep
<1>16. CASE /\ Answered(t, "good") /\ b = "prover" /\ pc' = [pc EXCEPT !["veil"] = "done"]
            /\ attest' = [attest EXCEPT !["veil"] = claim]
  <2>1. pc'["veil"] = "done" /\ \A x \in Threads \ {"veil"} : pc'[x] = pc[x]
    BY <1>2, <1>6, <1>16
  <2>2. Side' = b /\ pc'[b] = pc[b] /\ pc'["pcs"] = pc["pcs"] /\ pc'["prover"] = pc["prover"]
    BY <1>2, <1>16, <2>1, ThreadNames DEF Side
  <2>3. OpeningInv'
    BY <1>14, <1>16, <2>1, <2>2
  <2>4. pc["verifier"] \notin {"join", "accept"} /\ pc'["verifier"] = pc["verifier"]
    BY <1>1, <1>2, <1>16, <2>1, ThreadNames DEF PadInv, Pads
  <2>5. attest'["veil"] = claim /\ claim # <<>>
    <3>1. claim # <<>>
      BY <1>c, ClaimsAreSomething
    <3> QED
      BY <1>6, <1>16, <3>1
  <2>6. Proved("prover", attest["veil"])'
    BY <1>11, <1>16, <2>5
  <2>7. AttestInv'
    BY <1>1, <1>2, <1>3, <1>12, <1>16, <2>1, <2>2, <2>4, <2>5, <2>6, ThreadNames DEF AttestInv
  <2>8. ElementsInv'
    BY <1>1, <1>3, <2>2, ElementsKept
  <2>9. \A x \in Walkers \ {b} : pc'[x] = pc[x]
    BY <1>2, <2>1
  <2> QED
    BY <1>1, <1>2, <1>7, <1>9, <1>10, <2>2, <2>3, <2>7, <2>8, <2>9, BranchStep
<1>17. CASE /\ Answered(t, "good") /\ b = "verifier" /\ UNCHANGED attest
            /\ pc' = [pc EXCEPT !["verifier"] = "accept"]
            /\ attest["veil"] = claim /\ proof["verifier"]["veil_body"] = Honest("veil_body")
  <2>1. pc'["verifier"] = "accept" /\ \A x \in Threads \ {"verifier"} : pc'[x] = pc[x]
    BY <1>2, <1>6, <1>17
  <2>2. Side' = "verifier" /\ pc'["prover"] = "shipped" /\ pc["prover"] = "shipped" /\ pc["verifier"] = "join"
    BY <1>1, <1>2, <1>17, <2>1, ThreadNames DEF Side
  <2>3. OpeningInv'
    BY <2>1, <2>2 DEF OpeningInv
  <2>4. Proved("verifier", attest["veil"])'
    BY <1>11, <1>17
  <2>5. AttestInv'
    <3>1. Proved("prover", attest["veil"]) => Proved("prover", attest["veil"])'
      BY <1>1, <1>7, <1>17, AttestsStay, ThreadNames
    <3>2. /\ Opened("prover", attest["pcs"])' /\ Opened("verifier", attest["pcs"])'
          /\ OpeningIsWhole(proof["verifier"])
          /\ Proved("prover", attest["veil"]) /\ attest["pcs"] # <<>> /\ attest["veil"] # <<>>
      BY <1>1, <1>3, <1>12, <2>2, ThreadNames DEF AttestInv
    <3> QED
      BY <1>1, <1>17, <2>1, <2>2, <2>4, <3>1, <3>2 DEF AttestInv
  <2>6. ElementsInv'
    BY <1>1, <1>3, <2>2, ElementsKept DEF Blinded
  <2>7. \A x \in Walkers \ {b} : pc'[x] = pc[x]
    BY <1>2, <1>17, <2>1
  <2> QED
    BY <1>1, <1>2, <1>7, <1>9, <1>10, <1>17, <2>1, <2>2, <2>3, <2>5, <2>6, <2>7, BranchStep
<1>18. CASE /\ Answered(t, "good") /\ b = "verifier" /\ UNCHANGED attest
            /\ pc' = [pc EXCEPT !["verifier"] = "VeilRejected"]
  BY <1>1, <1>2, <1>7, <1>9, <1>18, VerifierStops
<1> QED
  BY <1>1, <1>15, <1>16, <1>17, <1>18

LEMMA JoinTrace ==
  ASSUME PadInv, TraceInv, Join
  PROVE  TraceInv'
<1>1. PICK p \in {"GrindingLimitExceeded", "shipped", "UnsatisfiedCircuit"} :
        /\ pc["prover"] = "join" /\ pc["pcs"] = "done" /\ pc' = [pc EXCEPT !["prover"] = p]
        /\ p = "shipped" => pc["veil"] = "done"
        /\ UNCHANGED <<oracle, tr, blk, chal, cursor, start, link, trial, proof, attest>>
  BY DEF Join, Goto
<1>2. "prover" \in Main /\ "prover" \in Threads /\ "verifier" \in Threads /\ Walkers \subseteq Threads
      /\ "prover" \in Walkers
  BY ThreadNames
<1>3. pc'["prover"] = p /\ \A x \in Threads \ {"prover"} : pc'[x] = pc[x]
  BY <1>1, <1>2, TypesGive
<1>4. AttestInv /\ ElementsInv
  BY Sides
<1>5. Grown(oracle, oracle')
  BY <1>1, SameOracle DEF PadInv
<1>6. pc["verifier"] = "idle" /\ pc'["verifier"] = "idle"
  BY <1>1, <1>2, <1>3 DEF PadInv, Pads
<1>7. OpeningInv'
  BY <1>3, <1>6 DEF OpeningInv, Side
<1>8. AttestInv'
  <2>1. \A x \in Main : /\ Opened(x, attest["pcs"]) => Opened(x, attest["pcs"])'
                        /\ Proved(x, attest["veil"]) => Proved(x, attest["veil"])'
    BY <1>1, <1>5, AttestsStay
  <2> QED
    BY <1>1, <1>2, <1>3, <1>4, <1>6, <2>1 DEF AttestInv
<1>9. ElementsInv'
  BY <1>1, <1>4, ElementsKept DEF Blinded
<1>10. p \in Errors \cup {"shipped", "accept"}
  BY PlaceNames
<1>11. /\ \A x \in Walkers : tr'[x] = tr[x] /\ blk'[x] = blk[x]
       /\ \A x \in Walkers \ {"prover"} : pc'[x] = pc[x]
       /\ \A x \in Main, f \in Field \ {"fold_nonces"} : proof'[x][f] = proof[x][f]
  BY <1>1, <1>2, <1>3
<1> QED
  BY <1>1, <1>2, <1>3, <1>5, <1>7, <1>8, <1>9, <1>10, <1>11, BranchStep

LEMMA AlteredNamed ==
  ASSUME NEW q, DOMAIN q = Field, \A f \in Field : q[f] \in Seq(Sayable), Named(q), NEW r \in Altered(q)
  PROVE  Named(r) /\ Total(r)
<1>1. ASSUME NEW s, NEW f \in Field, r = [q EXCEPT ![f] = s],
             \A i \in DOMAIN s : s[i].name = f /\ (f \notin Nonces => s[i].i = i)
      PROVE  Named(r) /\ Total(r)
  <2>1. DOMAIN r = Field /\ r[f] = s /\ \A g \in Field \ {f} : r[g] = q[g]
    BY <1>1
  <2>2. Named(r)
    BY <1>1, <2>1 DEF Named
  <2>3. r = [g \in Field |-> IF g = f THEN s ELSE q[g]]
    BY <1>1
  <2>4. Total(r)
    BY <2>1, <2>3 DEF Total
  <2> QED
    BY <2>2, <2>4
<1>2. Nonces \subseteq Field /\ Cuttable \subseteq Field /\ Extendable \subseteq Nonces
  <2>1. Cuttable \subseteq Private \cup {"q1", "q2", "direct_blinds", "fold_nonces"}
    BY NamesApart DEF Cuttable, RingFields, RingClaimFields, Private, PiopFields
  <2>2. Nonces \subseteq Field /\ Private \subseteq Field
        /\ {"q1", "q2", "direct_blinds", "fold_nonces"} \subseteq Field
    BY NamesApart DEF Nonces, Public
  <2>3. Extendable \subseteq Nonces
    BY DEF Nonces, Extendable
  <2> QED
    BY <2>1, <2>2, <2>3
<1>3. ASSUME NEW f \in Field, NEW i \in DOMAIN q[f], NEW v, r = [q EXCEPT ![f] = [q[f] EXCEPT ![i] = v]],
             v.name = f, f \notin Nonces => v.i = i
      PROVE  Named(r) /\ Total(r)
  <2> DEFINE s == [q[f] EXCEPT ![i] = v]
  <2>1. \A j \in DOMAIN q[f] : q[f][j].name = f /\ (f \notin Nonces => q[f][j].i = j)
    BY DEF Named
  <2>2. DOMAIN s = DOMAIN q[f] /\ s[i] = v /\ \A j \in DOMAIN q[f] \ {i} : s[j] = q[f][j]
    OBVIOUS
  <2>3. r = [q EXCEPT ![f] = s]
    BY <1>3
  <2> HIDE DEF s
  <2>4. \A j \in DOMAIN s : s[j].name = f /\ (f \notin Nonces => s[j].i = j)
    BY <1>3, <2>1, <2>2
  <2> QED
    BY <1>1, <2>3, <2>4
<1>4. ASSUME NEW f \in Field \ Nonces, NEW i \in DOMAIN q[f], r = [q EXCEPT ![f][i].intact = FALSE]
      PROVE  Named(r) /\ Total(r)
  <2> DEFINE v == [q[f][i] EXCEPT !.intact = FALSE]
  <2>1. q[f][i] \in Sayable
    <3>1. q[f] \in Seq(Sayable)
      OBVIOUS
    <3> HIDE DEF Sayable
    <3> QED
      BY <3>1
  <2>2. v.name = q[f][i].name /\ v.i = q[f][i].i
    BY <2>1 DEF Sayable, Element
  <2>3. q[f][i].name = f /\ q[f][i].i = i
    BY DEF Named
  <2>4. r = [q EXCEPT ![f] = [q[f] EXCEPT ![i] = v]]
    BY <1>4
  <2> HIDE DEF v
  <2> QED
    BY <1>3, <2>2, <2>3, <2>4
<1>5. ASSUME NEW f \in Nonces, NEW i \in DOMAIN q[f], NEW n, r = [q EXCEPT ![f][i] = V(f, n)]
      PROVE  Named(r) /\ Total(r)
  <2>1. PICK v : v = V(f, n)
    OBVIOUS
  <2>2. v.name = f /\ f \in Field
    BY <1>2, <2>1 DEF V
  <2>3. r = [q EXCEPT ![f] = [q[f] EXCEPT ![i] = v]]
    BY <1>5, <2>1
  <2> QED
    BY <1>3, <2>2, <2>3
<1>6. ASSUME NEW f \in Cuttable, r = [q EXCEPT ![f] = Truncated(q, f)]
      PROVE  Named(r) /\ Total(r)
  <2>1. f \in Field
    BY <1>2
  <2>2. PICK m \in Int : m <= Len(q[f]) /\ Truncated(q, f) = SubSeq(q[f], 1, m)
    <3>1. Len(q[f]) \in Nat
      <4> HIDE DEF Sayable
      <4> QED
        BY <2>1
    <3>2. \A l \in Nat : l - 2 \in Int /\ l - 1 \in Int /\ l - 2 <= l /\ l - 1 <= l
      OBVIOUS
    <3>3. CASE f \in {"rounds", "lc_rounds"}
      <4>1. Truncated(q, f) = SubSeq(q[f], 1, Len(q[f]) - 2)
        BY <3>3 DEF Truncated
      <4> QED
        BY <3>1, <3>2, <4>1
    <3>4. CASE f \notin {"rounds", "lc_rounds"}
      <4>1. Truncated(q, f) = SubSeq(q[f], 1, Len(q[f]) - 1)
        BY <3>4 DEF Truncated
      <4> QED
        BY <3>1, <3>2, <4>1
    <3> QED
      BY <3>3, <3>4
  <2>3. \A S : \A s \in Seq(S) : \A l \in Int : l <= Len(s) =>
           \A j \in DOMAIN SubSeq(s, 1, l) : j \in DOMAIN s /\ SubSeq(s, 1, l)[j] = s[j]
    OBVIOUS
  <2>4. \A j \in DOMAIN SubSeq(q[f], 1, m) : j \in DOMAIN q[f] /\ SubSeq(q[f], 1, m)[j] = q[f][j]
    <3> HIDE DEF Sayable
    <3> QED
      BY <2>1, <2>2, <2>3
  <2>5. PICK s : s = Truncated(q, f)
    OBVIOUS
  <2>6. \A j \in DOMAIN s : s[j].name = f /\ (f \notin Nonces => s[j].i = j)
    BY <2>1, <2>2, <2>4, <2>5 DEF Named
  <2> QED
    BY <1>1, <1>6, <2>1, <2>5, <2>6
<1>11. ASSUME NEW f \in Extendable, NEW k \in 1..2, NEW n, r = [q EXCEPT ![f] = Extended(q, f, k, n)]
       PROVE  Named(r) /\ Total(r)
  <2>1. f \in Field /\ f \in Nonces
    BY <1>2
  <2>2. PICK old, more, s : old = q[f] /\ more = [i \in 1..k |-> V(f, n)] /\ s = old \o more
    OBVIOUS
  <2>3. old \in Seq(Sayable) /\ \A i \in DOMAIN old : old[i].name = f
    BY <2>1, <2>2 DEF Named
  <2>4. Len(more) = k /\ \A i \in 1..k : more[i].name = f
    BY <2>2 DEF V
  <2>5. \A i \in DOMAIN s : (i \in DOMAIN old /\ s[i] = old[i]) \/ \E j \in 1..k : s[i] = more[j]
    <3>1. Len(old) \in Nat /\ DOMAIN old = 1..Len(old)
      <4> HIDE DEF Sayable
      <4> QED
        BY <2>3
    <3>2. s = [i \in 1..(Len(old) + k) |-> IF i <= Len(old) THEN old[i] ELSE more[i - Len(old)]]
      BY <2>2, <2>4, <3>1
    <3> QED
      BY <3>1, <3>2
  <2>6. r = [q EXCEPT ![f] = s]
    BY <1>11, <2>2 DEF Extended
  <2>7. \A i \in DOMAIN s : s[i].name = f
    BY <2>3, <2>4, <2>5
  <2> QED
    BY <1>1, <2>1, <2>6, <2>7
<1>7. CASE \E f \in Field \ Nonces : \E i \in DOMAIN q[f] : r = [q EXCEPT ![f][i].intact = FALSE]
  BY <1>4, <1>7
<1>8. CASE \E f \in Nonces : \E i \in DOMAIN q[f] : \E n \in 0..MAX_BAD : r = [q EXCEPT ![f][i] = V(f, n)]
  BY <1>5, <1>8
<1>9. CASE \E f \in Cuttable : q[f] # <<>> /\ r = [q EXCEPT ![f] = Truncated(q, f)]
  BY <1>6, <1>9
<1>12. CASE \E f \in Extendable : \E k \in 1..2 : \E n \in 0..MAX_BAD : r = [q EXCEPT ![f] = Extended(q, f, k, n)]
  BY <1>11, <1>12
<1>10. \/ \E f \in Field \ Nonces : \E i \in DOMAIN q[f] : r = [q EXCEPT ![f][i].intact = FALSE]
       \/ \E f \in Nonces : \E i \in DOMAIN q[f] : \E n \in 0..MAX_BAD : r = [q EXCEPT ![f][i] = V(f, n)]
       \/ \E f \in Cuttable : q[f] # <<>> /\ r = [q EXCEPT ![f] = Truncated(q, f)]
       \/ \E f \in Extendable : \E k \in 1..2 : \E n \in 0..MAX_BAD : r = [q EXCEPT ![f] = Extended(q, f, k, n)]
  BY AlteredIs, Zenon
<1> QED
  BY <1>7, <1>8, <1>9, <1>10, <1>12, Zenon

LEMMA DeliverTrace ==
  ASSUME PadInv, TraceInv, Deliver
  PROVE  TraceInv'
<1>1. PICK q \in {proof["prover"]} \cup Altered(proof["prover"]) :
         /\ pc["prover"] = "shipped" /\ pc["verifier"] = "idle" /\ pc' = [pc EXCEPT !["verifier"] = "bind"]
         /\ proof' = [proof EXCEPT !["verifier"] = q]
         /\ UNCHANGED <<oracle, tr, blk, chal, cursor, start, link, trial, attest>>
  BY DEF Deliver, Goto
<1>2. /\ "prover" \in Main /\ "verifier" \in Main /\ Walkers \subseteq Threads
      /\ Second["verifier"] = "recheck" /\ Second["prover"] = "replay" /\ Owner["recheck"] = "verifier"
      /\ Owner["verifier"] = "verifier" /\ "recheck" \in Walkers /\ "recheck" # "verifier"
      /\ "verifier" \in Walkers
  BY ThreadNames
<1>3. pc'["verifier"] = "bind" /\ \A x \in Threads \ {"verifier"} : pc'[x] = pc[x]
  BY <1>1, <1>2, TypesGive
<1>4. proof'["verifier"] = q /\ proof'["prover"] = proof["prover"]
  BY <1>1, <1>2, TypesGive
<1>5. AttestInv /\ ElementsInv /\ SideInv("prover") /\ SideInv("verifier")
  BY <1>2, Sides
<1>6. Grown(oracle, oracle')
  BY <1>1, SameOracle DEF PadInv
<1>7. pc["recheck"] = "idle" /\ blk["recheck"] = 1 /\ blk["verifier"] = 1
  <2>1. pc["recheck"] = "idle"
    BY <1>1, <1>2, <1>5, PlaceNames DEF SideInv, SecondInv, Blinded
  <2> QED
    BY <1>1, <1>2, <2>1 DEF PadInv, Control
<1>8. \A x \in {"verifier", "recheck"} : chal[x] \in Seq(Nat \ {0}) /\ Len(chal[x]) = 0
  <2>1. \A x \in {"verifier", "recheck"} : chal[x] \in Seq(Nat \ {0}) /\ Len(chal[x]) + 1 = 1
    BY <1>2, <1>5, <1>7, TypesGive DEF SideInv, WalkInv, WalkAt
  <2> QED
    BY <2>1
<1>9. SideProof("verifier")' = q
  BY <1>4 DEF SideProof
<1>10. WalkInv("verifier")' /\ WalkInv("recheck")'
  <2>1. \A x \in {"verifier", "recheck"} : WalkChain(oracle, q, chal[x])
    BY <1>8 DEF WalkChain
  <2>2. \A x \in {"verifier", "recheck"} : \A p \in {"idle", "bind"} : WalkAt(oracle, q, chal[x], 1, p, tr[x])
    BY <1>8, <2>1, PinsType DEF WalkAt
  <2>3. pc'["recheck"] = "idle"
    BY <1>2, <1>3, <1>7
  <2> QED
    BY <1>1, <1>2, <1>3, <1>7, <1>9, <2>2, <2>3 DEF WalkInv
<1>11. LinkInv("verifier")'
  <2>1. link["verifier"].digest = 0 /\ link["verifier"].blind = 0 /\ tr["verifier"] = After(0)
    BY <1>1, <1>5 DEF SideInv, LinkInv, LinkAt, Unlinked
  <2>2. LinkAt(oracle, q, 0, 0, chal["verifier"], 1, "bind", After(0), start["verifier"])
    BY DEF LinkAt, Bound, Blinded, Unlinked
  <2> QED
    BY <1>1, <1>3, <1>7, <1>9, <2>1, <2>2 DEF LinkInv, Bound
<1>12. SecondInv("verifier")'
  BY <1>2, <1>3, <1>7 DEF SecondInv
<1>13. SideInv("prover")'
  <2>1. StillSide("prover")
    BY <1>1, <1>2, <1>3, <1>4, ThreadNames DEF StillSide, StillWalker
  <2> QED
    BY <1>2, <1>5, <1>6, <2>1, StillSideKeeps
<1>14. OpeningInv'
  BY <1>2, <1>3, <1>1, ThreadNames DEF OpeningInv, Side
<1>15. AttestInv'
  <2>1. PICK a, v : a = attest["pcs"] /\ v = attest["veil"]
    OBVIOUS
  <2>2. a # <<>> /\ v # <<>> /\ Opened("prover", a) /\ Proved("prover", v)
    BY <1>1, <1>5, <2>1 DEF AttestInv
  <2>3. Opened("prover", a)'
    BY <1>1, <1>2, <1>4, <1>6, <2>2, OpenedGrows
  <2>4. Proved("prover", v)'
    <3>1. SameOn(SideProof("prover"), SideProof("prover")', {"q1", "q2", "veil_root"})
      BY <1>2, <1>4, SameProof DEF SameOn
    <3> QED
      BY <1>1, <1>2, <1>4, <1>6, <2>2, <3>1, ProvedGrows
  <2>5. attest'["pcs"] = a /\ attest'["veil"] = v
    BY <1>1, <2>1
  <2>6. pc'["prover"] = "shipped"
    BY <1>1, <1>3, ThreadNames
  <2> QED
    BY <1>3, <2>2, <2>3, <2>4, <2>5, <2>6 DEF AttestInv
<1>16. ElementsInv'
  <2>1. Named(q) /\ Total(q)
    <3>1. DOMAIN proof["prover"] = Field
      BY <1>2, TypesGive DEF ProofOK
    <3>2. \A f \in Field : proof["prover"][f] \in Seq(Sayable)
      <4>1. \A f \in Public : proof["prover"][f] \in Seq(Sayable)
        BY <1>2, TypesGive DEF ProofOK
      <4>2. ASSUME NEW f \in Private PROVE proof["prover"][f] \in Seq(Sayable)
        <5>1. proof["prover"][f] = [i \in 1..FieldLen[f] |-> Padded(f, i)]
          BY <1>1 DEF PadInv, Pads, Unmasked
        <5> QED
          BY <5>1, MaskedFields, Zenon
      <4> QED
        BY <4>1, <4>2, NamesApart
    <3>3. Named(proof["prover"]) /\ Total(proof["prover"])
      BY <1>2, <1>5 DEF ElementsInv
    <3>4. CASE q = proof["prover"]
      BY <3>3, <3>4
    <3>5. CASE q \in Altered(proof["prover"])
      BY <3>1, <3>2, <3>3, <3>5, AlteredNamed
    <3> QED
      BY <3>4, <3>5
  <2>2. QSlice("q1")' = QSlice("q1") /\ QSlice("q2")' = QSlice("q2")
    BY <1>1 DEF QSlice
  <2>3. pc["prover"] \in Blinded
    BY <1>1 DEF Blinded
  <2> QED
    BY <1>2, <1>4, <1>5, <2>1, <2>2, <2>3, ThreadNames DEF ElementsInv
<1>17. SideInv("verifier")'
  BY <1>2, <1>10, <1>11, <1>12 DEF SideInv
<1> QED
  BY <1>2, <1>13, <1>14, <1>15, <1>16, <1>17, BothSides, OtherIs

LEMMA InitTrace == Init => TraceInv
<1> SUFFICES ASSUME Init PROVE TraceInv
  OBVIOUS
<1>1. PadInv
  BY InitPads
<1>2. /\ pc["prover"] = "bind" /\ pc["verifier"] = "idle" /\ pc["replay"] = "idle" /\ pc["recheck"] = "idle"
      /\ \A x \in Threads : tr[x] = After(0) /\ blk[x] = 1
      /\ \A x \in Walkers : chal[x] = <<>>
      /\ \A x \in Main : link[x].digest = 0 /\ link[x].blind = 0 /\ proof[x] = [f \in Field |-> Honest(f)]
      /\ attest["pcs"] = <<>> /\ attest["veil"] = <<>>
  <2>1. /\ pc["prover"] = "bind" /\ pc["verifier"] = "idle" /\ pc["replay"] = "idle" /\ pc["recheck"] = "idle"
        /\ \A x \in Threads : tr[x] = After(0) /\ blk[x] = 1
    BY ThreadNames DEF Init, After
  <2>2. /\ \A x \in Walkers : chal[x] = <<>>
        /\ \A x \in Main : link[x].digest = 0 /\ link[x].blind = 0
    BY DEF Init, Walkers
  <2>3. \A x \in Main : proof[x] = [f \in Field |-> Honest(f)]
    BY DEF Init
  <2>4. attest["pcs"] = <<>> /\ attest["veil"] = <<>>
    BY DEF Init
  <2> QED
    BY <2>1, <2>2, <2>3, <2>4
<1>3. ASSUME NEW q, NEW p \in {"idle", "bind"} PROVE WalkAt(oracle, q, <<>>, 1, p, After(0))
  <2>1. Len(<<>>) = 0 /\ 1 <= N + 1
    BY PinsType
  <2>2. WalkChain(oracle, q, <<>>)
    BY <2>1 DEF WalkChain
  <2> QED
    BY <2>1, <2>2 DEF WalkAt
<1>4. ASSUME NEW q, NEW p \in {"idle", "bind"}, NEW s PROVE LinkAt(oracle, q, 0, 0, <<>>, 1, p, After(0), s)
  BY DEF LinkAt, Bound, Blinded, Unlinked
<1>5. \A x \in Walkers : pc[x] \in {"idle", "bind"}
  BY <1>2, ThreadNames
<1>6. \A x \in Walkers : WalkInv(x)
  <2> TAKE x \in Walkers
  <2>1. x \in Threads
    BY ThreadNames
  <2> QED
    BY <1>2, <1>3, <1>5, <2>1 DEF WalkInv
<1>7. \A x \in Main : LinkInv(x)
  <2> TAKE x \in Main
  <2>1. x \in Threads /\ x \in Walkers
    BY ThreadNames
  <2> QED
    BY <1>2, <1>4, <1>5, <2>1 DEF LinkInv, Bound
<1>8. \A x \in Main : SecondInv(x)
  BY <1>2, ThreadNames DEF SecondInv
<1>9. OpeningInv /\ AttestInv
  BY <1>2 DEF OpeningInv, AttestInv, Side
<1>10. ElementsInv
  <2> DEFINE q == [f \in Field |-> Honest(f)]
  <2>1. \A f \in Field : Len(Honest(f)) = FieldLen[f] /\ \A i \in DOMAIN Honest(f) : Honest(f)[i] = V(f, i)
    <3> TAKE f \in Field
    <3>1. Honest(f) = [i \in 1..FieldLen[f] |-> V(f, i)] /\ FieldLen[f] \in Nat
      BY LengthsAreNat DEF Honest
    <3> QED
      BY <3>1
  <2>2. \A f \in Field : q[f] = Honest(f)
    OBVIOUS
  <2>3. Total(q)
    BY <2>2 DEF Total
  <2> HIDE DEF q
  <2>4. Named(q)
    BY <2>1, <2>2 DEF Named, V
  <2>5. proof["prover"] = q /\ \A x \in Main : proof[x] = q
    BY <1>2, ThreadNames DEF q
  <2>6. "pcs_body" \in Field /\ "veil_body" \in Field
    BY NamesApart DEF Public
  <2> QED
    BY <1>2, <2>1, <2>2, <2>3, <2>4, <2>5, <2>6 DEF ElementsInv, Blinded
<1> QED
  BY <1>6, <1>7, <1>8, <1>9, <1>10 DEF TraceInv

LEMMA TraceInvStep == PadInv /\ TraceInv /\ [Next]_vars => TraceInv'
<1> SUFFICES ASSUME PadInv, TraceInv, [Next]_vars PROVE TraceInv'
  OBVIOUS
<1>1. CASE UNCHANGED vars
  <2>1. \A b \in Main : SideInv(b)
    BY Sides
  <2>2. Grown(oracle, oracle')
    BY <1>1, SameOracle DEF PadInv, vars
  <2>3. ASSUME NEW b \in Main PROVE SideInv(b)'
    <3>1. StillSide(b)
      BY <1>1 DEF StillSide, StillWalker, vars
    <3> QED
      BY <2>1, <2>2, <3>1, StillSideKeeps
  <2>4. OpeningInv' /\ ElementsInv'
    <3>1. OpeningInv /\ ElementsInv
      BY Sides
    <3>2. OpeningInv'
      BY <1>1, <3>1 DEF vars, OpeningInv, Side, SideProof
    <3> QED
      BY <1>1, <3>1, <3>2, ElementsKept DEF vars
  <2>5. AttestInv'
    <3>1. \A b \in Main : /\ Opened(b, attest["pcs"]) => Opened(b, attest["pcs"])'
                          /\ Proved(b, attest["veil"]) => Proved(b, attest["veil"])'
      BY <1>1, <2>2, AttestsStay DEF vars
    <3>2. AttestInv
      BY Sides
    <3> QED
      BY <1>1, <3>1, <3>2, ThreadNames DEF vars, AttestInv
  <2>6. "prover" \in Main /\ Other("prover") \in Main
    BY OtherIs, ThreadNames
  <2> QED
    BY <2>3, <2>4, <2>5, <2>6, BothSides
<1>2. CASE Step
  <2>1. ASSUME NEW b \in Main, Bind(b) \/ Rings(b) \/ StartCircuit(b) \/ Fork(b) PROVE TraceInv'
    BY <2>1, BindTrace, RingsTrace, StartCircuitTrace, ForkTrace
  <2>2. ASSUME NEW b \in Main \cup Replay, RefuseShape(b) PROVE TraceInv'
    BY <2>2, RefuseShapeTrace DEF Walkers
  <2>3. ASSUME NEW b \in Main \cup Replay, NEW c \in Class, WalkBlock(b, c) PROVE TraceInv'
    BY <2>3, WalkIsDraw, DrawBlockTrace DEF Walkers
  <2>4. ASSUME NEW b \in Main, NEW c \in Class, SampleNonzero(b, c) PROVE TraceInv'
    BY <2>4, SampleNonzeroTrace
  <2>5. ASSUME NEW c \in Class, GrindBlind(c) \/ VerifyBlind(c) \/ PcsGrind(c) \/ PcsVerifyPow(c) PROVE TraceInv'
    BY <2>5, GrindBlindTrace, VerifyBlindTrace, PcsGrindTrace, PcsVerifyPowTrace
  <2>6. ASSUME MaskMessages \/ Walked \/ PcsDraw \/ VeilBranch \/ Join \/ Deliver PROVE TraceInv'
    BY <2>6, MaskMessagesTrace, WalkedTrace, PcsDrawTrace, VeilBranchTrace, JoinTrace, DeliverTrace
  <2> QED
    BY <1>2, <2>1, <2>2, <2>3, <2>4, <2>5, <2>6 DEF Step
<1>3. CASE Done
  BY <1>1, <1>3 DEF Done
<1> QED
  BY <1>1, <1>2, <1>3 DEF Next

-----------------------------------------------------------------------------
(* An accepted proof is the one that was sent.                                    *)
LEMMA EqPointShows ==
  ASSUME NEW q, ProofOK(q),
         \A f \in PiopFields : q[f] \in Seq(Sayable) /\ Len(q[f]) = FieldLen[f]
  PROVE  EqPoint(q).since # <<>> /\ EqPoint(q).since[4] = Item("bytes", q["proof_nonce"])
<1> DEFINE s == StatementItems(q) \o BindItems(q)
           e == Said(q, SaysOf(1))
<1>1. s \in Seq(SayableItem) /\ e \in Seq(SayableItem)
  BY ItemsTyped, SaidTyped, PinsType
<1>2. Len(s) = 11 /\ s[4] = Item("bytes", q["proof_nonce"])
  BY DEF StatementItems, BindItems
<1>3. EqPoint(q).since = (<<>> \o s) \o e
  BY DEF EqPoint, BeginT, Absorb, After
<1> HIDE DEF s, e, SayableItem
<1>4. (<<>> \o s) \o e = s \o e
  BY <1>1
<1>5. Len(s \o e) >= 11 /\ (s \o e)[4] = s[4]
  <2>1. Len(s \o e) = Len(s) + Len(e) /\ \A i \in 1..Len(s) : (s \o e)[i] = s[i]
    BY <1>1, Concatenation
  <2>2. Len(e) \in Nat
    BY <1>1
  <2> QED
    BY <1>2, <2>1, <2>2
<1>6. Len(<<>>) = 0
  OBVIOUS
<1> QED
  BY <1>2, <1>3, <1>4, <1>5, <1>6

(* The last message of a transcript can be told. *)
LEMMA LastSaid ==
  ASSUME NEW t \in Transcript, NEW a \in SayableItem, NEW b \in SayableItem,
         Absorb(t, <<a>>) = Absorb(t, <<b>>)
  PROVE  a = b
<1>1. <<a>> \in Seq(SayableItem) /\ <<b>> \in Seq(SayableItem)
  BY Tuples
<1>2. t.since \o <<a>> = t.since \o <<b>>
  <2>1. \A s \in Seq(SayableItem) : Absorb(t, s).since = t.since \o s
    BY AbsorbTyped
  <2>2. Absorb(t, <<a>>).since = t.since \o <<a>> /\ Absorb(t, <<b>>).since = t.since \o <<b>>
    BY <1>1, <2>1
  <2> QED
    BY <2>2
<1>3. t.since \in Seq(SayableItem)
  BY DEF Transcript
<1> HIDE DEF SayableItem
<1>4. (t.since \o <<a>>)[Len(t.since) + 1] = a /\ (t.since \o <<b>>)[Len(t.since) + 1] = b
  BY <1>1, <1>3
<1> QED
  BY <1>2, <1>4

(* Backwards from the last draw, the nonces of two openings with one end agree.    *)
SayableNonces(q) == \A j \in 1..FoldSites : q["fold_nonces"][j] \in Sayable

LEMMA FoldsAgree ==
  ASSUME NEW o, NEW q, NEW r, NEW k, NEW d, NEW e,
         FoldChain(o, q, k, d, FoldSites + 1), FoldChain(o, r, k, e, FoldSites + 1),
         d[FoldSites + 1] = e[FoldSites + 1],
         SayableNonces(q), SayableNonces(r)
  PROVE  \A j \in 1..FoldSites : q["fold_nonces"][j] = r["fold_nonces"][j]
<1>1. FoldSites \in Nat
  BY Bounds
<1>2. ASSUME NEW j \in 1..FoldSites, d[j + 1] = e[j + 1]
      PROVE  d[j] = e[j] /\ q["fold_nonces"][j] = r["fold_nonces"][j]
  <2>1. j + 1 \in 1..(FoldSites + 1) /\ j + 1 # 1 /\ (j + 1) - 1 = j
    BY <1>1
  <2>2. FoldT(q, d, j) = FoldT(r, e, j)
    BY <1>2, <2>1 DEF FoldChain, IsId
  <2>3. PICK x \in Sayable, y \in Sayable : x = q["fold_nonces"][j] /\ y = r["fold_nonces"][j]
    BY DEF SayableNonces
  <2>4. d[j] = e[j]
    BY <2>2 DEF FoldT, Absorb, After
  <2>5. Absorb(After(d[j]), <<PowBytes(x)>>) = Absorb(After(d[j]), <<PowBytes(y)>>)
    BY <2>2, <2>3, <2>4 DEF FoldT
  <2>6. <<>> \o <<PowBytes(x)>> = <<>> \o <<PowBytes(y)>>
    BY <2>5 DEF Absorb, After
  <2>7. PowBytes(x) = PowBytes(y)
    BY <2>6
  <2>8. <<x>> = <<y>>
    BY <2>7 DEF PowBytes, Item
  <2> QED
    BY <2>3, <2>4, <2>8
<1>3. \A j \in 1..FoldSites : d[j + 1] = e[j + 1]
  <2> DEFINE S == {j \in 0..FoldSites : d[j + 1] # e[j + 1]}
  <2>1. CASE S = {}
    <3>1. \A j \in 1..FoldSites : j \in 0..FoldSites
      BY <1>1
    <3>2. \A j \in 0..FoldSites : d[j + 1] = e[j + 1]
      BY <2>1
    <3> QED
      BY <3>1, <3>2
  <2>2. CASE S # {}
    <3>1. PICK m \in S : \A j \in S : j <= m
      BY <1>1, <2>2, MostNat
    <3>2. m # FoldSites /\ m + 1 \in 1..FoldSites
      BY <1>1, <3>1
    <3>3. m + 1 \notin S
      BY <1>1, <3>1, <3>2
    <3>4. d[(m + 1) + 1] = e[(m + 1) + 1]
      BY <3>2, <3>3
    <3> QED
      BY <1>2, <3>1, <3>2, <3>4
  <2> QED
    BY <2>1, <2>2
<1> QED
  BY <1>2, <1>3

(* A circuit shows every private message of a proof. *)
LEMMA CircuitShows ==
  ASSUME Circuit("prover") = Circuit("verifier"), NEW f \in Private,
         proof["prover"][f] \in Seq(Sayable), proof["verifier"][f] \in Seq(Sayable),
         Len(proof["prover"][f]) = FieldLen[f], Len(proof["verifier"][f]) = FieldLen[f]
  PROVE  proof["prover"][f] = proof["verifier"][f]
<1>1. Range(UnmaskOrder) = Private
  BY UnmaskBefore
<1>2. [i \in 1..FieldLen[f] |-> <<proof["prover"][f][i], Before(UnmaskOrder)[f] + i>>]
        = [i \in 1..FieldLen[f] |-> <<proof["verifier"][f][i], Before(UnmaskOrder)[f] + i>>]
  <2>1. Circuit("prover").wires[f] = Circuit("verifier").wires[f]
    OBVIOUS
  <2> QED
    BY <1>1, <2>1 DEF Circuit
<1>3. \A i \in 1..FieldLen[f] : proof["prover"][f][i] = proof["verifier"][f][i]
  <2> TAKE i \in 1..FieldLen[f]
  <2>1. <<proof["prover"][f][i], Before(UnmaskOrder)[f] + i>> = <<proof["verifier"][f][i], Before(UnmaskOrder)[f] + i>>
    BY <1>2, Zenon
  <2> QED
    BY <2>1
<1>4. \A s, t \in Seq(Sayable) : Len(s) = Len(t) /\ (\A i \in 1..Len(s) : s[i] = t[i]) => s = t
  <2> HIDE DEF Sayable
  <2> QED
    OBVIOUS
<1> QED
  BY <1>3, <1>4

LEMMA AcceptedIsSent ==
  ASSUME PadInv, TraceInv, pc["verifier"] = "accept"
  PROVE  \A f \in Field \ {"surplus"} : proof["verifier"][f] = proof["prover"][f]
<1>a. PICK p, q : p = proof["prover"] /\ q = proof["verifier"]
  OBVIOUS
<1>b. PICK c, k, d, n : c = chal["prover"] /\ k = link["prover"].blind /\ d = link["prover"].digest /\ n = c[1]
  OBVIOUS
<1>1. /\ "prover" \in Main /\ "verifier" \in Main /\ "prover" \in Walkers /\ "verifier" \in Walkers
      /\ Owner["verifier"] = "verifier" /\ Owner["prover"] = "prover"
  BY ThreadNames
<1>2. pc["prover"] = "shipped"
  BY DEF PadInv, Pads
<1>3. SideInv("prover") /\ SideInv("verifier") /\ AttestInv /\ ElementsInv /\ ProofOK(p) /\ ProofOK(q) /\ Counted(p)
  BY <1>1, <1>a, Sides, TypesGive
<1>4. SideProof("verifier") = q /\ \A f \in Field : SideProof("prover")[f] = p[f]
  BY <1>1, <1>2, <1>a, SideProofIs DEF Unmasked
<1>5. /\ \A f \in Field : p[f] \in Seq(Sayable) /\ q[f] \in Seq(Sayable)
      /\ \A f \in Private : Len(p[f]) = FieldLen[f]
  <2>1. \A f \in Public : p[f] \in Seq(Sayable) /\ q[f] \in Seq(Sayable)
    BY <1>3 DEF ProofOK
  <2>2. \A f \in Private : q[f] \in Seq(Sayable)
    BY <1>a DEF PadInv, Pads
  <2>3. ASSUME NEW f \in Private PROVE p[f] \in Seq(Sayable)
    <3>1. p[f] = [i \in 1..FieldLen[f] |-> Padded(f, i)]
      BY <1>2, <1>a DEF PadInv, Pads, Unmasked
    <3> QED
      BY <3>1, MaskedFields, Zenon
  <2>4. \A f \in Private : Len(p[f]) = FieldLen[f]
    BY <1>3, <1>a, NamesApart DEF ElementsInv
  <2> QED
    BY <2>1, <2>2, <2>3, <2>4, NamesApart
<1>6. \A f \in Private : Len(q[f]) = FieldLen[f]
  <2>1. blk["verifier"] = N + 1 /\ N + 1 > 1
    BY <1>3, PinsType DEF SideInv, LinkInv, LinkAt, Bound
  <2>2. Shaped("verifier", PiopFields) /\ Shaped("verifier", RingFields)
    BY <1>3, <2>1, ThreadNames DEF SideInv, WalkInv, SecondInv
  <2>3. Private \subseteq PiopFields \cup RingFields
    BY DEF Private, RingFields, RingClaimFields
  <2> QED
    BY <1>1, <1>a, <2>2, <2>3 DEF Shaped
<1>7. /\ Opened("prover", attest["pcs"]) /\ Opened("verifier", attest["pcs"])
      /\ Proved("prover", attest["veil"]) /\ Proved("verifier", attest["veil"])
      /\ p["pcs_body"] = q["pcs_body"] /\ p["veil_body"] = q["veil_body"]
      /\ Len(q["fold_nonces"]) = FoldSites
  BY <1>2, <1>3, <1>a DEF AttestInv, ElementsInv, OpeningIsWhole
<1>8. PICK dp, dq \in [1..(FoldSites + 1) -> DOMAIN oracle] :
        /\ FoldChain(oracle, SideProof("prover"), k, dp, FoldSites + 1)
        /\ FoldChain(oracle, q, link["verifier"].blind, dq, FoldSites + 1)
        /\ PcsClaim("prover", dp[FoldSites + 1]) = PcsClaim("verifier", dq[FoldSites + 1])
  BY <1>4, <1>7, <1>b DEF Opened
<1>9. PICK ip, iq : VeilClaim("prover", ip) = VeilClaim("verifier", iq)
  BY <1>7 DEF Proved
<1>10. /\ p["root"] = q["root"] /\ p["outer"] = q["outer"] /\ chal["verifier"] = c
       /\ p["q1"] = q["q1"] /\ p["q2"] = q["q2"] /\ link["verifier"].blind = k
       /\ p["statement"] = q["statement"] /\ link["verifier"].digest = d
       /\ p["direct_blinds"] = q["direct_blinds"] /\ dp[FoldSites + 1] = dq[FoldSites + 1]
  <2>1. PICK a, b : /\ a = PcsClaim("prover", dp[FoldSites + 1])
                    /\ b = PcsClaim("verifier", dq[FoldSites + 1]) /\ a = b
    BY <1>8
  <2>2. /\ a.tree = <<p["root"], p["outer"]>> /\ b.tree = <<q["root"], q["outer"]>>
        /\ a.points = c /\ b.points = chal["verifier"]
        /\ a.slices = <<p["q1"], p["q2"]>> /\ b.slices = <<q["q1"], q["q2"]>>
        /\ a.blind = k /\ b.blind = link["verifier"].blind
        /\ a.direct = <<p["statement"], d, p["direct_blinds"]>>
        /\ b.direct = <<q["statement"], link["verifier"].digest, q["direct_blinds"]>>
        /\ a.transcript = dp[FoldSites + 1] /\ b.transcript = dq[FoldSites + 1]
    BY <1>a, <1>b, <2>1 DEF PcsClaim, ClaimPoints
  <2> QED
    BY <2>1, <2>2
<1>11. /\ p["veil_root"] = q["veil_root"] /\ p["veil_linear"] = q["veil_linear"]
       /\ p["veil_hadamard"] = q["veil_hadamard"] /\ Circuit("prover") = Circuit("verifier")
  <2>1. PICK a, b : a = VeilClaim("prover", ip) /\ b = VeilClaim("verifier", iq) /\ a = b
    BY <1>9
  <2>2. /\ a.trees = <<p["veil_root"], p["veil_linear"], p["veil_hadamard"]>>
        /\ b.trees = <<q["veil_root"], q["veil_linear"], q["veil_hadamard"]>>
        /\ a.circuit = Circuit("prover") /\ b.circuit = Circuit("verifier")
    BY <1>a, <2>1 DEF VeilClaim
  <2> QED
    BY <2>1, <2>2
<1>12. \A f \in Private : p[f] = q[f]
  BY <1>5, <1>6, <1>11, <1>a, CircuitShows, NamesApart
<1>13. p["proof_nonce"] = q["proof_nonce"]
  <2>1. /\ Drawn(oracle, n, EqPoint(SideProof("prover"))) /\ Drawn(oracle, n, EqPoint(q))
    <3>1. Len(c) = N /\ Len(chal["verifier"]) = N
      <4>1. /\ Len(c) + 1 = blk["prover"] /\ blk["prover"] = N + 1
            /\ Len(chal["verifier"]) + 1 = blk["verifier"] /\ blk["verifier"] = N + 1
        BY <1>1, <1>2, <1>3, <1>b DEF SideInv, WalkInv, WalkAt, LinkInv, LinkAt, Bound
      <4>2. Len(c) \in Nat /\ Len(chal["verifier"]) \in Nat
        BY <1>1, <1>b, TypesGive
      <4> QED
        BY <4>1, <4>2, PinsType
    <3>2. 1 \in 1..N
      BY PinsType
    <3>3. WalkChain(oracle, SideProof("prover"), c) /\ WalkChain(oracle, q, c)
      BY <1>1, <1>3, <1>4, <1>10, <1>b DEF SideInv, WalkInv, WalkAt
    <3> QED
      BY <1>10, <1>b, <3>1, <3>2, <3>3 DEF WalkChain
  <2>2. EqPoint(SideProof("prover")) = EqPoint(p)
    <3>1. SameOn(SideProof("prover"), p, Core)
      BY <1>4, CoreIs DEF SameOn
    <3> QED
      BY <3>1, CoreSame
  <2>3. \A x \in {p, q} : EqPoint(x).since # <<>> /\ EqPoint(x).since[4] = Item("bytes", x["proof_nonce"])
    <3>1. \A f \in PiopFields : f \in Private /\ f \in Field
      BY NamesApart
    <3> QED
      BY <1>3, <1>5, <1>6, <3>1, EqPointShows
  <2>4. EqPoint(p) = EqPoint(q)
    BY <2>1, <2>2, <2>3, DrawnFromOne DEF PadInv, Drawn
  <2>5. Item("bytes", p["proof_nonce"]) = Item("bytes", q["proof_nonce"])
    BY <2>3, <2>4
  <2> QED
    BY <2>5 DEF Item
<1>14. p["blind_nonce"] = q["blind_nonce"]
  <2>1. /\ Drawn(oracle, k, BlindT(SideProof("prover"), d)) /\ Drawn(oracle, k, BlindT(q, d))
    <3>1. k # 0
      BY <1>2, <1>3, <1>b DEF SideInv, LinkInv, LinkAt, Blinded
    <3> QED
      BY <1>3, <1>4, <1>10, <1>b, <3>1 DEF SideInv, LinkInv, LinkAt
  <2>2. PICK a, b : a = BlindNonce(p) /\ b = BlindNonce(q)
    OBVIOUS
  <2>3. p["blind_nonce"] = <<a>> /\ q["blind_nonce"] = <<b>> /\ a \in Sayable /\ b \in Sayable
    <3>1. /\ p["blind_nonce"] \in Seq(Sayable) /\ q["blind_nonce"] \in Seq(Sayable)
          /\ Len(p["blind_nonce"]) = 1 /\ Len(q["blind_nonce"]) = 1
      BY <1>3, NamesApart DEF ProofOK
    <3>2. \A s \in Seq(Sayable) : Len(s) = 1 => s[1] \in Sayable /\ s = <<s[1]>>
      <4> HIDE DEF Sayable
      <4> SUFFICES ASSUME NEW s \in Seq(Sayable), Len(s) = 1 PROVE s[1] \in Sayable /\ s = <<s[1]>>
        OBVIOUS
      <4>1. s[1] \in Sayable /\ DOMAIN s = 1..1
        OBVIOUS
      <4>2. s = [i \in 1..1 |-> s[i]]
        BY <4>1
      <4>3. <<s[1]>> = [i \in 1..1 |-> s[1]]
        OBVIOUS
      <4> QED
        BY <4>1, <4>2, <4>3
    <3> HIDE DEF Sayable
    <3> QED
      BY <2>2, <3>1, <3>2 DEF BlindNonce
  <2>4. PICK t : t = PowT(q, d)
    OBVIOUS
  <2>5. BlindT(SideProof("prover"), d) = Absorb(t, <<PowBytes(a)>>) /\ BlindT(q, d) = Absorb(t, <<PowBytes(b)>>)
    <3>1. SideProof("prover")["direct_blinds"] = q["direct_blinds"] /\ BlindNonce(SideProof("prover")) = a
      BY <1>4, <1>10, <2>2, NamesApart DEF BlindNonce, Public
    <3>2. PowT(SideProof("prover"), d) = t
      BY <2>4, <3>1 DEF PowT, DirectItems
    <3> QED
      BY <2>2, <2>4, <3>1, <3>2 DEF BlindT
  <2>6. t \in Transcript
    <3>1. DirectItems(q) \in Seq(SayableItem)
      BY <1>3, ItemsTyped
    <3>2. After(d) \in Transcript
      <4>1. d \in Nat
        BY <1>1, <1>b DEF PadInv, VarTypes
      <4> QED
        BY <4>1 DEF After, Transcript
    <3> QED
      BY <2>4, <3>1, <3>2, AbsorbTyped DEF PowT
  <2>7. PowBytes(a) \in SayableItem /\ PowBytes(b) \in SayableItem
    BY <2>3, Tuples, ItemTyped DEF PowBytes
  <2>8. \A x \in SayableItem : Absorb(t, <<x>>).since # <<>>
    <3> TAKE x \in SayableItem
    <3>1. <<x>> \in Seq(SayableItem) /\ t.since \in Seq(SayableItem)
      BY <2>6, Tuples DEF Transcript
    <3>2. Absorb(t, <<x>>).since = t.since \o <<x>>
      BY <2>6, <3>1, AbsorbTyped
    <3> HIDE DEF SayableItem
    <3> QED
      BY <3>1, <3>2
  <2>9. Absorb(t, <<PowBytes(a)>>) = Absorb(t, <<PowBytes(b)>>)
    BY <2>1, <2>5, <2>7, <2>8, DrawnFromOne DEF PadInv, Drawn
  <2>10. PowBytes(a) = PowBytes(b)
    BY <2>6, <2>7, <2>9, LastSaid
  <2>11. <<a>> = <<b>>
    BY <2>10 DEF PowBytes, Item
  <2> QED
    BY <2>3, <2>11
<1>15. p["fold_nonces"] = q["fold_nonces"]
  <2>1. /\ p["fold_nonces"] \in Seq(Sayable) /\ q["fold_nonces"] \in Seq(Sayable)
        /\ Len(p["fold_nonces"]) = FoldSites /\ Len(q["fold_nonces"]) = FoldSites
    BY <1>3, <1>7, NamesApart DEF ProofOK, Counted
  <2>2. SideProof("prover")["fold_nonces"] = p["fold_nonces"]
    BY <1>4, NamesApart DEF Public
  <2>3. \A j \in 1..FoldSites : p["fold_nonces"][j] \in Sayable /\ q["fold_nonces"][j] \in Sayable
    <3> HIDE DEF Sayable
    <3> QED
      BY <2>1
  <2>4. FoldChain(oracle, q, k, dq, FoldSites + 1)
    BY <1>8, <1>10
  <2>5. \A j \in 1..FoldSites : p["fold_nonces"][j] = q["fold_nonces"][j]
    <3>1. PICK r : r = SideProof("prover")
      OBVIOUS
    <3>2. FoldChain(oracle, r, k, dp, FoldSites + 1) /\ r["fold_nonces"] = p["fold_nonces"]
      BY <1>8, <2>2, <3>1
    <3>3. SayableNonces(r) /\ SayableNonces(q)
      BY <2>3, <3>2 DEF SayableNonces
    <3>4. \A j \in 1..FoldSites : r["fold_nonces"][j] = q["fold_nonces"][j]
      <4>1. FoldChain(oracle, r, k, dp, FoldSites + 1)
        BY <3>2
      <4>2. dp[FoldSites + 1] = dq[FoldSites + 1]
        BY <1>10
      <4> QED
        BY <2>4, <3>3, <4>1, <4>2, FoldsAgree, ZenonT(40)
    <3> QED
      BY <3>2, <3>4
  <2>6. \A s, t \in Seq(Sayable) : Len(s) = Len(t) /\ (\A i \in 1..Len(s) : s[i] = t[i]) => s = t
    <3> HIDE DEF Sayable
    <3> QED
      OBVIOUS
  <2> QED
    BY <2>1, <2>5, <2>6
<1>16. \A f \in Field \ {"surplus"} : p[f] = q[f]
  <2>1. \A f \in Public \ {"surplus"} : p[f] = q[f]
    BY <1>7, <1>10, <1>11, <1>13, <1>14, <1>15, NamesApart
  <2> QED
    BY <1>12, <2>1, NamesApart
<1> QED
  BY <1>16, <1>a

(* verify accepts only what prove returned: a proof with any element, nonce, root  *)
(* or length changed on its way is rejected, whatever the layout, the number of    *)
(* rounds and fold grinds, and the answers that made either side draw again.  Only *)
(* query nonces past the opening's last query phase may have been added.           *)
THEOREM CorruptionIsCaught == Spec => []CorruptionCaught
<1>1. Init => PadInv /\ TraceInv
  BY InitPads, InitTrace
<1>2. (PadInv /\ TraceInv) /\ [Next]_vars => (PadInv /\ TraceInv)'
  BY PadInvStep, TraceInvStep
<1>3. PadInv /\ TraceInv => CorruptionCaught
  BY AcceptedIsSent DEF CorruptionCaught
<1> QED
  BY <1>1, <1>2, <1>3, PTL DEF Spec
-----------------------------------------------------------------------------
(* What a challenge depends on.  The recursion of History has a solution, because  *)
(* a point only follows points answered before it.                                *)
Recalls(o, h, n) ==
    h = [k \in 0..n |-> IF k = 0 THEN {} ELSE h[o[k].point.at] \cup Elements(o[k].point.since)]
Follows(o, h) == \A k \in DOMAIN o : h[k] = h[o[k].point.at] \cup Elements(o[k].point.since)

LEMMA RecallsExist ==
  ASSUME NEW o, OracleOK(o)
  PROVE  \E h : Recalls(o, h, Len(o))
<1> DEFINE S == {n \in 0..Len(o) : ~\E h : Recalls(o, h, n)}
<1>1. Len(o) \in Nat /\ DOMAIN o = 1..Len(o)
  BY OracleIndices
<1>2. SUFFICES ASSUME S # {} PROVE FALSE
  BY <1>1
<1>3. PICK n \in S : \A m \in S : n <= m
  <2>1. S \subseteq Nat
    BY <1>1
  <2> QED
    BY <1>2, <2>1, LeastNat
<1>4. n \in 0..Len(o) /\ ~\E h : Recalls(o, h, n)
  BY <1>3
<1>5. CASE n = 0
  <2> DEFINE h == [k \in 0..0 |-> {}]
  <2>1. h = [k \in 0..0 |-> IF k = 0 THEN {} ELSE h[o[k].point.at] \cup Elements(o[k].point.since)]
    OBVIOUS
  <2>2. Recalls(o, h, 0)
    BY <2>1 DEF Recalls
  <2> QED
    BY <1>4, <1>5, <2>2
<1>6. CASE n # 0
  <2>1. n - 1 \in 0..Len(o) /\ n \in DOMAIN o /\ n \in Nat \ {0}
    BY <1>1, <1>4, <1>6
  <2>2. n - 1 \notin S
    BY <1>3, <2>1
  <2>3. PICK h : Recalls(o, h, n - 1)
    BY <2>1, <2>2
  <2>4. \A k \in 1..n : o[k].point.at \in 0..(k - 1)
    <3> TAKE k \in 1..n
    <3>1. k \in DOMAIN o
      BY <1>1, <1>4
    <3>2. o[k].point.at \in Nat /\ o[k].point.at < k
      BY <3>1, OracleIndices DEF OracleOK
    <3> QED
      BY <2>1, <3>2
  <2> DEFINE end == h[o[n].point.at] \cup Elements(o[n].point.since)
             g == [k \in 0..n |-> IF k = n THEN end ELSE h[k]]
             next(k) == IF k = 0 THEN {} ELSE g[o[k].point.at] \cup Elements(o[k].point.since)
  <2>5. ASSUME NEW k \in 0..n PROVE g[k] = next(k)
    <3>1. CASE k = n
      <4>1. o[n].point.at \in 0..(n - 1)
        BY <2>1, <2>4
      <4>2. g[o[n].point.at] = h[o[n].point.at]
        BY <2>1, <4>1
      <4> QED
        BY <1>6, <3>1, <4>2
    <3>2. CASE k # n /\ k # 0
      <4>1. k \in 0..(n - 1) /\ k \in 1..n
        BY <2>1, <3>2, SMTT(30)
      <4>2. h[k] = h[o[k].point.at] \cup Elements(o[k].point.since)
        BY <2>3, <3>2, <4>1 DEF Recalls
      <4>3. o[k].point.at \in 0..n /\ o[k].point.at # n
        BY <2>1, <2>4, <4>1
      <4> QED
        BY <3>2, <4>2, <4>3
    <3>3. CASE k = 0
      <4>1. 0 \in 0..(n - 1)
        BY <2>1
      <4>2. h[0] = {}
        BY <2>3, <4>1 DEF Recalls
      <4> QED
        BY <1>6, <3>3, <4>2
    <3> QED
      BY <3>1, <3>2, <3>3
  <2>6. g = [k \in 0..n |-> g[k]]
    OBVIOUS
  <2>7. g = [k \in 0..n |-> next(k)]
    <3> HIDE DEF g, next
    <3> QED
      BY <2>5, <2>6
  <2>8. Recalls(o, g, n)
    BY <2>7 DEF Recalls
  <2> QED
    BY <1>4, <2>8
<1> QED
  BY <1>5, <1>6

LEMMA HistoryFollows ==
  ASSUME OracleOK(oracle)
  PROVE  Follows(oracle, History)
<1>1. History = CHOOSE h : h = [k \in 0..Len(oracle) |->
                                 IF k = 0 THEN {} ELSE h[oracle[k].point.at] \cup Elements(oracle[k].point.since)]
  BY DEF History
<1>2. \E h : h = [k \in 0..Len(oracle) |->
                                 IF k = 0 THEN {} ELSE h[oracle[k].point.at] \cup Elements(oracle[k].point.since)]
  BY RecallsExist DEF Recalls
<1>3. PICK h : h = History
  BY SMTT(30)
<1>4. h = [k \in 0..Len(oracle) |->
                                 IF k = 0 THEN {} ELSE h[oracle[k].point.at] \cup Elements(oracle[k].point.since)]
  BY <1>1, <1>2, <1>3, Zenon
<1>5. \A k \in DOMAIN oracle : k \in 0..Len(oracle) /\ k # 0
  BY OracleIndices
<1>6. \A k \in DOMAIN oracle : h[k] = h[oracle[k].point.at] \cup Elements(oracle[k].point.since)
  BY <1>4, <1>5
<1> QED
  BY <1>3, <1>6 DEF Follows

(* A challenge remembers what its point absorbed, however often it was redrawn. *)
LEMMA IdRemembers ==
  ASSUME NEW o, NEW h, Follows(o, h), NEW k, NEW t, IsId(o, k, t)
  PROVE  h[t.at] \subseteq h[k] /\ Elements(t.since) \subseteq h[k]
BY DEF Follows, IsId

LEMMA DrawingRemembers ==
  ASSUME NEW o, OracleOK(o), NEW h, Follows(o, h), NEW k, NEW p, Drawing(o, k, p)
  PROVE  h[p.at] \subseteq h[k] /\ Elements(p.since) \subseteq h[k]
<1>1. PICK S : Chain(o, S, k, p)
  BY DEF Drawing
<1> DEFINE Told(j) == h[p.at] \subseteq h[j] /\ Elements(p.since) \subseteq h[j]
           T == {j \in S : ~Told(j)}
<1>2. T \subseteq Nat
  BY <1>1, OracleIndices DEF Chain
<1>3. ASSUME T # {} PROVE FALSE
  <2>1. PICK j \in T : \A m \in T : j <= m
    BY <1>2, <1>3, LeastNat
  <2>2. j \in DOMAIN o /\ j \in S /\ ~Told(j)
    BY <1>1, <2>1 DEF Chain
  <2>3. h[j] = h[o[j].point.at] \cup Elements(o[j].point.since)
    BY <2>2 DEF Follows
  <2>4. o[j].point # p
    BY <2>2, <2>3
  <2>5. o[j].point.at \in S
    BY <1>1, <2>2, <2>4 DEF Chain
  <2>6. o[j].point.at < j /\ o[j].point.at \in Nat /\ j \in Nat
    BY <2>2, OracleIndices DEF OracleOK
  <2>7. o[j].point.at \notin T
    BY <2>1, <2>6
  <2>8. Told(o[j].point.at)
    BY <2>5, <2>7
  <2> QED
    BY <2>2, <2>3, <2>8
<1>4. k \in S
  BY <1>1 DEF Chain
<1> QED
  BY <1>3, <1>4

LEMMA ElementsJoin ==
  ASSUME NEW s \in Seq(SayableItem), NEW t \in Seq(SayableItem)
  PROVE  Elements(s) \subseteq Elements(s \o t) /\ Elements(t) \subseteq Elements(s \o t)
<1>1. /\ s \o t \in Seq(SayableItem) /\ Len(s \o t) = Len(s) + Len(t)
      /\ \A i \in 1..Len(s) : (s \o t)[i] = s[i]
      /\ \A i \in 1..Len(t) : (s \o t)[Len(s) + i] = t[i]
  BY Concatenation
<1>2. /\ Len(s) \in Nat /\ Len(t) \in Nat /\ DOMAIN s = 1..Len(s) /\ DOMAIN t = 1..Len(t)
      /\ DOMAIN (s \o t) = 1..Len(s \o t)
  <2> HIDE DEF SayableItem
  <2> QED
    BY <1>1
<1>3. \A i \in DOMAIN s : i \in DOMAIN (s \o t) /\ (s \o t)[i] = s[i]
  BY <1>1, <1>2
<1>4. \A i \in DOMAIN t : Len(s) + i \in DOMAIN (s \o t) /\ (s \o t)[Len(s) + i] = t[i]
  BY <1>1, <1>2
<1> DEFINE j == s \o t
<1> HIDE DEF j
<1>5. \A i \in DOMAIN s : i \in DOMAIN j /\ j[i] = s[i]
  BY <1>3 DEF j
<1>6. \A i \in DOMAIN t : \E n \in DOMAIN j : j[n] = t[i]
  BY <1>4 DEF j
<1>7. Elements(s) \subseteq Elements(j) /\ Elements(t) \subseteq Elements(j)
  BY <1>5, <1>6 DEF Elements
<1> QED
  BY <1>7 DEF j

(* What a block of the PIOP observes of a proof, round by round. *)
LEMMA SayTells ==
  ASSUME NEW q, NEW n \in 1..N, NEW j \in DOMAIN SaysOf(n), SaysOf(n)[j].op # "label",
         NEW k \in 1..SayWidth(SaysOf(n)[j])
  PROVE  q[SaysOf(n)[j].field][SaysOf(n)[j].from + k - 1] \in Elements(Said(q, SaysOf(n)))
<1> DEFINE says == SaysOf(n)
           say == says[j]
<1>1. j \in DOMAIN Said(q, says) /\ Said(q, says)[j] = ProofSay(q, say)
  BY DEF Said
<1>2. ProofSay(q, say).vals = [i \in 1..SayWidth(say) |-> q[say.field][say.from + i - 1]]
  BY DEF ProofSay, Item
<1>3. q[say.field][say.from + k - 1] \in Range(Said(q, says)[j].vals)
  BY <1>1, <1>2 DEF Range
<1> QED
  BY <1>1, <1>3 DEF Elements

LEMMA SaidTells ==
  ASSUME NEW q
  PROVE  /\ \A i \in 1..Ell : /\ q["round1_ab"][i] \in Elements(Said(q, SaysOf(2)))
                              /\ q["round1_c"][i] \in Elements(Said(q, SaysOf(2)))
         /\ \A r \in 1..ZcRounds : /\ q["rounds"][2 * r - 1] \in Elements(Said(q, SaysOf(2 + r)))
                                   /\ q["rounds"][2 * r] \in Elements(Said(q, SaysOf(2 + r)))
         /\ \A i \in 1..2 : q["finals"][i] \in Elements(Said(q, SaysOf(3 + ZcRounds)))
         /\ \A r \in 1..LcRounds :
              /\ q["lc_rounds"][2 * r - 1] \in Elements(Said(q, SaysOf(3 + ZcRounds + Pins + r)))
              /\ q["lc_rounds"][2 * r] \in Elements(Said(q, SaysOf(3 + ZcRounds + Pins + r)))
         /\ \A i \in 1..ZPartial : q["z_partial"][i] \in Elements(Said(q, SaysOf(N)))
<1>1. /\ N \in Nat /\ ZcRounds \in Nat /\ LcRounds \in Nat /\ Ell \in Nat /\ ZPartial \in Nat /\ Pins \in Nat
      /\ N = 4 + Pins + ZcRounds + LcRounds
  BY PinsType, Bounds DEF N
<1>2. /\ SaysOf(2) = <<Slice("round1_ab"), Slice("round1_c")>>
      /\ SaysOf(3 + ZcRounds) = <<Scalar("finals", 1), Scalar("finals", 2), Mark("flock-lincheck")>>
      /\ SaysOf(N) = <<Slice("z_partial")>>
      /\ \A r \in 1..ZcRounds : SaysOf(2 + r) = <<Scalar("rounds", 2 * r - 1), Scalar("rounds", 2 * r)>>
      /\ \A r \in 1..LcRounds : SaysOf(3 + ZcRounds + Pins + r) =
                                   <<Scalar("lc_rounds", 2 * r - 1), Scalar("lc_rounds", 2 * r)>>
  <2>1. SaysOf(2) = <<Slice("round1_ab"), Slice("round1_c")>>
    BY BlocksAre DEF SaysOf, Block
  <2>2. SaysOf(3 + ZcRounds) = <<Scalar("finals", 1), Scalar("finals", 2), Mark("flock-lincheck")>>
    BY BlocksAre DEF SaysOf, Block, Finals
  <2>3. SaysOf(N) = <<Slice("z_partial")>>
    BY BlocksAre DEF SaysOf, Block, Closing
  <2>4. \A f, r : Round(f, r).says = <<Scalar(f, 2 * r - 1), Scalar(f, 2 * r)>>
    BY DEF Round, Block
  <2>5. \A r \in 1..ZcRounds : SaysOf(2 + r) = Round("rounds", r).says
    BY BlocksAre DEF SaysOf
  <2>6. \A r \in 1..LcRounds : SaysOf(3 + ZcRounds + Pins + r) = Round("lc_rounds", r).says
    BY BlocksAre DEF SaysOf
  <2> QED
    BY <2>1, <2>2, <2>3, <2>4, <2>5, <2>6
<1>3. ASSUME NEW n \in 1..N, NEW j \in DOMAIN SaysOf(n), NEW f, SaysOf(n)[j] = Slice(f),
             FieldLen[f] \in Nat, NEW i \in 1..FieldLen[f]
      PROVE  q[f][i] \in Elements(Said(q, SaysOf(n)))
  <2>1. /\ SaysOf(n)[j].op # "label" /\ SaysOf(n)[j].field = f /\ SaysOf(n)[j].from = 1
        /\ SaysOf(n)[j].to = FieldLen[f]
    BY <1>3 DEF Slice
  <2>2. SayWidth(SaysOf(n)[j]) = FieldLen[f] + 1 - 1
    BY <2>1 DEF SayWidth
  <2>3. FieldLen[f] + 1 - 1 = FieldLen[f] /\ 1 + i - 1 = i
    BY <1>3
  <2>4. i \in 1..SayWidth(SaysOf(n)[j])
    BY <2>2, <2>3
  <2>5. q[SaysOf(n)[j].field][SaysOf(n)[j].from + i - 1] \in Elements(Said(q, SaysOf(n)))
    BY <2>1, <2>4, SayTells
  <2> QED
    BY <2>1, <2>3, <2>5
<1>4. ASSUME NEW n \in 1..N, NEW j \in DOMAIN SaysOf(n), NEW f, NEW i \in Nat, SaysOf(n)[j] = Scalar(f, i)
      PROVE  q[f][i] \in Elements(Said(q, SaysOf(n)))
  <2>1. SaysOf(n)[j].op # "label" /\ SaysOf(n)[j].field = f /\ SaysOf(n)[j].from = i /\ SaysOf(n)[j].to = i
    BY <1>4 DEF Scalar
  <2>2. SayWidth(SaysOf(n)[j]) = i + 1 - i
    BY <2>1 DEF SayWidth
  <2>3. 1 \in 1..SayWidth(SaysOf(n)[j]) /\ i + 1 - 1 = i
    BY <2>2
  <2>4. q[SaysOf(n)[j].field][SaysOf(n)[j].from + 1 - 1] \in Elements(Said(q, SaysOf(n)))
    BY <2>1, <2>3, SayTells
  <2> QED
    BY <2>1, <2>3, <2>4
<1>5. \A i \in 1..Ell : /\ q["round1_ab"][i] \in Elements(Said(q, SaysOf(2)))
                        /\ q["round1_c"][i] \in Elements(Said(q, SaysOf(2)))
  <2>1. 2 \in 1..N /\ 1 \in DOMAIN SaysOf(2) /\ 2 \in DOMAIN SaysOf(2)
        /\ SaysOf(2)[1] = Slice("round1_ab") /\ SaysOf(2)[2] = Slice("round1_c")
    BY <1>1, <1>2
  <2> QED
    BY <1>1, <1>3, <2>1, Lengths
<1>6. \A r \in 1..ZcRounds : /\ q["rounds"][2 * r - 1] \in Elements(Said(q, SaysOf(2 + r)))
                             /\ q["rounds"][2 * r] \in Elements(Said(q, SaysOf(2 + r)))
  <2> TAKE r \in 1..ZcRounds
  <2>1. 2 + r \in 1..N /\ 1 \in DOMAIN SaysOf(2 + r) /\ 2 \in DOMAIN SaysOf(2 + r)
        /\ SaysOf(2 + r)[1] = Scalar("rounds", 2 * r - 1) /\ SaysOf(2 + r)[2] = Scalar("rounds", 2 * r)
    BY <1>1, <1>2
  <2>2. 2 * r - 1 \in Nat /\ 2 * r \in Nat
    OBVIOUS
  <2> QED
    BY <1>4, <2>1, <2>2
<1>7. \A i \in 1..2 : q["finals"][i] \in Elements(Said(q, SaysOf(3 + ZcRounds)))
  <2>1. 3 + ZcRounds \in 1..N /\ 1 \in DOMAIN SaysOf(3 + ZcRounds) /\ 2 \in DOMAIN SaysOf(3 + ZcRounds)
        /\ SaysOf(3 + ZcRounds)[1] = Scalar("finals", 1) /\ SaysOf(3 + ZcRounds)[2] = Scalar("finals", 2)
    BY <1>1, <1>2
  <2> QED
    BY <1>4, <2>1
<1>8. \A r \in 1..LcRounds :
              /\ q["lc_rounds"][2 * r - 1] \in Elements(Said(q, SaysOf(3 + ZcRounds + Pins + r)))
              /\ q["lc_rounds"][2 * r] \in Elements(Said(q, SaysOf(3 + ZcRounds + Pins + r)))
  <2> TAKE r \in 1..LcRounds
  <2> DEFINE n == 3 + ZcRounds + Pins + r
  <2>1. n \in 1..N /\ 1 \in DOMAIN SaysOf(n) /\ 2 \in DOMAIN SaysOf(n)
        /\ SaysOf(n)[1] = Scalar("lc_rounds", 2 * r - 1) /\ SaysOf(n)[2] = Scalar("lc_rounds", 2 * r)
    BY <1>1, <1>2
  <2>2. 2 * r - 1 \in Nat /\ 2 * r \in Nat
    OBVIOUS
  <2> HIDE DEF n
  <2>3. q["lc_rounds"][2 * r - 1] \in Elements(Said(q, SaysOf(n))) /\ q["lc_rounds"][2 * r] \in Elements(Said(q, SaysOf(n)))
    BY <1>4, <2>1, <2>2
  <2> QED
    BY <2>3 DEF n
<1>9. \A i \in 1..ZPartial : q["z_partial"][i] \in Elements(Said(q, SaysOf(N)))
  <2>1. N \in 1..N /\ 1 \in DOMAIN SaysOf(N) /\ SaysOf(N)[1] = Slice("z_partial")
    BY <1>1, <1>2
  <2> QED
    BY <1>1, <1>3, <2>1, Lengths
<1> QED
  BY <1>5, <1>6, <1>7, <1>8, <1>9

(* What the statement, the ring claims, the blinds and the blinded slices tell. *)
LEMMA ItemsTell ==
  ASSUME NEW q
  PROVE  /\ \A f \in Commitments : Range(q[f]) \subseteq Elements(StatementItems(q) \o BindItems(q))
         /\ \A f \in RingClaims : Range(q[f]) \subseteq Elements(RingItems(q) \o <<Label("flock-digest-bind")>>)
         /\ Range(q["direct_blinds"]) \subseteq Elements(DirectItems(q))
         /\ \A f \in {"q1", "q2"} : Range(q[f]) \subseteq Elements(BlindedItems(q))
         /\ \A v : v \in Elements(<<PowBytes(v)>>)
<1>1. ASSUME NEW s, NEW j \in DOMAIN s, NEW vals, s[j].vals = vals
      PROVE  Range(vals) \subseteq Elements(s)
  BY <1>1 DEF Elements
<1>2. \A f \in Commitments : \E j \in DOMAIN (StatementItems(q) \o BindItems(q)) :
          (StatementItems(q) \o BindItems(q))[j].vals = q[f]
  <2> DEFINE s == StatementItems(q) \o BindItems(q)
  <2>1. /\ s[2] = Item("bytes", q["statement"]) /\ s[4] = Item("bytes", q["proof_nonce"])
        /\ s[5] = Item("bytes", q["root"]) /\ s[7] = Item("bytes", q["outer"])
        /\ s[8] = Item("bytes", q["veil_linear"]) /\ s[9] = Item("bytes", q["veil_hadamard"])
        /\ s[11] = Item("bytes", q["veil_root"])
    BY DEF StatementItems, BindItems
  <2>2. DOMAIN s = 1..11
    BY DEF StatementItems, BindItems
  <2> HIDE DEF s
  <2>3. \A v : Item("bytes", v).vals = v
    BY DEF Item
  <2>4. /\ s[2].vals = q["statement"] /\ s[4].vals = q["proof_nonce"] /\ s[5].vals = q["root"]
        /\ s[7].vals = q["outer"] /\ s[8].vals = q["veil_linear"] /\ s[9].vals = q["veil_hadamard"]
        /\ s[11].vals = q["veil_root"]
    BY <2>1, <2>3
  <2>5. \A f \in Commitments : \E j \in DOMAIN s : s[j].vals = q[f]
    BY <2>2, <2>4 DEF Commitments
  <2> QED
    BY <2>5 DEF s
<1>3. \A f \in RingClaims : \E j \in DOMAIN (RingItems(q) \o <<Label("flock-digest-bind")>>) :
          (RingItems(q) \o <<Label("flock-digest-bind")>>)[j].vals = q[f]
  <2> DEFINE s == RingItems(q) \o <<Label("flock-digest-bind")>>
  <2>1. /\ s[2] = Item("slice", q["ring1_witness"]) /\ s[3] = Item("slice", q["ring1_blind"])
        /\ s[4] = Item("slice", q["ring2_witness"]) /\ s[5] = Item("slice", q["ring2_blind"])
    BY DEF RingItems
  <2>2. DOMAIN s = 1..6
    BY DEF RingItems
  <2> HIDE DEF s
  <2>3. \A v : Item("slice", v).vals = v
    BY DEF Item
  <2>4. /\ s[2].vals = q["ring1_witness"] /\ s[3].vals = q["ring1_blind"]
        /\ s[4].vals = q["ring2_witness"] /\ s[5].vals = q["ring2_blind"]
    BY <2>1, <2>3
  <2>5. \A f \in RingClaims : \E j \in DOMAIN s : s[j].vals = q[f]
    BY <2>2, <2>4 DEF RingClaims
  <2> QED
    BY <2>5 DEF s
<1>4. Range(q["direct_blinds"]) \subseteq Elements(DirectItems(q))
  <2>1. 2 \in DOMAIN DirectItems(q) /\ DirectItems(q)[2].vals = q["direct_blinds"]
    BY DEF DirectItems, Item
  <2> QED
    BY <1>1, <2>1
<1>5. \A f \in {"q1", "q2"} : Range(q[f]) \subseteq Elements(BlindedItems(q))
  <2>1. /\ 2 \in DOMAIN BlindedItems(q) /\ BlindedItems(q)[2].vals = q["q1"]
        /\ 3 \in DOMAIN BlindedItems(q) /\ BlindedItems(q)[3].vals = q["q2"]
    BY DEF BlindedItems, Item
  <2> QED
    BY <1>1, <2>1
<1>6. \A v : v \in Elements(<<PowBytes(v)>>)
  <2> TAKE v
  <2>1. 1 \in DOMAIN <<PowBytes(v)>> /\ <<PowBytes(v)>>[1].vals = <<v>>
    BY DEF PowBytes, Item
  <2>2. v \in Range(<<v>>)
    BY DEF Range
  <2> QED
    BY <1>1, <2>1, <2>2
<1>7. \A f \in Commitments : Range(q[f]) \subseteq Elements(StatementItems(q) \o BindItems(q))
  BY <1>1, <1>2
<1>8. \A f \in RingClaims : Range(q[f]) \subseteq Elements(RingItems(q) \o <<Label("flock-digest-bind")>>)
  BY <1>1, <1>3
<1> QED
  BY <1>4, <1>5, <1>6, <1>7, <1>8

LEMMA WalkRemembers ==
  ASSUME NEW o, OracleOK(o), NEW h, Follows(o, h), NEW q, ProofOK(q),
         \A f \in PiopFields : q[f] \in Seq(Sayable) /\ Len(q[f]) = FieldLen[f],
         NEW c \in Seq(Nat \ {0}), Len(c) <= N, WalkChain(o, q, c)
  PROVE  /\ Len(c) >= 1 => Elements(StatementItems(q) \o BindItems(q)) \subseteq h[c[1]]
         /\ \A i \in 2..Len(c) : Elements(Said(q, SaysOf(i))) \subseteq h[c[i]]
         /\ \A i, j \in 1..Len(c) : i <= j => h[c[i]] \subseteq h[c[j]]
<1>1. N \in Nat /\ N >= 4 /\ Len(c) \in Nat
  BY PinsType
<1>2. ASSUME Len(c) >= 1 PROVE Elements(StatementItems(q) \o BindItems(q)) \subseteq h[c[1]]
  <2> DEFINE s == StatementItems(q) \o BindItems(q)
             e == Said(q, SaysOf(1))
  <2>1. s \in Seq(SayableItem) /\ e \in Seq(SayableItem)
    BY <1>1, ItemsTyped, SaidTyped
  <2>2. EqPoint(q).since = (<<>> \o s) \o e
    BY DEF EqPoint, BeginT, Absorb, After
  <2>3. 1 \in 1..Len(c)
    BY <1>1, <1>2
  <2>4. Drawing(o, c[1], EqPoint(q))
    BY <2>3 DEF WalkChain, Drawn
  <2>5. Elements(EqPoint(q).since) \subseteq h[c[1]]
    BY <2>4, DrawingRemembers
  <2> HIDE DEF s, e
  <2>6. (<<>> \o s) \o e = s \o e
    <3> HIDE DEF SayableItem
    <3> QED
      BY <2>1
  <2>7. Elements(s) \subseteq Elements(s \o e)
    BY <2>1, ElementsJoin
  <2>8. Elements(s) \subseteq h[c[1]]
    BY <2>2, <2>5, <2>6, <2>7
  <2> QED
    BY <2>8 DEF s
<1>3. ASSUME NEW i \in 2..Len(c)
      PROVE  Elements(Said(q, SaysOf(i))) \subseteq h[c[i]] /\ h[c[i - 1]] \subseteq h[c[i]]
  <2>1. i \in 1..Len(c) /\ i # 1 /\ i \in 1..N
    BY <1>1
  <2>2. IsId(o, c[i], WalkPoint(q, c, i))
    BY <2>1 DEF WalkChain
  <2>3. h[WalkPoint(q, c, i).at] \subseteq h[c[i]] /\ Elements(WalkPoint(q, c, i).since) \subseteq h[c[i]]
    BY <2>2, IdRemembers
  <2>4. WalkPoint(q, c, i).at = c[i - 1] /\ WalkPoint(q, c, i).since = <<>> \o Said(q, SaysOf(i))
    BY DEF WalkPoint, Absorb, After
  <2>5. Said(q, SaysOf(i)) \in Seq(SayableItem)
    BY <2>1, SaidTyped
  <2>6. <<>> \o Said(q, SaysOf(i)) = Said(q, SaysOf(i))
    <3> HIDE DEF SayableItem
    <3> QED
      BY <2>5
  <2> QED
    BY <2>3, <2>4, <2>6
<1>4. ASSUME NEW i \in 1..Len(c), NEW j \in 1..Len(c), i <= j PROVE h[c[i]] \subseteq h[c[j]]
  <2> DEFINE S == {n \in i..Len(c) : ~(h[c[i]] \subseteq h[c[n]])}
  <2>1. S \subseteq Nat
    BY <1>1
  <2>2. ASSUME S # {} PROVE FALSE
    <3>1. PICK n \in S : \A m \in S : n <= m
      BY <2>1, <2>2, LeastNat
    <3>2. n \in i..Len(c) /\ n # i /\ ~(h[c[i]] \subseteq h[c[n]])
      BY <3>1
    <3>3. n \in 2..Len(c) /\ n - 1 \in i..Len(c) /\ ~(n <= n - 1)
      BY <1>1, <3>2
    <3>4. n - 1 \notin S
      BY <3>1, <3>3
    <3>5. h[c[n - 1]] \subseteq h[c[n]]
      BY <1>3, <3>3
    <3> QED
      BY <3>2, <3>3, <3>4, <3>5
  <2>3. j \in i..Len(c)
    BY <1>1, <1>4
  <2> QED
    BY <2>2, <2>3
<1> QED
  BY <1>2, <1>3, <1>4

(* The prover's proof has its lengths at every step. *)
Regular == \A f \in Field : DOMAIN proof["prover"][f] = 1..FieldLen[f]

LEMMA SideDomains ==
  ASSUME PadInv, TraceInv, Regular, NEW b \in Main
  PROVE  /\ \A f \in Field : DOMAIN SideProof(b)[f] = DOMAIN proof[b][f]
         /\ Named(SideProof(b)) /\ ProofOK(SideProof(b))
<1>1. CASE b = "verifier"
  <2>1. SideProof(b) = proof[b]
    BY <1>1 DEF SideProof
  <2>2. Named(proof[b]) /\ ProofOK(proof[b])
    BY DEF TraceInv, ElementsInv, PadInv, Proofs
  <2> QED
    BY <2>1, <2>2
<1>2. CASE b = "prover"
  <2>1. SideProof(b) = MaskedProof(proof[b])
    BY <1>2 DEF SideProof
  <2>2. Named(proof[b]) /\ ProofOK(proof[b])
    BY DEF TraceInv, ElementsInv, PadInv, Proofs
  <2>3. Named(MaskedProof(proof[b]))
    BY <2>2, MaskedTwice
  <2>4. /\ \A f \in Private : MaskedProof(proof[b])[f] = [i \in 1..FieldLen[f] |-> Padded(f, i)]
        /\ \A f \in Public : MaskedProof(proof[b])[f] = proof[b][f]
        /\ DOMAIN MaskedProof(proof[b]) = Field
    BY MaskedFields
  <2>5. ASSUME NEW f \in Field PROVE DOMAIN MaskedProof(proof[b])[f] = DOMAIN proof[b][f]
    <3>1. CASE f \in Private
      <4>1. DOMAIN [i \in 1..FieldLen[f] |-> Padded(f, i)] = 1..FieldLen[f]
        OBVIOUS
      <4> QED
        BY <1>2, <2>4, <3>1, <4>1 DEF Regular
    <3>2. CASE f \in Public
      BY <2>4, <3>2
    <3> QED
      BY <3>1, <3>2, NamesApart
  <2>6. ProofOK(MaskedProof(proof[b]))
    <3>1. {"blind_nonce", "fold_nonces"} \subseteq Public
      BY NamesApart
    <3>2. /\ MaskedProof(proof[b])["blind_nonce"] = proof[b]["blind_nonce"]
          /\ MaskedProof(proof[b])["fold_nonces"] = proof[b]["fold_nonces"]
      BY <2>4, <3>1
    <3> QED
      BY <2>2, <2>4, <3>2 DEF ProofOK
  <2> QED
    BY <2>1, <2>3, <2>5, <2>6
<1> QED
  BY <1>1, <1>2, ThreadNames

LEMMA BindsFrom ==
  ASSUME PadInv, TraceInv, Regular, NEW b \in Walkers, NEW h, NEW k, NEW f \in Field \ Nonces,
         \A i \in DOMAIN SideProof(Owner[b])[f] : SideProof(Owner[b])[f][i] \in h[k]
  PROVE  Binds(b, h, k, f)
<1>1. Owner[b] \in Main
  BY ThreadNames
<1>2. f # "blind_nonce"
  BY DEF Nonces
<1>3. \A i \in DOMAIN SideProof(Owner[b])[f] :
         SideProof(Owner[b])[f][i].name = f /\ SideProof(Owner[b])[f][i].i = i
  BY <1>1, SideDomains DEF Named
<1>4. DOMAIN SideProof(Owner[b])[f] = DOMAIN proof[Owner[b]][f]
  BY <1>1, SideDomains
<1>5. \A i \in DOMAIN proof[Owner[b]][f] : \E v \in h[k] : v.name = f /\ v.i = i
  BY <1>3, <1>4
<1> QED
  BY <1>2, <1>5 DEF Binds

LEMMA WalkTyped ==
  ASSUME PadInv, TraceInv, NEW b \in Walkers
  PROVE  /\ chal[b] \in Seq(Nat \ {0}) /\ Len(chal[b]) <= N /\ Len(chal[b]) + 1 = blk[b]
         /\ DOMAIN chal[b] = 1..Len(chal[b]) /\ Len(chal[b]) \in Nat
         /\ WalkChain(oracle, SideProof(Owner[b]), chal[b])
         /\ Len(chal[b]) >= 1 =>
              \A f \in PiopFields : /\ SideProof(Owner[b])[f] \in Seq(Sayable)
                                    /\ Len(SideProof(Owner[b])[f]) = FieldLen[f]
<1>1. chal[b] \in Seq(Nat \ {0}) /\ blk[b] \in Nat \ {0}
  BY TypesGive, ThreadNames
<1>2. WalkAt(oracle, SideProof(Owner[b]), chal[b], blk[b], pc[b], tr[b]) /\ WalkInv(b)
  BY DEF TraceInv, WalkInv
<1>3. Len(chal[b]) + 1 = blk[b] /\ blk[b] <= N + 1 /\ WalkChain(oracle, SideProof(Owner[b]), chal[b])
  BY <1>2 DEF WalkAt
<1>4. DOMAIN chal[b] = 1..Len(chal[b]) /\ Len(chal[b]) \in Nat /\ Len(chal[b]) <= N
  BY <1>1, <1>3, PinsType
<1>5. ASSUME Len(chal[b]) >= 1, NEW f \in PiopFields
      PROVE  SideProof(Owner[b])[f] \in Seq(Sayable) /\ Len(SideProof(Owner[b])[f]) = FieldLen[f]
  <2>1. blk[b] > 1 /\ blk[b] # 1
    BY <1>3, <1>4, <1>5
  <2>2. CASE Owner[b] = "prover"
    <3>1. SideProof(Owner[b]) = MaskedProof(proof["prover"])
      BY <2>2 DEF SideProof
    <3>2. MaskedProof(proof["prover"])[f] \in Seq(Sayable) /\ Len(MaskedProof(proof["prover"])[f]) = FieldLen[f]
      BY MaskedFields, NamesApart, ZenonT(40)
    <3> QED
      BY <3>1, <3>2
  <2>3. CASE Owner[b] = "verifier"
    <3>1. b \in {"verifier", "recheck"}
      BY <2>3, ThreadNames
    <3>2. Shaped(b, PiopFields)
      BY <1>2, <2>1, <3>1 DEF WalkInv
    <3>3. pc["verifier"] # "idle"
      <4>1. CASE b = "verifier"
        BY <2>1, <4>1, ThreadNames DEF PadInv, Control
      <4>2. CASE b = "recheck"
        <5>1. pc[Second["verifier"]] # "idle"
          BY <2>1, <4>2, ThreadNames DEF PadInv, Control
        <5>2. pc["verifier"] \in Errors \cup Blinded
          BY <5>1, ThreadNames DEF TraceInv, SecondInv
        <5> QED
          BY <5>2 DEF Errors, Blinded
      <4> QED
        BY <3>1, <4>1, <4>2
    <3>4. proof["verifier"][f] \in Seq(Sayable)
      BY <3>3, NamesApart DEF PadInv, Pads
    <3>5. SideProof(Owner[b]) = proof["verifier"]
      BY <2>3 DEF SideProof
    <3> QED
      BY <2>3, <3>2, <3>4, <3>5 DEF Shaped
  <2> QED
    BY <2>2, <2>3, ThreadNames
<1> QED
  BY <1>1, <1>3, <1>4, <1>5

LEMMA Halves == \A n \in Nat : \A i \in 1..(2 * n) : \E r \in 1..n : i = 2 * r - 1 \/ i = 2 * r
<1> TAKE n \in Nat
<1> TAKE i \in 1..(2 * n)
<1> DEFINE S == {r \in 0..n : i <= 2 * r}
<1>1. S \subseteq Nat /\ n \in S
  OBVIOUS
<1>2. PICK r \in S : \A m \in S : r <= m
  BY <1>1, LeastNat
<1>3. r \in 1..n /\ i <= 2 * r /\ r - 1 \in 0..n
  BY <1>2
<1>4. r - 1 \notin S
  BY <1>2, <1>3
<1>5. ~(i <= 2 * (r - 1))
  BY <1>3, <1>4
<1>6. 2 * (r - 1) = 2 * r - 2
  BY <1>3
<1>7. i = 2 * r - 1 \/ i = 2 * r
  BY <1>3, <1>5, <1>6
<1> QED
  BY <1>3, <1>7

(* No challenge of the PIOP is drawn before what it must not be chosen by. *)
LEMMA WalkBinds ==
  ASSUME PadInv, TraceInv, Regular, NEW h, Follows(oracle, h), NEW b \in Walkers,
         NEW k \in DOMAIN chal[b], NEW f \in Needs(Blocks(b)[k].draws)
  PROVE  Binds(b, h, chal[b][k], f)
<1> DEFINE q == SideProof(Owner[b])
           c == chal[b]
<1>1. /\ c \in Seq(Nat \ {0}) /\ Len(c) <= N /\ k \in 1..Len(c) /\ Len(c) \in Nat /\ k \in 1..N
      /\ WalkChain(oracle, q, c)
      /\ \A g \in PiopFields : q[g] \in Seq(Sayable) /\ Len(q[g]) = FieldLen[g]
  BY WalkTyped, PinsType
<1>2. ProofOK(q) /\ OracleOK(oracle)
  BY SideDomains, ThreadNames DEF PadInv
<1>3. /\ Elements(StatementItems(q) \o BindItems(q)) \subseteq h[c[1]]
      /\ \A i \in 2..Len(c) : Elements(Said(q, SaysOf(i))) \subseteq h[c[i]]
      /\ \A i, j \in 1..Len(c) : i <= j => h[c[i]] \subseteq h[c[j]]
  <2> HIDE DEF q, c
  <2>1. Len(c) >= 1
    BY <1>1
  <2> QED
    BY <1>1, <1>2, <2>1, WalkRemembers
<1>4. \A g \in PiopFields : DOMAIN q[g] = 1..FieldLen[g]
  <2> HIDE DEF q, Sayable
  <2> QED
    BY <1>1
<1>5. /\ ZcRounds \in Nat /\ LcRounds \in Nat /\ Pins \in Nat /\ N \in Nat
      /\ N = 4 + Pins + ZcRounds + LcRounds
  BY Bounds, PinsType DEF N
<1>6. /\ FieldLen["round1_ab"] = Ell /\ FieldLen["round1_c"] = Ell /\ FieldLen["rounds"] = 2 * ZcRounds
      /\ FieldLen["finals"] = 2 /\ FieldLen["lc_rounds"] = 2 * LcRounds /\ FieldLen["z_partial"] = ZPartial
  BY Lengths
<1>7. f \in Field \ Nonces /\ (f \notin Commitments => f \in PiopFields)
  <2>1. f \in Commitments \cup {"round1_ab", "round1_c", "rounds", "finals", "lc_rounds", "z_partial"}
    BY DEF Needs
  <2> QED
    BY <2>1, NamesApart DEF Commitments, Nonces, PiopFields
<1>8. SUFFICES \A i \in DOMAIN q[f] : q[f][i] \in h[c[k]]
  BY <1>7, BindsFrom
<1>9. Blocks(b)[k].draws = ProverBlocks[k].draws
  BY SameBlocks
<1> HIDE DEF q
<1>10. CASE k = 1
  <2>1. f \in Commitments
    BY <1>9, <1>10, DrawsAre DEF Needs
  <2>2. Range(q[f]) \subseteq Elements(StatementItems(q) \o BindItems(q))
    BY <2>1, ItemsTell
  <2> QED
    BY <1>3, <1>10, <2>2 DEF Range
<1>11. CASE k = 2
  <2>1. f \in {"round1_ab", "round1_c"}
    BY <1>9, <1>11, DrawsAre DEF Needs
  <2>2. \A i \in 1..Ell : q[f][i] \in Elements(Said(q, SaysOf(2)))
    BY <2>1, SaidTells
  <2>3. DOMAIN q[f] = 1..Ell
    BY <1>4, <1>6, <2>1 DEF PiopFields
  <2> QED
    BY <1>1, <1>3, <1>11, <2>2, <2>3
<1>12. ASSUME k = 3 + ZcRounds, NEW i \in DOMAIN q[f] PROVE q[f][i] \in h[c[k]]
  <2>1. f \in {"rounds", "finals"}
    BY <1>9, <1>12, DrawsAre DEF Needs
  <2>2. CASE f = "finals"
    <3>1. i \in 1..2
      BY <1>4, <1>6, <1>12, <2>2 DEF PiopFields
    <3>2. q["finals"][i] \in Elements(Said(q, SaysOf(k)))
      BY <1>12, <3>1, SaidTells
    <3>3. k \in 2..Len(c)
      BY <1>1, <1>5, <1>12
    <3> QED
      BY <1>3, <2>2, <3>2, <3>3
  <2>3. CASE f = "rounds"
    <3>1. i \in 1..(2 * ZcRounds)
      BY <1>4, <1>6, <1>12, <2>3 DEF PiopFields
    <3>2. PICK r \in 1..ZcRounds : i = 2 * r - 1 \/ i = 2 * r
      BY <1>5, <3>1, Halves
    <3>3. q["rounds"][i] \in Elements(Said(q, SaysOf(2 + r)))
      BY <3>2, SaidTells
    <3>4. 2 + r \in 2..Len(c) /\ 2 + r \in 1..Len(c) /\ 2 + r <= k
      BY <1>1, <1>5, <1>12
    <3>5. q["rounds"][i] \in h[c[2 + r]]
      BY <1>3, <3>3, <3>4
    <3> QED
      BY <1>1, <1>3, <2>3, <3>4, <3>5
  <2> QED
    BY <2>1, <2>2, <2>3
<1>13. ASSUME k = N, NEW i \in DOMAIN q[f] PROVE q[f][i] \in h[c[k]]
  <2>1. f \in {"lc_rounds", "z_partial"}
    BY <1>9, <1>13, DrawsAre DEF Needs
  <2>2. CASE f = "z_partial"
    <3>1. i \in 1..ZPartial
      BY <1>4, <1>6, <1>13, <2>2 DEF PiopFields
    <3>2. q["z_partial"][i] \in Elements(Said(q, SaysOf(k)))
      BY <1>13, <3>1, SaidTells
    <3>3. k \in 2..Len(c)
      BY <1>1, <1>5, <1>13
    <3> QED
      BY <1>3, <2>2, <3>2, <3>3
  <2>3. CASE f = "lc_rounds"
    <3>1. i \in 1..(2 * LcRounds)
      BY <1>4, <1>6, <1>13, <2>3 DEF PiopFields
    <3>2. PICK r \in 1..LcRounds : i = 2 * r - 1 \/ i = 2 * r
      BY <1>5, <3>1, Halves
    <3>3. q["lc_rounds"][i] \in Elements(Said(q, SaysOf(3 + ZcRounds + Pins + r)))
      BY <3>2, SaidTells
    <3>4. 3 + ZcRounds + Pins + r \in 2..Len(c) /\ 3 + ZcRounds + Pins + r \in 1..Len(c)
          /\ 3 + ZcRounds + Pins + r <= k
      BY <1>1, <1>5, <1>13
    <3>5. q["lc_rounds"][i] \in h[c[3 + ZcRounds + Pins + r]]
      BY <1>3, <3>3, <3>4
    <3> QED
      BY <1>1, <1>3, <2>3, <3>4, <3>5
  <2> QED
    BY <2>1, <2>2, <2>3
<1>14. ASSUME k \notin {1, 2, 3 + ZcRounds, N} PROVE FALSE
  <2>1. ProverBlocks[k].draws \in {"beta", "rho"}
    BY <1>1, <1>14, BlockCases, DrawsAre
  <2> QED
    BY <1>9, <2>1 DEF Needs
<1> QED
  BY <1>10, <1>11, <1>12, <1>13, <1>14

LEMMA AbsorbTells ==
  ASSUME NEW t \in Transcript, NEW items \in Seq(SayableItem)
  PROVE  /\ Absorb(t, items) \in Transcript /\ Absorb(t, items).at = t.at
         /\ Elements(t.since) \subseteq Elements(Absorb(t, items).since)
         /\ Elements(items) \subseteq Elements(Absorb(t, items).since)
<1>1. Absorb(t, items) \in Transcript /\ Absorb(t, items).at = t.at /\ Absorb(t, items).since = t.since \o items
  BY AbsorbTyped
<1>2. t.since \in Seq(SayableItem)
  BY DEF Transcript
<1> QED
  BY <1>1, <1>2, ElementsJoin

LEMMA AfterTyped == \A k \in Nat : After(k) \in Transcript /\ After(k).at = k
<1> HIDE DEF SayableItem
<1> QED
  BY DEF After, Transcript

(* Every commitment and ring claim comes before the digest challenges, the blinds  *)
(* and the nonce before the blinding challenge.                                   *)
LEMMA LinkBinds ==
  ASSUME PadInv, TraceInv, Regular, NEW h, Follows(oracle, h), NEW b \in Main
  PROVE  /\ link[b].digest # 0 => \A f \in Commitments \cup RingClaims : Binds(b, h, link[b].digest, f)
         /\ link[b].blind # 0 => \A f \in {"direct_blinds", "blind_nonce"} : Binds(b, h, link[b].blind, f)
<1> DEFINE q == SideProof(b)
           c == chal[b]
           d == link[b].digest
           k == link[b].blind
<1>1. LinkAt(oracle, q, d, k, c, blk[b], pc[b], tr[b], start[b]) /\ b \in Walkers /\ Owner[b] = b
  BY OtherIs DEF TraceInv, LinkInv
<1>2. /\ c \in Seq(Nat \ {0}) /\ Len(c) <= N /\ Len(c) + 1 = blk[b] /\ Len(c) \in Nat
      /\ WalkChain(oracle, q, c)
      /\ Len(c) >= 1 => \A g \in PiopFields : q[g] \in Seq(Sayable) /\ Len(q[g]) = FieldLen[g]
  BY <1>1, WalkTyped
<1>3. ProofOK(q) /\ Named(q) /\ OracleOK(oracle)
  BY SideDomains DEF PadInv
<1>4. (Commitments \cup RingClaims \cup {"direct_blinds"}) \cap Nonces = {}
      /\ Commitments \cup RingClaims \cup {"direct_blinds"} \subseteq Field
  BY NamesApart DEF Commitments, RingClaims, Nonces, RingClaimFields
<1>5. ASSUME NEW f \in Commitments \cup RingClaims \cup {"direct_blinds"}, NEW i, Range(q[f]) \subseteq h[i]
      PROVE  Binds(b, h, i, f)
  <2>1. \A j \in DOMAIN SideProof(Owner[b])[f] : SideProof(Owner[b])[f][j] \in h[i]
    BY <1>1, <1>5 DEF Range
  <2>2. f \in Field \ Nonces
    BY <1>4
  <2> QED
    BY <1>1, <2>1, <2>2, BindsFrom
<1>6. N \in Nat /\ N >= 4
  BY PinsType
<1> HIDE DEF q, c, d, k
<1>7. ASSUME d # 0, NEW f \in Commitments \cup RingClaims
      PROVE  Range(q[f]) \subseteq h[d]
  <2>1. blk[b] = N + 1 /\ IsId(oracle, d, RingPoint(q, c))
    BY <1>1, <1>7 DEF LinkAt
  <2>2. Len(c) = N /\ 1 \in 1..Len(c) /\ N \in 1..Len(c) /\ 1 <= N /\ Len(c) >= 1
    BY <1>2, <1>6, <2>1
  <2>3. /\ Elements(StatementItems(q) \o BindItems(q)) \subseteq h[c[1]]
        /\ h[c[1]] \subseteq h[c[N]]
    BY <1>2, <1>3, <2>2, WalkRemembers
  <2>4. h[RingPoint(q, c).at] \subseteq h[d] /\ Elements(RingPoint(q, c).since) \subseteq h[d]
    BY <2>1, IdRemembers
  <2>5. RingPoint(q, c).at = c[N] /\
        RingPoint(q, c).since = <<>> \o (RingItems(q) \o <<Label("flock-digest-bind")>>)
    BY DEF RingPoint, Absorb, After
  <2>6. <<>> \o (RingItems(q) \o <<Label("flock-digest-bind")>>) = RingItems(q) \o <<Label("flock-digest-bind")>>
    <3>1. \A u, v, w, x, y, z : <<>> \o (<<u, v, w, x, y>> \o <<z>>) = <<u, v, w, x, y>> \o <<z>>
      OBVIOUS
    <3> QED
      BY <3>1 DEF RingItems
  <2>7. CASE f \in Commitments
    BY <2>3, <2>4, <2>5, <2>7, ItemsTell
  <2>8. CASE f \in RingClaims
    BY <2>4, <2>5, <2>6, <2>8, ItemsTell
  <2> QED
    BY <2>7, <2>8
<1>8. ASSUME k # 0
      PROVE  Range(q["direct_blinds"]) \subseteq h[k] /\ BlindNonce(q) \in h[k] /\ BlindNonce(q).name = "blind_nonce"
  <2>1. d # 0 /\ Drawing(oracle, k, BlindT(q, d))
    BY <1>1, <1>8 DEF LinkAt, Drawn
  <2>2. d \in Nat
    BY DEF PadInv, VarTypes, d
  <2>3. DirectItems(q) \in Seq(SayableItem)
    BY <1>3, ItemsTyped
  <2>4. q["blind_nonce"] \in Seq(Sayable) /\ Len(q["blind_nonce"]) = 1 /\ "blind_nonce" \in Field
    BY <1>3, NamesApart DEF ProofOK
  <2>5. BlindNonce(q) \in Sayable /\ 1 \in DOMAIN q["blind_nonce"]
    <3> HIDE DEF Sayable
    <3> QED
      BY <2>4 DEF BlindNonce
  <2>6. <<PowBytes(BlindNonce(q))>> \in Seq(SayableItem)
    BY <2>5, PowTyped
  <2>7. After(d) \in Transcript
    BY <2>2, AfterTyped
  <2>8. PowT(q, d) \in Transcript /\ Elements(DirectItems(q)) \subseteq Elements(PowT(q, d).since)
    BY <2>3, <2>7, AbsorbTells DEF PowT
  <2>9. /\ Elements(PowT(q, d).since) \subseteq Elements(BlindT(q, d).since)
        /\ Elements(<<PowBytes(BlindNonce(q))>>) \subseteq Elements(BlindT(q, d).since)
    BY <2>6, <2>8, AbsorbTells DEF BlindT
  <2>10. Elements(BlindT(q, d).since) \subseteq h[k]
    BY <1>3, <2>1, DrawingRemembers
  <2>11. BlindNonce(q).name = "blind_nonce"
    BY <1>3, <2>4, <2>5 DEF Named, BlindNonce
  <2> QED
    BY <2>8, <2>9, <2>10, <2>11, ItemsTell
<1>9. d # 0 => \A f \in Commitments \cup RingClaims : Binds(b, h, d, f)
  BY <1>5, <1>7
<1>10. k # 0 => Binds(b, h, k, "direct_blinds")
  BY <1>5, <1>8
<1>11. k # 0 => Binds(b, h, k, "blind_nonce")
  BY <1>8 DEF Binds
<1>12. k # 0 => \A f \in {"direct_blinds", "blind_nonce"} : Binds(b, h, k, f)
  BY <1>10, <1>11
<1> QED
  BY <1>9, <1>12 DEF d, k

(* The blinded slices come before every challenge of either branch. *)
LEMMA AttestBinds ==
  ASSUME PadInv, TraceInv, Regular, NEW h, Follows(oracle, h),
         NEW a \in {attest["pcs"], attest["veil"]} \ {<<>>}, NEW f \in {"q1", "q2"}
  PROVE  Binds("prover", h, a.transcript, f)
<1> DEFINE q == SideProof("prover")
           k == link["prover"].blind
<1>1. ProofOK(q) /\ OracleOK(oracle) /\ "prover" \in Main /\ "prover" \in Walkers /\ Owner["prover"] = "prover"
  BY SideDomains, ThreadNames DEF PadInv
<1>2. k \in Nat
  BY ThreadNames DEF PadInv, VarTypes
<1>3. BlindedItems(q) \in Seq(SayableItem)
  BY <1>1, ItemsTyped
<1> HIDE DEF q, k
<1>4. After(k) \in Transcript
  BY <1>2, AfterTyped
<1>5. BlindedT(q, k) \in Transcript /\ Elements(BlindedItems(q)) \subseteq Elements(BlindedT(q, k).since)
  BY <1>3, <1>4, AbsorbTells DEF BlindedT
<1>6. ASSUME NEW l \in Labels
      PROVE  ForkT(q, k, l) \in Transcript /\ Elements(BlindedItems(q)) \subseteq Elements(ForkT(q, k, l).since)
  <2>1. <<Label(l)>> \in Seq(SayableItem)
    BY LabelItem, Tuples
  <2> QED
    BY <1>5, <2>1, AbsorbTells DEF ForkT
<1>7. ASSUME Opened("prover", a) PROVE Elements(BlindedItems(q)) \subseteq h[a.transcript]
  <2>1. PICK d \in [1..(FoldSites + 1) -> DOMAIN oracle] :
           FoldChain(oracle, q, k, d, FoldSites + 1) /\ a = PcsClaim("prover", d[FoldSites + 1])
    BY <1>7 DEF Opened, q, k
  <2>2. a.transcript = d[FoldSites + 1]
    BY <2>1 DEF PcsClaim
  <2>3. FoldSites \in Nat
    BY Bounds
  <2>4. IsId(oracle, d[1], ForkT(q, k, "veil-flock-pcs-fork"))
    BY <2>1, <2>3 DEF FoldChain
  <2>5. Elements(BlindedItems(q)) \subseteq h[d[1]]
    BY <1>6, <2>4, IdRemembers DEF Labels
  <2>6. \A j \in 2..(FoldSites + 1) : h[d[j - 1]] \subseteq h[d[j]]
    <3> TAKE j \in 2..(FoldSites + 1)
    <3>1. j \in 1..(FoldSites + 1) /\ j # 1
      BY <2>3
    <3>2. IsId(oracle, d[j], FoldT(q, d, j - 1))
      BY <2>1, <3>1 DEF FoldChain
    <3>3. FoldT(q, d, j - 1).at = d[j - 1]
      BY DEF FoldT, Absorb, After
    <3> QED
      BY <3>2, <3>3, IdRemembers
  <2> DEFINE S == {j \in 1..(FoldSites + 1) : ~(Elements(BlindedItems(q)) \subseteq h[d[j]])}
  <2>7. ASSUME S # {} PROVE FALSE
    <3>1. S \subseteq Nat
      BY <2>3
    <3>2. PICK j \in S : \A m \in S : j <= m
      BY <2>7, <3>1, LeastNat
    <3>3. j # 1 /\ j \in 1..(FoldSites + 1)
      BY <2>5, <3>2
    <3>4. j \in 2..(FoldSites + 1) /\ j - 1 \in 1..(FoldSites + 1) /\ ~(j <= j - 1)
      BY <2>3, <3>3
    <3>5. j - 1 \notin S
      BY <3>2, <3>4
    <3> QED
      BY <2>6, <3>2, <3>4, <3>5
  <2>8. FoldSites + 1 \in 1..(FoldSites + 1)
    BY <2>3
  <2> QED
    BY <2>2, <2>7, <2>8
<1>8. ASSUME Proved("prover", a) PROVE Elements(BlindedItems(q)) \subseteq h[a.transcript]
  <2>1. PICK i \in DOMAIN oracle : IsId(oracle, i, VeilT(q, k)) /\ a = VeilClaim("prover", i)
    BY <1>8 DEF Proved, q, k
  <2>2. a.transcript = i
    BY <2>1 DEF VeilClaim
  <2>3. q["veil_root"] \in Seq(Sayable)
    BY <1>1, NamesApart DEF ProofOK
  <2>4. <<Label("veil-f128-constraint-system"), Item("bytes", q["veil_root"])>> \in Seq(SayableItem)
    BY <2>3, LabelItem, ItemTyped, Tuples DEF Labels
  <2>5. Elements(ForkT(q, k, "veil-flock-inner-fork").since) \subseteq Elements(VeilT(q, k).since)
    BY <1>6, <2>4, AbsorbTells DEF VeilT, Labels
  <2>6. Elements(VeilT(q, k).since) \subseteq h[i]
    BY <2>1, IdRemembers
  <2> QED
    BY <1>6, <2>2, <2>5, <2>6 DEF Labels
<1>9. Elements(BlindedItems(q)) \subseteq h[a.transcript]
  <2>1. (attest["pcs"] # <<>> => Opened("prover", attest["pcs"])) /\ (attest["veil"] # <<>> => Proved("prover", attest["veil"]))
    BY DEF TraceInv, AttestInv
  <2>2. a # <<>> /\ (a = attest["pcs"] \/ a = attest["veil"])
    OBVIOUS
  <2> QED
    BY <1>7, <1>8, <2>1, <2>2
<1>10. \A i \in DOMAIN q[f] : q[f][i] \in h[a.transcript]
  BY <1>9, ItemsTell DEF Range
<1>11. f \in Field \ Nonces
  BY NamesApart DEF Nonces
<1> QED
  BY <1>1, <1>10, <1>11, BindsFrom DEF q

LEMMA InvGivesOrder ==
  ASSUME PadInv, TraceInv, Regular
  PROVE  BindingOrder
<1>1. PICK h : h = History
  OBVIOUS
<1>2. Follows(oracle, h)
  BY <1>1, HistoryFollows DEF PadInv
<1>3. \A b \in Main \cup Replay : \A k \in DOMAIN chal[b] :
        \A f \in Needs(Blocks(b)[k].draws) : Binds(b, h, chal[b][k], f)
  BY <1>2, WalkBinds DEF Walkers
<1>4. \A b \in Main :
        /\ link[b].digest # 0 => \A f \in Commitments \cup RingClaims : Binds(b, h, link[b].digest, f)
        /\ link[b].blind # 0 => \A f \in {"direct_blinds", "blind_nonce"} : Binds(b, h, link[b].blind, f)
  BY <1>2, LinkBinds
<1>5. \A a \in {attest["pcs"], attest["veil"]} \ {<<>>} : \A f \in {"q1", "q2"} : Binds("prover", h, a.transcript, f)
  BY <1>2, AttestBinds
<1> QED
  BY <1>1, <1>3, <1>4, <1>5, Zenon DEF BindingOrder

-----------------------------------------------------------------------------
(* Completeness.  Two walks over one proof draw the same challenges: the oracle    *)
(* answers a point once, and a redraw ends at one point.                           *)
LEMMA ChallengesAgree ==
  ASSUME NEW o, OracleOK(o), NEW q, NEW c \in Seq(Nat \ {0}), NEW e \in Seq(Nat \ {0}),
         Len(c) = N, Len(e) = N, WalkChain(o, q, c), WalkChain(o, q, e)
  PROVE  c = e
<1>1. N \in Nat /\ N >= 4
  BY PinsType
<1> DEFINE S == {i \in 1..N : c[i] # e[i]}
<1>2. ASSUME S # {} PROVE FALSE
  <2>1. S \subseteq Nat
    BY <1>1
  <2>2. PICK i \in S : \A m \in S : i <= m
    BY <1>2, <2>1, LeastNat
  <2>3. i \in 1..N /\ c[i] # e[i]
    BY <2>2
  <2>4. CASE i = 1
    <3>1. Drawn(o, c[1], EqPoint(q)) /\ Drawn(o, e[1], EqPoint(q))
      BY <1>1, <2>3, <2>4 DEF WalkChain
    <3> QED
      BY <2>3, <2>4, <3>1, DrawnOnce
  <2>5. CASE i # 1
    <3>1. i - 1 \in 1..N /\ ~(i <= i - 1)
      BY <1>1, <2>3, <2>5
    <3>2. c[i - 1] = e[i - 1]
      BY <2>2, <3>1
    <3>3. IsId(o, c[i], WalkPoint(q, c, i)) /\ IsId(o, e[i], WalkPoint(q, e, i))
      BY <2>3, <2>5 DEF WalkChain
    <3>4. WalkPoint(q, c, i) = WalkPoint(q, e, i)
      BY <3>2 DEF WalkPoint
    <3> QED
      BY <2>3, <3>3, <3>4 DEF IsId, OracleOK
  <2> QED
    BY <2>4, <2>5
<1>3. \A i \in 1..N : c[i] = e[i]
  BY <1>2
<1> QED
  BY <1>1, <1>3

LEMMA FoldsForward ==
  ASSUME NEW o, OracleOK(o), NEW q, NEW k, NEW d, NEW e, NEW n \in Nat, NEW m \in Nat, n <= m,
         FoldChain(o, q, k, d, n), FoldChain(o, q, k, e, m)
  PROVE  \A j \in 1..n : d[j] = e[j]
<1> DEFINE S == {j \in 1..n : d[j] # e[j]}
<1>1. ASSUME S # {} PROVE FALSE
  <2>1. S \subseteq Nat
    OBVIOUS
  <2>2. PICK j \in S : \A l \in S : j <= l
    BY <1>1, <2>1, LeastNat
  <2>3. j \in 1..n /\ j \in 1..m /\ d[j] # e[j]
    BY <2>2
  <2>4. j # 1 => j - 1 \in 1..n /\ ~(j <= j - 1)
    BY <2>3
  <2>5. j # 1 => d[j - 1] = e[j - 1]
    BY <2>2, <2>4
  <2>6. j # 1 => FoldT(q, d, j - 1) = FoldT(q, e, j - 1)
    BY <2>5 DEF FoldT
  <2>7. o[d[j]].point = o[e[j]].point /\ d[j] \in DOMAIN o /\ e[j] \in DOMAIN o
    BY <2>3, <2>6 DEF FoldChain, IsId
  <2> QED
    BY <2>3, <2>7 DEF OracleOK
<1> QED
  BY <1>1

(* A point already asked is answered as before. *)
LEMMA AskedAgain ==
  ASSUME OracleOK(oracle), NEW k, NEW p, IsId(oracle, k, p)
  PROVE  IdOf(p) = k /\ \A c : Answered(p, c) => c = oracle[k].class /\ oracle' = oracle
<1>1. Known(p) /\ k \in DOMAIN oracle /\ oracle[k].point = p
  BY DEF Known, IsId
<1>2. \A j \in DOMAIN oracle : oracle[j].point = p => j = k
  BY <1>1 DEF OracleOK
<1>3. IdOf(p) = k
  BY <1>1, <1>2 DEF IdOf
<1> QED
  BY <1>1, <1>3 DEF Answered

LEMMA HitAgain ==
  ASSUME OracleOK(oracle), NEW p, Hit(oracle, p), NEW c, Answered(p, c)
  PROVE  c = "good"
<1>1. PICK k \in DOMAIN oracle : oracle[k].point = p /\ oracle[k].class = "good"
  BY DEF Hit
<1>2. IsId(oracle, k, p)
  BY <1>1 DEF IsId
<1> QED
  BY <1>1, <1>2, AskedAgain

(* The first challenge of a walk that goes on has no one in it. *)
LEMMA NeverDegenerate ==
  ASSUME PadInv, TraceInv, NEW b \in Walkers
  PROVE  ~Degenerate(b)
<1>1. SUFFICES ASSUME blk[b] \in 3..(2 + ZcRounds), oracle[chal[b][1]].class = "bad" PROVE FALSE
  BY DEF Degenerate
<1>2. WalkChain(oracle, SideProof(Owner[b]), chal[b]) /\ Len(chal[b]) + 1 = blk[b] /\ Len(chal[b]) \in Nat
  BY WalkTyped
<1>3. 1 \in 1..Len(chal[b])
  BY <1>1, <1>2, Bounds
<1>4. oracle[chal[b][1]].class = "good"
  BY <1>2, <1>3 DEF WalkChain, Drawn
<1> QED
  BY <1>1, <1>4

LEMMA AllShaped ==
  ASSUME TraceInv, NEW fields, fields \subseteq Field
  PROVE  /\ Shaped("prover", fields) /\ Shaped("replay", fields)
         /\ proof["verifier"] = proof["prover"] => Shaped("verifier", fields) /\ Shaped("recheck", fields)
<1>1. \A f \in fields : Len(proof["prover"][f]) = FieldLen[f]
  BY DEF TraceInv, ElementsInv
<1> QED
  BY <1>1, ThreadNames DEF Shaped

LEMMA FieldSets == PiopFields \subseteq Field /\ RingFields \subseteq Field /\ {"direct_blinds"} \subseteq Field
BY FieldNames, NamesApart DEF RingFields, RingClaimFields

(* The second walk of a side meets the first one's challenges. *)
LEMMA WalkedAlike ==
  ASSUME PadInv, TraceInv, NEW b \in Main, pc[b] \in Bound, blk[Second[b]] > N
  PROVE  chal[Second[b]] = chal[b] /\ Len(chal[b]) = N
<1>1. b \in Walkers /\ Second[b] \in Walkers /\ Owner[b] = b /\ Owner[Second[b]] = b
  BY OtherIs
<1>2. /\ chal[b] \in Seq(Nat \ {0}) /\ Len(chal[b]) + 1 = blk[b] /\ Len(chal[b]) \in Nat
      /\ WalkChain(oracle, SideProof(b), chal[b])
  BY <1>1, WalkTyped
<1>3. /\ chal[Second[b]] \in Seq(Nat \ {0}) /\ Len(chal[Second[b]]) <= N /\ Len(chal[Second[b]]) \in Nat
      /\ Len(chal[Second[b]]) + 1 = blk[Second[b]] /\ WalkChain(oracle, SideProof(b), chal[Second[b]])
  BY <1>1, WalkTyped
<1>4. blk[b] = N + 1 /\ N \in Nat
  BY PinsType DEF TraceInv, LinkInv, LinkAt
<1>5. Len(chal[b]) = N /\ Len(chal[Second[b]]) = N
  BY <1>2, <1>3, <1>4
<1>6. OracleOK(oracle)
  BY DEF PadInv
<1>7. PICK c \in Seq(Nat \ {0}), e \in Seq(Nat \ {0}) :
         c = chal[b] /\ e = chal[Second[b]]
  BY <1>2, <1>3
<1>8. PICK q : q = SideProof(b)
  OBVIOUS
<1>9. c = e
  BY <1>2, <1>3, <1>5, <1>6, <1>7, <1>8, ChallengesAgree
<1> QED
  BY <1>5, <1>7, <1>9

LEMMA CircuitsAreFine ==
  ASSUME PadInv, TraceInv, NEW b \in Main, pc[b] = "circuit", blk[Second[b]] > N, Shaped(b, RingFields)
  PROVE  CircuitIsFine(b)
<1>1. pc[b] \in Bound /\ pc[b] \in Blinded
  BY DEF Bound, Blinded
<1>2. chal[Second[b]] = chal[b]
  BY <1>1, WalkedAlike
<1>3. oracle[link[b].blind].class = "good"
  BY <1>1 DEF TraceInv, LinkInv, LinkAt, Drawn
<1> QED
  BY <1>2, <1>3 DEF CircuitIsFine

(* The masks satisfy the prover's own circuit. *)
LEMMA CircuitIsSatisfied ==
  ASSUME PadInv, TraceInv, pc["prover"] = "join"
  PROVE  Satisfied(Circuit("prover"))
<1> DEFINE c == Circuit("prover")
<1>1. pc["prover"] \notin Unmasked /\ pc["prover"] \in Blinded
  BY DEF Unmasked, Blinded
<1>2. \A f \in Private : proof["prover"][f] = [i \in 1..FieldLen[f] |-> Padded(f, i)]
  BY <1>1 DEF PadInv, Pads
<1>3. Range(UnmaskOrder) = Private /\ \A f \in Private : Before(UnmaskOrder)[f] = Base[f]
  BY UnmaskBefore
<1>4. c.wires = [f \in Private |-> [i \in 1..FieldLen[f] |-> <<proof["prover"][f][i], Base[f] + i>>]]
  <2>1. c.wires = [f \in Range(UnmaskOrder) |->
                     [i \in 1..FieldLen[f] |-> <<proof["prover"][f][i], Before(UnmaskOrder)[f] + i>>]]
    BY DEF Circuit
  <2> QED
    BY <1>3, <2>1
<1>5. ASSUME NEW f \in Private, NEW i \in 1..FieldLen[f]
      PROVE  /\ c.wires[f][i][1].mask = c.wires[f][i][2] /\ c.wires[f][i][1].intact
             /\ DOMAIN c.wires[f] = 1..FieldLen[f]
  <2>1. c.wires[f] = [j \in 1..FieldLen[f] |-> <<proof["prover"][f][j], Base[f] + j>>]
    BY <1>4
  <2>2. c.wires[f][i] = <<Padded(f, i), Base[f] + i>>
    BY <1>2, <2>1
  <2>3. Padded(f, i).mask = Base[f] + i /\ Padded(f, i).intact = TRUE
    BY PaddedElement
  <2> HIDE DEF c
  <2> QED
    BY <2>1, <2>2, <2>3
<1>6. DOMAIN c.wires = Private
  BY <1>4
<1>7. \A f \in DOMAIN c.wires : \A i \in DOMAIN c.wires[f] :
        c.wires[f][i][1].mask = c.wires[f][i][2] /\ c.wires[f][i][1].intact
  <2>1. \A f \in Private : DOMAIN c.wires[f] = 1..FieldLen[f]
    BY <1>4
  <2> HIDE DEF c
  <2> QED
    BY <1>5, <1>6, <2>1
<1>8. c.q = <<QSlice("q1"), QSlice("q2")>> /\ c.link = link["prover"].blind
  BY <1>1 DEF Circuit, TraceInv, ElementsInv
<1>9. \A f : \A i \in DOMAIN QSlice(f) : QSlice(f)[i].at = link["prover"].blind /\ QSlice(f)[i].intact
  <2> TAKE f
  <2> TAKE i \in DOMAIN QSlice(f)
  <2>1. QSlice(f)[i] = [V(f, i) EXCEPT !.at = link["prover"].blind]
    BY DEF QSlice
  <2> QED
    BY <2>1 DEF V
<1> HIDE DEF c
<1>10. \A s \in 1..2 : \A i \in DOMAIN c.q[s] : c.q[s][i].at = c.link /\ c.q[s][i].intact
  <2>1. c.q[1] = QSlice("q1") /\ c.q[2] = QSlice("q2")
    BY <1>8
  <2>2. \A s \in 1..2 : s = 1 \/ s = 2
    OBVIOUS
  <2> QED
    BY <1>8, <1>9, <2>1, <2>2
<1>11. Satisfied(c)
  BY <1>7, <1>10 DEF Satisfied
<1> QED
  BY <1>11 DEF c

(* A proof that arrives as it was sent: the verifier's trace is the prover's. *)
LEMMA SentAlike ==
  ASSUME PadInv, TraceInv, pc["prover"] = "shipped", proof["verifier"] = proof["prover"],
         pc["verifier"] \in Bound \ {"rings"}
  PROVE  /\ SideProof("verifier") = SideProof("prover") /\ SideProof("prover") = proof["prover"]
         /\ chal["verifier"] = chal["prover"]
         /\ link["verifier"].digest # 0 => link["verifier"].digest = link["prover"].digest
         /\ link["verifier"].blind # 0 => link["verifier"] = link["prover"]
<1>1. "prover" \in Main /\ "verifier" \in Main /\ "prover" \in Walkers /\ "verifier" \in Walkers
      /\ Owner["prover"] = "prover" /\ Owner["verifier"] = "verifier"
  BY ThreadNames
<1>2. pc["prover"] \notin Unmasked /\ pc["prover"] \in Bound /\ pc["prover"] \in Blinded /\ pc["verifier"] \in Bound
  BY DEF Unmasked, Bound, Blinded
<1>3. SideProof("verifier") = proof["prover"]
  BY DEF SideProof
<1>4. SideProof("prover") = proof["prover"]
  <2>1. \A f \in Field : SideProof("prover")[f] = proof["prover"][f]
    BY <1>1, <1>2, SideProofIs
  <2>2. Total(SideProof("prover")) /\ Total(proof["prover"])
    BY <1>1, MaskedTwice DEF SideProof, TraceInv, ElementsInv
  <2>3. PICK p, q : p = SideProof("prover") /\ q = proof["prover"]
    OBVIOUS
  <2>4. p = [f \in Field |-> p[f]] /\ q = [f \in Field |-> q[f]] /\ \A f \in Field : p[f] = q[f]
    BY <2>1, <2>2, <2>3 DEF Total
  <2>5. [f \in Field |-> p[f]] = [f \in Field |-> q[f]]
    BY <2>4
  <2> QED
    BY <2>3, <2>4, <2>5
<1>5. OracleOK(oracle)
  BY DEF PadInv
<1>6. PICK c, e, q, d, f, k, m : /\ c = chal["prover"] /\ e = chal["verifier"] /\ q = proof["prover"]
                                 /\ d = link["prover"].digest /\ f = link["verifier"].digest
                                 /\ k = link["prover"].blind /\ m = link["verifier"].blind
  OBVIOUS
<1>7. /\ c \in Seq(Nat \ {0}) /\ Len(c) + 1 = blk["prover"] /\ Len(c) \in Nat /\ WalkChain(oracle, q, c)
      /\ e \in Seq(Nat \ {0}) /\ Len(e) + 1 = blk["verifier"] /\ Len(e) \in Nat /\ WalkChain(oracle, q, e)
  BY <1>1, <1>3, <1>4, <1>6, WalkTyped
<1>8. /\ LinkAt(oracle, q, d, k, c, blk["prover"], pc["prover"], tr["prover"], start["prover"])
      /\ LinkAt(oracle, q, f, m, e, blk["verifier"], pc["verifier"], tr["verifier"], start["verifier"])
  BY <1>1, <1>3, <1>4, <1>6 DEF TraceInv, LinkInv
<1>9. blk["prover"] = N + 1 /\ blk["verifier"] = N + 1 /\ N \in Nat
  BY <1>2, <1>8, PinsType DEF LinkAt
<1>10. c = e
  <2>1. Len(c) = N /\ Len(e) = N
    BY <1>7, <1>9
  <2> QED
    BY <1>5, <1>7, <2>1, ChallengesAgree
<1>11. k # 0 /\ d # 0
  BY <1>2, <1>8 DEF LinkAt
<1>12. IsId(oracle, d, RingPoint(q, c)) /\ Drawn(oracle, k, BlindT(q, d))
  BY <1>8, <1>11 DEF LinkAt
<1>13. f # 0 => f = d
  <2>1. f # 0 => IsId(oracle, f, RingPoint(q, c))
    BY <1>8, <1>10 DEF LinkAt
  <2> QED
    BY <1>5, <1>12, <2>1 DEF IsId, OracleOK
<1>14. m # 0 => m = k /\ f = d
  <2>1. m # 0 => f # 0 /\ Drawn(oracle, m, BlindT(q, f))
    BY <1>8 DEF LinkAt
  <2> QED
    BY <1>5, <1>12, <1>13, <2>1, DrawnOnce
<1>15. ASSUME m # 0 PROVE link["verifier"] = link["prover"]
  <2>1. link["verifier"] \in [digest : Nat, blind : Nat] /\ link["prover"] \in [digest : Nat, blind : Nat]
    BY <1>1 DEF PadInv, VarTypes
  <2>2. link["verifier"].digest = link["prover"].digest /\ link["verifier"].blind = link["prover"].blind
    BY <1>6, <1>14, <1>15
  <2> QED
    BY <2>1, <2>2
<1> QED
  BY <1>3, <1>4, <1>6, <1>10, <1>13, <1>15

(* Before the proof is shipped, nobody verifies. *)
LEMMA NotYetSent ==
  ASSUME PadInv, TraceInv, pc["prover"] # "shipped"
  PROVE  pc["verifier"] = "idle" /\ pc["recheck"] = "idle"
<1>1. pc["verifier"] = "idle"
  BY DEF PadInv, Pads
<1>2. pc[Second["verifier"]] # "idle" => pc["verifier"] \in Errors \cup Blinded
  BY ThreadNames DEF TraceInv, SecondInv
<1> QED
  BY <1>1, <1>2, ThreadNames DEF Errors, Blinded

(* Finished: the prover's only failure is a grind past its bound, its second walk  *)
(* and its circuit never fail, and an unchanged proof is never refused.           *)
Sent == proof["verifier"] = proof["prover"]
Finished ==
    /\ ProverFailsOnlyByGrinding
    /\ pc["prover"] = "shipped" => GrindingIsBounded("prover")
    /\ pc["replay"] # "InvalidShape" /\ pc["veil"] # "UnsatisfiedCircuit"
    /\ Sent => pc["verifier"] \notin Errors /\ pc["recheck"] # "InvalidShape"

NonceTooLarge ==
    \E k \in DOMAIN proof["prover"].fold_nonces :
        proof["prover"].fold_nonces[k].i >= MAX_LIGERITO_GRIND_TRIALS

(* A step of the prover's side, and one of the verifier's. *)
LEMMA ProverGoesOn ==
  ASSUME PadInv, TraceInv, pc["prover"] # "shipped",
         pc'["verifier"] = pc["verifier"], pc'["recheck"] = pc["recheck"],
         pc'["replay"] # "InvalidShape", pc'["veil"] # "UnsatisfiedCircuit",
         pc'["prover"] \in Errors => /\ pc'["prover"] = "GrindingLimitExceeded"
                                     /\ \/ trial'["prover"] >= MAX_BLIND_GRIND_TRIALS
                                        \/ NonceTooLarge',
         pc'["prover"] = "shipped" => GrindingIsBounded("prover")'
  PROVE  Finished'
<1>1. pc'["verifier"] \notin Errors /\ pc'["recheck"] # "InvalidShape"
  BY NotYetSent DEF Errors
<1>2. ProverFailsOnlyByGrinding'
  BY DEF ProverFailsOnlyByGrinding, NonceTooLarge
<1> QED
  BY <1>1, <1>2 DEF Finished

LEMMA VerifierGoesOn ==
  ASSUME Finished, pc["prover"] = "shipped", pc'["prover"] = "shipped",
         proof'["prover"] = proof["prover"], pc'["replay"] = pc["replay"], pc'["veil"] # "UnsatisfiedCircuit",
         Sent' => pc'["verifier"] \notin Errors /\ pc'["recheck"] # "InvalidShape"
  PROVE  Finished'
<1>1. GrindingIsBounded("prover")'
  BY DEF Finished, GrindingIsBounded
<1>2. ProverFailsOnlyByGrinding'
  BY DEF ProverFailsOnlyByGrinding, Errors
<1> QED
  BY <1>1, <1>2 DEF Finished

LEMMA VerifierAwake ==
  ASSUME PadInv, pc["verifier"] # "idle"
  PROVE  pc["prover"] = "shipped"
BY DEF PadInv, Pads

LEMMA Moved ==
  ASSUME PadInv, NEW b \in Threads, NEW p, pc' = [pc EXCEPT ![b] = p]
  PROVE  pc'[b] = p /\ \A x \in Threads \ {b} : pc'[x] = pc[x]
BY TypesGive

LEMMA BindFinishes ==
  ASSUME PadInv, TraceInv, Finished, NEW b \in Main, Bind(b)
  PROVE  Finished'
<1>1. pc' = [pc EXCEPT ![b] = "walk"] /\ pc[b] = "bind" /\ proof' = proof
  BY DEF Bind, Goto
<1>2. pc'[b] = "walk" /\ \A x \in Threads \ {b} : pc'[x] = pc[x]
  BY <1>1, Moved, ThreadNames
<1>3. CASE b = "prover"
  BY <1>1, <1>2, <1>3, ProverGoesOn, ThreadNames DEF Finished, Errors
<1>4. CASE b = "verifier"
  <2>1. pc["prover"] = "shipped"
    BY <1>1, <1>4, VerifierAwake
  <2>2. Sent' => pc'["verifier"] \notin Errors /\ pc'["recheck"] # "InvalidShape"
    BY <1>1, <1>2, <1>4, ThreadNames DEF Finished, Sent, Errors
  <2> QED
    BY <1>1, <1>2, <1>4, <2>1, <2>2, VerifierGoesOn, ThreadNames DEF Finished
<1> QED
  BY <1>3, <1>4, ThreadNames

LEMMA RefuseShapeFinishes ==
  ASSUME PadInv, TraceInv, Finished, NEW w \in Walkers, RefuseShape(w)
  PROVE  Finished'
<1>1. /\ pc' = [pc EXCEPT ![w] = "InvalidShape"] /\ w # "prover" /\ pc[w] = "walk" /\ blk[w] = 1
      /\ proof' = proof /\ ~Shaped(w, PiopFields)
  BY DEF RefuseShape, Goto
<1>2. w \in {"verifier", "recheck"} /\ ~Sent
  BY <1>1, AllShaped, FieldSets, ThreadNames DEF Sent
<1>3. pc'[w] = "InvalidShape" /\ \A x \in Threads \ {w} : pc'[x] = pc[x]
  BY <1>1, Moved, ThreadNames
<1>4. pc["verifier"] # "idle"
  <2>1. w = "recheck" => pc["verifier"] = "circuit"
    BY <1>1, ThreadNames, PinsType DEF PadInv, Control
  <2> QED
    BY <1>1, <1>2, <2>1
<1>5. ~Sent'
  BY <1>1, <1>2 DEF Sent
<1> QED
  BY <1>1, <1>2, <1>3, <1>4, <1>5, VerifierAwake, VerifierGoesOn, ThreadNames DEF Finished

LEMMA DrawBlockFinishes ==
  ASSUME PadInv, TraceInv, Finished, NEW w \in Walkers, NEW c \in Class, DrawBlock(w, c)
  PROVE  Finished'
<1>1. PICK p \in {"walk", "redraw"} : pc' = [pc EXCEPT ![w] = p]
  <2>1. ~Degenerate(w)
    BY NeverDegenerate
  <2> QED
    BY <2>1 DEF DrawBlock, Goto
<1>2. pc[w] \in {"walk", "redraw"} /\ blk[w] <= Len(Blocks(w)) /\ proof' = proof
  BY DEF DrawBlock
<1>3. pc'[w] = p /\ \A x \in Threads \ {w} : pc'[x] = pc[x]
  BY <1>1, Moved, ThreadNames
<1>4. blk[w] <= N
  BY <1>2, SameBlocks, BlocksAre
<1>5. CASE w \in {"prover", "replay"}
  <2>1. w = "replay" => pc["prover"] = "circuit"
    BY <1>2, <1>4, ThreadNames DEF PadInv, Control
  <2>2. pc["prover"] # "shipped" /\ (w = "replay" => pc["prover"] \notin Errors)
    BY <1>2, <1>5, <2>1 DEF Errors
  <2> QED
    BY <1>2, <1>3, <1>5, <2>1, <2>2, ProverGoesOn, ThreadNames DEF Finished, Errors
<1>6. CASE w \in {"verifier", "recheck"}
  <2>1. w = "recheck" => pc["verifier"] = "circuit"
    BY <1>2, <1>4, ThreadNames DEF PadInv, Control
  <2>2. pc["prover"] = "shipped"
    BY <1>2, <1>6, <2>1, VerifierAwake
  <2>3. Sent' => pc'["verifier"] \notin Errors /\ pc'["recheck"] # "InvalidShape"
    BY <1>2, <1>3, <1>6, ThreadNames DEF Finished, Sent, Errors
  <2> QED
    BY <1>2, <1>3, <1>6, <2>2, <2>3, VerifierGoesOn, ThreadNames DEF Finished
<1> QED
  BY <1>5, <1>6, ThreadNames

LEMMA MaskMessagesFinishes ==
  ASSUME PadInv, TraceInv, Finished, MaskMessages
  PROVE  Finished'
<1>1. pc["prover"] = "walk" /\ blk["prover"] > Len(Blocks("prover"))
  BY DEF MaskMessages
<1>2. blk["prover"] = N + 1 /\ cursor = CursorAt(blk["prover"])
  <2>1. Len(Blocks("prover")) = N /\ N \in Nat /\ blk["prover"] \in Nat
    BY SameBlocks, BlocksAre, PinsType, TypesGive, ThreadNames
  <2>2. blk["prover"] <= N + 1 /\ cursor = CursorAt(blk["prover"])
    BY <1>1 DEF PadInv, Control
  <2> QED
    BY <1>1, <2>1, <2>2
<1>3. CursorAt(N + 1) = PiopCount
  BY PinsType, Bounds DEF CursorAt, N
<1>4. pc' = [pc EXCEPT !["prover"] = "rings"]
  BY <1>2, <1>3 DEF MaskMessages, Goto
<1>5. pc'["prover"] = "rings" /\ \A x \in Threads \ {"prover"} : pc'[x] = pc[x]
  BY <1>4, Moved, ThreadNames
<1> QED
  BY <1>1, <1>5, ProverGoesOn, ThreadNames DEF Finished, Errors

LEMMA WalkedFinishes ==
  ASSUME PadInv, TraceInv, Finished, Walked
  PROVE  Finished'
<1>1. pc["verifier"] = "walk" /\ pc' = [pc EXCEPT !["verifier"] = "rings"] /\ proof' = proof
  BY DEF Walked, Goto
<1>2. pc'["verifier"] = "rings" /\ \A x \in Threads \ {"verifier"} : pc'[x] = pc[x]
  BY <1>1, Moved, ThreadNames
<1>3. Sent' => pc'["verifier"] \notin Errors /\ pc'["recheck"] # "InvalidShape"
  BY <1>1, <1>2, ThreadNames DEF Finished, Sent, Errors
<1> QED
  BY <1>1, <1>2, <1>3, VerifierAwake, VerifierGoesOn, ThreadNames DEF Finished

LEMMA RingsFinishes ==
  ASSUME PadInv, TraceInv, Finished, NEW b \in Main, Rings(b)
  PROVE  Finished'
<1>1. PICK p \in {"pow", "InvalidShape"} :
         /\ pc' = [pc EXCEPT ![b] = p] /\ pc[b] = "rings" /\ proof' = proof
         /\ Shaped(b, {"direct_blinds"}) => p = "pow"
  BY DEF Rings, Goto
<1>2. pc'[b] = p /\ \A x \in Threads \ {b} : pc'[x] = pc[x]
  BY <1>1, Moved, ThreadNames
<1>3. CASE b = "prover"
  <2>1. p = "pow"
    BY <1>1, <1>3, AllShaped, FieldSets
  <2> QED
    BY <1>1, <1>2, <1>3, <2>1, ProverGoesOn, ThreadNames DEF Finished, Errors
<1>4. CASE b = "verifier"
  <2>1. Sent => p = "pow"
    BY <1>1, <1>4, AllShaped, FieldSets DEF Sent
  <2>2. Sent' => pc'["verifier"] \notin Errors /\ pc'["recheck"] # "InvalidShape"
    BY <1>1, <1>2, <1>4, <2>1, ThreadNames DEF Finished, Sent, Errors
  <2> QED
    BY <1>1, <1>2, <1>4, <2>2, VerifierAwake, VerifierGoesOn, ThreadNames DEF Finished
<1> QED
  BY <1>3, <1>4, ThreadNames

LEMMA GrindBlindFinishes ==
  ASSUME PadInv, TraceInv, Finished, NEW c \in Class, GrindBlind(c)
  PROVE  Finished'
<1>1. pc["prover"] = "pow"
  BY DEF GrindBlind
<1>2. trial["prover"] \in Nat /\ MAX_BLIND_GRIND_TRIALS \in Nat
  BY LayoutAssumption DEF PadInv, VarTypes
<1>3. CASE c = "bad"
  <2>1. pc' = pc
    BY <1>3 DEF GrindBlind
  <2> QED
    BY <1>1, <2>1, ProverGoesOn, ThreadNames DEF Finished, Errors
<1>4. CASE c # "bad"
  <2> DEFINE p == IF BlindInBounds(trial["prover"]) THEN "nonzero" ELSE "GrindingLimitExceeded"
  <2>1. V("blind_nonce", trial["prover"]).i = trial["prover"]
    BY DEF V
  <2>2. pc' = [pc EXCEPT !["prover"] = p] /\ trial' = trial
    BY <1>4, <2>1 DEF GrindBlind, Goto
  <2>3. p # "nonzero" => p = "GrindingLimitExceeded" /\ trial'["prover"] >= MAX_BLIND_GRIND_TRIALS
    BY <1>2, <2>2 DEF BlindInBounds
  <2> HIDE DEF p
  <2>4. pc'["prover"] = p /\ \A x \in Threads \ {"prover"} : pc'[x] = pc[x]
    BY <2>2, Moved, ThreadNames
  <2> QED
    BY <1>1, <2>3, <2>4, ProverGoesOn, ThreadNames DEF Finished, Errors
<1> QED
  BY <1>3, <1>4

(* The verifier meets the hit the prover has found. *)
LEMMA VerifyBlindFinishes ==
  ASSUME PadInv, TraceInv, Finished, NEW c \in Class, VerifyBlind(c)
  PROVE  Finished'
<1>1. PICK p \in {"nonzero", "InvalidParameters"} : pc' = [pc EXCEPT !["verifier"] = p]
  BY DEF VerifyBlind, Goto
<1>2. pc["verifier"] = "pow" /\ proof' = proof
  BY DEF VerifyBlind
<1>3. pc'["verifier"] = p /\ \A x \in Threads \ {"verifier"} : pc'[x] = pc[x]
  BY <1>1, Moved, ThreadNames
<1>4. pc["prover"] = "shipped"
  BY <1>2, VerifierAwake
<1>5. ASSUME Sent PROVE p = "nonzero"
  <2>1. pc["verifier"] \in Bound \ {"rings"} /\ pc["prover"] \in Blinded
    BY <1>2, <1>4 DEF Bound, Blinded
  <2>2. PICK q, d, m : q = proof["prover"] /\ d = link["prover"].digest /\ m = link["verifier"].digest
    OBVIOUS
  <2>3. /\ SideProof("verifier") = q /\ SideProof("prover") = q /\ (m # 0 => m = d)
    BY <1>4, <1>5, <2>1, <2>2, SentAlike DEF Sent
  <2>4. LinkAt(oracle, q, m, link["verifier"].blind, chal["verifier"], blk["verifier"], pc["verifier"],
               tr["verifier"], start["verifier"])
    BY <2>2, <2>3, ThreadNames DEF TraceInv, LinkInv
  <2>5. tr["verifier"] = PowT(q, m) /\ m # 0
    BY <1>2, <2>4 DEF LinkAt
  <2>6. LinkAt(oracle, q, d, link["prover"].blind, chal["prover"], blk["prover"], pc["prover"],
               tr["prover"], start["prover"])
    BY <2>2, <2>3, ThreadNames DEF TraceInv, LinkInv
  <2>7. Ground(oracle, q, d)
    BY <2>1, <2>6 DEF LinkAt
  <2>8. Hit(oracle, PowPoint(tr["verifier"], BlindNonce(q).i)) /\ BlindNonce(q).i < MAX_BLIND_GRIND_TRIALS
    BY <2>3, <2>5, <2>7 DEF Ground
  <2>9. BlindNonce(q) = proof.verifier.blind_nonce[1]
    BY <1>5, <2>2 DEF BlindNonce, Sent
  <2>10. Answered(PowPoint(tr["verifier"], BlindNonce(q).i), c)
    BY <2>8, <2>9 DEF VerifyBlind
  <2>11. c = "good"
    BY <2>8, <2>10, HitAgain DEF PadInv
  <2>12. pc' = [pc EXCEPT !["verifier"] = "nonzero"]
    BY <2>8, <2>9, <2>11 DEF VerifyBlind, Goto
  <2>13. pc'["verifier"] = "nonzero"
    BY <2>12, Moved, ThreadNames
  <2> QED
    BY <1>3, <2>13
<1>6. Sent' => pc'["verifier"] \notin Errors /\ pc'["recheck"] # "InvalidShape"
  BY <1>2, <1>3, <1>5, ThreadNames DEF Finished, Sent, Errors
<1> QED
  BY <1>2, <1>3, <1>4, <1>6, VerifierGoesOn, ThreadNames DEF Finished

LEMMA SampleNonzeroFinishes ==
  ASSUME PadInv, TraceInv, Finished, NEW b \in Main, NEW c \in Class, SampleNonzero(b, c)
  PROVE  Finished'
<1>1. pc[b] = "nonzero" /\ proof' = proof /\ (pc' = pc \/ pc' = [pc EXCEPT ![b] = "blinded"])
  BY DEF SampleNonzero, Goto
<1>2. pc'[b] \in {"nonzero", "blinded"} /\ \A x \in Threads \ {b} : pc'[x] = pc[x]
  BY <1>1, Moved, ThreadNames
<1>3. CASE b = "prover"
  BY <1>1, <1>2, <1>3, ProverGoesOn, ThreadNames DEF Finished, Errors
<1>4. CASE b = "verifier"
  <2>1. Sent' => pc'["verifier"] \notin Errors /\ pc'["recheck"] # "InvalidShape"
    BY <1>1, <1>2, <1>4, ThreadNames DEF Finished, Sent, Errors
  <2> QED
    BY <1>1, <1>2, <1>4, <2>1, VerifierAwake, VerifierGoesOn, ThreadNames DEF Finished
<1> QED
  BY <1>3, <1>4, ThreadNames

LEMMA StartCircuitFinishes ==
  ASSUME PadInv, TraceInv, Finished, NEW b \in Main, StartCircuit(b)
  PROVE  Finished'
<1>1. pc[b] = "blinded" /\ pc' = [pc EXCEPT ![b] = "circuit", ![Second[b]] = "walk"]
  BY DEF StartCircuit
<1>2. /\ pc'[b] = "circuit" /\ pc'[Second[b]] = "walk"
      /\ \A x \in Threads \ {b, Second[b]} : pc'[x] = pc[x]
  BY <1>1, OtherIs, TypesGive
<1>3. CASE b = "prover"
  BY <1>1, <1>2, <1>3, ProverGoesOn, ThreadNames DEF Finished, Errors
<1>4. CASE b = "verifier"
  <2>1. proof' = [proof EXCEPT !["verifier"] = proof["verifier"]]
    BY <1>4 DEF StartCircuit
  <2>2. DOMAIN proof = Main
    BY TypesGive
  <2>3. proof'["prover"] = proof["prover"]
    BY <2>1, <2>2, ThreadNames
  <2>4. pc'["verifier"] \notin Errors /\ pc'["recheck"] # "InvalidShape"
    BY <1>2, <1>4, ThreadNames DEF Errors
  <2> QED
    BY <1>1, <1>2, <1>4, <2>3, <2>4, VerifierAwake, VerifierGoesOn, ThreadNames DEF Finished
<1> QED
  BY <1>3, <1>4, ThreadNames

LEMMA ForkFinishes ==
  ASSUME PadInv, TraceInv, Finished, NEW b \in Main, Fork(b)
  PROVE  Finished'
<1>1. pc[b] = "circuit" /\ proof' = proof /\ trial' = trial
  BY DEF Fork
<1>2. pc[Second[b]] = "InvalidShape" \/ blk[Second[b]] > N
  BY SameBlocks, BlocksAre DEF Fork
<1>3. ASSUME pc[Second[b]] # "InvalidShape", Shaped(b, RingFields)
      PROVE  CircuitIsFine(b)
  BY <1>1, <1>2, <1>3, CircuitsAreFine
<1>4. \/ \E p \in {"InvalidShape", "GrindingLimitExceeded"} : pc' = [pc EXCEPT ![b] = p]
      \/ pc' = [pc EXCEPT ![b] = "join", !["pcs"] = "draw", !["veil"] = IF b = "prover" THEN "open" ELSE "idle"]
  BY DEF Fork, Goto
<1>5. /\ \A x \in Threads \ {b, "pcs", "veil"} : pc'[x] = pc[x]
      /\ pc'["veil"] # "UnsatisfiedCircuit"
  <2>1. ASSUME NEW p, pc' = [pc EXCEPT ![b] = p]
        PROVE  \A x \in Threads \ {b} : pc'[x] = pc[x]
    BY <2>1, Moved, ThreadNames
  <2>2. ASSUME pc' = [pc EXCEPT ![b] = "join", !["pcs"] = "draw", !["veil"] = IF b = "prover" THEN "open" ELSE "idle"]
        PROVE  /\ \A x \in Threads \ {b, "pcs", "veil"} : pc'[x] = pc[x]
               /\ pc'["veil"] # "UnsatisfiedCircuit"
    BY <2>2, TypesGive, ThreadNames
  <2> QED
    BY <1>4, <2>1, <2>2, ThreadNames DEF Finished
<1>6. ASSUME pc[Second[b]] # "InvalidShape", Shaped(b, RingFields), b = "verifier" => GrindingIsBounded(b)
      PROVE  pc'[b] = "join"
  <2>1. CircuitIsFine(b)
    BY <1>3, <1>6
  <2>2. pc' = [pc EXCEPT ![b] = "join", !["pcs"] = "draw", !["veil"] = IF b = "prover" THEN "open" ELSE "idle"]
    BY <1>6, <2>1 DEF Fork
  <2> QED
    BY <2>2, TypesGive, ThreadNames
<1>7. CASE b = "prover"
  <2>1. pc'[b] = "join"
    BY <1>6, <1>7, AllShaped, FieldSets, ThreadNames DEF Finished
  <2> QED
    BY <1>1, <1>5, <1>7, <2>1, ProverGoesOn, ThreadNames DEF Finished, Errors
<1>8. CASE b = "verifier"
  <2>1. pc["prover"] = "shipped"
    BY <1>1, <1>8, VerifierAwake
  <2>2. ASSUME Sent PROVE pc'[b] = "join"
    <3>1. GrindingIsBounded("verifier")
      BY <2>1, <2>2 DEF Finished, GrindingIsBounded, Sent
    <3> QED
      BY <1>6, <1>8, <2>2, <3>1, AllShaped, FieldSets, ThreadNames DEF Finished, Sent
  <2>3. Sent' => pc'["verifier"] \notin Errors /\ pc'["recheck"] # "InvalidShape"
    BY <1>1, <1>5, <1>8, <2>2, ThreadNames DEF Finished, Sent, Errors
  <2> QED
    BY <1>1, <1>5, <1>8, <2>1, <2>3, VerifierGoesOn, ThreadNames DEF Finished
<1> QED
  BY <1>7, <1>8, ThreadNames

(* One proof, one trace: the verifier's claims are the prover's. *)
LEMMA ClaimsAgree ==
  ASSUME proof["verifier"] = proof["prover"], chal["verifier"] = chal["prover"],
         link["verifier"] = link["prover"], NEW id
  PROVE  PcsClaim("verifier", id) = PcsClaim("prover", id) /\ VeilClaim("verifier", id) = VeilClaim("prover", id)
<1>1. PcsClaim("verifier", id) = PcsClaim("prover", id)
  BY DEF PcsClaim, ClaimPoints
<1>2. Circuit("verifier") = Circuit("prover")
  BY DEF Circuit
<1> QED
  BY <1>1, <1>2 DEF VeilClaim

LEMMA JoinedAlike ==
  ASSUME PadInv, TraceInv, Sent, pc["prover"] = "shipped", pc["verifier"] = "join"
  PROVE  /\ SideProof("verifier") = proof["prover"] /\ SideProof("prover") = proof["prover"]
         /\ chal["verifier"] = chal["prover"] /\ link["verifier"] = link["prover"]
         /\ Opened("prover", attest["pcs"]) /\ Proved("prover", attest["veil"])
         /\ OpeningIsWhole(proof["verifier"])
         /\ proof["verifier"]["veil_body"] = Honest("veil_body")
<1>1. pc["verifier"] \in Bound \ {"rings"} /\ pc["verifier"] \in Blinded
  BY DEF Bound, Blinded
<1>2. link["verifier"].blind # 0
  BY <1>1, ThreadNames DEF TraceInv, LinkInv, LinkAt
<1>3. /\ SideProof("verifier") = SideProof("prover") /\ SideProof("prover") = proof["prover"]
      /\ chal["verifier"] = chal["prover"] /\ link["verifier"] = link["prover"]
  BY <1>1, <1>2, SentAlike DEF Sent
<1>4. Opened("prover", attest["pcs"]) /\ Proved("prover", attest["veil"])
  BY DEF TraceInv, AttestInv
<1>5. /\ OpeningIsWhole(proof["verifier"])
      /\ proof["verifier"]["veil_body"] = Honest("veil_body")
  BY TypesGive DEF TraceInv, ElementsInv, Sent, OpeningIsWhole, Counted
<1> QED
  BY <1>3, <1>4, <1>5

LEMMA PcsDrawFinishes ==
  ASSUME PadInv, TraceInv, Finished, PcsDraw
  PROVE  Finished'
<1>1. pc[Side] = "join" /\ pc["pcs"] = "draw" /\ proof' = proof
  BY DEF PcsDraw
<1>2. CASE Side = "prover"
  <2>1. pc' = [pc EXCEPT !["pcs"] = "pow"] \/ pc' = [pc EXCEPT !["pcs"] = "done"]
    BY <1>2 DEF PcsDraw, Goto
  <2>2. \A x \in Threads \ {"pcs"} : pc'[x] = pc[x]
    BY <2>1, Moved, ThreadNames
  <2> QED
    BY <1>1, <1>2, <2>2, ProverGoesOn, ThreadNames DEF Finished, Errors
<1>3. CASE Side = "verifier"
  <2>1. pc["prover"] = "shipped" /\ pc["verifier"] = "join"
    BY <1>1, <1>3 DEF Side
  <2>2. \/ pc' = [pc EXCEPT !["pcs"] = "pow"] \/ pc' = [pc EXCEPT !["pcs"] = "done", !["veil"] = "open"]
        \/ pc' = [pc EXCEPT !["verifier"] = "PcsRejected"]
    BY <1>3 DEF PcsDraw, Goto
  <2>3. /\ \A x \in Threads \ {"pcs", "veil", "verifier"} : pc'[x] = pc[x]
        /\ pc'["veil"] # "UnsatisfiedCircuit"
    BY <2>2, TypesGive, ThreadNames DEF Finished
  <2>4. ASSUME Sent, blk["pcs"] > FoldSites
        PROVE  attest["pcs"] = PcsClaim("verifier", IdOf(tr["pcs"]))
               /\ OpeningIsWhole(proof["verifier"])
    <3>1. PICK q, k, n, t : q = proof["prover"] /\ k = link["prover"].blind /\ n = blk["pcs"] /\ t = tr["pcs"]
      OBVIOUS
    <3>2. /\ SideProof("verifier") = q /\ SideProof("prover") = q /\ link["verifier"] = link["prover"]
          /\ chal["verifier"] = chal["prover"] /\ Opened("prover", attest["pcs"])
          /\ OpeningIsWhole(proof["verifier"])
      BY <2>1, <2>4, <3>1, JoinedAlike
    <3>3. n <= FoldSites + 1 /\ OpeningAt(oracle, q, k, n - 1, n - 1, t)
      BY <1>1, <1>3, <3>1, <3>2 DEF TraceInv, OpeningInv
    <3>4. n \in Nat \ {0} /\ FoldSites \in Nat
      BY <3>1, TypesGive, ThreadNames, Bounds
    <3>5. n = FoldSites + 1
      BY <2>4, <3>1, <3>3, <3>4
    <3>6. TranscriptOK(t, oracle) /\ Answered(t, "good") /\ OracleOK(oracle)
      BY <3>1, ThreadNames DEF PadInv, Transcripts, PcsDraw
    <3>7. OracleOK(oracle') /\ Grown(oracle, oracle') /\ IsId(oracle', IdOf(t), t)
      BY <3>6, AnsweredGives DEF Class
    <3>8. PICK d : FoldChain(oracle', q, k, d, n) /\ d[n] = IdOf(t)
      BY <3>3, <3>4, <3>7, OpeningDraws
    <3>9. PICK e : FoldChain(oracle, q, k, e, FoldSites + 1) /\ attest["pcs"] = PcsClaim("prover", e[FoldSites + 1])
      BY <3>1, <3>2 DEF Opened
    <3>10. FoldChain(oracle', q, k, e, n)
      BY <3>4, <3>5, <3>7, <3>9, FoldsGrow
    <3>11. d[n] = e[n]
      <4>1. n \in Nat /\ n <= n /\ n \in 1..n
        BY <3>4
      <4> QED
        BY <3>7, <3>8, <3>10, <4>1, FoldsForward
    <3>12. PcsClaim("verifier", IdOf(t)) = PcsClaim("prover", IdOf(t))
      BY <2>4, <3>2, ClaimsAgree DEF Sent
    <3> QED
      BY <3>1, <3>2, <3>5, <3>8, <3>9, <3>11, <3>12
  <2>5. ASSUME Sent PROVE pc'["verifier"] = "join"
    <3>1. CASE blk["pcs"] <= FoldSites
      <4>1. pc' = [pc EXCEPT !["pcs"] = "pow"]
        BY <3>1 DEF PcsDraw, Goto
      <4> QED
        BY <2>1, <4>1, Moved, ThreadNames
    <3>2. CASE ~(blk["pcs"] <= FoldSites)
      <4>1. blk["pcs"] > FoldSites
        BY <3>2, TypesGive, ThreadNames, Bounds
      <4>2. pc' = [pc EXCEPT !["pcs"] = "done", !["veil"] = "open"]
        BY <1>3, <2>4, <2>5, <3>2, <4>1 DEF PcsDraw
      <4> QED
        BY <2>1, <4>2, TypesGive, ThreadNames
    <3> QED
      BY <3>1, <3>2
  <2>6. Sent' => pc'["verifier"] \notin Errors /\ pc'["recheck"] # "InvalidShape"
    BY <1>1, <2>3, <2>5, ThreadNames DEF Finished, Sent, Errors
  <2> QED
    BY <1>1, <2>1, <2>3, <2>6, VerifierGoesOn, ThreadNames DEF Finished
<1> QED
  BY <1>2, <1>3, SideIs, ThreadNames

LEMMA PcsGrindFinishes ==
  ASSUME PadInv, TraceInv, Finished, NEW c \in Class, PcsGrind(c)
  PROVE  Finished'
<1>1. Side = "prover" /\ pc["pcs"] = "pow" /\ (pc' = pc \/ pc' = [pc EXCEPT !["pcs"] = "draw"])
  BY DEF PcsGrind, Goto
<1>2. pc["prover"] = "join"
  <2>1. pc["prover"] # "shipped"
    BY <1>1 DEF Side
  <2> QED
    BY <1>1, <2>1 DEF PadInv, Control
<1>3. \A x \in Threads \ {"pcs"} : pc'[x] = pc[x]
  BY <1>1, Moved, ThreadNames
<1> QED
  BY <1>2, <1>3, ProverGoesOn, ThreadNames DEF Finished, Errors

LEMMA PcsVerifyPowFinishes ==
  ASSUME PadInv, TraceInv, Finished, NEW c \in Class, PcsVerifyPow(c)
  PROVE  Finished'
<1>1. Side = "verifier" /\ pc["pcs"] = "pow" /\ pc["verifier"] = "join" /\ proof' = proof
  BY DEF PcsVerifyPow
<1>2. pc["prover"] = "shipped"
  BY <1>1, VerifierAwake
<1>3. pc' = [pc EXCEPT !["pcs"] = "draw"] \/ pc' = [pc EXCEPT !["verifier"] = "PcsRejected"]
  BY DEF PcsVerifyPow, VerifyFold, Goto
<1>4. \A x \in Threads \ {"pcs", "verifier"} : pc'[x] = pc[x]
  BY <1>3, Moved, ThreadNames
<1>5. ASSUME Sent PROVE pc'["verifier"] = "join"
  <2>1. PICK q, k, n, t : q = proof["prover"] /\ k = link["prover"].blind /\ n = blk["pcs"] /\ t = tr["pcs"]
    OBVIOUS
  <2>2. /\ SideProof("verifier") = q /\ SideProof("prover") = q /\ link["verifier"] = link["prover"]
        /\ Opened("prover", attest["pcs"])
    BY <1>1, <1>2, <1>5, <2>1, JoinedAlike
  <2>3. n <= FoldSites /\ OpeningAt(oracle, q, k, n, n - 1, t)
    BY <1>1, <2>1, <2>2 DEF TraceInv, OpeningInv
  <2>4. n \in Nat \ {0} /\ FoldSites \in Nat
    BY <2>1, TypesGive, ThreadNames, Bounds
  <2>5. PICK d : FoldChain(oracle, q, k, d, n) /\ t = After(d[n])
    BY <2>3, <2>4 DEF OpeningAt
  <2>6. PICK e : FoldChain(oracle, q, k, e, FoldSites + 1) /\ FoldHits(oracle, q, e, FoldSites)
    BY <2>1, <2>2 DEF Opened
  <2>7. n \in Nat /\ FoldSites + 1 \in Nat /\ n <= FoldSites + 1 /\ n \in 1..n /\ n \in 1..FoldSites
    BY <2>3, <2>4
  <2>8. d[n] = e[n]
    BY <2>5, <2>6, <2>7, FoldsForward DEF PadInv
  <2>9. Hit(oracle, PowPoint(t, q["fold_nonces"][n].i))
    BY <2>5, <2>6, <2>7, <2>8 DEF FoldHits
  <2>10. VerifyFold(c)
    <3>1. Len(q["fold_nonces"]) = FoldSites
      BY <2>1, TypesGive DEF Counted
    <3> QED
      BY <1>5, <2>1, <2>3, <3>1 DEF PcsVerifyPow, Sent
  <2>11. c = "good"
    <3>1. Answered(PowPoint(t, q["fold_nonces"][n].i), c)
      BY <1>5, <2>1, <2>10 DEF VerifyFold, Sent
    <3> QED
      BY <2>9, <3>1, HitAgain DEF PadInv
  <2>12. pc' = [pc EXCEPT !["pcs"] = "draw"]
    BY <2>10, <2>11 DEF VerifyFold, Goto
  <2> QED
    BY <1>1, <2>12, Moved, ThreadNames
<1>6. Sent' => pc'["verifier"] \notin Errors /\ pc'["recheck"] # "InvalidShape"
  BY <1>1, <1>4, <1>5, ThreadNames DEF Finished, Sent, Errors
<1> QED
  BY <1>1, <1>2, <1>4, <1>6, VerifierGoesOn, ThreadNames DEF Finished

LEMMA VeilBranchFinishes ==
  ASSUME PadInv, TraceInv, Finished, VeilBranch
  PROVE  Finished'
<1>1. pc[Side] = "join" /\ pc["veil"] = "open" /\ proof' = proof
  BY DEF VeilBranch
<1>2. CASE Side = "prover"
  <2>1. Satisfied(Circuit("prover"))
    BY <1>1, <1>2, CircuitIsSatisfied
  <2>2. pc' = [pc EXCEPT !["veil"] = "done"]
    BY <1>2, <2>1 DEF VeilBranch, Goto
  <2>3. pc'["veil"] = "done" /\ \A x \in Threads \ {"veil"} : pc'[x] = pc[x]
    BY <2>2, Moved, ThreadNames
  <2> QED
    BY <1>1, <1>2, <2>3, ProverGoesOn, ThreadNames DEF Finished, Errors
<1>3. CASE Side = "verifier"
  <2>1. pc["prover"] = "shipped" /\ pc["verifier"] = "join"
    BY <1>1, <1>3 DEF Side
  <2>2. PICK p \in {"accept", "VeilRejected"} : pc' = [pc EXCEPT !["verifier"] = p]
    BY <1>3 DEF VeilBranch, Goto
  <2>3. pc'["verifier"] = p /\ \A x \in Threads \ {"verifier"} : pc'[x] = pc[x]
    BY <2>2, Moved, ThreadNames
  <2>4. ASSUME Sent PROVE pc'["verifier"] = "accept"
    <3>1. PICK q, k : q = proof["prover"] /\ k = link["prover"].blind
      OBVIOUS
    <3>2. /\ SideProof("verifier") = q /\ SideProof("prover") = q /\ link["verifier"] = link["prover"]
          /\ chal["verifier"] = chal["prover"] /\ Proved("prover", attest["veil"])
          /\ proof["verifier"]["veil_body"] = Honest("veil_body")
      BY <2>1, <2>4, <3>1, JoinedAlike
    <3>3. tr["veil"] = ForkT(q, k, "veil-flock-inner-fork")
      BY <1>1, <1>3, <3>1, <3>2 DEF TraceInv, OpeningInv
    <3>4. Absorb(tr["veil"], <<Label("veil-f128-constraint-system"), Item("bytes", proof["verifier"].veil_root)>>)
          = VeilT(q, k)
      BY <2>4, <3>1, <3>3 DEF VeilT, Sent
    <3>5. PICK i \in DOMAIN oracle : IsId(oracle, i, VeilT(q, k)) /\ attest["veil"] = VeilClaim("prover", i)
      BY <3>1, <3>2 DEF Proved
    <3>6. IdOf(VeilT(q, k)) = i
      BY <3>5, AskedAgain DEF PadInv
    <3>7. VeilClaim("verifier", i) = VeilClaim("prover", i)
      BY <2>4, <3>2, ClaimsAgree DEF Sent
    <3>8. pc' = [pc EXCEPT !["verifier"] = "accept"]
      <4>1. ~(Side = "prover" /\ ~Satisfied(Circuit("prover")))
        BY <1>3
      <4>2. pc' = [pc EXCEPT !["verifier"] =
                     IF /\ attest["veil"] = VeilClaim("verifier",
                             IdOf(Absorb(tr["veil"], <<Label("veil-f128-constraint-system"),
                                                      Item("bytes", proof["verifier"].veil_root)>>)))
                        /\ proof["verifier"]["veil_body"] = Honest("veil_body")
                     THEN "accept" ELSE "VeilRejected"]
        BY <1>3, <4>1 DEF VeilBranch, Goto
      <4> QED
        BY <3>2, <3>4, <3>5, <3>6, <3>7, <4>2
    <3> QED
      BY <3>8, Moved, ThreadNames
  <2>5. Sent' => pc'["verifier"] \notin Errors /\ pc'["recheck"] # "InvalidShape"
    BY <1>1, <2>3, <2>4, ThreadNames DEF Finished, Sent, Errors
  <2> QED
    BY <1>1, <2>1, <2>3, <2>5, VerifierGoesOn, ThreadNames DEF Finished
<1> QED
  BY <1>2, <1>3, SideIs, ThreadNames

LEMMA JoinFinishes ==
  ASSUME PadInv, TraceInv, Finished, Join
  PROVE  Finished'
<1>1. pc["prover"] = "join" /\ pc["veil"] = "done" /\ proof' = proof
  BY DEF Join, Finished
<1>2. PICK p : p = IF GrindingIsBounded("prover") THEN "shipped" ELSE "GrindingLimitExceeded"
  OBVIOUS
<1>3. pc' = [pc EXCEPT !["prover"] = p]
  BY <1>1, <1>2 DEF Join, Goto
<1>4. pc'["prover"] = p /\ \A x \in Threads \ {"prover"} : pc'[x] = pc[x]
  BY <1>3, Moved, ThreadNames
<1>5. (GrindingIsBounded("prover")' <=> GrindingIsBounded("prover")) /\ (NonceTooLarge' <=> NonceTooLarge)
  BY <1>1 DEF GrindingIsBounded, NonceTooLarge
<1>6. ~GrindingIsBounded("prover") => NonceTooLarge
  <2>1. Counted(proof["prover"]) /\ proof["prover"]["fold_nonces"] \in Seq(Sayable)
    BY TypesGive, ThreadNames, NamesApart DEF ProofOK
  <2>2. \A k \in DOMAIN proof["prover"]["fold_nonces"] : proof["prover"]["fold_nonces"][k].i \in Nat
    <3>1. \A v \in Sayable : v.i \in Nat
      BY DEF Sayable, Element
    <3> HIDE DEF Sayable
    <3> QED
      BY <2>1, <3>1
  <2>3. MAX_LIGERITO_GRIND_TRIALS \in Nat
    BY LayoutAssumption
  <2>4. \A k \in DOMAIN proof["prover"]["surplus"] : FALSE
    BY <2>1 DEF Counted
  <2> QED
    BY <2>1, <2>2, <2>3, <2>4, SitesAssumption DEF GrindingIsBounded, NonceTooLarge, Counted
<1> QED
  BY <1>1, <1>2, <1>4, <1>5, <1>6, ProverGoesOn, ThreadNames DEF Finished, Errors

LEMMA DeliverFinishes ==
  ASSUME PadInv, TraceInv, Finished, Deliver
  PROVE  Finished'
<1>1. pc["prover"] = "shipped" /\ pc["verifier"] = "idle" /\ pc' = [pc EXCEPT !["verifier"] = "bind"]
  BY DEF Deliver, Goto
<1>2. PICK q : proof' = [proof EXCEPT !["verifier"] = q]
  BY DEF Deliver
<1>3. proof'["prover"] = proof["prover"]
  BY <1>2, TypesGive, ThreadNames
<1>4. pc'["verifier"] = "bind" /\ \A x \in Threads \ {"verifier"} : pc'[x] = pc[x]
  BY <1>1, Moved, ThreadNames
<1>5. pc["recheck"] = "idle"
  <2>1. pc[Second["verifier"]] # "idle" => pc["verifier"] \in Errors \cup Blinded
    BY ThreadNames DEF TraceInv, SecondInv
  <2> QED
    BY <1>1, <2>1, ThreadNames DEF Errors, Blinded
<1>6. Sent' => pc'["verifier"] \notin Errors /\ pc'["recheck"] # "InvalidShape"
  BY <1>4, <1>5, ThreadNames DEF Errors
<1> QED
  BY <1>1, <1>3, <1>4, <1>6, VerifierGoesOn, ThreadNames DEF Finished

(* No step of the prover changes the geometry of its proof. *)
LEMMA StaysRegular ==
  ASSUME PadInv, Regular, [Next]_vars
  PROVE  Regular'
<1>1. DOMAIN proof = Main /\ DOMAIN proof["prover"] = Field
  BY TypesGive, ThreadNames DEF ProofOK
<1>2. ASSUME proof'["prover"] = proof["prover"] PROVE Regular'
  BY <1>2 DEF Regular
<1>3. CASE UNCHANGED vars
  BY <1>2, <1>3 DEF vars
<1>4. CASE MaskMessages
  <2>1. CASE proof' = proof
    BY <1>2, <2>1
  <2>2. CASE proof' # proof
    <3>1. proof' = [proof EXCEPT !["prover"] = MaskedProof(proof["prover"])]
      BY <1>4, <2>2 DEF MaskMessages
    <3>2. proof'["prover"] = MaskedProof(proof["prover"])
      BY <1>1, <3>1, ThreadNames
    <3>3. ASSUME NEW f \in Field PROVE DOMAIN MaskedProof(proof["prover"])[f] = 1..FieldLen[f]
      <4>1. CASE f \in Private
        <5>1. MaskedProof(proof["prover"])[f] = [i \in 1..FieldLen[f] |-> Padded(f, i)]
          BY <4>1, MaskedFields
        <5> QED
          BY <5>1
      <4>2. CASE f \in Public
        <5>1. MaskedProof(proof["prover"])[f] = proof["prover"][f]
          BY <4>2, MaskedFields
        <5> QED
          BY <5>1 DEF Regular
      <4> QED
        BY <4>1, <4>2, NamesApart
    <3> QED
      BY <3>2, <3>3 DEF Regular
  <2> QED
    BY <2>1, <2>2
<1>5. ASSUME NEW c \in Class, GrindBlind(c) PROVE Regular'
  <2>1. CASE proof' = proof
    BY <1>2, <2>1
  <2>2. CASE proof' # proof
    <3>1. PICK v : proof' = [proof EXCEPT !.prover.blind_nonce = <<v>>]
      BY <1>5, <2>2 DEF GrindBlind
    <3>2. proof'["prover"]["blind_nonce"] = <<v>> /\ \A f \in Field \ {"blind_nonce"} : proof'["prover"][f] = proof["prover"][f]
      BY <1>1, <3>1, ThreadNames, NamesApart
    <3>3. DOMAIN <<v>> = 1..FieldLen["blind_nonce"]
      BY PublicLengths
    <3> QED
      BY <3>2, <3>3 DEF Regular
  <2> QED
    BY <2>1, <2>2
<1>6. ASSUME NEW b \in Main, StartCircuit(b) PROVE Regular'
  <2>1. CASE b = "verifier"
    <3>1. proof' = [proof EXCEPT !["verifier"] = proof["verifier"]]
      BY <1>6, <2>1 DEF StartCircuit
    <3> QED
      BY <1>1, <1>2, <3>1, ThreadNames
  <2>2. CASE b = "prover"
    <3>1. proof' = [proof EXCEPT !["prover"] = [proof["prover"] EXCEPT !.q1 = QSlice("q1"), !.q2 = QSlice("q2")]]
      BY <1>6, <2>2 DEF StartCircuit
    <3>2. /\ proof'["prover"]["q1"] = QSlice("q1") /\ proof'["prover"]["q2"] = QSlice("q2")
          /\ \A f \in Field \ {"q1", "q2"} : proof'["prover"][f] = proof["prover"][f]
      BY <1>1, <3>1, ThreadNames, NamesApart
    <3>3. \A f : DOMAIN QSlice(f) = 1..RingWidth
      BY DEF QSlice
    <3> QED
      BY <3>2, <3>3, PublicLengths DEF Regular
  <2> QED
    BY <2>1, <2>2, ThreadNames
<1>7. ASSUME NEW c \in Class, PcsGrind(c) PROVE Regular'
  <2>1. CASE proof' = proof
    BY <1>2, <2>1
  <2>2. CASE proof' # proof
    <3>1. PICK v, n : proof' = [proof EXCEPT !.prover.fold_nonces[n] = v]
      BY <1>7, <2>2 DEF PcsGrind
    <3>2. /\ DOMAIN proof'["prover"]["fold_nonces"] = DOMAIN proof["prover"]["fold_nonces"]
          /\ \A f \in Field \ {"fold_nonces"} : proof'["prover"][f] = proof["prover"][f]
      BY <1>1, <3>1, ThreadNames, NamesApart
    <3> QED
      BY <3>2 DEF Regular
  <2> QED
    BY <2>1, <2>2
<1>8. ASSUME Deliver PROVE Regular'
  <2>1. PICK q : proof' = [proof EXCEPT !["verifier"] = q]
    BY <1>8 DEF Deliver
  <2> QED
    BY <1>1, <1>2, <2>1, ThreadNames
<1>9. ASSUME proof' = proof PROVE Regular'
  BY <1>2, <1>9
<1>10. ASSUME \/ \E b \in Main : Bind(b) \/ Rings(b) \/ Fork(b)
              \/ \E b \in Walkers : RefuseShape(b) \/ \E c \in Class : WalkBlock(b, c)
              \/ \E b \in Main, c \in Class : SampleNonzero(b, c)
              \/ \E c \in Class : VerifyBlind(c) \/ PcsVerifyPow(c)
              \/ Walked \/ PcsDraw \/ VeilBranch \/ Join
       PROVE  proof' = proof
  BY <1>10 DEF Bind, Rings, Fork, RefuseShape, WalkBlock, DrawBlock, SampleNonzero, VerifyBlind, PcsVerifyPow,
               Walked, PcsDraw, VeilBranch, Join
<1> QED
  BY <1>3, <1>4, <1>5, <1>6, <1>7, <1>8, <1>9, <1>10 DEF Next, Step, Done, Walkers

LEMMA InitFinishes == Init => Regular /\ Finished
<1> SUFFICES ASSUME Init PROVE Regular /\ Finished
  OBVIOUS
<1>1. \A b \in Threads : pc[b] = IF b = "prover" THEN "bind" ELSE "idle"
  BY DEF Init
<1>2. proof["prover"] = [f \in Field |-> Honest(f)]
  BY ThreadNames DEF Init
<1>3. \A f \in Field : DOMAIN proof["prover"][f] = 1..FieldLen[f]
  <2>1. \A f : DOMAIN Honest(f) = 1..FieldLen[f]
    BY DEF Honest
  <2> QED
    BY <1>2, <2>1
<1>4. Finished
  BY <1>1, ThreadNames DEF Finished, ProverFailsOnlyByGrinding, Errors
<1> QED
  BY <1>3, <1>4 DEF Regular

LEMMA FinishedStep == PadInv /\ TraceInv /\ Finished /\ [Next]_vars => Finished'
<1> SUFFICES ASSUME PadInv, TraceInv, Finished, [Next]_vars PROVE Finished'
  OBVIOUS
<1>1. CASE UNCHANGED vars
  <2>1. pc' = pc /\ proof' = proof /\ trial' = trial
    BY <1>1 DEF vars
  <2>2. ProverFailsOnlyByGrinding' /\ (GrindingIsBounded("prover")' <=> GrindingIsBounded("prover")) /\ (Sent' <=> Sent)
    BY <2>1 DEF Finished, ProverFailsOnlyByGrinding, GrindingIsBounded, Sent
  <2> QED
    BY <2>1, <2>2 DEF Finished
<1>2. CASE Done
  BY <1>1, <1>2 DEF Done
<1>3. CASE Step
  <2>1. ASSUME NEW b \in Main, Bind(b) \/ Rings(b) \/ StartCircuit(b) \/ Fork(b) PROVE Finished'
    BY <2>1, BindFinishes, RingsFinishes, StartCircuitFinishes, ForkFinishes
  <2>2. ASSUME NEW b \in Walkers, RefuseShape(b) PROVE Finished'
    BY <2>2, RefuseShapeFinishes
  <2>3. ASSUME NEW b \in Walkers, NEW c \in Class, WalkBlock(b, c) PROVE Finished'
    BY <2>3, WalkIsDraw, DrawBlockFinishes
  <2>4. ASSUME NEW b \in Main, NEW c \in Class, SampleNonzero(b, c) PROVE Finished'
    BY <2>4, SampleNonzeroFinishes
  <2>5. ASSUME NEW c \in Class, GrindBlind(c) \/ VerifyBlind(c) \/ PcsGrind(c) \/ PcsVerifyPow(c) PROVE Finished'
    BY <2>5, GrindBlindFinishes, VerifyBlindFinishes, PcsGrindFinishes, PcsVerifyPowFinishes
  <2>6. ASSUME MaskMessages \/ Walked \/ PcsDraw \/ VeilBranch \/ Join \/ Deliver PROVE Finished'
    BY <2>6, MaskMessagesFinishes, WalkedFinishes, PcsDrawFinishes, VeilBranchFinishes, JoinFinishes, DeliverFinishes
  <2> QED
    BY <1>3, <2>1, <2>2, <2>3, <2>4, <2>5, <2>6 DEF Step, Walkers
<1> QED
  BY <1>1, <1>2, <1>3 DEF Next

LEMMA AlwaysFinished == Spec => [](PadInv /\ TraceInv /\ Regular /\ Finished)
<1> DEFINE Inv == PadInv /\ TraceInv /\ Regular /\ Finished
<1>1. Init => Inv
  BY InitPads, InitTrace, InitFinishes
<1>2. Inv /\ [Next]_vars => Inv'
  BY PadInvStep, TraceInvStep, StaysRegular, FinishedStep
<1> QED
  BY <1>1, <1>2, PTL DEF Spec

(* prove returns a proof unless a grind ran past its bound, and verify never       *)
(* refuses a proof that arrives as it was sent: no bound, shape, proof of work,     *)
(* second walk or sub-proof stops it, whatever the layout and the answers.         *)
THEOREM HonestProofsPass == Spec => []Completeness
<1>1. PadInv /\ TraceInv /\ Regular /\ Finished => Completeness
  BY DEF Finished, Completeness, Sent
<1> QED
  BY <1>1, AlwaysFinished, PTL

(* No challenge is drawn before everything it must not be chosen by: by either side *)
(* or the second walk of either, however often a draw was repeated.                *)
THEOREM ChallengesComeLate == Spec => []BindingOrder
<1>1. PadInv /\ TraceInv /\ Regular /\ Finished => BindingOrder
  BY InvGivesOrder
<1> QED
  BY <1>1, AlwaysFinished, PTL
=============================================================================
