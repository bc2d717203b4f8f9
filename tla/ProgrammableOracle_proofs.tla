---------------------- MODULE ProgrammableOracle_proofs ----------------------
(***************************************************************************)
(* The programmable oracle keeps every answer it gave and implements a     *)
(* lazily sampled random oracle; and a vector squeeze that was programmed   *)
(* block by block gives the vector, whoever comes in between the blocks.    *)
(* For every set of points, every hash function (collisions included),      *)
(* counter width, length and field.                                        *)
(***************************************************************************)
EXTENDS ProgramVec, TLAPS

USE OracleAssumption

(* Programmed or hashed, an answer is an oracle value (sim_oracle.rs 130-135). *)
LEMMA AnswerInValue ==
    ASSUME OracleTypeOK, NEW p \in Point
    PROVE  Answer(p) \in Value
BY DEF OracleTypeOK, Answer

(* Asking leaves the table alone, so no answer moves (sim_oracle.rs 108-136). *)
LEMMA AskKeepsAnswers ==
    ASSUME NEW p \in Point, Ask(p), NEW q \in Point
    PROVE  Answer(q)' = Answer(q)
BY DEF Ask, Answer

(* Programming a fresh point moves no answer but that point's own, which was *)
(* neither asked nor programmed (sim_oracle.rs 149-155).                     *)
LEMMA ProgramFreshKeepsAnswers ==
    ASSUME NEW p \in Point, NEW v \in Value, ProgramFresh(p, v),
           NEW q \in Point, q # p
    PROVE  Answer(q)' = Answer(q)
BY DEF ProgramFresh, Program, Answer

(* An asked point has its digest in `seen`. *)
SeenCoversAsked == \A p \in asked : Hash[p] \in seen

OracleInv == OracleTypeOK /\ SeenCoversAsked

LEMMA OracleInitInv == OracleInit => OracleInv
BY DEF OracleInit, OracleInv, OracleTypeOK, SeenCoversAsked

LEMMA AskInv ==
    ASSUME OracleInv, NEW p \in Point, Ask(p)
    PROVE  OracleInv'
<1> USE DEF OracleInv
<1>1. OracleTypeOK'
  <2>1. SaturatingIncr(totalAnswers) \in 0..MAX_COUNT
    BY DEF OracleTypeOK, SaturatingIncr
  <2>2. SaturatingIncr(powAnswers) \in 0..MAX_COUNT
    BY DEF OracleTypeOK, SaturatingIncr
  <2>3. QED
    BY <2>1, <2>2 DEF OracleTypeOK, Ask
<1>2. SeenCoversAsked'
  BY DEF SeenCoversAsked, Ask
<1>3. QED
  BY <1>1, <1>2

LEMMA ProgramFreshInv ==
    ASSUME OracleInv, NEW p \in Point, NEW v \in Value, ProgramFresh(p, v)
    PROVE  OracleInv'
BY DEF OracleInv, OracleTypeOK, SeenCoversAsked, ProgramFresh, Program

LEMMA StutterInv ==
    ASSUME OracleInv, UNCHANGED oracleVars
    PROVE  OracleInv'
BY DEF OracleInv, OracleTypeOK, SeenCoversAsked, oracleVars

(* The oracle's state stays well-formed, and `seen` records every query, in    *)
(* every run of any client (sim_oracle.rs 108-155).                            *)
THEOREM OracleTypeCorrect == OracleSpec => [](OracleTypeOK /\ SeenCoversAsked)
<1>1. OracleInit => OracleInv
  BY OracleInitInv
<1>2. OracleInv /\ [OracleNext]_oracleVars => OracleInv'
  <2> SUFFICES ASSUME OracleInv, [OracleNext]_oracleVars PROVE OracleInv'
    OBVIOUS
  <2>1. CASE \E p \in Point : Ask(p)
    BY <2>1, AskInv
  <2>2. CASE \E p \in Point, v \in Value : ProgramFresh(p, v)
    BY <2>2, ProgramFreshInv
  <2>3. CASE UNCHANGED oracleVars
    BY <2>3, StutterInv
  <2>4. QED
    BY <2>1, <2>2, <2>3 DEF OracleNext
<1>3. OracleInv => OracleTypeOK /\ SeenCoversAsked
  BY DEF OracleInv
<1>4. QED
  BY <1>1, <1>2, <1>3, PTL DEF OracleSpec

(* One step never changes the answer at a point that was asked before it. *)
LEMMA StepKeepsAnswers ==
    ASSUME OracleInv, [OracleNext]_oracleVars, NEW q \in asked
    PROVE  Answer(q)' = Answer(q)
<1>0. q \in Point
  BY DEF OracleInv, OracleTypeOK
<1>1. ASSUME NEW p \in Point, Ask(p) PROVE Answer(q)' = Answer(q)
  BY <1>0, <1>1, AskKeepsAnswers
<1>2. ASSUME NEW p \in Point, NEW v \in Value, ProgramFresh(p, v)
      PROVE  Answer(q)' = Answer(q)
  <2>1. Hash[q] \in seen
    BY DEF OracleInv, SeenCoversAsked
  <2>2. q # p
    BY <1>2, <2>1 DEF ProgramFresh, Fresh, WasQueried
  <2>3. QED
    BY <1>0, <1>2, <2>2, ProgramFreshKeepsAnswers
<1>3. CASE UNCHANGED oracleVars
  BY <1>3 DEF oracleVars, Answer
<1>4. QED
  BY <1>1, <1>2, <1>3 DEF OracleNext

(* No client ever sees two answers at one point (sim_oracle.rs 144-155): the    *)
(* simulator's bad event, programming what was already answered, cannot happen. *)
THEOREM AnswersAreFinal == OracleSpec => AnswersNeverChange
<1>1. OracleInv /\ [OracleNext]_oracleVars
        => [\A p \in asked : Answer(p)' = Answer(p)]_oracleVars
  BY StepKeepsAnswers
<1>2. OracleSpec => []OracleInv
  BY OracleTypeCorrect, PTL DEF OracleInv
<1>3. QED
  BY <1>1, <1>2, PTL DEF OracleSpec, AnswersNeverChange

(* A step that leaves the assigned domain alone leaves the assignment alone. *)
LEMMA SameAssignment ==
    ASSUME (asked \cup DOMAIN table)' = asked \cup DOMAIN table,
           \A q \in asked \cup DOMAIN table : Answer(q)' = Answer(q)
    PROVE  Assigned' = Assigned
BY DEF Assigned

(* A step that adds the point p to it is the abstract Assign(p, Answer(p)'). *)
LEMMA NewAssignment ==
    ASSUME NEW p \in Point, p \notin asked \cup DOMAIN table, Answer(p)' \in Value,
           (asked \cup DOMAIN table)' = asked \cup DOMAIN table \cup {p},
           \A q \in asked \cup DOMAIN table : Answer(q)' = Answer(q)
    PROVE  Lazy!Next
<1>1. DOMAIN Assigned = asked \cup DOMAIN table
  BY DEF Assigned
<1>2. Assigned' = [q \in DOMAIN Assigned \cup {p} |->
                        IF q = p THEN Answer(p)' ELSE Assigned[q]]
  BY <1>1 DEF Assigned
<1>3. Lazy!Assign(p, Answer(p)')
  BY <1>1, <1>2 DEF Lazy!Assign
<1>4. QED
  BY <1>3 DEF Lazy!Next

(* The oracle implements a lazily sampled random oracle: asking an undefined    *)
(* point and programming a fresh one each fix one value, everything else        *)
(* stutters (sim_oracle.rs 59-155).                                             *)
THEOREM OracleImplementsLazySampling == OracleSpec => ImplementsRandomOracle
<1>1. OracleInit => Lazy!Init
  BY DEF OracleInit, Lazy!Init, Assigned
<1>2. OracleInv /\ [OracleNext]_oracleVars => [Lazy!Next]_Assigned
  <2> SUFFICES ASSUME OracleInv, [OracleNext]_oracleVars PROVE [Lazy!Next]_Assigned
    OBVIOUS
  <2>1. ASSUME NEW p \in Point, Ask(p) PROVE [Lazy!Next]_Assigned
    <3>1. (asked \cup DOMAIN table)' = asked \cup DOMAIN table \cup {p}
      BY <2>1 DEF Ask
    <3>2. \A q \in asked \cup DOMAIN table : Answer(q)' = Answer(q)
      BY <2>1, AskKeepsAnswers DEF OracleInv, OracleTypeOK
    <3>3. CASE p \in asked \cup DOMAIN table
      BY <3>1, <3>2, <3>3, SameAssignment
    <3>4. CASE p \notin asked \cup DOMAIN table
      <4>1. Answer(p)' = Answer(p) /\ Answer(p) \in Value
        BY <2>1, AskKeepsAnswers, AnswerInValue DEF OracleInv
      <4>2. QED
        BY <3>1, <3>2, <3>4, <4>1, NewAssignment
    <3>5. QED
      BY <3>3, <3>4
  <2>2. ASSUME NEW p \in Point, NEW v \in Value, ProgramFresh(p, v)
        PROVE  [Lazy!Next]_Assigned
    <3>1. p \notin asked \cup DOMAIN table
      BY <2>2 DEF ProgramFresh, Fresh, WasQueried, OracleInv, SeenCoversAsked
    <3>2. (asked \cup DOMAIN table)' = asked \cup DOMAIN table \cup {p}
      BY <2>2 DEF ProgramFresh, Program
    <3>3. \A q \in asked \cup DOMAIN table : Answer(q)' = Answer(q)
      BY <2>2, <3>1, ProgramFreshKeepsAnswers DEF OracleInv, OracleTypeOK
    <3>4. Answer(p)' \in Value
      BY <2>2 DEF ProgramFresh, Program, Answer
    <3>5. QED
      BY <3>1, <3>2, <3>3, <3>4, NewAssignment
  <2>3. CASE UNCHANGED oracleVars
    BY <2>3 DEF oracleVars, Assigned, Answer
  <2>4. QED
    BY <2>1, <2>2, <2>3 DEF OracleNext
<1>3. OracleSpec => []OracleInv
  BY OracleTypeCorrect, PTL DEF OracleInv
<1>4. QED
  BY <1>1, <1>2, <1>3, PTL DEF OracleSpec, ImplementsRandomOracle, Lazy!Spec

-----------------------------------------------------------------------------
(* The vector squeeze. *)
HIDE OracleAssumption
USE VecAssumption

PlannedAt(k, p) ==
    <<values[2 * k - 1], IF 2 * k <= n THEN values[2 * k] ELSE Hash[p][2]>>

(* Block k was programmed, and is as it was programmed. *)
Set(k) ==
    /\ SqueezePoint[n][k] \in DOMAIN table
    /\ table[SqueezePoint[n][k]] = PlannedAt(k, SqueezePoint[n][k])

(* The first m elements of the vector. *)
Beginning(m) == [j \in 1..m |-> values[j]]

Shape ==
    /\ values \in Seq(Field) /\ n \in Lengths
    /\ block \in 1..Blocks
    /\ pc \in {"program", "sample", "refused", "done"}

(* While blocks are programmed the earlier ones are set and nothing is squeezed yet;  *)
(* then all are set and the squeeze has the elements of the blocks before this one.    *)
Progress ==
    /\ pc = "program" => out = <<>> /\ \A k \in 1..(block - 1) : Set(k)
    /\ pc = "sample" => out = Beginning(2 * (block - 1)) /\ \A k \in 1..Blocks : Set(k)

IInv == Shape /\ Progress /\ SqueezeGivesValues

LEMMA Lengths1 == ASSUME Shape PROVE n \in Nat \ {0} /\ Blocks \in Nat \ {0}
<1>1. PICK m \in Nat \ {0} : m = n
  BY DEF Shape
<1>2. (m + 1) \div 2 \in Nat \ {0}
  <2> HIDE VecAssumption
  <2> QED
    OBVIOUS
<1>. QED
  BY <1>1, <1>2 DEF Blocks

LEMMA InitInv == Init => IInv
<1>. SUFFICES ASSUME Init PROVE IInv
  OBVIOUS
<1>1. PICK l \in Lengths : values \in [1..l -> Field]
  BY DEF Init
<1>2. values \in Seq(Field) /\ n = l
  BY <1>1 DEF n
<1>. QED
  BY <1>2 DEF Init, IInv, Shape, Progress, SqueezeGivesValues, Blocks

(* No step changes what a block was programmed to: program_fresh refuses to           *)
(* (sim_oracle.rs 149-155).                                                             *)
LEMMA SetStays ==
    ASSUME UNCHANGED values, NEW k, Set(k),
           UNCHANGED table \/ \E p \in Point, v \in Value : ProgramFresh(p, v)
    PROVE  Set(k)'
<1>1. n' = n
  BY DEF n
<1>2. CASE UNCHANGED table
  BY <1>1, <1>2 DEF Set, PlannedAt
<1>3. CASE \E p \in Point, v \in Value : ProgramFresh(p, v)
  BY <1>1, <1>3 DEF Set, PlannedAt, ProgramFresh, Program, Fresh
<1>. QED
  BY <1>2, <1>3

LEMMA PointIsPoint == ASSUME Shape PROVE NextPoint \in Point
  BY Lengths1 DEF Shape, NextPoint, Blocks

(* A block that program_fresh accepts is set. *)
LEMMA ProgramInv == ASSUME IInv, ProgramBlock PROVE IInv'
<1>. USE DEF IInv
<1>1. values' = values /\ n' = n /\ Blocks' = Blocks /\ out' = out /\ pc = "program"
  BY DEF ProgramBlock, n, Blocks
<1>2. CASE pc' = "refused"
  BY <1>1, <1>2, Lengths1 DEF ProgramBlock, Shape, Progress, SqueezeGivesValues, NextBlock
<1>3. CASE pc' # "refused"
  <2>1. /\ ProgramFresh(NextPoint, Planned(NextPoint))
        /\ block' = NextBlock /\ pc' = IF block = Blocks THEN "sample" ELSE "program"
    BY <1>1, <1>3 DEF ProgramBlock
  <2>2. table' = [q \in DOMAIN table \cup {NextPoint} |->
                    IF q = NextPoint THEN Planned(NextPoint) ELSE table[q]]
        /\ NextPoint \notin DOMAIN table
    BY <2>1 DEF ProgramFresh, Program, Fresh
  <2>3. ASSUME NEW k \in 1..block PROVE Set(k)'
    <3>1. CASE k = block
      BY <1>1, <2>2, <3>1 DEF Set, PlannedAt, Planned, Suffix, NextPoint
    <3>2. CASE k # block
      <4>1. k \in 1..(block - 1)
        BY <3>2 DEF Shape
      <4>2. Set(k)
        BY <1>1, <4>1 DEF Progress
      <4>3. SqueezePoint[n][k] # NextPoint /\ SqueezePoint[n][k] \in DOMAIN table
        BY <2>2, <4>2 DEF Set
      <4>. QED
        BY <1>1, <2>2, <4>2, <4>3 DEF Set, PlannedAt
    <3>. QED
      BY <3>1, <3>2
  <2>4. CASE block = Blocks
    <3>1. block' = 1 /\ pc' = "sample"
      BY <2>1, <2>4 DEF NextBlock
    <3>2. Beginning(2 * (block - 1))' = <<>>
      BY <3>1 DEF Beginning
    <3>. QED
      BY <1>1, <2>3, <2>4, <3>1, <3>2, Lengths1 DEF Shape, Progress, SqueezeGivesValues
  <2>5. CASE block # Blocks
    <3>1. block' = block + 1 /\ pc' = "program"
      BY <2>1, <2>5 DEF NextBlock
    <3>2. block + 1 \in 1..Blocks /\ (block + 1) - 1 = block
      BY <2>5, Lengths1 DEF Shape
    <3>. QED
      BY <1>1, <2>3, <3>1, <3>2 DEF Shape, Progress, SqueezeGivesValues
  <2>. QED
    BY <2>4, <2>5
<1>. QED
  BY <1>2, <1>3

(* The elements of one more block. *)
LEMMA BeginningGrows ==
    ASSUME NEW m \in Nat, values \in Seq(Field)
    PROVE  /\ m + 1 <= Len(values) => Beginning(m) \o <<values[m + 1]>> = Beginning(m + 1)
           /\ m + 2 <= Len(values) =>
                Beginning(m) \o <<values[m + 1], values[m + 2]>> = Beginning(m + 2)
<1>1. Beginning(m) \in Seq({values[j] : j \in 1..m}) /\ Len(Beginning(m)) = m
  BY DEF Beginning
<1>. QED
  BY <1>1 DEF Beginning

LEMMA WholeVector == ASSUME values \in Seq(Field) PROVE Beginning(n) = values
  BY DEF Beginning, n

(* A squeezed block is the one that was set. *)
LEMMA SampleInv == ASSUME IInv, SampleBlock PROVE IInv'
<1>. USE DEF IInv
<1>1. /\ values' = values /\ n' = n /\ Blocks' = Blocks /\ pc = "sample"
      /\ table' = table /\ block' = NextBlock
      /\ pc' = IF block = Blocks THEN "done" ELSE "sample"
  BY DEF SampleBlock, Ask, n, Blocks
<1>2. n \in Nat \ {0} /\ block \in 1..Blocks /\ values \in Seq(Field)
  BY Lengths1 DEF Shape
<1>3. \A k \in 1..Blocks : Set(k)'
  BY <1>1, SetStays DEF Progress
<1>4. Answer(NextPoint) = PlannedAt(block, NextPoint)
  BY <1>1, <1>2 DEF Progress, Set, Answer, NextPoint
<1>5. out = Beginning(2 * (block - 1))
  BY <1>1 DEF Progress
<1>6. CASE 2 * block <= n
  <2>1. Take(Answer(NextPoint)) = <<values[2 * (block - 1) + 1], values[2 * (block - 1) + 2]>>
    BY <1>2, <1>4, <1>6 DEF Take, PlannedAt
  <2>2. out' = Beginning(2 * (block - 1) + 2)
    <3>1. 2 * (block - 1) \in Nat /\ 2 * (block - 1) + 2 <= Len(values)
      BY <1>2, <1>6 DEF n
    <3>2. out' = Beginning(2 * (block - 1)) \o Take(Answer(NextPoint))
      BY <1>5 DEF SampleBlock
    <3>. HIDE DEF IInv
    <3>. QED
      BY <1>2, <2>1, <3>1, <3>2, BeginningGrows
  <2>3. CASE block = Blocks
    <3>1. 2 * (block - 1) + 2 = n
      BY <1>2, <1>6, <2>3 DEF Blocks
    <3>. QED
      BY <1>1, <1>2, <1>3, <2>2, <2>3, <3>1, WholeVector
      DEF Shape, Progress, SqueezeGivesValues, NextBlock
  <2>4. CASE block # Blocks
    <3>1. block + 1 \in 1..Blocks /\ 2 * ((block + 1) - 1) = 2 * (block - 1) + 2
      BY <1>2, <2>4, Lengths1
    <3>2. block' = block + 1 /\ pc' = "sample"
      BY <1>1, <2>4 DEF NextBlock
    <3>3. out' = Beginning(2 * (block - 1))'
      BY <1>1, <2>2, <3>1, <3>2 DEF Beginning
    <3>. QED
      BY <1>1, <1>3, <3>1, <3>2, <3>3 DEF Shape, Progress, SqueezeGivesValues
  <2>. QED
    BY <2>3, <2>4
<1>7. CASE 2 * block > n
  <2>1. block = Blocks /\ 2 * (block - 1) + 1 = n
    BY <1>2, <1>7 DEF Blocks
  <2>2. Take(Answer(NextPoint)) = <<values[2 * (block - 1) + 1]>>
    BY <1>2, <1>4, <1>7 DEF Take, PlannedAt
  <2>3. out' = Beginning(n)
    <3>1. 2 * (block - 1) \in Nat /\ 2 * (block - 1) + 1 <= Len(values)
      BY <1>2, <2>1 DEF n
    <3>2. out' = Beginning(2 * (block - 1)) \o Take(Answer(NextPoint))
      BY <1>5 DEF SampleBlock
    <3>3. out' = Beginning(2 * (block - 1) + 1)
      BY <1>2, <2>2, <3>1, <3>2, BeginningGrows
    <3>. QED
      BY <2>1, <3>3
  <2>. QED
    BY <1>1, <1>2, <2>1, <2>3, WholeVector DEF Shape, Progress, SqueezeGivesValues, NextBlock
<1>. QED
  BY <1>2, <1>6, <1>7

(* Whatever another holder does, the blocks stay set and the squeeze does not move. *)
LEMMA OtherInv == ASSUME IInv, NEW p \in Point, Other(p) PROVE IInv'
<1>1. UNCHANGED <<pc, values, block, out>> /\ n' = n /\ Blocks' = Blocks
  BY DEF Other, n, Blocks
<1>2. UNCHANGED table \/ \E q \in Point, v \in Value : ProgramFresh(q, v)
  BY DEF Other, Ask
<1>3. \A k : Set(k) => Set(k)'
  BY <1>1, <1>2, SetStays
<1>. QED
  BY <1>1, <1>3 DEF IInv, Shape, Progress, SqueezeGivesValues, Beginning

LEMMA NextInv == ASSUME IInv, [Next]_vars PROVE IInv'
<1>1. CASE UNCHANGED vars
  BY <1>1 DEF vars, vecVars, oracleVars, IInv, Shape, Progress, SqueezeGivesValues, Set,
     PlannedAt, Beginning, n, Blocks
<1>2. CASE Next
  BY <1>2, <1>1, ProgramInv, SampleInv, OtherInv DEF Next, Done
<1>. QED
  BY <1>1, <1>2

(* The squeeze that was programmed gives the programmed vector, for every length and     *)
(* whoever asks or programs between its blocks (program_next_vec, sample_f128_vec).       *)
THEOREM VectorIsSqueezed == Spec => []SqueezeGivesValues
<1>1. IInv => SqueezeGivesValues
  BY DEF IInv
<1>. QED
  BY <1>1, InitInv, NextInv, PTL DEF Spec

-----------------------------------------------------------------------------
(* A point nobody else touched is fixed only as a block of the squeeze, while blocks are *)
(* programmed only as an earlier one; until then nobody else's queries are seen.          *)
Mine ==
    \A q \in DOMAIN table \ touched : \E k \in 1..Blocks :
        /\ q = SqueezePoint[n][k] /\ table[q] = PlannedAt(k, q)
        /\ pc = "program" => k < block

SeenByOthers == pc = "program" => \A d \in seen : \E t \in touched : Hash[t] = d

BadEvent == \E p \in Points, t \in touched : Hash[p] = Hash[t]

Untouched == Mine /\ SeenByOthers /\ (pc = "refused" => BadEvent)

LEMMA UntouchedInit == Init => Untouched
  BY DEF Init, OracleInit, Untouched, Mine, SeenByOthers

LEMMA UntouchedProgram == ASSUME IInv, Untouched, ProgramBlock PROVE Untouched'
<1>1. /\ n' = n /\ Blocks' = Blocks /\ values' = values /\ Points' = Points
      /\ touched' = touched /\ seen' = seen /\ pc = "program"
  BY DEF ProgramBlock, n, Blocks, Points, ProgramFresh, Program, oracleVars
<1>2. n \in Lengths /\ block \in 1..Blocks /\ Blocks \in Nat
  BY Lengths1 DEF IInv, Shape
<1>3. CASE ProgramFresh(NextPoint, Planned(NextPoint)) /\ block' = NextBlock
           /\ pc' = IF block = Blocks THEN "sample" ELSE pc
  <2>1. /\ table' = [q \in DOMAIN table \cup {NextPoint} |->
                       IF q = NextPoint THEN Planned(NextPoint) ELSE table[q]]
        /\ NextPoint \notin DOMAIN table
    BY <1>3 DEF ProgramFresh, Program, Fresh
  <2>2. pc' = "program" => block' = block + 1
    BY <1>1, <1>3 DEF NextBlock
  <2>3. ASSUME NEW q \in DOMAIN table' \ touched'
        PROVE  \E k \in 1..Blocks :
                 /\ q = SqueezePoint[n][k] /\ table'[q] = PlannedAt(k, q)
                 /\ pc' = "program" => k < block'
    <3>1. CASE q = NextPoint
      <4>1. q = SqueezePoint[n][block] /\ table'[q] = PlannedAt(block, q)
        BY <2>1, <3>1 DEF NextPoint, Planned, PlannedAt, Suffix
      <4>. QED
        BY <1>2, <2>2, <4>1
    <3>2. CASE q # NextPoint
      <4>1. q \in DOMAIN table \ touched /\ table'[q] = table[q]
        BY <1>1, <2>1, <3>2
      <4>2. PICK k \in 1..Blocks :
              q = SqueezePoint[n][k] /\ table[q] = PlannedAt(k, q) /\ k < block
        BY <1>1, <4>1 DEF Untouched, Mine
      <4>. QED
        BY <1>2, <2>2, <4>1, <4>2
    <3>. QED
      BY <3>1, <3>2
  <2>4. Mine'
    BY <1>1, <2>3 DEF Mine, PlannedAt
  <2>. QED
    BY <1>1, <1>3, <2>4 DEF Untouched, SeenByOthers
<1>4. CASE ~Fresh(NextPoint) /\ pc' = "refused" /\ UNCHANGED <<oracleVars, block>>
  <2>1. \E t \in touched : Hash[NextPoint] = Hash[t]
    <3>1. CASE WasQueried(NextPoint)
      BY <1>1, <3>1 DEF WasQueried, Untouched, SeenByOthers
    <3>2. CASE NextPoint \in DOMAIN table
      <4>1. SUFFICES ASSUME NextPoint \notin touched PROVE FALSE
        OBVIOUS
      <4>2. PICK k \in 1..Blocks : NextPoint = SqueezePoint[n][k] /\ k < block
        BY <1>1, <3>2, <4>1 DEF Untouched, Mine
      <4>. QED
        BY <1>2, <4>2 DEF NextPoint, Blocks
    <3>. QED
      BY <1>4, <3>1, <3>2 DEF Fresh
  <2>2. NextPoint \in Points
    BY <1>2 DEF NextPoint, Points
  <2>3. BadEvent'
    BY <1>1, <2>1, <2>2 DEF BadEvent
  <2>4. Mine'
    BY <1>1, <1>4 DEF oracleVars, Untouched, Mine, PlannedAt
  <2>. QED
    BY <1>4, <2>3, <2>4 DEF Untouched, SeenByOthers
<1>. QED
  BY <1>3, <1>4 DEF ProgramBlock

LEMMA UntouchedOther == ASSUME IInv, Untouched, NEW p \in Point, Other(p) PROVE Untouched'
<1>1. /\ n' = n /\ Blocks' = Blocks /\ values' = values /\ Points' = Points
      /\ touched' = touched \cup {p} /\ UNCHANGED <<pc, block>>
      /\ pc \in {"program", "sample"}
  BY DEF Other, n, Blocks, Points
<1>2. /\ DOMAIN table' \subseteq DOMAIN table \cup {p}
      /\ \A q \in DOMAIN table : q # p => table'[q] = table[q]
      /\ seen' \subseteq seen \cup {Hash[p]}
  BY DEF Other, Ask, ProgramFresh, Program
<1>3. Mine'
  <2>. SUFFICES ASSUME NEW q \in DOMAIN table' \ touched'
                PROVE  \E k \in 1..Blocks :
                         /\ q = SqueezePoint[n][k] /\ table'[q] = PlannedAt(k, q)
                         /\ pc = "program" => k < block
    BY <1>1 DEF Mine, PlannedAt
  <2>1. q \in DOMAIN table \ touched /\ table'[q] = table[q]
    BY <1>1, <1>2
  <2>. QED
    BY <2>1 DEF Untouched, Mine
<1>4. SeenByOthers'
  BY <1>1, <1>2 DEF Untouched, SeenByOthers
<1>. QED
  BY <1>1, <1>3, <1>4 DEF Untouched

LEMMA UntouchedNext == ASSUME IInv, Untouched, [Next]_vars PROVE Untouched'
<1>1. CASE UNCHANGED vars
  BY <1>1 DEF vars, vecVars, oracleVars, Untouched, Mine, SeenByOthers, BadEvent, PlannedAt,
     Points, n, Blocks
<1>2. CASE SampleBlock
  <2>1. /\ n' = n /\ Blocks' = Blocks /\ values' = values /\ UNCHANGED <<touched, table>>
        /\ pc' \in {"sample", "done"}
    BY <1>2 DEF SampleBlock, Ask, n, Blocks
  <2>. QED
    BY <2>1 DEF Untouched, Mine, SeenByOthers, PlannedAt
<1>. QED
  BY <1>1, <1>2, UntouchedProgram, UntouchedOther DEF Next, Done

(* A refusal is somebody else's point or digest, and what the squeeze does not read keeps  *)
(* its hash value, for every vector and every set of other holders (program_next_vec).      *)
THEOREM NothingElseIsFixed == Spec => []NothingElseChanges
<1>1. IInv /\ Untouched => NothingElseChanges
  <2>. SUFFICES ASSUME IInv, Untouched PROVE NothingElseChanges
    OBVIOUS
  <2>1. n \in Lengths /\ n \in Nat /\ Blocks \in Nat \ {0}
    BY Lengths1 DEF IInv, Shape
  <2>2. ASSUME NEW p \in Points \ touched, n % 2 = 1, p = SqueezePoint[n][Blocks]
        PROVE  Answer(p)[2] = Hash[p][2]
    <3>1. CASE p \in DOMAIN table
      <4>1. PICK k \in 1..Blocks : p = SqueezePoint[n][k] /\ table[p] = PlannedAt(k, p)
        BY <2>2, <3>1 DEF Untouched, Mine
      <4>2. k = Blocks
        <5>1. \A i, j \in 1..Blocks : SqueezePoint[n][i] = SqueezePoint[n][j] => i = j
          BY <2>1 DEF Blocks
        <5>2. Blocks \in 1..Blocks
          BY <2>1
        <5>. QED
          BY <2>2, <4>1, <5>1, <5>2
      <4>3. 2 * k > n
        BY <2>1, <2>2, <4>2 DEF Blocks
      <4>. QED
        BY <2>1, <3>1, <4>1, <4>3 DEF Answer, PlannedAt
    <3>2. CASE p \notin DOMAIN table
      BY <3>2 DEF Answer
    <3>. QED
      BY <3>1, <3>2
  <2>3. pc = "refused" => \E p \in Points, t \in touched : Hash[p] = Hash[t]
    BY DEF Untouched, BadEvent
  <2>. QED
    BY <2>2, <2>3 DEF NothingElseChanges
<1>. QED
  BY <1>1, InitInv, NextInv, UntouchedInit, UntouchedNext, PTL DEF Spec
=============================================================================
