------------------------ MODULE SimulatorGame_proofs ------------------------
(***************************************************************************)
(* In the game on a shared oracle, for any number of simulations, parties, *)
(* rounds, challenges and points: a simulation samples what it planned,    *)
(* and its proof replays for ever.                                         *)
(***************************************************************************)
EXTENDS SimulatorGame, FiniteSetTheorems, TLAPS

USE GameAssumption

(* Every point asked has its digest in `seen`: was_queried never misses one. *)
SeenCoversAsked == \A p \in asked : Hash[p] \in seen

IsSequence(x) == \E S : x \in Seq(S)

(* The places of a simulation. *)
States == {"idle", "equality", "program", "sample", "tail", "auditing",
           "done", "audit", "collision"}

(* The variables indexed by a simulation, and the logs, are well-formed. *)
Shape ==
    /\ DOMAIN pc = Sims /\ DOMAIN tr = Sims /\ DOMAIN log = Sims
    /\ DOMAIN vpos = Sims /\ DOMAIN verdict = Sims
    /\ skip \in [Sims -> Nat]
    /\ \A s \in Sims : IsSequence(log[s])

(* How far the log has come at each place of a simulation. *)
LogLength ==
    \A s \in Sims :
        /\ pc[s] \in States
        /\ skip[s] <= Len(log[s])
        /\ pc[s] \in {"idle", "equality"} => Len(log[s]) = skip[s]
        /\ pc[s] \in {"program", "sample"} => Len(log[s]) < skip[s] + ROUNDS
        /\ pc[s] = "tail" => Len(log[s]) = skip[s] + ROUNDS
        /\ pc[s] \in {"auditing", "done"} => Len(log[s]) = skip[s] + ROUNDS + 1

(* What a log says is what the oracle answers, and was asked. *)
EntryAgrees(s, i) ==
    /\ log[s][i][1] \in asked
    /\ log[s][i][2] = ChallengeOf(Answer(log[s][i][1]))

LogAgrees == \A s \in Sims : \A i \in 1..Len(log[s]) : EntryAgrees(s, i)

(* Between the two locks of a round, the next point is programmed as planned. *)
Pending ==
    \A s \in Sims : pc[s] = "sample" =>
        /\ tr[s] \in DOMAIN table
        /\ ChallengeOf(table[tr[s]]) = plan[s][Sampled(s) + 1]

LogPlanned ==
    \A s \in Sims : \A i \in 1..ROUNDS :
        Sampled(s) >= i => log[s][skip[s] + i][2] = plan[s][i]

(* The verifier has not run off the proof it replays. *)
Replay ==
    \A s \in Sims :
        /\ vpos[s] \in Nat
        /\ pc[s] # "done" => vpos[s] = 0 /\ verdict[s] = "none"
        /\ pc[s] = "done" /\ verdict[s] = "none" => vpos[s] < Len(log[s])

GameInv ==
    /\ SeenCoversAsked /\ Shape /\ LogLength /\ LogAgrees
    /\ Pending /\ LogPlanned /\ Replay /\ SimulatedProofsVerify

-----------------------------------------------------------------------------
(* The oracle only ever grows: no asked point changes its answer, no programmed *)
(* point its value (sim_oracle.rs 108-155).                                     *)
Grows ==
    /\ SeenCoversAsked'
    /\ asked \subseteq asked'
    /\ \A p \in asked : Answer(p)' = Answer(p)
    /\ \A p \in DOMAIN table : p \in DOMAIN table' /\ table'[p] = table[p]

LEMMA AskGrows ==
    ASSUME SeenCoversAsked, NEW p, Ask(p)
    PROVE  Grows /\ p \in asked' /\ \A q : Answer(q)' = Answer(q)
BY DEF SeenCoversAsked, Ask, Answer, Grows

LEMMA ProgramGrows ==
    ASSUME SeenCoversAsked, NEW p, NEW v, ProgramFresh(p, v)
    PROVE  Grows /\ p \in DOMAIN table' /\ table'[p] = v
<1>1. \A q \in asked : q # p
  BY DEF SeenCoversAsked, ProgramFresh, Fresh, WasQueried
<1>2. p \notin DOMAIN table
  BY DEF ProgramFresh, Fresh
<1>3. QED
  BY <1>1, <1>2 DEF SeenCoversAsked, ProgramFresh, Program, Answer, Grows

LEMMA IdleGrows ==
    ASSUME SeenCoversAsked, UNCHANGED oracleVars
    PROVE  Grows
BY DEF SeenCoversAsked, oracleVars, Answer, Grows

(* While the oracle grows, an entry stays right wherever nobody touches it. *)
LEMMA KeepEntry ==
    ASSUME Grows, NEW s \in Sims, NEW i, EntryAgrees(s, i), log'[s][i] = log[s][i]
    PROVE  EntryAgrees(s, i)'
<1> DEFINE p == log[s][i][1]
<1>1. p \in asked /\ log[s][i][2] = ChallengeOf(Answer(p))
  BY DEF EntryAgrees
<1>2. p \in asked' /\ Answer(p)' = Answer(p)
  BY <1>1 DEF Grows
<1>3. QED
  BY <1>1, <1>2 DEF EntryAgrees, ChallengeOf

LEMMA KeepPending ==
    ASSUME Pending, Grows, NEW s \in Sims,
           log'[s] = log[s], skip'[s] = skip[s], tr'[s] = tr[s], plan' = plan,
           pc[s] = "sample"
    PROVE  tr'[s] \in DOMAIN table' /\ ChallengeOf(table'[tr'[s]]) = plan'[s][Sampled(s)' + 1]
BY DEF Pending, Grows, ChallengeOf, Sampled

(* What Append does to a sequence of any kind of element. *)
LEMMA Appended ==
    ASSUME NEW x, IsSequence(x), NEW e
    PROVE  /\ IsSequence(Append(x, e))
           /\ Len(x) \in Nat
           /\ Len(Append(x, e)) = Len(x) + 1
           /\ \A i \in 1..Len(x) : Append(x, e)[i] = x[i]
           /\ Append(x, e)[Len(x) + 1] = e
<1>1. PICK S : x \in Seq(S)
  BY DEF IsSequence
<1>2. x \in Seq(S \cup {e})
  BY <1>1
<1>3. Append(x, e) \in Seq(S \cup {e})
  BY <1>2
<1>4. IsSequence(Append(x, e))
  BY <1>3 DEF IsSequence
<1>5. QED
  BY <1>2, <1>4

(* A squeeze appends the oracle's answer at the transcript's point to the log.  *)
LEMMA Squeezed ==
    ASSUME GameInv, NEW s \in Sims, Squeeze(s)
    PROVE  /\ Grows
           /\ DOMAIN log' = Sims /\ DOMAIN tr' = Sims
           /\ \A u \in Sims : IsSequence(log'[u])
           /\ Len(log'[s]) = Len(log[s]) + 1
           /\ \A i \in 1..Len(log[s]) : log'[s][i] = log[s][i]
           /\ log'[s][Len(log[s]) + 1] = <<tr[s], ChallengeOf(Answer(tr[s]))>>
           /\ \A u \in Sims \ {s} : log'[u] = log[u] /\ tr'[u] = tr[u]
           /\ LogAgrees'
<1> DEFINE e == <<tr[s], ChallengeOf(Answer(tr[s]))>>
<1>1. Grows /\ tr[s] \in asked' /\ \A q : Answer(q)' = Answer(q)
  BY AskGrows DEF GameInv, Squeeze
<1>2. IsSequence(log[s])
  BY DEF GameInv, Shape
<1>3. log' = [log EXCEPT ![s] = Append(log[s], e)] /\ DOMAIN log = Sims
  BY DEF Squeeze, GameInv, Shape
<1>4. log'[s] = Append(log[s], e)
  BY <1>3
<1>5. /\ IsSequence(log'[s]) /\ Len(log[s]) \in Nat
      /\ Len(log'[s]) = Len(log[s]) + 1
      /\ \A i \in 1..Len(log[s]) : log'[s][i] = log[s][i]
      /\ log'[s][Len(log[s]) + 1] = e
  BY <1>2, <1>4, Appended
<1>6. \A u \in Sims \ {s} : log'[u] = log[u] /\ tr'[u] = tr[u]
  BY <1>3 DEF Squeeze, GameInv, Shape
<1>7. DOMAIN log' = Sims /\ DOMAIN tr' = Sims
  BY <1>3 DEF Squeeze, GameInv, Shape
<1>8. \A u \in Sims : IsSequence(log'[u])
  BY <1>5, <1>6 DEF GameInv, Shape
<1>9. ASSUME NEW u \in Sims, NEW i \in 1..Len(log'[u])
      PROVE  EntryAgrees(u, i)'
  <2>1. CASE u # s
    <3>1. log'[u] = log[u] /\ EntryAgrees(u, i)
      BY <1>6, <1>9, <2>1 DEF GameInv, LogAgrees
    <3>2. QED
      BY <1>1, <3>1, KeepEntry
  <2>2. CASE u = s /\ i = Len(log[s]) + 1
    <3>1. (log[u][i])' = <<tr[s], ChallengeOf(Answer(tr[s]))>>
      BY <1>5, <2>2
    <3>2. (log[u][i][1])' = tr[s] /\ (log[u][i][2])' = ChallengeOf(Answer(tr[s]))
      BY <3>1
    <3>3. QED
      BY <1>1, <3>2 DEF EntryAgrees, ChallengeOf
  <2>3. CASE u = s /\ i # Len(log[s]) + 1
    <3>1. i \in 1..Len(log[s]) /\ log'[s][i] = log[s][i]
      BY <1>5, <1>9, <2>3
    <3>2. EntryAgrees(u, i) /\ log'[u][i] = log[u][i]
      BY <2>3, <3>1 DEF GameInv, LogAgrees
    <3>3. QED
      BY <1>1, <3>2, KeepEntry
  <2>4. QED
    BY <2>1, <2>2, <2>3
<1>10. LogAgrees'
  BY <1>9 DEF LogAgrees
<1>11. QED
  BY <1>1, <1>5, <1>6, <1>7, <1>8, <1>10

(* Steps that append to no log keep what the logs say. *)
LEMMA KeepLogs ==
    ASSUME GameInv, Grows, UNCHANGED <<log, skip, plan>>
    PROVE  LogAgrees' /\ LogPlanned'
<1>1. ASSUME NEW s \in Sims, NEW i \in 1..Len(log'[s]) PROVE EntryAgrees(s, i)'
  <2>1. EntryAgrees(s, i)
    BY DEF GameInv, LogAgrees
  <2>2. QED
    BY <2>1, KeepEntry
<1>2. LogAgrees'
  BY <1>1 DEF LogAgrees
<1>3. LogPlanned'
  BY DEF GameInv, LogPlanned, Sampled
<1>4. QED
  BY <1>2, <1>3

-----------------------------------------------------------------------------
LEMMA GameInitInv == GameInit => GameInv
<1> SUFFICES ASSUME GameInit PROVE GameInv
  OBVIOUS
<1>1. \A s \in Sims : log[s] = <<>> /\ Len(log[s]) = 0 /\ IsSequence(log[s])
  BY DEF GameInit, IsSequence
<1>2. SeenCoversAsked
  BY DEF GameInit, OracleInit, SeenCoversAsked
<1>3. Shape
  BY <1>1 DEF GameInit, Shape
<1>4. LogLength
  BY <1>1 DEF GameInit, LogLength, States
<1>5. LogAgrees /\ LogPlanned
  BY <1>1 DEF GameInit, LogAgrees, LogPlanned, Sampled
<1>6. Pending /\ Replay /\ SimulatedProofsVerify
  BY DEF GameInit, Pending, Replay, SimulatedProofsVerify
<1>7. QED
  BY <1>2, <1>3, <1>4, <1>5, <1>6 DEF GameInv

LEMMA BeginInv ==
    ASSUME GameInv, NEW s \in Sims, Begin(s)
    PROVE  GameInv'
<1>1. Grows
  BY IdleGrows DEF GameInv, Begin
<1>2. LogAgrees' /\ LogPlanned'
  BY <1>1, KeepLogs DEF Begin
<1>3. Shape' /\ LogLength'
  BY DEF Begin, GameInv, Shape, LogLength, States
<1>4. Pending'
  BY DEF Begin, GameInv, Shape, Pending, Sampled, oracleVars
<1>5. Replay' /\ SimulatedProofsVerify'
  BY DEF Begin, GameInv, Shape, Replay, SimulatedProofsVerify
<1>6. QED
  BY <1>1, <1>2, <1>3, <1>4, <1>5 DEF GameInv, Grows

(* The three squeezing steps of a simulation differ in where they go next. *)
LEMMA SqueezeStepInv ==
    ASSUME GameInv, NEW s \in Sims, Squeeze(s), NEW next \in States,
           pc[s] \in {"equality", "sample", "tail"},
           pc' = [pc EXCEPT ![s] = next],
           skip' = IF pc[s] = "equality" THEN [skip EXCEPT ![s] = @ + 1] ELSE skip,
           pc[s] = "equality" => next \in {"equality", "program"},
           pc[s] = "sample" => next = IF Sampled(s) + 1 = ROUNDS THEN "tail" ELSE "program",
           pc[s] = "tail" => next = "auditing",
           UNCHANGED <<plan, vpos, verdict>>
    PROVE  GameInv'
<1>1. /\ Grows
      /\ DOMAIN log' = Sims /\ DOMAIN tr' = Sims
      /\ \A u \in Sims : IsSequence(log'[u])
      /\ Len(log'[s]) = Len(log[s]) + 1
      /\ \A i \in 1..Len(log[s]) : log'[s][i] = log[s][i]
      /\ log'[s][Len(log[s]) + 1] = <<tr[s], ChallengeOf(Answer(tr[s]))>>
      /\ \A u \in Sims \ {s} : log'[u] = log[u] /\ tr'[u] = tr[u]
      /\ LogAgrees'
  BY Squeezed
<1>2. /\ pc'[s] = next /\ DOMAIN pc' = Sims
      /\ \A u \in Sims \ {s} : pc'[u] = pc[u]
  BY DEF GameInv, Shape
<1>3. /\ skip' \in [Sims -> Nat]
      /\ skip'[s] = IF pc[s] = "equality" THEN skip[s] + 1 ELSE skip[s]
      /\ \A u \in Sims \ {s} : skip'[u] = skip[u]
  BY DEF GameInv, Shape
<1>4. Shape'
  BY <1>1, <1>2, <1>3 DEF GameInv, Shape
<1>5. Len(log[s]) \in Nat /\ skip[s] \in Nat
  BY Appended DEF GameInv, Shape
<1>6. LogLength'
  <2>1. ASSUME NEW u \in Sims, u # s
        PROVE  pc'[u] = pc[u] /\ log'[u] = log[u] /\ skip'[u] = skip[u]
    BY <1>1, <1>2, <1>3, <2>1
  <2>2. /\ pc'[s] \in States
        /\ pc'[s] \notin {"idle", "sample", "done"}
        /\ skip'[s] <= Len(log'[s])
        /\ pc'[s] = "equality" => Len(log'[s]) = skip'[s]
        /\ pc'[s] = "program" => Len(log'[s]) < skip'[s] + ROUNDS
        /\ pc'[s] = "tail" => Len(log'[s]) = skip'[s] + ROUNDS
        /\ pc'[s] = "auditing" => Len(log'[s]) = skip'[s] + ROUNDS + 1
    <3>1. CASE pc[s] = "equality"
      BY <1>1, <1>2, <1>3, <1>5, <3>1 DEF GameInv, LogLength, States
    <3>2. CASE pc[s] = "sample"
      <4>1. Len(log[s]) < skip[s] + ROUNDS /\ skip[s] <= Len(log[s])
        BY <3>2 DEF GameInv, LogLength
      <4>2. CASE Sampled(s) + 1 = ROUNDS
        BY <1>1, <1>2, <1>3, <1>5, <3>2, <4>1, <4>2 DEF Sampled
      <4>3. CASE Sampled(s) + 1 # ROUNDS
        BY <1>1, <1>2, <1>3, <1>5, <3>2, <4>1, <4>3 DEF Sampled
      <4>4. QED
        BY <4>2, <4>3
    <3>3. CASE pc[s] = "tail"
      BY <1>1, <1>2, <1>3, <1>5, <3>3 DEF GameInv, LogLength, States
    <3>4. QED
      BY <3>1, <3>2, <3>3
  <2>3. QED
    BY <2>1, <2>2 DEF GameInv, LogLength
<1>7. Pending'
  <2> SUFFICES ASSUME NEW u \in Sims, pc'[u] = "sample"
               PROVE  tr'[u] \in DOMAIN table' /\ ChallengeOf(table'[tr'[u]]) = plan'[u][Sampled(u)' + 1]
    BY DEF Pending
  <2>1. u # s
    BY <1>2
  <2>2. QED
    BY <1>1, <1>2, <1>3, <2>1, KeepPending DEF GameInv
<1>8. LogPlanned'
  <2> SUFFICES ASSUME NEW u \in Sims, NEW i \in 1..ROUNDS, Sampled(u)' >= i
               PROVE  log'[u][skip'[u] + i][2] = plan'[u][i]
    BY DEF LogPlanned
  <2>1. CASE u # s
    <3>1. log'[u] = log[u] /\ skip'[u] = skip[u] /\ Sampled(u)' = Sampled(u)
      BY <1>1, <1>3, <2>1 DEF Sampled
    <3>2. QED
      BY <3>1 DEF GameInv, LogPlanned
  <2>2. CASE u = s
    <3>1. Len(log'[s]) - skip'[s] >= i
      BY <2>2 DEF Sampled
    <3>2. pc[s] # "equality" /\ skip'[s] = skip[s]
      BY <1>1, <1>3, <1>5, <3>1 DEF GameInv, LogLength
    <3>3. CASE Len(log[s]) >= skip[s] + i
      <4>1. skip[s] + i \in 1..Len(log[s])
        BY <1>5, <3>3
      <4>2. log'[s][skip'[s] + i] = log[s][skip[s] + i]
        BY <1>1, <3>2, <4>1
      <4>3. Sampled(s) >= i
        BY <1>5, <3>3 DEF Sampled
      <4>4. QED
        BY <2>2, <4>2, <4>3 DEF GameInv, LogPlanned
    <3>4. CASE ~(Len(log[s]) >= skip[s] + i)
      <4>1. Len(log[s]) + 1 = skip[s] + i
        BY <1>1, <1>5, <3>1, <3>2, <3>4
      <4>2. pc[s] = "sample"
        BY <1>5, <3>2, <4>1 DEF GameInv, LogLength
      <4>3. Sampled(s) + 1 = i
        BY <1>5, <4>1 DEF Sampled
      <4>4. tr[s] \in DOMAIN table /\ ChallengeOf(table[tr[s]]) = plan[s][i]
        BY <4>2, <4>3 DEF GameInv, Pending
      <4>5. log'[s][skip'[s] + i][2] = ChallengeOf(Answer(tr[s]))
        BY <1>1, <3>2, <4>1
      <4>6. QED
        BY <2>2, <4>4, <4>5 DEF Answer
    <3>5. QED
      BY <3>3, <3>4
  <2>3. QED
    BY <2>1, <2>2
<1>9. Replay' /\ SimulatedProofsVerify'
  <2>1. ASSUME NEW u \in Sims
        PROVE  /\ vpos'[u] \in Nat
               /\ pc'[u] # "done" => vpos'[u] = 0 /\ verdict'[u] = "none"
               /\ pc'[u] = "done" /\ verdict'[u] = "none" => vpos'[u] < Len(log'[u])
    <3>1. CASE u = s
      <4>1. vpos[s] \in Nat /\ vpos[s] = 0 /\ verdict[s] = "none"
        BY DEF GameInv, Replay
      <4>2. Len(log'[s]) > 0
        BY <1>1, <1>5
      <4>3. QED
        BY <3>1, <4>1, <4>2
    <3>2. CASE u # s
      BY <1>1, <1>2, <3>2 DEF GameInv, Replay
    <3>3. QED
      BY <3>1, <3>2
  <2>2. QED
    BY <2>1 DEF GameInv, Replay, SimulatedProofsVerify
<1>10. QED
  BY <1>1, <1>4, <1>6, <1>7, <1>8, <1>9 DEF GameInv, Grows

LEMMA SampleInv ==
    ASSUME GameInv, NEW s \in Sims,
           SampleEquality(s) \/ SampleRound(s) \/ SampleTail(s)
    PROVE  GameInv'
<1>1. Squeeze(s) /\ UNCHANGED <<plan, vpos, verdict>>
  BY DEF SampleEquality, SampleRound, SampleTail
<1>2. PICK next \in States :
        /\ pc[s] \in {"equality", "sample", "tail"}
        /\ pc' = [pc EXCEPT ![s] = next]
        /\ skip' = IF pc[s] = "equality" THEN [skip EXCEPT ![s] = @ + 1] ELSE skip
        /\ pc[s] = "equality" => next \in {"equality", "program"}
        /\ pc[s] = "sample" => next = IF Sampled(s) + 1 = ROUNDS THEN "tail" ELSE "program"
        /\ pc[s] = "tail" => next = "auditing"
  <2>1. CASE SampleEquality(s)
    <3>1. CASE ChallengeOf(Answer(tr[s])) = One
      BY <2>1, <3>1 DEF SampleEquality, States
    <3>2. CASE ChallengeOf(Answer(tr[s])) # One
      BY <2>1, <3>2 DEF SampleEquality, States
    <3>3. QED
      BY <3>1, <3>2
  <2>2. CASE SampleRound(s)
    <3>1. CASE Sampled(s) + 1 = ROUNDS
      BY <2>2, <3>1 DEF SampleRound, States
    <3>2. CASE Sampled(s) + 1 # ROUNDS
      BY <2>2, <3>2 DEF SampleRound, States
    <3>3. QED
      BY <3>1, <3>2
  <2>3. CASE SampleTail(s)
    BY <2>3 DEF SampleTail, States
  <2>4. QED
    BY <2>1, <2>2, <2>3
<1>3. QED
  BY <1>1, <1>2, SqueezeStepInv

LEMMA ProgramRoundInv ==
    ASSUME GameInv, NEW s \in Sims, ProgramRound(s)
    PROVE  GameInv'
<1>1. PICK m \in Messages :
        LET p == NextPoint(s, m)
            c == plan[s][Sampled(s) + 1]
        IN  /\ tr' = [tr EXCEPT ![s] = Append(tr[s], m)]
            /\ \/ /\ ProgramFresh(p, Block(p, c))
                  /\ pc' = [pc EXCEPT ![s] = "sample"]
               \/ /\ pc' = [pc EXCEPT ![s] = "collision"]
                  /\ UNCHANGED oracleVars
  BY DEF ProgramRound
<1> DEFINE p == NextPoint(s, m)
           c == plan[s][Sampled(s) + 1]
<1>2. PICK next \in {"sample", "collision"} : pc' = [pc EXCEPT ![s] = next]
  BY <1>1
<1>3. Grows
  <2>1. CASE ProgramFresh(p, Block(p, c))
    BY <2>1, ProgramGrows DEF GameInv
  <2>2. CASE UNCHANGED oracleVars
    BY <2>2, IdleGrows DEF GameInv
  <2>3. QED
    BY <1>1, <2>1, <2>2
<1>4. LogAgrees' /\ LogPlanned'
  BY <1>3, KeepLogs DEF ProgramRound
<1>5. Shape'
  BY <1>1, <1>2 DEF ProgramRound, GameInv, Shape
<1>6. LogLength'
  BY <1>2 DEF ProgramRound, GameInv, Shape, LogLength, States
<1>7. Pending'
  <2> SUFFICES ASSUME NEW u \in Sims, pc'[u] = "sample"
               PROVE  tr'[u] \in DOMAIN table' /\ ChallengeOf(table'[tr'[u]]) = plan'[u][Sampled(u)' + 1]
    BY DEF Pending
  <2>1. CASE u # s
    <3>1. tr'[u] = tr[u] /\ pc[u] = "sample"
      BY <1>1, <1>2, <2>1 DEF GameInv, Shape
    <3>2. QED
      BY <1>3, <3>1, KeepPending DEF GameInv, ProgramRound
  <2>2. CASE u = s
    <3>1. pc'[s] = "sample"
      BY <2>2
    <3>2. DOMAIN pc = Sims /\ DOMAIN tr = Sims
      BY DEF GameInv, Shape
    <3>3. ProgramFresh(p, Block(p, c))
      BY <1>1, <3>1, <3>2
    <3>4. p \in DOMAIN table' /\ table'[p] = Block(p, c)
      BY <3>3, ProgramGrows DEF GameInv
    <3>5. tr'[s] = p
      BY <1>1, <3>2 DEF NextPoint
    <3>6. Sampled(s)' = Sampled(s) /\ plan' = plan
      BY DEF ProgramRound, Sampled
    <3>7. ChallengeOf(Block(p, c)) = c
      BY DEF ChallengeOf, Block
    <3>8. QED
      BY <2>2, <3>4, <3>5, <3>6, <3>7
  <2>3. QED
    BY <2>1, <2>2
<1>8. Replay' /\ SimulatedProofsVerify'
  BY <1>2 DEF ProgramRound, GameInv, Shape, Replay, SimulatedProofsVerify
<1>9. QED
  BY <1>3, <1>4, <1>5, <1>6, <1>7, <1>8 DEF GameInv, Grows

LEMMA AuditInv ==
    ASSUME GameInv, NEW s \in Sims, Audit(s)
    PROVE  GameInv'
<1>1. Grows
  BY IdleGrows DEF GameInv, Audit
<1>2. LogAgrees' /\ LogPlanned'
  BY <1>1, KeepLogs DEF Audit
<1>3. Shape' /\ LogLength'
  BY DEF Audit, GameInv, Shape, LogLength, States
<1>4. Pending'
  BY DEF Audit, GameInv, Shape, Pending, Sampled, oracleVars
<1>5. Len(log[s]) > 0
  BY Appended DEF Audit, GameInv, Shape, LogLength
<1>6. Replay' /\ SimulatedProofsVerify'
  BY <1>5 DEF Audit, GameInv, Shape, Replay, SimulatedProofsVerify
<1>7. QED
  BY <1>1, <1>2, <1>3, <1>4, <1>6 DEF GameInv, Grows

(* The verifier's squeeze agrees with the log, so it goes on or accepts. *)
LEMMA VerifyInv ==
    ASSUME GameInv, NEW s \in Sims, VerifySqueeze(s)
    PROVE  GameInv'
<1> DEFINE entry == log[s][vpos[s] + 1]
<1>1. pc[s] = "done" /\ verdict[s] = "none" /\ Ask(entry[1])
  BY DEF VerifySqueeze
<1>2. Grows
  BY <1>1, AskGrows DEF GameInv
<1>3. LogAgrees' /\ LogPlanned'
  BY <1>2, KeepLogs DEF VerifySqueeze, simVars
<1>4. Shape' /\ LogLength'
  BY DEF VerifySqueeze, simVars, GameInv, Shape, LogLength
<1>5. Pending'
  <2> SUFFICES ASSUME NEW u \in Sims, pc'[u] = "sample"
               PROVE  tr'[u] \in DOMAIN table' /\ ChallengeOf(table'[tr'[u]]) = plan'[u][Sampled(u)' + 1]
    BY DEF Pending
  <2>1. QED
    BY <1>2, KeepPending DEF GameInv, VerifySqueeze, simVars
<1>6. Len(log[s]) \in Nat /\ vpos[s] \in Nat /\ vpos[s] < Len(log[s])
  BY <1>1, Appended DEF GameInv, Shape, Replay
<1>7. ChallengeOf(Answer(entry[1])) = entry[2]
  <2>1. EntryAgrees(s, vpos[s] + 1)
    BY <1>6 DEF GameInv, LogAgrees
  <2>2. QED
    BY <2>1 DEF EntryAgrees
<1>8. verdict' = [verdict EXCEPT ![s] = IF vpos[s] + 1 = Len(log[s]) THEN "accept" ELSE "none"]
  BY <1>7 DEF VerifySqueeze
<1>9. vpos' = [vpos EXCEPT ![s] = vpos[s] + 1] /\ pc' = pc /\ log' = log
  BY DEF VerifySqueeze, simVars
<1>10. Replay'
  <2>1. ASSUME NEW u \in Sims, u # s
        PROVE  vpos'[u] = vpos[u] /\ verdict'[u] = verdict[u]
    BY <1>8, <1>9, <2>1 DEF GameInv, Shape
  <2>2. /\ vpos'[s] = vpos[s] + 1
        /\ verdict'[s] = IF vpos[s] + 1 = Len(log[s]) THEN "accept" ELSE "none"
    BY <1>8, <1>9 DEF GameInv, Shape
  <2>3. vpos'[s] \in Nat /\ (verdict'[s] = "none" => vpos'[s] < Len(log'[s]))
    BY <1>6, <1>9, <2>2
  <2>4. QED
    BY <1>1, <1>9, <2>1, <2>3 DEF GameInv, Replay
<1>11. SimulatedProofsVerify'
  BY <1>8 DEF GameInv, SimulatedProofsVerify, Shape
<1>12. QED
  BY <1>2, <1>3, <1>4, <1>5, <1>10, <1>11 DEF GameInv, Grows

(* A step of nobody in the game, or of nothing at all. *)
LEMMA BystanderInv ==
    ASSUME GameInv, Grows, UNCHANGED <<simVars, vpos, verdict>>
    PROVE  GameInv'
<1>1. LogAgrees' /\ LogPlanned'
  BY KeepLogs DEF simVars
<1>2. Shape' /\ LogLength'
  BY DEF simVars, GameInv, Shape, LogLength
<1>3. Pending'
  <2> SUFFICES ASSUME NEW u \in Sims, pc'[u] = "sample"
               PROVE  tr'[u] \in DOMAIN table' /\ ChallengeOf(table'[tr'[u]]) = plan'[u][Sampled(u)' + 1]
    BY DEF Pending
  <2>1. QED
    BY KeepPending DEF GameInv, simVars
<1>4. Replay' /\ SimulatedProofsVerify'
  BY DEF simVars, GameInv, Replay, SimulatedProofsVerify
<1>5. QED
  BY <1>1, <1>2, <1>3, <1>4 DEF GameInv, Grows

LEMMA GameStepInv ==
    ASSUME GameInv, [GameNext]_gameVars
    PROVE  GameInv'
<1>1. CASE \E s \in Sims : SimNext(s)
  BY <1>1, BeginInv, SampleInv, ProgramRoundInv, AuditInv DEF SimNext
<1>2. CASE \E s \in Sims : VerifySqueeze(s)
  BY <1>2, VerifyInv
<1>3. CASE AskAnything
  <2>1. Grows
    BY <1>3, AskGrows DEF AskAnything, GameInv
  <2>2. QED
    BY <1>3, <2>1, BystanderInv DEF AskAnything
<1>4. CASE UNCHANGED gameVars
  <2>1. Grows
    BY <1>4, IdleGrows DEF gameVars, GameInv
  <2>2. QED
    BY <1>4, <2>1, BystanderInv DEF gameVars
<1>5. QED
  BY <1>1, <1>2, <1>3, <1>4 DEF GameNext

LEMMA GameInvariant == GameSpec => []GameInv
BY GameInitInv, GameStepInv, PTL DEF GameSpec

(* A simulation samples the challenges it planned, in spite of everybody else   *)
(* on the oracle between its two locks (succinct_veil.rs 452-457).                *)
THEOREM SimulationSamplesItsPlan == GameSpec => []ChallengesAsPlanned
<1>1. GameInv => ChallengesAsPlanned
  BY DEF GameInv, ChallengesAsPlanned, Pending, LogPlanned, Answer
<1>2. QED
  BY <1>1, GameInvariant, PTL

(* A simulated proof verifies on the oracle it was made on, however late and    *)
(* whatever was programmed since (blake3_preimage.rs 847-980, succinct_veil.rs      *)
(* 1561-1692).                                                                      *)
THEOREM SimulationsVerify == GameSpec => []SimulatedProofsVerify
<1>1. GameInv => SimulatedProofsVerify
  BY DEF GameInv
<1>2. QED
  BY <1>1, GameInvariant, PTL

(* The parties of the game use the oracle through `answer` and `program_fresh`   *)
(* only, so it answers each of them as one function would (sim_oracle.rs 108-155). *)
THEOREM GameAnswersAreFinal == GameSpec => AnswersNeverChange
<1>1. GameInv /\ [GameNext]_gameVars => [\A p \in asked : Answer(p)' = Answer(p)]_oracleVars
  <2> SUFFICES ASSUME GameInv, [GameNext]_gameVars, oracleVars' # oracleVars
               PROVE  Grows
    BY DEF Grows
  <2>1. ASSUME NEW s \in Sims, SimNext(s) PROVE Grows
    <3>1. CASE Begin(s) \/ Audit(s)
      BY <3>1 DEF Begin, Audit
    <3>2. CASE SampleEquality(s) \/ SampleRound(s) \/ SampleTail(s)
      BY <3>2, Squeezed DEF SampleEquality, SampleRound, SampleTail
    <3>3. CASE ProgramRound(s)
      BY <3>3, ProgramGrows DEF ProgramRound, GameInv
    <3>4. QED
      BY <2>1, <3>1, <3>2, <3>3 DEF SimNext
  <2>2. ASSUME NEW s \in Sims, VerifySqueeze(s) PROVE Grows
    BY <2>2, AskGrows DEF VerifySqueeze, GameInv
  <2>3. CASE AskAnything
    BY <2>3, AskGrows DEF AskAnything, GameInv
  <2>4. QED
    BY <2>1, <2>2, <2>3 DEF GameNext, gameVars
<1>2. QED
  BY <1>1, GameInvariant, PTL DEF GameSpec, AnswersNeverChange

-----------------------------------------------------------------------------
(* What a simulation has programmed: points of its own since its checkpoint, one for     *)
(* every round it has come to.                                                            *)
Owned(s) ==
    /\ own[s] \subseteq DOMAIN table
    /\ IsFiniteSet(own[s])
    /\ own[s] \cap cp[s].points = {}
    /\ Running(s) => cp[s].points \subseteq DOMAIN table
    /\ pc[s] \in {"idle", "equality"} => own[s] = {}
    /\ pc[s] = "program" => Cardinality(own[s]) = Sampled(s)
    /\ pc[s] = "sample" => Cardinality(own[s]) = Sampled(s) + 1
    /\ pc[s] \in {"tail", "auditing", "done"} => Cardinality(own[s]) = ROUNDS
    /\ pc[s] = "done" => cert[s] = own[s]

(* Its transcript, and so every point it programs, begins with its nonce.                 *)
BeginsWithNonce(s) ==
    /\ Running(s) => IsSequence(tr[s]) /\ Len(tr[s]) > 0 /\ tr[s][1] = nonce[s]
    /\ \A p \in own[s] : p[1] = nonce[s]

(* Without overlap one simulation runs at a time, and programs alone.                     *)
Alone(s) ==
    ~shared /\ Running(s) =>
        /\ \A u \in Sims \ {s} : ~Running(u)
        /\ PointsSince(cp[s]) \subseteq own[s]

OwnInv ==
    /\ IsFiniteSet(DOMAIN table)
    /\ DOMAIN own = Sims /\ DOMAIN cert = Sims /\ DOMAIN cp = Sims
    /\ \A s \in Sims : Owned(s) /\ BeginsWithNonce(s) /\ Alone(s)

LEMMA OwnInit == GameInit => OwnInv
<1>. SUFFICES ASSUME GameInit PROVE OwnInv
  OBVIOUS
<1>1. IsFiniteSet(DOMAIN table) /\ DOMAIN table = {} /\ IsFiniteSet({})
  BY FS_EmptySet DEF GameInit, OracleInit
<1>2. \A s \in Sims : pc[s] = "idle" /\ own[s] = {}
  BY DEF GameInit
<1>. QED
  BY <1>1, <1>2 DEF GameInit, OwnInv, Owned, BeginsWithNonce, Alone, Running

(* Who does nothing keeps what it has, while the oracle grows and nobody programs beside it. *)
LEMMA OwnKept ==
    ASSUME OwnInv, NEW s \in Sims, DOMAIN table \subseteq DOMAIN table',
           pc'[s] = pc[s], own'[s] = own[s], cp'[s] = cp[s], cert'[s] = cert[s],
           log'[s] = log[s], skip'[s] = skip[s], tr'[s] = tr[s], nonce' = nonce,
           shared' = shared
    PROVE  Owned(s)' /\ BeginsWithNonce(s)'
BY DEF OwnInv, Owned, BeginsWithNonce, Running, Sampled

(* A step of s leaves every other simulation as it was.                                    *)
LEMMA OwnMove ==
    ASSUME GameInv, OwnInv, NEW s \in Sims, SimNext(s)
    PROVE  /\ MayMove(s) /\ shared' = shared /\ nonce' = nonce
           /\ DOMAIN table \subseteq DOMAIN table'
           /\ \A u \in Sims \ {s} :
                /\ pc'[u] = pc[u] /\ own'[u] = own[u] /\ cp'[u] = cp[u] /\ cert'[u] = cert[u]
                /\ log'[u] = log[u] /\ skip'[u] = skip[u] /\ tr'[u] = tr[u]
<1>. DOMAIN pc = Sims /\ DOMAIN tr = Sims /\ DOMAIN log = Sims /\ DOMAIN skip = Sims
     /\ DOMAIN own = Sims /\ DOMAIN cp = Sims /\ DOMAIN cert = Sims
  BY DEF GameInv, Shape, OwnInv
<1>1. CASE Begin(s)
  BY <1>1 DEF Begin, oracleVars
<1>2. CASE SampleEquality(s) \/ SampleRound(s) \/ SampleTail(s)
  <2>1. \A u \in Sims \ {s} : log'[u] = log[u] /\ tr'[u] = tr[u]
    BY <1>2, Squeezed DEF SampleEquality, SampleRound, SampleTail
  <2>2. table' = table
    BY <1>2 DEF SampleEquality, SampleRound, SampleTail, Squeeze, Ask
  <2>3. /\ MayMove(s) /\ UNCHANGED <<shared, nonce, own, cp, cert>>
        /\ \A u \in Sims \ {s} : pc'[u] = pc[u] /\ skip'[u] = skip[u]
    <3>1. CASE SampleEquality(s)
      BY <3>1 DEF SampleEquality
    <3>2. CASE SampleRound(s)
      BY <3>2 DEF SampleRound
    <3>3. CASE SampleTail(s)
      BY <3>3 DEF SampleTail
    <3>. QED
      BY <1>2, <3>1, <3>2, <3>3
  <2>. QED
    BY <2>1, <2>2, <2>3
<1>3. CASE ProgramRound(s)
  <2>1. DOMAIN table \subseteq DOMAIN table'
    BY <1>3, ProgramGrows DEF ProgramRound, ProgramFresh, Program, oracleVars
  <2>2. /\ MayMove(s) /\ UNCHANGED <<shared, nonce, cp, cert, log, skip>>
        /\ \A u \in Sims \ {s} : pc'[u] = pc[u] /\ tr'[u] = tr[u] /\ own'[u] = own[u]
    BY <1>3 DEF ProgramRound
  <2>. QED
    BY <2>1, <2>2
<1>4. CASE Audit(s)
  BY <1>4 DEF Audit, oracleVars
<1>. QED
  BY <1>1, <1>2, <1>3, <1>4 DEF SimNext

(* What is left to show of a step of s: its own part, and the table it leaves.              *)
LEMMA OwnStep ==
    ASSUME GameInv, OwnInv, NEW s \in Sims, SimNext(s),
           IsFiniteSet(DOMAIN table'),
           DOMAIN own' = Sims, DOMAIN cert' = Sims, DOMAIN cp' = Sims,
           Owned(s)', BeginsWithNonce(s)',
           ~shared => PointsSince(cp[s])' \subseteq own'[s]
    PROVE  OwnInv'
<1>1. \A u \in Sims \ {s} : Owned(u)' /\ BeginsWithNonce(u)'
  BY OwnMove, OwnKept
<1>2. ASSUME NEW u \in Sims PROVE Alone(u)'
  <2>. SUFFICES ASSUME ~shared, Running(u)' PROVE Alone(u)'
    BY OwnMove DEF Alone
  <2>1. \A w \in Sims \ {s} : ~Running(w) /\ ~Running(w)'
    BY OwnMove DEF MayMove, Running
  <2>2. u = s
    BY <2>1
  <2>. QED
    BY <2>1, <2>2 DEF Alone
<1>. QED
  BY <1>1, <1>2 DEF OwnInv

LEMMA OwnBegin == ASSUME GameInv, OwnInv, NEW s \in Sims, Begin(s) PROVE OwnInv'
<1>1. own' = own /\ cert' = cert /\ table' = table /\ nonce' = nonce /\ pc[s] = "idle"
  BY DEF Begin, oracleVars
<1>2. pc'[s] = "equality" /\ tr'[s] = <<nonce[s]>> /\ cp'[s] = Checkpoint /\ DOMAIN cp' = Sims
  BY DEF Begin, GameInv, Shape, OwnInv, Bound
<1>3. own[s] = {} /\ cp'[s].points = DOMAIN table
  BY <1>1, <1>2 DEF OwnInv, Owned, Checkpoint, Running
<1>4. Owned(s)'
  BY <1>1, <1>2, <1>3 DEF OwnInv, Owned, Running
<1>5. BeginsWithNonce(s)'
  <2>1. <<nonce[s]>> \in Seq({nonce[s]}) /\ Len(<<nonce[s]>>) = 1 /\ <<nonce[s]>>[1] = nonce[s]
    OBVIOUS
  <2>2. IsSequence(tr'[s])
    BY <1>2, <2>1 DEF IsSequence
  <2>. QED
    BY <1>1, <1>2, <1>3, <2>1, <2>2 DEF BeginsWithNonce, IsSequence
<1>6. PointsSince(cp[s])' = {}
  BY <1>1, <1>3 DEF PointsSince
<1>. QED
  BY <1>1, <1>2, <1>4, <1>5, <1>6, OwnStep DEF OwnInv, SimNext

LEMMA OwnSample ==
    ASSUME GameInv, OwnInv, NEW s \in Sims,
           SampleEquality(s) \/ SampleRound(s) \/ SampleTail(s)
    PROVE  OwnInv'
<1>1. /\ Squeeze(s) /\ UNCHANGED <<own, cert, cp, nonce, shared>>
      /\ pc[s] \in {"equality", "sample", "tail"}
  BY DEF SampleEquality, SampleRound, SampleTail
<1>2. table' = table
  BY <1>1 DEF Squeeze, Ask
<1>3. Len(log'[s]) = Len(log[s]) + 1
  BY <1>1, Squeezed
<1>4. /\ pc[s] = "equality" => pc'[s] \in {"equality", "program"} /\ skip'[s] = skip[s] + 1
      /\ pc[s] = "sample" => /\ pc'[s] = IF Sampled(s) + 1 = ROUNDS THEN "tail" ELSE "program"
                             /\ skip' = skip
      /\ pc[s] = "tail" => pc'[s] = "auditing" /\ skip' = skip
  BY DEF SampleEquality, SampleRound, SampleTail, GameInv, Shape
<1>5. Len(log[s]) \in Nat /\ skip[s] \in Nat
  BY Appended DEF GameInv, Shape
<1>6. Owned(s)'
  <2>1. CASE pc[s] = "equality"
    <3>1. Len(log[s]) = skip[s] /\ own[s] = {} /\ Cardinality(own[s]) = 0
      BY <2>1, FS_EmptySet DEF GameInv, LogLength, OwnInv, Owned, Running
    <3>2. Len(log'[s]) - skip'[s] = 0
      BY <1>3, <1>4, <1>5, <2>1, <3>1
    <3>. QED
      BY <1>1, <1>2, <1>4, <2>1, <3>1, <3>2 DEF OwnInv, Owned, Sampled, Running
  <2>2. CASE pc[s] = "sample"
    <3>1. Cardinality(own[s]) = Sampled(s) + 1
      BY <2>2 DEF OwnInv, Owned, Running
    <3>2. Len(log'[s]) - skip'[s] = Sampled(s) + 1
      BY <1>3, <1>4, <1>5, <2>2 DEF Sampled
    <3>. QED
      BY <1>1, <1>2, <1>4, <2>2, <3>1, <3>2 DEF OwnInv, Owned, Sampled, Running
  <2>3. CASE pc[s] = "tail"
    BY <1>1, <1>2, <1>4, <2>3 DEF OwnInv, Owned, Running
  <2>. QED
    BY <1>1, <2>1, <2>2, <2>3
<1>7. BeginsWithNonce(s)'
  <2>1. IsSequence(tr[s]) /\ Len(tr[s]) > 0 /\ tr[s][1] = nonce[s]
    BY <1>1 DEF OwnInv, BeginsWithNonce, Running
  <2>2. tr'[s] = Append(tr[s], ChallengeOf(Answer(tr[s])))
    BY <1>1 DEF Squeeze, GameInv, Shape
  <2>3. IsSequence(tr'[s]) /\ Len(tr'[s]) > 0 /\ tr'[s][1] = nonce[s]
    BY <2>1, <2>2, Appended
  <2>. QED
    BY <1>1, <2>3 DEF OwnInv, BeginsWithNonce, IsSequence
<1>8. ~shared => PointsSince(cp[s])' \subseteq own'[s]
  BY <1>1, <1>2 DEF OwnInv, Alone, Running, PointsSince
<1>. QED
  BY <1>1, <1>2, <1>6, <1>7, <1>8, OwnStep DEF OwnInv, SimNext

LEMMA OwnProgram == ASSUME GameInv, OwnInv, NEW s \in Sims, ProgramRound(s) PROVE OwnInv'
<1>1. PICK m \in Messages :
        LET p == NextPoint(s, m)
            c == plan[s][Sampled(s) + 1]
        IN  /\ tr' = [tr EXCEPT ![s] = Append(tr[s], m)]
            /\ \/ /\ ProgramFresh(p, Block(p, c))
                  /\ own' = [own EXCEPT ![s] = @ \cup {p}]
                  /\ pc' = [pc EXCEPT ![s] = "sample"]
               \/ /\ pc' = [pc EXCEPT ![s] = "collision"]
                  /\ UNCHANGED <<oracleVars, own>>
  BY DEF ProgramRound
<1>. DEFINE p == NextPoint(s, m)
            c == plan[s][Sampled(s) + 1]
<1>2. /\ pc[s] = "program" /\ UNCHANGED <<cert, cp, nonce, shared, log, skip>>
      /\ DOMAIN pc = Sims /\ DOMAIN tr = Sims /\ DOMAIN own = Sims /\ Sampled(s)' = Sampled(s)
  BY DEF ProgramRound, GameInv, Shape, OwnInv, Sampled
<1>3. IsSequence(tr[s]) /\ Len(tr[s]) > 0 /\ tr[s][1] = nonce[s]
  BY <1>2 DEF OwnInv, BeginsWithNonce, Running
<1>4. tr'[s] = p /\ IsSequence(p) /\ Len(p) > 0 /\ p[1] = nonce[s]
  BY <1>1, <1>2, <1>3, Appended DEF NextPoint
<1>5. CASE /\ ProgramFresh(p, Block(p, c)) /\ own' = [own EXCEPT ![s] = @ \cup {p}]
           /\ pc' = [pc EXCEPT ![s] = "sample"]
  <2>1. DOMAIN table' = DOMAIN table \cup {p} /\ p \notin DOMAIN table
    BY <1>5 DEF ProgramFresh, Program, Fresh
  <2>2. own'[s] = own[s] \cup {p} /\ pc'[s] = "sample" /\ DOMAIN own' = Sims
    BY <1>2, <1>5
  <2>3. IsFiniteSet(DOMAIN table')
    BY <2>1, FS_AddElement DEF OwnInv
  <2>4. /\ own[s] \subseteq DOMAIN table /\ IsFiniteSet(own[s])
        /\ Cardinality(own[s]) = Sampled(s)
    BY <1>2 DEF OwnInv, Owned, Running
  <2>5. IsFiniteSet(own'[s]) /\ Cardinality(own'[s]) = Sampled(s) + 1
    BY <2>1, <2>2, <2>4, FS_AddElement
  <2>6. ~shared => PointsSince(cp[s])' \subseteq own'[s]
    BY <1>2, <2>1, <2>2 DEF OwnInv, Alone, Running, PointsSince
  <2>7. CASE p \notin cp[s].points
    <3>1. Owned(s)'
      BY <1>2, <2>1, <2>2, <2>4, <2>5, <2>7 DEF OwnInv, Owned, Running
    <3>2. BeginsWithNonce(s)'
      BY <1>2, <1>4, <2>2 DEF OwnInv, BeginsWithNonce, IsSequence
    <3>. QED
      BY <1>2, <2>2, <2>3, <2>6, <3>1, <3>2, OwnStep DEF OwnInv, SimNext
  <2>8. cp[s].points \subseteq DOMAIN table
    BY <1>2 DEF OwnInv, Owned, Running
  <2>. QED
    BY <2>1, <2>7, <2>8
<1>6. CASE pc' = [pc EXCEPT ![s] = "collision"] /\ UNCHANGED <<oracleVars, own>>
  <2>1. table' = table /\ pc'[s] = "collision"
    BY <1>2, <1>6 DEF oracleVars
  <2>2. Owned(s)'
    BY <1>2, <1>6, <2>1 DEF OwnInv, Owned, Running
  <2>3. BeginsWithNonce(s)'
    BY <1>2, <1>6, <2>1 DEF OwnInv, BeginsWithNonce, Running
  <2>4. ~shared => PointsSince(cp[s])' \subseteq own'[s]
    BY <1>2, <1>6, <2>1 DEF OwnInv, Alone, Running, PointsSince
  <2>. QED
    BY <1>2, <1>6, <2>1, <2>2, <2>3, <2>4, OwnStep DEF OwnInv, SimNext
<1>. QED
  BY <1>1, <1>5, <1>6

LEMMA OwnAudit == ASSUME GameInv, OwnInv, NEW s \in Sims, Audit(s) PROVE OwnInv'
<1>1. /\ pc[s] = "auditing" /\ table' = table /\ UNCHANGED <<own, cp, nonce, shared, tr, log, skip>>
      /\ cert' = [cert EXCEPT ![s] = PointsSince(cp[s])]
      /\ pc'[s] = "audit" \/ (pc'[s] = "done" /\ AuditIsValid(s))
  <2>1. DOMAIN pc = Sims
    BY DEF GameInv, Shape
  <2>2. pc'[s] = IF AuditIsValid(s) /\ AnswersSince(cp[s]) <= MAX_ORACLE_QUERIES
                 THEN "done" ELSE "audit"
    BY <2>1 DEF Audit
  <2>. QED
    BY <2>2 DEF Audit, oracleVars
<1>2. own[s] \subseteq PointsSince(cp[s]) /\ Cardinality(own[s]) = ROUNDS
  BY <1>1 DEF OwnInv, Owned, PointsSince, Running
<1>3. pc'[s] = "done" => PointsSince(cp[s]) = own[s]
  <2>1. IsFiniteSet(PointsSince(cp[s]))
    BY FS_Subset DEF OwnInv, PointsSince
  <2>2. AuditIsValid(s) => Cardinality(PointsSince(cp[s])) = Cardinality(own[s])
    BY <1>2 DEF AuditIsValid
  <2>. QED
    BY <1>1, <1>2, <2>1, <2>2, FS_Subset
<1>4. cert'[s] = PointsSince(cp[s]) /\ DOMAIN cert' = Sims
  BY <1>1 DEF OwnInv
<1>5. Owned(s)'
  BY <1>1, <1>2, <1>3, <1>4 DEF OwnInv, Owned, Running
<1>6. BeginsWithNonce(s)'
  BY <1>1 DEF OwnInv, BeginsWithNonce, Running
<1>7. ~shared => PointsSince(cp[s])' \subseteq own'[s]
  BY <1>1 DEF OwnInv, Alone, Running, PointsSince
<1>. QED
  BY <1>1, <1>4, <1>5, <1>6, <1>7, OwnStep DEF OwnInv, SimNext

LEMMA OwnNext == ASSUME GameInv, OwnInv, [GameNext]_gameVars PROVE OwnInv'
<1>1. CASE \E s \in Sims : SimNext(s)
  BY <1>1, OwnBegin, OwnSample, OwnProgram, OwnAudit DEF SimNext
<1>2. CASE UNCHANGED simVars /\ UNCHANGED table
  BY <1>2 DEF simVars, OwnInv, Owned, BeginsWithNonce, Alone, Running, Sampled, PointsSince
<1>3. (\E s \in Sims : VerifySqueeze(s)) \/ AskAnything => UNCHANGED simVars /\ UNCHANGED table
  BY DEF VerifySqueeze, AskAnything, Ask
<1>4. UNCHANGED gameVars => UNCHANGED simVars /\ UNCHANGED table
  BY DEF gameVars, oracleVars
<1>. QED
  BY <1>1, <1>2, <1>3, <1>4 DEF GameNext

LEMMA OwnInvariant == GameSpec => []OwnInv
BY GameInvariant, OwnInit, OwnNext, PTL DEF GameSpec

(* A certificate counts the points of its own simulation and no others, whoever programs   *)
(* beside it: as many points as rounds leave no room for foreign ones (sim_oracle.rs        *)
(* 205-237).                                                                                *)
THEOREM CertificatesAreOwn == GameSpec => []CertifiedIsOwn
<1>1. GameInv /\ OwnInv => CertifiedIsOwn
  BY DEF OwnInv, Owned, CertifiedIsOwn, Running
<1>. QED
  BY <1>1, GameInvariant, OwnInvariant, PTL

(* Nor is a simulation that ran alone failed by the points of others: all that is new in   *)
(* the table is its own and begins with its nonce (blake3_preimage.rs 957-966).             *)
THEOREM AuditsAlonePass == GameSpec => []ValidAlone
<1>1. OwnInv => ValidAlone
  <2>. SUFFICES ASSUME OwnInv, ~shared, NEW s \in Sims, pc[s] = "auditing"
                PROVE  AuditIsValid(s)
    BY DEF ValidAlone
  <2>1. PointsSince(cp[s]) \subseteq own[s]
    BY DEF OwnInv, Alone, Running
  <2>2. own[s] \subseteq PointsSince(cp[s]) /\ Cardinality(own[s]) = ROUNDS
    BY DEF OwnInv, Owned, PointsSince, Running
  <2>3. PointsSince(cp[s]) = own[s]
    BY <2>1, <2>2
  <2>. QED
    BY <2>2, <2>3 DEF OwnInv, BeginsWithNonce, AuditIsValid
<1>. QED
  BY <1>1, OwnInvariant, PTL
=============================================================================
