------------------------------ MODULE Ligerito ------------------------------
(***************************************************************************)
(* One Ligerito opening (flock-core/src/pcs/ligerito.rs): the prover folds *)
(* the witness level by level, commits to each result and opens the level  *)
(* before it at random positions; the verifier walks the same transcript   *)
(* with indices into the flat lists of the proof.                          *)
(*                                                                         *)
(* An element of the proof is its number in its list, the challenge it was *)
(* computed with and whether it is intact; challenges are opaque.  An      *)
(* equation of the verifier holds when its ingredients are intact and were *)
(* computed with the challenges the verifier has drawn.                    *)
(***************************************************************************)
EXTENDS Naturals, Sequences, FiniteSets, SequencesExt

CONSTANTS
    Configs,    \* parameters of openings, as records
    MAX_POS,    \* bound: query positions are drawn from 0..MAX_POS
    MAX_BAD     \* bound: repeated positions and proof-of-work misses

(* The types of a configuration and what the asserts of the prover demand of it. *)
ASSUME ConfigAssumption ==
    /\ {MAX_POS, MAX_BAD} \subseteq Nat
    /\ \A c \in Configs :
        LET levels == Len(c.ks) + 1
        IN  /\ {c.logN, c.k0} \subseteq Nat /\ c.ks \in Seq(Nat) /\ levels >= 2
            /\ \A f \in {"rates", "queries", "grind", "fold", "ood"} : c[f] \in Seq(Nat)
            /\ c.taper \in Seq(BOOLEAN) /\ c.zk \in BOOLEAN
            /\ \A f \in {"rates", "queries", "grind", "fold", "taper", "ood"} : Len(c[f]) = levels
            /\ c.ood[1] = 0
            /\ \A l \in 1..levels : c.queries[l] >= 1
            /\ FoldLeft(LAMBDA a, b : a + b, c.k0, c.ks) <= c.logN

VARIABLES
    cfg,      \* ProverConfig and VerifierConfig of this opening
    phase,    \* "prove", "deliver", "verify", or how it ended
    pos,      \* the operation of its script that the side walking is at
    tr,       \* its transcript: the last squeeze and what was absorbed since
    chal,     \* the last challenge it has drawn
    got,      \* the distinct positions sampled so far in this query phase
    log,      \* the points the random oracle was asked, with the answers
    made,     \* the proof as it was made ...
    sent,     \* ... and as the verifier receives it
    idx,      \* the verifier's tx_idx, ood_idx, fold_nonce_idx, nonce_idx, ...
    claim,    \* t_r is the sum it should be
    quad,     \* running_quad is the polynomial it should be
    ris,      \* number of fold challenges drawn by the verifier
    ctxs      \* level_ctxs and ood_ctxs: dimension and ris_start of each basis

walkVars == <<pos, tr, chal, got, log>>
checkVars == <<idx, claim, quad, ris, ctxs>>
vars == <<cfg, phase, walkVars, made, sent, checkVars>>

NonceLists == {"fold_nonces", "nonces"}
Lists == NonceLists \cup {"start", "tx", "ood", "roots", "opens", "yr"}
Ended == {"accept", "reject", "panic"}

-----------------------------------------------------------------------------
(* Dimensions.  Level 0 is the witness, level l + 1 the result of folding level l. *)
Steps(c) == Len(c.ks)
Lanes(c, l) == (<<c.k0>> \o c.ks)[l + 1]
Dim(c, l) ==
    LET dim[k \in 0..l] == IF k = 0 THEN c.logN ELSE dim[k - 1] - Lanes(c, k - 1) IN dim[l]
BlockLen(c, l) == 2 ^ (Dim(c, l + 1) + c.rates[l + 1])
CeilLog2(n) == CHOOSE k \in 0..n : 2 ^ k >= n /\ \A j \in 0..(k - 1) : 2 ^ j < n
OodUpTo(c, l) ==
    LET upTo[k \in 0..l] == IF k = 0 THEN c.ood[1] ELSE upTo[k - 1] + c.ood[k + 1] IN upTo[l]

(* Length of the folded message that the last level sends. *)
YrLen(c) == 2 ^ Dim(c, Steps(c) + 1)
ASSUME MessageAssumption == \A c \in Configs : YrLen(c) \in Nat \ {0}

(* fold_round_grind_bits: tapered levels grind one bit less in each round. *)
FoldBits(c, l, j) ==
    LET bits == c.fold[l + 1]
    IN  IF ~c.taper[l + 1] THEN bits ELSE IF bits > j THEN bits - j ELSE 0

(* Operations of a script.  An opening is no message of the transcript. *)
Say(list) == [act |-> "say", of |-> list, n |-> 0]
Grind(list, bits) == [act |-> "grind", of |-> list, n |-> bits]
Draw(what, n) == [act |-> "draw", of |-> what, n |-> n]
Queries(l) == [act |-> "queries", of |-> "opens", n |-> l]
Open(l) == [act |-> "open", of |-> "opens", n |-> l]
Check(what) == [act |-> "check", of |-> what, n |-> 0]

-----------------------------------------------------------------------------
(* The prover's walk.  A lane fold is guarded by a proof of work if it has bits. *)
ProverFolds(c, l) == FlattenSeq([j \in 1..Lanes(c, l) |->
    (IF FoldBits(c, l, j - 1) > 0 THEN <<Grind("fold_nonces", FoldBits(c, l, j - 1))>> ELSE <<>>)
    \o <<Draw("fold", 1), Say("tx")>>])

(* Out-of-domain samples that bind a commitment: a point, the value there, an intro. *)
ProverOod(c, l) == FlattenSeq([s \in 1..c.ood[l + 1] |->
    <<Draw("z", Dim(c, l)), Say("ood"), Say("tx"), Draw("beta", 1)>>])

(* The query phase of level l: proof of work, positions, opened rows, intro and glue. *)
ProverQueries(c, l) ==
    <<Grind("nonces", c.grind[l + 1]), Queries(l),
      Draw("alpha", CeilLog2(c.queries[l + 1])), Open(l), Say("tx"), Draw("beta", 1)>>

(* The last level sends the folded message itself. *)
ProverLast(c) ==
    ProverFolds(c, Steps(c)) \o [v \in 1..YrLen(c) |-> Say("yr")]
    \o <<Grind("nonces", c.grind[Steps(c) + 1]), Queries(Steps(c)), Open(Steps(c))>>

ProverScript(c) ==
    <<Say("tx")>>
    \o FlattenSeq([i \in 1..Steps(c) |->
          ProverFolds(c, i - 1) \o <<Say("roots")>> \o ProverOod(c, i) \o ProverQueries(c, i - 1)])
    \o ProverLast(c)

-----------------------------------------------------------------------------
(* Mutant: the verifier does not taper, and asks for a nonce in every round. *)
MutVerifierFolds(c, l) == FlattenSeq([j \in 1..Lanes(c, l) |->
    (IF c.fold[l + 1] > 0 THEN <<Grind("fold_nonces", c.fold[l + 1])>> ELSE <<>>)
    \o <<Draw("fold", 1), Say("tx")>>])

(* The verifier's walk. *)
VerifierFolds(c, l) == FlattenSeq([j \in 1..Lanes(c, l) |->
    (IF FoldBits(c, l, j - 1) > 0 THEN <<Grind("fold_nonces", FoldBits(c, l, j - 1))>> ELSE <<>>)
    \o <<Draw("fold", 1), Say("tx")>>])

VerifierOod(c, l) == FlattenSeq([s \in 1..c.ood[l + 1] |->
    <<Draw("z", Dim(c, l)), Say("ood"), Say("tx"), Draw("beta", 1)>>])

(* The rows are checked before the intro is read: t_r takes the sum they enforce. *)
VerifierQueries(c, l) ==
    <<Grind("nonces", c.grind[l + 1]), Queries(l),
      Draw("alpha", CeilLog2(c.queries[l + 1])), Open(l), Say("tx"), Draw("beta", 1)>>

(* Mutant: the positions of the last level are drawn before yr is observed. *)
MutVerifierLast(c) ==
    VerifierFolds(c, Steps(c)) \o <<Check("counts"), Grind("nonces", c.grind[Steps(c) + 1]), Queries(Steps(c))>>
    \o [v \in 1..YrLen(c) |-> Say("yr")]
    \o <<Draw("alpha", CeilLog2(c.queries[Steps(c) + 1])), Open(Steps(c)), Draw("beta", 1),
         Check("residual")>>

(* yr is bound to the last commitment by alpha and beta, which the prover never draws. *)
VerifierLast(c) ==
    VerifierFolds(c, Steps(c))
    \o <<Check("counts")>> \o [v \in 1..YrLen(c) |-> Say("yr")]
    \o <<Grind("nonces", c.grind[Steps(c) + 1]), Queries(Steps(c)),
         Draw("alpha", CeilLog2(c.queries[Steps(c) + 1])), Open(Steps(c)), Draw("beta", 1),
         Check("residual")>>

VerifierScript(c) ==
    <<Check("shape"), Say("tx")>>
    \o FlattenSeq([i \in 1..Steps(c) |->
          VerifierFolds(c, i - 1) \o <<Say("roots")>> \o VerifierOod(c, i) \o VerifierQueries(c, i - 1)])
    \o VerifierLast(c)

(* TLC works these out once. *)
ProverScripts == [c \in Configs |-> ProverScript(c)]
VerifierScripts == [c \in Configs |-> VerifierScript(c)]

Script == IF phase = "prove" THEN ProverScripts[cfg] ELSE VerifierScripts[cfg]
AtOp(act) == pos <= Len(Script) /\ Script[pos].act = act
Op == Script[pos]

-----------------------------------------------------------------------------
(* Elements: number in the list, challenge at the time, whether intact, and the value *)
(* if it matters: a nonce, or the positions and number of salts of an opening.        *)
Elem(no, val) == [no |-> no, at |-> chal, intact |-> TRUE, val |-> val]
NewElem(list, val) == Elem(Len(made[list]) + 1, val)

(* The label, the target and the initial root. *)
Opening(p) == [at |-> 0, since |-> <<<<"flock-ligerito-basis", p.start[1], p.start[2]>>>>]
Absorbed(t, item) == [t EXCEPT !.since = Append(@, item)]

(* The random oracle: a known point has its answer, a new one may have any. *)
IsKnown(p) == \E k \in DOMAIN log : log[k].point = p
PointId(p) == IF IsKnown(p) THEN CHOOSE k \in DOMAIN log : log[k].point = p ELSE Len(log) + 1
BadSoFar == Cardinality({k \in DOMAIN log : log[k].bad})

Answered(p, a, bad) ==
    IF IsKnown(p) THEN a = log[PointId(p)].answer /\ UNCHANGED log
    ELSE /\ bad => BadSoFar < MAX_BAD
         /\ log' = Append(log, [point |-> p, answer |-> a, bad |-> bad])

(* Squeezed bytes are absorbed again, so what follows depends on this point. *)
After(p) == [at |-> PointId(p), since |-> <<>>]

(* Nonces 0 and 1 stand for the first try and a later one; the least hit is sent. *)
HitSets == {{0}, {1}, {0, 1}}
LeastOf(hits) == CHOOSE n \in hits : \A m \in hits : n <= m

Positions(l) == {v \in 0..MAX_POS : v < BlockLen(cfg, l)}

(* Mutant: no assertion that there are enough positions. *)
MutTooThin(l) == FALSE

(* The assertion of sample_distinct_queries fails. *)
TooThin(l) == cfg.queries[l + 1] > BlockLen(cfg, l)

(* Mutant: the basis is taken to be folded by every challenge of the opening. *)
MutBasis(cols) == [cols |-> cols, start |-> 0]

(* A basis of this dimension is folded by the challenges from here on. *)
Basis(cols) == [cols |-> cols, start |-> ris]

-----------------------------------------------------------------------------
NoChecks ==
    /\ idx = [f \in Lists |-> 0]
    /\ claim = TRUE /\ quad = TRUE
    /\ ris = 0 /\ ctxs = {}

Init ==
    /\ cfg \in Configs
    /\ phase = "prove"
    /\ pos = 1 /\ chal = 0 /\ got = {} /\ log = <<>>
    /\ made = [f \in Lists |-> IF f = "start" THEN <<Elem(1, 0), Elem(2, 0)>> ELSE <<>>]
    /\ sent = made
    /\ tr = Opening(made)
    /\ NoChecks

Advance == pos' = pos + 1
Reject == phase' = "reject" /\ UNCHANGED <<cfg, walkVars, made, sent, checkVars>>

(* A message of the prover: a sumcheck message, a root, an evaluation or a part of yr. *)
ProverSays ==
    /\ phase = "prove" /\ AtOp("say")
    /\ LET e == NewElem(Op.of, 0)
       IN  /\ made' = [made EXCEPT ![Op.of] = Append(@, e)]
           /\ tr' = Absorbed(tr, <<Op.of, e>>)
    /\ Advance
    /\ UNCHANGED <<cfg, phase, chal, got, log, sent, checkVars>>

(* grind_pow: nonce 0 without bits, the least hit with bits; the nonce is absorbed. *)
ProverGrinds(hits) ==
    /\ phase = "prove" /\ AtOp("grind")
    /\ IF Op.n = 0 THEN hits = {0} /\ UNCHANGED log
       ELSE Answered(Absorbed(tr, <<"pow">>), hits, 0 \notin hits)
    /\ LET e == NewElem(Op.of, LeastOf(hits))
       IN  /\ made' = [made EXCEPT ![Op.of] = Append(@, e)]
           /\ tr' = Absorbed(tr, <<Op.of, e>>)
    /\ Advance
    /\ UNCHANGED <<cfg, phase, chal, got, sent, checkVars>>

(* A challenge, on either side.  An empty vector is absorbed, but nothing is drawn.  *)
(* The verifier evaluates running_quad at a fold challenge, and notes the basis of z. *)
DrawChallenge ==
    /\ AtOp("draw")
    /\ LET p == Absorbed(tr, <<"squeeze", Op.of \in {"z", "alpha"}, Op.n>>)
       IN  IF Op.n = 0 THEN tr' = p /\ UNCHANGED <<chal, log>>
           ELSE Answered(p, 0, FALSE) /\ tr' = After(p) /\ chal' = PointId(p)
    /\ IF phase = "verify" /\ Op.of = "fold"
       THEN claim' = quad /\ ris' = ris + 1 ELSE UNCHANGED <<claim, ris>>
    /\ IF phase = "verify" /\ Op.of = "z"
       THEN ctxs' = ctxs \cup {Basis(Op.n)} ELSE UNCHANGED ctxs
    /\ Advance
    /\ UNCHANGED <<cfg, phase, got, made, sent, idx, quad>>

(* sample_distinct_queries, one draw at a time: a position seen before is dropped. *)
SamplePosition(v) ==
    /\ AtOp("queries") /\ ~TooThin(Op.n) /\ v \in Positions(Op.n)
    /\ LET p == Absorbed(tr, <<"squeeze", FALSE, 1>>)
       IN  Answered(p, v, v \in got) /\ tr' = After(p)
    /\ got' = got \cup {v}
    /\ IF Cardinality(got') = cfg.queries[Op.n + 1] THEN Advance ELSE UNCHANGED pos
    /\ UNCHANGED <<cfg, phase, chal, made, sent, checkVars>>

Panic ==
    /\ AtOp("queries") /\ TooThin(Op.n)
    /\ phase' = "panic"
    /\ UNCHANGED <<cfg, walkVars, made, sent, checkVars>>

(* The rows at the positions, and salts if the level is hiding (the initial one only). *)
Salts(l) == IF l = 0 /\ cfg.zk THEN cfg.queries[1] ELSE 0

ProverOpens ==
    /\ phase = "prove" /\ AtOp("open")
    /\ made' = [made EXCEPT !.opens = Append(@, NewElem("opens", [rows |-> got, salts |-> Salts(Op.n)]))]
    /\ got' = {}
    /\ Advance
    /\ UNCHANGED <<cfg, phase, tr, chal, log, sent, checkVars>>

-----------------------------------------------------------------------------
(* What may happen to a proof: an element or a nonce is changed, a list is cut or    *)
(* has one too many, two neighbours change places, salts come where none belong.     *)
Swapped(q, k) == [q EXCEPT ![k] = q[k + 1], ![k + 1] = q[k]]

Places(p, lists) == UNION {{f} \X DOMAIN p[f] : f \in lists}

Altered(p) ==
    LET filled == {f \in Lists \ {"start"} : p[f] # <<>>}
    IN  {[p EXCEPT ![x[1]][x[2]].intact = FALSE] : x \in Places(p, Lists \ NonceLists)}
        \cup {[p EXCEPT ![x[1]][x[2]].val = 1 - @] : x \in Places(p, NonceLists)}
        \cup {[p EXCEPT ![f] = Front(@)] : f \in filled}
        \cup {[p EXCEPT ![f] = Append(@, Last(@))] : f \in filled}
        \cup {[p EXCEPT ![x[1]] = Swapped(@, x[2])] :
                x \in {y \in Places(p, {"tx", "ood", "roots", "yr"}) : y[2] < Len(p[y[1]])}}
        \cup {[p EXCEPT !.opens[k].val.salts = @ + 1] : k \in 1..Steps(cfg)}

(* The proof arrives, as it was made or altered. *)
Deliver ==
    /\ phase = "prove" /\ pos > Len(Script)
    /\ sent' \in {made} \cup Altered(made)
    /\ phase' = "verify"
    /\ pos' = 1 /\ chal' = 0 /\ got' = {} /\ tr' = Opening(sent')
    /\ UNCHANGED <<cfg, log, made, checkVars>>

-----------------------------------------------------------------------------
(* Shape of the recursive part, and the root the commitment was made with. *)
ShapeIsRight ==
    /\ Len(sent.roots) = Steps(cfg) /\ Len(sent.opens) = Steps(cfg) + 1
    /\ \A k \in 2..Steps(cfg) : sent.opens[k].val.salts = 0
    /\ sent.start[2].intact

(* Mutant: nothing is said of surplus values. *)
MutCountsAreRight == Len(sent.yr) = YrLen(cfg)

(* Everything sent was read, and the folded message has the right length. *)
CountsAreRight ==
    /\ \A f \in {"tx", "ood", "fold_nonces"} : idx[f] = Len(sent[f])
    /\ Len(sent.yr) = YrLen(cfg)

CheckShape ==
    /\ AtOp("check") /\ Op.of \in {"shape", "counts"}
    /\ IF IF Op.of = "shape" THEN ShapeIsRight ELSE CountsAreRight
       THEN /\ Advance
            /\ claim' = (claim /\ sent.start[1].intact)
            /\ quad' = (quad /\ sent.start[1].intact)
            /\ UNCHANGED <<cfg, phase, tr, chal, got, log, made, sent, idx, ris, ctxs>>
       ELSE Reject

(* The next element of a list, if there is one, is what the prover computed here. *)
NextIdx(f) == idx[f] + 1
Missing(f) == NextIdx(f) > Len(sent[f])
Right(e, k) == e.intact /\ e.no = k /\ e.at = chal

(* A sumcheck message becomes running_quad or is folded into it; a claimed        *)
(* evaluation enters t_r and the intro that follows; yr enters the last equation. *)
VerifierSays ==
    /\ phase = "verify" /\ AtOp("say")
    /\ IF Missing(Op.of) THEN Reject
       ELSE LET e == sent[Op.of][NextIdx(Op.of)]
                right == Right(e, NextIdx(Op.of))
            IN  /\ tr' = Absorbed(tr, <<Op.of, e>>)
                /\ idx' = [idx EXCEPT ![Op.of] = @ + 1]
                /\ quad' = (quad /\ (Op.of \in {"tx", "ood"} => right))
                /\ claim' = (claim /\ (Op.of \in {"ood", "yr"} => right))
                /\ Advance
                /\ UNCHANGED <<cfg, phase, chal, got, log, made, sent, ris, ctxs>>

(* verify_pow: without bits only nonce 0 will do; the nonce is absorbed. *)
VerifyPow(hits) ==
    /\ phase = "verify" /\ AtOp("grind")
    /\ IF Missing(Op.of) THEN hits = {0} /\ Reject
       ELSE LET e == sent[Op.of][NextIdx(Op.of)]
            IN  /\ IF Op.n = 0 THEN hits = {0} /\ UNCHANGED log
                   ELSE Answered(Absorbed(tr, <<"pow">>), hits, 0 \notin hits)
                /\ tr' = Absorbed(tr, <<Op.of, e>>)
                /\ idx' = [idx EXCEPT ![Op.of] = @ + 1]
                /\ IF e.val \in hits THEN Advance /\ UNCHANGED phase
                   ELSE phase' = "reject" /\ UNCHANGED pos
                /\ UNCHANGED <<cfg, chal, got, made, sent, claim, quad, ris, ctxs>>

(* verify_level_opens_maybe_ro: the rows at these positions lead to the level's root. *)
OpensTo(l) ==
    LET o == sent.opens[l + 1]
        root == IF l = 0 THEN sent.start[2] ELSE sent.roots[l]
    IN  /\ o.intact /\ o.no = l + 1 /\ o.val.rows = got /\ o.val.salts = Salts(l)
        /\ root.intact /\ root.no = IF l = 0 THEN 2 ELSE l

VerifierOpens ==
    /\ phase = "verify" /\ AtOp("open")
    /\ IF OpensTo(Op.n)
       THEN /\ got' = {}
            /\ ctxs' = ctxs \cup {Basis(Dim(cfg, Op.n + 1))}
            /\ Advance
            /\ UNCHANGED <<cfg, phase, tr, chal, log, made, sent, idx, claim, quad, ris>>
       ELSE Reject

(* inner == t_r *)
Residual ==
    /\ AtOp("check") /\ Op.of = "residual"
    /\ phase' = IF claim THEN "accept" ELSE "reject"
    /\ UNCHANGED <<cfg, walkVars, made, sent, checkVars>>

Walking == phase \in {"prove", "verify"}

Next ==
    \/ ProverSays \/ ProverOpens \/ VerifierSays \/ VerifierOpens
    \/ \E hits \in HitSets : ProverGrinds(hits) \/ VerifyPow(hits)
    \/ Walking /\ (DrawChallenge \/ Panic \/ CheckShape \/ Residual)
    \/ Walking /\ \E v \in 0..MAX_POS : SamplePosition(v)
    \/ Deliver

Spec == Init /\ [][Next]_vars /\ WF_vars(Next)

-----------------------------------------------------------------------------
(* What is accepted is what was made, but for three things verify does not check: the *)
(* last sumcheck message and the last nonce, which only decide where the last level   *)
(* is opened, and nonces after the last one.                                          *)
AcceptsOnlyTheMade ==
    phase = "accept" =>
        /\ \A f \in Lists \ {"tx", "nonces"} : sent[f] = made[f]
        /\ Len(sent.tx) = Len(made.tx) /\ Front(sent.tx) = Front(made.tx)
        /\ SubSeq(sent.nonces, 1, Steps(cfg)) = SubSeq(made.nonces, 1, Steps(cfg))

(* What each point of the oracle depends on, and how many elements of a list a       *)
(* transcript depends on.                                                            *)
Past[k \in 0..Len(log)] ==
    IF k = 0 THEN {} ELSE Past[log[k].point.at] \cup ToSet(log[k].point.since)
Depends(t, list) == Cardinality({x \in Past[t.at] \cup ToSet(t.since) : x[1] = list})

(* A level is opened where nobody could know before the next commitment, its          *)
(* out-of-domain values and the nonce were fixed; at the last level, before yr was;   *)
(* and rows are combined with weights drawn after the positions (ligerito.rs 4219).   *)
BindingOrder ==
    /\ phase = "verify" /\ AtOp("queries") =>
        /\ Depends(tr, "nonces") > Op.n
        /\ IF Op.n < Steps(cfg)
           THEN Depends(tr, "roots") > Op.n /\ Depends(tr, "ood") >= OodUpTo(cfg, Op.n + 1)
           ELSE Depends(tr, "yr") = YrLen(cfg)
    /\ phase = "verify" /\ AtOp("draw") /\ Op.of = "alpha" =>
        got # {} /\ (idx.roots = Steps(cfg) /\ idx.nonces > Steps(cfg) => Depends(tr, "yr") = idx.yr)

(* When the residual is evaluated, every basis has been folded by as many challenges  *)
(* as separate its dimension from yr's, and they are the last ones drawn: no slice of *)
(* ris is out of range and none is left over.                                         *)
ResidualFits ==
    phase = "verify" /\ AtOp("check") /\ Op.of = "residual" =>
        \A c \in ctxs : c.cols >= Dim(cfg, Steps(cfg) + 1) /\ c.start + (c.cols - Dim(cfg, Steps(cfg) + 1)) = ris

(* An opening that arrives as it was made is accepted: both walks draw the same       *)
(* challenges, the verifier's indices find each value where the prover put it, and    *)
(* the bases it folds fit the residual.                                               *)
Completeness == (sent = made => phase # "reject") /\ ResidualFits

(* Both walks come to an end, whatever arrives: the sampling of distinct positions    *)
(* stops at an assertion when there are too few of them.                              *)
Decides == <>(phase \in Ended)

-----------------------------------------------------------------------------
(* Four shapes to check: one recursive level with out-of-domain samples, a hiding *)
(* first level and two positions; two recursive levels with tapered fold grinds;  *)
(* a last level that is opened everywhere; one with too few positions.            *)
Wide == [logN |-> 3, k0 |-> 1, ks |-> <<1>>, rates |-> <<1, 1>>, queries |-> <<2, 1>>,
         grind |-> <<0, 1>>, fold |-> <<0, 0>>, taper |-> <<FALSE, FALSE>>,
         ood |-> <<0, 1>>, zk |-> TRUE]
Deep == [logN |-> 4, k0 |-> 2, ks |-> <<1, 1>>, rates |-> <<1, 1, 1>>, queries |-> <<1, 1, 1>>,
         grind |-> <<0, 0, 1>>, fold |-> <<1, 0, 0>>, taper |-> <<TRUE, FALSE, FALSE>>,
         ood |-> <<0, 0, 1>>, zk |-> FALSE]
Full == [logN |-> 2, k0 |-> 1, ks |-> <<1>>, rates |-> <<1, 1>>, queries |-> <<1, 2>>,
         grind |-> <<1, 0>>, fold |-> <<0, 1>>, taper |-> <<FALSE, TRUE>>,
         ood |-> <<0, 0>>, zk |-> FALSE]
Thin == [Full EXCEPT !.queries = <<1, 3>>]

Shapes == {Wide, Deep, Full, Thin}
=============================================================================
