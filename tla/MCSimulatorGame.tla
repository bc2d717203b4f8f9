-------------------------- MODULE MCSimulatorGame --------------------------
(* Small instances of SimulatorGame: two simulations, a nonce whose first     *)
(* equality point has a one beside one whose has none, one masked message    *)
(* per round.                                                                 *)
EXTENDS SimulatorGame, TLC

NonceSet == {"n1", "n2"}
ChallengeSet == {"zero", "one"}
MessageSet == {"m"}

(* The transcripts a party squeezes: the nonce alone, or with a rejected        *)
(* equality point; then after each masked message and each challenge.            *)
RECURSIVE Paths(_)
Paths(k) ==
    IF k = 0 THEN {<<n, "zero">> : n \in NonceSet} \cup {<<n, "one", "zero">> : n \in NonceSet}
    ELSE {t \o <<m, c>> : t \in Paths(k - 1), m \in MessageSet, c \in ChallengeSet}

Points ==
    {<<n>> : n \in NonceSet} \cup {<<n, "one">> : n \in NonceSet}
        \cup UNION {{Append(t, m) : t \in Paths(k), m \in MessageSet} : k \in 0..(ROUNDS - 1)}
        \cup UNION {Paths(k) : k \in 0..ROUNDS}

Values == ChallengeSet \X Points

(* SHA-256: distinct points get distinct blocks; only n2 squeezes a one first. *)
Digests == [p \in Points |-> <<IF p[1] = "n2" /\ Len(p) = 1 THEN "one" ELSE "zero", p>>]

CONSTANTS s1, s2

(* The other parties ask what a simulation with nonce n1 and challenges zero asks. *)
Guesses ==
    {<<"n1">>, <<"n1", "zero", "m">>, <<"n1", "zero", "m", "zero", "m">>,
     <<"n1", "zero", "m", "zero", "m", "zero">>}

Symmetry == Permutations({s1, s2})
=============================================================================
