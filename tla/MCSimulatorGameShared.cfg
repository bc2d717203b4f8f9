CONSTANTS
    s1 = s1
    s2 = s2
    Sims = {s1, s2}
    Nonces <- NonceSet
    Challenges <- ChallengeSet
    One = "one"
    Messages <- MessageSet
    Suffixes <- Points
    Point <- Points
    PowPoint = {}
    Value <- Values
    Hash <- Digests
    ROUNDS = 2
    MAX_COUNT = 12
    MAX_ORACLE_QUERIES = 9
    AskPoints <- Guesses
    MAX_ASKS = 0
    Modes = {TRUE}
SYMMETRY Symmetry
SPECIFICATION GameSpec
INVARIANTS AuditAttributesOwnWork
CHECK_DEADLOCK FALSE
