SPECIFICATION MatrixSpec
CONSTANTS
    Sizes = {1, 2, 4, 8}
    TrailingZeros <- MCTrailingZeros
    Lanes = 2
    Payload <- MCPayload
    Garbage = Garbage
    Foreign <- MCForeign
    MAX_OPEN = 3
    FREE_DEPTH = 2
    FREE_OPEN = 3
    MAXU = 7
    BLOCK = 3
    HitsOf <- MCHitsOf
INVARIANTS
    WellFormed
    OpensTheSet
    AcceptsOnlyHonest
    LeastHit
PROPERTY
    WrittenOnce
    SearchesEnd
