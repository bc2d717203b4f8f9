CONSTANTS
    Threads = {t1, t2}
    MAX_HELD = 1
    Small = 1
    Large = 2
    NSmall = 1
    NLarge = 1
    MAX_POOLED = 3
SYMMETRY Symmetry
SPECIFICATION Spec
INVARIANTS LengthsFit
PROPERTIES LargeBuffersSurvive PrewarmServesProve
