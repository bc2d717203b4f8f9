SPECIFICATION Spec
CONSTANTS
    Ell = 1
    ZcRounds = 1
    LcRounds = 1
    ZPartial = 1
    RingWidth = 1
    ConstPin = TRUE
    FoldSites = 1
    MAX_BLIND_GRIND_TRIALS = 2
    MAX_LIGERITO_GRIND_TRIALS = 2
    MAX_LIGERITO_GRIND_SITES = 2
    MAX_BAD = 2
INVARIANTS Completeness CorruptionCaught BindingOrder MasksPadOnce
PROPERTY Decides
