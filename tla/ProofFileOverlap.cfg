SPECIFICATION Spec
CONSTANTS
    Writers = {"w1", "w2"}
    Readers = {"r1"}
    CHUNKS <- Sizes
    Overlap = TRUE
    MAX_ATTEMPTS = 1
INVARIANT PathIsWhole
CHECK_DEADLOCK FALSE
