SPECIFICATION Spec
CONSTANTS
    Writers = {"w1", "w2"}
    Readers = {"r1"}
    CHUNKS <- Sizes
    Overlap = FALSE
    MAX_ATTEMPTS = 2
INVARIANTS PathIsWhole ReadersSeeWhole
PROPERTY OkMeansPublished
CHECK_DEADLOCK FALSE
