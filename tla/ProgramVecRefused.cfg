SPECIFICATION Spec
CONSTANTS
    Point <- FourPoints
    PowPoint = {"stray"}
    Value <- BitPairs
    Hash <- SharedDigests
    MAX_COUNT = 1
    Field = {0, 1}
    Lengths = {1, 3}
    SqueezePoint <- OneAndThree
INVARIANT NothingOnRefusal
