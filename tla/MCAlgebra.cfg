SPECIFICATION Spec
CONSTANTS
    None = None
    SumTable <- MCSumTable
    ProductTable <- MCProductTable
    InverseTable <- MCInverseTable
    ParallelRows = 4
    USIZE_MAX = 63
    LOG_PACKING = 2
    ProfileRate <- MCProfileRate
    Schedule <- MCSchedule
    COPY_CHUNK = 2
    Digest <- MCDigest
    NarrowPairs <- MCNarrowPairs
    WidePairs <- MCWidePairs
    LaneVectors <- MCLaneVectors
    Messages <- MCMessages
    CosetVectors <- MCCosetVectors
    BitRows <- MCBitRows
    CodeShapes <- MCCodeShapes
    CodePairs <- MCCodePairs
    Commits <- MCCommits
    Records <- MCRecords
    ForkScripts <- MCForkScripts
    Layouts <- MCLayouts
    ByteBits = 2
    K_SKIP = 1
    N_SMALL = 1
    N_MEDIUM = 1
    MAX_N_HI = 1
    SMALL_CHAL <- MCSmallChal
    C_S = 1
    D_LOG = 1
    QStarWords <- MCQStarWords
    MFR = 2
    SPARSE_ZEROS = 2
    RowFolds <- MCRowFolds
    Openings <- MCOpenings
    CHUNK = 2
    OMEGA = 2
    Digests <- MCDigests
    Chains <- MCChains
    Paths <- MCPaths
    Permutations <- MCPermutations
    JaggedTables <- MCJaggedTables
    MIN_QUERIES = 1
    Constraints <- MCConstraints
    Dots <- MCDots
INVARIANTS
    KernelsAreTheField
    TransformsEvaluate
    CodesHideAndMultiply
    CommittedIsRecovered
    RandomizersApart
    OpeningsHold
    BlocksAreLinked
    ConstraintsHideAndBind
CHECK_DEADLOCK FALSE
