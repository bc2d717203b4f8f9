SPECIFICATION Spec
CONSTANTS
    None = None
    SumTable <- MCSumTable
    ProductTable <- MCProductTable
    InverseTable <- MCInverseTable
    ParallelRows = 4
    ByteBits = 2
    K_SKIP = 2
    N_SMALL = 1
    N_MEDIUM = 2
    MAX_N_HI = 1
    SMALL_CHAL <- MCSmallChal
    C_S <- MCCs
    D_LOG = 2
    QStarWords <- MCQStarWords
    FUSED_LOG = 4
    MAX_TRIES = 2
    Statements <- MCStatements
    QuarticRows <- MCQuarticRows
    WORD_BITS = 4
    MACHINE_BITS = 8
    BM_V = 2
    B3_ROUNDS = 2
    B3_ROTATIONS <- MCB3Rotations
    B3_IV <- MCB3IV
    B3_ROOT <- MCB3Root
    B3_ZK_CONFIG <- MCB3ZkConfig
    N_SCHED = 2
    SHA_ROTATIONS <- MCShaRotations
    SHA256_K <- MCK256
    N_ROUNDS = 2
    ROUND_CONSTANTS <- MCRoundConstants
    N_SUB = 3
    Batches <- MCBatches
    Circuits <- MCCircuits
    Folds <- MCFolds
    TILE_T = 2
    BLOCK_K = 4
    FOLD_CHUNKS = 2
    OBLOCK_MIN_N_LOG = 3
    PAR_ROWS = 32
    MIN_CHUNK_ROWS = 3
    PACKED_BITS = 8
    Linchecks <- MCLinchecks
    LinFolds <- MCLinFolds
INVARIANTS
    SumchecksReduce
    CircuitsCompute
    LincheckReduces
CHECK_DEADLOCK FALSE
