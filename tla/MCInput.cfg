CONSTANTS
    Texts <- MCTexts
    ReadMax = 12
    QueueMax = 1
    MaxTimeouts = 1
    Inputs <- MCInputs
    ChunkMax = 12
SPECIFICATION MCSpec
INVARIANTS
    NothingLost
    InOrder
    PasteLiteral
    AckAfterInput
    CutsDoNotMatter
CHECK_DEADLOCK FALSE
