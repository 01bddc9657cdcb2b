SPECIFICATION Spec
CONSTANTS
    WideColumns = 4
    Columns = 2
    Lines = 1
    Heights <- MCHeights
    Programs <- MCPrograms
    Outputs = 3
    UserSteps = 2
    ServerMax = 2
    ClientMax = 3
    DownCap = 2
    ChunkSize = 1
    SyncMax = 3
CONSTRAINT
    OtherFirst
INVARIANTS
    ScreenMirrored
    NoDoubledRows
    HistoryComplete
PROPERTIES
    ViewPinned
CHECK_DEADLOCK FALSE
