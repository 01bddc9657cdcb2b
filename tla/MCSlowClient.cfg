CONSTANTS
    r1 = r1
    Region = {r1}
    NoRegion = NoRegion
    Torn = Torn
    WriteCap = 3
    MaxScreen = 5
    MaxMoves = 3
    MaxRollback = 1
SPECIFICATION FairSpec
INVARIANT InSyncOrBehind
PROPERTY Repaired
CHECK_DEADLOCK FALSE
