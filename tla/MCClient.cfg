CONSTANTS
    NoRegion = 0
    MaxRegions = 4
    OutCap = 64
    Starts <- MCStarts
SPECIFICATION Spec
INVARIANTS
    VisibleServed
    VisibleIsChosen
    SessionCreatedOnce
PROPERTY
    RequestsEnd
CHECK_DEADLOCK FALSE
