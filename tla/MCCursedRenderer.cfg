SPECIFICATION MCSpec
CONSTANTS
    EL1Bytes = 0
    ECHBytes = 1
    REPBytes = 2
    InlineBytes = 2
    ICHBytes = 0
    DCHBytes = 0
    EL0Bytes = 1
    HasREP = TRUE
    MinHunk = 3
    Families <- MCFamilies
    Views <- MCViews
    Sizes <- MCSizes
    Changes <- MCChanges
    Resizes = 1
    Synced = TRUE
INVARIANTS Shown ModesGivenBack StylesArrive
CHECK_DEADLOCK FALSE
