SPECIFICATION MCSpec
CONSTANTS
    WideColumns = 4
    Columns = 3
    Lines = 3
    HistoryMax = 3
    Sizes <- MCSizes
    Families <- MCFamilies
    Steps <- MCSteps
    PrintMax = 6
    Alphabets <- MCAlphabets
    InputMax <- MCInputMax
    ReadMax = 8
    MaxCarry = 5
    StringMax = 2
CHECK_DEADLOCK FALSE
INVARIANTS
    PanicCauses
    ShellLinesKept
    ChunksDoNotMatter
PROPERTIES
    DrawKeepsPairs
    RowsKeepTheirNumber
    UpgradeKeepsScreen
