CONSTANTS
    Messages <- MCMessages
    Loads <- MCLoads
    Dials = {"ok", "fails", "asks"}
SPECIFICATION Spec
INVARIANTS
    SequenceInOrder
    NothingAfterRestore
PROPERTIES
    StopReturns
    HandleReturns
    ChangesShown
CHECK_DEADLOCK FALSE
