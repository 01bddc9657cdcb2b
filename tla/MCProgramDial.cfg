CONSTANTS
    Messages <- MCMessages
    Loads <- MCLoads
    Dials = {"ok", "fails", "asks"}
SPECIFICATION Spec
PROPERTY DialEnds
CHECK_DEADLOCK FALSE
