CONSTANTS
    c1 = c1
    c2 = c2
    r1 = r1
    Client = {c1, c2}
    Region = {r1}
    NoClient = NoClient
    NoRegion = NoRegion
    Pty = {r1}
    Native = {r1}
    Printing = {r1}
    MailCap = 1
SPECIFICATION FairSpec
PROPERTIES LoopReturns RegionReclaimed
CHECK_DEADLOCK FALSE
