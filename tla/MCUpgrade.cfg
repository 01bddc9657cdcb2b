CONSTANTS
    r1 = r1
    r2 = r2
    Region = {r1, r2}
    Slow = {r1}
    NoRegion = NoRegion
    NoRequest = NoRequest
    MailCap = 1
    MaxOutput = 1
    MaxTries = 2
    MaxAsked = 1
SPECIFICATION FairSpec
INVARIANTS SnapshotConsistent SingleReader
PROPERTIES RequestsKept UpgradeEnds
CHECK_DEADLOCK FALSE
