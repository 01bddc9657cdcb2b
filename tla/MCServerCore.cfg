CONSTANTS
    c1 = c1
    c2 = c2
    r1 = r1
    r2 = r2
    Client = {c1, c2}
    Region = {r1, r2}
    NoClient = NoClient
    NoRegion = NoRegion
    Pty = {r1}
    Native = {r2}
    Printing = {}
    MailCap = 2
SPECIFICATION Spec
SYMMETRY ClientSymmetry
CONSTRAINT FewMessages
INVARIANTS SubscriptionsLive SubscribersAgree OverlaysAgree
CHECK_DEADLOCK FALSE
