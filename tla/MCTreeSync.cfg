CONSTANTS
    c1 = c1
    c2 = c2
    r1 = r1
    r2 = r2
    s1 = s1
    s2 = s2
    p1 = p1
    p2 = p2
    z1 = z1
    NoConn = NoConn
    Conn = {c1, c2}
    Region = {r1, r2}
    Session = {s1, s2}
    Program = {p1, p2}
    Size = {z1}
    Slashed = {s2, p2}
    WireCap = 1
    Setups <- MCSetups
SPECIFICATION FairSpec
PROPERTIES CopyMovesForward Converges
CHECK_DEADLOCK FALSE
