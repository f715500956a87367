CONSTANTS
    p1 = p1
    p2 = p2
    p3 = p3
    None = None
    Records = {p1, p2, p3}
    Order <- MCOrder
    Length <- MCLength
    Earlier <- MCEarlier
    MaxFile = 4
    MaxTotal = 4
    MaxBackups = 1
    Expires = FALSE
    MaxTime = 6
    Clock = {1}
    MaxLives = 2
    MaxFaults = 1
SPECIFICATION PSpec
CHECK_DEADLOCK FALSE
INVARIANT NoJoinedLine
