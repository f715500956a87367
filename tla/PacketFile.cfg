CONSTANTS
    p1 = p1
    p2 = p2
    p3 = p3
    None = None
    Records = {p1, p2, p3}
    Order <- MCOrder
    Length <- MCLength
    Earlier <- MCEarlier
    MaxFile = 3
    MaxTotal = 3
    MaxBackups = 1
    Expires = FALSE
    MaxTime = 6
    Clock = {1}
    MaxLives = 3
    MaxFaults = 3
SPECIFICATION PFairSpec
CHECK_DEADLOCK FALSE
INVARIANT OneTearPerLife
PROPERTY DueIsWritten
