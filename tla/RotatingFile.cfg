CONSTANTS
    r1 = r1
    r2 = r2
    r3 = r3
    r4 = r4
    r5 = r5
    None = None
    Records = {r1, r2, r3, r4, r5}
    Length <- MCLength
    Earlier <- MCEarlier
    MaxFile = 2
    MaxTotal = 3
    MaxBackups = 2
    Expires = TRUE
    MaxTime = 4
    Clock = {1, 2, 3, 4}
    MaxLives = 2
    MaxFaults = 2
SPECIFICATION Spec
CHECK_DEADLOCK FALSE
INVARIANTS
    Readable
    OneName
    WithinLimits
    LatestKept
