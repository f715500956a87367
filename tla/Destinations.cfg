SPECIFICATION FairSpec
CONSTANTS
    a = a
    b = b
    m1 = m1
    m2 = m2
    None = None
    Messages = {m1, m2}
    Room = 3
    Ids = {a, b}
    Records <- MCRecords
    AuthEnabled = TRUE
    Numbers = 4
    MaxCalls = 3
INVARIANTS
    RabbitQuiet
    StdoutUndisturbed
    Confirmed
    NothingOwed
    Admitted
PROPERTIES
    Fulfils
    CallEnds
CHECK_DEADLOCK FALSE
