SPECIFICATION Spec
CONSTANTS
    p1 = p1  p2 = p2  p3 = p3  c1 = c1  c2 = c2  None = None
    Packets = {p1, p2}
    Conns = {c1}
    ConnOf <- MCConnOf
    Dests = {"file", "relay"}
    Relays = {"relay"}
    Data = {p1}
    Mixed = {}
    QueueCapacity = 1
    AckMode = "queued"
    DumpAfter = 1
    MaxLives = 2
INVARIANTS TypeOK NothingLost ExitDumpExact DumpRestorable RefsCounted
PROPERTIES DumpNeverForgets Fulfils
