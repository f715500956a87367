SPECIFICATION Spec
CONSTANTS
    p1 = p1  p2 = p2  p3 = p3  c1 = c1  c2 = c2  None = None
    Packets = {p1, p2, p3}
    Conns = {c1, c2}
    ConnOf <- MCConnOf
    Dests = {"relay"}
    Relays = {"relay"}
    Data = {p1, p2, p3}
    Mixed = {}
    QueueCapacity = 2
    AckMode = "queued"
    DumpAfter = 1
    MaxLives = 2
INVARIANTS OrderKept SessionLife CleanExit
