SPECIFICATION FairSpec
CONSTANTS
    p1 = p1  p2 = p2  p3 = p3  c1 = c1  c2 = c2  None = None
    Packets = {p1, p2}
    Conns = {c1}
    ConnOf <- MCConnOf
    Dests = {"first", "second"}
    Relays = {"first", "second"}
    Data = {p1}
    Mixed = {}
    QueueCapacity = 1
    AckMode = "delivered"
    DumpAfter = 1
    MaxLives = 1
INVARIANT AckedDelivered
PROPERTIES StopExits WaitEnds QueuedMoves
