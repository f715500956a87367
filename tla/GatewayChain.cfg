CONSTANTS
    a = a
    b = b
    None = None
    Ids = {a, b}
    Records <- MCRecords
    AuthEnabled = TRUE
    Passwords = {"right", "wrong"}
    RemoteAuth = TRUE
    RemoteRelays = TRUE
    Numbers = 4
    MaxCalls = 3
    MaxPackets = 12
SPECIFICATION ChainSpec
INVARIANTS
    Relayed
    UnderIts
    NeverDenied
    NoMutualWait
CHECK_DEADLOCK FALSE
