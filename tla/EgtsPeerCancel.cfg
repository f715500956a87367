CONSTANTS
    a = a
    b = b
    None = None
    Ids = {a, b}
    Records <- MCRecords
    AuthEnabled = TRUE
    Numbers = 4
    MaxCalls = 1
SPECIFICATION Spec
INVARIANTS
    InterruptHeld
CHECK_DEADLOCK FALSE
