CONSTANTS
    a = a
    b = b
    None = None
    Ids = {a, b}
    Inputs <- MCInputs
    AuthEnabled = TRUE
    Relaying = TRUE
    AckMode = "delivered"
    Numbers = 4
    MaxPackets = 4
SPECIFICATION Spec
CHECK_DEADLOCK FALSE
INVARIANTS
    OnlyAuthorized
    IdentityKnown
    AnswersAgree
    NumbersDiffer
