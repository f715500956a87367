SPECIFICATION Spec
CONSTANTS
    s1 = s1
    s2 = s2
    f1 = f1
    Conns = {s1, s2, f1}
    Framed = {f1}
    Scripts <- MCScripts
    Given0 = 65534
    Longest = 145
INVARIANTS OnlyUndamaged InStep AnswersRight Recoded
CHECK_DEADLOCK FALSE
