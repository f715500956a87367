CONSTANTS
    p = p
    m = m
    a = a
    b = b
    Packets = {p, m}
    Data = {p}
    Mixed = {m}
    Ids = {a, b}
    Configs <- MCConfigs
    Layouts <- MCLayouts
    Earlier <- MCEarlier
SPECIFICATION Spec
INVARIANTS
    DumpServes
