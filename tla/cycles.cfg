SPECIFICATION Spec
CONSTANTS
    r = r p = p q = q n = n m = m
    Node = {r, p, q, n, m}
    Absent = Absent
    Top = r
    Meta = {0, 1}
    FirstKids <- Chain
    FirstMeta = 0
    Kinds = {"move", "relabel"}
    MaxChanges = 3
    MaxLoads = 1
    Concurrent = FALSE
    MayStop = FALSE
    OutCap = 1
CHECK_DEADLOCK FALSE
INVARIANTS NoCycles
