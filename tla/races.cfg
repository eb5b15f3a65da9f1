SPECIFICATION Spec
CONSTANTS
    r = r p = p q = q n = n m = m
    Node = {r, p, q, n, m}
    Absent = Absent
    Top = r
    Meta = {0, 1}
    FirstKids <- Loaded
    FirstMeta = 0
    Kinds = {"insert", "relabel", "remove", "move", "fail"}
    MaxChanges = 2
    MaxLoads = 2
    Concurrent = TRUE
    MayStop = TRUE
    OutCap = 1
SYMMETRY Symmetry
CHECK_DEADLOCK FALSE
INVARIANTS TypeOK NeverStale NoPanic StreamComplete Covered
