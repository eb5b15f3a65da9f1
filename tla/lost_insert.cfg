SPECIFICATION Spec
CONSTANTS
    r = r p = p q = q n = n m = m
    Node = {r, p, q, n, m}
    Absent = Absent
    Top = r
    Meta = {0, 1}
    FirstKids <- Loaded
    FirstMeta = 0
    Kinds = {"insert"}
    MaxChanges = 2
    MaxLoads = 1
    Concurrent = TRUE
    MayStop = FALSE
    OutCap = 1
CHECK_DEADLOCK FALSE
PROPERTIES UpdatesChildren
