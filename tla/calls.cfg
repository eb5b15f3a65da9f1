SPECIFICATION Spec
CONSTANTS
    p = p a = a b = b x = x
    c1 = c1 c2 = c2 w1 = w1 w2 = w2 w3 = w3
    Node = {p, a, b, x}
    Child <- Graph
    Flaky = {b}
    Call = {c1, c2}
    Root <- Roots
    Worker = {w1, w2, w3}
    Owner <- Owners
    QueueCap = 1
    MayCancel = TRUE
CHECK_DEADLOCK FALSE
INVARIANTS TypeOK WaitGroupExact CloseIsLast CompleteOnReturn NeverStuck
PROPERTIES AskedOnce AllEnd Implements
