CONSTANTS
    p1 = p1
    p2 = p2
    p3 = p3
    n1 = n1
    n2 = n2
    n3 = n3
    Proc = {p1, p2, p3}
    Root = p1
    Pid = {n1, n2, n3}
    NoPid = NoPid
    Fd = {3}
    MaxCounter = 2
    MaxKeys = 2
    MaxOps = 4
SPECIFICATION Spec
SYMMETRY Symmetry
INVARIANTS
    TypeOK
    NonceUnique
    OwnerOnly
CHECK_DEADLOCK FALSE
