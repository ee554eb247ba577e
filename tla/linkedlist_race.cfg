CONSTANTS
    p1 = p1  p2 = p2  x1 = x1  x2 = x2  x3 = x3
    NilNode = NilNode
    Procs = {p1, p2}
    NodeIds = {x1, x2, x3}
    InitList <- OneNode
    MaxOps = 2
SPECIFICATION Spec
INVARIANT ListWellFormed
