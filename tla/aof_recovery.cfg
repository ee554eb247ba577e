CONSTANTS
    k1 = k1  k2 = k2  a = a  b = b
    NIL = NIL  WRONGTYPE = WRONGTYPE
    Keys = {k1}
    Vals = {a, b}
    NumDBs = 1
    IntBits = 2
    Clients = {c1}
    CmdLines <- RoundTripLines
    QueueSize = 1
    MaxCmds = 4
    MaxWriteFails = 0
    MaxRestarts = 2
SPECIFICATION Spec
INVARIANT ReplayMatchesMemory
PROPERTY AtomicLogSpec
