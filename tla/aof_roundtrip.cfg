CONSTANTS
    k1 = k1  k2 = k2  a = a  b = b
    NIL = NIL  WRONGTYPE = WRONGTYPE
    Keys = {k1, k2}
    Vals = {a, b}
    NumDBs = 2
    IntBits = 2
    Clients = {c1}
    CmdLines <- AllRoundTripLines
    QueueSize = 1
    MaxCmds = 5
    MaxWriteFails = 0
    MaxRestarts = 0
SPECIFICATION Spec
INVARIANT ReplayMatchesMemory
INVARIANT NoEmptyContainer
