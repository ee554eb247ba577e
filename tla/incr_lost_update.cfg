CONSTANTS
    k1 = k1  k2 = k2  a = a  b = b
    NIL = NIL  WRONGTYPE = WRONGTYPE
    Keys = {k1}
    Vals = {a, b}
    NumDBs = 1
    IntBits = 2
    Clients = {c1, c2}
    CmdLines <- IncrLines
    QueueSize = 1
    MaxCmds = 2
    MaxWriteFails = 0
    MaxRestarts = 0
SPECIFICATION Spec
INVARIANT ReplayMatchesMemory
