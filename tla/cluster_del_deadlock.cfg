CONSTANTS
    n1 = n1  n2 = n2  k1 = k1  k2 = k2  a = a  b = b  c1 = c1  c2 = c2  c3 = c3
    NIL = NIL  WRONGTYPE = WRONGTYPE
    Nodes = {n1, n2}
    Keys = {k1, k2}
    Vals = {a, b}
    NumDBs = 1
    IntBits = 2
    Clients = {c1}
    Peers <- MCPeers
    Owner <- MCOwner
    Home <- MCHome
    CmdLines <- DelLines
    PoolSize = 1
    MaxCmds = 1
    MaxDialFails = 0
SPECIFICATION Spec
PROPERTY EveryCommandAnswered
