CONSTANTS
    k1 = k1  k2 = k2  a = a  b = b  c1 = c1  c2 = c2  o1 = o1  o2 = o2  o3 = o3
    NIL = NIL  WRONGTYPE = WRONGTYPE
    Keys = {k1, k2}
    Vals = {a, b}
    NumDBs = 1
    IntBits = 2
    Clients = {c1, c2}
    Objs = {o1, o2, o3}
    CmdLines <- RaceLines
    MaxCmds = 2
SYMMETRY ObjSymmetry
SPECIFICATION Spec
INVARIANT LogSerializes
