CONSTANTS
    k1 = k1  k2 = k2  a = a  b = b
    NIL = NIL  WRONGTYPE = WRONGTYPE
    Keys = {k1, k2}
    Vals = {a, b}
    NumDBs = 1
    IntBits = 4
    Bytes = {0, 1}
    MaxStrLen = 3
    MaxListLen = 3
    ReadLines <- ReadLinesMC
    WriteLines <- WriteLinesMC
    RandLines <- RandLinesMC
SPECIFICATION QSpec
INVARIANT ListReadsFollowSpec GetRangeFollowsSpec SetReadsFollowSpec
PROPERTY SetRangeFollowsSpec
