\* Two callers, two keys, two types; safety.
CONSTANTS
    Proc = {p1, p2}
    Key = {k1, k2}
    MType = {1, 2}
    Size = {0, 2}
    QBytes = {1}
    MSGMNB = 2
    MSGMNI = 2
    NoId = NoId
    MaxId = 2
    MaxStamp = 3
SPECIFICATION Spec
SYMMETRY MsgSymmetry
INVARIANTS
    ByteCount
    RemoverIsUnique
 
CHECK_DEADLOCK FALSE
