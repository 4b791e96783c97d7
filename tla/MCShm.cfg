\* A process of two threads and one of one share a segment, then a second one
\* once the first is removed.
CONSTANTS
    p1 = p1
    p2 = p2
    t1 = t1
    t2 = t2
    t3 = t3
    Proc = {p1, p2}
    Thread = {t1, t2, t3}
    ProcOf <- Procs
    Key = {k1}
    Private = private
    Vaddr = {a1, a2}
    MaxId = 2
    NoThread = NoThread
SPECIFICATION Spec
SYMMETRY ShmSymmetry
INVARIANTS
    MappedIffAttached

    
CHECK_DEADLOCK FALSE
