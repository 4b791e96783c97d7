CONSTANTS
    t1 = t1
    t2 = t2
    Root = i0
    Ino = {i0, i1, i2, i3}
    a = a
    b = b
    Sorted <- MCSorted
    Task = {t1, t2}
    Table = {x1, x2}
    File = {f1, f2, f3}
    LIMIT = 3
    RIGHTS = 2
    CHUNK = 2
    LEN = 3
    CAP = 2
    None = None
    Workload <- MCWorkload
SPECIFICATION SendSpec
CHECK_DEADLOCK FALSE
INVARIANTS
    NlinkCounts
    NoDangling
    
    
    
    SendReports
