CONSTANTS
    p1 = p1
    p2 = p2
    None = None
    Process = {p1, p2}
    First = p1
    BUF_SIZE = 2
    PTY_BUF_SIZE = 3
    Mode <- MCMode
    Workload <- MCWorkload
SPECIFICATION Spec
CHECK_DEADLOCK FALSE
INVARIANTS
    LinesWhole
    TtyReaderGoesOn
    
