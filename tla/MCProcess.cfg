CONSTANTS
    t1 = t1
    t2 = t2
    t3 = t3
    p1 = p1
    p2 = p2
    Thread = {t1, t2, t3}
    Proc = {p1, p2}
    Main = p1
    MaxFrames = 1
    None = None
    Workload <- MCWorkload
SPECIFICATION SfdSpec
CHECK_DEADLOCK FALSE
INVARIANTS
    
    SleeperHears
    GroupExitReaches
    WaiterTold
    SfdReaderTold
 
