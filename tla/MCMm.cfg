CONSTANTS
    p1 = p1
    p2 = p2
    t1 = t1
    t2 = t2
    t3 = t3
    sh = sh
    ls = ls
    ldso = ldso
    None = None
    Proc = {p1, p2}
    Main = p1
    Thread = {t1, t2, t3}
    ProcOf <- MCProcOf
    PAGES = 8
    HUGE = 2
    HEAP_BASE = 1
    HEAP_SIZE = 1
    HEAP_MAX = 3
    STACK = 4
    Exe = {sh, ls, ldso}
    Interp <- MCInterp
    CACHE = 2
    Boot = sh
    Top = {2, 5, 8}
    Extent <- MCExtent
    Workload <- MCWorkload
SPECIFICATION Spec
CHECK_DEADLOCK FALSE
INVARIANTS
    HeapUpToTop
    LoadedIsAsked
    MincoreAgrees
