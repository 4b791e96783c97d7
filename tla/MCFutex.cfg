\* Waits, wakes, timeouts, interruptions, requeues, robust futexes and exits.
CONSTANTS
    a1 = a1
    a2 = a2
    Thread = {t1, t2, t3}
    Addr = {a1, a2}
    TidAddr = {a2}
    Entry = {e1, e2, e3}
    NoEntry = NoEntry
    Val = {0, 1}
    Zero = 0
    Bit = {1}
    All = 9
    Workload <- MCWorkload
SPECIFICATION Spec
SYMMETRY FutexSymmetry
INVARIANTS
    AsleepIsQueued
    NoLostWakeup
    WaiterOnce
CHECK_DEADLOCK FALSE
