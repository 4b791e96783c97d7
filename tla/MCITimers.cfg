CONSTANTS
    Thread = {t1}
    Alarm = alarm
    NoEntry = NoEntry
    None = None
    Slot = {s1, s2}
    MaxRemained = 2
    MaxTime = 4
    Workload <- MCWorkload
SPECIFICATION TSpec
INVARIANTS
    ArmedIsFiled

    
CHECK_DEADLOCK FALSE
