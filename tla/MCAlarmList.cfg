\* Two threads arm timers while the alarm task sleeps, wakes and pops.  No
\* symmetry: ExpiredIsPopped is a liveness property.
CONSTANTS
    Thread = {t1, t2}
    Alarm = alarm
    NoEntry = NoEntry
    Slot = {s1, s2}
    MaxRemained = 2
    MaxTime = 3
SPECIFICATION FairSpec
INVARIANTS
    NoMissedDeadline
PROPERTIES
    NeverEarly
    ExpiredIsPopped
CHECK_DEADLOCK FALSE
