\* The assertion in alarm_task fails.
CONSTANTS
    Thread = {t1, t2}
    Alarm = alarm
    NoEntry = NoEntry
    Slot = {s1, s2}
    MaxRemained = 2
    MaxTime = 3
SPECIFICATION Spec
INVARIANTS
    PopAssertion
CHECK_DEADLOCK FALSE
