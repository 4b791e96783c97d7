\* One reader, who asks for two bytes at a time, and two writers on a ring of two
\* or three bytes, resized at will.
CONSTANTS
    Reader = {r1}
    Writer = {w1, w2}
    Capacity = {2, 3}
    InitCap = 2
    MaxBytes = 2
    Want = {2}
SPECIFICATION Spec
SYMMETRY PipeSymmetry
INVARIANTS
    NoSleepOnData
    NoSleepOnRoom
PROPERTIES
    IsByteStream
CHECK_DEADLOCK FALSE
