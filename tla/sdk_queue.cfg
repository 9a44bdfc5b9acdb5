SPECIFICATION FairSpec
CONSTANTS
    Events = {e1, e2, e3, e4}
    Flushes = {f1, f2}
    NoItem = NoItem
    MaxQueue = 2
    MaxAttempts = 3
CHECK_DEADLOCK FALSE
INVARIANTS
    OneFlush
    QueueBound
    SendsCounted
    OneCopy
PROPERTIES
    GivenUpOnlyLate
    EverySendEnds
