SPECIFICATION Spec
CONSTANTS
    HotCap = 1
    Retention = 1
    LastDay = 2
    RecBound = 3
    MaxRestarts = 2
INVARIANTS Replayable
PROPERTY DurableUntilExpired
CHECK_DEADLOCK FALSE
