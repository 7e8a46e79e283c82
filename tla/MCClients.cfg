SPECIFICATION AuraSpec
CONSTANTS
    Clients = {c1}
    Handlers = {h1, h2}
    ChangeBound = 3
    FaultBound = 2
    WindowBound = 2
    SegmentBound = 2
    Capacity = 3
    MaxFinals = 2
INVARIANT SettledShowsFinal
PROPERTY SyncedUnlessBehind
CHECK_DEADLOCK FALSE
