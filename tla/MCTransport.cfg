SPECIFICATION TransportSpec
CONSTANTS
    Producer = {p1, p2}
    Sub = {s1}
    Room = 1
    Kinds = {"memory", "file"}
    EventBound = 3
    RestartBound = 1
    Callers <- MCCallers
    Keyed <- MCCallers
    Servers <- MCServers
    WorkPackages = {w}
    Artifacts = {a}
    Versions = {1, 2}
    Chunks = 2
    Capacity = 2
    None = None
    MaxCalls = 2
    MaxFaults = 1
INVARIANTS
    AckedIsReplayable
    DeliveredOrCounted
    StoredIsWhole
PROPERTIES
    ClosingDisturbsOnlySubscribe
    AppendReturns
    FileIsAppendLog
    CleanDelivery
CHECK_DEADLOCK FALSE
