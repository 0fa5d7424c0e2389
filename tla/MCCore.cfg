SPECIFICATION CoreSpec
CONSTANTS
    WP = {1, 2, 3}
    DependsOn <- MCDependsOn
    NoWorker = {}
    BadContract = {}
    Gates = {"tests"}
    Goroutine = {g1, g2}
    MaxConcurrency = 2
    MaxAttempts = 2
    AttemptBound = 2
    Overlap = FALSE
    Unreliable = {1}
    MayCancel = TRUE
    Clients = {c1, c2}
    MemoryIds = {1, 2, 6}
    StrategyIds = {3}
    IssueIds = {4}
    TraceIds = {5}
    Bodies = {1}
    Pointers = {None, 1}
    Incoming <- MCIncoming
    Events = {"e", "f"}
    Existing <- MCExisting
    None = None
    MaxRevision = 3
    MaxCalls = 3
    MaxFaults = 2
INVARIANTS
    DependencyOrder
    AcceptedOnOwnEvidence
    AttemptsAccountedFor
    DurableNotAhead
    ProjectionCurrent
    EventsKept
PROPERTIES
    RunReportFaithful
    RunReturns
    LifecycleKept
    RetiredFirst
CHECK_DEADLOCK FALSE
