SPECIFICATION ServicesSpec
CONSTANTS
    Managers = {m1, m2}
    Requests = {"r1", "r2"}
    RpcPosts <- MCRpcPosts
    Children = {"child"}
    Titles = {"bug"}
    Commits = {"c1"}
    MaxForgeCalls = 4
    MaxForgeFaults = 1
    TraceNos = {1, 2, 3}
    TraceChoices <- MCTraceChoices
    MaxTraces = 3
    MaxSteps = 4
    MinOutcomes = 2
    MinWorkerOutcomes = 2
    GatePolicies <- MCGatePolicies
    MaxLearnCalls = 3
    MaxTicks = 1
    MaxSinkFaults = 1
    WP = {1, 2}
    DependsOn <- MCDependsOn
    NoWorker = {}
    BadContract = {2}
    Gates = {"tests", "human_review"}
    Goroutine = {g1, g2}
    MaxConcurrency = 1
    MaxAttempts = 1
    AttemptBound = 2
    Overlap = TRUE
    Unreliable = {}
    MayCancel = FALSE
    Handlers = {h1, h2}
    DefIds = {"x"}
    Specs = {"A", "B", "bad"}
    BadSpecs = {"bad"}
    ProjectIds = {"p"}
    MaxHttp = 3
    MaxHttpFaults = 1
    MaxBoots = 1
INVARIANTS
    StartedOnce
    MergedIsRecorded
    OneAnswerPerKey
    EnabledIsEarned
    CreatedIsKept
PROPERTIES
    PromotionStands
    OverlapIsSafe
CHECK_DEADLOCK FALSE
