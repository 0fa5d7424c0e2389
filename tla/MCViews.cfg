SPECIFICATION ViewsSpec
CONSTANTS
    WP = {1, 2, 3}
    DependsOn <- MCDependsOn
    NoWorker = {}
    BadContract = {3}
    Gates = {"human_review"}
    Goroutine = {g1}
    MaxConcurrency = 1
    MaxAttempts = 2
    AttemptBound = 2
    Overlap = FALSE
    Unreliable = {2}
    MayCancel = TRUE
    CrashBound = 1
    Nodes = {1, 2, 3}
    Paths = {"p"}
    Hashes = {"x"}
    MaxRevision = 3
    MaxPublishes = 3
    MaxLists = 3
    Goroutines = {1, 2}
    ObsSessions = {"s"}
    Offers <- MCOffers
    CodexFiles <- MCCodexFiles
    BufferCap = 2
    ReportFloor = 1
    ReportEvents = 2
    MaxObsCalls = 3
    MaxObsFaults = 1
    Followers = {1, 2}
    Observed <- MCObserved
    History <- MCHistory
    MaxFrames = 1
    MinSequence = 0
    MaxObserved = 2
    MaxApplied = 3
    MaxViews = 1
INVARIANTS
    AcceptedOnlyIfApproved
    AcceptedIsReviewed
    RestartKeepsWork
    OneRecordPerSession
    EmissionsAccounted
    LiveGraphIsReplay
    TimelineFaithful
PROPERTY
    NewestWins
CHECK_DEADLOCK FALSE
