SPECIFICATION PlanesSpec
CONSTANTS
    Runs <- MCRuns
    Hooked <- MCHooked
    Retain = 3
    Calls = {1, 2, 3}
    NoCall = NoCall
    NoKey = "none"
    Asks <- MCAsks
    CacheLimit = 1
    Steps = {1, 2, 3}
    Dependencies <- MCDependencies
    Profiles <- MCProfiles
    CanCompensate = TRUE
    MaxRetries = 1
    MaxRuns = 2
INVARIANTS
    SignalHonoured
    AnswerIsOwn
    AnswerAuthorised
    CompileAgrees
PROPERTIES
    StopTakesEffect
    EffectOnce
    RequestsAnswered
    PlanFollowed
CHECK_DEADLOCK FALSE
