SPECIFICATION FlowSpec
CONSTANTS
    Steps = {1, 2, 3}
    Dependencies <- MCDependencies
    Profiles <- MCProfiles
    CanCompensate = TRUE
    MaxRetries = 1
    MaxRuns = 2
INVARIANT ResumeContinues
CHECK_DEADLOCK FALSE
