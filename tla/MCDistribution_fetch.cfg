SPECIFICATION DSpec
CONSTANTS
    Callers <- MCCallers
    Keyed <- MCCallers
    Servers <- MCServers
    WorkPackages = {w}
    Artifacts = {a, b}
    Versions = {1}
    Chunks = 2
    Capacity = 2
    None = None
    MaxCalls = 2
    MaxFaults = 0
INVARIANT FetchedIsRequested
CHECK_DEADLOCK FALSE
