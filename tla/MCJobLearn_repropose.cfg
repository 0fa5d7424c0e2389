SPECIFICATION LearnSpec
CONSTANTS
    TraceNos = {1, 2, 3}
    TraceChoices <- MCTraceChoices
    MaxTraces = 3
    MaxSteps = 4
    MinOutcomes = 2
    MinWorkerOutcomes = 2
    GatePolicies <- MCGatePolicies
    MaxLearnCalls = 3
    MaxTicks = 1
    MaxSinkFaults = 1
INVARIANT ReproposingSucceeds
CHECK_DEADLOCK FALSE
