SPECIFICATION Spec
CONSTANTS
  WP = {1, 2, 3}
  DependsOn <- MCDependsOn
  NoWorker = {}
  BadContract = {}
  Gates = {"tests"}
  Goroutine = {g1, g2}
  MaxConcurrency = 1
  MaxAttempts = 2
  AttemptBound = 2
  Overlap = FALSE
  Unreliable = {}
  MayCancel = FALSE
INVARIANT PartialFailureContinues
CHECK_DEADLOCK FALSE
