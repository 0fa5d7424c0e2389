SPECIFICATION PSFairSpec
CONSTANTS
  WP = {1, 2, 3}
  DependsOn <- MCDependsOn
  NoWorker = {}
  BadContract = {3}
  Gates = {"human_review"}
  Goroutine = {g1}
  MaxConcurrency = 1
  MaxAttempts = 2
  AttemptBound = 2
  Overlap = FALSE
  Unreliable = {}
  MayCancel = FALSE
  CrashBound = 1
PROPERTY DecisionTakesEffect
CHECK_DEADLOCK FALSE
