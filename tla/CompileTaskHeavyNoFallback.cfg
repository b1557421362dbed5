CONSTANTS
  Configs <- HeavyNoFallback
  MaxExecRetry = 1
SPECIFICATION Spec
CHECK_DEADLOCK FALSE
INVARIANTS ReplyChecks
