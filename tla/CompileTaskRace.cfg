CONSTANTS
  Configs <- Usual
  MaxExecRetry = 2
SPECIFICATION Spec
CHECK_DEADLOCK FALSE
INVARIANTS TypeOK ChecksHold NothingOutstanding NoSharedOutput
PROPERTIES ImplementsRequest EveryTaskIsDone
