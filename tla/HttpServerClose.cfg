CONSTANTS
  Conns = {1, 2}
  MaxSockets = 2
  MaxNumSockets = 3
  JobSets <- SomeJobs
  HttpOptions <- SomeClients
  Ends <- SomeEnds
  TokenAnswers <- AnyAnswer
  Parts = {"server"}
SPECIFICATION Spec
CHECK_DEADLOCK FALSE
INVARIANT ReplyDeletes
