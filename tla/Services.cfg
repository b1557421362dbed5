CONSTANTS
  Conns = {1, 2}
  MaxSockets = 2
  MaxNumSockets = 3
  JobSets <- SomeJobs
  HttpOptions <- SomeClients
  Ends <- SomeEnds
  TokenAnswers <- AnyAnswer
  Parts = {"server", "worker", "http"}
SPECIFICATION Spec
CHECK_DEADLOCK FALSE
INVARIANTS ServicesTypeOK AcceptExact NoUseAfterFree RunOrCanceled RequestsExact RefreshExact
PROPERTIES EverythingEnds
