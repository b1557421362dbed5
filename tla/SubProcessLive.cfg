CONSTANTS
  Ids <- Ids2
  Normal <- One
  Burst <- One
  Failing <- First
  Blockers <- Second
  Heavies <- None
  Runners <- None
  Killers <- OneTwo
  DontKill = FALSE
  MayQuit = TRUE
  MayCrash = FALSE
  MayBurst = FALSE
  MaxQueue = 2
SPECIFICATION FocusSpec
CHECK_DEADLOCK FALSE
PROPERTIES KilledIsDone StartedIsDone ShutdownReturns
