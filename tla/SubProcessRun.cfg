CONSTANTS
  Ids <- Ids2
  Normal <- One
  Burst <- One
  Failing <- None
  Blockers <- First
  Heavies <- None
  Runners <- Second
  Killers <- First
  DontKill = FALSE
  MayQuit = TRUE
  MayCrash = TRUE
  MayBurst = FALSE
  MaxQueue = 1
SPECIFICATION Spec
CHECK_DEADLOCK FALSE
INVARIANTS TypeOK RegisteredOnce SignaledIsDead ToldInOrder DoneMeansDead NoOrphanProcess CleanClose
