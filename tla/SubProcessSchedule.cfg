CONSTANTS
  Ids <- Ids3
  Normal <- Two
  Burst <- Wide
  Failing <- Third
  Blockers <- Third
  Heavies <- TwoThree
  Runners <- Third
  Killers <- None
  DontKill = FALSE
  MayQuit = FALSE
  MayCrash = FALSE
  MayBurst = TRUE
  MaxQueue = 2
SPECIFICATION Spec
CHECK_DEADLOCK FALSE
INVARIANTS NoStall LimitsKept
