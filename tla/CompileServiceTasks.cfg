CONSTANTS
  a = a  b = b  c = c
  Tasks <- Three
  Linkers <- Pair
  MaxActive = 2
  MaxFinished = 1
  MaxFailed = 1
  MaxLong = 1
  MaxFailFallback = 1
  MaxLoads = 2
  MaxDumps = 1
  MayCancel = TRUE
  Users <- Pair
  Links = {b}
  InputPlans <- SomePlans
  Stores <- Three
  BigStores = {c}
  MaxReqInCall = 2
SPECIFICATION PartsSpec
CHECK_DEADLOCK FALSE
INVARIANTS ServiceTypeOK WaitingExact RefCountExact InputsExact BatchesExact
PROPERTIES EverybodyIsServed
