CONSTANTS
  a = a  b = b  c = c
  Savers <- Three
  Keys = {1, 2}
  SaverKeys <- TwoAlike
  AmountOf <- LargerKeys
  MaxAmount = 2
  ThresholdAmount = 1
  MaxItems = 1
  ThresholdItems = 1
  MaxKills = 1
  Askers <- Three
  CwdOf <- TwoDirs
  InfoPlans <- SomeInfoPlans
SPECIFICATION CachesSpec
CHECK_DEADLOCK FALSE
INVARIANTS CachesTypeOK OutputCacheExact InfosExact
PROPERTIES CachesServe
