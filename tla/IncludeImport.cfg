CONSTANTS
  Texts <- Imports
  Roots <- Root
  NDirs = 3
  BracketDir = 2
  DepthLimit = 4
  MacroCases <- NoneAtAll
  Words <- NoneAtAll
  Expressions <- NoneAtAll
  Width = 8
  DepsTasks = {1, 2}
  DepsPlans <- NoneAtAll
  Sources = {"m", "x", "y"}
  MainFile = "m"
  Candidates <- Places
  Versions <- SourceVersions
  IncludeEntries = 1
  TableThreshold = 1
SPECIFICATION Spec
CHECK_DEADLOCK FALSE
INVARIANTS ReadsTheSameFiles
