CONSTANTS
  Texts <- Small
  Roots <- Root
  NDirs = 3
  BracketDir = 2
  DepthLimit = 4
  MacroCases <- Cases
  Words <- W
  Expressions <- Exprs
  Width = 8
  DepsTasks = {1, 2}
  DepsPlans <- SomeDepsPlans
  Sources = {"m", "x", "y"}
  MainFile = "m"
  Candidates <- Places
  Versions <- SourceVersions
  IncludeEntries = 1
  TableThreshold = 1
SPECIFICATION Spec
CHECK_DEADLOCK FALSE
INVARIANTS DepsExact StacksMatch ReadsTheSameFiles ExpansionIsRight SameAsGrammar
