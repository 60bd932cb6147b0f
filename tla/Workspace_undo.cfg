SPECIFICATION Spec
CONSTANTS
  Source = {"cpp", "x", ""}
  Language = {"CPP", "JAVA"}
  Starter <- Starters
  Blank = {""}
  Null = null
  PollFailures = 1
  MaxEdits = 3
  MaxCalls = 1
  MaxFaults = 0
INVARIANTS
  ShownAsSaved
CHECK_DEADLOCK FALSE
