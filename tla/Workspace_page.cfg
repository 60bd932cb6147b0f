SPECIFICATION Spec
CONSTANTS
  Source = {"cpp", "x", ""}
  Language = {"CPP", "JAVA"}
  Starter <- Starters
  Blank = {""}
  Null = null
  PollFailures = 1
  MaxEdits = 2
  MaxCalls = 1
  MaxFaults = 1
INVARIANTS
  SettledIsSaved
  SourceRecoverable
  NeverStuck
CHECK_DEADLOCK FALSE
