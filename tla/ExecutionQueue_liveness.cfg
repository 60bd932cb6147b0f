SPECIFICATION FairSpec
CONSTANTS
  Session = {s1}
  Source = {a}
  Result = {pass}
  InternalError = internal
  Worker = {w1}
  Handler = {h1}
  AccessState = {"open", "closed"}
  Null = null
  Concurrency = 2
  MaxAttempts = 2
  MaxJobs = 2
  MaxPages = 1
  MaxResubmits = 0
  MaxEarlyExpiries = 1
  MaxCrashes = 1
PROPERTIES
  JobsSettle
  KeepsContract
