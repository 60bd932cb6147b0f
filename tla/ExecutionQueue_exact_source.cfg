SPECIFICATION Spec
CONSTANTS
  Session = {s1}
  Source = {a, b}
  Result = {pass, fail}
  InternalError = internal
  Worker = {w1, w2}
  Handler = {h1}
  AccessState = {"open"}
  Null = null
  Concurrency = 1
  MaxAttempts = 2
  MaxJobs = 2
  MaxPages = 1
  MaxResubmits = 1
  MaxEarlyExpiries = 0
  MaxCrashes = 0
SYMMETRY Symmetry
INVARIANTS
  SubmittedAsAsked
