SPECIFICATION Spec
CONSTANTS
  Session = {s1}
  Source = {a,b}
  Result = {pass}
  InternalError = internal
  Worker = {w1, w2}
  Handler = {h1,h2}
  AccessState = {"open"}
  Null = null
  Concurrency = 1
  MaxAttempts = 2
  MaxJobs = 2
  MaxPages = 1
  MaxResubmits = 2
  MaxEarlyExpiries = 1
  MaxCrashes = 1
SYMMETRY Symmetry
CONSTRAINT OneSource
INVARIANTS
  IInv
  RetryBudget
  TimelyWork
PROPERTIES
  ResultsImmutable
  CompletedIsFinal
