SPECIFICATION MCSpec
CONSTANTS
  Source = {a, b}
  Process = {w1, w2}
  Request = {q1, q2}
  AccessState = {"open", "late", "closed"}
  Null = null
  MaxSessions = 2
  MaxPages = 2
  MaxRuns = 2
  MaxCrashes = 1
SYMMETRY Symmetry
INVARIANTS
  SubmissionMatchesRun
  RepliesAgree
PROPERTIES
  OneProcessSuffices
  KeepsSubmissionContract
