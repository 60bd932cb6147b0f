SPECIFICATION MCSpec
CHECK_DEADLOCK FALSE
CONSTANTS
  Student = {s1}
  Request = {q1, q2}
  Code = {c1, c2}
  Null = null
  MaxAudit = 2
  MaxCodes = 2
  User = {u1, u2}
  Subject = {k1, k2}
  Email = {e1, e2, e3}
  Handler = {h1, h2}
  None = none
SYMMETRY Symmetry
INVARIANTS
  AuditAgrees
  AccountsApart
PROPERTIES
  JoinNeverRestores
  HintsEarned
  AccountsKept
