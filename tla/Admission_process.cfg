SPECIFICATION Spec
CONSTANTS
  Session = {s1, s2, s3}
  Request = {1, 2, 3}
  Key <- SmallKeys
  s1 = s1
  s2 = s2
  s3 = s3
  Limit = 1
  Window = 2
  Retention = 2
  Second = 2
  MaxLatency = 1
  MaxTime = 2
  Capacities <- SmallCapacities
  MaxQueueSize = 2
  Cooldown = 2
  Null = null
  None = none
SYMMETRY Symmetry
INVARIANTS
  WindowHeld
  SlotsExact
  OnePerSession
PROPERTIES
  RetryHonest
  CooldownHeld
