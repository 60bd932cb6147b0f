SPECIFICATION FairSpec
CONSTANTS
  Request = {r1, r2, r3}
  MaxConcurrency = 1
  MaxQueueSize = 1
  MaxLateCreates = 1
INVARIANTS
  BooksExact
  AnsweredOnce
  ContainersTracked
PROPERTIES
  NoWorkForTheGone
  EveryoneAnswered
CHECK_DEADLOCK FALSE
