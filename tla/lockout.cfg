SPECIFICATION FairSpec
CONSTANTS
  Attempts = {a1, a2}
  MaxFailedAttempts = 2
  LockFields = 2
  Threshold = 2
INVARIANTS
  TypeOK
PROPERTIES
  LockNeedsFailures
  PassedThroughAGap
  RefusedByALock
  OpenGoesThroughHalfOpen
  LocksEnd
  RecoversWithRedis
