SPECIFICATION FairSpec
CONSTANTS
  Dispatchers = {d1}
  Users = {u1}
  Tokens = {t1}
  MaxRetry = 2
  Expiration = 2
  BaseDelay = 1
  MaxDelay = 1
  Jitter = 0
  BatchLimit = 2
  MaxMessages = 2
  Faults = {"crash", "database"}
  MaxFaults = 1
  None = None
INVARIANTS
  AcceptedOnce
  AttemptsBoundedByLosses
  RejectedTokensAreDropped
PROPERTIES
  SettledIsFinal
  EveryMessageSettles
