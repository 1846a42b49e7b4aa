SPECIFICATION FairAuditSpec
CONSTANTS
  Events = {e1,e2,e3,e4,e5}
  AsyncDBWrites = TRUE
  BatchSizes = {0, 2}
  Crashes = TRUE
  Failures = TRUE
INVARIANT
  WrittenInQueueOrder
PROPERTIES
  TrailSpec
  NothingStaysQueued
CHECK_DEADLOCK FALSE
