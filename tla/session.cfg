CHECK_DEADLOCK FALSE
SPECIFICATION Spec
CONSTANTS
  Keys = {k1}
  Requests = {r1, r2}
  Endpoints = {"business", "logout", "language", "loginToken"}
  Bumped = {"user", "org", "memberships", "rolePrivileges"}
  VersionFaults = FALSE
  MaxChanges = 2
  None = None
SYMMETRY Symmetry
INVARIANTS
  RefreshedIsCurrent
  InactiveUsersAreExpelled
PROPERTY
  IncrementMakesSessionsStale
