CHECK_DEADLOCK FALSE
SPECIFICATION Spec
CONSTANTS
  Calls = {c1, c2}
  Zones = {utc, jakarta}
  Ahead = {jakarta}
  FormTypes = {"CONTINUOUS", "RESET_PER_MONTH"}
  Dialect = "PostgreSQL"
  MonthsPerYear = 2
  MaxYears = 2
  MaxIssued = 5
  None = None
SYMMETRY Symmetry
INVARIANTS
  UniqueInOrder
  MonthlyReset
  GapsAreFailures
