CHECK_DEADLOCK FALSE
SPECIFICATION Spec
CONSTANTS
  Logins = {l1, l2}
  Visits = {v1, v2}
  PreKeys = {k1}
  Users = {admin, clerk, guest}
  Maintainers = {admin}
  Members = {admin, clerk}
  Offered = {"login", "loginV2", "captcha", "captchaV2", "captchaV3"}
  None = None
SYMMETRY Symmetry
INVARIANTS
  LoginsWaitForMaintenance
  VisitsWaitForMaintenance
