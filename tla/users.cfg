SPECIFICATION Spec
CONSTANTS
  Users = {u1, u2}
  Memberships = {m1, m2}
  Requests = {r1, r2, r3}
  None = None
SYMMETRY Symmetry
INVARIANTS
  StatusTellsDeletion
  OneRowPerRole
PROPERTY
  LivingUsersKeepRoles
