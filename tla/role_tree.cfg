SPECIFICATION TreeSpec
CONSTANTS
  Roles = {root, r1, r2, r3, r4}
  Root = root
  Editors = {e1, e2}
  Creators = {c1, c2}
  NoRole = NoRole
SYMMETRY Symmetry
INVARIANT
  NoCircleUnlessRaced
