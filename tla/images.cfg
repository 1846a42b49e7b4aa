SPECIFICATION Spec
CONSTANTS
  Images = {i1, i2, i3}
  Sizes = {small, medium, big}
  Source = source
  Requests = {r1, r2, r3}
  None = None
SYMMETRY Symmetry
INVARIANTS
  OneImageUnlessMixed
  AvatarIsComplete
