SPECIFICATION Spec
CONSTANTS
  N = 2
  Goroutines = {g1}
  MaxDepth = 2
  DoError = DoError
  Nil = Nil
INVARIANT
  HookFollowsTheReset
PROPERTIES
  NothingLostWithoutConsent
  RerunsRecover
