CONSTANTS
  r1 = r1
  r2 = r2
  sf = sf
  la = la
  p = p
  q = q
  NoTarget = NoTarget
  NoCall = NoCall
  Requests <- MCRequests
  Selectors <- MCSelectors
  Targets <- MCTargets
  ProfileOf <- MCProfileOf
  Answers <- MCAnswers
  Attempts = {1, 2}
  MaxStuckResolvers = 1
  Window = 1
  Threshold = 2
  ResolveRetry = 1
  HasRetryResolve = TRUE
SPECIFICATION Spec
INVARIANTS
  HandlerTypeOK
  SharesOnlySameKey
  FailureKeepsIdentity
PROPERTIES
  LateIsDiscovery
SYMMETRY Symmetry
CHECK_DEADLOCK FALSE
