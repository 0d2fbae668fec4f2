CONSTANTS
  r1 = r1
  r2 = r2
  sf = sf
  la = la
  p = p
  q = q
  NoTarget = NoTarget
  NoCall = NoCall
  Requests <- MCRequests
  Selectors <- MCOneSelector
  Targets <- MCTargets
  ProfileOf <- MCProfileOf
  Answers <- MCFewAnswers
  Attempts = {1, 2}
  MaxStuckResolvers = 1
  Window = 1
  Threshold = 0
  ResolveRetry = 1
  HasRetryResolve = TRUE
SPECIFICATION FairSpec
PROPERTIES
  CapacityRecovers
  ImplementsContract
CHECK_DEADLOCK FALSE
