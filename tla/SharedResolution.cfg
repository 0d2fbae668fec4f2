CONSTANTS
  r1 = r1
  r2 = r2
  r3 = r3
  sf = sf
  p = p
  NoTarget = NoTarget
  NoCall = NoCall
  Requests <- MCRequests
  Attempts = {1}
  Selectors <- MCSelectors
  Targets <- MCTargets
  ProfileOf <- MCProfileOf
  Answers <- MCAnswers
  MaxStuckResolvers = 2
SPECIFICATION PoolSpec
INVARIANTS
  SlotsAreWorkers
  RegisteredIsPending
  WaitersAreCounted
  NobodyWaitsForAbandoned
  LiveWorkIsRegistered
  CancellationIsOwn
SYMMETRY Symmetry
CHECK_DEADLOCK FALSE
