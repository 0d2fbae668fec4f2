CONSTANTS
  c1 = c1
  c2 = c2
  c3 = c3
  Callers <- MCCallers
  Keys = {account}
  TTL = 2
  NoRefresh = NoRefresh
SPECIFICATION FairCacheSpec
INVARIANTS
  OneRefreshPerKey
  NothingOutlivesAFailure
  FallbackLastsAsLong
PROPERTIES
  SnapshotsAdvance
  AnswersAreFresh
  CallersAreServed
