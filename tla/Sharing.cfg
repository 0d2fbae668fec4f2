SPECIFICATION Spec
CONSTANTS
  c1 = c1
  c2 = c2
  m1 = m1
  m2 = m2
  foreign = foreign
  den = den
  alone = alone
  l1 = l1
  l2 = l2
  ann = ann
  bob = bob
  kid = kid
  NoMachine = NoMachine
  NoShare = NoShare
  Commands = {c1, c2}
  lan = lan
  Profiles <- MCProfiles
  Servers = {lan, m1, m2, den, alone}
  Requests <- MCRequests
  ResourceLists <- MCResourceLists
  Libraries = {l1, l2}
  Users = {ann, bob, kid}
  Home = {kid}
  InitialShares <- MCInitialShares
  Snapshots <- MCSnapshots
  Offsets <- MCOffsets
  InitialRows <- MCInitialRows
  MaxTime = 3
  MaxShares = 5
  MaxChanges = 1
  MaxRuns = 2
  MaxCut = 1
  MaxAge = 2
INVARIANTS
  SharingTypeOK
  RecordsAreRevocations
  RevocationsAreRecorded
  HistoryQueriesAgree
PROPERTY OnlySelectedShares
SYMMETRY Symmetry
CHECK_DEADLOCK FALSE
