CHECK_DEADLOCK FALSE
CONSTANTS
  c1 = c1
  c2 = c2
  s1 = s1
  a1 = a1
  a2 = a2
  Commands = {c1, c2}
  Account = {a1, a2}
  Machines = {1, 2}
  Names = {s1}
  NoMachine = 0
  NoAccount = NoAccount
  NoName = NoName
  NoConnection = NoConnection
  NoProfile = NoProfile
  NoToken = NoToken
  Unreadable = Unreadable
  NoCall = NoCall
  Keys <- MCKeys
  Tokens <- MCTokens
  EnvToken <- MCEnvToken
  LegacyEnv <- MCLegacyEnv
  Discoveries <- MCDiscoveries
  ImportSets = {{a1}, {a2}, {a1, a2}}
  InitialConfigs <- MCInitialConfigs
  InitiallyBroken <- MCInitiallyBroken
  MaxEvents = 2
  MaxAttempts = 2
SYMMETRY Symmetry
SPECIFICATION Spec
INVARIANTS
  AccountsTypeOK
  FailedImportRestores
  ConfigNamesWhatIsLeft
  SavedProfilesResolve
  ConfigRefersToItself
PROPERTIES
  CommandsKeepOthers
