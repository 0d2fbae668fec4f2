SPECIFICATION Spec
CONSTANTS
  History = "history"
  Playlists = "playlists"
  Sections <- MCSections
  MediaSections = {"films", "more"}
  CollectionsOf <- MCCollectionsOf
  InitialStores <- MCInitialStores
  MayArrive <- MCMayArrive
  NewestFirst = {TRUE, FALSE}
  FoldedTitle <- MCFoldedTitle
  NormalMedia = {"movie", "clip"}
  EligibleMedia = {"movie"}
  NoKey = NoKey
  NoThumb = NoThumb
  Unknown = Unknown
  EverySection = EverySection
  Absent = Absent
  PageSize = 2
  MaxChanges = 2
  Cutoff = 3
  MaxBytes = 4
INVARIANTS
  ReportTypeOK
  ListingsAreExact
  HistoryReportsAreTrue
  AuditRowsAreReal
CHECK_DEADLOCK FALSE
