SPECIFICATION Spec
CONSTANTS
  Gone = Gone
  Kind <- ColumnKind
  Hints <- ColumnHints
  Traits <- WordTraits
  Stem <- WordStem
  Ranges <- RangePairs
  Today = 1000
  Isolated <- Isolates
  Sample <- HalfOf
  Paths = {"a", "b"}
  Versions = {"words", "words2", "dates", "gaps", "numbers", "clean", "padded", "wider"}
  Tables <- UsedTables
  InitialFiles <- Initially
  Later = {"words2", "padded", "wider", Gone}
  Used = {"full", "strict", "batch", "twice", "ui", "sampled", "sdk", "narrow", "ruled", "invalid", "attached"}
  Commands <- UsedCommands
  Repaired = FALSE
  MaxCommands = 2
  MaxChanges = 1
CHECK_DEADLOCK FALSE
INVARIANTS
  TypeOK
  QuietScanIsComplete
  IssuesWereSeen
  ExitOkMeansClean
  CachedAnswerIsSound
  SameColumnsMeasuredAnew
  
