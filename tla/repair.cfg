SPECIFICATION Spec
CONSTANTS
  Gone = Gone
  Kind <- ColumnKind
  Hints <- ColumnHints
  Traits <- WordTraits
  Stem <- WordStem
  Ranges <- RangePairs
  Today = 1000
  Isolated <- Isolates
  Procs = {p, q}
  Paths = {"a", "b", "c", "d", "e"}
  Format <- PathFormat
  Registered = {"a", "b", "c", "d", "e"}
  Versions = {"odd", "odd2", "days", "clean"}
  Tables <- UsedTables
  Respelt <- Spelt
  LogCap = 2
  ExampleCap = 1
  Origins = {"odd", "days"}
  InitialFiles <- Start
  InitialStores <- Stores
  Later = {"odd2"}
  Used = {"lower", "dates", "json", "database", "unknown", "preview", "done", "batch", "rollback", "several", "undo", "web", "verify", "strict", "diff"}
  Commands <- UsedCommands
  MaxCommands = 2
  MaxChanges = 1
SYMMETRY Perms
CHECK_DEADLOCK FALSE
INVARIANTS
  TypeOK
  CopiesAreAligned
  AuditIsExact
  RepairsClearTheirIssue
  ArtefactsHaveARow
  RowsHaveTheirFiles
  OkMeansDone
