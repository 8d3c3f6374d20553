SPECIFICATION Spec
CONSTANTS
  Chars <- MCChars
  Newline = "n"
  Capacity = 2
  MaxHistory = 2
  MaxGeneration = 3
  Loads <- MCLoads
  MaxInsert = 1
  MaxDepth = 2
  InsertFinalNewline = TRUE
INVARIANTS
  CleanMeansSaved
  HistoryReversible
  HistoryOrdered
  HistoryBounded
PROPERTIES
  RollbackExact
  ImplementsVersionLine
CHECK_DEADLOCK FALSE
