\* The encoded log: two transactions over two pages, one update each, two
\* crashes that may stop a Force between records.
CONSTANTS
  Tids <- MCTids
  Pages <- MCPages
  Unwritten = 0
  NoTid <- MCNoTid
  FileId = 0
  MaxCrashes = 2
  MaxUpdates = 1
  TornWrites = FALSE
SPECIFICATION Spec
\* The client may run out of transactions: a final state is legal.
CHECK_DEADLOCK FALSE
INVARIANTS
  TypeOK
PROPERTIES
  LogRefinement
  RecoverMatchesRecords
  RollbackMatchesRecords
  RecoverySurvivesCrash
  PassesEnd
