\* WAL recovery: two transactions over two pages, two updates each, up to two crashes,
\* forces that may stop between records or inside one.
CONSTANTS
  T1 = T1  T2 = T2  P1 = P1  P2 = P2
  Tids <- MCTids
  Pages <- MCPages
  Unwritten = Unwritten
  NoTid = NoTid
  MaxCrashes = 2
  MaxUpdates = 2
  TornWrites = TRUE
SPECIFICATION Spec
INVARIANTS
  TypeOK
  NoLoserEffects
PROPERTIES
  RecoveryIdempotent
