\* spec.md 8.7: committed effects survive crashes. Same bounds as MCLogRecovery.cfg.
CONSTANTS
  T1 = T1  T2 = T2  P1 = P1  P2 = P2
  Tids <- MCTids
  Pages <- MCPages
  Unwritten = Unwritten
  NoTid = NoTid
  MaxCrashes = 2
  MaxUpdates = 2
  TornWrites = FALSE
SPECIFICATION Spec
INVARIANT
  CommittedDurable
