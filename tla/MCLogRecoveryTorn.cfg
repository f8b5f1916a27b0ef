\* spec.md 7: a torn log tail is the end of the log and recovery proceeds.
\* A crash inside Force may leave a partial record; one crash suffices.
CONSTANTS
  T1 = T1  T2 = T2  P1 = P1  P2 = P2
  Tids <- MCTids
  Pages <- MCPages
  Unwritten = Unwritten
  NoTid = NoTid
  MaxCrashes = 1
  MaxUpdates = 2
  TornWrites = TRUE
SPECIFICATION Spec
PROPERTY
  RestartRecovers
