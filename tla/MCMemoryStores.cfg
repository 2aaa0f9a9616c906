SPECIFICATION Spec
CONSTANTS
  Sessions = {s1}
  Tasks = {t1}
  NoKey = NoKey
  Backends = {"sqlite", "redis"}
  Steps <- MCSteps
  MaxCalls <- MCMaxCalls
  MaxSaves = 2
  MaxRestores = 1
INVARIANTS
  RecordsKeptOnce
  IndexMatchesRecords
PROPERTIES
  SnapshotsNeverOverwritten
  RestoreIsFaithful
CHECK_DEADLOCK FALSE
