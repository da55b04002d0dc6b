SPECIFICATION Spec
CONSTANTS
  Targets = {"local", "postgres", "both"}
  ToolSets <- AnyTools
  AppWrites = TRUE
  MaxAttempts = 2
  MaxFaults = 3
INVARIANTS
  RestoreTypeOK
  NothingLost
  FailedSingleRestoreKeepsLiveData
  SuccessMeansRestored
PROPERTIES
  SQLiteAfterPostgres
\* Once the last restore has returned, nothing happens.
CHECK_DEADLOCK FALSE
