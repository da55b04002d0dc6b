SPECIFICATION Spec
CONSTANTS
  MaxId = 3
  SHA <- MCSHA
  NoSHA = NoSHA
  Guardian = guardian
  Clients = {api}
  Nobody = Nobody
  OffsiteMode = "filesystem"
  TamperBusy = TRUE
  EventLoss = TRUE
  MaxFaults = 2
INVARIANTS
  TypeOK
  MutualExclusion
  MirrorRecordTrue
  OffsiteRecordTrue
PROPERTIES
  RetentionSparesNewest
  VerifiedOffsiteKept
\* Once nothing is left to reconcile and no backup is asked for, nothing happens.
CHECK_DEADLOCK FALSE
