SPECIFICATION FairSpec
CONSTANTS
  MaxId = 2
  SHA <- MCSHA
  NoSHA = NoSHA
  Guardian = guardian
  Clients = {api}
  Nobody = Nobody
  OffsiteMode = "filesystem"
  TamperBusy = FALSE
  EventLoss = TRUE
  MaxFaults = 3
INVARIANTS
  VerifiedIsGenuine
PROPERTIES
  EventuallyHealed
\* Once nothing is left to reconcile and no backup is asked for, nothing happens.
CHECK_DEADLOCK FALSE
