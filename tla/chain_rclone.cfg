SPECIFICATION FairSpec
CONSTANTS
  MaxId = 2
  SHA <- MCSHA
  NoSHA = NoSHA
  Guardian = guardian
  Clients = {api}
  Nobody = Nobody
  OffsiteMode = "rclone"
  TamperBusy = TRUE
  EventLoss = TRUE
  MaxFaults = 2
PROPERTIES
  EventuallyHealed
\* Once nothing is left to reconcile and no backup is asked for, nothing happens.
CHECK_DEADLOCK FALSE
