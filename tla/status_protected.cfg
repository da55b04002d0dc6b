SPECIFICATION StatusSpec
CONSTANTS
  MaxId = 2
  SHA <- MCSHA
  NoSHA = NoSHA
  Guardian = guardian
  Clients = {api}
  Nobody = Nobody
  OffsiteMode = "filesystem"
  TamperBusy = TRUE
  EventLoss = FALSE
  MaxFaults = 2
INVARIANTS
  ProtectedMeansReconciled
PROPERTIES
  FailedRepairNotProtected
