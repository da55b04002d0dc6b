SPECIFICATION Spec
CONSTANTS
  Requests = {r1, r2, r3}
  MaxCommands = 4
INVARIANTS
  FailoverTypeOK
  RecoveredMeansPromoted
