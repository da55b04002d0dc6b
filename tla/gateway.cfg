SPECIFICATION Spec
CONSTANTS
  Requests = {r1, r2, r3}
  MaxRequests = 2
  Window = 2
  Expiry = 2
  MaxTime = 3
SYMMETRY Symmetry
INVARIANTS
  GatewayTypeOK
  RevokedKeyIsDead
  EveryCallIsCounted
  SettingsAreKept
PROPERTIES
  LimiterHolds
