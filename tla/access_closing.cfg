SPECIFICATION Spec
CONSTANTS
  Clients = {alice}
  NoClient = NoClient
  Requests = {r1, r2, r3}
  Sessions = {s1, s2, s3}
  MaxFaults = 1
SYMMETRY Symmetry
INVARIANTS
  AccessTypeOK
  ApprovedHasLogin
  AccountStaysClosed
  OnlyLateSessionsSurvive
