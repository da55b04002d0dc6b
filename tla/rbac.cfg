SPECIFICATION Spec
CONSTANTS
  sys = sys
  anna = anna
  view = view
  SystemRoles = {sys}
  CustomRoles = {c1, c2}
  Users = {anna}
  Kind <- MCKind
  Permissions = {view}
  Preset <- MCPreset
  NoRole = NoRole
  Requests = {r1, r2}
SYMMETRY Symmetry
INVARIANTS
  RbacTypeOK
  SystemRolesKeepPresets
  DeletedRoleLeavesNothing
