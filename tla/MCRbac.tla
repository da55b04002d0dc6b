-------------------------------- MODULE MCRbac --------------------------------
(***************************************************************************)
(* One system role and two roles of the administrators, so that one can    *)
(* inherit from the other; one user; one permission, which the preset      *)
(* has; two requests in flight, which is what one late write needs.        *)
(***************************************************************************)
EXTENDS Rbac, TLC

CONSTANTS sys, anna, view

MCKind == anna :> sys
MCPreset == sys :> {view}
Symmetry == Permutations(CustomRoles) \cup Permutations(Requests)
=============================================================================
