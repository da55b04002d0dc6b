--------------------------- MODULE MCClientAccess ---------------------------
(***************************************************************************)
(* Small instances of ClientAccess for TLC.                                *)
(***************************************************************************)
EXTENDS ClientAccess, TLC

Symmetry == Permutations(Requests) \cup Permutations(Sessions) \cup Permutations(Clients)
=============================================================================
