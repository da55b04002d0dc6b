---------------------------- MODULE MCApiGateway ----------------------------
(***************************************************************************)
(* Three requests in flight, which race for the first row, overlap in the  *)
(* policy and come with old clock readings; windows of two seconds with    *)
(* room for two calls, so that the second window ends and is full; a key   *)
(* that expires within the time.                                           *)
(***************************************************************************)
EXTENDS ApiGateway, TLC

Symmetry == Permutations(Requests)
=============================================================================
