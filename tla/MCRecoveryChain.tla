--------------------------- MODULE MCRecoveryChain ---------------------------
(***************************************************************************)
(* Small instances of RecoveryChain for TLC.                               *)
(***************************************************************************)
EXTENDS RecoveryChain

\* A point is mentioned by four digests on disk and two in the job.
MCSHA == 1..7
=============================================================================
