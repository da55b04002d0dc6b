--------------------------- MODULE MCRecoveryStatus ---------------------------
(***************************************************************************)
(* Small instances of RecoveryStatus for TLC.                              *)
(***************************************************************************)
EXTENDS RecoveryStatus

\* A point is mentioned by four digests on disk and two in the job.
MCSHA == 1..7
=============================================================================
