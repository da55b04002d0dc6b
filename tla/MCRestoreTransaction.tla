------------------------- MODULE MCRestoreTransaction -------------------------
(***************************************************************************)
(* Small instances of RestoreTransaction for TLC.                          *)
(***************************************************************************)
EXTENDS RestoreTransaction

AnyTools == SUBSET Tools
=============================================================================
