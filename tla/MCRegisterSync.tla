--------------------------- MODULE MCRegisterSync ---------------------------
(***************************************************************************)
(* Small instances of RegisterSync for TLC.                                *)
(***************************************************************************)
EXTENDS RegisterSync, TLC

MCKeys == 1..3
MCEmails == {"a", "b"}

\* The form for a is sent twice, for b once.
MCResubmitted == <<"a", "a", "b">>

\* One form for each email.
MCKeys2 == 1..2
MCOneEach == <<"a", "b">>

MCSymmetry == Permutations(Handlers)
=============================================================================
