----------------------------- MODULE MCTestCode -----------------------------
(***************************************************************************)
(* Values for the constants of TestCode.                                   *)
(***************************************************************************)
EXTENDS TestCode

\* One descriptor of the user's and the event pipe.
TwoFds == {0, 1}
OneFile == {"f"}

=============================================================================
