----------------------------- MODULE MCRelayMail -----------------------------
(***************************************************************************)
(* Instances of RelayMail for TLC.                                         *)
(***************************************************************************)
EXTENDS RelayMail

CONSTANTS m1, m2, r1, r2, c1, c2

=============================================================================
