--------------------------- MODULE MCAddressBook -----------------------------
(***************************************************************************)
(* Instances of AddressBook for TLC: two devices under one name, one of    *)
(* them under another as well.                                             *)
(***************************************************************************)
EXTENDS AddressBook, TLC

CONSTANTS d1, d2, n1, n2, g1, g2

TwoDevices == (d1 :> {n1, n2}) @@ (d2 :> {n1})

=============================================================================
