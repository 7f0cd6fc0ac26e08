----------------------------- MODULE MCKeyStore ------------------------------
(***************************************************************************)
(* Instances of KeyStore for TLC.                                          *)
(***************************************************************************)
EXTENDS KeyStore, TLC

CONSTANTS p1, p2, p3, k1, k2

Symmetry == Permutations({p1, p2, p3}) \cup Permutations({k1, k2})

=============================================================================
