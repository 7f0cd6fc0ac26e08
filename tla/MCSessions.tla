----------------------------- MODULE MCSessions ------------------------------
(***************************************************************************)
(* Instances of Sessions for TLC.                                          *)
(***************************************************************************)
EXTENDS Sessions, TLC

CONSTANTS k1, k2, p1, p2, p3, q1, q2

Symmetry ==
  Permutations({k1, k2}) \cup Permutations({p1, p2, p3}) \cup Permutations({q1, q2})

=============================================================================
