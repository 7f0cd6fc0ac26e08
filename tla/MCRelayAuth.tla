----------------------------- MODULE MCRelayAuth -----------------------------
(***************************************************************************)
(* An instance of RelayAuth for TLC.  One tick is a minute: the window and *)
(* the nonce cache keep the code's 60 and 180 seconds, so the slack is the *)
(* code's too.  A ticket lives for two ticks instead of sixty.             *)
(***************************************************************************)
EXTENDS RelayAuth, TLC

CONSTANTS a1, a2, n1, n2, h1, h2

Symmetry ==
  Permutations({a1, a2}) \cup Permutations({n1, n2}) \cup Permutations({h1, h2})

=============================================================================
