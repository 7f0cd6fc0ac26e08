---------------------------- MODULE MCGateSetup ------------------------------
(***************************************************************************)
(* Instances of GateSetup for TLC: names of one stem, with and without an  *)
(* ordinal, so that account names and session addresses can meet.          *)
(***************************************************************************)
EXTENDS GateSetup

CONSTANTS g1, g2, bot, agent

TypedNames == {<<bot>>, <<bot, 1>>}
MadeUp == <<agent>>
OldOnes == {<<bot, 1>>, <<bot, 2>>}

Symmetry == Permutations({g1, g2})

=============================================================================
