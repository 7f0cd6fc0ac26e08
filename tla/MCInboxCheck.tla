---------------------------- MODULE MCInboxCheck ----------------------------
(***************************************************************************)
(* Instances of InboxCheck for TLC: gates of one device, two sessions'     *)
(* queues and the front door (the account address), and messages of which  *)
(* one cannot be opened.                                                   *)
(***************************************************************************)
EXTENDS InboxCheck, TLC

CONSTANTS g1, g2, g3, own1, own2, front, m1, m2, m3

\* g1 is the primary session: it drains the front door as well as its queue.
SoleChecks == (g1 :> {<<own1, front>>}) @@ (g2 :> {<<own2>>})

\* A user may also ask g2 for the other queues by name (other_queues() tells
\* it about them), so two gates can be reviewing one queue.  The client of a
\* third gate, g3, cannot show the prompt.
SharedChecks ==
  (g1 :> {<<own1, front>>}) @@ (g2 :> {<<own1>>, <<front>>})
    @@ (g3 :> {<<own1>>})

SoleAddrs == {own1, own2, front}
SharedAddrs == {own1, front}

=============================================================================
