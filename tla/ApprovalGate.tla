---------------------------- MODULE ApprovalGate ----------------------------
(***************************************************************************)
(* What the antrozous gate promises its user, with no gate, no relay and   *)
(* no request in sight:                                                    *)
(*                                                                         *)
(*   - mail waits in a queue until somebody decides on it;                 *)
(*   - only mail that has been decided on leaves a queue, oldest first;    *)
(*   - only mail the user accepted reaches the model's context.            *)
(*                                                                         *)
(* InboxCheck, which has the fetches, prompts, consumes and crashes of the *)
(* code, is shown to implement this module.                                *)
(***************************************************************************)
EXTENDS Naturals, Sequences

CONSTANTS Msgs,    \* messages, each one sent at most once
          Addrs    \* queue addresses, `<name>.<fingerprint>`

VARIABLES inbox,     \* the queues, oldest message first
          sent,      \* messages that were ever put into a queue
          settled,   \* messages accepted, declined or discarded unread
          accepted,  \* messages the user accepted
          context    \* messages handed to the model

vars == <<inbox, sent, settled, accepted, context>>

Init ==
  /\ inbox = [a \in Addrs |-> <<>>]
  /\ sent = {}
  /\ settled = {}
  /\ accepted = {}
  /\ context = {}

\* A sender's message joins the back of a queue.
Arrive(m, a) ==
  /\ m \notin sent
  /\ sent' = sent \cup {m}
  /\ inbox' = [inbox EXCEPT ![a] = Append(@, m)]
  /\ UNCHANGED <<settled, accepted, context>>

\* Somebody decides on a message: the user accepts it, or it is turned away.
Settle(m) ==
  /\ m \in sent
  /\ settled' = settled \cup {m}
  /\ \/ accepted' = accepted \cup {m}
     \/ accepted' = accepted
  /\ UNCHANGED <<inbox, sent, context>>

\* The oldest n messages of a queue leave it; every one has been decided on.
Remove(a, n) ==
  /\ \A i \in 1..n : inbox[a][i] \in settled
  /\ inbox' = [inbox EXCEPT ![a] = SubSeq(@, n + 1, Len(@))]
  /\ UNCHANGED <<sent, settled, accepted, context>>

\* Accepted messages are handed to the model.
Release(S) ==
  /\ S \subseteq accepted
  /\ context' = context \cup S
  /\ UNCHANGED <<inbox, sent, settled, accepted>>

Next ==
  \/ \E m \in Msgs, a \in Addrs : Arrive(m, a)
  \/ \E m \in Msgs : Settle(m)
  \/ \E a \in Addrs : \E n \in 0..Len(inbox[a]) : Remove(a, n)
  \/ \E S \in SUBSET Msgs : Release(S)

Spec == Init /\ [][Next]_vars

=============================================================================
