------------------------------ MODULE RelayMail ------------------------------
(***************************************************************************)
(* One queue of the relay, down to the interleaving of its handlers, and   *)
(* the doorbell that tells a listening session about it.                   *)
(*                                                                         *)
(* send_message and ws_inbox are coroutines: they share the event loop and *)
(* only change places at an await.  consume_inbox is a plain function: it  *)
(* runs in a thread of its own, between any two bytecodes of the others.   *)
(* It does not change the list it reads but builds a new one and puts that *)
(* in its place, so a handler may hold a list that is no longer the queue: *)
(* lists are kept here by identity.                                        *)
(*                                                                         *)
(* The relay is not restarted in this module; InboxCheck does that.  The   *)
(* queue's empty list exists from the start: a reader never gets to        *)
(* consume_inbox before it has been shown a message.                       *)
(***************************************************************************)
EXTENDS SequencesExt

CONSTANTS
  Messages,    \* what will be sent to this queue, each once
  Readers,     \* gates that drain the queue
  Listener,    \* the one whose listener holds a WebSocket open
  Conns        \* the listener's successive connections

ASSUME RelayMailAssumption == Listener \in Readers

VARIABLES
  lists,       \* every list object ever created
  queue,       \* inboxes[agent_id]: the index of one of them
  sending,     \* message -> where its send_message stands
  into,        \* message -> while appending, the list whose append was looked up
  bells,       \* message -> connections its doorbell has yet to reach
  dead,        \* message -> connections its doorbell found broken
  conn,        \* connection -> "new", "open", "cut" or "closed"
  active,      \* manager.active[agent_id]
  told,        \* a frame has asked the listener for a check_inbox
  reading,     \* reader -> where its do_check stands
  returned,    \* messages some consume has returned (history)
  shown,       \* messages some GET has returned (history)
  overlapped   \* messages a consume of another list overtook (history)

relay == <<lists, queue, sending, into, bells, dead, active>>
vars == <<lists, queue, sending, into, bells, dead, conn, active, told,
          reading, returned, shown, overlapped>>

Queue == lists[queue]
Queued == ToSet(Queue)

Idle == [at |-> "idle"]
Reviewing(got) == [at |-> "reviewing", got |-> got]
Consuming(from, count) == [at |-> "consuming", from |-> from, count |-> count]

TypeOK ==
  /\ lists \in Seq(Seq(Messages))
  /\ queue \in DOMAIN lists
  /\ sending \in [Messages -> {"unsent", "appending", "ringing", "sent"}]
  /\ into \in [Messages -> DOMAIN lists]
  /\ bells \in [Messages -> SUBSET Conns]
  /\ dead \in [Messages -> SUBSET Conns]
  /\ conn \in [Conns -> {"new", "open", "cut", "closed"}]
  /\ active \subseteq {c \in Conns : conn[c] \in {"open", "cut"}}
  /\ told \in BOOLEAN
  /\ DOMAIN reading = Readers
  /\ \A r \in Readers :
       \/ reading[r] = Idle
       \/ reading[r].at = "reviewing" /\ reading[r].got \in Seq(Messages) \ {<<>>}
       \/ reading[r].at = "consuming" /\ reading[r].from \in DOMAIN lists
  /\ returned \cup shown \cup overlapped \subseteq Messages

Init ==
  /\ lists = << <<>> >>
  /\ queue = 1
  /\ sending = [m \in Messages |-> "unsent"]
  /\ into = [m \in Messages |-> 1]
  /\ bells = [m \in Messages |-> {}]
  /\ dead = [m \in Messages |-> {}]
  /\ conn = [c \in Conns |-> "new"]
  /\ active = {}
  /\ told = FALSE
  /\ reading = [r \in Readers |-> Idle]
  /\ returned = {}
  /\ shown = {}
  /\ overlapped = {}

-----------------------------------------------------------------------------
(* send_message, on the event loop. *)

\* No coroutine is between two awaits.
LoopFree == \A m \in Messages : sending[m] # "appending"

\* inboxes[msg.to_agent].append is looked up; msg.model_dump runs.
LookUp(m) ==
  /\ LoopFree
  /\ sending[m] = "unsent"
  /\ sending' = [sending EXCEPT ![m] = "appending"]
  /\ into' = [into EXCEPT ![m] = queue]
  /\ UNCHANGED <<lists, queue, bells, dead, conn, active, told, reading,
                 returned, shown, overlapped>>

Appended(l, m) == Append(l, m)

\* The message goes into that list and the doorbell takes its snapshot of the
\* connections; there is no await between the two.
AppendTo(m) ==
  /\ sending[m] = "appending"
  /\ lists' = [lists EXCEPT ![into[m]] = Appended(@, m)]
  /\ bells' = [bells EXCEPT ![m] = active]
  /\ sending' = [sending EXCEPT ![m] = "ringing"]
  /\ into' = [into EXCEPT ![m] = 1]
  /\ UNCHANGED <<queue, dead, conn, active, told, reading, returned,
                 shown, overlapped>>

\* One turn of the doorbell's loop: send_text, or the connection is broken.
Ring(m, c) ==
  /\ LoopFree
  /\ sending[m] = "ringing"
  /\ c \in bells[m]
  /\ bells' = [bells EXCEPT ![m] = @ \ {c}]
  /\ IF conn[c] = "open"
       THEN told' = TRUE /\ UNCHANGED dead
       ELSE dead' = [dead EXCEPT ![m] = @ \cup {c}] /\ UNCHANGED told
  /\ UNCHANGED <<lists, queue, sending, into, conn, active, reading, returned,
                 shown, overlapped>>

\* Mutant: one broken connection takes every connection of the agent along.
ForgetAll(m) == IF dead[m] = {} THEN active ELSE {}

StillActive(m) == active \ dead[m]

\* The broken connections are forgotten and the sender has its answer.
Answer(m) ==
  /\ LoopFree
  /\ sending[m] = "ringing"
  /\ bells[m] = {}
  /\ active' = StillActive(m)
  /\ dead' = [dead EXCEPT ![m] = {}]
  /\ sending' = [sending EXCEPT ![m] = "sent"]
  /\ UNCHANGED <<lists, queue, into, bells, conn, told, reading, returned,
                 shown, overlapped>>

-----------------------------------------------------------------------------
(* ws_inbox, on the event loop, and the network under it. *)

\* Mutant: the connected frame asks for nothing.
BacklogIgnored == told

\* A connected frame asks for a check if it reports a backlog.
BacklogTold == told \/ Queue # <<>>

\* The connection is registered and told the backlog without an await between.
Connect(c) ==
  /\ LoopFree
  /\ conn[c] = "new"
  /\ \A d \in Conns : conn[d] # "open"
  /\ conn' = [conn EXCEPT ![c] = "open"]
  /\ active' = active \cup {c}
  /\ told' = BacklogTold
  /\ UNCHANGED <<lists, queue, sending, into, bells, dead, reading, returned,
                 shown, overlapped>>

\* The network drops the connection; the listener will open another.
Cut(c) ==
  /\ conn[c] = "open"
  /\ \E d \in Conns : conn[d] = "new"
  /\ conn' = [conn EXCEPT ![c] = "cut"]
  /\ UNCHANGED <<relay, told, reading, returned, shown, overlapped>>

\* Mutant: manager.disconnect is not called.
StillThere(c) == active

Without(c) == active \ {c}

\* The relay notices: receive_text raises.
Disconnect(c) ==
  /\ LoopFree
  /\ conn[c] = "cut"
  /\ conn' = [conn EXCEPT ![c] = "closed"]
  /\ active' = Without(c)
  /\ UNCHANGED <<lists, queue, sending, into, bells, dead, told, reading,
                 returned, shown, overlapped>>

-----------------------------------------------------------------------------
(* The readers: get_inbox, the user's decisions, consume_inbox. *)

\* A check_inbox, asked for by a frame or by the user.
Check(r) ==
  /\ reading[r] = Idle
  /\ reading' = [reading EXCEPT ![r] =
       IF Queue = <<>> THEN Idle ELSE Reviewing(Queue)]
  /\ told' = (told /\ r # Listener)
  /\ shown' = shown \cup Queued
  /\ UNCHANGED <<relay, conn, returned, overlapped>>

\* Nothing was decided: nothing is consumed.
LeaveAll(r) ==
  /\ reading[r].at = "reviewing"
  /\ reading' = [reading EXCEPT ![r] = Idle]
  /\ UNCHANGED <<relay, conn, told, returned, shown, overlapped>>

\* The user decided the first k; consume_inbox reads inboxes[agent_id].
BeginConsume(r, k) ==
  /\ reading[r].at = "reviewing"
  /\ k \in DOMAIN reading[r].got
  /\ reading' = [reading EXCEPT ![r] = Consuming(queue, k)]
  /\ UNCHANGED <<relay, conn, told, returned, shown, overlapped>>

\* Mutant: one more than asked for is cut off.
CutOne(l, k) == SubSeq(l, k + 2, Len(l))

Cutoff(l, k) == SubSeq(l, k + 1, Len(l))
LeastOf(a, b) == IF a <= b THEN a ELSE b

\* What a consume of the list l overtakes: messages on their way into the
\* list it retires, and those in a newer list than the one it read.
Overtaken(l) ==
  {m \in Messages : sending[m] = "appending"}
    \cup (IF l = queue THEN {} ELSE Queued)

\* The list it read is sliced and the rest replaces the queue: no call comes
\* between, so no other thread does either.
Replace(r) ==
  /\ reading[r].at = "consuming"
  /\ LET pending == lists[reading[r].from]
         n == LeastOf(reading[r].count, Len(pending))
     IN /\ lists' = Append(lists, Cutoff(pending, n))
        /\ returned' = returned \cup ToSet(SubSeq(pending, 1, n))
  /\ queue' = Len(lists')
  /\ overlapped' = overlapped \cup Overtaken(reading[r].from)
  /\ reading' = [reading EXCEPT ![r] = Idle]
  /\ UNCHANGED <<sending, into, bells, dead, conn, active, told, shown>>

-----------------------------------------------------------------------------

Sending(m) == LookUp(m) \/ AppendTo(m) \/ (\E c \in Conns : Ring(m, c)) \/ Answer(m)
Reading(r) == LeaveAll(r) \/ (\E k \in 1..Cardinality(Messages) : BeginConsume(r, k))
                \/ Replace(r)

Next ==
  \/ \E m \in Messages : Sending(m)
  \/ \E c \in Conns : Connect(c) \/ Cut(c) \/ Disconnect(c)
  \/ \E r \in Readers : Check(r) \/ Reading(r)

Spec == Init /\ [][Next]_vars

\* Coroutines that were started run on; the listener reconnects and answers a
\* frame; a check that was begun is brought to its end.  Nobody has to send,
\* and nobody has to look at the inbox unasked.
Fairness ==
  /\ \A m \in Messages : WF_vars(AppendTo(m))
  /\ \A m \in Messages : WF_vars((\E c \in Conns : Ring(m, c)) \/ Answer(m))
  /\ WF_vars(\E c \in Conns : Connect(c))
  /\ WF_vars(told /\ Check(Listener))
  /\ \A r \in Readers : WF_vars(Reading(r))

FairSpec == Spec /\ Fairness

-----------------------------------------------------------------------------
(* What makes it correct. *)

\* A message the relay has stored.
Stored(m) == sending[m] \in {"ringing", "sent"}

\* A stored message stays queued until a consume has returned it, unless a
\* consume ran between the lookup of the list and the append, or two consumes
\* ran together: these overlaps are the only way to lose mail.
OnlyOverlapLoses ==
  \A m \in Messages :
    Stored(m) /\ m \notin overlapped => m \in Queued \cup returned

\* "So a client that reconnects doesn't miss a backlog; thereafter one doorbell
\* per new message": while an unseen message is queued, a listener with an open
\* connection has been told or is about to be.  (What one consume returned or
\* overtook, another that runs with it can put back in the queue, silently.)
NoDeafListener ==
  \A m \in Queued \ (shown \cup returned \cup overlapped), c \in Conns :
    conn[c] = "open" => told \/ \E other \in Messages : c \in bells[other]

\* A queued message is read in the end without anybody looking unasked, unless
\* another reader's consume has taken it first or overtook it on its way.
MailIsHeard ==
  \A m \in Messages :
    m \in Queued ~> m \in shown \cup returned \cup overlapped

=============================================================================
