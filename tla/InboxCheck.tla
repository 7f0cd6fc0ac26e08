----------------------------- MODULE InboxCheck -----------------------------
(***************************************************************************)
(* check_inbox: gates (one mcp_gate.py process per session) review the     *)
(* mail the relay holds.  do_check fetches its queues one after the other, *)
(* asks the user about one message at a time, consumes the decided         *)
(* messages of each queue BY COUNT, and only then returns the accepted     *)
(* ones to the model.  The relay's /send, /inbox and /consume handlers are *)
(* one atomic step each here; RelayMail takes them apart.                  *)
(*                                                                         *)
(* accepted, settled, sent and wiped are history: no code reads them.      *)
(***************************************************************************)
EXTENDS Naturals, Sequences, FiniteSets

CONSTANTS
  Gates,      \* gate processes, one per session (a crashed one comes back)
  Addrs,      \* queue addresses
  Msgs,       \* messages, each one sent at most once
  Readable,   \* the messages open_envelope can verify and decrypt
  Checks,     \* Checks[g]: the address lists gate g may be asked to review
  Elicits,    \* the gates whose client can show the approval prompt
  Unsteady,   \* the gates that may die, or lose their connection to the relay
  Faults      \* the faults that may happen, a subset of FaultKinds

\* unreachable: a GET fails; refused: a consume fails with URLError; crash: a
\* gate dies (a read timeout is not a URLError, so it ends the process too);
\* late: a consume is executed after its caller has given up on it; restart:
\* the relay, which keeps everything in memory, restarts empty.
FaultKinds == {"unreachable", "refused", "crash", "late", "restart"}

\* A list of queues to review: what inbox_addresses() or a requested agent_id
\* gives do_check, never empty and never with a queue in it twice.
AddressList(s) ==
  /\ s \in Seq(Addrs)
  /\ s # <<>>
  /\ \A i, j \in 1..Len(s) : s[i] = s[j] => i = j

ASSUME InboxCheckAssumption ==
  /\ Readable \subseteq Msgs
  /\ \A g \in Gates : \A s \in Checks[g] : AddressList(s)
  /\ Elicits \subseteq Gates
  /\ Unsteady \subseteq Gates
  /\ Faults \subseteq FaultKinds

VARIABLES
  inbox,      \* relay: address -> messages, oldest first
  pc,         \* gate: where do_check stands
  todo,       \* gate: `addresses`
  at,         \* gate: index of the address the current loop is at
  fetched,    \* gate: what GET /inbox returned, per address
  decided,    \* gate: decided_by_addr
  approved,   \* gate: the messages the user accepted in this check
  call,       \* gate: the consume request in flight, if any
  late,       \* consume requests whose caller is gone
  sent, settled, accepted, context, wiped

vars == <<inbox, pc, todo, at, fetched, decided, approved, call, late,
          sent, settled, accepted, context, wiped>>
gate == <<pc, todo, at, fetched, decided, approved, call>>
history == <<sent, settled, accepted, context, wiped>>

PCs == {"idle", "fetch", "review", "consume", "deliver"}
NoMail == [a \in Addrs |-> <<>>]

Requests == [gate : Gates, addr : Addrs, count : Nat]

TypeOK ==
  /\ inbox \in [Addrs -> Seq(Msgs)]
  /\ pc \in [Gates -> PCs]
  /\ todo \in [Gates -> Seq(Addrs)]
  /\ at \in [Gates -> Nat]
  /\ fetched \in [Gates -> [Addrs -> Seq(Msgs)]]
  /\ decided \in [Gates -> [Addrs -> Nat]]
  /\ approved \in [Gates -> SUBSET Msgs]
  /\ call \in [Gates -> {"none", "sent", "served"}]
  /\ late \subseteq Requests
  /\ sent \subseteq Msgs
  /\ settled \subseteq Msgs
  /\ accepted \subseteq Msgs
  /\ context \subseteq Msgs
  /\ wiped \subseteq Msgs
  /\ \A g \in Gates : pc[g] # "idle" => at[g] \in 1..Len(todo[g])
  /\ \A g \in Gates, a \in Addrs : decided[g][a] <= Len(fetched[g][a])

Init ==
  /\ inbox = NoMail
  /\ pc = [g \in Gates |-> "idle"]
  /\ todo = [g \in Gates |-> <<>>]
  /\ at = [g \in Gates |-> 1]
  /\ fetched = [g \in Gates |-> NoMail]
  /\ decided = [g \in Gates |-> [a \in Addrs |-> 0]]
  /\ approved = [g \in Gates |-> {}]
  /\ call = [g \in Gates |-> "none"]
  /\ late = {}
  /\ sent = {}
  /\ settled = {}
  /\ accepted = {}
  /\ context = {}
  /\ wiped = {}

Addr(g) == todo[g][at[g]]                     \* the address g is working on
NewestFirst(g) ==                             \* mutant of Current
  fetched[g][Addr(g)][Len(fetched[g][Addr(g)]) - decided[g][Addr(g)]]
Current(g) == fetched[g][Addr(g)][decided[g][Addr(g)] + 1]  \* message shown
MoreToReview(g) == decided[g][Addr(g)] < Len(fetched[g][Addr(g)])

-----------------------------------------------------------------------------
(* The relay. *)

\* POST /send: append to the addressee's queue.
Send(m, a) ==
  /\ m \notin sent
  /\ sent' = sent \cup {m}
  /\ inbox' = [inbox EXCEPT ![a] = Append(@, m)]
  /\ UNCHANGED <<gate, late, settled, accepted, context, wiped>>

Smaller(i, j) == IF i < j THEN i ELSE j

AfterConsumeAll(queue, count) == <<>>         \* mutant: count is ignored

\* consume_inbox: the oldest `count` messages leave the queue, whatever they
\* are by now.
AfterConsume(queue, count) ==
  SubSeq(queue, Smaller(count, Len(queue)) + 1, Len(queue))

\* The relay executes the consume g is waiting for.
ServeConsume(g) ==
  /\ call[g] = "sent"
  /\ inbox' = [inbox EXCEPT ![Addr(g)] =
                 AfterConsume(@, decided[g][Addr(g)])]
  /\ call' = [call EXCEPT ![g] = "served"]
  /\ UNCHANGED <<pc, todo, at, fetched, decided, approved, late, history>>

\* The relay executes a consume nobody is waiting for any more.
ServeLate(r) ==
  /\ r \in late
  /\ late' = late \ {r}
  /\ inbox' = [inbox EXCEPT ![r.addr] = AfterConsume(@, r.count)]
  /\ UNCHANGED <<gate, history>>

\* `inboxes` lives in memory only.
RelayRestart ==
  /\ "restart" \in Faults
  /\ wiped' = wiped \cup UNION {{inbox[a][i] : i \in 1..Len(inbox[a])} :
                                  a \in Addrs}
  /\ inbox' = NoMail
  /\ UNCHANGED <<gate, late, sent, settled, accepted, context>>

-----------------------------------------------------------------------------
(* do_check. *)

\* The locals of do_check at entry, and after its tool_result.
StartWith(g, addresses, phase) ==
  /\ pc' = [pc EXCEPT ![g] = phase]
  /\ todo' = [todo EXCEPT ![g] = addresses]
  /\ at' = [at EXCEPT ![g] = 1]
  /\ fetched' = [fetched EXCEPT ![g] = NoMail]
  /\ decided' = [decided EXCEPT ![g] = [a \in Addrs |-> 0]]
  /\ approved' = [approved EXCEPT ![g] = {}]
  /\ call' = [call EXCEPT ![g] = "none"]

Check(g, addresses) ==
  /\ pc[g] = "idle"
  /\ addresses \in Checks[g]
  /\ StartWith(g, addresses, "fetch")
  /\ UNCHANGED <<inbox, late, history>>

\* GET /inbox of one address.  After the last one: nothing pending, or no way
\* to ask, ends the check; otherwise the review starts at the first queue.
Fetch(g) ==
  LET got == [fetched[g] EXCEPT ![Addr(g)] = inbox[Addr(g)]]
      last == at[g] = Len(todo[g])
      empty == \A a \in Addrs : got[a] = <<>>
  IN /\ pc[g] = "fetch"
     /\ \/ /\ ~last
           /\ fetched' = [fetched EXCEPT ![g] = got]
           /\ at' = [at EXCEPT ![g] = @ + 1]
           /\ UNCHANGED <<pc, todo, decided, approved, call>>
        \/ /\ last
           /\ ~empty
           /\ g \in Elicits
           /\ fetched' = [fetched EXCEPT ![g] = got]
           /\ pc' = [pc EXCEPT ![g] = "review"]
           /\ at' = [at EXCEPT ![g] = 1]
           /\ UNCHANGED <<todo, decided, approved, call>>
        \/ /\ last
           /\ empty \/ g \notin Elicits
           /\ StartWith(g, <<>>, "idle")
     /\ UNCHANGED <<inbox, late, history>>

\* A GET that raises URLError ends the check with an error result.
FetchFails(g) ==
  /\ "unreachable" \in Faults
  /\ g \in Unsteady
  /\ pc[g] = "fetch"
  /\ StartWith(g, <<>>, "idle")
  /\ UNCHANGED <<inbox, late, history>>

\* One message of the review loop is decided on.
Decide(g) ==
  /\ pc[g] = "review"
  /\ MoreToReview(g)
  /\ decided' = [decided EXCEPT ![g][Addr(g)] = @ + 1]
  /\ settled' = settled \cup {Current(g)}
  /\ UNCHANGED <<inbox, pc, todo, at, fetched, call, late, sent, context,
                 wiped>>

Accept(g) ==
  /\ Decide(g)
  /\ Current(g) \in Readable
  /\ approved' = [approved EXCEPT ![g] = @ \cup {Current(g)}]
  /\ accepted' = accepted \cup {Current(g)}

DeclineDiscloses(g) ==                        \* mutant of Decline
  /\ Decide(g)
  /\ Current(g) \in Readable
  /\ approved' = [approved EXCEPT ![g] = @ \cup {Current(g)}]
  /\ UNCHANGED accepted

Decline(g) ==
  /\ Decide(g)
  /\ Current(g) \in Readable
  /\ UNCHANGED <<approved, accepted>>

\* open_envelope returned no fields: nobody is asked, and the message counts
\* as decided.
Reject(g) ==
  /\ Decide(g)
  /\ Current(g) \notin Readable
  /\ UNCHANGED <<approved, accepted>>

DismissDecides(g) ==                          \* mutant: counted as decided
  /\ pc[g] = "review"
  /\ MoreToReview(g)
  /\ Current(g) \in Readable
  /\ decided' = [decided EXCEPT ![g][Addr(g)] = @ + 1]
  /\ pc' = [pc EXCEPT ![g] = "consume"]
  /\ at' = [at EXCEPT ![g] = 1]
  /\ UNCHANGED <<inbox, todo, fetched, approved, call, late, history>>

DismissForgets(g) ==                          \* mutant: drops the accepted
  /\ pc[g] = "review"
  /\ MoreToReview(g)
  /\ Current(g) \in Readable
  /\ StartWith(g, <<>>, "idle")
  /\ UNCHANGED <<inbox, late, history>>

\* The prompt is dismissed (cancel, an error reply or end of input): this
\* message and everything behind it stay pending.
Dismiss(g) ==
  /\ pc[g] = "review"
  /\ MoreToReview(g)
  /\ Current(g) \in Readable
  /\ pc' = [pc EXCEPT ![g] = "consume"]
  /\ at' = [at EXCEPT ![g] = 1]
  /\ UNCHANGED <<inbox, todo, fetched, decided, approved, call, late, history>>

FirstQueueOnly(g) ==                          \* mutant of NextQueue
  /\ pc[g] = "review"
  /\ ~MoreToReview(g)
  /\ at' = [at EXCEPT ![g] = 1]
  /\ pc' = [pc EXCEPT ![g] = "consume"]
  /\ UNCHANGED <<inbox, todo, fetched, decided, approved, call, late, history>>

\* The queue at hand is reviewed to its end: the next one, or on to consuming.
NextQueue(g) ==
  /\ pc[g] = "review"
  /\ ~MoreToReview(g)
  /\ \/ /\ at[g] < Len(todo[g])
        /\ at' = [at EXCEPT ![g] = @ + 1]
        /\ pc' = pc
     \/ /\ at[g] = Len(todo[g])
        /\ at' = [at EXCEPT ![g] = 1]
        /\ pc' = [pc EXCEPT ![g] = "consume"]
  /\ UNCHANGED <<inbox, todo, fetched, decided, approved, call, late, history>>

AdvanceTooFar(g) ==                           \* mutant: one address too many
  \/ /\ at[g] <= Len(todo[g])
     /\ at' = [at EXCEPT ![g] = @ + 1]
     /\ pc' = pc
  \/ /\ at[g] > Len(todo[g])
     /\ pc' = [pc EXCEPT ![g] = "deliver"]
     /\ at' = at

\* The consume loop moves on to its next address, or ends.
Advance(g) ==
  \/ /\ at[g] < Len(todo[g])
     /\ at' = [at EXCEPT ![g] = @ + 1]
     /\ pc' = pc
  \/ /\ at[g] = Len(todo[g])
     /\ pc' = [pc EXCEPT ![g] = "deliver"]
     /\ at' = at

SkipEveryConsume(g) ==                        \* mutant of SkipConsume
  /\ pc[g] = "consume"
  /\ call[g] = "none"
  /\ Advance(g)
  /\ UNCHANGED <<inbox, todo, fetched, decided, approved, call, late, history>>

\* `if not decided: continue`
SkipConsume(g) ==
  /\ pc[g] = "consume"
  /\ call[g] = "none"
  /\ decided[g][Addr(g)] = 0
  /\ Advance(g)
  /\ UNCHANGED <<inbox, todo, fetched, decided, approved, call, late, history>>

\* POST /inbox/<addr>/consume?count=<decided>
SendConsume(g) ==
  /\ pc[g] = "consume"
  /\ call[g] = "none"
  /\ decided[g][Addr(g)] > 0
  /\ call' = [call EXCEPT ![g] = "sent"]
  /\ UNCHANGED <<inbox, pc, todo, at, fetched, decided, approved, late,
                 history>>

ConsumeReturns(g) ==
  /\ call[g] = "served"
  /\ call' = [call EXCEPT ![g] = "none"]
  /\ Advance(g)
  /\ UNCHANGED <<inbox, todo, fetched, decided, approved, late, history>>

Orphan(g) == [gate |-> g, addr |-> Addr(g), count |-> decided[g][Addr(g)]]

\* What becomes of a request whose caller stops waiting: it never arrives, or
\* the relay still gets to it.
Abandon(g) ==
  \/ late' = late
  \/ /\ "late" \in Faults
     /\ late' = late \cup {Orphan(g)}

\* A consume that raises URLError is logged and the check carries on.
ConsumeFails(g) ==
  /\ "refused" \in Faults
  /\ g \in Unsteady
  /\ call[g] = "sent"
  /\ Abandon(g)
  /\ call' = [call EXCEPT ![g] = "none"]
  /\ Advance(g)
  /\ UNCHANGED <<inbox, todo, fetched, decided, approved, history>>

\* The accepted messages become the tool's result, which the model reads.
Deliver(g) ==
  /\ pc[g] = "deliver"
  /\ context' = context \cup approved[g]
  /\ StartWith(g, <<>>, "idle")
  /\ UNCHANGED <<inbox, late, sent, settled, accepted, wiped>>

\* The gate dies, everything do_check held with it; the session comes back.
Crash(g) ==
  /\ "crash" \in Faults
  /\ g \in Unsteady
  /\ pc[g] # "idle"
  /\ IF call[g] = "sent" THEN Abandon(g) ELSE late' = late
  /\ StartWith(g, <<>>, "idle")
  /\ UNCHANGED <<inbox, history>>

-----------------------------------------------------------------------------

GateStep(g) ==
  \/ Fetch(g)
  \/ FetchFails(g)
  \/ Reject(g)
  \/ NextQueue(g)
  \/ SkipConsume(g)
  \/ SendConsume(g)
  \/ ConsumeReturns(g)
  \/ ConsumeFails(g)
  \/ Deliver(g)

UserStep(g) ==
  \/ \E addresses \in Checks[g] : Check(g, addresses)
  \/ Accept(g)
  \/ Decline(g)
  \/ Dismiss(g)

Next ==
  \/ \E m \in Msgs, a \in Addrs : Send(m, a)
  \/ \E g \in Gates : GateStep(g) \/ UserStep(g) \/ ServeConsume(g) \/ Crash(g)
  \/ \E r \in late : ServeLate(r)
  \/ RelayRestart

Spec == Init /\ [][Next]_vars

-----------------------------------------------------------------------------
(* What makes it correct. *)

\* Each queue is read by at most one gate, as inbox_addresses() intends:
\* "a session never reads another live session's mail".
SoleReader ==
  \A g, h \in Gates : g # h =>
    \A s \in Checks[g], t \in Checks[h] :
      \A i \in 1..Len(s), j \in 1..Len(t) : s[i] # t[j]

InSomeQueue(m) == \E a \in Addrs : \E i \in 1..Len(inbox[a]) : inbox[a][i] = m

\* No message is silently consumed: what the relay accepted is still queued,
\* was decided on (or discarded as unreadable), or went with the relay's own
\* memory.  do_check consumes by count, so this needs the count to be about
\* the messages that were reviewed.
NothingUndecidedLost ==
  \A m \in sent : InSomeQueue(m) \/ m \in settled \/ m \in wiped

\* Only what the user accepted, and only what open_envelope could verify,
\* ever reaches the model.
ContextOnlyApproved == context \subseteq accepted \cap Readable

\* do_check works oldest-first and stops at the first dismissal, "so the
\* decided messages are the contiguous front": in every queue the messages
\* already decided on come before those that are not.
DecidedIsFront ==
  \A a \in Addrs : \A i, j \in 1..Len(inbox[a]) :
    i < j /\ inbox[a][j] \in settled => inbox[a][i] \in settled

Steady == Gates \ Unsteady

\* No prompt is repeated: a gate whose requests are answered, and which does not
\* die, never asks about a message that was decided on, whatever happens to the
\* others.  Only its own failed consume or crash could bring the message back.
DecidedOnce ==
  [][\A g \in Steady : Decide(g) => Current(g) \notin settled]_vars

\* The promise, stated without gates and requests.
Promise == INSTANCE ApprovalGate
KeepsThePromise == Promise!Spec

-----------------------------------------------------------------------------
(* Liveness.  The gate is a loop that never blocks except on the user and on *)
(* the relay, the relay answers every request, and the standing doorbell     *)
(* instruction (skills/antrozous-inbox) makes every session check again and  *)
(* again.  A user may dismiss prompts, but does not do so for ever.          *)

CheckAgain(g) == \E addresses \in Checks[g] : Check(g, addresses)
Answer(g) == Accept(g) \/ Decline(g)

Fairness ==
  \A g \in Gates :
    /\ WF_vars(GateStep(g))
    /\ WF_vars(ServeConsume(g))
    /\ SF_vars(Answer(g))
    /\ WF_vars(CheckAgain(g))

FairSpec == Spec /\ Fairness

\* The queues that a steady gate reviews in each of its checks, and can ask
\* its user about.
Watched ==
  {a \in Addrs : \E g \in Steady \cap Elicits :
     \A s \in Checks[g] : \E i \in 1..Len(s) : s[i] = a}

\* All mail in a queue that is watched is decided on in the end, behind
\* dismissals, in either queue of a session and beside gates that fail.
MailIsSettled ==
  \A a \in Watched, m \in Msgs :
    (\E i \in 1..Len(inbox[a]) : inbox[a][i] = m) ~> m \in settled

\* What the user of a steady gate accepted does reach the model.
ApprovedIsDelivered ==
  \A g \in Steady, m \in Msgs : m \in approved[g] ~> m \in context

=============================================================================
