-------------------------- MODULE InboxCheckProofs --------------------------
(***************************************************************************)
(* Theorems about InboxCheck, for every number of gates, queues and        *)
(* messages.                                                               *)
(***************************************************************************)
EXTENDS InboxCheck, SequenceTheorems, TLAPS

\* What TypeOK needs to be inductive: a busy gate works through one of its own
\* address lists, nothing is decided before the review, and a consume is in
\* flight only in the consume loop.
GateInv ==
  \A g \in Gates :
    /\ pc[g] # "idle" => todo[g] \in Checks[g]
    /\ pc[g] \in {"idle", "fetch"} => decided[g] = [a \in Addrs |-> 0]
    /\ call[g] # "none" => pc[g] = "consume"

TypeInv == TypeOK /\ GateInv

-----------------------------------------------------------------------------
(* Facts about the operators. *)

\* What is left of a queue after a consume is the queue without its front.
LEMMA AfterConsumeFacts ==
  ASSUME NEW S, NEW q \in Seq(S), NEW n \in Nat
  PROVE  /\ Smaller(n, Len(q)) \in 0..Len(q)
         /\ AfterConsume(q, n) \in Seq(S)
         /\ Len(AfterConsume(q, n)) = Len(q) - Smaller(n, Len(q))
         /\ \A i \in 1..Len(AfterConsume(q, n)) :
              AfterConsume(q, n)[i] = q[i + Smaller(n, Len(q))]
<1>1. Smaller(n, Len(q)) \in 0..Len(q)
  BY DEF Smaller
<1>2. Len(q) \in Nat /\ \A i \in 1..Len(q) : q[i] \in S
  OBVIOUS
<1>3. \A i \in Smaller(n, Len(q)) + 1..Len(q) : q[i] \in S
  BY <1>1, <1>2
<1>4. /\ AfterConsume(q, n) \in Seq(S)
      /\ Len(AfterConsume(q, n)) = Len(q) - Smaller(n, Len(q))
  BY <1>1, <1>2, <1>3, SubSeqProperties DEF AfterConsume
<1>5. \A i \in 1..Len(AfterConsume(q, n)) :
        AfterConsume(q, n)[i] = q[i + Smaller(n, Len(q))]
  BY <1>1, <1>2, <1>3, SubSeqProperties DEF AfterConsume
<1>6. QED
  BY <1>1, <1>4, <1>5

\* An address list a gate may be given is a non-empty list without repetition.
LEMMA ChecksAreLists ==
  ASSUME NEW g \in Gates, NEW s \in Checks[g]
  PROVE  /\ s \in Seq(Addrs)
         /\ Len(s) \in Nat
         /\ Len(s) >= 1
         /\ 1 \in 1..Len(s)
         /\ \A i, j \in 1..Len(s) : s[i] = s[j] => i = j
<1>1. AddressList(s)
  BY InboxCheckAssumption
<1>2. s \in Seq(Addrs) /\ s # <<>>
  BY <1>1 DEF AddressList
<1>3. Len(s) \in Nat /\ Len(s) >= 1
  BY <1>2
<1>4. QED
  BY <1>1, <1>2, <1>3 DEF AddressList

\* A busy gate works on an address of its list.
LEMMA BusyAddr ==
  ASSUME TypeInv, NEW g \in Gates, pc[g] # "idle"
  PROVE  /\ todo[g] \in Checks[g]
         /\ todo[g] \in Seq(Addrs)
         /\ Len(todo[g]) \in Nat
         /\ at[g] \in 1..Len(todo[g])
         /\ Addr(g) \in Addrs
BY ChecksAreLists DEF TypeInv, TypeOK, GateInv, Addr

\* A gate that (re)starts a check, or ends one, leaves the gates in order.
LEMMA StartWithKeepsTypes ==
  ASSUME TypeInv, NEW g \in Gates, NEW s, NEW p,
         StartWith(g, s, p),
         \/ p = "idle" /\ s = <<>>
         \/ p = "fetch" /\ s \in Checks[g],
         inbox' = inbox, late' \subseteq Requests,
         sent' = sent, settled' = settled, accepted' = accepted,
         context' \subseteq Msgs, wiped' = wiped
  PROVE  TypeInv'
<1> USE DEF TypeInv, TypeOK, StartWith
<1>1. NoMail \in [Addrs -> Seq(Msgs)] /\ \A a \in Addrs : Len(NoMail[a]) = 0
  BY DEF NoMail
<1>2. s \in Seq(Addrs) /\ p \in PCs /\ (p # "idle" => 1 \in 1..Len(s))
  <2>1. CASE p = "idle" /\ s = <<>>
    BY <2>1 DEF PCs
  <2>2. CASE p = "fetch" /\ s \in Checks[g]
    BY <2>2, ChecksAreLists DEF PCs
  <2>3. QED
    BY <2>1, <2>2
<1>3. /\ pc' \in [Gates -> PCs]
      /\ todo' \in [Gates -> Seq(Addrs)]
      /\ at' \in [Gates -> Nat]
      /\ fetched' \in [Gates -> [Addrs -> Seq(Msgs)]]
      /\ decided' \in [Gates -> [Addrs -> Nat]]
      /\ approved' \in [Gates -> SUBSET Msgs]
      /\ call' \in [Gates -> {"none", "sent", "served"}]
  BY <1>1, <1>2
<1>4. \A h \in Gates : pc'[h] # "idle" => at'[h] \in 1..Len(todo'[h])
  BY <1>2
<1>5. \A h \in Gates, a \in Addrs : decided'[h][a] <= Len(fetched'[h][a])
  BY <1>1
<1>6. GateInv'
  BY DEF GateInv
<1>7. TypeOK'
  BY <1>3, <1>4, <1>5
<1>8. QED
  BY <1>6, <1>7

\* A gate in the review or the consume loop that moves to a position of its
\* list leaves the gates in order.
LEMMA MoveKeepsTypes ==
  ASSUME TypeInv, NEW g \in Gates, pc[g] \in {"review", "consume"},
         NEW p \in {"review", "consume", "deliver"},
         NEW k \in 1..Len(todo[g]),
         NEW c \in {"none", "sent", "served"},
         c # "none" => p = "consume",
         pc' = [pc EXCEPT ![g] = p],
         at' = [at EXCEPT ![g] = k],
         call' = [call EXCEPT ![g] = c],
         UNCHANGED <<inbox, todo, fetched, decided, approved, history>>,
         late' \subseteq Requests
  PROVE  TypeInv'
<1> USE DEF TypeInv, TypeOK
<1>1. Len(todo[g]) \in Nat /\ k \in Nat
  BY BusyAddr
<1>2. /\ pc' \in [Gates -> PCs]
      /\ at' \in [Gates -> Nat]
      /\ call' \in [Gates -> {"none", "sent", "served"}]
  BY <1>1 DEF PCs
<1>3. \A h \in Gates : pc'[h] # "idle" => at'[h] \in 1..Len(todo'[h])
  BY DEF history
<1>4. GateInv'
  BY DEF GateInv
<1>5. TypeOK'
  BY <1>2, <1>3 DEF history
<1>6. QED
  BY <1>4, <1>5

\* The consume loop's next position is one of its list.
LEMMA AdvanceMoves ==
  ASSUME TypeInv, NEW g \in Gates, pc[g] = "consume", Advance(g)
  PROVE  \E p \in {"consume", "deliver"}, k \in 1..Len(todo[g]) :
           /\ pc' = [pc EXCEPT ![g] = p]
           /\ at' = [at EXCEPT ![g] = k]
           /\ p = "deliver" => k = at[g] /\ k = Len(todo[g])
           /\ p = "consume" => k = at[g] + 1
<1>1. Len(todo[g]) \in Nat /\ at[g] \in 1..Len(todo[g])
  BY BusyAddr
<1>2. pc = [pc EXCEPT ![g] = pc[g]] /\ at = [at EXCEPT ![g] = at[g]]
  BY DEF TypeInv, TypeOK
<1>3. CASE at[g] < Len(todo[g])
  BY <1>1, <1>2, <1>3 DEF Advance
<1>4. CASE at[g] = Len(todo[g])
  BY <1>1, <1>2, <1>4 DEF Advance
<1>5. QED
  BY <1>1, <1>3, <1>4

-----------------------------------------------------------------------------
(* Type correctness. *)

LEMMA InitTypes == Init => TypeInv
BY DEF Init, TypeInv, TypeOK, GateInv, NoMail, PCs

\* Every step keeps the types and the gates' bookkeeping in order.
LEMMA NextTypes ==
  ASSUME TypeInv, [Next]_vars
  PROVE  TypeInv'
<1> USE DEF TypeInv
<1>1. ASSUME NEW m \in Msgs, NEW a \in Addrs, Send(m, a)
      PROVE  TypeInv'
  BY <1>1 DEF Send, TypeOK, GateInv, gate
<1>2. ASSUME NEW g \in Gates, ServeConsume(g)
      PROVE  TypeInv'
  <2>1. pc[g] = "consume" /\ Addr(g) \in Addrs /\ decided[g][Addr(g)] \in Nat
    BY <1>2, BusyAddr DEF ServeConsume, GateInv, TypeOK
  <2>2. AfterConsume(inbox[Addr(g)], decided[g][Addr(g)]) \in Seq(Msgs)
    BY <2>1, AfterConsumeFacts DEF TypeOK
  <2>3. QED
    BY <1>2, <2>1, <2>2 DEF ServeConsume, TypeOK, GateInv, history
<1>3. ASSUME NEW r \in late, ServeLate(r)
      PROVE  TypeInv'
  <2>1. r.addr \in Addrs /\ r.count \in Nat
    BY DEF TypeOK, Requests
  <2>2. AfterConsume(inbox[r.addr], r.count) \in Seq(Msgs)
    BY <2>1, AfterConsumeFacts DEF TypeOK
  <2>3. QED
    BY <1>3, <2>1, <2>2 DEF ServeLate, TypeOK, GateInv, history, gate
<1>4. CASE RelayRestart
  <2>1. NoMail \in [Addrs -> Seq(Msgs)]
    BY DEF NoMail
  <2>2. \A a \in Addrs : \A i \in 1..Len(inbox[a]) : inbox[a][i] \in Msgs
    BY DEF TypeOK
  <2>3. wiped' \subseteq Msgs
    BY <1>4, <2>2 DEF RelayRestart, TypeOK
  <2>4. QED
    BY <1>4, <2>1, <2>3 DEF RelayRestart, TypeOK, GateInv, gate
<1>5. ASSUME NEW g \in Gates, NEW s \in Checks[g], Check(g, s)
      PROVE  TypeInv'
  <2>1. s \in Seq(Addrs)
    BY ChecksAreLists
  <2>2. QED
    BY <1>5, <2>1, StartWithKeepsTypes DEF Check, PCs, TypeOK, history
<1>6. ASSUME NEW g \in Gates, Fetch(g)
      PROVE  TypeInv'
  <2> DEFINE got == [fetched[g] EXCEPT ![Addr(g)] = inbox[Addr(g)]]
  <2>1. pc[g] = "fetch"
    BY <1>6 DEF Fetch
  <2>2. /\ at[g] \in 1..Len(todo[g]) /\ Addr(g) \in Addrs
        /\ Len(todo[g]) \in Nat /\ todo[g] \in Checks[g]
    BY <2>1, BusyAddr
  <2>3. got \in [Addrs -> Seq(Msgs)] /\ decided[g] = [a \in Addrs |-> 0]
    BY <2>1, <2>2 DEF TypeOK, GateInv
  <2>4. CASE /\ at[g] # Len(todo[g])
             /\ fetched' = [fetched EXCEPT ![g] = got]
             /\ at' = [at EXCEPT ![g] = @ + 1]
             /\ UNCHANGED <<pc, todo, decided, approved, call>>
    <3>1. at[g] + 1 \in 1..Len(todo[g])
      BY <2>2, <2>4
    <3>2. \A h \in Gates, a \in Addrs : decided'[h][a] <= Len(fetched'[h][a])
      BY <2>3, <2>4 DEF TypeOK
    <3>3. QED
      BY <1>6, <2>1, <2>3, <2>4, <3>1, <3>2
      DEF Fetch, TypeOK, GateInv, history
  <2>5. CASE /\ fetched' = [fetched EXCEPT ![g] = got]
             /\ pc' = [pc EXCEPT ![g] = "review"]
             /\ at' = [at EXCEPT ![g] = 1]
             /\ UNCHANGED <<todo, decided, approved, call>>
    <3>1. 1 \in 1..Len(todo[g])
      BY <2>2
    <3>2. \A h \in Gates, a \in Addrs : decided'[h][a] <= Len(fetched'[h][a])
      BY <2>3, <2>5 DEF TypeOK
    <3>3. call[g] = "none"
      BY <2>1 DEF GateInv
    <3>4. QED
      BY <1>6, <2>2, <2>3, <2>5, <3>1, <3>2, <3>3
      DEF Fetch, TypeOK, GateInv, history, PCs
  <2>6. CASE StartWith(g, <<>>, "idle")
    BY <1>6, <2>6, StartWithKeepsTypes DEF Fetch, PCs, TypeOK, history
  <2>7. QED
    BY <1>6, <2>4, <2>5, <2>6 DEF Fetch
<1>7. ASSUME NEW g \in Gates, FetchFails(g)
      PROVE  TypeInv'
  BY <1>7, StartWithKeepsTypes DEF FetchFails, PCs, TypeOK, history
<1>8. ASSUME NEW g \in Gates, Accept(g) \/ Decline(g) \/ Reject(g)
      PROVE  TypeInv'
  <2>1. Decide(g) /\ pc[g] = "review" /\ MoreToReview(g)
    BY <1>8 DEF Accept, Decline, Reject, Decide
  <2>2. Addr(g) \in Addrs
    BY <2>1, BusyAddr
  <2>3. decided[g][Addr(g)] + 1 \in 1..Len(fetched[g][Addr(g)])
    BY <2>1, <2>2 DEF MoreToReview, TypeOK
  <2>4. Current(g) \in Msgs
    BY <2>2, <2>3 DEF Current, TypeOK
  <2>5. approved' \in [Gates -> SUBSET Msgs] /\ accepted' \subseteq Msgs
    <3>1. CASE Accept(g)
      BY <2>4, <3>1 DEF Accept, TypeOK
    <3>2. CASE Decline(g) \/ Reject(g)
      BY <3>2 DEF Decline, Reject, TypeOK
    <3>3. QED
      BY <1>8, <3>1, <3>2
  <2>6. /\ decided' \in [Gates -> [Addrs -> Nat]]
        /\ \A h \in Gates, a \in Addrs : decided'[h][a] <= Len(fetched'[h][a])
    BY <2>1, <2>2, <2>3 DEF Decide, TypeOK
  <2>7. GateInv'
    BY <2>1, <2>2 DEF Decide, TypeOK, GateInv
  <2>8. QED
    BY <2>1, <2>4, <2>5, <2>6, <2>7 DEF Decide, TypeOK
<1>9. ASSUME NEW g \in Gates, Dismiss(g) \/ NextQueue(g)
      PROVE  TypeInv'
  <2>1. pc[g] = "review" /\ call[g] = "none"
    BY <1>9 DEF Dismiss, NextQueue, GateInv, TypeOK
  <2>2. at[g] \in 1..Len(todo[g]) /\ Len(todo[g]) \in Nat
    BY <2>1, BusyAddr
  <2>3. /\ pc = [pc EXCEPT ![g] = "review"]
        /\ call = [call EXCEPT ![g] = "none"]
    BY <2>1 DEF TypeOK
  <2>4. /\ UNCHANGED <<inbox, todo, fetched, decided, approved, history>>
        /\ late' \subseteq Requests /\ call' = call
    BY <1>9 DEF Dismiss, NextQueue, TypeOK
  <2>5. CASE at' = [at EXCEPT ![g] = 1] /\ pc' = [pc EXCEPT ![g] = "consume"]
    <3>1. 1 \in 1..Len(todo[g])
      BY <2>2
    <3>2. QED
      BY <2>1, <2>3, <2>4, <2>5, <3>1, MoveKeepsTypes
  <2>6. CASE /\ at[g] < Len(todo[g])
             /\ at' = [at EXCEPT ![g] = @ + 1] /\ pc' = pc
    <3>1. at[g] + 1 \in 1..Len(todo[g])
      BY <2>2, <2>6
    <3>2. QED
      BY <2>1, <2>3, <2>4, <2>6, <3>1, MoveKeepsTypes
  <2>7. QED
    BY <1>9, <2>5, <2>6 DEF Dismiss, NextQueue
<1>10. ASSUME NEW g \in Gates, SkipConsume(g) \/ ConsumeReturns(g)
                                 \/ ConsumeFails(g)
       PROVE  TypeInv'
  <2>1. pc[g] = "consume"
    BY <1>10 DEF SkipConsume, ConsumeReturns, ConsumeFails, GateInv
  <2>2. Addr(g) \in Addrs
    BY <2>1, BusyAddr
  <2>3. Orphan(g) \in Requests
    BY <2>2 DEF Orphan, Requests, TypeOK
  <2>4. late' \subseteq Requests
    BY <1>10, <2>3
    DEF SkipConsume, ConsumeReturns, ConsumeFails, Abandon, TypeOK
  <2>5. call' = [call EXCEPT ![g] = "none"]
    BY <1>10 DEF SkipConsume, ConsumeReturns, ConsumeFails, TypeOK
  <2>6. /\ Advance(g)
        /\ UNCHANGED <<inbox, todo, fetched, decided, approved, history>>
    BY <1>10 DEF SkipConsume, ConsumeReturns, ConsumeFails
  <2>7. PICK p \in {"consume", "deliver"}, k \in 1..Len(todo[g]) :
          pc' = [pc EXCEPT ![g] = p] /\ at' = [at EXCEPT ![g] = k]
    BY <2>1, <2>6, AdvanceMoves
  <2>8. QED
    BY <2>1, <2>4, <2>5, <2>6, <2>7, MoveKeepsTypes
<1>11. ASSUME NEW g \in Gates, SendConsume(g)
       PROVE  TypeInv'
  BY <1>11 DEF SendConsume, TypeOK, GateInv, history
<1>12. ASSUME NEW g \in Gates, Deliver(g)
       PROVE  TypeInv'
  BY <1>12, StartWithKeepsTypes DEF Deliver, PCs, TypeOK
<1>13. ASSUME NEW g \in Gates, Crash(g)
       PROVE  TypeInv'
  <2>1. Addr(g) \in Addrs
    BY <1>13, BusyAddr DEF Crash
  <2>2. Orphan(g) \in Requests
    BY <2>1 DEF Orphan, Requests, TypeOK
  <2>3. late' \subseteq Requests
    BY <1>13, <2>2 DEF Crash, Abandon, TypeOK
  <2>4. QED
    BY <1>13, <2>3, StartWithKeepsTypes DEF Crash, PCs, TypeOK, history
<1>14. CASE UNCHANGED vars
  BY <1>14 DEF vars, TypeOK, GateInv
<1>15. QED
  BY <1>1, <1>2, <1>3, <1>4, <1>5, <1>6, <1>7, <1>8, <1>9, <1>10, <1>11,
     <1>12, <1>13, <1>14
  DEF Next, GateStep, UserStep

\* The types, the loop indices and the gates' bookkeeping are right for ever,
\* whatever fails and however many gates read a queue.
LEMMA BookkeepingCorrect == Spec => []TypeInv
<1>1. QED
  BY InitTypes, NextTypes, PTL DEF Spec

\* do_check's indices stay inside the lists they index, and every variable
\* keeps its type.
THEOREM TypeCorrect == Spec => []TypeOK
<1>1. TypeInv => TypeOK
  BY DEF TypeInv
<1>2. QED
  BY <1>1, BookkeepingCorrect, PTL

-----------------------------------------------------------------------------
(* Only approved mail reaches the model: no assumption on who reads what.   *)

\* A check holds only accepted, readable messages for the model.
ApprovedInv ==
  /\ \A g \in Gates : approved[g] \subseteq accepted \cap Readable
  /\ ContextOnlyApproved

LEMMA NextApproved ==
  ASSUME TypeInv, ApprovedInv, [Next]_vars
  PROVE  ApprovedInv'
<1> USE DEF ApprovedInv, ContextOnlyApproved, TypeInv, TypeOK
<1>1. ASSUME NEW g \in Gates, NEW s, NEW p, StartWith(g, s, p),
             accepted' = accepted, context' \subseteq accepted \cap Readable
      PROVE  ApprovedInv'
  BY <1>1 DEF StartWith
<1>2. ASSUME NEW g \in Gates, Accept(g)
      PROVE  ApprovedInv'
  BY <1>2 DEF Accept, Decide
<1>3. ASSUME NEW g \in Gates, Decline(g) \/ Reject(g)
      PROVE  ApprovedInv'
  BY <1>3 DEF Decline, Reject, Decide
<1>4. ASSUME NEW g \in Gates, Fetch(g)
      PROVE  ApprovedInv'
  <2>1. CASE StartWith(g, <<>>, "idle")
    BY <1>4, <1>1, <2>1 DEF Fetch, history
  <2>2. CASE UNCHANGED approved
    BY <1>4, <2>2 DEF Fetch, history
  <2>3. QED
    BY <1>4, <2>1, <2>2 DEF Fetch
<1>5. ASSUME NEW g \in Gates, NEW s \in Checks[g], Check(g, s)
      PROVE  ApprovedInv'
  BY <1>5, <1>1 DEF Check, history
<1>6. ASSUME NEW g \in Gates, FetchFails(g) \/ Crash(g)
      PROVE  ApprovedInv'
  BY <1>6, <1>1 DEF FetchFails, Crash, history
<1>7. ASSUME NEW g \in Gates, Deliver(g)
      PROVE  ApprovedInv'
  BY <1>7, <1>1 DEF Deliver
<1>8. CASE UNCHANGED <<approved, accepted, context>>
  BY <1>8
<1>9. QED
  BY <1>2, <1>3, <1>4, <1>5, <1>6, <1>7, <1>8
  DEF Next, GateStep, UserStep, Send, ServeConsume, ServeLate, RelayRestart,
      Dismiss, NextQueue, SkipConsume, SendConsume, ConsumeReturns,
      ConsumeFails, vars, gate, history

\* Whatever fails and however many gates read a queue, nothing reaches the
\* model but messages the user accepted and the gate could verify: declined,
\* dismissed, unreviewed and unverifiable mail never does.
THEOREM ContextSafe == Spec => []ContextOnlyApproved
<1>1. Init => ApprovedInv
  BY DEF Init, ApprovedInv, ContextOnlyApproved
<1>2. ApprovedInv => ContextOnlyApproved
  BY DEF ApprovedInv
<1>3. QED
  BY <1>1, <1>2, NextApproved, BookkeepingCorrect, PTL DEF Spec

-----------------------------------------------------------------------------
(* One reader per queue: counts stand for the messages that were reviewed.  *)

\* What consuming by count relies on: one gate per queue, consumes that are
\* executed while their caller waits or not at all, a relay that keeps its
\* memory.  The code establishes none of it.
CountsAreCurrent ==
  /\ SoleReader
  /\ "late" \notin Faults
  /\ "restart" \notin Faults

FrontIs(queue, f) ==
  /\ Len(f) <= Len(queue)
  /\ \A i \in 1..Len(f) : queue[i] = f[i]

\* The k-th queue of g's check has been fetched and not been consumed yet.
Holds(g, k) ==
  /\ k \in 1..Len(todo[g])
  /\ \/ pc[g] = "fetch" /\ k < at[g]
     \/ pc[g] = "review"
     \/ pc[g] = "consume" /\ k > at[g]
     \/ pc[g] = "consume" /\ k = at[g] /\ call[g] # "served"

\* What a gate fetched is still the front of the queue.
FrontInv ==
  \A g \in Gates : \A k \in 1..Len(todo[g]) :
    Holds(g, k) => FrontIs(inbox[todo[g][k]], fetched[g][todo[g][k]])

\* What a gate counted as decided has been decided on.
CountInv ==
  \A g \in Gates, a \in Addrs : \A i \in 1..decided[g][a] :
    fetched[g][a][i] \in settled

\* Queued and fetched mail has been sent.
SentInv ==
  /\ \A a \in Addrs : \A i \in 1..Len(inbox[a]) : inbox[a][i] \in sent
  /\ \A g \in Gates, a \in Addrs : \A i \in 1..Len(fetched[g][a]) :
       fetched[g][a][i] \in sent

ReaderInv ==
  /\ late = {}
  /\ FrontInv
  /\ CountInv
  /\ SentInv
  /\ NothingUndecidedLost

LEMMA InitReader == Init => ReaderInv
BY DEF Init, ReaderInv, FrontInv, Holds, CountInv, SentInv, NoMail,
       NothingUndecidedLost

\* A queue that grows at its back keeps its front, and its messages.
LEMMA SendKeepsReader ==
  ASSUME TypeInv, ReaderInv, NEW m \in Msgs, NEW a \in Addrs, Send(m, a)
  PROVE  ReaderInv'
<1> USE DEF TypeInv, TypeOK, ReaderInv
<1>1. /\ sent' = sent \cup {m}
      /\ inbox' = [inbox EXCEPT ![a] = Append(@, m)]
      /\ UNCHANGED <<pc, todo, at, fetched, decided, approved, call, late,
                     settled, wiped>>
  BY DEF Send, gate
<1>2. ASSUME NEW b \in Addrs
      PROVE  /\ Len(inbox[b]) <= Len(inbox'[b])
             /\ Len(inbox'[b]) \in Nat
             /\ \A i \in 1..Len(inbox[b]) : inbox'[b][i] = inbox[b][i]
             /\ \A i \in 1..Len(inbox'[b]) : inbox'[b][i] \in sent'
  <2>1. CASE b = a
    <3>1. inbox'[a] = Append(inbox[a], m) /\ inbox[a] \in Seq(Msgs)
      BY <1>1
    <3>2. QED
      BY <1>1, <2>1, <3>1 DEF SentInv
  <2>2. CASE b # a
    BY <1>1, <2>2 DEF SentInv
  <2>3. QED
    BY <2>1, <2>2
<1>3. FrontInv'
  <2> SUFFICES ASSUME NEW g \in Gates, NEW k \in 1..Len(todo[g]), Holds(g, k)
               PROVE  FrontIs(inbox'[todo[g][k]], fetched[g][todo[g][k]])
    BY <1>1 DEF FrontInv, Holds
  <2> DEFINE b == todo[g][k]
  <2>1. b \in Addrs /\ FrontIs(inbox[b], fetched[g][b])
    BY DEF FrontInv
  <2>2. Len(fetched[g][b]) \in Nat /\ Len(inbox[b]) \in Nat
    BY <2>1
  <2> HIDE DEF TypeInv, TypeOK, ReaderInv, b
  <2>3. Len(inbox[b]) <= Len(inbox'[b]) /\ Len(inbox'[b]) \in Nat
    BY <1>2, <2>1
  <2>4. Len(fetched[g][b]) <= Len(inbox'[b])
    <3>1. Len(fetched[g][b]) <= Len(inbox[b])
      BY <2>1 DEF FrontIs
    <3>2. QED
      BY ONLY <2>2, <2>3, <3>1
  <2>5. ASSUME NEW i \in 1..Len(fetched[g][b])
        PROVE  inbox'[b][i] = fetched[g][b][i]
    <3>1. i \in 1..Len(inbox[b]) /\ inbox[b][i] = fetched[g][b][i]
      BY <2>1, <2>2 DEF FrontIs
    <3>2. QED
      BY <1>2, <2>1, <3>1
  <2>6. QED
    BY <2>4, <2>5 DEF FrontIs, b
<1>4. CountInv' /\ SentInv'
  BY <1>1, <1>2 DEF CountInv, SentInv
<1>5. NothingUndecidedLost'
  <2> SUFFICES ASSUME NEW x \in sent'
               PROVE  InSomeQueue(x)' \/ x \in settled' \/ x \in wiped'
    BY DEF NothingUndecidedLost
  <2>1. CASE x = m
    <3>1. inbox'[a] = Append(inbox[a], m) /\ Len(inbox[a]) \in Nat
      BY <1>1
    <3>2. /\ Len(inbox[a]) + 1 \in 1..Len(inbox'[a])
          /\ inbox'[a][Len(inbox[a]) + 1] = m
      BY <3>1
    <3>3. QED
      BY <2>1, <3>2 DEF InSomeQueue
  <2>2. CASE x \in sent /\ InSomeQueue(x)
    <3>1. PICK b \in Addrs, i \in Nat :
            i \in 1..Len(inbox[b]) /\ inbox[b][i] = x
      BY <2>2 DEF InSomeQueue
    <3>2. i \in 1..Len(inbox'[b]) /\ inbox'[b][i] = x
      BY <1>2, <3>1
    <3>3. QED
      BY <3>2 DEF InSomeQueue
  <2>3. CASE x \in sent /\ ~InSomeQueue(x)
    BY <1>1, <2>3 DEF NothingUndecidedLost
  <2>4. QED
    BY <1>1, <2>1, <2>2, <2>3
<1>6. QED
  BY <1>1, <1>3, <1>4, <1>5

\* The consume a gate waits for removes messages that gate has decided on.
LEMMA ServeRemovesSettled ==
  ASSUME TypeInv, ReaderInv, NEW g \in Gates, call[g] = "sent"
  PROVE  /\ Addr(g) \in Addrs
         /\ decided[g][Addr(g)] \in 0..Len(inbox[Addr(g)])
         /\ Smaller(decided[g][Addr(g)], Len(inbox[Addr(g)])) =
              decided[g][Addr(g)]
         /\ \A i \in 1..decided[g][Addr(g)] : inbox[Addr(g)][i] \in settled
<1> USE DEF TypeInv, TypeOK
<1>1. pc[g] = "consume"
  BY DEF GateInv
<1>2. at[g] \in 1..Len(todo[g]) /\ Addr(g) \in Addrs /\ Len(todo[g]) \in Nat
  BY <1>1, BusyAddr
<1>3. Holds(g, at[g])
  BY <1>1, <1>2 DEF Holds
<1>4. FrontIs(inbox[Addr(g)], fetched[g][Addr(g)])
  BY <1>2, <1>3 DEF ReaderInv, FrontInv, Addr
<1>5. /\ decided[g][Addr(g)] \in Nat
      /\ Len(fetched[g][Addr(g)]) \in Nat
      /\ Len(inbox[Addr(g)]) \in Nat
      /\ decided[g][Addr(g)] <= Len(fetched[g][Addr(g)])
  BY <1>2
<1>6. decided[g][Addr(g)] \in 0..Len(inbox[Addr(g)])
  BY <1>4, <1>5 DEF FrontIs
<1>7. ASSUME NEW i \in 1..decided[g][Addr(g)]
      PROVE  inbox[Addr(g)][i] \in settled
  <2>1. i \in 1..Len(fetched[g][Addr(g)])
    BY <1>5
  <2>2. inbox[Addr(g)][i] = fetched[g][Addr(g)][i]
    BY <1>4, <2>1 DEF FrontIs
  <2>3. fetched[g][Addr(g)][i] \in settled
    BY <1>2 DEF ReaderInv, CountInv
  <2>4. QED
    BY <2>2, <2>3
<1>8. QED
  BY <1>2, <1>6, <1>7 DEF Smaller

\* Two gates never have a queue in common.
LEMMA DifferentQueues ==
  ASSUME SoleReader, NEW g \in Gates, NEW h \in Gates, g # h,
         todo[g] \in Checks[g], todo[h] \in Checks[h],
         NEW i \in 1..Len(todo[g]), NEW j \in 1..Len(todo[h])
  PROVE  todo[g][i] # todo[h][j]
BY DEF SoleReader

\* Serving a consume leaves the other queues under review as they were.
LEMMA ServeKeepsReader ==
  ASSUME TypeInv, ReaderInv, CountsAreCurrent,
         NEW g \in Gates, ServeConsume(g)
  PROVE  ReaderInv'
<1> USE DEF TypeInv, TypeOK, ReaderInv
<1> DEFINE A == Addr(g)
           n == decided[g][A]
<1>1. /\ call[g] = "sent"
      /\ inbox' = [inbox EXCEPT ![A] = AfterConsume(@, n)]
      /\ call' = [call EXCEPT ![g] = "served"]
      /\ UNCHANGED <<pc, todo, at, fetched, decided, approved, late,
                     sent, settled, wiped>>
  BY DEF ServeConsume, history
<1>2. /\ pc[g] = "consume" /\ at[g] \in 1..Len(todo[g]) /\ todo[g] \in Checks[g]
  BY <1>1, BusyAddr DEF GateInv
<1>3. /\ A \in Addrs
      /\ n \in 0..Len(inbox[A])
      /\ Smaller(n, Len(inbox[A])) = n
      /\ \A i \in 1..n : inbox[A][i] \in settled
  BY <1>1, ServeRemovesSettled
<1>4. /\ inbox'[A] = AfterConsume(inbox[A], n)
      /\ Len(inbox[A]) \in Nat /\ n \in Nat
      /\ Len(inbox'[A]) = Len(inbox[A]) - n
      /\ \A i \in 1..Len(inbox'[A]) : inbox'[A][i] = inbox[A][i + n]
  BY <1>1, <1>3, AfterConsumeFacts
<1>5. \A b \in Addrs : b # A => inbox'[b] = inbox[b]
  BY <1>1
<1>6. FrontInv'
  <2> SUFFICES ASSUME NEW h \in Gates, NEW k \in 1..Len(todo[h]), Holds(h, k)'
               PROVE  FrontIs(inbox'[todo[h][k]], fetched[h][todo[h][k]])
    BY <1>1 DEF FrontInv
  <2>1. Holds(h, k) /\ pc[h] # "idle" /\ ~(h = g /\ k = at[g])
    <3>1. CASE h = g
      BY <1>1, <1>2, <3>1 DEF Holds
    <3>2. CASE h # g
      BY <1>1, <3>2 DEF Holds
    <3>3. QED
      BY <3>1, <3>2
  <2>2. todo[h] \in Checks[h] /\ todo[h][k] \in Addrs
    <3>1. todo[h] \in Checks[h] /\ todo[h] \in Seq(Addrs)
      BY <2>1, BusyAddr
    <3>2. QED
      BY <3>1
  <2>3. todo[h][k] # A
    <3>1. CASE h = g
      BY <1>2, <2>1, <3>1, ChecksAreLists DEF Addr
    <3>2. CASE h # g
      <4>1. todo[g][at[g]] # todo[h][k]
        BY <1>2, <2>2, <3>2, DifferentQueues DEF CountsAreCurrent
      <4>2. QED
        BY <4>1 DEF Addr
    <3>3. QED
      BY <3>1, <3>2
  <2>4. QED
    BY <1>5, <2>1, <2>2, <2>3 DEF FrontInv
<1>7. CountInv'
  BY <1>1 DEF CountInv
<1>8. SentInv'
  <2>1. ASSUME NEW b \in Addrs, NEW i \in 1..Len(inbox'[b])
        PROVE  inbox'[b][i] \in sent
    <3>1. CASE b = A
      <4>1. i + n \in 1..Len(inbox[A])
        BY <1>4, <3>1
      <4>2. QED
        BY <1>3, <1>4, <3>1, <4>1 DEF SentInv
    <3>2. CASE b # A
      BY <1>5, <3>2 DEF SentInv
    <3>3. QED
      BY <3>1, <3>2
  <2>2. QED
    BY <1>1, <2>1 DEF SentInv
<1>9. NothingUndecidedLost'
  <2> SUFFICES ASSUME NEW x \in sent, ~(x \in settled), ~(x \in wiped)
               PROVE  InSomeQueue(x)'
    BY <1>1 DEF NothingUndecidedLost
  <2>1. PICK b \in Addrs, i \in Nat :
          i \in 1..Len(inbox[b]) /\ inbox[b][i] = x
    BY DEF NothingUndecidedLost, InSomeQueue
  <2>2. CASE b = A
    <3>1. i > n
      BY <1>3, <1>4, <2>1, <2>2
    <3>2. i - n \in 1..Len(inbox'[A]) /\ i = (i - n) + n
      BY <1>4, <2>1, <2>2, <3>1
    <3>3. inbox'[A][i - n] = x
      BY <1>4, <2>1, <2>2, <3>2
    <3>4. QED
      BY <1>3, <3>2, <3>3 DEF InSomeQueue
  <2>3. CASE b # A
    BY <1>5, <2>1, <2>3 DEF InSomeQueue
  <2>4. QED
    BY <2>2, <2>3
<1>10. QED
  BY <1>1, <1>6, <1>7, <1>8, <1>9

\* A gate that starts or ends a check holds no queue.
LEMMA StartKeepsReader ==
  ASSUME TypeInv, ReaderInv, NEW g \in Gates, NEW s, NEW p,
         StartWith(g, s, p), p \in {"idle", "fetch"},
         UNCHANGED <<inbox, late, sent, settled, wiped>>
  PROVE  ReaderInv'
<1> USE DEF TypeInv, TypeOK, ReaderInv
<1>1. ASSUME NEW h \in Gates, h # g
      PROVE  /\ pc'[h] = pc[h] /\ todo'[h] = todo[h] /\ at'[h] = at[h]
             /\ fetched'[h] = fetched[h] /\ decided'[h] = decided[h]
             /\ call'[h] = call[h]
  BY <1>1 DEF StartWith
<1>2. /\ pc'[g] = p /\ at'[g] = 1 /\ todo'[g] = s
      /\ fetched'[g] = NoMail /\ decided'[g] = [a \in Addrs |-> 0]
  BY DEF StartWith
<1>3. FrontInv'
  <2> SUFFICES ASSUME NEW h \in Gates, NEW k \in 1..Len(todo'[h]), Holds(h, k)'
               PROVE  FrontIs(inbox[todo'[h][k]], fetched'[h][todo'[h][k]])
    BY DEF FrontInv
  <2>1. CASE h = g
    BY <1>2, <2>1 DEF Holds
  <2>2. CASE h # g
    <3>1. Holds(h, k) /\ k \in 1..Len(todo[h])
      BY <1>1, <2>2 DEF Holds
    <3>2. QED
      BY <1>1, <2>2, <3>1 DEF FrontInv
  <2>3. QED
    BY <2>1, <2>2
<1>4. CountInv'
  <2> SUFFICES ASSUME NEW h \in Gates, NEW a \in Addrs, NEW i \in 1..decided'[h][a]
               PROVE  fetched'[h][a][i] \in settled
    BY DEF CountInv
  <2>1. CASE h = g
    <3>1. decided'[h][a] = 0
      BY <1>2, <2>1
    <3>2. QED
      BY <3>1
  <2>2. CASE h # g
    BY <1>1, <2>2 DEF CountInv
  <2>3. QED
    BY <2>1, <2>2
<1>5. SentInv'
  <2>1. ASSUME NEW h \in Gates, NEW a \in Addrs, NEW i \in 1..Len(fetched'[h][a])
        PROVE  fetched'[h][a][i] \in sent
    <3>1. CASE h = g
      BY <1>2, <3>1 DEF NoMail
    <3>2. CASE h # g
      BY <1>1, <3>2 DEF SentInv
    <3>3. QED
      BY <3>1, <3>2
  <2>2. QED
    BY <2>1 DEF SentInv
<1>6. NothingUndecidedLost'
  BY DEF NothingUndecidedLost, InSomeQueue
<1>7. QED
  BY <1>3, <1>4, <1>5, <1>6

\* What a GET returned is the front of the queue at that moment.
LEMMA FetchKeepsReader ==
  ASSUME TypeInv, ReaderInv, NEW g \in Gates, Fetch(g)
  PROVE  ReaderInv'
<1> USE DEF TypeInv, TypeOK, ReaderInv
<1>1. CASE StartWith(g, <<>>, "idle")
  BY <1>1, StartKeepsReader DEF Fetch, history
<1>2. CASE fetched' = [fetched EXCEPT ![g] =
                         [fetched[g] EXCEPT ![Addr(g)] = inbox[Addr(g)]]]
           /\ UNCHANGED <<todo, decided, call>>
           /\ \/ at[g] < Len(todo[g]) /\ pc' = pc /\ at' = [at EXCEPT ![g] = @ + 1]
              \/ /\ at[g] = Len(todo[g])
                 /\ pc' = [pc EXCEPT ![g] = "review"]
                 /\ at' = [at EXCEPT ![g] = 1]
  <2>1. UNCHANGED <<inbox, late, sent, settled, wiped>> /\ pc[g] = "fetch"
    BY DEF Fetch, history
  <2>2. /\ at[g] \in 1..Len(todo[g]) /\ todo[g] \in Checks[g]
        /\ Addr(g) \in Addrs /\ Len(todo[g]) \in Nat
    BY <2>1, BusyAddr
  <2>3. /\ fetched'[g][Addr(g)] = inbox[Addr(g)]
        /\ \A a \in Addrs : a # Addr(g) => fetched'[g][a] = fetched[g][a]
        /\ \A h \in Gates : h # g => fetched'[h] = fetched[h]
    BY <1>2, <2>2
  <2>4. FrontInv'
    <3> SUFFICES ASSUME NEW h \in Gates, NEW k \in 1..Len(todo[h]), Holds(h, k)'
                 PROVE  FrontIs(inbox[todo[h][k]], fetched'[h][todo[h][k]])
      BY <1>2, <2>1 DEF FrontInv
    <3>1. CASE h # g
      <4>1. pc'[h] = pc[h] /\ at'[h] = at[h] /\ call'[h] = call[h]
        BY <1>2, <3>1
      <4>2. Holds(h, k)
        BY <1>2, <4>1 DEF Holds
      <4>3. QED
        BY <2>3, <3>1, <4>2 DEF FrontInv
    <3>2. CASE h = g /\ k = at[g]
      <4>1. Len(inbox[Addr(g)]) \in Nat /\ todo[h][k] = Addr(g)
        BY <2>2, <3>2 DEF Addr
      <4>2. FrontIs(inbox[Addr(g)], inbox[Addr(g)])
        BY <4>1 DEF FrontIs
      <4>3. QED
        BY <2>3, <3>2, <4>1, <4>2
    <3>3. CASE h = g /\ k # at[g]
      <4>1. k < at[g]
        <5>1. k \in Nat /\ k <= Len(todo[g])
          BY <2>2, <3>3
        <5>2. CASE at[g] < Len(todo[g])
          <6>1. pc'[g] = "fetch" /\ at'[g] = at[g] + 1
            BY <1>2, <2>1, <5>2
          <6>2. k < at[g] + 1
            BY <3>3, <6>1 DEF Holds
          <6>3. QED
            BY <2>2, <3>3, <5>1, <6>2
        <5>3. CASE at[g] = Len(todo[g])
          BY <2>2, <3>3, <5>1, <5>3
        <5>4. QED
          BY <2>2, <5>2, <5>3
      <4>2. Holds(g, k)
        BY <2>1, <3>3, <4>1 DEF Holds
      <4>3. todo[g][k] # Addr(g) /\ todo[g][k] \in Addrs
        <5>1. todo[g] \in Seq(Addrs) /\ todo[g][k] # todo[g][at[g]]
          BY <2>2, <3>3, ChecksAreLists
        <5>2. QED
          BY <3>3, <5>1 DEF Addr
      <4>4. QED
        BY <2>3, <3>3, <4>2, <4>3 DEF FrontInv
    <3>4. QED
      BY <3>1, <3>2, <3>3
  <2>5. CountInv'
    <3>1. \A a \in Addrs : decided[g][a] = 0
      BY <2>1 DEF GateInv
    <3>2. QED
      BY <1>2, <2>1, <2>3, <3>1 DEF CountInv
  <2>6. SentInv'
    <3>1. ASSUME NEW h \in Gates, NEW a \in Addrs,
                 NEW i \in 1..Len(fetched'[h][a])
          PROVE  fetched'[h][a][i] \in sent
      <4>1. CASE h = g /\ a = Addr(g)
        BY <2>3, <4>1 DEF SentInv
      <4>2. CASE ~(h = g /\ a = Addr(g))
        BY <2>3, <4>2 DEF SentInv
      <4>3. QED
        BY <4>1, <4>2
    <3>2. QED
      BY <2>1, <3>1 DEF SentInv
  <2>7. NothingUndecidedLost'
    BY <2>1 DEF NothingUndecidedLost, InSomeQueue
  <2>8. QED
    BY <2>1, <2>4, <2>5, <2>6, <2>7
<1>3. QED
  <2>1. pc[g] = "fetch"
    BY DEF Fetch
  <2>2. at[g] \in 1..Len(todo[g]) /\ Len(todo[g]) \in Nat
    BY <2>1, BusyAddr
  <2>3. at[g] # Len(todo[g]) => at[g] < Len(todo[g])
    BY <2>2
  <2>4. QED
    BY <1>1, <1>2, <2>3 DEF Fetch

\* Counting a message goes with deciding on it.
LEMMA DecideKeepsReader ==
  ASSUME TypeInv, ReaderInv, NEW g \in Gates, Decide(g)
  PROVE  /\ ReaderInv'
         /\ Current(g) \in sent
<1> USE DEF TypeInv, TypeOK, ReaderInv
<1> DEFINE A == Addr(g)
           n == decided[g][A] + 1
<1>1. /\ pc[g] = "review" /\ decided[g][A] < Len(fetched[g][A])
      /\ decided' = [decided EXCEPT ![g][A] = @ + 1]
      /\ settled' = settled \cup {fetched[g][A][n]}
      /\ UNCHANGED <<inbox, pc, todo, at, fetched, call, late, sent, wiped>>
  BY DEF Decide, MoreToReview, Current
<1>2. A \in Addrs
  BY <1>1, BusyAddr
<1>3. n \in 1..Len(fetched[g][A]) /\ decided[g][A] \in Nat
  BY <1>1, <1>2
<1>4. FrontInv' /\ SentInv'
  BY <1>1 DEF FrontInv, Holds, SentInv
<1>5. CountInv'
  <2> SUFFICES ASSUME NEW h \in Gates, NEW a \in Addrs, NEW i \in 1..decided'[h][a]
               PROVE  fetched[h][a][i] \in settled'
    BY <1>1 DEF CountInv
  <2>1. CASE h = g /\ a = A /\ i = n
    BY <1>1, <2>1
  <2>2. CASE ~(h = g /\ a = A /\ i = n)
    <3>1. i \in 1..decided[h][a]
      BY <1>1, <1>2, <1>3, <2>2
    <3>2. QED
      BY <1>1, <3>1 DEF CountInv
  <2>3. QED
    BY <2>1, <2>2
<1>6. NothingUndecidedLost'
  BY <1>1 DEF NothingUndecidedLost, InSomeQueue
<1>7. Current(g) \in sent
  BY <1>2, <1>3 DEF SentInv, Current
<1>8. QED
  BY <1>1, <1>4, <1>5, <1>6, <1>7

\* A gate that moves on within its lists holds no queue it did not hold.
LEMMA MoveKeepsReader ==
  ASSUME TypeInv, ReaderInv, NEW g \in Gates,
         UNCHANGED <<inbox, todo, fetched, decided, late, sent, settled, wiped>>,
         \A h \in Gates : h # g =>
           pc'[h] = pc[h] /\ at'[h] = at[h] /\ call'[h] = call[h],
         \A k \in 1..Len(todo[g]) : Holds(g, k)' => Holds(g, k)
  PROVE  ReaderInv'
<1> USE DEF ReaderInv
<1>1. FrontInv'
  <2> SUFFICES ASSUME NEW h \in Gates, NEW k \in 1..Len(todo[h]), Holds(h, k)'
               PROVE  FrontIs(inbox[todo[h][k]], fetched[h][todo[h][k]])
    BY DEF FrontInv
  <2>1. Holds(h, k)
    <3>1. CASE h = g
      BY <3>1
    <3>2. CASE h # g
      BY <3>2 DEF Holds
    <3>3. QED
      BY <3>1, <3>2
  <2>2. QED
    BY <2>1 DEF FrontInv
<1>2. CountInv' /\ SentInv'
  BY DEF CountInv, SentInv
<1>3. NothingUndecidedLost'
  BY DEF NothingUndecidedLost, InSomeQueue
<1>4. QED
  BY <1>1, <1>2, <1>3

LEMMA NextReader ==
  ASSUME TypeInv, ReaderInv, CountsAreCurrent, [Next]_vars
  PROVE  ReaderInv'
<1>1. ASSUME NEW g \in Gates, NEW s \in Checks[g], Check(g, s)
      PROVE  ReaderInv'
  BY <1>1, StartKeepsReader DEF Check, history
<1>2. ASSUME NEW g \in Gates, FetchFails(g)
      PROVE  ReaderInv'
  BY <1>2, StartKeepsReader DEF FetchFails, history
<1>3. ASSUME NEW g \in Gates, Deliver(g)
      PROVE  ReaderInv'
  BY <1>3, StartKeepsReader DEF Deliver
<1>4. ASSUME NEW g \in Gates, Crash(g)
      PROVE  ReaderInv'
  <2>1. late' = late
    BY <1>4 DEF Crash, Abandon, CountsAreCurrent
  <2>2. QED
    BY <1>4, <2>1, StartKeepsReader DEF Crash, history
<1>5. ASSUME NEW g \in Gates, Accept(g) \/ Decline(g) \/ Reject(g)
      PROVE  ReaderInv'
  BY <1>5, DecideKeepsReader DEF Accept, Decline, Reject
<1>6. ASSUME NEW g \in Gates, Dismiss(g) \/ NextQueue(g)
      PROVE  ReaderInv'
  <2>1. /\ UNCHANGED <<inbox, todo, fetched, decided, call, late, sent,
                      settled, wiped>>
        /\ pc[g] = "review"
        /\ \A h \in Gates : h # g => pc'[h] = pc[h] /\ at'[h] = at[h]
    BY <1>6 DEF Dismiss, NextQueue, history, TypeInv, TypeOK
  <2>2. \A k \in 1..Len(todo[g]) : Holds(g, k)' => Holds(g, k)
    BY <2>1 DEF Holds
  <2>3. QED
    BY <2>1, <2>2, MoveKeepsReader
<1>7. ASSUME NEW g \in Gates, SkipConsume(g) \/ ConsumeReturns(g)
                                \/ ConsumeFails(g)
      PROVE  ReaderInv'
  <2>1. pc[g] = "consume"
    BY <1>7 DEF SkipConsume, ConsumeReturns, ConsumeFails, TypeInv, GateInv
  <2>2. late' = late
    BY <1>7 DEF SkipConsume, ConsumeReturns, ConsumeFails, Abandon,
                CountsAreCurrent
  <2>3. /\ UNCHANGED <<inbox, todo, fetched, decided, sent, settled, wiped>>
        /\ Advance(g)
        /\ \A h \in Gates : h # g => call'[h] = call[h]
    BY <1>7 DEF SkipConsume, ConsumeReturns, ConsumeFails, history, TypeInv,
                TypeOK
  <2>4. PICK p \in {"consume", "deliver"}, k \in 1..Len(todo[g]) :
          /\ pc' = [pc EXCEPT ![g] = p]
          /\ at' = [at EXCEPT ![g] = k]
          /\ p = "consume" => k = at[g] + 1
    BY <2>1, <2>3, AdvanceMoves
  <2>5. /\ pc'[g] = p /\ at'[g] = k
        /\ \A h \in Gates : h # g => pc'[h] = pc[h] /\ at'[h] = at[h]
    BY <2>4 DEF TypeInv, TypeOK
  <2>6. ASSUME NEW j \in 1..Len(todo[g]), Holds(g, j)'
        PROVE  Holds(g, j)
    <3>1. p = "consume" /\ at'[g] = at[g] + 1 /\ j >= at'[g]
      BY <2>4, <2>5, <2>6 DEF Holds
    <3>2. at[g] \in Nat /\ j \in Nat
      BY <2>1, BusyAddr
    <3>3. j > at[g]
      BY <3>1, <3>2
    <3>4. QED
      BY <2>1, <3>3 DEF Holds
  <2>7. QED
    BY <2>2, <2>3, <2>5, <2>6, MoveKeepsReader
<1>8. ASSUME NEW g \in Gates, SendConsume(g)
      PROVE  ReaderInv'
  <2>1. /\ UNCHANGED <<inbox, pc, todo, at, fetched, decided, late, sent,
                      settled, wiped>>
        /\ pc[g] = "consume" /\ call[g] = "none"
        /\ \A h \in Gates : h # g => call'[h] = call[h]
    BY <1>8 DEF SendConsume, history, TypeInv, TypeOK
  <2>2. \A k \in 1..Len(todo[g]) : Holds(g, k)' => Holds(g, k)
    BY <2>1 DEF Holds
  <2>3. QED
    BY <2>1, <2>2, MoveKeepsReader
<1>9. ASSUME NEW r \in late, ServeLate(r)
      PROVE  ReaderInv'
  BY DEF ReaderInv
<1>10. CASE RelayRestart
  BY <1>10 DEF RelayRestart, CountsAreCurrent
<1>11. CASE UNCHANGED vars
  BY <1>11 DEF vars, ReaderInv, FrontInv, Holds, CountInv, SentInv,
               NothingUndecidedLost, InSomeQueue
<1>12. QED
  BY <1>1, <1>2, <1>3, <1>4, <1>5, <1>6, <1>7, <1>8, <1>9, <1>10, <1>11,
     SendKeepsReader, ServeKeepsReader, FetchKeepsReader
  DEF Next, GateStep, UserStep

LEMMA ReaderCorrect == CountsAreCurrent /\ Spec => []ReaderInv
<1> SUFFICES ASSUME CountsAreCurrent
             PROVE  Spec => []ReaderInv
  OBVIOUS
<1>1. TypeInv /\ ReaderInv /\ [Next]_vars => ReaderInv'
  BY NextReader
<1>2. QED
  BY <1>1, InitReader, BookkeepingCorrect, PTL DEF Spec

\* Dismissed and unreviewed mail stays queued, through crashes and failed
\* requests, for any number of gates, as long as each queue has one reader and
\* no consume outlives its caller or the relay's memory.
THEOREM NothingLost ==
  CountsAreCurrent /\ Spec => []NothingUndecidedLost
<1>1. ReaderInv => NothingUndecidedLost
  BY DEF ReaderInv
<1>2. QED
  BY <1>1, ReaderCorrect, PTL

-----------------------------------------------------------------------------
(* InboxCheck implements ApprovalGate.                                       *)

LEMMA StepKeepsPromise ==
  ASSUME TypeInv, ApprovedInv, ReaderInv, CountsAreCurrent, [Next]_vars
  PROVE  [Promise!Next]_(Promise!vars)
<1> USE DEF Promise!vars
<1>1. ASSUME NEW m \in Msgs, NEW a \in Addrs, Send(m, a)
      PROVE  Promise!Next
  BY <1>1 DEF Send, Promise!Next, Promise!Arrive
<1>2. ASSUME NEW g \in Gates, Accept(g) \/ Decline(g) \/ Reject(g)
      PROVE  Promise!Next
  <2>1. Decide(g) /\ Current(g) \in sent
    BY <1>2, DecideKeepsReader DEF Accept, Decline, Reject
  <2>2. Current(g) \in Msgs
    BY <2>1 DEF TypeInv, TypeOK
  <2>3. accepted' = accepted \cup {Current(g)} \/ accepted' = accepted
    BY <1>2 DEF Accept, Decline, Reject
  <2>4. Promise!Settle(Current(g))
    BY <2>1, <2>3 DEF Decide, Promise!Settle
  <2>5. QED
    BY <2>2, <2>4 DEF Promise!Next
<1>3. ASSUME NEW g \in Gates, ServeConsume(g)
      PROVE  Promise!Next
  <2> DEFINE A == Addr(g)
             n == decided[g][A]
  <2>1. /\ A \in Addrs /\ n \in 0..Len(inbox[A])
        /\ Smaller(n, Len(inbox[A])) = n
        /\ \A i \in 1..n : inbox[A][i] \in settled
    BY <1>3, ServeRemovesSettled DEF ServeConsume
  <2>2. inbox' = [inbox EXCEPT ![A] = SubSeq(@, n + 1, Len(@))]
    BY <1>3, <2>1 DEF ServeConsume, AfterConsume, TypeInv, TypeOK
  <2>3. Promise!Remove(A, n)
    BY <1>3, <2>1, <2>2 DEF ServeConsume, Promise!Remove, history
  <2>4. QED
    BY <2>1, <2>3 DEF Promise!Next
<1>4. ASSUME NEW g \in Gates, Deliver(g)
      PROVE  Promise!Next
  <2>1. Promise!Release(approved[g])
    BY <1>4 DEF Deliver, Promise!Release, ApprovedInv
  <2>2. approved[g] \in SUBSET Msgs
    BY DEF TypeInv, TypeOK
  <2>3. QED
    BY <2>1, <2>2 DEF Promise!Next
<1>5. ASSUME NEW g \in Gates,
             \/ \E s \in Checks[g] : Check(g, s)
             \/ Fetch(g) \/ FetchFails(g) \/ Dismiss(g) \/ NextQueue(g)
             \/ SkipConsume(g) \/ SendConsume(g) \/ ConsumeReturns(g)
             \/ ConsumeFails(g) \/ Crash(g)
      PROVE  UNCHANGED Promise!vars
  BY <1>5 DEF Check, Fetch, FetchFails, Dismiss, NextQueue, SkipConsume,
              SendConsume, ConsumeReturns, ConsumeFails, Crash, history
<1>6. ASSUME NEW r \in late, ServeLate(r)
      PROVE  FALSE
  BY DEF ReaderInv
<1>7. CASE RelayRestart
  BY <1>7 DEF RelayRestart, CountsAreCurrent
<1>8. CASE UNCHANGED vars
  BY <1>8 DEF vars
<1>9. QED
  BY <1>1, <1>2, <1>3, <1>4, <1>5, <1>6, <1>7, <1>8
  DEF Next, GateStep, UserStep

\* With one reader per queue, check_inbox keeps the promise made to the user,
\* step by step: only decided mail leaves a queue, oldest first, and only
\* accepted mail reaches the model.
THEOREM ImplementsPromise == CountsAreCurrent /\ Spec => KeepsThePromise
<1> SUFFICES ASSUME CountsAreCurrent
             PROVE  Spec => KeepsThePromise
  OBVIOUS
<1>1. Init => Promise!Init
  BY DEF Init, Promise!Init, NoMail
<1>2. TypeInv /\ ApprovedInv /\ ReaderInv /\ [Next]_vars
        => [Promise!Next]_(Promise!vars)
  BY StepKeepsPromise
<1>3. Init => ApprovedInv
  BY DEF Init, ApprovedInv, ContextOnlyApproved
<1>4. TypeInv /\ ApprovedInv /\ [Next]_vars => ApprovedInv'
  BY NextApproved
<1>5. QED
  BY <1>1, <1>2, <1>3, <1>4, ReaderCorrect, BookkeepingCorrect, PTL
  DEF Spec, KeepsThePromise, Promise!Spec

-----------------------------------------------------------------------------
(* Decided mail stays in front: no assumption on who reads what, on what    *)
(* fails or when, or on the relay's memory.                                 *)

\* No message twice, and no message in both.
Distinct(q) == \A i, j \in 1..Len(q) : q[i] = q[j] => i = j
Apart(p, q) == \A i \in 1..Len(p), j \in 1..Len(q) : p[i] # q[j]

\* Mail that was fetched and is queued still stands in front, in its order.
Follows(queue, f) ==
  \A j \in 1..Len(queue), k \in 1..Len(f) : queue[j] = f[k] =>
    /\ j <= k
    /\ \A i \in 1..j : queue[i] = f[k - j + i]

\* A message is in one queue, once, and in no list that was fetched from another.
QueueInv ==
  \A a \in Addrs :
    /\ Distinct(inbox[a])
    /\ \A g \in Gates : Distinct(fetched[g][a]) /\ Follows(inbox[a], fetched[g][a])
    /\ \A b \in Addrs \ {a} :
         /\ Apart(inbox[a], inbox[b])
         /\ \A g \in Gates : Apart(inbox[a], fetched[g][b])
         /\ \A g, h \in Gates : Apart(fetched[g][a], fetched[h][b])

MailInv ==
  /\ CountInv
  /\ SentInv
  /\ settled \subseteq sent
  /\ QueueInv
  /\ DecidedIsFront

LEMMA InitMail == Init => MailInv
<1> SUFFICES ASSUME Init
             PROVE  MailInv
  OBVIOUS
<1>1. \A a \in Addrs : Len(NoMail[a]) = 0
  BY DEF NoMail
<1>2. /\ inbox = NoMail /\ \A g \in Gates : fetched[g] = NoMail
      /\ \A g \in Gates, a \in Addrs : decided[g][a] = 0
      /\ settled = {} /\ sent = {}
  BY DEF Init
<1>3. CountInv /\ SentInv /\ DecidedIsFront
  BY <1>1, <1>2 DEF CountInv, SentInv, DecidedIsFront
<1>4. QueueInv
  BY <1>1, <1>2 DEF QueueInv, Distinct, Follows, Apart
<1>5. QED
  BY <1>2, <1>3, <1>4 DEF MailInv

\* Queues and fetched lists have lengths.
LEMMA Lengths ==
  ASSUME TypeInv
  PROVE  /\ \A a \in Addrs : inbox[a] \in Seq(Msgs) /\ Len(inbox[a]) \in Nat
         /\ \A g \in Gates, a \in Addrs :
              /\ fetched[g][a] \in Seq(Msgs) /\ Len(fetched[g][a]) \in Nat
              /\ decided[g][a] \in 0..Len(fetched[g][a])
BY DEF TypeInv, TypeOK

\* A new message joins the back of one queue.
LEMMA SendKeepsMail ==
  ASSUME TypeInv, MailInv, NEW m \in Msgs, NEW c \in Addrs, Send(m, c)
  PROVE  MailInv'
<1> USE DEF MailInv
<1>1. /\ m \notin sent /\ sent' = sent \cup {m}
      /\ inbox' = [inbox EXCEPT ![c] = Append(@, m)]
      /\ UNCHANGED <<fetched, decided, settled>>
  BY DEF Send, gate
<1>2. /\ inbox'[c] = Append(inbox[c], m)
      /\ \A a \in Addrs \ {c} : inbox'[a] = inbox[a]
  BY <1>1 DEF TypeInv, TypeOK
<1>3. /\ Len(inbox'[c]) = Len(inbox[c]) + 1
      /\ inbox'[c][Len(inbox[c]) + 1] = m
      /\ \A i \in 1..Len(inbox[c]) : inbox'[c][i] = inbox[c][i]
  BY <1>2, Lengths
<1>4. \A a \in Addrs : \A i \in 1..Len(inbox'[a]) :
        \/ i \in 1..Len(inbox[a]) /\ inbox'[a][i] = inbox[a][i] /\ inbox[a][i] \in sent
        \/ a = c /\ i = Len(inbox[c]) + 1 /\ inbox'[a][i] = m
  <2>1. ASSUME NEW a \in Addrs \ {c}, NEW i \in 1..Len(inbox'[a])
        PROVE  i \in 1..Len(inbox[a]) /\ inbox'[a][i] = inbox[a][i] /\ inbox[a][i] \in sent
    BY <1>2 DEF SentInv
  <2>2. ASSUME NEW i \in 1..Len(inbox'[c])
        PROVE  \/ i \in 1..Len(inbox[c]) /\ inbox'[c][i] = inbox[c][i]
                  /\ inbox[c][i] \in sent
               \/ i = Len(inbox[c]) + 1 /\ inbox'[c][i] = m
    <3>1. Len(inbox[c]) \in Nat
      BY Lengths
    <3>2. i \in 1..Len(inbox[c]) \/ i = Len(inbox[c]) + 1
      BY <1>3, <3>1
    <3>3. QED
      BY <1>3, <3>2 DEF SentInv
  <2>3. QED
    BY <2>1, <2>2
<1>5. CountInv' /\ SentInv' /\ (settled \subseteq sent)'
  BY <1>1, <1>4 DEF CountInv, SentInv
<1>6. \A g \in Gates, a \in Addrs : \A k \in 1..Len(fetched[g][a]) :
        fetched[g][a][k] # m
  BY <1>1 DEF SentInv
<1>7. QueueInv'
  <2> SUFFICES ASSUME NEW a \in Addrs
               PROVE  /\ Distinct(inbox'[a])
                      /\ \A g \in Gates : /\ Distinct(fetched[g][a])
                                          /\ Follows(inbox'[a], fetched[g][a])
                      /\ \A b \in Addrs \ {a} :
                           /\ Apart(inbox'[a], inbox'[b])
                           /\ \A g \in Gates : Apart(inbox'[a], fetched[g][b])
                           /\ \A g, h \in Gates : Apart(fetched[g][a], fetched[h][b])
    BY <1>1 DEF QueueInv
  <2>1. Distinct(inbox'[a])
    BY <1>1, <1>4 DEF QueueInv, Distinct
  <2>2. ASSUME NEW g \in Gates
        PROVE  Follows(inbox'[a], fetched[g][a])
    <3> SUFFICES ASSUME NEW j \in 1..Len(inbox'[a]), NEW k \in 1..Len(fetched[g][a]),
                        inbox'[a][j] = fetched[g][a][k]
                 PROVE  /\ j <= k
                        /\ \A i \in 1..j : inbox'[a][i] = fetched[g][a][k - j + i]
      BY DEF Follows
    <3>1. j \in 1..Len(inbox[a]) /\ inbox[a][j] = fetched[g][a][k]
      BY <1>4, <1>6
    <3>2. j <= k /\ \A i \in 1..j : inbox[a][i] = fetched[g][a][k - j + i]
      BY <3>1 DEF QueueInv, Follows
    <3>3. \A i \in 1..j : i \in 1..Len(inbox[a])
      BY <3>1, Lengths
    <3>4. \A i \in 1..j : inbox'[a][i] = inbox[a][i]
      <4>1. CASE a = c
        BY <1>3, <3>3, <4>1
      <4>2. CASE a # c
        BY <1>2, <4>2
      <4>3. QED
        BY <4>1, <4>2
    <3>5. QED
      BY <3>2, <3>4
  <2>3. ASSUME NEW b \in Addrs \ {a}
        PROVE  Apart(inbox'[a], inbox'[b])
    BY <1>1, <1>4 DEF QueueInv, Apart
  <2>4. ASSUME NEW b \in Addrs \ {a}, NEW g \in Gates
        PROVE  Apart(inbox'[a], fetched[g][b])
    BY <1>4, <1>6 DEF QueueInv, Apart
  <2>5. QED
    BY <2>1, <2>2, <2>3, <2>4 DEF QueueInv
<1>8. DecidedIsFront'
  <2> SUFFICES ASSUME NEW a \in Addrs, NEW i \in 1..Len(inbox'[a]),
                      NEW j \in 1..Len(inbox'[a]), i < j, inbox'[a][j] \in settled
               PROVE  inbox'[a][i] \in settled
    BY <1>1 DEF DecidedIsFront
  <2>1. j \in 1..Len(inbox[a]) /\ inbox[a][j] \in settled
    BY <1>1, <1>4
  <2>2. i \in 1..Len(inbox[a]) /\ inbox'[a][i] = inbox[a][i]
    BY <1>4, <2>1, Lengths
  <2>3. QED
    BY <2>1, <2>2 DEF DecidedIsFront
<1>9. QED
  BY <1>5, <1>7, <1>8

\* Every queue loses a front, which may be empty or all there is.
Drops(d) ==
  \A a \in Addrs :
    /\ d[a] \in 0..Len(inbox[a])
    /\ Len(inbox'[a]) = Len(inbox[a]) - d[a]
    /\ \A i \in 1..Len(inbox'[a]) : inbox'[a][i] = inbox[a][i + d[a]]

LEMMA DropKeepsMail ==
  ASSUME TypeInv, MailInv, NEW d, Drops(d), UNCHANGED <<fetched, decided, settled, sent>>
  PROVE  MailInv'
<1> USE DEF MailInv
<1>1. \A a \in Addrs : d[a] \in Nat /\ \A i \in 1..Len(inbox'[a]) :
        i + d[a] \in 1..Len(inbox[a]) /\ inbox'[a][i] = inbox[a][i + d[a]]
  BY Lengths DEF Drops
<1>2. CountInv' /\ SentInv' /\ (settled \subseteq sent)'
  BY <1>1 DEF CountInv, SentInv
<1>3. QueueInv'
  <2> SUFFICES ASSUME NEW a \in Addrs
               PROVE  /\ Distinct(inbox'[a])
                      /\ \A g \in Gates : Follows(inbox'[a], fetched[g][a])
                      /\ \A b \in Addrs \ {a} :
                           /\ Apart(inbox'[a], inbox'[b])
                           /\ \A g \in Gates : Apart(inbox'[a], fetched[g][b])
    BY DEF QueueInv
  <2>1. Distinct(inbox'[a])
    <3> SUFFICES ASSUME NEW i \in 1..Len(inbox'[a]), NEW j \in 1..Len(inbox'[a]),
                        inbox'[a][i] = inbox'[a][j]
                 PROVE  i = j
      BY DEF Distinct
    <3>1. /\ i + d[a] \in 1..Len(inbox[a]) /\ j + d[a] \in 1..Len(inbox[a])
          /\ inbox[a][i + d[a]] = inbox[a][j + d[a]] /\ d[a] \in Nat
      BY <1>1
    <3>2. i + d[a] = j + d[a]
      <4>1. Distinct(inbox[a])
        BY DEF QueueInv
      <4>2. QED
        BY <3>1, <4>1 DEF Distinct
    <3>3. QED
      BY <3>1, <3>2
  <2>2. ASSUME NEW g \in Gates
        PROVE  Follows(inbox'[a], fetched[g][a])
    <3> SUFFICES ASSUME NEW j \in 1..Len(inbox'[a]), NEW k \in 1..Len(fetched[g][a]),
                        inbox'[a][j] = fetched[g][a][k]
                 PROVE  /\ j <= k
                        /\ \A i \in 1..j : inbox'[a][i] = fetched[g][a][k - j + i]
      BY DEF Follows
    <3> DEFINE e == j + d[a]
    <3>1. e \in 1..Len(inbox[a]) /\ inbox[a][e] = fetched[g][a][k] /\ d[a] \in Nat
      BY <1>1
    <3>2. e <= k /\ \A i \in 1..e : inbox[a][i] = fetched[g][a][k - e + i]
      BY <3>1 DEF QueueInv, Follows
    <3>3. ASSUME NEW i \in 1..j
          PROVE  inbox'[a][i] = fetched[g][a][k - j + i]
      <4>1. i \in 1..Len(inbox'[a]) /\ i + d[a] \in 1..e
        BY <3>1
      <4>2. k - e + (i + d[a]) = k - j + i
        BY <3>1
      <4>3. QED
        BY <1>1, <3>2, <4>1, <4>2
    <3>4. QED
      BY <3>1, <3>2, <3>3
  <2>3. ASSUME NEW b \in Addrs \ {a}
        PROVE  Apart(inbox'[a], inbox'[b])
    <3>1. Apart(inbox[a], inbox[b])
      BY DEF QueueInv
    <3>2. QED
      BY <1>1, <3>1 DEF Apart
  <2>4. ASSUME NEW b \in Addrs \ {a}, NEW g \in Gates
        PROVE  Apart(inbox'[a], fetched[g][b])
    <3>1. Apart(inbox[a], fetched[g][b])
      BY DEF QueueInv
    <3>2. SUFFICES ASSUME NEW i \in 1..Len(inbox'[a]), NEW j \in 1..Len(fetched[g][b])
                   PROVE  inbox'[a][i] # fetched[g][b][j]
      BY DEF Apart
    <3>3. i + d[a] \in 1..Len(inbox[a]) /\ inbox'[a][i] = inbox[a][i + d[a]]
      BY <1>1
    <3>4. QED
      BY <3>1, <3>3 DEF Apart
  <2>5. QED
    BY <2>1, <2>2, <2>3, <2>4
<1>4. DecidedIsFront'
  <2> SUFFICES ASSUME NEW a \in Addrs, NEW i \in 1..Len(inbox'[a]),
                      NEW j \in 1..Len(inbox'[a]), i < j, inbox'[a][j] \in settled
               PROVE  inbox'[a][i] \in settled
    BY DEF DecidedIsFront
  <2>1. /\ i + d[a] \in 1..Len(inbox[a]) /\ j + d[a] \in 1..Len(inbox[a])
        /\ i + d[a] < j + d[a] /\ inbox[a][j + d[a]] \in settled
    BY <1>1
  <2>2. inbox[a][i + d[a]] \in settled
    BY <2>1 DEF DecidedIsFront
  <2>3. QED
    BY <1>1, <2>2
<1>5. QED
  BY <1>2, <1>3, <1>4

\* A consume, waited for or late, and a restart drop fronts.
LEMMA ConsumeDrops ==
  ASSUME TypeInv, NEW c \in Addrs, NEW n \in Nat,
         inbox' = [inbox EXCEPT ![c] = AfterConsume(@, n)]
  PROVE  Drops([a \in Addrs |-> IF a = c THEN Smaller(n, Len(inbox[c])) ELSE 0])
<1>1. /\ inbox'[c] = AfterConsume(inbox[c], n)
      /\ \A a \in Addrs \ {c} : inbox'[a] = inbox[a]
  BY DEF TypeInv, TypeOK
<1>2. /\ Smaller(n, Len(inbox[c])) \in 0..Len(inbox[c])
      /\ Len(inbox'[c]) = Len(inbox[c]) - Smaller(n, Len(inbox[c]))
      /\ \A i \in 1..Len(inbox'[c]) :
           inbox'[c][i] = inbox[c][i + Smaller(n, Len(inbox[c]))]
  BY <1>1, Lengths, AfterConsumeFacts
<1>3. \A a \in Addrs \ {c} :
        /\ 0 \in 0..Len(inbox[a]) /\ Len(inbox'[a]) = Len(inbox[a]) - 0
        /\ \A i \in 1..Len(inbox'[a]) : inbox'[a][i] = inbox[a][i + 0]
  BY <1>1, Lengths
<1>4. QED
  BY <1>2, <1>3 DEF Drops

LEMMA RestartDrops ==
  ASSUME TypeInv, RelayRestart
  PROVE  Drops([a \in Addrs |-> Len(inbox[a])])
<1>1. \A a \in Addrs : Len(inbox'[a]) = 0 /\ Len(inbox[a]) \in 0..Len(inbox[a])
  BY Lengths DEF RelayRestart, NoMail
<1>2. QED
  BY <1>1 DEF Drops

\* What a gate forgets was in order.
LEMMA StartKeepsMail ==
  ASSUME TypeInv, MailInv, NEW g \in Gates, NEW s, NEW p, StartWith(g, s, p),
         UNCHANGED <<inbox, settled, sent>>
  PROVE  MailInv'
<1> USE DEF MailInv
<1>1. \A a \in Addrs : Len(NoMail[a]) = 0
  BY DEF NoMail
<1>2. /\ fetched'[g] = NoMail /\ \A a \in Addrs : decided'[g][a] = 0
      /\ \A h \in Gates \ {g} : fetched'[h] = fetched[h] /\ decided'[h] = decided[h]
  BY DEF StartWith, TypeInv, TypeOK
<1>3. CountInv' /\ SentInv' /\ (settled \subseteq sent)'
  BY <1>1, <1>2 DEF CountInv, SentInv
<1>4. \A h \in Gates, a \in Addrs :
        fetched'[h][a] = fetched[h][a] \/ Len(fetched'[h][a]) = 0
  BY <1>1, <1>2
<1>5. QueueInv'
  <2>1. \A q : Len(q) = 0 => Distinct(q) /\ \A r : Follows(r, q) /\ Apart(r, q) /\ Apart(q, r)
    BY DEF Distinct, Follows, Apart
  <2>2. \A h \in Gates, a \in Addrs :
          Distinct(fetched'[h][a]) /\ Follows(inbox[a], fetched'[h][a])
    BY <1>4, <2>1 DEF QueueInv
  <2>3. \A h \in Gates, a \in Addrs : \A b \in Addrs \ {a} :
          Apart(inbox[a], fetched'[h][b])
    BY <1>4, <2>1 DEF QueueInv
  <2>4. ASSUME NEW h \in Gates, NEW k \in Gates, NEW a \in Addrs, NEW b \in Addrs \ {a}
        PROVE  Apart(fetched'[h][a], fetched'[k][b])
    <3>1. Apart(fetched[h][a], fetched[k][b])
      BY DEF QueueInv
    <3>2. QED
      BY <1>4, <2>1, <3>1
  <2>5. QED
    BY <2>2, <2>3, <2>4 DEF QueueInv
<1>6. DecidedIsFront'
  BY DEF DecidedIsFront
<1>7. QED
  BY <1>3, <1>5, <1>6

\* What a gate fetches is a queue.
LEMMA FetchKeepsMail ==
  ASSUME TypeInv, MailInv, NEW g \in Gates, Fetch(g)
  PROVE  MailInv'
<1> USE DEF MailInv
<1>1. CASE StartWith(g, <<>>, "idle")
  BY <1>1, StartKeepsMail DEF Fetch, history
<1>2. CASE fetched' = [fetched EXCEPT ![g] =
                         [fetched[g] EXCEPT ![Addr(g)] = inbox[Addr(g)]]]
           /\ UNCHANGED decided
  <2> DEFINE c == Addr(g)
  <2>1. UNCHANGED <<inbox, sent, settled>> /\ pc[g] = "fetch"
    BY DEF Fetch, history
  <2>2. c \in Addrs
    BY <2>1, BusyAddr
  <2>3. \A h \in Gates, a \in Addrs :
          \/ fetched'[h][a] = fetched[h][a]
          \/ h = g /\ a = c /\ fetched'[h][a] = inbox[a]
    BY <1>2, <2>2 DEF TypeInv, TypeOK
  <2>4. CountInv'
    <3>1. \A a \in Addrs : decided[g][a] = 0
      BY <2>1 DEF TypeInv, GateInv
    <3>2. QED
      BY <1>2, <2>1, <2>3, <3>1 DEF CountInv
  <2>5. SentInv'
    BY <2>1, <2>3 DEF SentInv
  <2>6. \A a \in Addrs : Follows(inbox[a], inbox[a])
    <3> SUFFICES ASSUME NEW a \in Addrs,
                        NEW j \in 1..Len(inbox[a]), NEW k \in 1..Len(inbox[a]),
                        inbox[a][j] = inbox[a][k]
                 PROVE  /\ j <= k
                        /\ \A i \in 1..j : inbox[a][i] = inbox[a][k - j + i]
      BY DEF Follows
    <3>1. j = k
      BY DEF QueueInv, Distinct
    <3>2. QED
      BY <3>1
  <2>7. QueueInv'
    <3> SUFFICES ASSUME NEW a \in Addrs
                 PROVE  /\ Distinct(inbox[a])
                        /\ \A h \in Gates : /\ Distinct(fetched'[h][a])
                                            /\ Follows(inbox[a], fetched'[h][a])
                        /\ \A b \in Addrs \ {a} :
                             /\ Apart(inbox[a], inbox[b])
                             /\ \A h \in Gates : Apart(inbox[a], fetched'[h][b])
                             /\ \A h, k \in Gates :
                                  Apart(fetched'[h][a], fetched'[k][b])
      BY <2>1 DEF QueueInv
    <3>1. \A h \in Gates : Distinct(fetched'[h][a]) /\ Follows(inbox[a], fetched'[h][a])
      BY <2>3, <2>6 DEF QueueInv
    <3>2. \A b \in Addrs \ {a} : \A h \in Gates :
            /\ Apart(inbox[a], fetched'[h][b])
            /\ Apart(fetched[h][a], inbox[b])
      BY <2>3 DEF QueueInv, Apart
    <3>3. ASSUME NEW b \in Addrs \ {a}, NEW h \in Gates, NEW k \in Gates
          PROVE  Apart(fetched'[h][a], fetched'[k][b])
      BY <2>3, <3>2 DEF QueueInv
    <3>4. QED
      BY <3>1, <3>2, <3>3 DEF QueueInv
  <2>8. DecidedIsFront'
    BY <2>1 DEF DecidedIsFront
  <2>9. QED
    BY <2>1, <2>4, <2>5, <2>7, <2>8
<1>3. QED
  BY <1>1, <1>2 DEF Fetch

\* The message a gate shows, and where it stands.
LEMMA CurrentMail ==
  ASSUME TypeInv, NEW g \in Gates, Decide(g)
  PROVE  /\ Addr(g) \in Addrs
         /\ decided[g][Addr(g)] \in Nat
         /\ decided[g][Addr(g)] + 1 \in 1..Len(fetched[g][Addr(g)])
         /\ Current(g) = fetched[g][Addr(g)][decided[g][Addr(g)] + 1]
         /\ decided'[g][Addr(g)] = decided[g][Addr(g)] + 1
         /\ \A h \in Gates, a \in Addrs :
              h # g \/ a # Addr(g) => decided'[h][a] = decided[h][a]
         /\ UNCHANGED <<inbox, pc, todo, at, fetched, call, sent>>
         /\ settled' = settled \cup {Current(g)}
<1>1. pc[g] = "review"
  BY DEF Decide
<1>2. Addr(g) \in Addrs
  BY <1>1, BusyAddr
<1>3. decided' = [decided EXCEPT ![g][Addr(g)] = @ + 1]
  BY DEF Decide
<1>4. QED
  BY <1>2, <1>3, Lengths DEF Decide, MoreToReview, Current, TypeInv, TypeOK

\* Behind a message a gate decides on, it has decided on all that is queued.
LEMMA DecideKeepsMail ==
  ASSUME TypeInv, MailInv, NEW g \in Gates, Decide(g)
  PROVE  MailInv'
<1> USE DEF MailInv
<1> DEFINE A == Addr(g)
           n == decided[g][A] + 1
<1>1. /\ A \in Addrs /\ n \in 1..Len(fetched[g][A]) /\ decided[g][A] \in Nat
      /\ Current(g) = fetched[g][A][n] /\ decided'[g][A] = n
      /\ \A h \in Gates, a \in Addrs : h # g \/ a # A => decided'[h][a] = decided[h][a]
      /\ UNCHANGED <<inbox, fetched, sent>>
      /\ settled' = settled \cup {Current(g)}
  BY CurrentMail
<1>2. CountInv'
  <2> SUFFICES ASSUME NEW h \in Gates, NEW a \in Addrs, NEW i \in 1..decided'[h][a]
               PROVE  fetched[h][a][i] \in settled'
    BY <1>1 DEF CountInv
  <2>1. CASE h = g /\ a = A /\ i = n
    BY <1>1, <2>1
  <2>2. CASE ~(h = g /\ a = A /\ i = n)
    <3>1. i \in 1..decided[h][a]
      BY <1>1, <2>2
    <3>2. QED
      BY <1>1, <3>1 DEF CountInv
  <2>3. QED
    BY <2>1, <2>2
<1>3. SentInv' /\ (settled \subseteq sent)' /\ QueueInv'
  BY <1>1 DEF SentInv, QueueInv
<1>4. DecidedIsFront'
  <2> SUFFICES ASSUME NEW a \in Addrs, NEW i \in 1..Len(inbox[a]),
                      NEW j \in 1..Len(inbox[a]), i < j, inbox[a][j] \in settled'
               PROVE  inbox[a][i] \in settled'
    BY <1>1 DEF DecidedIsFront
  <2>1. CASE inbox[a][j] \in settled
    BY <1>1, <2>1 DEF DecidedIsFront
  <2>2. CASE inbox[a][j] = Current(g)
    <3>1. a = A
      BY <1>1, <2>2 DEF QueueInv, Apart
    <3>2. Follows(inbox[a], fetched[g][a]) /\ inbox[a][j] = fetched[g][a][n]
      BY <1>1, <2>2, <3>1 DEF QueueInv
    <3>3. i \in Nat /\ j \in Nat /\ n \in Nat /\ 1 <= i /\ i < j
      BY <1>1, Lengths
    <3>4. n \in 1..Len(fetched[g][a]) /\ i \in 1..j
      BY <1>1, <3>1, <3>3
    <3>5. j <= n /\ inbox[a][i] = fetched[g][a][n - j + i]
      BY <3>2, <3>4 DEF Follows
    <3> HIDE DEF n
    <3>6. n - j + i \in 1..decided[g][A]
      <4>1. n = decided[g][A] + 1 /\ decided[g][A] \in Nat
        BY <1>1 DEF n
      <4>2. j <= n
        BY <3>5
      <4>3. QED
        BY ONLY <3>3, <4>1, <4>2
    <3>7. QED
      BY <1>1, <3>1, <3>5, <3>6 DEF CountInv
  <2>3. QED
    BY <1>1, <2>1, <2>2
<1>5. QED
  BY <1>2, <1>3, <1>4

LEMMA NextMail ==
  ASSUME TypeInv, MailInv, [Next]_vars
  PROVE  MailInv'
<1>1. ASSUME NEW g \in Gates, NEW s \in Checks[g], Check(g, s)
      PROVE  MailInv'
  BY <1>1, StartKeepsMail DEF Check, history
<1>2. ASSUME NEW g \in Gates, FetchFails(g) \/ Deliver(g) \/ Crash(g)
      PROVE  MailInv'
  BY <1>2, StartKeepsMail DEF FetchFails, Deliver, Crash, history
<1>3. ASSUME NEW g \in Gates, Accept(g) \/ Decline(g) \/ Reject(g)
      PROVE  MailInv'
  BY <1>3, DecideKeepsMail DEF Accept, Decline, Reject
<1>4. ASSUME NEW g \in Gates, ServeConsume(g)
      PROVE  MailInv'
  <2>1. pc[g] = "consume"
    BY <1>4 DEF ServeConsume, TypeInv, GateInv
  <2>2. Addr(g) \in Addrs /\ decided[g][Addr(g)] \in Nat
    BY <2>1, BusyAddr, Lengths
  <2>3. QED
    BY <1>4, <2>2, ConsumeDrops, DropKeepsMail DEF ServeConsume, history
<1>5. ASSUME NEW r \in late, ServeLate(r)
      PROVE  MailInv'
  <2>1. r.addr \in Addrs /\ r.count \in Nat
    BY DEF TypeInv, TypeOK, Requests
  <2>2. QED
    BY <1>5, <2>1, ConsumeDrops, DropKeepsMail DEF ServeLate, gate, history
<1>6. CASE RelayRestart
  BY <1>6, RestartDrops, DropKeepsMail DEF RelayRestart, gate
<1>7. CASE UNCHANGED <<inbox, fetched, decided, settled, sent>>
  BY <1>7 DEF MailInv, CountInv, SentInv, QueueInv, DecidedIsFront
<1>8. QED
  BY <1>1, <1>2, <1>3, <1>4, <1>5, <1>6, <1>7, SendKeepsMail, FetchKeepsMail
  DEF Next, GateStep, UserStep, Dismiss, NextQueue, SkipConsume, SendConsume,
      ConsumeReturns, ConsumeFails, history, vars

LEMMA MailCorrect == Spec => []MailInv
<1>1. TypeInv /\ MailInv /\ [Next]_vars => MailInv'
  BY NextMail
<1>2. QED
  BY <1>1, InitMail, BookkeepingCorrect, PTL DEF Spec

\* "The decided messages are the contiguous front": in every queue, however many
\* gates review it, whichever of their consumes fails, comes late or takes away
\* what another has fetched, and whenever the relay forgets.
THEOREM FrontIsDecided == Spec => []DecidedIsFront
<1>1. MailInv => DecidedIsFront
  BY DEF MailInv
<1>2. QED
  BY <1>1, MailCorrect, PTL

-----------------------------------------------------------------------------
(* No prompt is repeated.                                                    *)

\* The queues of the steady gates.
Kept ==
  {a \in Addrs : \E g \in Steady : \E s \in Checks[g] :
     \E k \in 1..Len(s) : s[k] = a}

\* The queue has been fetched, and g may still ask about its mail.
Open(g, k) ==
  \/ pc[g] = "fetch" /\ k < at[g]
  \/ pc[g] = "review" /\ k >= at[g]

\* In the queue of a steady gate, mail that is decided on is among what a gate
\* will consume.
PendingInv ==
  \A a \in Addrs : a \in Kept =>
    \A i \in 1..Len(inbox[a]) : inbox[a][i] \in settled =>
      \E g \in Gates : \E k \in 1..Len(todo[g]), n \in 1..decided[g][a] :
        /\ todo[g][k] = a
        /\ Holds(g, k)
        /\ inbox[a][i] = fetched[g][a][n]

\* What a steady gate has yet to ask about is not decided on.
OpenInv ==
  \A g \in Gates : g \in Steady =>
    \A k \in 1..Len(todo[g]) : Open(g, k) =>
    \A n \in decided[g][todo[g][k]] + 1..Len(fetched[g][todo[g][k]]) :
      fetched[g][todo[g][k]][n] \notin settled

OnceInv == PendingInv /\ OpenInv

LEMMA InitOnce == Init => OnceInv
BY DEF Init, OnceInv, PendingInv, OpenInv, Open, NoMail

\* PendingInv, with the indices it speaks of.
LEMMA PendingWitness ==
  ASSUME OnceInv, NEW a \in Addrs, a \in Kept, NEW i \in 1..Len(inbox[a]),
         inbox[a][i] \in settled
  PROVE  \E g \in Gates : \E k \in Nat, n \in Nat :
           /\ k \in 1..Len(todo[g]) /\ n \in 1..decided[g][a]
           /\ todo[g][k] = a /\ Holds(g, k) /\ inbox[a][i] = fetched[g][a][n]
<1>1. PICK g \in Gates : \E k \in 1..Len(todo[g]), n \in 1..decided[g][a] :
        todo[g][k] = a /\ Holds(g, k) /\ inbox[a][i] = fetched[g][a][n]
  BY DEF OnceInv, PendingInv
<1>2. PICK k \in 1..Len(todo[g]), n \in 1..decided[g][a] :
        todo[g][k] = a /\ Holds(g, k) /\ inbox[a][i] = fetched[g][a][n]
  BY <1>1
<1>3. k \in Nat /\ n \in Nat
  OBVIOUS
<1>4. QED
  BY <1>2, <1>3

\* With sole readers, only a steady gate reads what a steady gate reads.
LEMMA KeptIsSteady ==
  ASSUME SoleReader, NEW a \in Kept, NEW g \in Gates, NEW s \in Checks[g],
         NEW k \in 1..Len(s), s[k] = a
  PROVE  g \in Steady
<1>1. PICK h \in Steady : \E t \in Checks[h] : \E j \in 1..Len(t) : t[j] = a
  BY DEF Kept
<1>2. h \in Gates
  BY DEF Steady
<1>3. h = g
  BY <1>1, <1>2 DEF SoleReader
<1>4. QED
  BY <1>3

\* New mail is not decided on.
LEMMA SendKeepsOnce ==
  ASSUME TypeInv, MailInv, OnceInv, NEW m \in Msgs, NEW c \in Addrs, Send(m, c)
  PROVE  OnceInv'
<1>1. /\ m \notin settled
      /\ inbox' = [inbox EXCEPT ![c] = Append(@, m)]
      /\ UNCHANGED <<pc, todo, at, fetched, decided, call, settled>>
  BY DEF Send, gate, MailInv
<1>2. OpenInv'
  BY <1>1 DEF OnceInv, OpenInv, Open
<1>3. ASSUME NEW a \in Addrs, a \in Kept, NEW i \in 1..Len(inbox'[a]), inbox'[a][i] \in settled
      PROVE  i \in 1..Len(inbox[a]) /\ inbox'[a][i] = inbox[a][i]
  <2>1. CASE a = c
    <3>1. inbox'[c] = Append(inbox[c], m) /\ inbox[c] \in Seq(Msgs)
      BY <1>1, Lengths DEF TypeInv, TypeOK
    <3>2. Len(inbox'[c]) = Len(inbox[c]) + 1 /\ inbox'[c][Len(inbox[c]) + 1] = m
      BY <3>1
    <3>3. i # Len(inbox[c]) + 1 /\ Len(inbox[c]) \in Nat
      BY <1>1, <1>3, <2>1, <3>1, <3>2
    <3>4. i \in 1..Len(inbox[c])
      BY <2>1, <3>2, <3>3
    <3>5. QED
      BY <2>1, <3>1, <3>4
  <2>2. CASE a # c
    BY <1>1, <2>2 DEF TypeInv, TypeOK
  <2>3. QED
    BY <2>1, <2>2
<1>4. PendingInv'
  <2> SUFFICES ASSUME NEW a \in Addrs, a \in Kept, NEW i \in 1..Len(inbox'[a]),
                      inbox'[a][i] \in settled
               PROVE  \E g \in Gates : \E k \in 1..Len(todo[g]), n \in 1..decided[g][a] :
                        /\ todo[g][k] = a
                        /\ Holds(g, k)
                        /\ inbox'[a][i] = fetched[g][a][n]
    BY <1>1 DEF PendingInv, Holds
  <2>1. i \in 1..Len(inbox[a]) /\ inbox'[a][i] = inbox[a][i]
    BY <1>3
  <2>2. QED
    BY <2>1 DEF OnceInv, PendingInv
<1>5. QED
  BY <1>2, <1>4 DEF OnceInv

\* A queue that loses its front keeps its readers.
LEMMA DropKeepsOnce ==
  ASSUME TypeInv, OnceInv, NEW d, Drops(d), UNCHANGED <<gate, settled>>
  PROVE  OnceInv'
<1> USE DEF gate
<1>1. OpenInv'
  BY DEF OnceInv, OpenInv, Open
<1>2. \A a \in Addrs : \A i \in 1..Len(inbox'[a]) :
        i + d[a] \in 1..Len(inbox[a]) /\ inbox'[a][i] = inbox[a][i + d[a]]
  BY Lengths DEF Drops
<1>3. PendingInv'
  <2> SUFFICES ASSUME NEW a \in Addrs, a \in Kept, NEW i \in 1..Len(inbox'[a]),
                      inbox'[a][i] \in settled
               PROVE  \E g \in Gates : \E k \in 1..Len(todo[g]), n \in 1..decided[g][a] :
                        /\ todo[g][k] = a
                        /\ Holds(g, k)
                        /\ inbox'[a][i] = fetched[g][a][n]
    BY DEF PendingInv, Holds
  <2>1. i + d[a] \in 1..Len(inbox[a]) /\ inbox'[a][i] = inbox[a][i + d[a]]
    BY <1>2
  <2>2. QED
    BY <2>1 DEF OnceInv, PendingInv
<1>4. QED
  BY <1>1, <1>3 DEF OnceInv

\* A consume that is served leaves nothing queued of what its gate decided on.
LEMMA ServeKeepsOnce ==
  ASSUME TypeInv, MailInv, OnceInv, NEW g \in Gates, ServeConsume(g)
  PROVE  OnceInv'
<1> DEFINE A == Addr(g)
           n == decided[g][A]
           s == Smaller(n, Len(inbox[A]))
<1>1. /\ inbox' = [inbox EXCEPT ![A] = AfterConsume(@, n)]
      /\ call[g] = "sent" /\ call' = [call EXCEPT ![g] = "served"]
      /\ UNCHANGED <<pc, todo, at, fetched, decided, settled>>
  BY DEF ServeConsume, history
<1>2. pc[g] = "consume"
  BY <1>1 DEF TypeInv, GateInv
<1>3. A \in Addrs /\ at[g] \in 1..Len(todo[g]) /\ A = todo[g][at[g]] /\ n \in Nat
  BY <1>2, BusyAddr, Lengths DEF Addr
<1>4. OpenInv'
  BY <1>1 DEF OnceInv, OpenInv, Open
<1> HIDE DEF A, n
<1>5. Drops([a \in Addrs |-> IF a = A THEN s ELSE 0])
  BY <1>1, <1>3, ConsumeDrops
<1>6. \A a \in Addrs \ {A} : inbox'[a] = inbox[a]
  BY <1>1 DEF TypeInv, TypeOK
<1>7. ASSUME NEW i \in 1..Len(inbox'[A])
      PROVE  i + s \in 1..Len(inbox[A]) /\ inbox'[A][i] = inbox[A][i + s] /\ i + s > n
  <2>1. s \in 0..Len(inbox[A]) /\ Len(inbox'[A]) = Len(inbox[A]) - s
        /\ inbox'[A][i] = inbox[A][i + s]
    BY <1>3, <1>5 DEF Drops
  <2>2. Len(inbox[A]) \in Nat
    BY <1>3, Lengths
  <2>3. s = n \/ s = Len(inbox[A])
    BY DEF Smaller
  <2> HIDE DEF s
  <2>4. QED
    BY <1>3, <2>1, <2>2, <2>3
<1> HIDE DEF s
<1>8. PendingInv'
  <2> SUFFICES ASSUME NEW a \in Addrs, a \in Kept, NEW i \in 1..Len(inbox'[a]),
                      inbox'[a][i] \in settled'
               PROVE  \E h \in Gates : \E k \in 1..Len(todo'[h]), j \in 1..decided'[h][a] :
                        /\ todo'[h][k] = a
                        /\ Holds(h, k)'
                        /\ inbox'[a][i] = fetched'[h][a][j]
    BY DEF PendingInv
  <2> DEFINE e == IF a = A THEN i + s ELSE i
  <2>1. /\ e \in 1..Len(inbox[a]) /\ inbox'[a][i] = inbox[a][e]
        /\ a = A => e > n
    BY <1>6, <1>7
  <2> HIDE DEF e
  <2>2. PICK h \in Gates, k \in Nat, j \in Nat :
          /\ k \in 1..Len(todo[h]) /\ j \in 1..decided[h][a]
          /\ todo[h][k] = a /\ Holds(h, k) /\ inbox[a][e] = fetched[h][a][j]
    BY <1>1, <2>1, PendingWitness
  <2>3. CASE h = g /\ k = at[g]
    <3>1. a = A
      BY <1>3, <2>2, <2>3
    <3>2. j \in 1..Len(fetched[g][A]) /\ j <= n /\ e \in Nat /\ j \in Nat
      <4>1. decided[g][A] = n /\ n \in 0..Len(fetched[g][A])
        BY <1>3, Lengths DEF n
      <4>2. j \in 1..n /\ Len(fetched[g][A]) \in Nat /\ Len(inbox[A]) \in Nat
        BY <1>3, <2>2, <2>3, <3>1, <4>1, Lengths
      <4>3. QED
        BY <2>1, <3>1, <4>1, <4>2
    <3>3. Follows(inbox[A], fetched[g][A])
      BY <1>3 DEF MailInv, QueueInv
    <3>4. e <= j
      BY <2>1, <2>2, <2>3, <3>1, <3>2, <3>3 DEF Follows
    <3>5. QED
      BY <1>3, <2>1, <3>1, <3>2, <3>4
  <2>4. CASE h # g \/ k # at[g]
    <3>1. h # g => call'[h] = call[h]
      BY <1>1 DEF TypeInv, TypeOK
    <3>2. Holds(h, k)'
      BY <1>1, <1>2, <2>2, <2>4, <3>1 DEF Holds
    <3>3. QED
      BY <1>1, <2>1, <2>2, <3>2
  <2>5. QED
    BY <2>3, <2>4
<1>9. QED
  BY <1>4, <1>8 DEF OnceInv

\* A gate that has nothing left to consume may forget.
LEMMA StartKeepsOnce ==
  ASSUME TypeInv, OnceInv, NEW g \in Gates, NEW s, NEW p, StartWith(g, s, p),
         p \in {"idle", "fetch"}, pc[g] \in {"idle", "fetch", "deliver"},
         UNCHANGED <<inbox, settled>>
  PROVE  OnceInv'
<1>1. /\ \A h \in Gates \ {g} :
           /\ pc'[h] = pc[h] /\ todo'[h] = todo[h] /\ at'[h] = at[h]
           /\ fetched'[h] = fetched[h] /\ decided'[h] = decided[h] /\ call'[h] = call[h]
      /\ pc'[g] = p /\ at'[g] = 1 /\ todo'[g] = s
  BY DEF StartWith, TypeInv, TypeOK
<1>2. OpenInv'
  <2> SUFFICES ASSUME NEW h \in Gates, h \in Steady, NEW k \in 1..Len(todo'[h]), Open(h, k)',
                      NEW n \in decided'[h][todo'[h][k]] + 1..Len(fetched'[h][todo'[h][k]])
               PROVE  fetched'[h][todo'[h][k]][n] \notin settled
    BY DEF OpenInv
  <2>1. h # g
    BY <1>1 DEF Open
  <2>2. Open(h, k)
    BY <1>1, <2>1 DEF Open
  <2>3. QED
    BY <1>1, <2>1, <2>2 DEF OnceInv, OpenInv
<1>3. PendingInv'
  <2> SUFFICES ASSUME NEW a \in Addrs, a \in Kept, NEW i \in 1..Len(inbox[a]), inbox[a][i] \in settled
               PROVE  \E h \in Gates : \E k \in 1..Len(todo'[h]), n \in 1..decided'[h][a] :
                        /\ todo'[h][k] = a
                        /\ Holds(h, k)'
                        /\ inbox[a][i] = fetched'[h][a][n]
    BY DEF PendingInv
  <2>1. PICK h \in Gates, k \in Nat, n \in Nat :
          /\ k \in 1..Len(todo[h]) /\ n \in 1..decided[h][a]
          /\ todo[h][k] = a /\ Holds(h, k) /\ inbox[a][i] = fetched[h][a][n]
    BY PendingWitness
  <2>2. h # g
    <3>1. pc[h] \in {"fetch", "review", "consume"}
      BY <2>1 DEF Holds
    <3>2. pc[h] = "fetch" => decided[h][a] = 0
      BY DEF TypeInv, GateInv
    <3>3. decided[h][a] # 0
      BY <2>1
    <3>4. QED
      BY <3>1, <3>2, <3>3
  <2>3. Holds(h, k)'
    BY <1>1, <2>1, <2>2 DEF Holds
  <2>4. QED
    BY <1>1, <2>1, <2>2, <2>3
<1>4. QED
  BY <1>2, <1>3 DEF OnceInv

\* What a gate fetches is not decided on: it is the only one to decide on it.
LEMMA FetchKeepsOnce ==
  ASSUME TypeInv, MailInv, OnceInv, SoleReader, NEW g \in Gates, Fetch(g)
  PROVE  OnceInv'
<1> DEFINE A == Addr(g)
<1>1. UNCHANGED <<inbox, sent, settled>> /\ pc[g] = "fetch"
  BY DEF Fetch, history
<1>2. /\ A \in Addrs /\ at[g] \in 1..Len(todo[g]) /\ A = todo[g][at[g]]
      /\ todo[g] \in Checks[g] /\ Len(todo[g]) \in Nat
  BY <1>1, BusyAddr DEF Addr
<1>3. \A a \in Addrs : decided[g][a] = 0
  BY <1>1 DEF TypeInv, GateInv
<1>4. CASE StartWith(g, <<>>, "idle")
  BY <1>1, <1>4, StartKeepsOnce
<1>5. CASE /\ fetched' = [fetched EXCEPT ![g] = [fetched[g] EXCEPT ![A] = inbox[A]]]
           /\ UNCHANGED <<todo, decided, call>>
           /\ \A h \in Gates \ {g} : pc'[h] = pc[h] /\ at'[h] = at[h]
           /\ \A k \in 1..Len(todo[g]) : Open(g, k)' => k <= at[g]
  <2> HIDE DEF A
  <2>1. \A h \in Gates, a \in Addrs :
          fetched'[h][a] = IF h = g /\ a = A THEN inbox[A] ELSE fetched[h][a]
    BY <1>2, <1>5 DEF TypeInv, TypeOK
  <2>2. ASSUME NEW a \in Addrs, a \in Kept, NEW i \in 1..Len(inbox[a]), inbox[a][i] \in settled
        PROVE  a # A
    <3>1. PICK h \in Gates, k \in Nat, n \in Nat :
            /\ k \in 1..Len(todo[h]) /\ n \in 1..decided[h][a]
            /\ todo[h][k] = a /\ Holds(h, k) /\ inbox[a][i] = fetched[h][a][n]
      BY <2>2, PendingWitness
    <3>2. h # g
      BY <1>3, <3>1
    <3>3. pc[h] # "idle"
      BY <3>1 DEF Holds
    <3>4. todo[h] \in Checks[h]
      BY <3>3, BusyAddr
    <3>5. QED
      BY <1>2, <3>1, <3>2, <3>4, DifferentQueues
  <2>3. OpenInv'
    <3> SUFFICES ASSUME NEW h \in Gates, h \in Steady, NEW k \in 1..Len(todo[h]), Open(h, k)',
                        NEW n \in decided[h][todo[h][k]] + 1..Len(fetched'[h][todo[h][k]])
                 PROVE  fetched'[h][todo[h][k]][n] \notin settled
      BY <1>1, <1>5 DEF OpenInv
    <3>1. CASE h # g
      <4>1. Open(h, k)
        BY <1>5, <3>1 DEF Open
      <4>2. todo[h][k] \in Addrs
        <5>1. pc[h] # "idle"
          BY <4>1 DEF Open
        <5>2. QED
          BY <5>1, BusyAddr
      <4>3. QED
        BY <2>1, <3>1, <4>1, <4>2 DEF OnceInv, OpenInv
    <3>2. CASE h = g
      <4>1. todo[g][k] \in Addrs /\ at[g] \in Nat /\ k \in Nat
        BY <1>1, <1>2, <3>2, BusyAddr
      <4>2. CASE k = at[g]
        <5>1. n \in 1..Len(inbox[A])
          BY <1>2, <1>3, <2>1, <3>2, <4>2
        <5>2. A \in Kept
          BY <1>2, <3>2 DEF Kept
        <5>3. QED
          BY <1>2, <2>1, <2>2, <3>2, <4>2, <5>1, <5>2
      <4>3. CASE k # at[g]
        <5>1. todo[g][k] # A
          BY <1>2, <3>2, <4>3, ChecksAreLists
        <5>2. k < at[g]
          BY <1>5, <3>2, <4>1, <4>3
        <5>3. Open(g, k)
          BY <1>1, <5>2 DEF Open
        <5>4. QED
          BY <2>1, <3>2, <4>1, <5>1, <5>3 DEF OnceInv, OpenInv
      <4>4. QED
        BY <4>2, <4>3
    <3>3. QED
      BY <3>1, <3>2
  <2>4. PendingInv'
    <3> SUFFICES ASSUME NEW a \in Addrs, a \in Kept, NEW i \in 1..Len(inbox[a]),
                        inbox[a][i] \in settled
                 PROVE  \E h \in Gates : \E k \in 1..Len(todo[h]), n \in 1..decided[h][a] :
                          /\ todo[h][k] = a
                          /\ Holds(h, k)'
                          /\ inbox[a][i] = fetched'[h][a][n]
      BY <1>1, <1>5 DEF PendingInv
    <3>1. PICK h \in Gates, k \in Nat, n \in Nat :
            /\ k \in 1..Len(todo[h]) /\ n \in 1..decided[h][a]
            /\ todo[h][k] = a /\ Holds(h, k) /\ inbox[a][i] = fetched[h][a][n]
      BY PendingWitness
    <3>2. h # g
      BY <1>3, <3>1
    <3>3. Holds(h, k)'
      BY <1>5, <3>1, <3>2 DEF Holds
    <3>4. QED
      BY <2>1, <3>1, <3>2, <3>3
  <2>5. QED
    BY <2>3, <2>4 DEF OnceInv
<1>6. QED
  <2>1. SUFFICES ASSUME ~StartWith(g, <<>>, "idle")
                 PROVE  OnceInv'
    BY <1>4
  <2>2. /\ fetched' = [fetched EXCEPT ![g] = [fetched[g] EXCEPT ![A] = inbox[A]]]
        /\ UNCHANGED <<todo, decided, call>>
    BY <2>1 DEF Fetch
  <2>3. \A h \in Gates \ {g} : pc'[h] = pc[h] /\ at'[h] = at[h]
    BY <2>1 DEF Fetch, TypeInv, TypeOK
  <2>4. \/ UNCHANGED pc /\ at'[g] = at[g] + 1
        \/ pc'[g] = "review" /\ at[g] = Len(todo[g])
    BY <2>1 DEF Fetch, TypeInv, TypeOK
  <2>5. \A k \in 1..Len(todo[g]) : Open(g, k)' => k <= at[g]
    BY <1>1, <1>2, <2>4 DEF Open
  <2>6. QED
    BY <1>5, <2>2, <2>3, <2>5

\* A decision is on the gate's next message, which is in no other list.
LEMMA DecideKeepsOnce ==
  ASSUME TypeInv, MailInv, OnceInv, SoleReader, NEW g \in Gates, Decide(g)
  PROVE  OnceInv'
<1> DEFINE A == Addr(g)
           n == decided[g][A] + 1
<1>1. /\ A \in Addrs /\ n \in 1..Len(fetched[g][A]) /\ decided[g][A] \in Nat
      /\ Current(g) = fetched[g][A][n] /\ decided'[g][A] = n
      /\ \A h \in Gates, a \in Addrs : h # g \/ a # A => decided'[h][a] = decided[h][a]
      /\ UNCHANGED <<inbox, pc, todo, at, fetched, call>>
      /\ settled' = settled \cup {Current(g)}
  BY CurrentMail
<1>2. /\ pc[g] = "review" /\ at[g] \in 1..Len(todo[g]) /\ A = todo[g][at[g]]
      /\ todo[g] \in Checks[g]
  <2>1. pc[g] = "review"
    BY DEF Decide
  <2>2. QED
    BY <2>1, BusyAddr DEF Addr
<1>3. \A h \in Gates, a \in Addrs :
        /\ decided[h][a] \in Nat /\ decided'[h][a] \in Nat
        /\ decided[h][a] <= decided'[h][a]
  BY <1>1, Lengths
<1> HIDE DEF A, n
<1>4. PendingInv'
  <2> SUFFICES ASSUME NEW a \in Addrs, a \in Kept, NEW i \in 1..Len(inbox[a]), inbox[a][i] \in settled'
               PROVE  \E h \in Gates : \E k \in 1..Len(todo[h]), j \in 1..decided'[h][a] :
                        /\ todo[h][k] = a
                        /\ Holds(h, k)
                        /\ inbox[a][i] = fetched[h][a][j]
    BY <1>1 DEF PendingInv, Holds
  <2>1. CASE inbox[a][i] \in settled
    <3>1. PICK h \in Gates, k \in Nat, j \in Nat :
            /\ k \in 1..Len(todo[h]) /\ j \in 1..decided[h][a]
            /\ todo[h][k] = a /\ Holds(h, k) /\ inbox[a][i] = fetched[h][a][j]
      BY <2>1, PendingWitness
    <3>2. j \in 1..decided'[h][a]
      BY <1>3, <3>1
    <3>3. QED
      BY <3>1, <3>2
  <2>2. CASE inbox[a][i] = fetched[g][A][n]
    <3>1. a = A
      BY <1>1, <2>2 DEF MailInv, QueueInv, Apart
    <3>2. Holds(g, at[g])
      BY <1>2 DEF Holds
    <3>3. n \in 1..decided'[g][a]
      BY <1>1, <3>1
    <3>4. QED
      BY <1>2, <2>2, <3>1, <3>2, <3>3
  <2>3. QED
    BY <1>1, <2>1, <2>2
<1>5. OpenInv'
  <2> SUFFICES ASSUME NEW h \in Gates, h \in Steady, NEW k \in 1..Len(todo[h]), Open(h, k),
                      NEW j \in decided'[h][todo[h][k]] + 1..Len(fetched[h][todo[h][k]])
               PROVE  fetched[h][todo[h][k]][j] \notin settled'
    BY <1>1 DEF OpenInv, Open
  <2> DEFINE b == todo[h][k]
  <2>1. b \in Addrs /\ todo[h] \in Checks[h]
    <3>1. pc[h] # "idle"
      BY DEF Open
    <3>2. QED
      BY <3>1, BusyAddr
  <2>2. j \in decided[h][b] + 1..Len(fetched[h][b]) /\ j \in 1..Len(fetched[h][b])
    BY <1>3, <2>1, Lengths
  <2>3. fetched[h][b][j] \notin settled
    BY <2>2 DEF OnceInv, OpenInv
  <2>4. fetched[h][b][j] # fetched[g][A][n]
    <3>1. CASE b # A
      <4>1. Apart(fetched[h][b], fetched[g][A])
        BY <1>1, <2>1, <3>1 DEF MailInv, QueueInv
      <4>2. QED
        BY <1>1, <2>2, <4>1 DEF Apart
    <3>2. CASE b = A
      <4>1. h = g
        BY <1>2, <2>1, <3>2, DifferentQueues
      <4>2. j # n
        BY <1>1, <1>3, <3>2, <4>1
      <4>3. Distinct(fetched[g][A])
        BY <1>1 DEF MailInv, QueueInv
      <4>4. QED
        BY <1>1, <2>2, <3>2, <4>1, <4>2, <4>3 DEF Distinct
    <3>3. QED
      BY <3>1, <3>2
  <2>5. QED
    BY <1>1, <2>3, <2>4
<1>6. QED
  BY <1>4, <1>5 DEF OnceInv

\* A gate that moves on within its lists gives up no queue it decided on.
LEMMA MoveKeepsOnce ==
  ASSUME TypeInv, OnceInv, NEW g \in Gates,
         UNCHANGED <<inbox, todo, fetched, decided, settled>>,
         \A h \in Gates : h # g =>
           pc'[h] = pc[h] /\ at'[h] = at[h] /\ call'[h] = call[h],
         \A k \in 1..Len(todo[g]) :
           /\ Holds(g, k) /\ decided[g][todo[g][k]] > 0 => Holds(g, k)'
           /\ Open(g, k)' => Open(g, k)
  PROVE  OnceInv'
<1>1. OpenInv'
  <2> SUFFICES ASSUME NEW h \in Gates, h \in Steady, NEW k \in 1..Len(todo[h]), Open(h, k)'
               PROVE  \A n \in decided[h][todo[h][k]] + 1..Len(fetched[h][todo[h][k]]) :
                        fetched[h][todo[h][k]][n] \notin settled
    BY DEF OpenInv
  <2>1. Open(h, k)
    <3>1. CASE h = g
      BY <3>1
    <3>2. CASE h # g
      BY <3>2 DEF Open
    <3>3. QED
      BY <3>1, <3>2
  <2>2. QED
    BY <2>1 DEF OnceInv, OpenInv
<1>2. PendingInv'
  <2> SUFFICES ASSUME NEW a \in Addrs, a \in Kept, NEW i \in 1..Len(inbox[a]), inbox[a][i] \in settled
               PROVE  \E h \in Gates : \E k \in 1..Len(todo[h]), n \in 1..decided[h][a] :
                        /\ todo[h][k] = a
                        /\ Holds(h, k)'
                        /\ inbox[a][i] = fetched[h][a][n]
    BY DEF PendingInv
  <2>1. PICK h \in Gates, k \in Nat, n \in Nat :
          /\ k \in 1..Len(todo[h]) /\ n \in 1..decided[h][a]
          /\ todo[h][k] = a /\ Holds(h, k) /\ inbox[a][i] = fetched[h][a][n]
    BY PendingWitness
  <2>2. decided[h][todo[h][k]] > 0
    BY <2>1, Lengths
  <2>3. Holds(h, k)'
    <3>1. CASE h = g
      BY <2>1, <2>2, <3>1
    <3>2. CASE h # g
      BY <2>1, <3>2 DEF Holds
    <3>3. QED
      BY <3>1, <3>2
  <2>4. QED
    BY <2>1, <2>3
<1>3. QED
  BY <1>1, <1>2 DEF OnceInv

\* What a gate gives up that may fail is in no steady gate's queue.
LEMMA UnsteadyKeepsOnce ==
  ASSUME TypeInv, OnceInv, SoleReader, NEW g \in Unsteady,
         UNCHANGED <<inbox, settled>>,
         \A h \in Gates : h # g =>
           /\ pc'[h] = pc[h] /\ todo'[h] = todo[h] /\ at'[h] = at[h]
           /\ fetched'[h] = fetched[h] /\ decided'[h] = decided[h]
           /\ call'[h] = call[h]
  PROVE  OnceInv'
<1>1. \A h \in Steady : h \in Gates /\ h # g
  BY DEF Steady
<1>2. OpenInv'
  <2> SUFFICES ASSUME NEW h \in Gates, h \in Steady, NEW k \in 1..Len(todo'[h]), Open(h, k)'
               PROVE  \A n \in decided'[h][todo'[h][k]] + 1..Len(fetched'[h][todo'[h][k]]) :
                        fetched'[h][todo'[h][k]][n] \notin settled
    BY DEF OpenInv
  <2>1. h \in Gates /\ h # g
    BY <1>1
  <2>2. Open(h, k)
    BY <2>1 DEF Open
  <2>3. QED
    BY <2>1, <2>2 DEF OnceInv, OpenInv
<1>3. PendingInv'
  <2> SUFFICES ASSUME NEW a \in Addrs, a \in Kept, NEW i \in 1..Len(inbox[a]), inbox[a][i] \in settled
               PROVE  \E h \in Gates : \E k \in 1..Len(todo'[h]), n \in 1..decided'[h][a] :
                        /\ todo'[h][k] = a
                        /\ Holds(h, k)'
                        /\ inbox[a][i] = fetched'[h][a][n]
    BY DEF PendingInv
  <2>1. PICK h \in Gates, k \in Nat, n \in Nat :
          /\ k \in 1..Len(todo[h]) /\ n \in 1..decided[h][a]
          /\ todo[h][k] = a /\ Holds(h, k) /\ inbox[a][i] = fetched[h][a][n]
    BY PendingWitness
  <2>2. todo[h] \in Checks[h]
    <3>1. pc[h] # "idle"
      BY <2>1 DEF Holds
    <3>2. QED
      BY <3>1, BusyAddr
  <2>3. h # g
    BY <1>1, <2>1, <2>2, KeptIsSteady
  <2>4. Holds(h, k)'
    BY <2>1, <2>3 DEF Holds
  <2>5. QED
    BY <2>1, <2>3, <2>4
<1>4. QED
  BY <1>2, <1>3 DEF OnceInv

LEMMA NextOnce ==
  ASSUME TypeInv, MailInv, OnceInv, SoleReader, [Next]_vars
  PROVE  OnceInv'
<1>1. ASSUME NEW g \in Gates, NEW s \in Checks[g], Check(g, s)
      PROVE  OnceInv'
  BY <1>1, StartKeepsOnce DEF Check, history
<1>2. ASSUME NEW g \in Gates, FetchFails(g) \/ Deliver(g)
      PROVE  OnceInv'
  BY <1>2, StartKeepsOnce DEF FetchFails, Deliver, history
<1>3. ASSUME NEW g \in Gates, Accept(g) \/ Decline(g) \/ Reject(g)
      PROVE  OnceInv'
  BY <1>3, DecideKeepsOnce DEF Accept, Decline, Reject
<1>4. ASSUME NEW g \in Gates, Dismiss(g) \/ NextQueue(g)
      PROVE  OnceInv'
  <2>1. /\ UNCHANGED <<inbox, todo, fetched, decided, call, settled>>
        /\ pc[g] = "review"
        /\ \A h \in Gates : h # g => pc'[h] = pc[h] /\ at'[h] = at[h]
    BY <1>4 DEF Dismiss, NextQueue, history, TypeInv, TypeOK
  <2>2. /\ call[g] = "none" /\ at[g] \in 1..Len(todo[g]) /\ Len(todo[g]) \in Nat
    BY <2>1, BusyAddr DEF TypeInv, TypeOK, GateInv
  <2>3. \/ pc'[g] = "consume" /\ at'[g] = 1
        \/ pc'[g] = "review" /\ at'[g] = at[g] + 1
    BY <1>4 DEF Dismiss, NextQueue, TypeInv, TypeOK
  <2>4. \A k \in 1..Len(todo[g]) : Holds(g, k)' /\ (Open(g, k)' => Open(g, k))
    BY <2>1, <2>2, <2>3 DEF Holds, Open
  <2>5. QED
    BY <2>1, <2>4, MoveKeepsOnce
<1>5. ASSUME NEW g \in Gates, SkipConsume(g) \/ ConsumeReturns(g)
      PROVE  OnceInv'
  <2>1. pc[g] = "consume"
    BY <1>5 DEF SkipConsume, ConsumeReturns, TypeInv, GateInv
  <2>2. /\ UNCHANGED <<inbox, todo, fetched, decided, settled>>
        /\ Advance(g)
        /\ \A h \in Gates : h # g => call'[h] = call[h]
        /\ call'[g] = "none"
        /\ decided[g][Addr(g)] = 0 \/ call[g] = "served"
    BY <1>5 DEF SkipConsume, ConsumeReturns, history, TypeInv, TypeOK
  <2>3. PICK p \in {"consume", "deliver"}, k \in 1..Len(todo[g]) :
          /\ pc' = [pc EXCEPT ![g] = p]
          /\ at' = [at EXCEPT ![g] = k]
          /\ p = "deliver" => k = at[g] /\ k = Len(todo[g])
          /\ p = "consume" => k = at[g] + 1
    BY <2>1, <2>2, AdvanceMoves
  <2>4. /\ pc'[g] = p /\ at'[g] = k
        /\ \A h \in Gates : h # g => pc'[h] = pc[h] /\ at'[h] = at[h]
    BY <2>3 DEF TypeInv, TypeOK
  <2>5. at[g] \in 1..Len(todo[g]) /\ Len(todo[g]) \in Nat
    BY <2>1, BusyAddr
  <2>6. ASSUME NEW j \in 1..Len(todo[g]), Holds(g, j), decided[g][todo[g][j]] > 0
        PROVE  Holds(g, j)'
    <3>1. j = at[g] => call[g] # "served" /\ decided[g][Addr(g)] > 0
      BY <2>1, <2>5, <2>6 DEF Holds, Addr
    <3>2. j # at[g]
      BY <2>2, <3>1
    <3>3. j > at[g]
      BY <2>1, <2>5, <2>6, <3>2 DEF Holds
    <3>4. p = "consume" /\ k = at[g] + 1
      BY <2>3, <2>5, <3>3
    <3>5. QED
      BY <2>2, <2>4, <2>5, <3>3, <3>4 DEF Holds
  <2>7. \A j \in 1..Len(todo[g]) : ~Open(g, j)'
    BY <2>4 DEF Open
  <2>8. QED
    BY <2>2, <2>4, <2>6, <2>7, MoveKeepsOnce
<1>6. ASSUME NEW g \in Gates, SendConsume(g)
      PROVE  OnceInv'
  <2>1. /\ UNCHANGED <<inbox, pc, todo, at, fetched, decided, settled>>
        /\ call'[g] = "sent"
        /\ \A h \in Gates : h # g => call'[h] = call[h]
    BY <1>6 DEF SendConsume, history, TypeInv, TypeOK
  <2>2. \A k \in 1..Len(todo[g]) :
          (Holds(g, k) => Holds(g, k)') /\ (Open(g, k)' => Open(g, k))
    BY <2>1 DEF Holds, Open
  <2>3. QED
    BY <2>1, <2>2, MoveKeepsOnce
<1>7. ASSUME NEW r \in late, ServeLate(r)
      PROVE  OnceInv'
  <2>1. r.addr \in Addrs /\ r.count \in Nat
    BY DEF TypeInv, TypeOK, Requests
  <2>2. QED
    BY <1>7, <2>1, ConsumeDrops, DropKeepsOnce DEF ServeLate, history
<1>8. CASE RelayRestart
  BY <1>8, RestartDrops, DropKeepsOnce DEF RelayRestart
<1>9. CASE UNCHANGED vars
  BY <1>9 DEF vars, OnceInv, PendingInv, OpenInv, Holds, Open
<1>10. ASSUME NEW g \in Gates, ConsumeFails(g) \/ Crash(g)
       PROVE  OnceInv'
  <2>1. g \in Unsteady /\ UNCHANGED <<inbox, settled>>
    BY <1>10 DEF ConsumeFails, Crash, history
  <2>2. ASSUME NEW h \in Gates, h # g
        PROVE  /\ pc'[h] = pc[h] /\ todo'[h] = todo[h] /\ at'[h] = at[h]
               /\ fetched'[h] = fetched[h] /\ decided'[h] = decided[h]
               /\ call'[h] = call[h]
    <3>1. CASE ConsumeFails(g)
      BY <2>2, <3>1 DEF ConsumeFails, Advance, TypeInv, TypeOK
    <3>2. CASE Crash(g)
      BY <2>2, <3>2 DEF Crash, StartWith, TypeInv, TypeOK
    <3>3. QED
      BY <1>10, <3>1, <3>2
  <2>3. QED
    BY <2>1, <2>2, UnsteadyKeepsOnce
<1>11. QED
  BY <1>1, <1>2, <1>3, <1>4, <1>5, <1>6, <1>7, <1>8, <1>9, <1>10,
     SendKeepsOnce, FetchKeepsOnce, ServeKeepsOnce
  DEF Next, GateStep, UserStep

\* What a gate asks about has not been decided on.
LEMMA AsksOpenMail ==
  ASSUME TypeInv, OnceInv, NEW g \in Steady, Decide(g)
  PROVE  Current(g) \notin settled
<1> g \in Gates
  BY DEF Steady
<1>1. pc[g] = "review"
  BY DEF Decide
<1>2. at[g] \in 1..Len(todo[g]) /\ Addr(g) = todo[g][at[g]] /\ at[g] >= at[g]
  BY <1>1, BusyAddr DEF Addr
<1>3. Open(g, at[g])
  BY <1>1, <1>2 DEF Open
<1>4. /\ decided[g][Addr(g)] \in Nat
      /\ decided[g][Addr(g)] + 1 \in 1..Len(fetched[g][Addr(g)])
      /\ Current(g) = fetched[g][Addr(g)][decided[g][Addr(g)] + 1]
  BY CurrentMail
<1>5. decided[g][Addr(g)] + 1 \in decided[g][Addr(g)] + 1..Len(fetched[g][Addr(g)])
  BY <1>4
<1>6. QED
  BY <1>2, <1>3, <1>4, <1>5 DEF OnceInv, OpenInv

\* No prompt is repeated: with one reader for each queue, a gate whose consumes
\* are answered, and which lives to see it, never asks about a message that was
\* decided on, however often other gates fail, their consumes come late or the
\* relay forgets its mail.
THEOREM PromptedOnce == SoleReader /\ Spec => DecidedOnce
<1> SUFFICES ASSUME SoleReader
             PROVE  Spec => DecidedOnce
  OBVIOUS
<1>1. TypeInv /\ MailInv /\ OnceInv /\ [Next]_vars => OnceInv'
  BY NextOnce
<1>2. TypeInv /\ OnceInv /\ [Next]_vars
        => [\A g \in Steady : Decide(g) => Current(g) \notin settled]_vars
  BY AsksOpenMail
<1>3. QED
  BY <1>1, <1>2, InitOnce, MailCorrect, BookkeepingCorrect, PTL
  DEF Spec, DecidedOnce

=============================================================================
