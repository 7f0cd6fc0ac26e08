--------------------------- MODULE RelayMailProofs ---------------------------
(***************************************************************************)
(* RelayMail for every set of messages, readers and connections: its       *)
(* types, that only overlapping handlers lose mail, and that no connected  *)
(* listener is left in the dark.                                           *)
(***************************************************************************)
EXTENDS RelayMail, TLAPS

\* What do_check holds between two requests.
Readings ==
  {Idle} \cup {Reviewing(got) : got \in Seq(Messages) \ {<<>>}}
    \cup {Consuming(from, count) : from \in DOMAIN lists, count \in Nat}

TypeInv ==
  /\ lists \in Seq(Seq(Messages))
  /\ queue \in DOMAIN lists
  /\ sending \in [Messages -> {"unsent", "appending", "ringing", "sent"}]
  /\ into \in [Messages -> DOMAIN lists]
  /\ bells \in [Messages -> SUBSET Conns]
  /\ dead \in [Messages -> SUBSET Conns]
  /\ conn \in [Conns -> {"new", "open", "cut", "closed"}]
  /\ active \subseteq {c \in Conns : conn[c] \in {"open", "cut"}}
  /\ told \in BOOLEAN
  /\ returned \cup shown \cup overlapped \subseteq Messages
  /\ reading \in [Readers -> Readings]

\* What a do_check holds can be told apart by where it stands.
LEMMA ReadingKinds ==
  ASSUME NEW x \in Readings
  PROVE  /\ x.at = "reviewing" => x.got \in Seq(Messages) \ {<<>>}
         /\ x.at = "consuming" => x.from \in DOMAIN lists /\ x.count \in Nat
         /\ x = Idle \/ x.at = "reviewing" \/ x.at = "consuming"
BY DEF Readings, Idle, Reviewing, Consuming

\* A list of messages is what is cut off it and what remains.
LEMMA CutParts ==
  ASSUME NEW l \in Seq(Messages), NEW k \in Nat, k <= Len(l)
  PROVE  /\ Cutoff(l, k) \in Seq(Messages)
         /\ ToSet(SubSeq(l, 1, k)) \subseteq Messages
         /\ ToSet(l) = ToSet(SubSeq(l, 1, k)) \cup ToSet(Cutoff(l, k))
<1>1. /\ Len(SubSeq(l, 1, k)) = k
      /\ \A i \in 1..k : SubSeq(l, 1, k)[i] = l[i]
      /\ SubSeq(l, 1, k) \in Seq(Messages)
  OBVIOUS
<1>2. /\ DOMAIN Cutoff(l, k) = 1..(Len(l) - k)
      /\ \A i \in 1..(Len(l) - k) : Cutoff(l, k)[i] = l[i + k]
      /\ Cutoff(l, k) \in Seq(Messages)
  BY DEF Cutoff
<1>3. ToSet(l) \subseteq ToSet(SubSeq(l, 1, k)) \cup ToSet(Cutoff(l, k))
  <2> SUFFICES ASSUME NEW i \in 1..Len(l)
               PROVE  l[i] \in ToSet(SubSeq(l, 1, k)) \cup ToSet(Cutoff(l, k))
    BY DEF ToSet
  <2>1. CASE i <= k
    BY <1>1, <2>1 DEF ToSet
  <2>2. CASE ~ (i <= k)
    <3>1. i - k \in 1..(Len(l) - k) /\ (i - k) + k = i
      BY <2>2
    <3>2. Cutoff(l, k)[i - k] = l[i]
      BY <1>2, <3>1
    <3> QED
      BY <1>2, <3>1, <3>2 DEF ToSet
  <2> QED
    BY <2>1, <2>2
<1>4. /\ ToSet(SubSeq(l, 1, k)) \subseteq ToSet(l)
      /\ ToSet(SubSeq(l, 1, k)) \subseteq Messages
  BY <1>1 DEF ToSet
<1>5. ToSet(Cutoff(l, k)) \subseteq ToSet(l)
  <2> SUFFICES ASSUME NEW i \in 1..(Len(l) - k) PROVE Cutoff(l, k)[i] \in ToSet(l)
    BY <1>2 DEF ToSet
  <2>1. i + k \in DOMAIN l
    OBVIOUS
  <2> QED
    BY <1>2, <2>1 DEF ToSet
<1> QED
  BY <1>2, <1>3, <1>4, <1>5

\* A message more.
LEMMA AppendParts ==
  ASSUME NEW l \in Seq(Messages), NEW m \in Messages
  PROVE  ToSet(Append(l, m)) = ToSet(l) \cup {m}
<1> DEFINE longer == Append(l, m)
<1>1. /\ DOMAIN l = 1..Len(l) /\ Len(l) \in Nat
      /\ DOMAIN longer = 1..(Len(l) + 1)
      /\ longer[Len(l) + 1] = m
      /\ \A i \in 1..Len(l) : longer[i] = l[i]
  OBVIOUS
<1> HIDE DEF longer
<1>2. ToSet(longer) \subseteq ToSet(l) \cup {m}
  <2> SUFFICES ASSUME NEW i \in 1..(Len(l) + 1) PROVE longer[i] \in ToSet(l) \cup {m}
    BY <1>1 DEF ToSet
  <2>1. i = Len(l) + 1 \/ i \in 1..Len(l)
    BY <1>1
  <2> QED
    BY <1>1, <2>1 DEF ToSet
<1>3. m \in ToSet(longer) /\ ToSet(l) \subseteq ToSet(longer)
  BY <1>1 DEF ToSet
<1> QED
  BY <1>2, <1>3 DEF longer

\* The empty relay is well typed.
LEMMA InitTyped == Init => TypeInv
<1> SUFFICES ASSUME Init PROVE TypeInv
  OBVIOUS
<1>1. lists \in Seq(Seq(Messages)) /\ DOMAIN lists = {1}
  BY DEF Init
<1>2. reading \in [Readers -> Readings]
  BY DEF Init, Readings
<1> QED
  BY <1>1, <1>2 DEF Init, TypeInv

\* Every action keeps the types.
LEMMA StepTyped == TypeInv /\ [Next]_vars => TypeInv'
<1> SUFFICES ASSUME TypeInv, [Next]_vars PROVE TypeInv'
  OBVIOUS
<1>a. /\ DOMAIN lists' = DOMAIN lists => Readings' = Readings
      /\ DOMAIN lists \subseteq DOMAIN lists' => Readings \subseteq Readings'
      /\ Idle \in Readings /\ Idle \in Readings'
  BY DEF Readings
<1>b. /\ Queue \in Seq(Messages)
      /\ Queued \subseteq Messages
  BY DEF TypeInv, Queue, Queued, ToSet
<1> USE <1>a DEF TypeInv
<1>1. CASE UNCHANGED vars
  BY <1>1 DEF vars
<1>2. ASSUME NEW m \in Messages, LookUp(m) PROVE TypeInv'
  BY <1>2 DEF LookUp
<1>3. ASSUME NEW m \in Messages, AppendTo(m) PROVE TypeInv'
  <2>1. lists[into[m]] \in Seq(Messages)
    OBVIOUS
  <2>2. Append(lists[into[m]], m) \in Seq(Messages)
    BY <2>1
  <2>3. lists' \in Seq(Seq(Messages)) /\ DOMAIN lists' = DOMAIN lists
    BY <1>3, <2>2 DEF AppendTo, Appended
  <2>4. 1 \in DOMAIN lists
    <3>1. DOMAIN lists = 1..Len(lists) /\ Len(lists) \in Nat
      OBVIOUS
    <3> QED
      BY <3>1
  <2> QED
    BY <1>3, <2>3, <2>4 DEF AppendTo
<1>4. ASSUME NEW m \in Messages, NEW c \in Conns, Ring(m, c) PROVE TypeInv'
  <2>1. bells' \in [Messages -> SUBSET Conns] /\ dead' \in [Messages -> SUBSET Conns]
    <3>1. bells' = [bells EXCEPT ![m] = bells[m] \ {c}]
      BY <1>4 DEF Ring
    <3>2. dead' = dead \/ dead' = [dead EXCEPT ![m] = dead[m] \cup {c}]
      BY <1>4 DEF Ring
    <3>3. bells[m] \ {c} \in SUBSET Conns /\ dead[m] \cup {c} \in SUBSET Conns
      OBVIOUS
    <3> QED
      BY <3>1, <3>2, <3>3
  <2>2. /\ told' \in BOOLEAN
        /\ UNCHANGED <<lists, queue, sending, into, conn, active, reading, returned,
                       shown, overlapped>>
    BY <1>4 DEF Ring
  <2> QED
    BY <2>1, <2>2
<1>5. ASSUME NEW m \in Messages, Answer(m) PROVE TypeInv'
  BY <1>5 DEF Answer, StillActive
<1>6. ASSUME NEW c \in Conns, Connect(c) PROVE TypeInv'
  BY <1>6 DEF Connect, BacklogTold
<1>7. ASSUME NEW c \in Conns, Cut(c) PROVE TypeInv'
  BY <1>7 DEF Cut, relay
<1>8. ASSUME NEW c \in Conns, Disconnect(c) PROVE TypeInv'
  BY <1>8 DEF Disconnect, Without
<1>9. ASSUME NEW r \in Readers, Check(r) PROVE TypeInv'
  <2>1. Queue # <<>> => Reviewing(Queue) \in Readings
    BY <1>b DEF Readings
  <2> QED
    BY <1>b, <1>9, <2>1 DEF Check, relay
<1>10. ASSUME NEW r \in Readers, LeaveAll(r) PROVE TypeInv'
  BY <1>10 DEF LeaveAll, relay
<1>11. ASSUME NEW r \in Readers, NEW k \in 1..Cardinality(Messages), BeginConsume(r, k)
       PROVE  TypeInv'
  <2>1. k \in Nat
    <3>1. reading[r].got \in Seq(Messages) /\ k \in DOMAIN reading[r].got
      BY <1>11, ReadingKinds DEF BeginConsume
    <3> QED
      BY <3>1
  <2>2. Consuming(queue, k) \in Readings
    BY <2>1 DEF Readings
  <2> QED
    BY <1>11, <2>2 DEF BeginConsume, relay
<1>12. ASSUME NEW r \in Readers, Replace(r) PROVE TypeInv'
  <2> DEFINE pending == lists[reading[r].from]
             n == LeastOf(reading[r].count, Len(pending))
  <2>1. pending \in Seq(Messages) /\ n \in Nat /\ n <= Len(pending)
    BY <1>12, ReadingKinds DEF Replace, LeastOf
  <2>2. /\ Cutoff(pending, n) \in Seq(Messages)
        /\ ToSet(SubSeq(pending, 1, n)) \subseteq Messages
    BY <2>1, CutParts
  <2>3. lists' = Append(lists, Cutoff(pending, n))
    BY <1>12 DEF Replace
  <2>4. /\ lists' \in Seq(Seq(Messages))
        /\ DOMAIN lists \subseteq DOMAIN lists'
        /\ Len(lists') \in DOMAIN lists'
    BY <2>2, <2>3
  <2>5. reading' \in [Readers -> Readings']
    <3>1. reading' = [reading EXCEPT ![r] = Idle]
      BY <1>12 DEF Replace
    <3> QED
      BY <2>4, <3>1
  <2>6. returned' \cup overlapped' \subseteq Messages
    BY <1>b, <1>12, <2>2 DEF Replace, Overtaken
  <2>7. /\ queue' = Len(lists')
        /\ UNCHANGED <<sending, into, bells, dead, conn, active, told, shown>>
    BY <1>12 DEF Replace
  <2>8. into' \in [Messages -> DOMAIN lists']
    BY <2>4, <2>7
  <2> QED
    BY <2>4, <2>5, <2>6, <2>7, <2>8
<1> QED
  BY <1>1, <1>2, <1>3, <1>4, <1>5, <1>6, <1>7, <1>8, <1>9, <1>10, <1>11, <1>12
     DEF Next, Sending, Reading

\* The types of RelayMail: a handler holds a list that exists, the relay only
\* thinks connections active that it has not seen break.
THEOREM TypeCorrect == Spec => []TypeOK
<1>1. Spec => []TypeInv
  BY InitTyped, StepTyped, PTL DEF Spec
<1>2. TypeInv => TypeOK
  BY ReadingKinds DEF TypeInv, TypeOK
<1> QED
  BY <1>1, <1>2, PTL

-----------------------------------------------------------------------------
(* Which mail can be lost. *)

\* An append under way goes into the queue, and a list that is no longer the
\* queue holds nothing more, unless a consume has overtaken the message.
AppendsLand ==
  \A m \in Messages :
    sending[m] = "appending" => into[m] = queue \/ m \in overlapped

RetiredListsAreSpent ==
  \A l \in DOMAIN lists : ToSet(lists[l]) \subseteq Queued \cup returned \cup overlapped

MailInv == AppendsLand /\ RetiredListsAreSpent /\ OnlyOverlapLoses

\* A relay without mail has lost none.
LEMMA InitMail == Init => MailInv
BY DEF Init, MailInv, AppendsLand, RetiredListsAreSpent, OnlyOverlapLoses, Stored,
       Queued, Queue, ToSet

\* Every action keeps mail in the queue, returns it, or is an overlap.
LEMMA StepMail == TypeInv /\ MailInv /\ [Next]_vars => MailInv'
<1> SUFFICES ASSUME TypeInv, MailInv, [Next]_vars PROVE MailInv'
  OBVIOUS
<1> USE DEF MailInv, AppendsLand, RetiredListsAreSpent, OnlyOverlapLoses
<1>1. ASSUME UNCHANGED <<lists, queue, returned, overlapped>>,
             \A m \in Messages :
               \/ sending'[m] = sending[m] /\ into'[m] = into[m]
               \/ sending[m] = "unsent" /\ sending'[m] = "appending" /\ into'[m] = queue
               \/ Stored(m) /\ Stored(m)'
      PROVE  MailInv'
  <2>1. Queued' = Queued
    BY <1>1 DEF Queued, Queue
  <2>2. \A m \in Messages : Stored(m)' => Stored(m)
    BY <1>1 DEF Stored
  <2>3. AppendsLand'
    BY <1>1 DEF Stored
  <2> QED
    BY <1>1, <2>1, <2>2, <2>3
<1>2. ASSUME NEW m \in Messages, AppendTo(m) PROVE MailInv'
  <2>1. /\ lists \in Seq(Seq(Messages)) /\ queue \in DOMAIN lists
        /\ into[m] \in DOMAIN lists
        /\ lists[into[m]] \in Seq(Messages)
    BY DEF TypeInv
  <2>2. /\ lists' = [lists EXCEPT ![into[m]] = Append(lists[into[m]], m)]
        /\ UNCHANGED <<queue, returned, overlapped>>
        /\ sending[m] = "appending"
    BY <1>2 DEF AppendTo, Appended
  <2>3. ToSet(Append(lists[into[m]], m)) = ToSet(lists[into[m]]) \cup {m}
    BY <2>1, AppendParts
  <2>4. /\ DOMAIN lists' = DOMAIN lists
        /\ ToSet(lists'[into[m]]) = ToSet(lists[into[m]]) \cup {m}
        /\ \A l \in DOMAIN lists \ {into[m]} : lists'[l] = lists[l]
    BY <2>1, <2>2, <2>3
  <2>5. /\ Queued \subseteq Queued'
        /\ m \in Queued' \cup overlapped
    BY <2>1, <2>2, <2>4 DEF Queued, Queue
  <2>6. RetiredListsAreSpent'
    BY <2>1, <2>2, <2>4, <2>5
  <2>7. AppendsLand' /\ OnlyOverlapLoses'
    <3>1. \A o \in Messages \ {m} : sending'[o] = sending[o] /\ into'[o] = into[o]
      BY <1>2 DEF AppendTo, TypeInv
    <3>2. sending'[m] = "ringing"
      BY <1>2 DEF AppendTo, TypeInv
    <3> QED
      BY <2>2, <2>5, <3>1, <3>2 DEF Stored
  <2> QED
    BY <2>6, <2>7
<1>3. ASSUME NEW r \in Readers, Replace(r) PROVE MailInv'
  <2> DEFINE from == reading[r].from
             pending == lists[from]
             n == LeastOf(reading[r].count, Len(pending))
  <2>1. /\ lists \in Seq(Seq(Messages)) /\ from \in DOMAIN lists
        /\ pending \in Seq(Messages) /\ n \in Nat /\ n <= Len(pending)
    BY <1>3, ReadingKinds DEF Replace, LeastOf, TypeInv
  <2>2. /\ Cutoff(pending, n) \in Seq(Messages)
        /\ ToSet(pending) = ToSet(SubSeq(pending, 1, n)) \cup ToSet(Cutoff(pending, n))
    BY <2>1, CutParts
  <2>3. /\ lists' = Append(lists, Cutoff(pending, n))
        /\ returned' = returned \cup ToSet(SubSeq(pending, 1, n))
        /\ queue' = Len(lists')
        /\ overlapped' = overlapped \cup Overtaken(from)
        /\ UNCHANGED <<sending, into>>
    BY <1>3 DEF Replace
  <2>4. /\ DOMAIN lists' = DOMAIN lists \cup {queue'}
        /\ lists'[queue'] = Cutoff(pending, n)
        /\ \A l \in DOMAIN lists : lists'[l] = lists[l]
    BY <2>1, <2>2, <2>3
  <2>5. Queued' = ToSet(Cutoff(pending, n))
    BY <2>4 DEF Queued, Queue
  <2>6. Queued \subseteq Queued' \cup returned' \cup overlapped'
    <3>1. CASE from = queue
      BY <2>2, <2>3, <2>5, <3>1 DEF Queued, Queue
    <3>2. CASE from # queue
      BY <2>3, <3>2 DEF Overtaken
    <3> QED
      BY <3>1, <3>2
  <2>7. RetiredListsAreSpent'
    BY <2>3, <2>4, <2>5, <2>6
  <2>8. AppendsLand'
    BY <2>3 DEF Overtaken
  <2>9. OnlyOverlapLoses'
    BY <2>3, <2>6 DEF Stored
  <2> QED
    BY <2>7, <2>8, <2>9
<1> HIDE DEF MailInv, AppendsLand, RetiredListsAreSpent, OnlyOverlapLoses
<1>4. CASE UNCHANGED vars
  BY <1>1, <1>4 DEF vars
<1>5. ASSUME NEW m \in Messages, LookUp(m) PROVE MailInv'
  BY <1>1, <1>5 DEF LookUp, TypeInv
<1>6. ASSUME NEW m \in Messages, Answer(m) PROVE MailInv'
  BY <1>1, <1>6 DEF Answer, TypeInv, Stored
<1>7. ASSUME NEW m \in Messages, NEW c \in Conns, Ring(m, c) PROVE MailInv'
  BY <1>1, <1>7 DEF Ring
<1>8. ASSUME NEW c \in Conns, Connect(c) \/ Cut(c) \/ Disconnect(c) PROVE MailInv'
  BY <1>1, <1>8 DEF Connect, Cut, Disconnect, relay
<1>9. ASSUME NEW r \in Readers, Check(r) \/ LeaveAll(r) PROVE MailInv'
  BY <1>1, <1>9 DEF Check, LeaveAll, relay
<1>10. ASSUME NEW r \in Readers, NEW k \in 1..Cardinality(Messages), BeginConsume(r, k)
       PROVE  MailInv'
  BY <1>1, <1>10 DEF BeginConsume, relay
<1> QED
  BY <1>2, <1>3, <1>4, <1>5, <1>6, <1>7, <1>8, <1>9, <1>10 DEF Next, Sending, Reading

\* TypeInv and MailInv hold together in every state.
LEMMA MailHolds == Spec => [](TypeInv /\ MailInv)
<1>1. Init => TypeInv /\ MailInv
  BY InitTyped, InitMail
<1>2. TypeInv /\ MailInv /\ [Next]_vars => (TypeInv /\ MailInv)'
  BY StepTyped, StepMail
<1> QED
  BY <1>1, <1>2, PTL DEF Spec

\* Stored mail is queued until a consume returns it, but for a consume between
\* lookup and append and for two consumes of one list.
THEOREM OnlyOverlaps == Spec => []OnlyOverlapLoses
<1>1. MailInv => OnlyOverlapLoses
  BY DEF MailInv
<1> QED
  BY <1>1, MailHolds, PTL

-----------------------------------------------------------------------------
(* Whom a doorbell reaches. *)

\* The relay thinks every open connection active; a message on its way has
\* rung nowhere, and no connection is found broken while it is open.
BellInv ==
  /\ \A c \in Conns : conn[c] = "open" => c \in active
  /\ \A m \in Messages : sending[m] \in {"unsent", "appending"} => bells[m] = {}
  /\ \A m \in Messages : \A c \in bells[m] \cup dead[m] : conn[c] # "new"
  /\ \A m \in Messages : \A c \in dead[m] : conn[c] # "open"
  /\ NoDeafListener

\* Before the first connection nobody is deaf.
LEMMA InitBells == Init => BellInv
BY DEF Init, BellInv, NoDeafListener, Queued, Queue, ToSet

\* Every action keeps open connections told, or about to be.
LEMMA StepBells == TypeInv /\ MailInv /\ BellInv /\ [Next]_vars => BellInv'
<1> SUFFICES ASSUME TypeInv, MailInv, BellInv, [Next]_vars PROVE BellInv'
  OBVIOUS
<1> USE DEF BellInv, NoDeafListener
<1>a. lists' = lists /\ queue' = queue => Queued' = Queued
  BY DEF Queued, Queue
<1>1. CASE UNCHANGED vars
  BY <1>1, <1>a DEF vars
<1>2. ASSUME NEW m \in Messages, LookUp(m) PROVE BellInv'
  BY <1>2, <1>a DEF LookUp, TypeInv
<1>3. ASSUME NEW m \in Messages, AppendTo(m) PROVE BellInv'
  <2>1. /\ bells' = [bells EXCEPT ![m] = active]
        /\ sending' = [sending EXCEPT ![m] = "ringing"]
        /\ sending[m] = "appending"
        /\ UNCHANGED <<dead, conn, active, told>>
    BY <1>3 DEF AppendTo
  <2>2. \A c \in active : conn[c] # "new"
    BY DEF TypeInv
  <2>3. \A c \in Conns : conn[c] = "open" => c \in bells'[m]
    BY <2>1 DEF TypeInv
  <2>4. /\ \A o \in Messages : sending'[o] \in {"unsent", "appending"} => bells'[o] = {}
        /\ \A o \in Messages : \A c \in bells'[o] \cup dead'[o] : conn[c] # "new"
    BY <2>1, <2>2 DEF TypeInv
  <2> QED
    BY <2>1, <2>3, <2>4
<1>4. ASSUME NEW m \in Messages, NEW c \in Conns, Ring(m, c) PROVE BellInv'
  <2>1. /\ bells' = [bells EXCEPT ![m] = bells[m] \ {c}]
        /\ c \in bells[m]
        /\ sending[m] = "ringing"
        /\ UNCHANGED <<sending, conn, active, returned, shown, overlapped>>
        /\ Queued' = Queued
    BY <1>4, <1>a DEF Ring
  <2>2. \A o \in Messages : /\ bells'[o] \subseteq bells[o]
                           /\ bells[o] \subseteq bells'[o] \cup {c}
    BY <2>1 DEF TypeInv
  <2>3. CASE conn[c] = "open"
    <3>1. told' = TRUE /\ dead' = dead
      BY <1>4, <2>3 DEF Ring
    <3> QED
      BY <2>1, <2>2, <3>1
  <2>4. CASE conn[c] # "open"
    <3>1. told' = told /\ dead' = [dead EXCEPT ![m] = dead[m] \cup {c}]
      BY <1>4, <2>4 DEF Ring
    <3>2. \A o \in Messages : dead'[o] \subseteq dead[o] \cup {c}
      BY <3>1 DEF TypeInv
    <3>3. conn[c] # "new"
      BY <2>1
    <3>4. NoDeafListener'
      BY <2>1, <2>2, <2>4, <3>1
    <3> QED
      BY <2>1, <2>2, <2>4, <3>2, <3>3, <3>4
  <2> QED
    BY <2>3, <2>4
<1>5. ASSUME NEW m \in Messages, Answer(m) PROVE BellInv'
  <2>1. \A o \in Messages : dead'[o] \subseteq dead[o]
    BY <1>5 DEF Answer, TypeInv
  <2> QED
    BY <1>5, <1>a, <2>1 DEF Answer, StillActive, TypeInv
<1>6. ASSUME NEW c \in Conns, Connect(c) PROVE BellInv'
  <2>1. Queue = <<>> => Queued = {}
    BY DEF Queued, ToSet
  <2>2. told' \/ Queued' = {}
    BY <1>6, <1>a, <2>1 DEF Connect, BacklogTold
  <2>3. /\ conn' = [conn EXCEPT ![c] = "open"] /\ conn[c] = "new"
        /\ active' = active \cup {c}
        /\ UNCHANGED <<sending, bells, dead>>
    BY <1>6 DEF Connect
  <2>4. \A d \in Conns : d # c => conn'[d] = conn[d]
    BY <2>3 DEF TypeInv
  <2> QED
    BY <2>2, <2>3, <2>4 DEF TypeInv
<1>7. ASSUME NEW c \in Conns, Cut(c) PROVE BellInv'
  BY <1>7, <1>a DEF Cut, relay, TypeInv
<1>8. ASSUME NEW c \in Conns, Disconnect(c) PROVE BellInv'
  BY <1>8, <1>a DEF Disconnect, Without, TypeInv
<1>9. ASSUME NEW r \in Readers, Check(r) PROVE BellInv'
  BY <1>9, <1>a DEF Check, relay
<1>10. ASSUME NEW r \in Readers, LeaveAll(r) PROVE BellInv'
  BY <1>10, <1>a DEF LeaveAll, relay
<1>11. ASSUME NEW r \in Readers, NEW k \in 1..Cardinality(Messages), BeginConsume(r, k)
       PROVE  BellInv'
  BY <1>11, <1>a DEF BeginConsume, relay
<1>12. ASSUME NEW r \in Readers, Replace(r) PROVE BellInv'
  <2>1. Queued' \subseteq Queued \cup returned \cup overlapped
    <3> DEFINE from == reading[r].from
               pending == lists[from]
               n == LeastOf(reading[r].count, Len(pending))
    <3>1. /\ lists \in Seq(Seq(Messages)) /\ from \in DOMAIN lists
          /\ pending \in Seq(Messages) /\ n \in Nat /\ n <= Len(pending)
      BY <1>12, ReadingKinds DEF Replace, LeastOf, TypeInv
    <3>2. /\ Cutoff(pending, n) \in Seq(Messages)
          /\ ToSet(Cutoff(pending, n)) \subseteq ToSet(pending)
      BY <3>1, CutParts
    <3>3. lists' = Append(lists, Cutoff(pending, n)) /\ queue' = Len(lists')
      BY <1>12 DEF Replace
    <3>4. Queued' = ToSet(Cutoff(pending, n))
      BY <3>1, <3>2, <3>3 DEF Queued, Queue
    <3> QED
      BY <3>1, <3>2, <3>4 DEF MailInv, RetiredListsAreSpent
  <2>2. /\ returned \subseteq returned' /\ overlapped \subseteq overlapped'
        /\ UNCHANGED <<sending, bells, dead, conn, active, told, shown>>
    BY <1>12 DEF Replace
  <2> QED
    BY <2>1, <2>2
<1> QED
  BY <1>1, <1>2, <1>3, <1>4, <1>5, <1>6, <1>7, <1>8, <1>9, <1>10, <1>11, <1>12
     DEF Next, Sending, Reading

\* While mail waits that nobody has seen, whoever has an open connection was
\* told or is about to be.
THEOREM NobodyIsDeaf == Spec => []NoDeafListener
<1>1. Init => TypeInv /\ MailInv /\ BellInv
  BY InitTyped, InitMail, InitBells
<1>2. TypeInv /\ MailInv /\ BellInv /\ [Next]_vars => (TypeInv /\ MailInv /\ BellInv)'
  BY StepTyped, StepMail, StepBells
<1>3. BellInv => NoDeafListener
  BY DEF BellInv
<1> QED
  BY <1>1, <1>2, <1>3, PTL DEF Spec

=============================================================================
