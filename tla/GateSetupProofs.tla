--------------------------- MODULE GateSetupProofs ---------------------------
(***************************************************************************)
(* GateSetup for every set of sessions and names: its types, that no two   *)
(* sessions are given one address, and what popups, timers and renames may *)
(* never do to a session that has an address.                              *)
(***************************************************************************)
EXTENDS GateSetup, SequenceTheorems, TLAPS

-----------------------------------------------------------------------------
(* What a gate is in the middle of. *)

\* A name that ends in an ordinal if it has more than a stem.
Shapely(n) == n \in Names /\ (Len(n) > 1 => Last(n) \in Nat)

ShapeInv ==
  /\ Shapely(record.agent)
  /\ \A g \in Gates :
       /\ saved[g] # Nothing => Shapely(saved[g])
       /\ adopted[g] # Nothing => saved[g] = adopted[g]
       /\ job[g] = "savingId" => name[g] \in Typed
       /\ job[g] = "adopting" =>
            IF number[g] = 0 THEN name[g] = saved[g] /\ name[g] # Nothing
                             ELSE saved[g] = Nothing
       /\ number[g] # 0 => job[g] = "adopting"
       /\ job[g] = "offering" \/ "offer" \in timers[g] => adopted[g] # Nothing
       /\ job[g] = "repinning" => Renaming(g)
       /\ call[g] # Nothing /\ call[g].before # Nothing => Shapely(call[g].before)

TypeInv == TypeOK /\ ShapeInv

\* A gate that is not running holds nothing.
Off(g) ==
  /\ adopted[g] = Nothing /\ ~declined[g] /\ ~first[g]
  /\ timers[g] = {} /\ pending[g] = {} /\ shown[g] = {}
  /\ call[g] = Nothing
  /\ g \notin late

\* On a device that has a name, a gate serves nobody before it has an address,
\* and then offers a migration, waits for its answer, or records it: one of them
\* at a time, and none any more once it has given up.
Named(g) ==
  /\ ~declined[g]
  /\ adopted[g] = Nothing =>
       /\ job[g] \in {"seeding", "numbering", "adopting"}
       /\ call[g] = Nothing
  /\ job[g] \in {"numbering", "adopting"} => adopted[g] = Nothing
  /\ job[g] \in {"savingId", "savingName"} => Renaming(g)
  /\ timers[g] \subseteq {"offer", "answer"}
  /\ "naming" \notin shown[g]
  /\ "offer" \in timers[g] => timers[g] = {"offer"}
  /\ pending[g] = IF "answer" \in timers[g] THEN {"migration"} ELSE {}
  /\ timers[g] # {} => adopted[g] # Nothing
  /\ \/ adopted[g] = Nothing
     \/ job[g] \in {"offering", "recording"}
     \/ g \in late
     => timers[g] = {}
  /\ adopted[g] = Nothing \/ job[g] \in {"offering", "recording"} => g \notin late

\* On a new device it asks for a name, once: by its timer, its popup, or what it
\* does with the answer; unless its user declines.
FirstRun(g) ==
  /\ job[g] \notin {"seeding", "offering", "recording"}
  /\ timers[g] \subseteq {"naming"}
  /\ pending[g] \subseteq {"naming"}
  /\ shown[g] \subseteq {"naming"}
  /\ timers[g] # {} => pending[g] = {}
  /\ \/ declined[g]
     \/ job[g] \in {"numbering", "adopting"}
     \/ job[g] \in {"savingId", "savingName"} /\ ~Renaming(g)
     => timers[g] = {} /\ pending[g] = {}
  /\ \/ job[g] \in {"numbering", "adopting"}
     \/ job[g] \in {"savingId", "savingName"} /\ ~Renaming(g)
     => ~declined[g]
  /\ g \notin late

\* A tool call began with the address its session has; it is served by the main
\* thread alone.  The naming popup's answer, inside a call, breaks both.
InCall(g) ==
  /\ g \in crossed => call[g] # Nothing
  /\ call[g] # Nothing /\ g \notin crossed =>
       /\ job[g] \notin {"numbering", "adopting"}
       /\ job[g] \in {"savingId", "savingName"} => Renaming(g)
       /\ adopted[g] # Nothing => call[g].before = adopted[g]

Stage(g) ==
  /\ job[g] = "off" => Off(g)
  /\ job[g] # "off" => IF first[g] THEN FirstRun(g) ELSE Named(g)
  /\ InCall(g)

StageInv == \A g \in Gates : Stage(g)

\* A name that is about to be recorded is the first one, or the one on record,
\* or has been overtaken.
NameInv ==
  \A g \in Gates :
    job[g] = "recording" /\ name[g] # Nothing /\ g \notin overtaken =>
      record.account \in {Nothing, name[g]}

-----------------------------------------------------------------------------
(* Whose an address is. *)

\* The counter has passed every ordinal that was given to a session.
Counted == \A g \in Gates : own[g] # Nothing => Last(own[g]) <= record.counter

\* Nobody has come further than to lift the counter.
Unlifted ==
  /\ record.confirmed
  /\ own = saved
  /\ \A g \in Gates : job[g] \in {"off", "seeding"} /\ ~first[g] /\ adopted[g] = Nothing

OwnInv ==
  /\ \A g \in Gates : own[g] # Nothing => Len(own[g]) > 1 /\ Last(own[g]) \in Nat
  /\ \A g, h \in Gates : g # h /\ own[g] # Nothing => own[g] # own[h]
  /\ Counted \/ Unlifted
  /\ \A g \in Gates : number[g] # 0 =>
       /\ number[g] <= record.counter
       /\ \A h \in Gates :
            /\ own[h] # Nothing => Last(own[h]) # number[g]
            /\ h # g => number[h] # number[g]

IInv == TypeInv /\ StageInv /\ NameInv

\* An older version's identity.json has the confirmed flag.  Without it a session
\* is asked for a name and then numbered by a counter that nobody has lifted.
OldIsNamed == FALSE \notin OldConfirmed

-----------------------------------------------------------------------------
(* Names. *)

\* Behind an ordinal a name is a name that ends in it.
LEMMA AppendNames ==
  ASSUME NEW n \in Names, NEW k \in Nat
  PROVE  /\ Append(n, k) \in Names
         /\ Shapely(Append(n, k))
         /\ Len(Append(n, k)) > 1
         /\ Last(Append(n, k)) = k
<1> DEFINE p == Append(n, k)
<1>1. n \in Seq(Stems \cup Nat) /\ Len(n) \in Nat \ {0}
  BY DEF Names
<1>2. p \in Seq(Stems \cup Nat) /\ Len(p) = Len(n) + 1 /\ p[Len(p)] = k
  BY <1>1
<1>3. p # << >>
  BY <1>1, <1>2
<1> QED BY <1>1, <1>2, <1>3 DEF Names, Shapely, Last

\* Without its ordinal a name is still one.
LEMMA FrontNames ==
  ASSUME NEW n \in Names, Len(n) > 1
  PROVE  Front(n) \in Names
<1>1. n \in Seq(Stems \cup Nat) /\ Len(n) \in Nat
  BY DEF Names
<1>2. /\ SubSeq(n, 1, Len(n) - 1) \in Seq(Stems \cup Nat)
      /\ Len(SubSeq(n, 1, Len(n) - 1)) = Len(n) - 1
  BY <1>1, SubSeqProperties
<1>3. SubSeq(n, 1, Len(n) - 1) # << >>
  BY <1>1, <1>2
<1> QED BY <1>2, <1>3 DEF Names, Front

\* The names the device begins with, and those its users type.
LEMMA GivenNames ==
  /\ Nothing \notin Names
  /\ Placeholder \in Names /\ Shapely(Placeholder)
  /\ \A n \in Typed : n \in Names /\ Shapely(n)
  /\ \A n \in OldNames : n \in Names /\ Shapely(n) /\ Len(n) > 1 /\ Last(n) \in Nat
BY GateSetupAssumption DEF Shapely

\* A lift touches nothing but the counter, which passes every recorded ordinal.
LEMMA LiftFacts ==
  ASSUME TypeInv, LiftCounter
  PROVE  \E n \in Nat :
           /\ record' = [record EXCEPT !.counter = n]
           /\ record.counter <= n
           /\ \A g \in Gates : saved[g] # Nothing /\ Len(saved[g]) > 1
                => Last(saved[g]) <= n
<1>1. record.counter \in Nat /\ record.counter \in Counts
  BY DEF TypeInv, TypeOK, Records, Counts
<1>2. \A g \in Gates : saved[g] # Nothing /\ Len(saved[g]) > 1
        => Last(saved[g]) \in Counts
  BY DEF Counts
<1>3. Counts \subseteq Nat
  BY <1>1 DEF TypeInv, ShapeInv, Shapely, Counts
<1>4. PICK n \in Counts : /\ \A o \in Counts : o <= n
                          /\ record' = [record EXCEPT !.counter = n]
  BY DEF LiftCounter
<1> QED BY <1>1, <1>2, <1>3, <1>4

\* The device always has a name.
LEMMA AgentFacts ==
  ASSUME TypeInv
  PROVE  record.agent \in Names /\ record.agent # Nothing /\ Shapely(record.agent)
BY GivenNames DEF TypeInv, TypeOK, ShapeInv, Records

\* What is read of the record is a name, or none.
LEMMA AccountFacts ==
  ASSUME TypeInv
  PROVE  /\ AccountName \in Names
         /\ Candidate \in NameOrNone
         /\ Candidate # Nothing => record.account = Nothing
         /\ \A a \in {"accept", "decline", "dismiss"} : Decision(a) \in NameOrNone
<1>1. record.agent \in Names /\ record.account \in NameOrNone
  BY DEF TypeInv, TypeOK, Records
<1>2. AccountName \in Names
  BY <1>1 DEF AccountName, NameOrNone
<1>3. Candidate \in NameOrNone /\ (Candidate # Nothing => record.account = Nothing)
  BY <1>1, FrontNames DEF Candidate, NameOrNone
<1> QED BY <1>2, <1>3 DEF Decision, NameOrNone

\* Whom a session answers to is a name, or nobody; and what it has adopted.
LEMMA CurrentFacts ==
  ASSUME TypeInv, NEW g \in Gates
  PROVE  /\ Current(g) \in NameOrNone
         /\ Current(g) # Nothing => Shapely(Current(g))
         /\ adopted[g] # Nothing => Current(g) = adopted[g]
         /\ adopted[g] = Nothing /\ declined[g] => Current(g) = Nothing
         /\ adopted[g] = Nothing /\ ~declined[g] => Current(g) = record.agent
BY GivenNames DEF TypeInv, TypeOK, ShapeInv, Records, Current, NameOrNone

\* A gate in the middle of a tool call's save or repin has the call.
LEMMA CallFacts ==
  ASSUME TypeInv, NEW g \in Gates, job[g] = "repinning"
  PROVE  /\ call[g] \in Calls
         /\ call[g].before \in NameOrNone
         /\ call[g].before # Nothing => Shapely(call[g].before)
BY DEF TypeInv, TypeOK, ShapeInv, Renaming, Calls, NameOrNone

\* A call whose prompt is answered is the same call.
LEMMA CallOpened ==
  ASSUME NEW c \in Calls
  PROVE  LET d == [c EXCEPT !.open = FALSE]
         IN  /\ d \in Calls /\ d # Nothing
             /\ d.tool = c.tool /\ d.before = c.before /\ d.open = FALSE
<1>1. [c EXCEPT !.open = FALSE] \in Calls
  BY DEF Calls
<1> QED BY <1>1, GateSetupAssumption DEF Calls

-----------------------------------------------------------------------------
(* Types. *)

LEMMA InitTyped == Init => TypeInv
<1> SUFFICES ASSUME Init
             PROVE  TypeInv
  OBVIOUS
<1>1. /\ record \in Records /\ Shapely(record.agent)
      /\ saved \in [Gates -> NameOrNone]
      /\ \A g \in Gates : saved[g] # Nothing => Shapely(saved[g])
  <2>1. CASE record = Blank /\ saved = [g \in Gates |-> Nothing]
    BY <2>1, GivenNames DEF Blank, Records, NameOrNone
  <2>2. CASE /\ record \in {Old(n, c) : n \in OldNames, c \in OldConfirmed}
             /\ saved \in [Gates -> OldNames \cup {Nothing}]
    <3>1. PICK n \in OldNames, c \in OldConfirmed : record = Old(n, c)
      BY <2>2
    <3>2. record \in Records /\ Shapely(record.agent)
      BY <3>1, GivenNames, GateSetupAssumption DEF Old, Records, NameOrNone
    <3>3. \A g \in Gates : saved[g] \in OldNames \cup {Nothing}
      BY <2>2
    <3>4. \A g \in Gates : saved[g] # Nothing => saved[g] \in Names /\ Shapely(saved[g])
      BY <3>3, GivenNames
    <3>5. saved \in [Gates -> NameOrNone]
      BY <2>2, <3>4 DEF NameOrNone
    <3> QED BY <3>2, <3>4, <3>5
  <2> QED BY <2>1, <2>2 DEF Init
<1>2. TypeOK
  BY <1>1, GateSetupAssumption DEF Init, TypeOK, Equipped, NameOrNone, Jobs, Popups
<1>3. ShapeInv
  BY <1>1 DEF Init, ShapeInv
<1> QED BY <1>2, <1>3 DEF TypeInv

\* No action leaves the types, whoever takes it.
LEMMA StepTyped == TypeInv /\ [Next]_vars => TypeInv'
<1> SUFFICES ASSUME TypeInv, [Next]_vars
             PROVE  TypeInv'
  OBVIOUS
<1> USE DEF TypeInv
<1>1. ASSUME NEW g \in Gates, Launch(g)
       PROVE  TypeInv'
  <2>1. TypeOK'
    <3>1. launches' \in 0..MaxLaunches
      BY <1>1, GateSetupAssumption DEF TypeOK, Launch
    <3>2. job' \in [Gates -> Jobs]
      BY <1>1 DEF TypeOK, Launch, Jobs
    <3>3. first' \in [Gates -> BOOLEAN]
      BY <1>1 DEF TypeOK, Launch
    <3>4. timers' \in [Gates -> SUBSET {"naming", "offer", "answer"}]
      BY <1>1 DEF TypeOK, Launch
    <3>5. \A h \in Gates : Equipped(h)'
      BY <1>1
        DEF TypeOK, ShapeInv, Equipped, Records, Launch, shared, main, session, popups,
            history
    <3> QED BY <1>1, <3>1, <3>2, <3>3, <3>4, <3>5
      DEF TypeOK, Launch, shared, main, session, popups, history
  <2>2. ShapeInv'
    BY <1>1
    DEF TypeOK, Equipped, ShapeInv, Launch, Records, Calls, NameOrNone, Renaming,
        shared, main, session, popups, history
  <2> QED BY <2>1, <2>2
<1>2. ASSUME NEW g \in Gates, Seed(g)
       PROVE  TypeInv'
  <2>1. TypeOK'
    <3>1. job' \in [Gates -> Jobs]
      BY <1>2 DEF TypeOK, Seed, AfterSeed, Jobs
    <3>2. record' \in Records
      BY <1>2, LiftFacts DEF TypeOK, ShapeInv, Seed, AfterSeed, Records, NameOrNone
    <3>3. \A h \in Gates : Equipped(h)'
      BY <1>2
        DEF TypeOK, ShapeInv, Equipped, Records, Seed, AfterSeed, shared, main, session,
            popups, history
    <3> QED BY <1>2, <3>1, <3>2, <3>3
      DEF TypeOK, Seed, AfterSeed, shared, main, session, popups, history
  <2>2. ShapeInv'
    BY <1>2, LiftFacts
    DEF TypeOK, Equipped, ShapeInv, Seed, AfterSeed, Records, Calls, NameOrNone,
        Renaming, shared, main, session, popups, history
  <2> QED BY <2>1, <2>2
<1>3. ASSUME NEW g \in Gates, Resume(g)
       PROVE  TypeInv'
  <2>1. TypeOK'
    <3>1. job' \in [Gates -> Jobs]
      BY <1>3 DEF TypeOK, Resume, Jobs
    <3>2. name' \in [Gates -> NameOrNone]
      BY <1>3 DEF TypeOK, ShapeInv, Resume, NameOrNone
    <3>3. \A h \in Gates : Equipped(h)'
      BY <1>3
        DEF TypeOK, ShapeInv, Equipped, Records, Resume, shared, main, session, popups,
            history
    <3> QED BY <1>3, <3>1, <3>2, <3>3
      DEF TypeOK, Resume, shared, main, session, popups, history
  <2>2. ShapeInv'
    BY <1>3
    DEF TypeOK, Equipped, ShapeInv, Resume, Records, Calls, NameOrNone, Renaming,
        shared, main, session, popups, history
  <2> QED BY <2>1, <2>2
<1>4. ASSUME NEW g \in Gates, TakeOrdinal(g)
       PROVE  TypeInv'
  <2>1. TypeOK'
    <3>1. job' \in [Gates -> Jobs]
      BY <1>4 DEF TypeOK, TakeOrdinal, Jobs
    <3>2. record' \in Records
      BY <1>4 DEF TypeOK, ShapeInv, TakeOrdinal, Records, NameOrNone
    <3>3. number' \in [Gates -> Nat]
      BY <1>4 DEF TypeOK, TakeOrdinal, Records
    <3>4. \A h \in Gates : Equipped(h)'
      BY <1>4
        DEF TypeOK, ShapeInv, Equipped, Records, TakeOrdinal, shared, main, session,
            popups, history
    <3> QED BY <1>4, <3>1, <3>2, <3>3, <3>4
      DEF TypeOK, TakeOrdinal, shared, main, session, popups, history
  <2>2. ShapeInv'
    BY <1>4
    DEF TypeOK, Equipped, ShapeInv, TakeOrdinal, Records, Calls, NameOrNone, Renaming,
        shared, main, session, popups, history
  <2> QED BY <2>1, <2>2
<1>5. ASSUME NEW g \in Gates, Adopt(g)
       PROVE  TypeInv'
  <2>1. TypeOK'
    <3>1. job' \in [Gates -> Jobs]
      BY <1>5 DEF TypeOK, Adopt, TakeAddress, Jobs
    <3>2. number' \in [Gates -> Nat]
      BY <1>5 DEF TypeOK, Adopt, TakeAddress
    <3>3. declined' \in [Gates -> BOOLEAN]
      BY <1>5 DEF TypeOK, Adopt, TakeAddress
    <3>4. saved' \in [Gates -> NameOrNone]
      BY <1>5, AppendNames, AccountFacts
        DEF TypeOK, ShapeInv, Adopt, TakeAddress, NameOrNone
    <3>5. name' \in [Gates -> NameOrNone]
      BY <1>5, AppendNames, AccountFacts
        DEF TypeOK, ShapeInv, Adopt, TakeAddress, NameOrNone
    <3>6. adopted' \in [Gates -> NameOrNone]
      BY <1>5, AppendNames, AccountFacts
        DEF TypeOK, ShapeInv, Adopt, TakeAddress, NameOrNone
    <3>7. own' \in [Gates -> NameOrNone]
      BY <1>5, AppendNames, AccountFacts
        DEF TypeOK, ShapeInv, Adopt, TakeAddress, NameOrNone
    <3>8. \A h \in Gates : Equipped(h)'
      BY <1>5
        DEF TypeOK, ShapeInv, Equipped, Records, Adopt, TakeAddress, shared, main,
            session, popups, history
    <3> QED BY <1>5, <3>1, <3>2, <3>3, <3>4, <3>5, <3>6, <3>7, <3>8
      DEF TypeOK, Adopt, TakeAddress, shared, main, session, popups, history
  <2>2. ShapeInv'
    <3> DEFINE a == IF number[g] = 0 THEN name[g] ELSE Append(AccountName, number[g])
    <3>1. Shapely(a)
      BY <1>5, AppendNames, AccountFacts DEF TypeOK, ShapeInv, Adopt
    <3> HIDE DEF a
    <3>2. /\ adopted' = [adopted EXCEPT ![g] = a]
          /\ saved' = [saved EXCEPT ![g] = a]
          /\ number' = [number EXCEPT ![g] = 0]
          /\ job' = [job EXCEPT ![g] = IF first[g] THEN "idle" ELSE "offering"]
          /\ name' = [name EXCEPT ![g] = Nothing]
          /\ job[g] = "adopting" /\ a # Nothing
          /\ UNCHANGED <<record, call, timers>>
      BY <1>5, <3>1, GivenNames DEF Adopt, TakeAddress, popups, Shapely, a
    <3> QED BY <3>1, <3>2 DEF TypeOK, ShapeInv, Renaming
  <2> QED BY <2>1, <2>2
<1>6. ASSUME NEW g \in Gates, Offer(g)
       PROVE  TypeInv'
  <2>1. TypeOK'
    <3>1. job' \in [Gates -> Jobs]
      BY <1>6 DEF TypeOK, Offer, Jobs
    <3>2. timers' \in [Gates -> SUBSET {"naming", "offer", "answer"}]
      BY <1>6 DEF TypeOK, Offer
    <3>3. name' \in [Gates -> NameOrNone]
      BY <1>6, AccountFacts DEF TypeOK, ShapeInv, Offer, NameOrNone
    <3>4. \A h \in Gates : Equipped(h)'
      BY <1>6
        DEF TypeOK, ShapeInv, Equipped, Records, Offer, shared, main, session, popups,
            history
    <3> QED BY <1>6, <3>1, <3>2, <3>3, <3>4
      DEF TypeOK, Offer, shared, main, session, popups, history
  <2>2. ShapeInv'
    BY <1>6, AccountFacts
    DEF TypeOK, Equipped, ShapeInv, Offer, Records, Calls, NameOrNone, Renaming, shared,
        main, session, popups, history
  <2> QED BY <2>1, <2>2
<1>7. ASSUME NEW g \in Gates, OfferMigration(g)
       PROVE  TypeInv'
  <2>1. TypeOK'
    <3>1. timers' \in [Gates -> SUBSET {"naming", "offer", "answer"}]
      BY <1>7 DEF TypeOK, OfferMigration
    <3>2. pending' \in [Gates -> SUBSET Popups]
      BY <1>7 DEF TypeOK, OfferMigration, Popups
    <3>3. shown' \in [Gates -> SUBSET Popups]
      BY <1>7 DEF TypeOK, OfferMigration, Popups
    <3>4. \A h \in Gates : Equipped(h)'
      BY <1>7
        DEF TypeOK, ShapeInv, Equipped, Records, OfferMigration, shared, main, session,
            popups, history
    <3> QED BY <1>7, <3>1, <3>2, <3>3, <3>4
      DEF TypeOK, OfferMigration, shared, main, session, popups, history
  <2>2. ShapeInv'
    BY <1>7
    DEF TypeOK, Equipped, ShapeInv, OfferMigration, Records, Calls, NameOrNone,
        Renaming, shared, main, session, popups, history
  <2> QED BY <2>1, <2>2
<1>8. ASSUME NEW g \in Gates, NEW a \in {"accept", "decline", "dismiss"}, MigrationReply(g, a)
       PROVE  TypeInv'
  <2>1. TypeOK'
    <3>1. job' \in [Gates -> Jobs]
      BY <1>8 DEF TypeOK, MigrationReply, Listening, Jobs
    <3>2. timers' \in [Gates -> SUBSET {"naming", "offer", "answer"}]
      BY <1>8 DEF TypeOK, MigrationReply, Listening
    <3>3. pending' \in [Gates -> SUBSET Popups]
      BY <1>8 DEF TypeOK, MigrationReply, Listening, Popups
    <3>4. shown' \in [Gates -> SUBSET Popups]
      BY <1>8 DEF TypeOK, MigrationReply, Listening, Popups
    <3>5. name' \in [Gates -> NameOrNone]
      BY <1>8, AccountFacts DEF TypeOK, ShapeInv, MigrationReply, Listening, NameOrNone
    <3>6. \A h \in Gates : Equipped(h)'
      BY <1>8
        DEF TypeOK, ShapeInv, Equipped, Records, MigrationReply, Listening, shared,
            main, session, popups, history
    <3> QED BY <1>8, <3>1, <3>2, <3>3, <3>4, <3>5, <3>6
      DEF TypeOK, MigrationReply, Listening, shared, main, session, popups, history
  <2>2. ShapeInv'
    BY <1>8, AccountFacts
    DEF TypeOK, Equipped, ShapeInv, MigrationReply, Listening, Records, Calls,
        NameOrNone, Renaming, shared, main, session, popups, history
  <2> QED BY <2>1, <2>2
<1>9. ASSUME NEW g \in Gates, Record(g)
       PROVE  TypeInv'
  <2>1. TypeOK'
    <3>1. job' \in [Gates -> Jobs]
      BY <1>9 DEF TypeOK, Record, NewAccount, Jobs
    <3>2. overtaken' \subseteq Gates
      BY <1>9 DEF TypeOK, Record, NewAccount
    <3>3. record' \in Records
      BY <1>9 DEF TypeOK, ShapeInv, Record, NewAccount, Records, NameOrNone
    <3>4. name' \in [Gates -> NameOrNone]
      BY <1>9 DEF TypeOK, ShapeInv, Record, NewAccount, NameOrNone
    <3>5. \A h \in Gates : Equipped(h)'
      BY <1>9
        DEF TypeOK, ShapeInv, Equipped, Records, Record, NewAccount, shared, main,
            session, popups, history
    <3> QED BY <1>9, <3>1, <3>2, <3>3, <3>4, <3>5
      DEF TypeOK, Record, NewAccount, shared, main, session, popups, history
  <2>2. ShapeInv'
    BY <1>9
    DEF TypeOK, Equipped, ShapeInv, Record, NewAccount, Records, Calls, NameOrNone,
        Renaming, shared, main, session, popups, history
  <2> QED BY <2>1, <2>2
<1>10. ASSUME NEW g \in Gates, MigrationTimeout(g)
       PROVE  TypeInv'
  <2>1. TypeOK'
    <3>1. timers' \in [Gates -> SUBSET {"naming", "offer", "answer"}]
      BY <1>10 DEF TypeOK, MigrationTimeout
    <3>2. pending' \in [Gates -> SUBSET Popups]
      BY <1>10 DEF TypeOK, MigrationTimeout, Popups
    <3>3. late' \subseteq Gates
      BY <1>10 DEF TypeOK, MigrationTimeout
    <3>4. record' \in Records
      BY <1>10, LiftFacts DEF TypeOK, ShapeInv, MigrationTimeout, Records, NameOrNone
    <3>5. \A h \in Gates : Equipped(h)'
      BY <1>10
        DEF TypeOK, ShapeInv, Equipped, Records, MigrationTimeout, shared, main,
            session, popups, history
    <3> QED BY <1>10, <3>1, <3>2, <3>3, <3>4, <3>5
      DEF TypeOK, MigrationTimeout, shared, main, session, popups, history
  <2>2. ShapeInv'
    BY <1>10, LiftFacts
    DEF TypeOK, Equipped, ShapeInv, MigrationTimeout, Records, Calls, NameOrNone,
        Renaming, shared, main, session, popups, history
  <2> QED BY <2>1, <2>2
<1>11. ASSUME NEW g \in Gates, OfferNaming(g)
       PROVE  TypeInv'
  <2>1. TypeOK'
    <3>1. timers' \in [Gates -> SUBSET {"naming", "offer", "answer"}]
      BY <1>11 DEF TypeOK, OfferNaming
    <3>2. pending' \in [Gates -> SUBSET Popups]
      BY <1>11 DEF TypeOK, OfferNaming, Popups
    <3>3. shown' \in [Gates -> SUBSET Popups]
      BY <1>11 DEF TypeOK, OfferNaming, Popups
    <3>4. \A h \in Gates : Equipped(h)'
      BY <1>11
        DEF TypeOK, ShapeInv, Equipped, Records, OfferNaming, shared, main, session,
            popups, history
    <3> QED BY <1>11, <3>1, <3>2, <3>3, <3>4
      DEF TypeOK, OfferNaming, shared, main, session, popups, history
  <2>2. ShapeInv'
    BY <1>11
    DEF TypeOK, Equipped, ShapeInv, OfferNaming, Records, Calls, NameOrNone, Renaming,
        shared, main, session, popups, history
  <2> QED BY <2>1, <2>2
<1>12. ASSUME NEW g \in Gates, NamingFails(g)
       PROVE  TypeInv'
  <2>1. TypeOK'
    <3>1. pending' \in [Gates -> SUBSET Popups]
      BY <1>12 DEF TypeOK, NamingFails, NamingAnswered, Listening, Popups
    <3>2. shown' \in [Gates -> SUBSET Popups]
      BY <1>12 DEF TypeOK, NamingFails, NamingAnswered, Listening, Popups
    <3>3. crossed' \subseteq Gates
      BY <1>12 DEF TypeOK, NamingFails, NamingAnswered, Listening
    <3>4. \A h \in Gates : Equipped(h)'
      BY <1>12
        DEF TypeOK, ShapeInv, Equipped, Records, NamingFails, NamingAnswered, Listening,
            shared, main, session, popups, history
    <3> QED BY <1>12, <3>1, <3>2, <3>3, <3>4
      DEF TypeOK, NamingFails, NamingAnswered, Listening, shared, main, session, popups,
          history
  <2>2. ShapeInv'
    BY <1>12
    DEF TypeOK, Equipped, ShapeInv, NamingFails, NamingAnswered, Listening, Records,
        Calls, NameOrNone, Renaming, shared, main, session, popups, history
  <2> QED BY <2>1, <2>2
<1>13. ASSUME NEW g \in Gates, NamingDeclined(g)
       PROVE  TypeInv'
  <2>1. TypeOK'
    <3>1. declined' \in [Gates -> BOOLEAN]
      BY <1>13 DEF TypeOK, NamingDeclined, NamingAnswered, Listening
    <3>2. pending' \in [Gates -> SUBSET Popups]
      BY <1>13 DEF TypeOK, NamingDeclined, NamingAnswered, Listening, Popups
    <3>3. shown' \in [Gates -> SUBSET Popups]
      BY <1>13 DEF TypeOK, NamingDeclined, NamingAnswered, Listening, Popups
    <3>4. crossed' \subseteq Gates
      BY <1>13 DEF TypeOK, NamingDeclined, NamingAnswered, Listening
    <3>5. \A h \in Gates : Equipped(h)'
      BY <1>13
        DEF TypeOK, ShapeInv, Equipped, Records, NamingDeclined, NamingAnswered,
            Listening, shared, main, session, popups, history
    <3> QED BY <1>13, <3>1, <3>2, <3>3, <3>4, <3>5
      DEF TypeOK, NamingDeclined, NamingAnswered, Listening, shared, main, session,
          popups, history
  <2>2. ShapeInv'
    BY <1>13
    DEF TypeOK, Equipped, ShapeInv, NamingDeclined, NamingAnswered, Listening, Records,
        Calls, NameOrNone, Renaming, shared, main, session, popups, history
  <2> QED BY <2>1, <2>2
<1>14. ASSUME NEW g \in Gates, NamingRejected(g)
       PROVE  TypeInv'
  <2>1. TypeOK'
    <3>1. declined' \in [Gates -> BOOLEAN]
      BY <1>14 DEF TypeOK, NamingRejected, NamingAnswered, Listening, TakeAddress
    <3>2. pending' \in [Gates -> SUBSET Popups]
      BY <1>14
        DEF TypeOK, NamingRejected, NamingAnswered, Listening, TakeAddress, Popups
    <3>3. shown' \in [Gates -> SUBSET Popups]
      BY <1>14
        DEF TypeOK, NamingRejected, NamingAnswered, Listening, TakeAddress, Popups
    <3>4. crossed' \subseteq Gates
      BY <1>14 DEF TypeOK, NamingRejected, NamingAnswered, Listening, TakeAddress
    <3>5. saved' \in [Gates -> NameOrNone]
      BY <1>14, AgentFacts
        DEF TypeOK, ShapeInv, NamingRejected, NamingAnswered, Listening, TakeAddress,
            NameOrNone
    <3>6. adopted' \in [Gates -> NameOrNone]
      BY <1>14, AgentFacts
        DEF TypeOK, ShapeInv, NamingRejected, NamingAnswered, Listening, TakeAddress,
            NameOrNone
    <3>7. \A h \in Gates : Equipped(h)'
      BY <1>14, AgentFacts
        DEF TypeOK, ShapeInv, Equipped, Records, NamingRejected, NamingAnswered,
            Listening, TakeAddress, shared, main, session, popups, history
    <3> QED BY <1>14, <3>1, <3>2, <3>3, <3>4, <3>5, <3>6, <3>7
      DEF TypeOK, NamingRejected, NamingAnswered, Listening, TakeAddress, shared, main,
          session, popups, history
  <2>2. ShapeInv'
    BY <1>14, AgentFacts
    DEF TypeOK, Equipped, ShapeInv, NamingRejected, NamingAnswered, Listening,
        TakeAddress, Records, Calls, NameOrNone, Renaming, shared, main, session,
        popups, history
  <2> QED BY <2>1, <2>2
<1>15. ASSUME NEW g \in Gates, NEW n \in Typed, NamingAccepted(g, n)
       PROVE  TypeInv'
  <2>1. TypeOK'
    <3>1. job' \in [Gates -> Jobs]
      BY <1>15 DEF TypeOK, NamingAccepted, NamingAnswered, Listening, Jobs
    <3>2. pending' \in [Gates -> SUBSET Popups]
      BY <1>15 DEF TypeOK, NamingAccepted, NamingAnswered, Listening, Popups
    <3>3. shown' \in [Gates -> SUBSET Popups]
      BY <1>15 DEF TypeOK, NamingAccepted, NamingAnswered, Listening, Popups
    <3>4. crossed' \subseteq Gates
      BY <1>15 DEF TypeOK, NamingAccepted, NamingAnswered, Listening
    <3>5. name' \in [Gates -> NameOrNone]
      BY <1>15, GivenNames
        DEF TypeOK, ShapeInv, NamingAccepted, NamingAnswered, Listening, NameOrNone
    <3>6. \A h \in Gates : Equipped(h)'
      BY <1>15, GivenNames
        DEF TypeOK, ShapeInv, Equipped, Records, NamingAccepted, NamingAnswered,
            Listening, shared, main, session, popups, history
    <3> QED BY <1>15, <3>1, <3>2, <3>3, <3>4, <3>5, <3>6
      DEF TypeOK, NamingAccepted, NamingAnswered, Listening, shared, main, session,
          popups, history
  <2>2. ShapeInv'
    BY <1>15, GivenNames
    DEF TypeOK, Equipped, ShapeInv, NamingAccepted, NamingAnswered, Listening, Records,
        Calls, NameOrNone, Renaming, shared, main, session, popups, history
  <2> QED BY <2>1, <2>2
<1>16. ASSUME NEW g \in Gates, SetIdentity(g)
       PROVE  TypeInv'
  <2>1. TypeOK'
    <3>1. call' \in [Gates -> Calls \cup {Nothing}]
      BY <1>16, CurrentFacts DEF TypeOK, ShapeInv, SetIdentity, Calls, NameOrNone
    <3>2. \A h \in Gates : Equipped(h)'
      BY <1>16
        DEF TypeOK, ShapeInv, Equipped, Records, SetIdentity, shared, main, session,
            popups, history
    <3> QED BY <1>16, <3>1, <3>2
      DEF TypeOK, SetIdentity, shared, main, session, popups, history
  <2>2. ShapeInv'
    BY <1>16, CurrentFacts
    DEF TypeOK, Equipped, ShapeInv, SetIdentity, Records, Calls, NameOrNone, Renaming,
        shared, main, session, popups, history
  <2> QED BY <2>1, <2>2
<1>17. ASSUME NEW g \in Gates, NEW n \in Typed, RenameAccepted(g, n)
       PROVE  TypeInv'
  <2>1. TypeOK'
    <3>1. job' \in [Gates -> Jobs]
      BY <1>17 DEF TypeOK, RenameAccepted, Jobs
    <3>2. name' \in [Gates -> NameOrNone]
      BY <1>17, GivenNames DEF TypeOK, ShapeInv, RenameAccepted, NameOrNone
    <3>3. call' \in [Gates -> Calls \cup {Nothing}]
      <4>1. call[g] \in Calls
        BY <1>17 DEF TypeOK, RenameAccepted
      <4>2. [call[g] EXCEPT !.open = FALSE] \in Calls
        BY <4>1 DEF Calls
      <4>3. call' = [call EXCEPT ![g] = [call[g] EXCEPT !.open = FALSE]]
        BY <1>17 DEF RenameAccepted
      <4> QED BY <4>2, <4>3 DEF TypeOK
    <3>4. \A h \in Gates : Equipped(h)'
      BY <1>17, GivenNames
        DEF TypeOK, ShapeInv, Equipped, Records, RenameAccepted, shared, main, session,
            popups, history
    <3> QED BY <1>17, <3>1, <3>2, <3>3, <3>4
      DEF TypeOK, RenameAccepted, shared, main, session, popups, history
  <2>2. ShapeInv'
    BY <1>17, GivenNames
    DEF TypeOK, Equipped, ShapeInv, RenameAccepted, Records, Calls, NameOrNone,
        Renaming, shared, main, session, popups, history
  <2> QED BY <2>1, <2>2
<1>18. ASSUME NEW g \in Gates, RenameRefused(g)
       PROVE  TypeInv'
  <2>1. TypeOK'
    <3>1. crossed' \subseteq Gates
      BY <1>18 DEF TypeOK, RenameRefused, CallEnds
    <3>2. record' \in Records
      BY <1>18 DEF TypeOK, ShapeInv, RenameRefused, CallEnds, Records, NameOrNone
    <3>3. call' \in [Gates -> Calls \cup {Nothing}]
      BY <1>18 DEF TypeOK, ShapeInv, RenameRefused, CallEnds, Calls, NameOrNone
    <3>4. \A h \in Gates : Equipped(h)'
      BY <1>18
        DEF TypeOK, ShapeInv, Equipped, Records, RenameRefused, CallEnds, shared, main,
            session, popups, history
    <3> QED BY <1>18, <3>1, <3>2, <3>3, <3>4
      DEF TypeOK, RenameRefused, CallEnds, shared, main, session, popups, history
  <2>2. ShapeInv'
    BY <1>18
    DEF TypeOK, Equipped, ShapeInv, RenameRefused, CallEnds, Records, Calls, NameOrNone,
        Renaming, shared, main, session, popups, history
  <2> QED BY <2>1, <2>2
<1>19. ASSUME NEW g \in Gates, SaveId(g)
       PROVE  TypeInv'
  <2>1. TypeOK'
    <3>1. job' \in [Gates -> Jobs]
      BY <1>19 DEF TypeOK, SaveId, Jobs
    <3>2. record' \in Records
      BY <1>19, GivenNames DEF TypeOK, ShapeInv, SaveId, Records, NameOrNone
    <3>3. \A h \in Gates : Equipped(h)'
      BY <1>19
        DEF TypeOK, ShapeInv, Equipped, Records, SaveId, shared, main, session, popups,
            history
    <3> QED BY <1>19, <3>1, <3>2, <3>3
      DEF TypeOK, SaveId, shared, main, session, popups, history
  <2>2. ShapeInv'
    BY <1>19, GivenNames
    DEF TypeOK, Equipped, ShapeInv, SaveId, Records, Calls, NameOrNone, Renaming,
        shared, main, session, popups, history
  <2> QED BY <2>1, <2>2
<1>20. ASSUME NEW g \in Gates, SaveIdFails(g)
       PROVE  TypeInv'
  <2>1. TypeOK'
    <3>1. job' \in [Gates -> Jobs]
      BY <1>20 DEF TypeOK, SaveIdFails, CallEnds, Jobs
    <3>2. crossed' \subseteq Gates
      BY <1>20 DEF TypeOK, SaveIdFails, CallEnds
    <3>3. name' \in [Gates -> NameOrNone]
      BY <1>20 DEF TypeOK, ShapeInv, SaveIdFails, CallEnds, NameOrNone
    <3>4. call' \in [Gates -> Calls \cup {Nothing}]
      BY <1>20 DEF TypeOK, ShapeInv, SaveIdFails, CallEnds, Calls, NameOrNone
    <3>5. \A h \in Gates : Equipped(h)'
      BY <1>20
        DEF TypeOK, ShapeInv, Equipped, Records, SaveIdFails, CallEnds, shared, main,
            session, popups, history
    <3> QED BY <1>20, <3>1, <3>2, <3>3, <3>4, <3>5
      DEF TypeOK, SaveIdFails, CallEnds, shared, main, session, popups, history
  <2>2. ShapeInv'
    BY <1>20
    DEF TypeOK, Equipped, ShapeInv, SaveIdFails, CallEnds, Records, Calls, NameOrNone,
        Renaming, shared, main, session, popups, history
  <2> QED BY <2>1, <2>2
<1>21. ASSUME NEW g \in Gates, SaveName(g)
       PROVE  TypeInv'
  <2>1. TypeOK'
    <3>1. job' \in [Gates -> Jobs]
      BY <1>21 DEF TypeOK, SaveName, NewAccount, Jobs
    <3>2. overtaken' \subseteq Gates
      BY <1>21 DEF TypeOK, SaveName, NewAccount
    <3>3. record' \in Records
      BY <1>21 DEF TypeOK, ShapeInv, Equipped, SaveName, NewAccount, Records, NameOrNone
    <3>4. name' \in [Gates -> NameOrNone]
      BY <1>21 DEF TypeOK, ShapeInv, SaveName, NewAccount, NameOrNone
    <3>5. \A h \in Gates : Equipped(h)'
      BY <1>21
        DEF TypeOK, ShapeInv, Equipped, Records, SaveName, NewAccount, shared, main,
            session, popups, history
    <3> QED BY <1>21, <3>1, <3>2, <3>3, <3>4, <3>5
      DEF TypeOK, SaveName, NewAccount, shared, main, session, popups, history
  <2>2. ShapeInv'
    BY <1>21
    DEF TypeOK, Equipped, ShapeInv, SaveName, NewAccount, Records, Calls, NameOrNone,
        Renaming, shared, main, session, popups, history
  <2> QED BY <2>1, <2>2
<1>22. ASSUME NEW g \in Gates, Repin(g)
       PROVE  TypeInv'
  <2>1. TypeOK'
    <3>1. job' \in [Gates -> Jobs]
      BY <1>22 DEF TypeOK, Repin, PinnedBack, TakeAddress, CallEnds, Jobs, session
    <3>2. declined' \in [Gates -> BOOLEAN]
      BY <1>22 DEF TypeOK, Repin, PinnedBack, TakeAddress, CallEnds, session
    <3>3. crossed' \subseteq Gates
      BY <1>22 DEF TypeOK, Repin, PinnedBack, TakeAddress, CallEnds, session
    <3>4. saved' \in [Gates -> NameOrNone]
      BY <1>22, CallFacts
        DEF TypeOK, ShapeInv, Repin, PinnedBack, TakeAddress, CallEnds, NameOrNone,
            session
    <3>5. call' \in [Gates -> Calls \cup {Nothing}]
      BY <1>22, CallFacts
        DEF TypeOK, ShapeInv, Repin, PinnedBack, TakeAddress, CallEnds, Calls,
            NameOrNone, session
    <3>6. adopted' \in [Gates -> NameOrNone]
      BY <1>22, CallFacts
        DEF TypeOK, ShapeInv, Repin, PinnedBack, TakeAddress, CallEnds, NameOrNone,
            session
    <3>7. \A h \in Gates : Equipped(h)'
      BY <1>22
        DEF TypeOK, ShapeInv, Equipped, Records, Repin, PinnedBack, TakeAddress,
            CallEnds, shared, main, session, popups, history
    <3> QED BY <1>22, <3>1, <3>2, <3>3, <3>4, <3>5, <3>6, <3>7
      DEF TypeOK, Repin, PinnedBack, TakeAddress, CallEnds, shared, main, session,
          popups, history
  <2>2. ShapeInv'
    BY <1>22, CallFacts
    DEF TypeOK, Equipped, ShapeInv, Repin, PinnedBack, TakeAddress, CallEnds, Records,
        Calls, NameOrNone, Renaming, shared, main, session, popups, history
  <2> QED BY <2>1, <2>2
<1>23. ASSUME NEW g \in Gates, Send(g)
       PROVE  TypeInv'
  <2>1. TypeOK'
    <3>1. call' \in [Gates -> Calls \cup {Nothing}]
      <4>1. PICK open \in {FALSE, asks[g]} :
              call' = [call EXCEPT ![g] =
                [tool |-> "send_message", before |-> Current(g), open |-> open]]
        BY <1>23 DEF Send
      <4>2. open \in BOOLEAN
        BY DEF TypeOK
      <4> QED BY <4>1, <4>2, CurrentFacts DEF TypeOK, Calls
    <3>2. \A h \in Gates : Equipped(h)'
      BY <1>23
        DEF TypeOK, ShapeInv, Equipped, Records, Send, shared, main, session,
            popups, history
    <3> QED BY <1>23, <3>1, <3>2
      DEF TypeOK, Send, shared, main, session, popups, history
  <2>2. ShapeInv'
    BY <1>23, CurrentFacts
    DEF TypeOK, Equipped, ShapeInv, Send, Records, Calls, NameOrNone,
        Renaming, shared, main, session, popups, history
  <2> QED BY <2>1, <2>2
<1>24. ASSUME NEW g \in Gates, SendEnds(g)
       PROVE  TypeInv'
  <2>1. TypeOK'
    <3>1. crossed' \subseteq Gates
      BY <1>24 DEF TypeOK, SendEnds, CallEnds
    <3>2. call' \in [Gates -> Calls \cup {Nothing}]
      BY <1>24 DEF TypeOK, ShapeInv, SendEnds, CallEnds, Calls, NameOrNone
    <3>3. \A h \in Gates : Equipped(h)'
      BY <1>24
        DEF TypeOK, ShapeInv, Equipped, Records, SendEnds, CallEnds, shared, main,
            session, popups, history
    <3> QED BY <1>24, <3>1, <3>2, <3>3
      DEF TypeOK, SendEnds, CallEnds, shared, main, session, popups, history
  <2>2. ShapeInv'
    BY <1>24
    DEF TypeOK, Equipped, ShapeInv, SendEnds, CallEnds, Records, Calls, NameOrNone,
        Renaming, shared, main, session, popups, history
  <2> QED BY <2>1, <2>2
<1>25. ASSUME NEW g \in Gates, End(g)
       PROVE  TypeInv'
  <2>1. TypeOK'
    <3>1. job' \in [Gates -> Jobs]
      BY <1>25 DEF TypeOK, End, CallEnds, Jobs
    <3>2. number' \in [Gates -> Nat]
      BY <1>25 DEF TypeOK, End, CallEnds
    <3>3. declined' \in [Gates -> BOOLEAN]
      BY <1>25 DEF TypeOK, End, CallEnds
    <3>4. first' \in [Gates -> BOOLEAN]
      BY <1>25 DEF TypeOK, End, CallEnds
    <3>5. timers' \in [Gates -> SUBSET {"naming", "offer", "answer"}]
      BY <1>25 DEF TypeOK, End, CallEnds
    <3>6. pending' \in [Gates -> SUBSET Popups]
      BY <1>25 DEF TypeOK, End, CallEnds, Popups
    <3>7. shown' \in [Gates -> SUBSET Popups]
      BY <1>25 DEF TypeOK, End, CallEnds, Popups
    <3>8. crossed' \subseteq Gates
      BY <1>25 DEF TypeOK, End, CallEnds
    <3>9. overtaken' \subseteq Gates
      BY <1>25 DEF TypeOK, End, CallEnds
    <3>10. late' \subseteq Gates
      BY <1>25 DEF TypeOK, End, CallEnds
    <3>11. name' \in [Gates -> NameOrNone]
      BY <1>25 DEF TypeOK, ShapeInv, End, CallEnds, NameOrNone
    <3>12. call' \in [Gates -> Calls \cup {Nothing}]
      BY <1>25 DEF TypeOK, ShapeInv, End, CallEnds, Calls, NameOrNone
    <3>13. adopted' \in [Gates -> NameOrNone]
      BY <1>25 DEF TypeOK, ShapeInv, End, CallEnds, NameOrNone
    <3>14. \A h \in Gates : Equipped(h)'
      BY <1>25
        DEF TypeOK, ShapeInv, Equipped, Records, End, CallEnds, shared, main, session,
            popups, history
    <3> QED BY <1>25, <3>1, <3>2, <3>3, <3>4, <3>5, <3>6, <3>7, <3>8, <3>9, <3>10, <3>11, <3>12, <3>13, <3>14
      DEF TypeOK, End, CallEnds, shared, main, session, popups, history
  <2>2. ShapeInv'
    BY <1>25
    DEF TypeOK, Equipped, ShapeInv, End, CallEnds, Records, Calls, NameOrNone, Renaming,
        shared, main, session, popups, history
  <2> QED BY <2>1, <2>2
<1>26. CASE UNCHANGED vars
  BY <1>26
    DEF vars, TypeOK, Equipped, ShapeInv, Renaming, shared, main, session, popups,
        history
<1> QED
  BY <1>1, <1>2, <1>3, <1>4, <1>5, <1>6, <1>7, <1>8, <1>9, <1>10, <1>11, <1>12, <1>13,
    <1>14, <1>15, <1>16, <1>17, <1>18, <1>19, <1>20, <1>21, <1>22, <1>23, <1>24, <1>25,
    <1>26
  DEF Next, Starting, Saving, Timer, Answer

-----------------------------------------------------------------------------
(* What a gate is in the middle of. *)

\* What Stage says of a session is untouched.
Same(h) ==
  /\ job'[h] = job[h] /\ call'[h] = call[h] /\ first'[h] = first[h]
  /\ adopted'[h] = adopted[h] /\ declined'[h] = declined[h]
  /\ timers'[h] = timers[h] /\ pending'[h] = pending[h] /\ shown'[h] = shown[h]
  /\ h \in late' <=> h \in late
  /\ h \in crossed' <=> h \in crossed

LEMMA StageFrame ==
  ASSUME NEW h \in Gates, Stage(h), Same(h)
  PROVE  Stage(h)'
BY DEF Same, Stage, Off, FirstRun, Named, InCall, Renaming

LEMMA InitStage == Init => StageInv
BY DEF Init, StageInv, Stage, Off, InCall

\* No action takes its gate, or another, out of its stage.
LEMMA StepStage == TypeInv /\ StageInv /\ [Next]_vars => StageInv'
<1> SUFFICES ASSUME TypeInv, StageInv, [Next]_vars
             PROVE  StageInv'
  OBVIOUS
<1> USE DEF TypeInv
<1>1. ASSUME NEW g \in Gates, Launch(g)
       PROVE  StageInv'
  <2>1. \A h \in Gates \ {g} : Same(h)
    BY <1>1 DEF TypeOK, Same, Launch, shared, main, session, popups, history
  <2>2. Stage(g)'
    <3>1. Stage(g)
      BY DEF StageInv
    <3>2. job'[g] = "off" => Off(g)'
      BY <1>1, <3>1
        DEF TypeOK, ShapeInv, Stage, Off, FirstRun, Named, InCall, Renaming, Launch,
            shared, main, session, popups, history
    <3>3. job'[g] # "off" => IF first'[g] THEN FirstRun(g)' ELSE Named(g)'
      BY <1>1, <3>1
        DEF TypeOK, ShapeInv, Stage, Off, FirstRun, Named, InCall, Renaming, Launch,
            shared, main, session, popups, history
    <3>4. InCall(g)'
      BY <1>1, <3>1
        DEF TypeOK, ShapeInv, Stage, Off, FirstRun, Named, InCall, Renaming, Launch,
            shared, main, session, popups, history
    <3> QED BY <3>2, <3>3, <3>4 DEF Stage
  <2> QED BY <2>1, <2>2, StageFrame DEF StageInv
<1>2. ASSUME NEW g \in Gates, Seed(g)
       PROVE  StageInv'
  <2>1. \A h \in Gates \ {g} : Same(h)
    BY <1>2 DEF TypeOK, Same, Seed, AfterSeed, shared, main, session, popups, history
  <2>2. Stage(g)'
    <3>1. Stage(g)
      BY DEF StageInv
    <3>2. job'[g] = "off" => Off(g)'
      BY <1>2, <3>1
        DEF TypeOK, ShapeInv, Stage, Off, FirstRun, Named, InCall, Renaming, Seed,
            AfterSeed, shared, main, session, popups, history
    <3>3. job'[g] # "off" => IF first'[g] THEN FirstRun(g)' ELSE Named(g)'
      BY <1>2, <3>1
        DEF TypeOK, ShapeInv, Stage, Off, FirstRun, Named, InCall, Renaming, Seed,
            AfterSeed, shared, main, session, popups, history
    <3>4. InCall(g)'
      BY <1>2, <3>1
        DEF TypeOK, ShapeInv, Stage, Off, FirstRun, Named, InCall, Renaming, Seed,
            AfterSeed, shared, main, session, popups, history
    <3> QED BY <3>2, <3>3, <3>4 DEF Stage
  <2> QED BY <2>1, <2>2, StageFrame DEF StageInv
<1>3. ASSUME NEW g \in Gates, Resume(g)
       PROVE  StageInv'
  <2>1. \A h \in Gates \ {g} : Same(h)
    BY <1>3 DEF TypeOK, Same, Resume, shared, main, session, popups, history
  <2>2. Stage(g)'
    <3>1. Stage(g)
      BY DEF StageInv
    <3>2. job'[g] = "off" => Off(g)'
      BY <1>3, <3>1
        DEF TypeOK, ShapeInv, Stage, Off, FirstRun, Named, InCall, Renaming, Resume,
            shared, main, session, popups, history
    <3>3. job'[g] # "off" => IF first'[g] THEN FirstRun(g)' ELSE Named(g)'
      BY <1>3, <3>1
        DEF TypeOK, ShapeInv, Stage, Off, FirstRun, Named, InCall, Renaming, Resume,
            shared, main, session, popups, history
    <3>4. InCall(g)'
      BY <1>3, <3>1
        DEF TypeOK, ShapeInv, Stage, Off, FirstRun, Named, InCall, Renaming, Resume,
            shared, main, session, popups, history
    <3> QED BY <3>2, <3>3, <3>4 DEF Stage
  <2> QED BY <2>1, <2>2, StageFrame DEF StageInv
<1>4. ASSUME NEW g \in Gates, TakeOrdinal(g)
       PROVE  StageInv'
  <2>1. \A h \in Gates \ {g} : Same(h)
    BY <1>4 DEF TypeOK, Same, TakeOrdinal, shared, main, session, popups, history
  <2>2. Stage(g)'
    <3>1. Stage(g)
      BY DEF StageInv
    <3>2. job'[g] = "off" => Off(g)'
      BY <1>4, <3>1
        DEF TypeOK, ShapeInv, Stage, Off, FirstRun, Named, InCall, Renaming,
            TakeOrdinal, shared, main, session, popups, history
    <3>3. job'[g] # "off" => IF first'[g] THEN FirstRun(g)' ELSE Named(g)'
      BY <1>4, <3>1
        DEF TypeOK, ShapeInv, Stage, Off, FirstRun, Named, InCall, Renaming,
            TakeOrdinal, shared, main, session, popups, history
    <3>4. InCall(g)'
      BY <1>4, <3>1
        DEF TypeOK, ShapeInv, Stage, Off, FirstRun, Named, InCall, Renaming,
            TakeOrdinal, shared, main, session, popups, history
    <3> QED BY <3>2, <3>3, <3>4 DEF Stage
  <2> QED BY <2>1, <2>2, StageFrame DEF StageInv
<1>5. ASSUME NEW g \in Gates, Adopt(g)
       PROVE  StageInv'
  <2>1. \A h \in Gates \ {g} : Same(h)
    BY <1>5 DEF TypeOK, Same, Adopt, TakeAddress, shared, main, session, popups, history
  <2>2. Stage(g)'
    <3>1. Stage(g)
      BY DEF StageInv
    <3>2. job'[g] = "off" => Off(g)'
      BY <1>5, <3>1
        DEF TypeOK, ShapeInv, Stage, Off, Adopt, TakeAddress, shared, main, session,
            popups, history
    <3>3. job'[g] # "off" => IF first'[g] THEN FirstRun(g)' ELSE Named(g)'
      <4>1. adopted'[g] # Nothing
        <5>1. CASE number[g] = 0
          BY <1>5, <5>1 DEF TypeOK, ShapeInv, Adopt, TakeAddress
        <5>2. CASE number[g] # 0
          <6>1. Append(AccountName, number[g]) \in Names
            BY AppendNames, AccountFacts DEF TypeOK
          <6>2. adopted'[g] = Append(AccountName, number[g])
            BY <1>5, <5>2 DEF TypeOK, Adopt, TakeAddress
          <6> QED BY <6>1, <6>2, GivenNames
        <5> QED BY <5>1, <5>2
      <4> QED BY <1>5, <3>1, <4>1
        DEF TypeOK, ShapeInv, Stage, Off, FirstRun, Named, InCall, Renaming, Adopt,
            TakeAddress, shared, main, session, popups, history
    <3>4. InCall(g)'
      BY <1>5, <3>1
        DEF TypeOK, ShapeInv, Stage, InCall, Renaming, Adopt, TakeAddress, shared, main,
            session, popups, history
    <3> QED BY <3>2, <3>3, <3>4 DEF Stage
  <2> QED BY <2>1, <2>2, StageFrame DEF StageInv
<1>6. ASSUME NEW g \in Gates, Offer(g)
       PROVE  StageInv'
  <2>1. \A h \in Gates \ {g} : Same(h)
    BY <1>6 DEF TypeOK, Same, Offer, shared, main, session, popups, history
  <2>2. Stage(g)'
    <3>1. Stage(g)
      BY DEF StageInv
    <3>2. job'[g] = "off" => Off(g)'
      BY <1>6, <3>1
        DEF TypeOK, ShapeInv, Stage, Off, FirstRun, Named, InCall, Renaming, Offer,
            shared, main, session, popups, history
    <3>3. job'[g] # "off" => IF first'[g] THEN FirstRun(g)' ELSE Named(g)'
      BY <1>6, <3>1
        DEF TypeOK, ShapeInv, Stage, Off, FirstRun, Named, InCall, Renaming, Offer,
            shared, main, session, popups, history
    <3>4. InCall(g)'
      BY <1>6, <3>1
        DEF TypeOK, ShapeInv, Stage, Off, FirstRun, Named, InCall, Renaming, Offer,
            shared, main, session, popups, history
    <3> QED BY <3>2, <3>3, <3>4 DEF Stage
  <2> QED BY <2>1, <2>2, StageFrame DEF StageInv
<1>7. ASSUME NEW g \in Gates, OfferMigration(g)
       PROVE  StageInv'
  <2>1. \A h \in Gates \ {g} : Same(h)
    BY <1>7 DEF TypeOK, Same, OfferMigration, shared, main, session, popups, history
  <2>2. Stage(g)'
    <3>1. Stage(g)
      BY DEF StageInv
    <3>2. job'[g] = "off" => Off(g)'
      BY <1>7, <3>1
        DEF TypeOK, ShapeInv, Stage, Off, OfferMigration, shared, main, session, popups,
            history
    <3>3. job'[g] # "off" => IF first'[g] THEN FirstRun(g)' ELSE Named(g)'
      <4>1. ~first[g] /\ timers[g] = {"offer"} /\ pending[g] = {}
        BY <1>7, <3>1 DEF TypeOK, Stage, Off, FirstRun, Named, OfferMigration
      <4>2. CASE Candidate = Nothing
        <5>1. timers'[g] = {}
          BY <1>7, <4>1, <4>2 DEF TypeOK, OfferMigration
        <5> QED BY <1>7, <3>1, <4>1, <4>2, <5>1
          DEF TypeOK, ShapeInv, Stage, Off, FirstRun, Named, InCall, Renaming,
              OfferMigration, shared, main, session, popups, history
      <4>3. CASE Candidate # Nothing
        <5>1. timers'[g] = {"answer"} /\ pending'[g] = {"migration"}
          BY <1>7, <4>1, <4>3 DEF TypeOK, OfferMigration
        <5> QED BY <1>7, <3>1, <4>1, <4>3, <5>1
          DEF TypeOK, ShapeInv, Stage, Off, FirstRun, Named, InCall, Renaming,
              OfferMigration, shared, main, session, popups, history
      <4> QED BY <4>2, <4>3
    <3>4. InCall(g)'
      BY <1>7, <3>1
        DEF TypeOK, ShapeInv, Stage, InCall, Renaming, OfferMigration, shared, main,
            session, popups, history
    <3> QED BY <3>2, <3>3, <3>4 DEF Stage
  <2> QED BY <2>1, <2>2, StageFrame DEF StageInv
<1>8. ASSUME NEW g \in Gates, NEW a \in {"accept", "decline", "dismiss"}, MigrationReply(g, a)
       PROVE  StageInv'
  <2>1. \A h \in Gates \ {g} : Same(h)
    BY <1>8
      DEF TypeOK, Same, MigrationReply, Listening, shared, main, session, popups,
          history
  <2>2. Stage(g)'
    <3>1. Stage(g)
      BY DEF StageInv
    <3>2. job'[g] = "off" => Off(g)'
      BY <1>8, <3>1
        DEF TypeOK, ShapeInv, Stage, Off, MigrationReply, Listening, Heeds, shared,
            main, session, popups, history
    <3>3. job'[g] # "off" => IF first'[g] THEN FirstRun(g)' ELSE Named(g)'
      <4>1. ~first[g] /\ job[g] = "idle" /\ adopted[g] # Nothing
        BY <1>8, <3>1
          DEF TypeOK, ShapeInv, Stage, Off, FirstRun, Named, InCall, Renaming, Equipped,
              MigrationReply, Listening
      <4>2. CASE ~Heeds(g)
        BY <1>8, <3>1, <4>1, <4>2
          DEF TypeOK, ShapeInv, Stage, Off, FirstRun, Named, InCall, Renaming,
              MigrationReply, shared, main, session, popups, history
      <4>3. CASE Heeds(g)
        <5>1. timers[g] = {"answer"} /\ pending[g] = {"migration"} /\ g \notin late
          BY <3>1, <4>1, <4>3
            DEF TypeOK, ShapeInv, Stage, Off, FirstRun, Named, InCall, Renaming, Heeds
        <5>2. timers'[g] = {} /\ pending'[g] = {}
          BY <1>8, <4>3, <5>1 DEF TypeOK, MigrationReply
        <5> QED BY <1>8, <3>1, <4>1, <4>3, <5>1, <5>2
          DEF TypeOK, ShapeInv, Stage, Off, FirstRun, Named, InCall, Renaming,
              MigrationReply, shared, main, session, popups, history
      <4> QED BY <4>2, <4>3
    <3>4. InCall(g)'
      BY <1>8, <3>1
        DEF TypeOK, ShapeInv, Stage, InCall, Renaming, MigrationReply, Listening, Heeds,
            shared, main, session, popups, history
    <3> QED BY <3>2, <3>3, <3>4 DEF Stage
  <2> QED BY <2>1, <2>2, StageFrame DEF StageInv
<1>9. ASSUME NEW g \in Gates, Record(g)
       PROVE  StageInv'
  <2>1. \A h \in Gates \ {g} : Same(h)
    BY <1>9 DEF TypeOK, Same, Record, NewAccount, shared, main, session, popups, history
  <2>2. Stage(g)'
    <3>1. Stage(g)
      BY DEF StageInv
    <3>2. job'[g] = "off" => Off(g)'
      BY <1>9, <3>1
        DEF TypeOK, ShapeInv, Stage, Off, FirstRun, Named, InCall, Renaming, Record,
            NewAccount, shared, main, session, popups, history
    <3>3. job'[g] # "off" => IF first'[g] THEN FirstRun(g)' ELSE Named(g)'
      BY <1>9, <3>1
        DEF TypeOK, ShapeInv, Stage, Off, FirstRun, Named, InCall, Renaming, Record,
            NewAccount, shared, main, session, popups, history
    <3>4. InCall(g)'
      BY <1>9, <3>1
        DEF TypeOK, ShapeInv, Stage, Off, FirstRun, Named, InCall, Renaming, Record,
            NewAccount, shared, main, session, popups, history
    <3> QED BY <3>2, <3>3, <3>4 DEF Stage
  <2> QED BY <2>1, <2>2, StageFrame DEF StageInv
<1>10. ASSUME NEW g \in Gates, MigrationTimeout(g)
       PROVE  StageInv'
  <2>1. \A h \in Gates \ {g} : Same(h)
    BY <1>10 DEF TypeOK, Same, MigrationTimeout, shared, main, session, popups, history
  <2>2. Stage(g)'
    <3>1. Stage(g)
      BY DEF StageInv
    <3>2. job'[g] = "off" => Off(g)'
      BY <1>10, <3>1
        DEF TypeOK, ShapeInv, Stage, Off, FirstRun, Named, InCall, Renaming,
            MigrationTimeout, shared, main, session, popups, history
    <3>3. job'[g] # "off" => IF first'[g] THEN FirstRun(g)' ELSE Named(g)'
      BY <1>10, <3>1
        DEF TypeOK, ShapeInv, Stage, Off, FirstRun, Named, InCall, Renaming,
            MigrationTimeout, shared, main, session, popups, history
    <3>4. InCall(g)'
      BY <1>10, <3>1
        DEF TypeOK, ShapeInv, Stage, Off, FirstRun, Named, InCall, Renaming,
            MigrationTimeout, shared, main, session, popups, history
    <3> QED BY <3>2, <3>3, <3>4 DEF Stage
  <2> QED BY <2>1, <2>2, StageFrame DEF StageInv
<1>11. ASSUME NEW g \in Gates, OfferNaming(g)
       PROVE  StageInv'
  <2>1. \A h \in Gates \ {g} : Same(h)
    BY <1>11 DEF TypeOK, Same, OfferNaming, shared, main, session, popups, history
  <2>2. Stage(g)'
    <3>1. Stage(g)
      BY DEF StageInv
    <3>2. job'[g] = "off" => Off(g)'
      BY <1>11, <3>1
        DEF TypeOK, ShapeInv, Stage, Off, FirstRun, Named, InCall, Renaming,
            OfferNaming, shared, main, session, popups, history
    <3>3. job'[g] # "off" => IF first'[g] THEN FirstRun(g)' ELSE Named(g)'
      BY <1>11, <3>1
        DEF TypeOK, ShapeInv, Stage, Off, FirstRun, Named, InCall, Renaming,
            OfferNaming, shared, main, session, popups, history
    <3>4. InCall(g)'
      BY <1>11, <3>1
        DEF TypeOK, ShapeInv, Stage, Off, FirstRun, Named, InCall, Renaming,
            OfferNaming, shared, main, session, popups, history
    <3> QED BY <3>2, <3>3, <3>4 DEF Stage
  <2> QED BY <2>1, <2>2, StageFrame DEF StageInv
<1>12. ASSUME NEW g \in Gates, NamingFails(g)
       PROVE  StageInv'
  <2>1. \A h \in Gates \ {g} : Same(h)
    BY <1>12
      DEF TypeOK, Same, NamingFails, NamingAnswered, Listening, shared, main, session,
          popups, history
  <2>2. Stage(g)'
    <3>1. Stage(g)
      BY DEF StageInv
    <3>2. job'[g] = "off" => Off(g)'
      BY <1>12, <3>1
        DEF TypeOK, ShapeInv, Stage, Off, FirstRun, Named, InCall, Renaming,
            NamingFails, NamingAnswered, Listening, shared, main, session, popups,
            history
    <3>3. job'[g] # "off" => IF first'[g] THEN FirstRun(g)' ELSE Named(g)'
      BY <1>12, <3>1
        DEF TypeOK, ShapeInv, Stage, Off, FirstRun, Named, InCall, Renaming,
            NamingFails, NamingAnswered, Listening, shared, main, session, popups,
            history
    <3>4. InCall(g)'
      BY <1>12, <3>1
        DEF TypeOK, ShapeInv, Stage, Off, FirstRun, Named, InCall, Renaming,
            NamingFails, NamingAnswered, Listening, shared, main, session, popups,
            history
    <3> QED BY <3>2, <3>3, <3>4 DEF Stage
  <2> QED BY <2>1, <2>2, StageFrame DEF StageInv
<1>13. ASSUME NEW g \in Gates, NamingDeclined(g)
       PROVE  StageInv'
  <2>1. \A h \in Gates \ {g} : Same(h)
    BY <1>13
      DEF TypeOK, Same, NamingDeclined, NamingAnswered, Listening, shared, main,
          session, popups, history
  <2>2. Stage(g)'
    <3>1. Stage(g)
      BY DEF StageInv
    <3>2. job'[g] = "off" => Off(g)'
      BY <1>13, <3>1
        DEF TypeOK, ShapeInv, Stage, Off, FirstRun, Named, InCall, Renaming,
            NamingDeclined, NamingAnswered, Listening, shared, main, session, popups,
            history
    <3>3. job'[g] # "off" => IF first'[g] THEN FirstRun(g)' ELSE Named(g)'
      BY <1>13, <3>1
        DEF TypeOK, ShapeInv, Stage, Off, FirstRun, Named, InCall, Renaming,
            NamingDeclined, NamingAnswered, Listening, shared, main, session, popups,
            history
    <3>4. InCall(g)'
      BY <1>13, <3>1
        DEF TypeOK, ShapeInv, Stage, Off, FirstRun, Named, InCall, Renaming,
            NamingDeclined, NamingAnswered, Listening, shared, main, session, popups,
            history
    <3> QED BY <3>2, <3>3, <3>4 DEF Stage
  <2> QED BY <2>1, <2>2, StageFrame DEF StageInv
<1>14. ASSUME NEW g \in Gates, NamingRejected(g)
       PROVE  StageInv'
  <2>1. \A h \in Gates \ {g} : Same(h)
    BY <1>14
      DEF TypeOK, Same, NamingRejected, NamingAnswered, Listening, TakeAddress, shared,
          main, session, popups, history
  <2>2. Stage(g)'
    <3>1. Stage(g)
      BY DEF StageInv
    <3>2. job'[g] = "off" => Off(g)'
      BY <1>14, <3>1
        DEF TypeOK, ShapeInv, Stage, Off, FirstRun, Named, InCall, Renaming,
            NamingRejected, NamingAnswered, Listening, TakeAddress, shared, main,
            session, popups, history
    <3>3. job'[g] # "off" => IF first'[g] THEN FirstRun(g)' ELSE Named(g)'
      BY <1>14, <3>1
        DEF TypeOK, ShapeInv, Stage, Off, FirstRun, Named, InCall, Renaming,
            NamingRejected, NamingAnswered, Listening, TakeAddress, shared, main,
            session, popups, history
    <3>4. InCall(g)'
      BY <1>14, <3>1
        DEF TypeOK, ShapeInv, Stage, Off, FirstRun, Named, InCall, Renaming,
            NamingRejected, NamingAnswered, Listening, TakeAddress, shared, main,
            session, popups, history
    <3> QED BY <3>2, <3>3, <3>4 DEF Stage
  <2> QED BY <2>1, <2>2, StageFrame DEF StageInv
<1>15. ASSUME NEW g \in Gates, NEW n \in Typed, NamingAccepted(g, n)
       PROVE  StageInv'
  <2>1. \A h \in Gates \ {g} : Same(h)
    BY <1>15
      DEF TypeOK, Same, NamingAccepted, NamingAnswered, Listening, shared, main,
          session, popups, history
  <2>2. Stage(g)'
    <3>1. Stage(g)
      BY DEF StageInv
    <3>2. job'[g] = "off" => Off(g)'
      BY <1>15, <3>1
        DEF TypeOK, ShapeInv, Stage, Off, FirstRun, Named, InCall, Renaming,
            NamingAccepted, NamingAnswered, Listening, shared, main, session, popups,
            history
    <3>3. job'[g] # "off" => IF first'[g] THEN FirstRun(g)' ELSE Named(g)'
      BY <1>15, <3>1
        DEF TypeOK, ShapeInv, Stage, Off, FirstRun, Named, InCall, Renaming,
            NamingAccepted, NamingAnswered, Listening, shared, main, session, popups,
            history
    <3>4. InCall(g)'
      BY <1>15, <3>1
        DEF TypeOK, ShapeInv, Stage, Off, FirstRun, Named, InCall, Renaming,
            NamingAccepted, NamingAnswered, Listening, shared, main, session, popups,
            history
    <3> QED BY <3>2, <3>3, <3>4 DEF Stage
  <2> QED BY <2>1, <2>2, StageFrame DEF StageInv
<1>16. ASSUME NEW g \in Gates, SetIdentity(g)
       PROVE  StageInv'
  <2>1. \A h \in Gates \ {g} : Same(h)
    BY <1>16 DEF TypeOK, Same, SetIdentity, shared, main, session, popups, history
  <2>2. Stage(g)'
    <3>1. Stage(g)
      BY DEF StageInv
    <3>2. job'[g] = "off" => Off(g)'
      BY <1>16, CurrentFacts, <3>1
        DEF TypeOK, ShapeInv, Stage, Off, FirstRun, Named, InCall, Renaming,
            SetIdentity, shared, main, session, popups, history
    <3>3. job'[g] # "off" => IF first'[g] THEN FirstRun(g)' ELSE Named(g)'
      BY <1>16, CurrentFacts, <3>1
        DEF TypeOK, ShapeInv, Stage, Off, FirstRun, Named, InCall, Renaming,
            SetIdentity, shared, main, session, popups, history
    <3>4. InCall(g)'
      BY <1>16, CurrentFacts, <3>1
        DEF TypeOK, ShapeInv, Stage, Off, FirstRun, Named, InCall, Renaming,
            SetIdentity, shared, main, session, popups, history
    <3> QED BY <3>2, <3>3, <3>4 DEF Stage
  <2> QED BY <2>1, <2>2, StageFrame DEF StageInv
<1>17. ASSUME NEW g \in Gates, NEW n \in Typed, RenameAccepted(g, n)
       PROVE  StageInv'
  <2>1. \A h \in Gates \ {g} : Same(h)
    BY <1>17 DEF TypeOK, Same, RenameAccepted, shared, main, session, popups, history
  <2>2. Stage(g)'
    <3>1. Stage(g)
      BY DEF StageInv
    <3>2. job'[g] = "off" => Off(g)'
      BY <1>17, <3>1
        DEF TypeOK, ShapeInv, Stage, Off, RenameAccepted, shared, main, session, popups,
            history
    <3>3. job'[g] # "off" => IF first'[g] THEN FirstRun(g)' ELSE Named(g)'
      <4>1. Renaming(g)'
        BY <1>17, CallOpened DEF TypeOK, RenameAccepted, Renaming
      <4> QED BY <1>17, <3>1, <4>1
        DEF TypeOK, Stage, Off, FirstRun, Named, RenameAccepted, shared, main, session,
            popups, history
    <3>4. InCall(g)'
      <4>1. Renaming(g)' /\ call'[g] # Nothing /\ call'[g].before = call[g].before
        BY <1>17, CallOpened DEF TypeOK, RenameAccepted, Renaming
      <4> QED BY <1>17, <3>1, <4>1
        DEF TypeOK, ShapeInv, Stage, InCall, RenameAccepted, shared, main, session,
            popups, history
    <3> QED BY <3>2, <3>3, <3>4 DEF Stage
  <2> QED BY <2>1, <2>2, StageFrame DEF StageInv
<1>18. ASSUME NEW g \in Gates, RenameRefused(g)
       PROVE  StageInv'
  <2>1. \A h \in Gates \ {g} : Same(h)
    BY <1>18
      DEF TypeOK, Same, RenameRefused, CallEnds, shared, main, session, popups, history
  <2>2. Stage(g)'
    <3>1. Stage(g)
      BY DEF StageInv
    <3>2. job'[g] = "off" => Off(g)'
      BY <1>18, <3>1
        DEF TypeOK, ShapeInv, Stage, Off, FirstRun, Named, InCall, Renaming,
            RenameRefused, CallEnds, shared, main, session, popups, history
    <3>3. job'[g] # "off" => IF first'[g] THEN FirstRun(g)' ELSE Named(g)'
      BY <1>18, <3>1
        DEF TypeOK, ShapeInv, Stage, Off, FirstRun, Named, InCall, Renaming,
            RenameRefused, CallEnds, shared, main, session, popups, history
    <3>4. InCall(g)'
      BY <1>18, <3>1
        DEF TypeOK, ShapeInv, Stage, Off, FirstRun, Named, InCall, Renaming,
            RenameRefused, CallEnds, shared, main, session, popups, history
    <3> QED BY <3>2, <3>3, <3>4 DEF Stage
  <2> QED BY <2>1, <2>2, StageFrame DEF StageInv
<1>19. ASSUME NEW g \in Gates, SaveId(g)
       PROVE  StageInv'
  <2>1. \A h \in Gates \ {g} : Same(h)
    BY <1>19 DEF TypeOK, Same, SaveId, shared, main, session, popups, history
  <2>2. Stage(g)'
    <3>1. Stage(g)
      BY DEF StageInv
    <3>2. job'[g] = "off" => Off(g)'
      BY <1>19, <3>1
        DEF TypeOK, ShapeInv, Stage, Off, FirstRun, Named, InCall, Renaming, SaveId,
            shared, main, session, popups, history
    <3>3. job'[g] # "off" => IF first'[g] THEN FirstRun(g)' ELSE Named(g)'
      BY <1>19, <3>1
        DEF TypeOK, ShapeInv, Stage, Off, FirstRun, Named, InCall, Renaming, SaveId,
            shared, main, session, popups, history
    <3>4. InCall(g)'
      BY <1>19, <3>1
        DEF TypeOK, ShapeInv, Stage, Off, FirstRun, Named, InCall, Renaming, SaveId,
            shared, main, session, popups, history
    <3> QED BY <3>2, <3>3, <3>4 DEF Stage
  <2> QED BY <2>1, <2>2, StageFrame DEF StageInv
<1>20. ASSUME NEW g \in Gates, SaveIdFails(g)
       PROVE  StageInv'
  <2>1. \A h \in Gates \ {g} : Same(h)
    BY <1>20
      DEF TypeOK, Same, SaveIdFails, CallEnds, shared, main, session, popups, history
  <2>2. Stage(g)'
    <3>1. Stage(g)
      BY DEF StageInv
    <3>2. job'[g] = "off" => Off(g)'
      BY <1>20, <3>1
        DEF TypeOK, ShapeInv, Stage, Off, FirstRun, Named, InCall, Renaming,
            SaveIdFails, CallEnds, shared, main, session, popups, history
    <3>3. job'[g] # "off" => IF first'[g] THEN FirstRun(g)' ELSE Named(g)'
      BY <1>20, <3>1
        DEF TypeOK, ShapeInv, Stage, Off, FirstRun, Named, InCall, Renaming,
            SaveIdFails, CallEnds, shared, main, session, popups, history
    <3>4. InCall(g)'
      BY <1>20, <3>1
        DEF TypeOK, ShapeInv, Stage, Off, FirstRun, Named, InCall, Renaming,
            SaveIdFails, CallEnds, shared, main, session, popups, history
    <3> QED BY <3>2, <3>3, <3>4 DEF Stage
  <2> QED BY <2>1, <2>2, StageFrame DEF StageInv
<1>21. ASSUME NEW g \in Gates, SaveName(g)
       PROVE  StageInv'
  <2>1. \A h \in Gates \ {g} : Same(h)
    BY <1>21
      DEF TypeOK, Same, SaveName, NewAccount, shared, main, session, popups, history
  <2>2. Stage(g)'
    <3>1. Stage(g)
      BY DEF StageInv
    <3>2. job'[g] = "off" => Off(g)'
      BY <1>21, <3>1
        DEF TypeOK, ShapeInv, Stage, Off, FirstRun, Named, InCall, Renaming, SaveName,
            NewAccount, shared, main, session, popups, history
    <3>3. job'[g] # "off" => IF first'[g] THEN FirstRun(g)' ELSE Named(g)'
      BY <1>21, <3>1
        DEF TypeOK, ShapeInv, Stage, Off, FirstRun, Named, InCall, Renaming, SaveName,
            NewAccount, shared, main, session, popups, history
    <3>4. InCall(g)'
      BY <1>21, <3>1
        DEF TypeOK, ShapeInv, Stage, Off, FirstRun, Named, InCall, Renaming, SaveName,
            NewAccount, shared, main, session, popups, history
    <3> QED BY <3>2, <3>3, <3>4 DEF Stage
  <2> QED BY <2>1, <2>2, StageFrame DEF StageInv
<1>22. ASSUME NEW g \in Gates, Repin(g)
       PROVE  StageInv'
  <2>1. \A h \in Gates \ {g} : Same(h)
    BY <1>22
      DEF TypeOK, Same, Repin, PinnedBack, TakeAddress, CallEnds, shared, main, session,
          popups, history
  <2>2. Stage(g)'
    <3>1. Stage(g)
      BY DEF StageInv
    <3>2. job'[g] = "off" => Off(g)'
      BY <1>22, <3>1
        DEF TypeOK, ShapeInv, Stage, Off, FirstRun, Named, InCall, Renaming, Repin,
            PinnedBack, TakeAddress, CallEnds, shared, main, session, popups, history
    <3>3. job'[g] # "off" => IF first'[g] THEN FirstRun(g)' ELSE Named(g)'
      BY <1>22, <3>1
        DEF TypeOK, ShapeInv, Stage, Off, FirstRun, Named, InCall, Renaming, Repin,
            PinnedBack, TakeAddress, CallEnds, shared, main, session, popups, history
    <3>4. InCall(g)'
      BY <1>22, <3>1
        DEF TypeOK, ShapeInv, Stage, Off, FirstRun, Named, InCall, Renaming, Repin,
            PinnedBack, TakeAddress, CallEnds, shared, main, session, popups, history
    <3> QED BY <3>2, <3>3, <3>4 DEF Stage
  <2> QED BY <2>1, <2>2, StageFrame DEF StageInv
<1>23. ASSUME NEW g \in Gates, Send(g)
       PROVE  StageInv'
  <2>1. \A h \in Gates \ {g} : Same(h)
    BY <1>23 DEF TypeOK, Same, Send, shared, main, session, popups, history
  <2>2. Stage(g)'
    <3>1. Stage(g)
      BY DEF StageInv
    <3>2. job'[g] = "off" => Off(g)'
      BY <1>23, CurrentFacts, <3>1
        DEF TypeOK, ShapeInv, Stage, Off, FirstRun, Named, InCall, Renaming, Send,
            shared, main, session, popups, history
    <3>3. job'[g] # "off" => IF first'[g] THEN FirstRun(g)' ELSE Named(g)'
      BY <1>23, CurrentFacts, <3>1
        DEF TypeOK, ShapeInv, Stage, Off, FirstRun, Named, InCall, Renaming, Send,
            shared, main, session, popups, history
    <3>4. InCall(g)'
      BY <1>23, CurrentFacts, <3>1
        DEF TypeOK, ShapeInv, Stage, Off, FirstRun, Named, InCall, Renaming, Send,
            shared, main, session, popups, history
    <3> QED BY <3>2, <3>3, <3>4 DEF Stage
  <2> QED BY <2>1, <2>2, StageFrame DEF StageInv
<1>24. ASSUME NEW g \in Gates, SendEnds(g)
       PROVE  StageInv'
  <2>1. \A h \in Gates \ {g} : Same(h)
    BY <1>24
      DEF TypeOK, Same, SendEnds, CallEnds, shared, main, session, popups, history
  <2>2. Stage(g)'
    <3>1. Stage(g)
      BY DEF StageInv
    <3>2. job'[g] = "off" => Off(g)'
      BY <1>24, <3>1
        DEF TypeOK, ShapeInv, Stage, Off, FirstRun, Named, InCall, Renaming, SendEnds,
            CallEnds, shared, main, session, popups, history
    <3>3. job'[g] # "off" => IF first'[g] THEN FirstRun(g)' ELSE Named(g)'
      BY <1>24, <3>1
        DEF TypeOK, ShapeInv, Stage, Off, FirstRun, Named, InCall, Renaming, SendEnds,
            CallEnds, shared, main, session, popups, history
    <3>4. InCall(g)'
      BY <1>24, <3>1
        DEF TypeOK, ShapeInv, Stage, Off, FirstRun, Named, InCall, Renaming, SendEnds,
            CallEnds, shared, main, session, popups, history
    <3> QED BY <3>2, <3>3, <3>4 DEF Stage
  <2> QED BY <2>1, <2>2, StageFrame DEF StageInv
<1>25. ASSUME NEW g \in Gates, End(g)
       PROVE  StageInv'
  <2>1. \A h \in Gates \ {g} : Same(h)
    BY <1>25 DEF TypeOK, Same, End, CallEnds, shared, main, session, popups, history
  <2>2. Stage(g)'
    <3>1. Stage(g)
      BY DEF StageInv
    <3>2. job'[g] = "off" => Off(g)'
      BY <1>25, <3>1
        DEF TypeOK, ShapeInv, Stage, Off, FirstRun, Named, InCall, Renaming, End,
            CallEnds, shared, main, session, popups, history
    <3>3. job'[g] # "off" => IF first'[g] THEN FirstRun(g)' ELSE Named(g)'
      BY <1>25, <3>1
        DEF TypeOK, ShapeInv, Stage, Off, FirstRun, Named, InCall, Renaming, End,
            CallEnds, shared, main, session, popups, history
    <3>4. InCall(g)'
      BY <1>25, <3>1
        DEF TypeOK, ShapeInv, Stage, Off, FirstRun, Named, InCall, Renaming, End,
            CallEnds, shared, main, session, popups, history
    <3> QED BY <3>2, <3>3, <3>4 DEF Stage
  <2> QED BY <2>1, <2>2, StageFrame DEF StageInv
<1>26. CASE UNCHANGED vars
  BY <1>26, StageFrame DEF StageInv, Same, vars, shared, main, session, popups, history
<1> QED
  BY <1>1, <1>2, <1>3, <1>4, <1>5, <1>6, <1>7, <1>8, <1>9, <1>10, <1>11, <1>12, <1>13,
    <1>14, <1>15, <1>16, <1>17, <1>18, <1>19, <1>20, <1>21, <1>22, <1>23, <1>24, <1>25,
    <1>26
  DEF Next, Starting, Saving, Timer, Answer

-----------------------------------------------------------------------------
(* The names that answers put on record. *)

\* A name that another session records overtakes this one's.
LEMMA StepName ==
  TypeInv /\ StageInv /\ NameInv /\ [Next]_vars => NameInv'
<1> SUFFICES ASSUME TypeInv, StageInv, NameInv, [Next]_vars,
                    NEW h \in Gates, job'[h] = "recording", name'[h] # Nothing,
                    h \notin overtaken'
             PROVE  record'.account \in {Nothing, name'[h]}
  BY DEF NameInv
<1> USE DEF TypeInv
<1>1. ASSUME NEW g \in Gates, Launch(g)
       PROVE  record'.account \in {Nothing, name'[h]}
  BY <1>1 DEF TypeOK, NameInv, Records, Launch, shared, main, session, popups, history
<1>2. ASSUME NEW g \in Gates, Seed(g)
       PROVE  record'.account \in {Nothing, name'[h]}
  BY <1>2, LiftFacts
    DEF TypeOK, NameInv, Records, Seed, AfterSeed, shared, main, session, popups,
        history
<1>3. ASSUME NEW g \in Gates, Resume(g)
       PROVE  record'.account \in {Nothing, name'[h]}
  BY <1>3 DEF TypeOK, NameInv, Records, Resume, shared, main, session, popups, history
<1>4. ASSUME NEW g \in Gates, TakeOrdinal(g)
       PROVE  record'.account \in {Nothing, name'[h]}
  BY <1>4
    DEF TypeOK, NameInv, Records, TakeOrdinal, shared, main, session, popups, history
<1>5. ASSUME NEW g \in Gates, Adopt(g)
       PROVE  record'.account \in {Nothing, name'[h]}
  BY <1>5
    DEF TypeOK, NameInv, Records, Adopt, TakeAddress, shared, main, session, popups,
        history
<1>6. ASSUME NEW g \in Gates, Offer(g)
       PROVE  record'.account \in {Nothing, name'[h]}
  BY <1>6, AccountFacts
    DEF TypeOK, NameInv, Records, AccountName, Decision, Offer, shared, main, session,
        popups, history
<1>7. ASSUME NEW g \in Gates, OfferMigration(g)
       PROVE  record'.account \in {Nothing, name'[h]}
  BY <1>7
    DEF TypeOK, NameInv, Records, OfferMigration, shared, main, session, popups, history
<1>8. ASSUME NEW g \in Gates, NEW a \in {"accept", "decline", "dismiss"}, MigrationReply(g, a)
       PROVE  record'.account \in {Nothing, name'[h]}
  BY <1>8, AccountFacts
    DEF TypeOK, NameInv, Records, AccountName, Decision, MigrationReply, Listening,
        shared, main, session, popups, history
<1>9. ASSUME NEW g \in Gates, Record(g)
       PROVE  record'.account \in {Nothing, name'[h]}
  BY <1>9
    DEF TypeOK, NameInv, Records, Record, NewAccount, shared, main, session, popups,
        history
<1>10. ASSUME NEW g \in Gates, MigrationTimeout(g)
       PROVE  record'.account \in {Nothing, name'[h]}
  BY <1>10, LiftFacts
    DEF TypeOK, NameInv, Records, MigrationTimeout, shared, main, session, popups,
        history
<1>11. ASSUME NEW g \in Gates, OfferNaming(g)
       PROVE  record'.account \in {Nothing, name'[h]}
  BY <1>11
    DEF TypeOK, NameInv, Records, OfferNaming, shared, main, session, popups, history
<1>12. ASSUME NEW g \in Gates, NamingFails(g)
       PROVE  record'.account \in {Nothing, name'[h]}
  BY <1>12
    DEF TypeOK, NameInv, Records, NamingFails, NamingAnswered, Listening, shared, main,
        session, popups, history
<1>13. ASSUME NEW g \in Gates, NamingDeclined(g)
       PROVE  record'.account \in {Nothing, name'[h]}
  BY <1>13
    DEF TypeOK, NameInv, Records, NamingDeclined, NamingAnswered, Listening, shared,
        main, session, popups, history
<1>14. ASSUME NEW g \in Gates, NamingRejected(g)
       PROVE  record'.account \in {Nothing, name'[h]}
  BY <1>14
    DEF TypeOK, NameInv, Records, NamingRejected, NamingAnswered, Listening,
        TakeAddress, shared, main, session, popups, history
<1>15. ASSUME NEW g \in Gates, NEW n \in Typed, NamingAccepted(g, n)
       PROVE  record'.account \in {Nothing, name'[h]}
  BY <1>15
    DEF TypeOK, NameInv, Records, NamingAccepted, NamingAnswered, Listening, shared,
        main, session, popups, history
<1>16. ASSUME NEW g \in Gates, SetIdentity(g)
       PROVE  record'.account \in {Nothing, name'[h]}
  BY <1>16
    DEF TypeOK, NameInv, Records, SetIdentity, shared, main, session, popups, history
<1>17. ASSUME NEW g \in Gates, NEW n \in Typed, RenameAccepted(g, n)
       PROVE  record'.account \in {Nothing, name'[h]}
  BY <1>17
    DEF TypeOK, NameInv, Records, RenameAccepted, shared, main, session, popups, history
<1>18. ASSUME NEW g \in Gates, RenameRefused(g)
       PROVE  record'.account \in {Nothing, name'[h]}
  BY <1>18
    DEF TypeOK, NameInv, Records, RenameRefused, CallEnds, shared, main, session,
        popups, history
<1>19. ASSUME NEW g \in Gates, SaveId(g)
       PROVE  record'.account \in {Nothing, name'[h]}
  BY <1>19 DEF TypeOK, NameInv, Records, SaveId, shared, main, session, popups, history
<1>20. ASSUME NEW g \in Gates, SaveIdFails(g)
       PROVE  record'.account \in {Nothing, name'[h]}
  BY <1>20
    DEF TypeOK, NameInv, Records, SaveIdFails, CallEnds, shared, main, session, popups,
        history
<1>21. ASSUME NEW g \in Gates, SaveName(g)
       PROVE  record'.account \in {Nothing, name'[h]}
  BY <1>21
    DEF TypeOK, NameInv, Records, SaveName, NewAccount, shared, main, session, popups,
        history
<1>22. ASSUME NEW g \in Gates, Repin(g)
       PROVE  record'.account \in {Nothing, name'[h]}
  BY <1>22
    DEF TypeOK, NameInv, Records, Repin, PinnedBack, TakeAddress, CallEnds, shared,
        main, session, popups, history
<1>23. ASSUME NEW g \in Gates, Send(g)
       PROVE  record'.account \in {Nothing, name'[h]}
  BY <1>23
    DEF TypeOK, NameInv, Records, Send, shared, main, session, popups,
        history
<1>24. ASSUME NEW g \in Gates, SendEnds(g)
       PROVE  record'.account \in {Nothing, name'[h]}
  BY <1>24
    DEF TypeOK, NameInv, Records, SendEnds, CallEnds, shared, main, session, popups,
        history
<1>25. ASSUME NEW g \in Gates, End(g)
       PROVE  record'.account \in {Nothing, name'[h]}
  BY <1>25
    DEF TypeOK, NameInv, Records, End, CallEnds, shared, main, session, popups, history
<1>26. CASE UNCHANGED vars
  BY <1>26 DEF NameInv, vars, shared, main, session, popups, history
<1> QED
  BY <1>1, <1>2, <1>3, <1>4, <1>5, <1>6, <1>7, <1>8, <1>9, <1>10, <1>11, <1>12, <1>13,
    <1>14, <1>15, <1>16, <1>17, <1>18, <1>19, <1>20, <1>21, <1>22, <1>23, <1>24, <1>25,
    <1>26
  DEF Next, Starting, Saving, Timer, Answer

-----------------------------------------------------------------------------
(* Whose an address is. *)

\* At first nobody has come further than to be launched, or there is no old one.
LEMMA InitOwn == OldIsNamed /\ Init => OwnInv
<1> SUFFICES ASSUME OldIsNamed, Init
             PROVE  OwnInv
  OBVIOUS
<1>1. CASE record = Blank /\ saved = [g \in Gates |-> Nothing]
  BY <1>1 DEF Init, OwnInv, Counted
<1>2. CASE /\ record \in {Old(n, c) : n \in OldNames, c \in OldConfirmed}
           /\ saved \in [Gates -> OldNames \cup {Nothing}]
           /\ \A g, h \in Gates : g # h /\ saved[g] # Nothing => saved[g] # saved[h]
  <2>1. record.confirmed
    <3>1. PICK n \in OldNames, c \in OldConfirmed : record = Old(n, c)
      BY <1>2
    <3>2. c = TRUE
      BY GateSetupAssumption, Zenon DEF OldIsNamed
    <3> QED BY <3>1, <3>2 DEF Old
  <2>2. \A g \in Gates : own[g] # Nothing => Len(own[g]) > 1 /\ Last(own[g]) \in Nat
    BY <1>2, GivenNames DEF Init
  <2> QED BY <1>2, <2>1, <2>2 DEF Init, OwnInv, Unlifted
<1> QED BY <1>1, <1>2 DEF Init

\* Numbers and addresses that are given stay apart while the counter only grows.
LEMMA OwnFrame ==
  ASSUME TypeInv, OwnInv, UNCHANGED <<own, number>>, record'.counter \in Nat,
         record.counter <= record'.counter, (Counted \/ Unlifted)'
  PROVE  OwnInv'
<1>1. record.counter \in Nat /\ \A g \in Gates : number[g] \in Nat
  BY DEF TypeInv, TypeOK, Records
<1> QED BY <1>1 DEF OwnInv

\* The counter is lifted over every address of old.
LEMMA OwnLift ==
  ASSUME TypeInv, OwnInv, LiftCounter, UNCHANGED <<own, number>>
  PROVE  OwnInv'
<1>1. PICK n \in Nat : /\ record' = [record EXCEPT !.counter = n]
                       /\ record.counter <= n
                       /\ \A g \in Gates : saved[g] # Nothing /\ Len(saved[g]) > 1
                            => Last(saved[g]) <= n
  BY LiftFacts
<1>2. record'.counter = n /\ record.counter \in Nat
  BY <1>1 DEF TypeInv, TypeOK, Records
<1>3. \A g \in Gates : own[g] # Nothing => Last(own[g]) \in Nat /\ Last(own[g]) <= n
  BY <1>1, <1>2 DEF OwnInv, Counted, Unlifted
<1> QED BY <1>1, <1>2, <1>3, OwnFrame DEF Counted

\* No action gives an address, or an ordinal, twice.
LEMMA StepOwn == TypeInv /\ StageInv /\ OwnInv /\ [Next]_vars => OwnInv'
<1> SUFFICES ASSUME TypeInv, StageInv, OwnInv, [Next]_vars
             PROVE  OwnInv'
  OBVIOUS
<1>a. record.counter \in Nat
  BY DEF TypeInv, TypeOK, Records
<1>1. ASSUME NEW g \in Gates, Launch(g)
       PROVE  OwnInv'
  <2>1. UNCHANGED <<own, number>> /\ record'.counter = record.counter
    BY <1>1 DEF TypeInv, TypeOK, Records, Launch, shared, main, session, popups, history
  <2>2. (Counted \/ Unlifted)'
    BY <1>1, <2>1
      DEF TypeInv, TypeOK, Records, OwnInv, Counted, Unlifted, Launch, shared, main,
          session, popups, history
  <2> QED BY <1>a, <2>1, <2>2, OwnFrame
<1>2. ASSUME NEW g \in Gates, Seed(g)
       PROVE  OwnInv'
  BY <1>2, OwnLift DEF Seed, history
<1>3. ASSUME NEW g \in Gates, Resume(g)
       PROVE  OwnInv'
  <2>1. UNCHANGED <<own, number>> /\ record'.counter = record.counter
    BY <1>3 DEF TypeInv, TypeOK, Records, Resume, shared, main, session, popups, history
  <2>2. (Counted \/ Unlifted)'
    BY <1>3, <2>1
      DEF TypeInv, TypeOK, Records, OwnInv, Counted, Unlifted, Resume, shared, main,
          session, popups, history
  <2> QED BY <1>a, <2>1, <2>2, OwnFrame
<1>4. ASSUME NEW g \in Gates, TakeOrdinal(g)
       PROVE  OwnInv'
  <2>1. Counted /\ number[g] = 0
    BY <1>4 DEF TypeInv, TypeOK, ShapeInv, OwnInv, Unlifted, TakeOrdinal
  <2>2. /\ record'.counter = record.counter + 1
        /\ number' = [number EXCEPT ![g] = record.counter + 1]
        /\ own' = own
    BY <1>4 DEF TypeInv, TypeOK, Records, TakeOrdinal, history
  <2>3. \A h \in Gates : number[h] \in Nat /\ number[h] <= record.counter
    BY <1>a DEF TypeInv, TypeOK, OwnInv
  <2>4. \A h \in Gates : own[h] # Nothing
          => Last(own[h]) \in Nat /\ Last(own[h]) <= record.counter
    BY <2>1 DEF OwnInv, Counted
  <2>5. Counted'
    BY <1>a, <2>2, <2>4 DEF Counted
  <2>6. \A h \in Gates : number'[h] # 0 =>
          /\ number'[h] <= record'.counter
          /\ \A k \in Gates :
               /\ own'[k] # Nothing => Last(own'[k]) # number'[h]
               /\ k # h => number'[k] # number'[h]
    <3>1. number'[g] = record.counter + 1 /\ \A k \in Gates \ {g} : number'[k] = number[k]
      BY <2>2 DEF TypeInv, TypeOK
    <3> QED BY <1>a, <2>2, <2>3, <2>4, <3>1 DEF OwnInv
  <2> QED BY <2>2, <2>5, <2>6 DEF OwnInv
<1>5. ASSUME NEW g \in Gates, Adopt(g)
       PROVE  OwnInv'
  <2>1. CASE number[g] = 0
    <3>1. UNCHANGED <<own, number>> /\ record'.counter = record.counter
      BY <1>5, <2>1 DEF TypeInv, TypeOK, Adopt
    <3>2. Counted'
      BY <1>5, <3>1 DEF OwnInv, Counted, Unlifted, Adopt
    <3> QED BY <1>a, <3>1, <3>2, OwnFrame
  <2>2. CASE number[g] # 0
    <3> DEFINE a == Append(AccountName, number[g])
    <3>1. a # Nothing /\ Len(a) > 1 /\ Last(a) = number[g] /\ number[g] \in Nat
      <4>1. number[g] \in Nat
        BY DEF TypeInv, TypeOK
      <4> QED BY <4>1, AppendNames, AccountFacts, GivenNames
    <3> HIDE DEF a
    <3>2. /\ own' = [own EXCEPT ![g] = a]
          /\ number' = [number EXCEPT ![g] = 0]
          /\ record' = record
      BY <1>5, <2>2 DEF Adopt, a
    <3>3. /\ own'[g] = a /\ \A h \in Gates \ {g} : own'[h] = own[h]
          /\ number'[g] = 0 /\ \A h \in Gates \ {g} : number'[h] = number[h]
      BY <3>2 DEF TypeInv, TypeOK
    <3>4. Counted
      BY <1>5 DEF OwnInv, Unlifted, Adopt
    <3>5. Counted'
      BY <2>2, <3>1, <3>2, <3>3, <3>4 DEF OwnInv, Counted
    <3> QED BY <2>2, <3>1, <3>2, <3>3, <3>5 DEF OwnInv
  <2> QED BY <2>1, <2>2
<1>6. ASSUME NEW g \in Gates, Offer(g)
       PROVE  OwnInv'
  <2>1. UNCHANGED <<own, number>> /\ record'.counter = record.counter
    BY <1>6 DEF TypeInv, TypeOK, Records, Offer, shared, main, session, popups, history
  <2>2. (Counted \/ Unlifted)'
    BY <1>6, <2>1
      DEF TypeInv, TypeOK, Records, OwnInv, Counted, Unlifted, Offer, shared, main,
          session, popups, history
  <2> QED BY <1>a, <2>1, <2>2, OwnFrame
<1>7. ASSUME NEW g \in Gates, OfferMigration(g)
       PROVE  OwnInv'
  <2>1. UNCHANGED <<own, number>> /\ record'.counter = record.counter
    BY <1>7
      DEF TypeInv, TypeOK, Records, OfferMigration, shared, main, session, popups,
          history
  <2>2. (Counted \/ Unlifted)'
    BY <1>7, <2>1
      DEF TypeInv, TypeOK, Records, OwnInv, Counted, Unlifted, OfferMigration, shared,
          main, session, popups, history
  <2> QED BY <1>a, <2>1, <2>2, OwnFrame
<1>8. ASSUME NEW g \in Gates, NEW a \in {"accept", "decline", "dismiss"}, MigrationReply(g, a)
       PROVE  OwnInv'
  <2>1. UNCHANGED <<own, number>> /\ record'.counter = record.counter
    BY <1>8
      DEF TypeInv, TypeOK, Records, MigrationReply, Listening, shared, main, session,
          popups, history
  <2>2. (Counted \/ Unlifted)'
    BY <1>8, <2>1
      DEF TypeInv, TypeOK, Records, OwnInv, Counted, Unlifted, MigrationReply,
          Listening, shared, main, session, popups, history
  <2> QED BY <1>a, <2>1, <2>2, OwnFrame
<1>9. ASSUME NEW g \in Gates, Record(g)
       PROVE  OwnInv'
  <2>1. UNCHANGED <<own, number>> /\ record'.counter = record.counter
    BY <1>9
      DEF TypeInv, TypeOK, Records, Record, NewAccount, shared, main, session, popups,
          history
  <2>2. (Counted \/ Unlifted)'
    BY <1>9, <2>1
      DEF TypeInv, TypeOK, Records, OwnInv, Counted, Unlifted, Record, NewAccount,
          shared, main, session, popups, history
  <2> QED BY <1>a, <2>1, <2>2, OwnFrame
<1>10. ASSUME NEW g \in Gates, MigrationTimeout(g)
       PROVE  OwnInv'
  <2>1. CASE "migration" \in pending[g]
    BY <1>10, <2>1, OwnLift DEF MigrationTimeout, main
  <2>2. CASE "migration" \notin pending[g]
    <3>1. UNCHANGED <<own, number>> /\ record'.counter = record.counter
      BY <1>10, <2>2 DEF MigrationTimeout, main
    <3>2. (Counted \/ Unlifted)'
      BY <1>10, <2>2
        DEF TypeInv, TypeOK, OwnInv, Counted, Unlifted, MigrationTimeout, shared, main,
            session, popups, history
    <3> QED BY <1>a, <3>1, <3>2, OwnFrame
  <2> QED BY <2>1, <2>2
<1>11. ASSUME NEW g \in Gates, OfferNaming(g)
       PROVE  OwnInv'
  <2>1. UNCHANGED <<own, number>> /\ record'.counter = record.counter
    BY <1>11
      DEF TypeInv, TypeOK, Records, OfferNaming, shared, main, session, popups, history
  <2>2. (Counted \/ Unlifted)'
    BY <1>11, <2>1
      DEF TypeInv, TypeOK, Records, OwnInv, Counted, Unlifted, OfferNaming, shared,
          main, session, popups, history
  <2> QED BY <1>a, <2>1, <2>2, OwnFrame
<1>12. ASSUME NEW g \in Gates, NamingFails(g)
       PROVE  OwnInv'
  <2>1. UNCHANGED <<own, number>> /\ record'.counter = record.counter
    BY <1>12
      DEF TypeInv, TypeOK, Records, NamingFails, NamingAnswered, Listening, shared,
          main, session, popups, history
  <2>2. (Counted \/ Unlifted)'
    BY <1>12, <2>1
      DEF TypeInv, TypeOK, Records, OwnInv, Counted, Unlifted, NamingFails,
          NamingAnswered, Listening, shared, main, session, popups, history
  <2> QED BY <1>a, <2>1, <2>2, OwnFrame
<1>13. ASSUME NEW g \in Gates, NamingDeclined(g)
       PROVE  OwnInv'
  <2>1. UNCHANGED <<own, number>> /\ record'.counter = record.counter
    BY <1>13
      DEF TypeInv, TypeOK, Records, NamingDeclined, NamingAnswered, Listening, shared,
          main, session, popups, history
  <2>2. (Counted \/ Unlifted)'
    BY <1>13, <2>1
      DEF TypeInv, TypeOK, Records, OwnInv, Counted, Unlifted, NamingDeclined,
          NamingAnswered, Listening, shared, main, session, popups, history
  <2> QED BY <1>a, <2>1, <2>2, OwnFrame
<1>14. ASSUME NEW g \in Gates, NamingRejected(g)
       PROVE  OwnInv'
  <2>1. UNCHANGED <<own, number>> /\ record'.counter = record.counter
    BY <1>14
      DEF TypeInv, TypeOK, Records, NamingRejected, NamingAnswered, Listening,
          TakeAddress, shared, main, session, popups, history
  <2>2. (Counted \/ Unlifted)'
    BY <1>14, <2>1
      DEF TypeInv, TypeOK, Records, OwnInv, Counted, Unlifted, NamingRejected,
          NamingAnswered, Listening, TakeAddress, shared, main, session, popups, history
  <2> QED BY <1>a, <2>1, <2>2, OwnFrame
<1>15. ASSUME NEW g \in Gates, NEW n \in Typed, NamingAccepted(g, n)
       PROVE  OwnInv'
  <2>1. UNCHANGED <<own, number>> /\ record'.counter = record.counter
    BY <1>15
      DEF TypeInv, TypeOK, Records, NamingAccepted, NamingAnswered, Listening, shared,
          main, session, popups, history
  <2>2. (Counted \/ Unlifted)'
    BY <1>15, <2>1
      DEF TypeInv, TypeOK, Records, OwnInv, Counted, Unlifted, NamingAccepted,
          NamingAnswered, Listening, shared, main, session, popups, history
  <2> QED BY <1>a, <2>1, <2>2, OwnFrame
<1>16. ASSUME NEW g \in Gates, SetIdentity(g)
       PROVE  OwnInv'
  <2>1. UNCHANGED <<own, number>> /\ record'.counter = record.counter
    BY <1>16
      DEF TypeInv, TypeOK, Records, SetIdentity, shared, main, session, popups, history
  <2>2. (Counted \/ Unlifted)'
    BY <1>16, <2>1
      DEF TypeInv, TypeOK, Records, OwnInv, Counted, Unlifted, SetIdentity, shared,
          main, session, popups, history
  <2> QED BY <1>a, <2>1, <2>2, OwnFrame
<1>17. ASSUME NEW g \in Gates, NEW n \in Typed, RenameAccepted(g, n)
       PROVE  OwnInv'
  <2>1. UNCHANGED <<own, number>> /\ record'.counter = record.counter
    BY <1>17
      DEF TypeInv, TypeOK, Records, RenameAccepted, shared, main, session, popups,
          history
  <2>2. (Counted \/ Unlifted)'
    BY <1>17, <2>1
      DEF TypeInv, TypeOK, Records, OwnInv, Counted, Unlifted, RenameAccepted, shared,
          main, session, popups, history
  <2> QED BY <1>a, <2>1, <2>2, OwnFrame
<1>18. ASSUME NEW g \in Gates, RenameRefused(g)
       PROVE  OwnInv'
  <2>1. UNCHANGED <<own, number>> /\ record'.counter = record.counter
    BY <1>18
      DEF TypeInv, TypeOK, Records, RenameRefused, CallEnds, shared, main, session,
          popups, history
  <2>2. (Counted \/ Unlifted)'
    BY <1>18, <2>1
      DEF TypeInv, TypeOK, Records, OwnInv, Counted, Unlifted, RenameRefused, CallEnds,
          shared, main, session, popups, history
  <2> QED BY <1>a, <2>1, <2>2, OwnFrame
<1>19. ASSUME NEW g \in Gates, SaveId(g)
       PROVE  OwnInv'
  <2>1. UNCHANGED <<own, number>> /\ record'.counter = record.counter
    BY <1>19
      DEF TypeInv, TypeOK, Records, SaveId, shared, main, session, popups, history
  <2>2. (Counted \/ Unlifted)'
    BY <1>19, <2>1
      DEF TypeInv, TypeOK, Records, OwnInv, Counted, Unlifted, SaveId, shared, main,
          session, popups, history
  <2> QED BY <1>a, <2>1, <2>2, OwnFrame
<1>20. ASSUME NEW g \in Gates, SaveIdFails(g)
       PROVE  OwnInv'
  <2>1. UNCHANGED <<own, number>> /\ record'.counter = record.counter
    BY <1>20
      DEF TypeInv, TypeOK, Records, SaveIdFails, CallEnds, shared, main, session,
          popups, history
  <2>2. (Counted \/ Unlifted)'
    BY <1>20, <2>1
      DEF TypeInv, TypeOK, Records, OwnInv, Counted, Unlifted, SaveIdFails, CallEnds,
          shared, main, session, popups, history
  <2> QED BY <1>a, <2>1, <2>2, OwnFrame
<1>21. ASSUME NEW g \in Gates, SaveName(g)
       PROVE  OwnInv'
  <2>1. UNCHANGED <<own, number>> /\ record'.counter = record.counter
    BY <1>21
      DEF TypeInv, TypeOK, Records, SaveName, NewAccount, shared, main, session, popups,
          history
  <2>2. (Counted \/ Unlifted)'
    BY <1>21, <2>1
      DEF TypeInv, TypeOK, Records, OwnInv, Counted, Unlifted, SaveName, NewAccount,
          shared, main, session, popups, history
  <2> QED BY <1>a, <2>1, <2>2, OwnFrame
<1>22. ASSUME NEW g \in Gates, Repin(g)
       PROVE  OwnInv'
  <2>1. UNCHANGED <<own, number>> /\ record'.counter = record.counter
    BY <1>22
      DEF TypeInv, TypeOK, Records, Repin, PinnedBack, TakeAddress, CallEnds, shared,
          main, session, popups, history
  <2>2. (Counted \/ Unlifted)'
    BY <1>22, <2>1
      DEF TypeInv, TypeOK, Records, OwnInv, Counted, Unlifted, Repin, PinnedBack,
          TakeAddress, CallEnds, shared, main, session, popups, history
  <2> QED BY <1>a, <2>1, <2>2, OwnFrame
<1>23. ASSUME NEW g \in Gates, Send(g)
       PROVE  OwnInv'
  <2>1. UNCHANGED <<own, number>> /\ record'.counter = record.counter
    BY <1>23
      DEF TypeInv, TypeOK, Records, Send, shared, main, session, popups,
          history
  <2>2. (Counted \/ Unlifted)'
    BY <1>23, <2>1
      DEF TypeInv, TypeOK, Records, OwnInv, Counted, Unlifted, Send, shared,
          main, session, popups, history
  <2> QED BY <1>a, <2>1, <2>2, OwnFrame
<1>24. ASSUME NEW g \in Gates, SendEnds(g)
       PROVE  OwnInv'
  <2>1. UNCHANGED <<own, number>> /\ record'.counter = record.counter
    BY <1>24
      DEF TypeInv, TypeOK, Records, SendEnds, CallEnds, shared, main, session, popups,
          history
  <2>2. (Counted \/ Unlifted)'
    BY <1>24, <2>1
      DEF TypeInv, TypeOK, Records, OwnInv, Counted, Unlifted, SendEnds, CallEnds,
          shared, main, session, popups, history
  <2> QED BY <1>a, <2>1, <2>2, OwnFrame
<1>25. ASSUME NEW g \in Gates, End(g)
       PROVE  OwnInv'
  <2>1. own' = own /\ record' = record /\ (Counted \/ Unlifted)'
    BY <1>25
      DEF TypeInv, TypeOK, OwnInv, Counted, Unlifted, End, CallEnds, shared, main,
          session, popups, history
  <2>2. number' = [number EXCEPT ![g] = 0]
    BY <1>25 DEF End, CallEnds
  <2>3. number'[g] = 0 /\ \A h \in Gates \ {g} : number'[h] = number[h]
    BY <2>2 DEF TypeInv, TypeOK
  <2> QED BY <2>1, <2>3 DEF OwnInv
<1>26. CASE UNCHANGED vars
  BY <1>26 DEF OwnInv, Counted, Unlifted, vars, shared, main, session, popups, history
<1> QED
  BY <1>1, <1>2, <1>3, <1>4, <1>5, <1>6, <1>7, <1>8, <1>9, <1>10, <1>11, <1>12, <1>13,
    <1>14, <1>15, <1>16, <1>17, <1>18, <1>19, <1>20, <1>21, <1>22, <1>23, <1>24, <1>25,
    <1>26
  DEF Next, Starting, Saving, Timer, Answer

-----------------------------------------------------------------------------
(* The theorems. *)

LEMMA Inductive == Spec => []IInv
<1>1. Init => IInv
  BY InitTyped, InitStage DEF Init, NameInv, IInv
<1>2. IInv /\ [Next]_vars => IInv'
  BY StepTyped, StepStage, StepName DEF IInv
<1> QED BY <1>1, <1>2, PTL DEF Spec

\* Whatever the popups, timers and tool calls of the sessions do to each other,
\* the variables have their types, a session with a migration popup is
\* addressable, and no main thread saves a name or adopts an address it has not.
THEOREM TypeCorrect == Spec => []TypeOK
<1>1. IInv => TypeOK
  BY DEF IInv, TypeInv
<1> QED BY <1>1, Inductive, PTL

\* resume_or_assign_session_id and seed_counter_from_records: no two sessions
\* have one address as their own, however the account is renamed between the
\* taking of an ordinal and its use, and whatever ordinals a named device of an
\* older version has left.
THEOREM OnlyFallback == OldIsNamed /\ Spec => []OnlyFallbackShares
<1>1. OldIsNamed /\ Init => OwnInv
  BY InitOwn
<1>2. IInv /\ OwnInv /\ [Next]_vars => OwnInv'
  BY StepOwn DEF IInv
<1>3. IInv /\ OwnInv => OnlyFallbackShares
  BY DEF IInv, OwnInv, OnlyFallbackShares, Answers
<1> QED BY <1>1, <1>2, <1>3, Inductive, PTL DEF Spec

\* Five actions change whom a session answers to for itself.
LEMMA SessionChanges ==
  ASSUME TypeInv, [Next]_vars, NEW g \in Gates
  PROVE  \/ adopted'[g] = adopted[g] /\ declined'[g] = declined[g]
         \/ Adopt(g) \/ NamingDeclined(g) \/ NamingRejected(g) \/ Repin(g) \/ End(g)
<1> DEFINE Kept(h) == adopted'[h] = adopted[h] /\ declined'[h] = declined[h]
           Others(h) == \A k \in Gates \ {h} : Kept(k)
<1> USE DEF TypeInv, TypeOK
<1>1. ASSUME NEW h \in Gates, Launch(h)
       PROVE  Kept(g)
  BY <1>1 DEF Launch, shared, main, session, popups, history
<1>2. ASSUME NEW h \in Gates, Seed(h)
       PROVE  Kept(g)
  BY <1>2 DEF Seed, AfterSeed, shared, main, session, popups, history
<1>3. ASSUME NEW h \in Gates, Resume(h)
       PROVE  Kept(g)
  BY <1>3 DEF Resume, shared, main, session, popups, history
<1>4. ASSUME NEW h \in Gates, TakeOrdinal(h)
       PROVE  Kept(g)
  BY <1>4 DEF TakeOrdinal, shared, main, session, popups, history
<1>5. ASSUME NEW h \in Gates, Adopt(h)
       PROVE  Others(h)
  BY <1>5 DEF Adopt, TakeAddress, shared, main, session, popups, history
<1>6. ASSUME NEW h \in Gates, Offer(h)
       PROVE  Kept(g)
  BY <1>6 DEF Offer, shared, main, session, popups, history
<1>7. ASSUME NEW h \in Gates, OfferMigration(h)
       PROVE  Kept(g)
  BY <1>7 DEF OfferMigration, shared, main, session, popups, history
<1>8. ASSUME NEW h \in Gates, NEW a \in {"accept", "decline", "dismiss"}, MigrationReply(h, a)
       PROVE  Kept(g)
  BY <1>8 DEF MigrationReply, Listening, shared, main, session, popups, history
<1>9. ASSUME NEW h \in Gates, Record(h)
       PROVE  Kept(g)
  BY <1>9 DEF Record, NewAccount, shared, main, session, popups, history
<1>10. ASSUME NEW h \in Gates, MigrationTimeout(h)
       PROVE  Kept(g)
  BY <1>10 DEF MigrationTimeout, shared, main, session, popups, history
<1>11. ASSUME NEW h \in Gates, OfferNaming(h)
       PROVE  Kept(g)
  BY <1>11 DEF OfferNaming, shared, main, session, popups, history
<1>12. ASSUME NEW h \in Gates, NamingFails(h)
       PROVE  Kept(g)
  BY <1>12
    DEF NamingFails, NamingAnswered, Listening, shared, main, session, popups, history
<1>13. ASSUME NEW h \in Gates, NamingDeclined(h)
       PROVE  Others(h)
  BY <1>13
    DEF NamingDeclined, NamingAnswered, Listening, shared, main, session, popups,
        history
<1>14. ASSUME NEW h \in Gates, NamingRejected(h)
       PROVE  Others(h)
  BY <1>14
    DEF NamingRejected, NamingAnswered, Listening, TakeAddress, shared, main, session,
        popups, history
<1>15. ASSUME NEW h \in Gates, NEW n \in Typed, NamingAccepted(h, n)
       PROVE  Kept(g)
  BY <1>15
    DEF NamingAccepted, NamingAnswered, Listening, shared, main, session, popups,
        history
<1>16. ASSUME NEW h \in Gates, SetIdentity(h)
       PROVE  Kept(g)
  BY <1>16 DEF SetIdentity, shared, main, session, popups, history
<1>17. ASSUME NEW h \in Gates, NEW n \in Typed, RenameAccepted(h, n)
       PROVE  Kept(g)
  BY <1>17 DEF RenameAccepted, shared, main, session, popups, history
<1>18. ASSUME NEW h \in Gates, RenameRefused(h)
       PROVE  Kept(g)
  BY <1>18 DEF RenameRefused, CallEnds, shared, main, session, popups, history
<1>19. ASSUME NEW h \in Gates, SaveId(h)
       PROVE  Kept(g)
  BY <1>19 DEF SaveId, shared, main, session, popups, history
<1>20. ASSUME NEW h \in Gates, SaveIdFails(h)
       PROVE  Kept(g)
  BY <1>20 DEF SaveIdFails, CallEnds, shared, main, session, popups, history
<1>21. ASSUME NEW h \in Gates, SaveName(h)
       PROVE  Kept(g)
  BY <1>21 DEF SaveName, NewAccount, shared, main, session, popups, history
<1>22. ASSUME NEW h \in Gates, Repin(h)
       PROVE  Others(h)
  BY <1>22
    DEF Repin, PinnedBack, TakeAddress, CallEnds, shared, main, session, popups, history
<1>23. ASSUME NEW h \in Gates, Send(h)
       PROVE  Kept(g)
  BY <1>23 DEF Send, shared, main, session, popups, history
<1>24. ASSUME NEW h \in Gates, SendEnds(h)
       PROVE  Kept(g)
  BY <1>24 DEF SendEnds, CallEnds, shared, main, session, popups, history
<1>25. ASSUME NEW h \in Gates, End(h)
       PROVE  Others(h)
  BY <1>25 DEF End, CallEnds, shared, main, session, popups, history
<1>26. CASE UNCHANGED vars
  BY <1>26 DEF vars, shared, main, session, popups, history
<1> QED
  BY <1>1, <1>2, <1>3, <1>4, <1>5, <1>6, <1>7, <1>8, <1>9, <1>10, <1>11, <1>12, <1>13,
    <1>14, <1>15, <1>16, <1>17, <1>18, <1>19, <1>20, <1>21, <1>22, <1>23, <1>24, <1>25,
    <1>26
  DEF Next, Starting, Saving, Timer, Answer

\* "Pin this session back onto its pre-rename address" (do_set_identity,
\* _finish_identity_setup): an address outlives the renames of others, timers and
\* failed writes, and its own session's renames unless the naming popup was
\* answered inside their prompt; a nameless answer to that popup replaces it.
THEOREM StableAddress == Spec => AddressIsStable
<1> DEFINE P(g) == adopted[g] # Nothing /\ job'[g] # "off" /\ adopted'[g] # adopted[g]
                     => g \in crossed \/ NamingRejected(g)
<1>1. ASSUME IInv, [Next]_vars, NEW g \in Gates
      PROVE  P(g)
  <2> USE <1>1 DEF IInv
  <2> SUFFICES ASSUME adopted[g] # Nothing, job'[g] # "off", adopted'[g] # adopted[g],
                      g \notin crossed
               PROVE  NamingRejected(g)
    OBVIOUS
  <2>1. Stage(g) /\ saved[g] = adopted[g]
    BY DEF StageInv, TypeInv, ShapeInv
  <2>2. ~Adopt(g)
    BY <2>1 DEF TypeInv, TypeOK, ShapeInv, Adopt, TakeAddress
  <2>3. ~NamingDeclined(g)
    BY DEF NamingDeclined
  <2>4. ~Repin(g)
    <3>1. SUFFICES ASSUME Repin(g)
                   PROVE  FALSE
      OBVIOUS
    <3>2. call[g].before = adopted[g]
      BY <2>1, <3>1 DEF Repin, TypeInv, ShapeInv, Renaming, Stage, InCall
    <3> QED BY <3>1, <3>2 DEF TypeInv, TypeOK, Repin, PinnedBack, TakeAddress
  <2>5. ~End(g)
    BY DEF End, TypeInv, TypeOK
  <2> QED BY <2>2, <2>3, <2>4, <2>5, SessionChanges
<1>2. IInv /\ [Next]_vars => [\A g \in Gates : P(g)]_vars
  BY <1>1
<1> QED BY <1>2, Inductive, PTL DEF Spec, AddressIsStable

\* apply_account_migration and _migration_timeout: an answer that comes after its
\* timeout records nothing, and none takes back a name that was on record when
\* the session looked.
THEOREM FirstDecision == Spec => DecisionStands
<1> DEFINE P(g) == Record(g) /\ record'.account # record.account
                     => g \notin late /\ (record.account = Nothing \/ g \in overtaken)
<1>1. ASSUME IInv, NEW g \in Gates
      PROVE  P(g)
  <2> USE <1>1 DEF IInv
  <2> SUFFICES ASSUME Record(g), record'.account # record.account
               PROVE  g \notin late /\ (record.account = Nothing \/ g \in overtaken)
    OBVIOUS
  <2>1. job[g] = "recording" /\ name[g] # Nothing /\ record'.account = name[g]
    BY DEF Record, NewAccount, TypeInv, TypeOK, Records
  <2>2. g \notin late
    BY <2>1 DEF StageInv, Stage, FirstRun, Named
  <2>3. record.account = Nothing \/ g \in overtaken
    BY <2>1 DEF NameInv
  <2> QED BY <2>2, <2>3
<1>2. IInv => [\A g \in Gates : P(g)]_vars
  BY <1>1
<1> QED BY <1>2, Inductive, PTL DEF DecisionStands

=============================================================================
