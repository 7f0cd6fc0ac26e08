---------------------------- MODULE SessionsProofs ----------------------------
(***************************************************************************)
(* Sessions for every set of sessions, processes and pids: its types, that *)
(* addresses are private and permanent, and that the primary slot is taken *)
(* and kept by claiming it.                                                *)
(***************************************************************************)
EXTENDS Sessions, TLAPS

Addressed == {"numbered", "assigned", "registered", "claiming", "running"}

\* A process that was launched has a session and a pid, and an address once it
\* has come that far; no two that are alive have the same session or pid.
Launched ==
  /\ \A p \in Procs : at[p] \in Addressed => address[p] \in Nat
  /\ \A p \in Procs : at[p] # "unborn" => serves[p] \in Claudes /\ pid[p] \in Pids
  /\ \A p, o \in Procs : p # o /\ Alive(p) /\ Alive(o) =>
       serves[p] # serves[o] /\ pid[p] # pid[o]

TypeInv == TypeOK /\ Launched

\* Launched and TypeOK hold at first.
LEMMA InitTyped == Init => TypeInv
BY SessionsAssumption
DEF Init, TypeInv, TypeOK, Launched, Addressed, Alive, Starting, Records, Old

\* Every action keeps the types and the launching discipline.
LEMMA StepTyped == TypeInv /\ [Next]_vars => TypeInv'
<1> SUFFICES ASSUME TypeInv, [Next]_vars PROVE TypeInv'
  OBVIOUS
<1> USE SessionsAssumption
    DEF TypeInv, TypeOK, Launched, Addressed, Alive, Starting, Records
<1>1. CASE UNCHANGED vars
  BY <1>1 DEF vars
<1>2. ASSUME NEW p \in Procs, NEW k \in Claudes, NEW q \in Pids, Launch(p, k, q)
      PROVE TypeInv'
  BY <1>2 DEF Launch
<1>3. ASSUME NEW p \in Procs, Scan(p) PROVE TypeInv'
  BY <1>3 DEF Scan, Recorded
<1>4. ASSUME NEW p \in Procs, Seed(p) PROVE TypeInv'
  BY <1>4 DEF Seed, Lifted
<1>5. ASSUME NEW p \in Procs, Resume(p) PROVE TypeInv'
  BY <1>5 DEF Resume
<1>6. ASSUME NEW p \in Procs, TakeOrdinal(p) PROVE TypeInv'
  BY <1>6 DEF TakeOrdinal
<1>7. ASSUME NEW p \in Procs, RegisterNew(p) PROVE TypeInv'
  <2>1. /\ serves[p] \in Claudes
        /\ \A o \in Procs \ {p} : Alive(o) => serves[o] # serves[p]
    BY <1>7 DEF RegisterNew
  <2>2. records' = [records EXCEPT ![serves[p]] = records'[serves[p]]]
    BY <1>7, <2>1 DEF RegisterNew, Registered
  <2>a. Carries(p) \in BOOLEAN
    BY DEF Carries
  <2>3. records'[serves[p]] \in Records
    BY <1>7, <2>1, <2>a DEF RegisterNew, Registered
  <2>4. at'[p] = "assigned"
    BY <1>7 DEF RegisterNew
  <2> QED
    BY <1>7, <2>1, <2>2, <2>3, <2>4 DEF RegisterNew
<1>8. ASSUME NEW p \in Procs, Register(p) PROVE TypeInv'
  <2>1. /\ serves[p] \in Claudes
        /\ \A o \in Procs \ {p} : Alive(o) => serves[o] # serves[p]
    BY <1>8 DEF Register
  <2>2. records' = [records EXCEPT ![serves[p]] = records'[serves[p]]]
    BY <1>8, <2>1 DEF Register, Registered
  <2>a. Carries(p) \in BOOLEAN
    BY DEF Carries
  <2>3. records'[serves[p]] \in Records
    BY <1>8, <2>1, <2>a DEF Register, Registered
  <2>4. records'[serves[p]].agent = address[p] /\ records'[serves[p]].start = p
    BY <1>8, <2>1 DEF Register, Registered
  <2> QED
    BY <1>8, <2>1, <2>2, <2>3, <2>4 DEF Register
<1>9. ASSUME NEW p \in Procs, LookForPrimary(p) PROVE TypeInv'
  BY <1>9 DEF LookForPrimary
<1>10. ASSUME NEW p \in Procs, Claim(p) PROVE TypeInv'
  <2>1. /\ serves[p] \in Claudes
        /\ \A o \in Procs \ {p} : Alive(o) => serves[o] # serves[p]
    BY <1>10 DEF Claim
  <2>2. records' = [records EXCEPT ![serves[p]] = records'[serves[p]]]
    BY <1>10, <2>1 DEF Claim
  <2>a. records[serves[p]] \in Records
    BY <1>10, <2>1 DEF Claim
  <2>b. records'[serves[p]] = [records[serves[p]] EXCEPT !.primary = TRUE]
    BY <1>10, <2>1 DEF Claim
  <2>3. records'[serves[p]] \in Records
    BY ONLY <2>a, <2>b DEF Records
  <2>4. records'[serves[p]].agent = address[p] /\ records'[serves[p]].start = p
    <3>1. records[serves[p]].agent = address[p] /\ records[serves[p]].start = p
      BY <1>10 DEF Claim
    <3> QED
      BY ONLY <2>a, <2>b, <3>1 DEF Records
  <2>5. /\ at[p] = "claiming"
        /\ at' = [at EXCEPT ![p] = "running"]
        /\ claimed' = claimed \cup {p}
        /\ UNCHANGED <<counter, serves, pid, address, high, together>>
    BY <1>10 DEF Claim
  <2> QED
    BY <2>1, <2>2, <2>3, <2>4, <2>5
<1>11. ASSUME NEW p \in Procs, AdoptAgain(p) PROVE TypeInv'
  BY <1>11 DEF AdoptAgain
<1>12. ASSUME NEW p \in Procs, Exit(p) PROVE TypeInv'
  <2>1. /\ serves[p] \in Claudes
        /\ \A o \in Procs \ {p} : Alive(o) => serves[o] # serves[p]
    BY <1>12 DEF Exit
  <2>2. records' = [records EXCEPT ![serves[p]] = records'[serves[p]]]
    BY <1>12, <2>1 DEF Exit, Unregistered
  <2>a. records[serves[p]] \in Records
    BY <1>12, <2>1 DEF Exit
  <2>b. records'[serves[p]] = [records[serves[p]] EXCEPT
           !.pid = Nothing, !.start = Nothing, !.primary = FALSE]
    BY <1>12, <2>1 DEF Exit, Unregistered
  <2>3. records'[serves[p]] \in Records
    BY ONLY <2>a, <2>b DEF Records
  <2>4. at'[p] = "gone"
    BY <1>12 DEF Exit
  <2> QED
    BY <1>12, <2>1, <2>2, <2>3, <2>4 DEF Exit
<1>13. ASSUME NEW p \in Procs, Crash(p) PROVE TypeInv'
  BY <1>13 DEF Crash
<1> QED
  BY <1>1, <1>2, <1>3, <1>4, <1>5, <1>6, <1>7, <1>8, <1>9, <1>10, <1>11, <1>12,
     <1>13
     DEF Next, Advance

\* The types of Sessions; from "registered" on, a session's record is that of
\* the process that serves it.
THEOREM TypeCorrect == Spec => []TypeOK
<1>1. Spec => []TypeInv
  BY InitTyped, StepTyped, PTL DEF Spec
<1> QED
  BY <1>1, PTL DEF TypeInv

-----------------------------------------------------------------------------
(* Addresses. *)

\* No two records have one address.  A process has none until it is given one;
\* a fresh one is in no record and with no other process, and later on it is
\* that of the session's record.  The counter has passed every recorded address
\* once a process has lifted it, and stays ahead.
Unissued == {"unborn", "started", "scanned", "seeded"}
Issued == {"assigned", "registered", "claiming", "running"}

RecordsApart ==
  \A k, l \in Recorded : k # l => records[k].agent # records[l].agent

FreshIsFree ==
  \A p \in Procs : at[p] = "numbered" =>
    /\ records[serves[p]] = Nothing
    /\ address[p] <= counter
    /\ \A k \in Recorded : records[k].agent # address[p]
    /\ \A o \in Procs : o # p /\ at[o] = "numbered" => address[o] # address[p]

RecordMatches ==
  \A p \in Procs :
    /\ at[p] \in Unissued => address[p] = Nothing
    /\ at[p] \in Issued =>
         records[serves[p]] # Nothing /\ records[serves[p]].agent = address[p]

CounterAhead ==
  \A p \in Procs, k \in Recorded :
    /\ at[p] = "scanned" => records[k].agent <= high[p] \/ records[k].agent <= counter
    /\ at[p] \in {"seeded"} \cup Addressed => records[k].agent <= counter

AddressInv == RecordsApart /\ FreshIsFree /\ RecordMatches /\ CounterAhead

\* The records of an older version have addresses of their own.
LEMMA InitAddresses == Init => AddressInv
BY SessionsAssumption
DEF Init, AddressInv, RecordsApart, FreshIsFree, RecordMatches, CounterAhead,
    Recorded, Old, Unissued, Issued, Addressed

\* A session that registers again, claims the slot or ends keeps its address
\* on record.
LEMMA AgentsStay ==
  ASSUME TypeInv, AddressInv, NEW p \in Procs, Register(p) \/ Claim(p) \/ Exit(p)
  PROVE  /\ Recorded' = Recorded
         /\ \A k \in Recorded : records'[k].agent = records[k].agent
<1> USE SessionsAssumption
<1>1. serves[p] \in Recorded /\ records[serves[p]].agent = address[p]
  BY DEF TypeInv, Launched, AddressInv, RecordMatches, Issued, Recorded,
         Register, Claim, Exit
<1>2. address[p] \in Nat /\ records[serves[p]] \in Records
  BY <1>1 DEF TypeInv, TypeOK, Launched, Addressed, Recorded, Register, Claim, Exit
<1>3. records' = [records EXCEPT ![serves[p]] = records'[serves[p]]]
  BY <1>1 DEF TypeInv, TypeOK, Recorded, Register, Registered, Claim, Exit, Unregistered
<1>4. records'[serves[p]] # Nothing /\ records'[serves[p]].agent = address[p]
  <2>1. CASE Register(p)
    <3>1. records'[serves[p]] = [agent |-> address[p], pid |-> pid[p], start |-> p,
                                 primary |-> Carries(p)]
      BY <1>1, <2>1 DEF Register, Registered, TypeInv, TypeOK, Recorded
    <3>2. Carries(p) \in BOOLEAN /\ pid[p] \in Pids \cup {Nothing}
      BY DEF Carries, TypeInv, TypeOK
    <3> QED
      BY <1>2, <3>1, <3>2 DEF Records
  <2>2. CASE Claim(p)
    <3>1. records'[serves[p]] = [records[serves[p]] EXCEPT !.primary = TRUE]
      BY <1>1, <2>2 DEF Claim, TypeInv, TypeOK, Recorded
    <3> QED
      BY <1>1, <1>2, <3>1 DEF Records
  <2>3. CASE Exit(p)
    <3>1. records'[serves[p]] = [records[serves[p]] EXCEPT
            !.pid = Nothing, !.start = Nothing, !.primary = FALSE]
      BY <1>1, <2>3 DEF Exit, Unregistered, TypeInv, TypeOK, Recorded
    <3> QED
      BY <1>1, <1>2, <3>1 DEF Records
  <2> QED
    BY <2>1, <2>2, <2>3
<1> QED
  BY <1>1, <1>3, <1>4 DEF TypeInv, TypeOK, Recorded

\* A fresh number on record: one more session, with that address.
LEMMA AgentIsWritten ==
  ASSUME TypeInv, AddressInv, NEW p \in Procs, RegisterNew(p)
  PROVE  /\ serves[p] \in Claudes
         /\ serves[p] \notin Recorded
         /\ Recorded' = Recorded \cup {serves[p]}
         /\ \A k \in Recorded : records'[k].agent = records[k].agent
         /\ records'[serves[p]].agent = address[p]
<1> USE SessionsAssumption
<1>1. /\ serves[p] \in Claudes
      /\ serves[p] \notin Recorded
      /\ address[p] \in Nat
  BY DEF TypeInv, Launched, AddressInv, FreshIsFree, Recorded, RegisterNew, Addressed
<1>2. records'[serves[p]] = [agent |-> address[p], pid |-> pid[p], start |-> p,
                             primary |-> Carries(p)]
  BY <1>1 DEF RegisterNew, Registered, TypeInv, TypeOK
<1>3. Carries(p) \in BOOLEAN /\ pid[p] \in Pids \cup {Nothing}
  BY DEF Carries, TypeInv, TypeOK
<1>4. records'[serves[p]] # Nothing /\ records'[serves[p]].agent = address[p]
  BY <1>1, <1>2, <1>3 DEF Records
<1>5. \A k \in Claudes \ {serves[p]} : records'[k] = records[k]
  BY <1>1 DEF RegisterNew, Registered, TypeInv, TypeOK
<1> QED
  BY <1>1, <1>4, <1>5 DEF Recorded

\* Every action keeps the addresses apart.
LEMMA StepAddresses == TypeInv /\ AddressInv /\ [Next]_vars => AddressInv'
<1> SUFFICES ASSUME TypeInv, AddressInv, [Next]_vars PROVE AddressInv'
  OBVIOUS
<1>0. \A k \in Recorded : records[k].agent \in Nat
  BY DEF TypeInv, TypeOK, Recorded, Records
<1> USE <1>0, SessionsAssumption
    DEF AddressInv, RecordsApart, FreshIsFree, RecordMatches, CounterAhead, Unissued,
        Issued, Addressed
<1>1. CASE UNCHANGED vars
  BY <1>1 DEF vars, Recorded
<1>2. ASSUME NEW p \in Procs, NEW k \in Claudes, NEW q \in Pids, Launch(p, k, q)
      PROVE AddressInv'
  BY <1>2 DEF Launch, Recorded, TypeInv, TypeOK
<1>3. ASSUME NEW p \in Procs, Scan(p) PROVE AddressInv'
  BY <1>3 DEF Scan, Recorded, TypeInv, TypeOK
<1>4. ASSUME NEW p \in Procs, Seed(p) PROVE AddressInv'
  <2>1. /\ counter \in Nat /\ counter' \in Nat /\ high[p] \in Nat
        /\ counter <= counter' /\ high[p] <= counter'
    BY <1>4 DEF Seed, Lifted, TypeInv, TypeOK
  <2>2. Recorded' = Recorded
    BY <1>4 DEF Seed, Recorded
  <2>3. RecordsApart' /\ FreshIsFree' /\ RecordMatches'
    BY <1>4, <2>1, <2>2 DEF Seed, TypeInv, TypeOK, Launched
  <2>4. CounterAhead'
    BY <1>4, <2>1, <2>2 DEF Seed, TypeInv, TypeOK
  <2> QED
    BY <2>3, <2>4
<1>5. ASSUME NEW p \in Procs, Resume(p) PROVE AddressInv'
  BY <1>5 DEF Resume, Recorded, TypeInv, TypeOK, Launched
<1>6. ASSUME NEW p \in Procs, TakeOrdinal(p) PROVE AddressInv'
  <2> USE <1>6 DEF TakeOrdinal, Recorded, TypeInv, TypeOK, Launched, Alive, Starting
  <2>1. RecordsApart'
    BY <1>0
  <2>2. FreshIsFree'
    BY <1>0 DEF Recorded
  <2>3. RecordMatches'
    BY <1>0 DEF Recorded
  <2>4. CounterAhead'
    BY <1>0
  <2> QED
    BY <2>1, <2>2, <2>3, <2>4
<1>7. ASSUME NEW p \in Procs, RegisterNew(p) PROVE AddressInv'
  <2> USE <1>7 DEF RegisterNew, TypeInv, TypeOK, Launched, Alive, Starting
  <2>0. /\ serves[p] \in Claudes
        /\ serves[p] \notin Recorded
        /\ Recorded' = Recorded \cup {serves[p]}
        /\ \A k \in Recorded : records'[k].agent = records[k].agent
        /\ records'[serves[p]].agent = address[p]
    BY AgentIsWritten
  <2>1. RecordsApart'
    BY <2>0
  <2>2. FreshIsFree'
    BY <2>0 DEF Recorded
  <2>3. RecordMatches'
    BY <2>0 DEF Recorded
  <2>4. CounterAhead'
    BY <2>0
  <2> QED
    BY <2>1, <2>2, <2>3, <2>4
<1>8. ASSUME NEW p \in Procs, Register(p) PROVE AddressInv'
  <2> USE <1>8 DEF Register, TypeInv, TypeOK, Launched, Alive, Starting
  <2>0. /\ Recorded' = Recorded
        /\ \A k \in Recorded : records'[k].agent = records[k].agent
    BY AgentsStay
  <2>1. RecordsApart'
    BY <2>0
  <2>2. FreshIsFree'
    BY <2>0 DEF Recorded
  <2>3. RecordMatches'
    BY <2>0 DEF Recorded
  <2>4. CounterAhead'
    BY <2>0
  <2> QED
    BY <2>1, <2>2, <2>3, <2>4
<1>9. ASSUME NEW p \in Procs, LookForPrimary(p) PROVE AddressInv'
  BY <1>9 DEF LookForPrimary, Recorded, TypeInv, TypeOK
<1>10. ASSUME NEW p \in Procs, Claim(p) PROVE AddressInv'
  <2> USE <1>10 DEF Claim, TypeInv, TypeOK, Launched, Alive, Starting
  <2>0. /\ Recorded' = Recorded
        /\ \A k \in Recorded : records'[k].agent = records[k].agent
    BY AgentsStay
  <2>1. RecordsApart'
    BY <2>0
  <2>2. FreshIsFree'
    BY <2>0 DEF Recorded
  <2>3. RecordMatches'
    BY <2>0 DEF Recorded
  <2>4. CounterAhead'
    BY <2>0
  <2> QED
    BY <2>1, <2>2, <2>3, <2>4
<1>11. ASSUME NEW p \in Procs, AdoptAgain(p) PROVE AddressInv'
  BY <1>11 DEF AdoptAgain, Recorded, TypeInv, TypeOK
<1>12. ASSUME NEW p \in Procs, Exit(p) PROVE AddressInv'
  <2> USE <1>12 DEF Exit, TypeInv, TypeOK, Launched, Alive, Starting
  <2>0. /\ Recorded' = Recorded
        /\ \A k \in Recorded : records'[k].agent = records[k].agent
    BY AgentsStay
  <2>1. RecordsApart'
    BY <2>0
  <2>2. FreshIsFree'
    BY <2>0 DEF Recorded
  <2>3. RecordMatches'
    BY <2>0 DEF Recorded
  <2>4. CounterAhead'
    BY <2>0
  <2> QED
    BY <2>1, <2>2, <2>3, <2>4
<1>13. ASSUME NEW p \in Procs, Crash(p) PROVE AddressInv'
  BY <1>13 DEF Crash, Recorded, TypeInv, TypeOK
<1> QED
  BY <1>1, <1>2, <1>3, <1>4, <1>5, <1>6, <1>7, <1>8, <1>9, <1>10, <1>11, <1>12,
     <1>13
     DEF Next, Advance

\* TypeInv and AddressInv hold together in every state.
LEMMA AddressesHold == Spec => [](TypeInv /\ AddressInv)
<1>1. Init => TypeInv /\ AddressInv
  BY InitTyped, InitAddresses
<1>2. TypeInv /\ AddressInv /\ [Next]_vars => (TypeInv /\ AddressInv)'
  BY StepTyped, StepAddresses
<1> QED
  BY <1>1, <1>2, PTL DEF Spec

\* No address, and hence no relay queue, belongs to two sessions: not of dead
\* ones, not of an older version's, not while a number is on its way to disk.
THEOREM QueuesArePrivate == Spec => []PrivateQueues
<1>1. TypeInv /\ AddressInv => PrivateQueues
  <2> SUFFICES ASSUME TypeInv, AddressInv, NEW k \in Claudes, NEW l \in Claudes, k # l,
                      NEW n \in AddressesOf(k), n \in AddressesOf(l)
               PROVE  FALSE
    BY DEF PrivateQueues
  <2> DEFINE Has(c) == \/ c \in Recorded /\ records[c].agent = n
                      \/ \E p \in Procs : /\ at[p] = "numbered" /\ serves[p] = c
                                          /\ address[p] = n
  <2>1. ASSUME NEW c \in Claudes, n \in AddressesOf(c) PROVE Has(c)
    <3>1. CASE records[c] # Nothing /\ n = records[c].agent
      BY <3>1 DEF Recorded
    <3>2. ASSUME NEW p \in Procs, Alive(p), serves[p] = c, address[p] = n, n # Nothing
          PROVE  Has(c)
      BY <3>2 DEF AddressInv, RecordMatches, Unissued, Issued, Recorded, Alive, Starting
    <3> QED
      BY <2>1, <3>1, <3>2 DEF AddressesOf
  <2>2. Has(k) /\ Has(l)
    BY <2>1
  <2> QED
    BY <2>2 DEF AddressInv, RecordsApart, FreshIsFree
<1> QED
  BY <1>1, AddressesHold, PTL

\* A session that is on record stays there, under one address, through resumes,
\* renames, exits and crashes.
THEOREM AddressesAreKept == Spec => AddressIsKept
<1> DEFINE Kept == \A k \in Claudes : records[k] # Nothing =>
                     records'[k] # Nothing /\ records'[k].agent = records[k].agent
<1>1. TypeInv /\ AddressInv /\ [Next]_vars => Kept
  <2> SUFFICES ASSUME TypeInv, AddressInv, [Next]_vars PROVE Kept
    OBVIOUS
  <2>1. ASSUME NEW p \in Procs, Register(p) \/ Claim(p) \/ Exit(p) PROVE Kept
    BY <2>1, AgentsStay DEF Recorded
  <2>2. ASSUME NEW p \in Procs, RegisterNew(p) PROVE Kept
    BY <2>2, AgentIsWritten DEF Recorded
  <2>3. CASE UNCHANGED records
    BY <2>3
  <2> QED
    BY <2>1, <2>2, <2>3
    DEF Next, Advance, vars, Launch, Scan, Seed, Resume, TakeOrdinal, LookForPrimary,
        AdoptAgain, Crash
<1>2. TypeInv /\ AddressInv /\ [Next]_vars => [Kept]_vars
  BY <1>1
<1> QED
  BY <1>2, AddressesHold, PTL DEF Spec, AddressIsKept

-----------------------------------------------------------------------------
(* The primary slot. *)

\* A start time in a record is that of a process that was launched for this
\* session, under the pid beside it; a flag beside it was claimed by it.
RecordIsOwn ==
  \A k \in Recorded, p \in Procs : records[k].start = p =>
    /\ at[p] # "unborn"
    /\ serves[p] = k
    /\ pid[p] = records[k].pid
    /\ records[k].primary => p \in claimed

\* Two that have the flag, or are about to set it, have seen the slot vacant
\* together.
Contends(p) == Flagged(p) \/ at[p] = "claiming"

ContendersMet ==
  \A p, o \in Procs : p # o /\ Contends(p) /\ Contends(o) => {p, o} \in together

SlotInv == RecordIsOwn /\ ContendersMet

\* Records of an older version name no process.
LEMMA InitSlot == Init => SlotInv
BY SessionsAssumption
DEF Init, SlotInv, RecordIsOwn, ContendersMet, Contends, Flagged, Alive, Starting,
    Recorded, Old

\* What register_session leaves in the session's record, and that it leaves
\* the other records alone.
LEMMA RegisterWrites ==
  ASSUME TypeInv, NEW p \in Procs, RegisterNew(p) \/ Register(p)
  PROVE  /\ serves[p] \in Claudes
         /\ Carries(p) \in BOOLEAN
         /\ records'[serves[p]].pid = pid[p]
         /\ records'[serves[p]].start = p
         /\ records'[serves[p]].primary = Carries(p)
         /\ records'[serves[p]] # Nothing
         /\ \A k \in Claudes \ {serves[p]} : records'[k] = records[k]
<1>1. serves[p] \in Claudes /\ address[p] \in Nat /\ pid[p] \in Pids
  BY DEF TypeInv, Launched, Addressed, RegisterNew, Register
<1>2. Carries(p) \in BOOLEAN
  BY DEF Carries
<1>3. /\ records'[serves[p]] = [agent |-> address[p], pid |-> pid[p], start |-> p,
                                primary |-> Carries(p)]
      /\ \A k \in Claudes \ {serves[p]} : records'[k] = records[k]
  BY <1>1 DEF RegisterNew, Register, Registered, TypeInv, TypeOK
<1>4. records'[serves[p]] # Nothing
  BY <1>1, <1>2, <1>3, SessionsAssumption DEF Records
<1>5. /\ records'[serves[p]].pid = pid[p]
      /\ records'[serves[p]].start = p
      /\ records'[serves[p]].primary = Carries(p)
  BY <1>3
<1> QED
  BY <1>1, <1>2, <1>3, <1>4, <1>5

\* What claim_primary leaves in it.
LEMMA ClaimWrites ==
  ASSUME TypeInv, NEW p \in Procs, Claim(p)
  PROVE  /\ serves[p] \in Recorded
         /\ records[serves[p]].start = p
         /\ records'[serves[p]].start = p
         /\ records'[serves[p]].pid = records[serves[p]].pid
         /\ records'[serves[p]].primary
         /\ records'[serves[p]] # Nothing
         /\ \A k \in Claudes \ {serves[p]} : records'[k] = records[k]
<1>1. /\ serves[p] \in Recorded
      /\ records[serves[p]] \in Records
      /\ records[serves[p]].start = p
  BY DEF TypeInv, TypeOK, Launched, Recorded, Claim
<1>2. /\ records'[serves[p]] = [records[serves[p]] EXCEPT !.primary = TRUE]
      /\ \A k \in Claudes \ {serves[p]} : records'[k] = records[k]
  BY <1>1 DEF Claim, TypeInv, TypeOK, Recorded
<1>3. records'[serves[p]] \in Records
  BY <1>1, <1>2 DEF Records
<1>4. /\ records'[serves[p]].start = p
      /\ records'[serves[p]].pid = records[serves[p]].pid
      /\ records'[serves[p]].primary
  BY <1>1, <1>2 DEF Records
<1> QED
  BY <1>1, <1>2, <1>3, <1>4, SessionsAssumption

\* What unregister_session leaves in it.
LEMMA ExitWrites ==
  ASSUME TypeInv, NEW p \in Procs, Exit(p)
  PROVE  /\ serves[p] \in Recorded
         /\ records'[serves[p]].start = Nothing
         /\ records'[serves[p]] # Nothing
         /\ \A k \in Claudes \ {serves[p]} : records'[k] = records[k]
<1>1. /\ serves[p] \in Recorded
      /\ records[serves[p]] \in Records
  BY DEF TypeInv, TypeOK, Launched, Recorded, Exit
<1>2. /\ records'[serves[p]] = [records[serves[p]] EXCEPT
           !.pid = Nothing, !.start = Nothing, !.primary = FALSE]
      /\ \A k \in Claudes \ {serves[p]} : records'[k] = records[k]
  BY <1>1 DEF Exit, Unregistered, TypeInv, TypeOK, Recorded
<1>3. records'[serves[p]] \in Records
  BY <1>1, <1>2 DEF Records
<1>4. records'[serves[p]].start = Nothing
  BY <1>1, <1>2 DEF Records
<1> QED
  BY <1>1, <1>2, <1>3, <1>4, SessionsAssumption

\* Every action leaves records that speak of their own session's processes.
LEMMA StepOwn == TypeInv /\ RecordIsOwn /\ [Next]_vars => RecordIsOwn'
<1> SUFFICES ASSUME TypeInv, RecordIsOwn, [Next]_vars PROVE RecordIsOwn'
  OBVIOUS
<1>1. CASE UNCHANGED vars
  BY <1>1 DEF RecordIsOwn, vars, Recorded
<1>2. ASSUME NEW p \in Procs, NEW k \in Claudes, NEW q \in Pids, Launch(p, k, q)
      PROVE RecordIsOwn'
  BY <1>2 DEF RecordIsOwn, Launch, Recorded, TypeInv, TypeOK
<1>3. ASSUME NEW p \in Procs, RegisterNew(p) \/ Register(p) PROVE RecordIsOwn'
  <2>1. /\ Recorded' = Recorded \cup {serves[p]}
        /\ \A k \in Recorded \ {serves[p]} : records'[k] = records[k]
    BY <1>3, RegisterWrites DEF Recorded
  <2>2. at'[p] # "unborn" /\ UNCHANGED <<serves, pid, claimed>>
    BY <1>3 DEF RegisterNew, Register, TypeInv, TypeOK
  <2>3. records'[serves[p]].primary => p \in claimed
    BY <1>3, RegisterWrites DEF Carries, RecordIsOwn, Recorded
  <2>4. records'[serves[p]].start = p /\ records'[serves[p]].pid = pid[p]
    BY <1>3, RegisterWrites
  <2>5. \A o \in Procs \ {p} : at'[o] = at[o]
    BY <1>3 DEF RegisterNew, Register, TypeInv, TypeOK
  <2> QED
    BY <2>1, <2>2, <2>3, <2>4, <2>5 DEF RecordIsOwn
<1>4. ASSUME NEW p \in Procs, Claim(p) PROVE RecordIsOwn'
  <2>1. Recorded' = Recorded
    BY <1>4, ClaimWrites DEF Recorded
  <2>2. /\ at' = [at EXCEPT ![p] = "running"]
        /\ claimed' = claimed \cup {p}
        /\ UNCHANGED <<serves, pid>>
    BY <1>4 DEF Claim
  <2>3. \A o \in Procs : at[o] # "unborn" => at'[o] # "unborn"
    BY <2>2 DEF TypeInv, TypeOK
  <2>4. /\ serves[p] \in Recorded
        /\ records[serves[p]].start = p
        /\ records'[serves[p]].start = p
        /\ records'[serves[p]].pid = records[serves[p]].pid
        /\ \A k \in Recorded \ {serves[p]} : records'[k] = records[k]
    BY <1>4, ClaimWrites DEF Recorded
  <2> QED
    BY <2>1, <2>2, <2>3, <2>4 DEF RecordIsOwn
<1>5. ASSUME NEW p \in Procs, Exit(p) PROVE RecordIsOwn'
  <2>1. Recorded' = Recorded
    BY <1>5, ExitWrites DEF Recorded
  <2>2. /\ UNCHANGED <<serves, pid, claimed>>
        /\ \A o \in Procs : at[o] # "unborn" => at'[o] # "unborn"
    BY <1>5 DEF Exit, TypeInv, TypeOK
  <2>3. /\ records'[serves[p]].start \notin Procs
        /\ \A k \in Recorded \ {serves[p]} : records'[k] = records[k]
    BY <1>5, ExitWrites, SessionsAssumption DEF Recorded
  <2> QED
    BY <2>1, <2>2, <2>3 DEF RecordIsOwn
<1>6. ASSUME NEW p \in Procs,
             \/ Scan(p) \/ Seed(p) \/ Resume(p) \/ TakeOrdinal(p)
             \/ LookForPrimary(p) \/ AdoptAgain(p) \/ Crash(p)
      PROVE RecordIsOwn'
  <2>1. UNCHANGED <<records, serves, pid, claimed>>
    BY <1>6 DEF Scan, Seed, Resume, TakeOrdinal, LookForPrimary, AdoptAgain, Crash
  <2>2. \A o \in Procs : at[o] # "unborn" => at'[o] # "unborn"
    BY <1>6 DEF Scan, Seed, Resume, TakeOrdinal, LookForPrimary, AdoptAgain, Crash,
                TypeInv, TypeOK
  <2> QED
    BY <2>1, <2>2 DEF RecordIsOwn, Recorded
<1> QED
  BY <1>1, <1>2, <1>3, <1>4, <1>5, <1>6 DEF Next, Advance

\* Nobody gets the flag but by claiming, and nobody who lives loses it.
LEMMA PrimaryStep ==
  ASSUME TypeInv, RecordIsOwn, [Next]_vars, NEW o \in Procs
  PROVE  /\ Flagged(o)' => Flagged(o) \/ Claim(o)
         /\ Flagged(o) /\ Alive(o)' => Flagged(o)'
<1> DEFINE Goal == /\ Flagged(o)' => Flagged(o) \/ Claim(o)
                   /\ Flagged(o) /\ Alive(o)' => Flagged(o)'
<1>1. CASE UNCHANGED vars
  BY <1>1 DEF vars, Flagged, Alive
<1>2. ASSUME NEW p \in Procs, NEW k \in Claudes, NEW q \in Pids, Launch(p, k, q)
      PROVE Goal
  <2>1. CASE o = p
    BY <1>2, <2>1 DEF Launch, Flagged, Alive, Starting, RecordIsOwn, Recorded, TypeInv,
                      TypeOK
  <2>2. CASE o # p
    BY <1>2, <2>2 DEF Launch, Flagged, Alive, TypeInv, TypeOK
  <2> QED
    BY <2>1, <2>2
<1>3. ASSUME NEW p \in Procs, RegisterNew(p) \/ Register(p) PROVE Goal
  <2>1. UNCHANGED serves /\ Alive(p) /\ Alive(p)'
    BY <1>3 DEF RegisterNew, Register, Alive, Starting, TypeInv, TypeOK
  <2>2. CASE o = p
    <3>1. Flagged(p)' <=> Carries(p)
      BY <1>3, <2>1, RegisterWrites DEF Flagged
    <3>2. serves[p] \in Claudes
      BY <1>3, RegisterWrites
    <3>3. records[serves[p]] # Nothing /\ records[serves[p]].start = p
            => records[serves[p]].pid = pid[p]
      BY <3>2 DEF RecordIsOwn, Recorded
    <3>4. Carries(p) <=> Flagged(p)
      BY <2>1, <3>3 DEF Carries, Flagged
    <3> QED
      BY <2>1, <2>2, <3>1, <3>4
  <2>3. CASE o # p
    <3>1. Alive(o)' <=> Alive(o)
      BY <1>3, <2>3 DEF RegisterNew, Register, Alive, TypeInv, TypeOK
    <3>2. Alive(o) => records'[serves[o]] = records[serves[o]]
      BY <1>3, <2>1, <2>3, RegisterWrites
      DEF TypeInv, TypeOK, Launched, Alive, Starting
    <3> QED
      BY <2>1, <3>1, <3>2 DEF Flagged
  <2> QED
    BY <2>2, <2>3
<1>4. ASSUME NEW p \in Procs, Claim(p) PROVE Goal
  <2>1. UNCHANGED serves /\ Alive(p) /\ Alive(p)'
    BY <1>4 DEF Claim, Alive, Starting, TypeInv, TypeOK
  <2>2. CASE o = p
    BY <1>4, <2>1, <2>2, ClaimWrites DEF Flagged
  <2>3. CASE o # p
    <3>1. Alive(o)' <=> Alive(o)
      BY <1>4, <2>3 DEF Claim, Alive, TypeInv, TypeOK
    <3>2. Alive(o) => records'[serves[o]] = records[serves[o]]
      BY <1>4, <2>1, <2>3, ClaimWrites DEF TypeInv, TypeOK, Launched, Alive, Starting
    <3> QED
      BY <2>1, <3>1, <3>2 DEF Flagged
  <2> QED
    BY <2>2, <2>3
<1>5. ASSUME NEW p \in Procs, Exit(p) PROVE Goal
  <2>1. UNCHANGED serves /\ Alive(p) /\ ~ Alive(p)'
    BY <1>5 DEF Exit, Alive, Starting, TypeInv, TypeOK
  <2>2. CASE o = p
    BY <2>1, <2>2 DEF Flagged
  <2>3. CASE o # p
    <3>1. Alive(o)' <=> Alive(o)
      BY <1>5, <2>3 DEF Exit, Alive, TypeInv, TypeOK
    <3>2. Alive(o) => records'[serves[o]] = records[serves[o]]
      BY <1>5, <2>1, <2>3, ExitWrites DEF TypeInv, TypeOK, Launched, Alive, Starting
    <3> QED
      BY <2>1, <3>1, <3>2 DEF Flagged
  <2> QED
    BY <2>2, <2>3
<1>6. ASSUME NEW p \in Procs,
             \/ Scan(p) \/ Seed(p) \/ Resume(p) \/ TakeOrdinal(p)
             \/ LookForPrimary(p) \/ AdoptAgain(p) \/ Crash(p)
      PROVE Goal
  <2>1. UNCHANGED <<records, serves>>
    BY <1>6 DEF Scan, Seed, Resume, TakeOrdinal, LookForPrimary, AdoptAgain, Crash
  <2>2. Alive(o)' => Alive(o)
    BY <1>6 DEF Scan, Seed, Resume, TakeOrdinal, LookForPrimary, AdoptAgain, Crash,
                TypeInv, TypeOK, Alive, Starting
  <2> QED
    BY <2>1, <2>2 DEF Flagged
<1> QED
  BY <1>1, <1>2, <1>3, <1>4, <1>5, <1>6 DEF Next, Advance

\* Whoever has the flag is seen by the next one that looks.
LEMMA PrimaryIsSeen ==
  ASSUME TypeInv, RecordIsOwn, NEW p \in Procs, Flagged(p)
  PROVE  serves[p] \in Holders
<1>1. serves[p] \in Recorded
  BY DEF Flagged, Alive, Starting, TypeInv, Launched, Recorded
<1>2. pid[p] = records[serves[p]].pid
  BY <1>1 DEF Flagged, RecordIsOwn
<1> QED
  BY <1>1, <1>2 DEF Holders, Live, Flagged, Recorded

\* Every action keeps the record of who met whom complete.
LEMMA StepMet == TypeInv /\ SlotInv /\ [Next]_vars => ContendersMet'
<1> SUFFICES ASSUME TypeInv, SlotInv, [Next]_vars PROVE ContendersMet'
  OBVIOUS
<1>0. RecordIsOwn /\ ContendersMet
  BY DEF SlotInv
<1>1. ASSUME NEW p \in Procs, LookForPrimary(p), Vacant(p) PROVE ContendersMet'
  <2>1. \A o \in Procs : ~ Flagged(o)
    BY <1>0, <1>1, PrimaryIsSeen DEF Vacant
  <2>2. \A o \in Procs : ~ Flagged(o)'
    <3>1. \A o \in Procs : ~ Claim(o)
      BY <1>1 DEF LookForPrimary, Claim, TypeInv, TypeOK
    <3> QED
      BY <1>0, <2>1, <3>1, PrimaryStep
  <2>3. together' = together \cup {{p, o} : o \in {q \in Procs : at[q] = "claiming"}}
    BY <1>1 DEF LookForPrimary
  <2>4. \A o \in Procs \ {p} : at'[o] = at[o]
    BY <1>1 DEF LookForPrimary, TypeInv, TypeOK
  <2>5. ASSUME NEW o \in Procs, NEW q \in Procs, o # q,
               at'[o] = "claiming", at'[q] = "claiming"
        PROVE {o, q} \in together'
    <3>1. CASE o = p
      BY <2>3, <2>4, <2>5, <3>1
    <3>2. CASE q = p
      <4>1. {q, o} = {o, q}
        OBVIOUS
      <4> QED
        BY <2>3, <2>4, <2>5, <3>2, <4>1
    <3>3. CASE o # p /\ q # p
      BY <1>0, <2>3, <2>4, <2>5, <3>3 DEF ContendersMet, Contends
    <3> QED
      BY <3>1, <3>2, <3>3
  <2> QED
    BY <2>2, <2>5 DEF ContendersMet, Contends
<1>2. CASE ~ \E p \in Procs : LookForPrimary(p) /\ Vacant(p)
  <2>1. together' = together
    BY <1>2 DEF Next, Advance, vars, Launch, Scan, Seed, Resume, TakeOrdinal,
       RegisterNew, Register, LookForPrimary, Claim, AdoptAgain, Exit, Crash
  <2>2. \A o \in Procs : at'[o] = "claiming" => at[o] = "claiming"
    BY <1>2 DEF Next, Advance, vars, Launch, Scan, Seed, Resume, TakeOrdinal,
       RegisterNew, Register, LookForPrimary, Claim, AdoptAgain, Exit, Crash,
       TypeInv, TypeOK
  <2>3. \A o \in Procs : Contends(o)' => Contends(o)
    BY <1>0, <2>2, PrimaryStep DEF Contends, Claim
  <2> QED
    BY <1>0, <2>1, <2>3 DEF ContendersMet
<1> QED
  BY <1>1, <1>2

\* TypeInv and SlotInv hold together in every state.
LEMMA SlotHolds == Spec => [](TypeInv /\ SlotInv)
<1>1. Init => TypeInv /\ SlotInv
  BY InitTyped, InitSlot
<1>2. TypeInv /\ SlotInv /\ [Next]_vars => (TypeInv /\ SlotInv)'
  BY StepTyped, StepOwn, StepMet DEF SlotInv
<1> QED
  BY <1>1, <1>2, PTL DEF Spec

\* No flag of a dead process, of a process before it under the same pid, or of
\* an older version's record counts: the flag of a running gate was set by it.
THEOREM PrimariesHaveClaimed == Spec => []PrimaryHasClaimed
<1>1. TypeInv /\ SlotInv => PrimaryHasClaimed
  BY DEF TypeInv, Launched, SlotInv, RecordIsOwn, PrimaryHasClaimed, Flagged, Alive,
         Starting, Recorded
<1> QED
  BY <1>1, SlotHolds, PTL

\* Two flags at once come from two looks before either claim, and from nothing
\* else.
THEOREM OnlyOverlaps == Spec => []OnlyOverlapDoubles
<1>1. TypeInv /\ SlotInv => OnlyOverlapDoubles
  BY DEF SlotInv, ContendersMet, Contends, OnlyOverlapDoubles
<1> QED
  BY <1>1, SlotHolds, PTL

\* A pid that primary_pid may return is that of a live process with the flag.
LEMMA SeenIsFlagged ==
  ASSUME TypeInv, RecordIsOwn
  PROVE  \A q \in PrimaryPids : \E o \in Procs : Flagged(o) /\ pid[o] = q
<1> SUFFICES ASSUME NEW q \in PrimaryPids
             PROVE  \E o \in Procs : Flagged(o) /\ pid[o] = q
  OBVIOUS
<1>1. PICK k \in Holders : records[k].pid = q
  BY DEF PrimaryPids
<1>2. PICK o \in Procs : Alive(o) /\ pid[o] = q /\ records[k].start = o
  BY <1>1 DEF Holders, Live
<1>3. k \in Recorded /\ records[k].primary
  BY <1>1 DEF Holders, Live, Recorded
<1>4. serves[o] = k
  BY <1>2, <1>3 DEF RecordIsOwn
<1> QED
  BY <1>2, <1>3, <1>4 DEF Flagged, Recorded

\* As long as a primary lives, is_primary() stays true for it and is true for no
\* other, whatever others do and however often it adopts its address again; but
\* for another that saw the slot vacant together with it, and has the flag too.
THEOREM PrimariesStay == Spec => PrimaryKeepsSlot
<1> DEFINE Stays(p) == \/ IsPrimary(p)'
                       \/ \E o \in Procs \ {p} : Flagged(o)' /\ {p, o} \in together'
           AllStay == \A p \in Procs : MayBePrimary(p) /\ Alive(p)' => Stays(p)
<1>1. TypeInv /\ SlotInv /\ [Next]_vars => AllStay
  <2> SUFFICES ASSUME TypeInv, SlotInv, [Next]_vars, NEW p \in Procs,
                      MayBePrimary(p), Alive(p)'
               PROVE  Stays(p)
    OBVIOUS
  <2>1. TypeInv' /\ RecordIsOwn' /\ ContendersMet'
    BY StepTyped, StepOwn, StepMet DEF SlotInv
  <2>2. Flagged(p)
    <3>1. PICK o \in Procs : Flagged(o) /\ pid[o] = pid[p]
      BY SeenIsFlagged DEF MayBePrimary, SlotInv
    <3>2. o = p
      BY <3>1 DEF MayBePrimary, Flagged, TypeInv, Launched
    <3> QED
      BY <3>1, <3>2
  <2>3. Flagged(p)'
    BY <2>2, PrimaryStep DEF SlotInv
  <2>4. (pid[p] \in PrimaryPids)'
    <3>1. (serves[p] \in Holders)'
      BY <2>1, <2>3, PrimaryIsSeen, PTL
    <3>2. (records[serves[p]].pid = pid[p])'
      BY <2>1, <2>3, <3>1 DEF Flagged, RecordIsOwn, Recorded, Holders
    <3> QED
      BY <3>1, <3>2 DEF PrimaryPids
  <2>5. (\A q \in PrimaryPids : \E o \in Procs : Flagged(o) /\ pid[o] = q)'
    BY <2>1, SeenIsFlagged, PTL
  <2>6. ASSUME NEW q \in PrimaryPids', q # (pid[p])'
        PROVE  \E o \in Procs \ {p} : Flagged(o)' /\ {p, o} \in together'
    <3>1. PICK o \in Procs : (Flagged(o) /\ pid[o] = q)'
      BY <2>5
    <3>2. o # p
      BY <2>6, <3>1
    <3> QED
      BY <2>1, <2>3, <3>1, <3>2 DEF ContendersMet, Contends
  <2> QED
    BY <2>4, <2>6 DEF IsPrimary
<1>2. TypeInv /\ SlotInv /\ [Next]_vars => [AllStay]_vars
  BY <1>1
<1> QED
  BY <1>2, SlotHolds, PTL DEF Spec, PrimaryKeepsSlot

\* Once a session has adopted its address there is a primary.
THEOREM NewcomersFill == Spec => NewcomerFillsVacancy
<1> DEFINE Filled == \A p \in Procs :
                       at[p] \in {"registered", "claiming"} /\ at'[p] = "running"
                         => \E o \in Procs : Flagged(o)'
<1>1. TypeInv /\ SlotInv /\ [Next]_vars => Filled
  <2> SUFFICES ASSUME TypeInv, SlotInv, [Next]_vars, NEW p \in Procs,
                      at[p] \in {"registered", "claiming"}, at'[p] = "running"
               PROVE  \E o \in Procs : Flagged(o)'
    OBVIOUS
  <2>1. Claim(p) \/ (LookForPrimary(p) /\ ~ Vacant(p))
    <3>1. CASE \E o \in Procs, k \in Claudes, q \in Pids : Launch(o, k, q)
      BY <3>1 DEF Launch, TypeInv, TypeOK
    <3>2. CASE UNCHANGED vars
      BY <3>2 DEF vars
    <3>3. ASSUME NEW o \in Procs, Advance(o) \/ AdoptAgain(o) \/ Exit(o) \/ Crash(o)
          PROVE  o = p /\ (Claim(p) \/ LookForPrimary(p))
      BY <3>3 DEF Advance, Scan, Seed, Resume, TakeOrdinal, RegisterNew, Register,
         LookForPrimary, Claim, AdoptAgain, Exit, Crash, TypeInv, TypeOK
    <3>4. LookForPrimary(p) => ~ Vacant(p)
      BY DEF LookForPrimary, TypeInv, TypeOK
    <3> QED
      BY <3>1, <3>2, <3>3, <3>4 DEF Next
  <2>2. CASE Claim(p)
    BY <2>2, ClaimWrites DEF Claim, Flagged, Alive, TypeInv, TypeOK
  <2>3. CASE LookForPrimary(p) /\ ~ Vacant(p)
    <3>1. PICK o \in Procs : Flagged(o)
      BY <2>3 DEF Vacant, Holders, Live, SlotInv, RecordIsOwn, Recorded, Flagged
    <3>2. Alive(o)'
      BY <2>3, <3>1 DEF LookForPrimary, Flagged, Alive, TypeInv, TypeOK
    <3> QED
      BY <3>1, <3>2, PrimaryStep DEF SlotInv
  <2> QED
    BY <2>1, <2>2, <2>3
<1>2. TypeInv /\ SlotInv /\ [Next]_vars => [Filled]_vars
  BY <1>1
<1> QED
  BY <1>2, SlotHolds, PTL DEF Spec, NewcomerFillsVacancy

=============================================================================
