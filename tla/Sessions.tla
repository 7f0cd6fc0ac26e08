------------------------------ MODULE Sessions -------------------------------
(***************************************************************************)
(* The sessions of one device: who gets which address, and who drains the  *)
(* account's front door.                                                   *)
(*                                                                         *)
(* Gate processes come and go; the Claude session they serve, its record   *)
(* on disk and the session counter survive them.  Only the counter is      *)
(* guarded by a lock.  A session's record is written by its own process    *)
(* alone, but whether another holds the primary slot is read from every    *)
(* record, some steps before the slot is taken.  Pids are recycled; the    *)
(* start time stored beside a pid tells its generations apart, and is here *)
(* the process itself.                                                     *)
(*                                                                         *)
(* An address is an ordinal: the stem and the fingerprint are the same in  *)
(* all of them.  At most one process serves a Claude session at a time.    *)
(***************************************************************************)
EXTENDS Integers

CONSTANTS
  Claudes,      \* Claude sessions, the keys of the records
  Procs,        \* gate processes, by generation
  Pids,         \* process ids
  Nothing,      \* stands for None, and for a record that does not exist
  OldOrdinals   \* ordinals that records of an older version may carry

Records == [agent : Nat, pid : Pids \cup {Nothing}, start : Procs \cup {Nothing},
            primary : BOOLEAN]

ASSUME SessionsAssumption ==
  /\ OldOrdinals \subseteq Nat \ {0}
  /\ Nothing \notin Claudes \cup Procs \cup Pids \cup Nat \cup Records

VARIABLES
  counter,    \* identity.json's session_counter
  records,    \* session -> its record
  at,         \* process -> where it stands
  serves,     \* process -> the session it serves
  pid,        \* process -> its pid
  address,    \* process -> SESSION_AGENT_ID, or the ordinal it is about to use
  high,       \* process -> the highest ordinal its scan of the records found
  claimed,    \* processes that have taken the primary slot (history)
  together    \* pairs of processes that saw the slot vacant together (history)

vars == <<counter, records, at, serves, pid, address, high, claimed, together>>

Starting == {"started", "scanned", "seeded", "numbered", "assigned",
             "registered", "claiming"}
Alive(p) == at[p] \in Starting \cup {"running"}

TypeOK ==
  /\ counter \in Nat
  /\ records \in [Claudes -> Records \cup {Nothing}]
  /\ at \in [Procs -> Starting \cup {"unborn", "running", "gone"}]
  /\ serves \in [Procs -> Claudes \cup {Nothing}]
  /\ pid \in [Procs -> Pids \cup {Nothing}]
  /\ address \in [Procs -> Nat \cup {Nothing}]
  /\ high \in [Procs -> Nat]
  /\ claimed \subseteq Procs
  /\ together \subseteq SUBSET Procs
  /\ \A p \in Procs : at[p] \in {"registered", "claiming", "running"} =>
       /\ records[serves[p]] # Nothing
       /\ records[serves[p]].agent = address[p]
       /\ records[serves[p]].start = p

\* A record of an older version: no start time, a pid that may be in use again,
\* a primary flag that nobody took away, and no counter beside it.
Old(n, q, primary) ==
  [agent |-> n, pid |-> q, start |-> Nothing, primary |-> primary]

Init ==
  /\ counter = 0
  /\ records \in [Claudes -> {Nothing} \cup
       {Old(n, q, b) : n \in OldOrdinals, q \in Pids, b \in BOOLEAN}]
  /\ \A k, l \in Claudes :
       k # l /\ records[k] # Nothing /\ records[l] # Nothing
         => records[k].agent # records[l].agent
  /\ at = [p \in Procs |-> "unborn"]
  /\ serves = [p \in Procs |-> Nothing]
  /\ pid = [p \in Procs |-> Nothing]
  /\ address = [p \in Procs |-> Nothing]
  /\ high = [p \in Procs |-> 0]
  /\ claimed = {}
  /\ together = {}

-----------------------------------------------------------------------------
(* Who is alive, and who is primary. *)

\* Mutant: live_session_records believes the pid.
LiveByPid(k) ==
  /\ records[k] # Nothing
  /\ \E p \in Procs : Alive(p) /\ pid[p] = records[k].pid

\* live_session_records: the record's process, not another with its pid.
Live(k) ==
  /\ records[k] # Nothing
  /\ \E p \in Procs : Alive(p) /\ pid[p] = records[k].pid /\ records[k].start = p

\* The live sessions whose record has the primary flag.
Holders == {k \in Claudes : Live(k) /\ records[k].primary}

\* What primary_pid may return: the first of them that a listing of the
\* directory comes to, and the listing has no promised order.
PrimaryPids == {records[k].pid : k \in Holders}

\* is_primary(), under some listing and under every one.
MayBePrimary(p) == Alive(p) /\ pid[p] \in PrimaryPids
IsPrimary(p) == Alive(p) /\ PrimaryPids = {pid[p]}

\* Mutants: the flag survives a resume; it is lost when a session is renamed.
CarriesAlways(p) == records[serves[p]] # Nothing /\ records[serves[p]].primary
CarriesNever(p) == FALSE

\* register_session's was_primary: only the same process keeps the flag.
Carries(p) ==
  LET record == records[serves[p]] IN
  /\ record # Nothing
  /\ record.primary
  /\ record.pid = pid[p]
  /\ record.start = p

\* Mutant: a resumed session keeps the start time of the process before it.
KeepsOldStart(p) ==
  [records EXCEPT ![serves[p]] =
    [agent |-> address[p], pid |-> pid[p], primary |-> Carries(p),
     start |-> IF records[serves[p]] = Nothing THEN p ELSE records[serves[p]].start]]

\* register_session reads the session's record and writes it back.
Registered(p) ==
  [records EXCEPT ![serves[p]] =
    [agent |-> address[p], pid |-> pid[p], start |-> p, primary |-> Carries(p)]]

-----------------------------------------------------------------------------
(* A gate starts: schedule_identity_setup, resume_or_assign_session_id. *)

Launch(p, k, q) ==
  /\ at[p] = "unborn"
  /\ \A o \in Procs : Alive(o) => serves[o] # k /\ pid[o] # q
  /\ at' = [at EXCEPT ![p] = "started"]
  /\ serves' = [serves EXCEPT ![p] = k]
  /\ pid' = [pid EXCEPT ![p] = q]
  /\ UNCHANGED <<counter, records, address, high, claimed, together>>

Recorded == {k \in Claudes : records[k] # Nothing}

\* seed_counter_from_records scans the records before it takes the lock.
Scan(p) ==
  /\ at[p] = "started"
  /\ at' = [at EXCEPT ![p] = "scanned"]
  /\ \E n \in {0} \cup {records[k].agent : k \in Recorded} :
       /\ \A k \in Recorded : records[k].agent <= n
       /\ high' = [high EXCEPT ![p] = n]
  /\ UNCHANGED <<counter, records, serves, pid, address, claimed, together>>

\* Mutant: the counter is not lifted.
CounterAsItIs(p) == counter

Lifted(p) == IF counter < high[p] THEN high[p] ELSE counter

Seed(p) ==
  /\ at[p] = "scanned"
  /\ at' = [at EXCEPT ![p] = "seeded"]
  /\ counter' = Lifted(p)
  /\ UNCHANGED <<records, serves, pid, address, high, claimed, together>>

\* A session that has a record comes back to its address.
Resume(p) ==
  /\ at[p] = "seeded"
  /\ records[serves[p]] # Nothing
  /\ at' = [at EXCEPT ![p] = "assigned"]
  /\ address' = [address EXCEPT ![p] = records[serves[p]].agent]
  /\ UNCHANGED <<counter, records, serves, pid, high, claimed, together>>

\* next_ordinal, under the lock.
TakeOrdinal(p) ==
  /\ at[p] = "seeded"
  /\ records[serves[p]] = Nothing
  /\ counter' = counter + 1
  /\ at' = [at EXCEPT ![p] = "numbered"]
  /\ address' = [address EXCEPT ![p] = counter + 1]
  /\ UNCHANGED <<records, serves, pid, high, claimed, together>>

\* A new session's record is written at once.
RegisterNew(p) ==
  /\ at[p] = "numbered"
  /\ records' = Registered(p)
  /\ at' = [at EXCEPT ![p] = "assigned"]
  /\ UNCHANGED <<counter, serves, pid, address, high, claimed, together>>

-----------------------------------------------------------------------------
(* _adopt_session_id: register_session, then claim_primary. *)

Register(p) ==
  /\ at[p] = "assigned"
  /\ records' = Registered(p)
  /\ at' = [at EXCEPT ![p] = "registered"]
  /\ UNCHANGED <<counter, serves, pid, address, high, claimed, together>>

\* Mutant: claim_primary takes the slot whoever holds it.
SeesVacant(p) == TRUE

\* primary_pid() is None.
Vacant(p) == Holders = {}

\* claim_primary looks for the holder; it is done unless the slot is vacant.
LookForPrimary(p) ==
  /\ at[p] = "registered"
  /\ at' = [at EXCEPT ![p] = IF Vacant(p) THEN "claiming" ELSE "running"]
  /\ together' = IF Vacant(p)
       THEN together \cup {{p, o} : o \in {q \in Procs : at[q] = "claiming"}}
       ELSE together
  /\ UNCHANGED <<counter, records, serves, pid, address, high, claimed>>

\* claim_primary reads its own record again and writes the flag into it.
Claim(p) ==
  /\ at[p] = "claiming"
  /\ records' = [records EXCEPT ![serves[p]].primary = TRUE]
  /\ claimed' = claimed \cup {p}
  /\ at' = [at EXCEPT ![p] = "running"]
  /\ UNCHANGED <<counter, serves, pid, address, high, together>>

\* do_set_identity ends by adopting this session's address once more.
AdoptAgain(p) ==
  /\ at[p] = "running"
  /\ at' = [at EXCEPT ![p] = "assigned"]
  /\ UNCHANGED <<counter, records, serves, pid, address, high, claimed, together>>

-----------------------------------------------------------------------------
(* A gate ends. *)

\* Mutant: the record goes with its process.
Deleted(k) == [records EXCEPT ![k] = Nothing]

\* unregister_session: the record stays, without its process.
Unregistered(k) ==
  [records EXCEPT ![k] =
    [@ EXCEPT !.pid = Nothing, !.start = Nothing, !.primary = FALSE]]

Exit(p) ==
  /\ at[p] = "running"
  /\ records' = Unregistered(serves[p])
  /\ at' = [at EXCEPT ![p] = "gone"]
  /\ UNCHANGED <<counter, serves, pid, address, high, claimed, together>>

\* Killed: the record is left as it was.
Crash(p) ==
  /\ Alive(p)
  /\ at' = [at EXCEPT ![p] = "gone"]
  /\ UNCHANGED <<counter, records, serves, pid, address, high, claimed, together>>

-----------------------------------------------------------------------------

Advance(p) ==
  \/ Scan(p) \/ Seed(p) \/ Resume(p) \/ TakeOrdinal(p) \/ RegisterNew(p)
  \/ Register(p) \/ LookForPrimary(p) \/ Claim(p)

Next ==
  \/ \E p \in Procs, k \in Claudes, q \in Pids : Launch(p, k, q)
  \/ \E p \in Procs : Advance(p) \/ AdoptAgain(p) \/ Exit(p) \/ Crash(p)

Spec == Init /\ [][Next]_vars

\* A process that has begun to start goes on.  Nobody has to launch, rename or
\* close a session.
Fairness == \A p \in Procs : WF_vars(Advance(p))

FairSpec == Spec /\ Fairness

-----------------------------------------------------------------------------
(* What makes it correct. *)

\* The addresses a session's record and its process stand for.
AddressesOf(k) ==
  (IF records[k] = Nothing THEN {} ELSE {records[k].agent})
    \cup ({address[p] : p \in {o \in Procs : Alive(o) /\ serves[o] = k}}
            \ {Nothing})

\* "Two sessions on one ordinal share an agent id, hence a relay queue, hence
\* each other's mail": no address belongs to two sessions, dead or alive, not
\* even while a number is taken but not written down yet.
PrivateQueues ==
  \A k, l \in Claudes : k # l => AddressesOf(k) \cap AddressesOf(l) = {}

\* A session's record outlives its process, and never changes its address.
AddressIsKept ==
  [][\A k \in Claudes : records[k] # Nothing =>
       records'[k] # Nothing /\ records'[k].agent = records[k].agent]_vars

\* A running gate whose own record has the primary flag.  Where two have it,
\* each look finds one of them primary; where one has it, that one.
Flagged(p) ==
  /\ Alive(p)
  /\ records[serves[p]] # Nothing
  /\ records[serves[p]].start = p
  /\ records[serves[p]].primary

\* "Must not resurrect a stale flag": whoever has the flag took the slot itself.
PrimaryHasClaimed == \A p \in Procs : Flagged(p) => p \in claimed

\* Two flags at once were set by processes that saw the slot vacant together:
\* the gap between the look and the claim of claim_primary is the only way to
\* get them.
OnlyOverlapDoubles ==
  \A p, o \in Procs : p # o /\ Flagged(p) /\ Flagged(o) => {p, o} \in together

\* A primary, which is_primary() was true for, stays the only one that it is
\* true for as long as it lives, through a rename too; unless another that
\* looked for the slot together with it has set its flag as well, between which
\* two the order of the directory then decides.
PrimaryKeepsSlot ==
  [][\A p \in Procs :
       MayBePrimary(p) /\ Alive(p)' =>
         \/ IsPrimary(p)'
         \/ \E o \in Procs \ {p} : Flagged(o)' /\ {p, o} \in together']_vars

\* "Take the primary slot if it is vacant or held by a dead session": whatever
\* dead sessions and recycled pids the records speak of, there is a primary
\* when a session has finished to register.
NewcomerFillsVacancy ==
  [][\A p \in Procs :
       at[p] \in {"registered", "claiming"} /\ at'[p] = "running"
         => \E o \in Procs : Flagged(o)']_vars

\* "A closed primary does not strand front-door mail -- the next session to
\* look takes over": a session that keeps running is not left alone with a
\* front door nobody drains.  whoami and check_inbox look, by is_primary(), but
\* change nothing: they are no steps here.
FrontDoorHasReader ==
  \A p \in Procs :
    at[p] = "running" ~> at[p] = "gone" \/ \E o \in Procs : Flagged(o)

=============================================================================
