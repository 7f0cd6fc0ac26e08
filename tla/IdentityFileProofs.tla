------------------------- MODULE IdentityFileProofs -------------------------
(***************************************************************************)
(* Theorems about IdentityFile, for every number of processes and threads  *)
(* and every set of calls they make.                                       *)
(***************************************************************************)
EXTENDS IdentityFile, FiniteSetTheorems, TLAPS

\* Bookkeeping TypeOK needs to be inductive: a thread that is about to nest
\* holds the lock exactly once, and only a rename carries on to the unlink.
NestingInv == \A t \in Threads : at[t] \in {"locked", "read"} => depth[Home[t]] = 1

TypeInv == TypeOK /\ NestingInv

\* flock works for every process.
LocksWork == Flocks = Procs

-----------------------------------------------------------------------------
(* Facts about the record. *)

\* A call is what its kind says.
LEMMA JobShape ==
  ASSUME NEW j \in AllJobs \cup {NoJob}
  PROVE  /\ j.kind = "rename" => j.id \in Ids
         /\ j.kind = "override" => j.id \in Ids
         /\ j.kind = "lift" => j.to \in Nat
         /\ j.kind = "account" => j.name \in Names
BY DEF AllJobs, NoJob

\* Whatever a call makes of a record is a record.
LEMMA ChangedIsRecord ==
  ASSUME NEW j \in AllJobs \cup {NoJob}, NEW r \in Record!Records, NEW id \in Ids
  PROVE  Changed(j, r, id) \in Record!Records
<1> USE JobShape DEF Record!Records, Changed
<1>1. CASE j.kind = "count"
  BY <1>1 DEF Record!Counted
<1>2. CASE j.kind = "lift"
  BY <1>2 DEF Record!Raised
<1>3. CASE j.kind = "account"
  BY <1>3 DEF Record!Accounted
<1>4. CASE j.kind = "rename"
  BY <1>4 DEF Record!Renamed
<1>5. CASE j.kind = "print"
  BY <1>5 DEF Record!Printed
<1>6. CASE j.kind \notin {"count", "lift", "account", "rename", "print"}
  BY <1>6 DEF Record!Confirmed
<1>7. QED
  BY <1>1, <1>2, <1>3, <1>4, <1>5, <1>6

\* A new record, and one with nothing in it, are records.
LEMMA BornIsRecord ==
  /\ Blank \in Record!Records
  /\ \A id \in Ids : Record!Born(id) \in Record!Records
BY DEF Blank, Record!Born, Record!Blank, Record!Records

\* No call lowers the counter.
LEMMA CounterGrows ==
  ASSUME NEW j \in AllJobs \cup {NoJob}, NEW r \in Record!Records, NEW id \in Ids
  PROVE  /\ Changed(j, r, id).counter >= r.counter
         /\ j.kind = "count" => Changed(j, r, id).counter = r.counter + 1
<1> USE JobShape DEF Record!Records, Changed
<1>1. CASE j.kind = "count"
  BY <1>1 DEF Record!Counted
<1>2. CASE j.kind = "lift"
  BY <1>2 DEF Record!Raised
<1>3. CASE j.kind = "account"
  BY <1>3 DEF Record!Accounted
<1>4. CASE j.kind = "rename"
  <2>1. Changed(j, r, id) = Record!Renamed(r, j.id)
    BY <1>4
  <2>2. Record!Renamed(r, j.id).counter = r.counter
    BY DEF Record!Renamed
  <2>3. QED
    BY <1>4, <2>1, <2>2
<1>5. CASE j.kind = "print"
  <2>1. Changed(j, r, id) = Record!Printed(r, id)
    BY <1>5
  <2>2. Record!Printed(r, id).counter = r.counter
    BY DEF Record!Printed
  <2>3. QED
    BY <1>5, <2>1, <2>2
<1>6. CASE j.kind \notin {"count", "lift", "account", "rename", "print"}
  BY <1>6 DEF Record!Confirmed
<1>7. QED
  BY <1>1, <1>2, <1>3, <1>4, <1>5, <1>6

-----------------------------------------------------------------------------
(* Type correctness. *)

LEMMA TypeInit == Init => TypeInv
BY IdentityFileAssumption, BornIsRecord
   DEF Init, TypeInv, TypeOK, NestingInv, Outside, Inside

\* At most one thread of a process is past _LOCAL_LOCK.
LEMMA OnePerProcess ==
  ASSUME TypeInv, NEW t \in Threads, NEW u \in Threads,
         at[t] \notin Outside, at[u] \notin Outside, Home[t] = Home[u]
  PROVE  t = u
BY DEF TypeInv, TypeOK

LEMMA TypeNext ==
  ASSUME TypeInv, [Next]_vars
  PROVE  TypeInv'
<1> USE IdentityFileAssumption DEF ProjectRecords
<1>1. ASSUME NEW t \in Threads, LookAtProject(t)
      PROVE  TypeInv'
  BY <1>1 DEF TypeInv, TypeOK, NestingInv, LookAtProject, files, locks, history,
              Outside, Inside
<1>2. ASSUME NEW t \in Threads, LookAtGlobal(t)
      PROVE  TypeInv'
  BY <1>2 DEF TypeInv, TypeOK, NestingInv, LookAtGlobal, files, locks, history,
              Outside, Inside
<1>3. ASSUME NEW t \in Threads, NEW j \in Jobs[t], Enter(t, j)
      PROVE  TypeInv'
  BY <1>3 DEF TypeInv, TypeOK, NestingInv, Enter, files, history, Outside, Inside
<1>4. ASSUME NEW t \in Threads, TakeFlock(t)
      PROVE  TypeInv'
  BY <1>4 DEF TypeInv, TypeOK, NestingInv, TakeFlock, Holding, files, history,
              Outside, Inside
<1>5. ASSUME NEW t \in Threads, Read(t)
      PROVE  TypeInv'
  BY <1>5 DEF TypeInv, TypeOK, NestingInv, Read, files, locks, history,
              Outside, Inside
<1>6. ASSUME NEW t \in Threads, Nest(t)
      PROVE  TypeInv'
  BY <1>6 DEF TypeInv, TypeOK, NestingInv, Nest, files, history, Outside, Inside
<1>7. ASSUME NEW t \in Threads, WriteProject(t)
      PROVE  TypeInv'
  BY <1>7, JobShape DEF TypeInv, TypeOK, NestingInv, WriteProject, WritesProject,
              history, Outside, Inside
<1>8. ASSUME NEW t \in Threads, Write(t)
      PROVE  TypeInv'
  <2>1. got[t] \in Record!Records /\ job[t] \in AllJobs \cup {NoJob}
    BY DEF TypeInv, TypeOK
  <2>2. content' \in Record!Records
    BY <1>8, <2>1, ChangedIsRecord DEF Write
  <2>3. issued' \subseteq Nat
    <3>1. got[t].counter \in Nat
      BY <2>1 DEF Record!Records
    <3>2. QED
      BY <1>8, <3>1 DEF Write, TypeInv, TypeOK
  <2>4. born' \subseteq Ids
    BY <1>8 DEF Write, TypeInv, TypeOK
  <2>5. QED
    BY <1>8, <2>2, <2>3, <2>4 DEF TypeInv, TypeOK, NestingInv, Write,
       Outside, Inside
<1>9. ASSUME NEW t \in Threads, Unlink(t)
      PROVE  TypeInv'
  BY <1>9 DEF TypeInv, TypeOK, NestingInv, Unlink, locks, history, Outside, Inside
<1>10. ASSUME NEW t \in Threads, Create(t)
       PROVE  TypeInv'
  BY <1>10 DEF TypeInv, TypeOK, NestingInv, Create, locks, history, Outside, Inside
<1>11. ASSUME NEW t \in Threads, Fill(t)
       PROVE  TypeInv'
  BY <1>11, BornIsRecord DEF TypeInv, TypeOK, NestingInv, Fill, locks,
              Outside, Inside
<1>12. ASSUME NEW t \in Threads, Leave(t)
       PROVE  TypeInv'
  BY <1>12, BornIsRecord DEF TypeInv, TypeOK, NestingInv, Leave, files, history,
              Outside, Inside
<1>13. ASSUME NEW t \in Threads, WriteFails(t)
       PROVE  TypeInv'
  BY <1>13 DEF TypeInv, TypeOK, NestingInv, WriteFails, files, history,
              Outside, Inside
<1>14. ASSUME NEW p \in Procs, Crash(p)
       PROVE  TypeInv'
  BY <1>14, BornIsRecord DEF TypeInv, TypeOK, NestingInv, Crash, files, history,
              Outside, Inside
<1>15. CASE UNCHANGED vars
  BY <1>15 DEF TypeInv, TypeOK, NestingInv, vars
<1>16. QED
  BY <1>1, <1>2, <1>3, <1>4, <1>5, <1>6, <1>7, <1>8, <1>9, <1>10, <1>11,
     <1>12, <1>13, <1>14, <1>15 DEF Next, Proceed

\* The type invariant holds in every state, with and without flock.
THEOREM TypeCorrect == Spec => []TypeOK
<1>1. Spec => []TypeInv
  BY TypeInit, TypeNext, PTL DEF Spec
<1>2. TypeInv => TypeOK
  BY DEF TypeInv
<1>3. QED
  BY <1>1, <1>2, PTL

-----------------------------------------------------------------------------
(* Under a lock that locks. *)

\* A thread between the lock and its release has its process's lock on the
\* file, what it has read is what the file holds, and a file it has created is
\* still empty.
ExclusiveInv == \A t \in Threads : at[t] \in Inside => flock = Home[t]
FreshInv ==
  \A t \in Threads :
    /\ at[t] \in {"read", "ready"} => got[t] = content
    /\ at[t] = "created" => file = "empty"

LockInv == TypeInv /\ ExclusiveInv /\ FreshInv

LEMMA LockInit == Init => LockInv
<1>1. Init => ExclusiveInv /\ FreshInv
  BY DEF Init, ExclusiveInv, FreshInv, Inside
<1>2. QED
  BY <1>1, TypeInit DEF LockInv

\* Mutual exclusion, across threads and processes.
LEMMA OneInside ==
  ASSUME LockInv, NEW t \in Threads, NEW u \in Threads,
         at[t] \in Inside, at[u] \in Inside
  PROVE  t = u
<1>1. Home[t] = Home[u]
  BY DEF LockInv, ExclusiveInv
<1>2. at[t] \notin Outside /\ at[u] \notin Outside
  BY DEF Inside, Outside
<1>3. QED
  BY <1>1, <1>2, OnePerProcess DEF LockInv

LEMMA LockNext ==
  ASSUME LocksWork, LockInv, [Next]_vars
  PROVE  LockInv'
<1> USE IdentityFileAssumption DEF LockInv
<1>1. TypeInv'
  BY TypeNext
<1>2. ASSUME NEW t \in Threads, LookAtProject(t)
      PROVE  ExclusiveInv' /\ FreshInv'
  BY <1>2 DEF TypeInv, TypeOK, ExclusiveInv, FreshInv, LookAtProject, files, locks, Inside
<1>3. ASSUME NEW t \in Threads, LookAtGlobal(t)
      PROVE  ExclusiveInv' /\ FreshInv'
  BY <1>3 DEF TypeInv, TypeOK, ExclusiveInv, FreshInv, LookAtGlobal, files, locks, Inside
<1>4. ASSUME NEW t \in Threads, NEW j \in Jobs[t], Enter(t, j)
      PROVE  ExclusiveInv' /\ FreshInv'
  BY <1>4 DEF TypeInv, TypeOK, ExclusiveInv, FreshInv, Enter, files, Inside
<1>5. ASSUME NEW t \in Threads, TakeFlock(t)
      PROVE  ExclusiveInv' /\ FreshInv'
  <2>1. flock = Nothing /\ flock' = Home[t]
    BY <1>5 DEF TakeFlock, LocksWork
  <2>2. \A u \in Threads : at[u] \notin Inside
    BY <2>1 DEF ExclusiveInv
  <2>3. QED
    BY <1>5, <2>1, <2>2 DEF TypeInv, TypeOK, ExclusiveInv, FreshInv, TakeFlock,
       Holding, files, Inside
<1>6. ASSUME NEW t \in Threads, Read(t)
      PROVE  ExclusiveInv' /\ FreshInv'
  BY <1>6 DEF TypeInv, TypeOK, ExclusiveInv, FreshInv, Read, files, locks, Inside
<1>7. ASSUME NEW t \in Threads, Nest(t)
      PROVE  ExclusiveInv' /\ FreshInv'
  BY <1>7 DEF TypeInv, TypeOK, ExclusiveInv, FreshInv, Nest, files, Inside
<1>8. ASSUME NEW t \in Threads, WriteProject(t)
      PROVE  ExclusiveInv' /\ FreshInv'
  BY <1>8 DEF TypeInv, TypeOK, ExclusiveInv, FreshInv, WriteProject, Inside
<1>9. ASSUME NEW t \in Threads, Write(t)
      PROVE  ExclusiveInv' /\ FreshInv'
  <2>1. \A u \in Threads : u # t => at[u] \notin Inside
    BY <1>9, OneInside DEF Write, Inside
  <2>2. QED
    BY <1>9, <2>1 DEF TypeInv, TypeOK, ExclusiveInv, FreshInv, Write, Inside
<1>10. ASSUME NEW t \in Threads, Unlink(t)
       PROVE  ExclusiveInv' /\ FreshInv'
  BY <1>10 DEF TypeInv, TypeOK, ExclusiveInv, FreshInv, Unlink, locks, Inside
<1>11. ASSUME NEW t \in Threads, Create(t)
       PROVE  ExclusiveInv' /\ FreshInv'
  <2>1. \A u \in Threads : u # t => at[u] \notin Inside
    BY <1>11, OneInside DEF Create, Inside
  <2>2. QED
    BY <1>11, <2>1 DEF TypeInv, TypeOK, ExclusiveInv, FreshInv, Create, locks, Inside
<1>12. ASSUME NEW t \in Threads, Fill(t)
       PROVE  ExclusiveInv' /\ FreshInv'
  <2>1. \A u \in Threads : u # t => at[u] \notin Inside
    BY <1>12, OneInside DEF Fill, Inside
  <2>2. QED
    BY <1>12, <2>1 DEF TypeInv, TypeOK, ExclusiveInv, FreshInv, Fill, locks, Inside
<1>13. ASSUME NEW t \in Threads, Leave(t)
       PROVE  ExclusiveInv' /\ FreshInv'
  <2>1. \A u \in Threads : u # t => at[u] \notin Inside
    BY <1>13, OneInside DEF Leave, Inside
  <2>2. QED
    BY <1>13, <2>1 DEF TypeInv, TypeOK, ExclusiveInv, FreshInv, Leave, files, Inside
<1>14. ASSUME NEW t \in Threads, WriteFails(t)
       PROVE  ExclusiveInv' /\ FreshInv'
  BY <1>14 DEF TypeInv, TypeOK, ExclusiveInv, FreshInv, WriteFails, files, Inside
<1>15. ASSUME NEW p \in Procs, Crash(p)
       PROVE  ExclusiveInv' /\ FreshInv'
  BY <1>15 DEF TypeInv, TypeOK, ExclusiveInv, FreshInv, Crash, files, Inside
<1>16. CASE UNCHANGED vars
  <2>1. /\ at' = at /\ flock' = flock /\ got' = got
        /\ content' = content /\ file' = file
    BY <1>16 DEF vars
  <2>2. QED
    BY <1>1, <2>1 DEF ExclusiveInv, FreshInv
<1>17. QED
  BY <1>1, <1>2, <1>3, <1>4, <1>5, <1>6, <1>7, <1>8, <1>9, <1>10, <1>11,
     <1>12, <1>13, <1>14, <1>15, <1>16 DEF Next, Proceed

-----------------------------------------------------------------------------
(* The file is one atomic record. *)

\* A write, and the filling of a new file, is one step of the record.
LEMMA WriteIsAtomic ==
  ASSUME LockInv, NEW t \in Threads, Write(t)
  PROVE  Record!Next
<1> DEFINE j == job[t]
<1>1. content' = Changed(j, content, Suggested[t])
  BY DEF LockInv, FreshInv, Write
<1>2. /\ j \in AllJobs \cup {NoJob}
      /\ content \in Record!Records
      /\ Suggested[t] \in Ids
  BY IdentityFileAssumption DEF LockInv, TypeInv, TypeOK
<1>3. CASE j.kind = "count"
  <2>1. content' = Record!Counted(content)
    BY <1>1, <1>3 DEF Changed
  <2>2. issued' = issued \cup {content.counter + 1}
    BY <1>3 DEF Write, LockInv, FreshInv
  <2>3. QED
    BY <2>1, <2>2 DEF Record!Next, Record!Issue
<1>4. CASE j.kind # "count"
  <2>1. issued' = issued
    BY <1>4 DEF Write
  <2>2. CASE j.kind = "lift"
    <3>1. content' = Record!Raised(content, j.to) /\ j.to \in Nat
      BY <1>1, <1>2, <2>2, JobShape DEF Changed
    <3>2. content.counter \in Nat
      BY <1>2 DEF Record!Records
    <3>3. content' = [content EXCEPT !.counter = content'.counter]
      BY <1>2, <3>1 DEF Record!Raised, Record!Records
    <3>4. content'.counter = IF content.counter < j.to THEN j.to ELSE content.counter
      BY <1>2, <3>1 DEF Record!Raised, Record!Records
    <3>5. content' = Record!Raised(content, content'.counter)
      BY <1>2, <3>1, <3>2, <3>3, <3>4 DEF Record!Raised, Record!Records
    <3>6. QED
      BY <2>1, <3>5 DEF Record!Next, Record!Update
  <2>3. CASE j.kind = "account"
    <3>1. content' = Record!Accounted(content, j.name) /\ j.name \in Names
      BY <1>1, <1>2, <2>3, JobShape DEF Changed
    <3>2. QED
      BY <2>1, <3>1 DEF Record!Next, Record!Update
  <2>4. CASE j.kind = "rename"
    <3>1. content' = Record!Renamed(content, j.id) /\ j.id \in Ids
      BY <1>1, <1>2, <2>4, JobShape DEF Changed
    <3>2. QED
      BY <2>1, <3>1 DEF Record!Next, Record!Update
  <2>5. CASE j.kind = "print"
    <3>1. content' = Record!Printed(content, Suggested[t])
      BY <1>1, <2>5 DEF Changed
    <3>2. QED
      BY <1>2, <2>1, <3>1 DEF Record!Next, Record!Update
  <2>6. CASE j.kind \notin {"count", "lift", "account", "rename", "print"}
    <3>1. content' = Record!Confirmed(content)
      BY <1>1, <2>6 DEF Changed
    <3>2. QED
      BY <2>1, <3>1 DEF Record!Next, Record!Update
  <2>7. QED
    BY <1>4, <2>2, <2>3, <2>4, <2>5, <2>6
<1>5. QED
  BY <1>3, <1>4

\* No other step touches the record, the ordinals or the ids made up.
LEMMA OtherStepsLeaveRecord ==
  ASSUME [Next]_vars
  PROVE  \/ \E t \in Threads : Write(t) \/ Fill(t)
         \/ UNCHANGED <<content, issued, born>>
<1>1. ASSUME NEW t \in Threads, ~Write(t), ~Fill(t),
             \/ LookAtProject(t) \/ LookAtGlobal(t) \/ Proceed(t)
             \/ WriteFails(t) \/ \E j \in Jobs[t] : Enter(t, j)
      PROVE  UNCHANGED <<content, issued, born>>
  BY <1>1 DEF Proceed, LookAtProject, LookAtGlobal, WriteFails, Enter, TakeFlock,
     Holding, Read, Nest, WriteProject, Unlink, Create, Leave, files, history
<1>2. ASSUME NEW p \in Procs, Crash(p)
      PROVE  UNCHANGED <<content, issued, born>>
  BY <1>2 DEF Crash, files, history
<1>3. CASE UNCHANGED vars
  BY <1>3 DEF vars
<1>4. QED
  BY <1>1, <1>2, <1>3 DEF Next

\* Every step of the threads is a step of the record, or none.
LEMMA StepIsAtomic ==
  ASSUME LockInv, [Next]_vars
  PROVE  [Record!Next]_<<content, issued>>
<1>1. ASSUME NEW t \in Threads, Fill(t)
      PROVE  Record!Next
  <2>1. file = "empty" /\ content = Blank
    BY <1>1 DEF Fill, LockInv, FreshInv, TypeInv, TypeOK
  <2>2. content' = Record!Born(Suggested[t]) /\ issued' = issued
    BY <1>1, <2>1 DEF Fill
  <2>3. QED
    BY <2>1, <2>2, IdentityFileAssumption DEF Record!Next, Record!Birth, Blank
<1>2. QED
  BY <1>1, WriteIsAtomic, OtherStepsLeaveRecord

LEMMA LockCorrect ==
  ASSUME LocksWork
  PROVE  Spec => []LockInv
<1>1. LockInv /\ [Next]_vars => LockInv'
  BY LockNext
<1>2. QED
  BY LockInit, <1>1, PTL DEF Spec

\* Where flock works, the threads of all processes change the record one whole
\* call at a time: no update is lost.
THEOREM FileIsAtomic == LocksWork /\ Spec => AtomicRecord
<1> SUFFICES ASSUME LocksWork
             PROVE  Spec => AtomicRecord
  OBVIOUS
<1>1. Init => Record!Init
  BY DEF Init, Record!Init, Blank
<1>2. LockInv /\ [Next]_vars => [Record!Next]_(Record!vars)
  BY StepIsAtomic DEF Record!vars
<1>3. QED
  BY <1>1, <1>2, LockCorrect, PTL DEF Spec, AtomicRecord, Record!Spec

\* An ordinal that was handed out is never above the counter.
SpentInv == \A n \in issued : n <= content.counter

LEMMA SpentCorrect ==
  ASSUME LocksWork
  PROVE  Spec => []SpentInv
<1>1. Init => SpentInv
  BY DEF Init, SpentInv
<1>2. ASSUME LockInv, SpentInv, [Next]_vars
      PROVE  SpentInv'
  <2>1. content.counter \in Nat /\ issued \subseteq Nat
    BY <1>2 DEF LockInv, TypeInv, TypeOK, Record!Records
  <2>2. ASSUME NEW t \in Threads, Write(t)
        PROVE  SpentInv'
    <3>1. /\ job[t] \in AllJobs \cup {NoJob}
          /\ content \in Record!Records
          /\ Suggested[t] \in Ids
      BY <1>2, IdentityFileAssumption DEF LockInv, TypeInv, TypeOK
    <3>2. content' = Changed(job[t], content, Suggested[t])
      BY <1>2, <2>2 DEF LockInv, FreshInv, Write
    <3>3. /\ content'.counter >= content.counter
          /\ job[t].kind = "count" => content'.counter = content.counter + 1
      BY <3>1, <3>2, CounterGrows
    <3>4. content'.counter \in Nat
      BY <3>1, <3>2, ChangedIsRecord DEF Record!Records
    <3>5. issued' = IF job[t].kind = "count" THEN issued \cup {content.counter + 1}
                                            ELSE issued
      BY <1>2, <2>2 DEF LockInv, FreshInv, Write
    <3>6. QED
      BY <1>2, <2>1, <3>3, <3>4, <3>5 DEF SpentInv
  <2>3. ASSUME NEW t \in Threads, Fill(t)
        PROVE  SpentInv'
    <3>1. content = Blank /\ issued' = issued
      BY <1>2, <2>3 DEF Fill, LockInv, FreshInv, TypeInv, TypeOK
    <3>2. content' = Record!Born(Suggested[t])
      BY <1>2, <2>3 DEF Fill, LockInv, FreshInv
    <3>3. content'.counter = content.counter
      BY <3>1, <3>2 DEF Blank, Record!Born
    <3>4. QED
      BY <1>2, <3>1, <3>3 DEF SpentInv
  <2>4. CASE UNCHANGED <<content, issued>>
    BY <1>2, <2>4 DEF SpentInv
  <2>5. QED
    BY <1>2, <2>2, <2>3, <2>4, OtherStepsLeaveRecord
<1>3. QED
  BY <1>1, <1>2, LockCorrect, PTL DEF Spec

\* Where flock works, next_ordinal never returns the same number twice.
THEOREM OrdinalsAreSpent == LocksWork /\ Spec => NeverReissued
<1> SUFFICES ASSUME LocksWork
             PROVE  Spec => NeverReissued
  OBVIOUS
<1>1. ASSUME LockInv, SpentInv, [Next]_vars, NEW t \in Threads,
             at[t] = "ready"
      PROVE  got[t].counter + 1 \notin issued
  <2>1. got[t] = content
    BY <1>1 DEF LockInv, FreshInv
  <2>2. content.counter \in Nat /\ issued \subseteq Nat
    BY <1>1 DEF LockInv, TypeInv, TypeOK, Record!Records
  <2>3. QED
    BY <1>1, <2>1, <2>2 DEF SpentInv
<1>2. LockInv /\ SpentInv /\ [Next]_vars =>
        [\A t \in Threads :
           at[t] = "ready" /\ at'[t] = "done" /\ job[t].kind = "count"
             => got[t].counter + 1 \notin issued]_vars
  BY <1>1
<1>3. QED
  BY <1>2, LockCorrect, SpentCorrect, PTL DEF Spec, NeverReissued

-----------------------------------------------------------------------------
(* The device's id. *)

\* What a call does to the id: a rename replaces it, save_fingerprint makes one
\* up where there is none, and the others leave it.
LEMMA ChangedAgent ==
  ASSUME NEW j \in AllJobs \cup {NoJob}, NEW r \in Record!Records, NEW id \in Ids
  PROVE  Changed(j, r, id).agent =
           IF j.kind = "rename" THEN j.id
           ELSE IF j.kind = "print" /\ r.agent = Nothing THEN id ELSE r.agent
<1> USE JobShape DEF Record!Records, Changed
<1>1. CASE j.kind = "count"
  BY <1>1 DEF Record!Counted
<1>2. CASE j.kind = "lift"
  BY <1>2 DEF Record!Raised
<1>3. CASE j.kind = "account"
  BY <1>3 DEF Record!Accounted
<1>4. CASE j.kind = "rename"
  BY <1>4 DEF Record!Renamed
<1>5. CASE j.kind = "print"
  BY <1>5 DEF Record!Printed
<1>6. CASE j.kind \notin {"count", "lift", "account", "rename", "print"}
  BY <1>6 DEF Record!Confirmed
<1>7. QED
  BY <1>1, <1>2, <1>3, <1>4, <1>5, <1>6

\* A call that does not bring an id finds one when it writes: its caller has
\* asked for it, or it has looked; and a rename has written one before it
\* removes the directory's.
NamedCall(t) ==
  /\ at[t] \notin Outside => job[t] \in AllJobs
  /\ at[t] = "read" => job[t].kind \in {"rename", "override"}
  /\ at[t] = "ready" => job[t].kind # "resolve"
  /\ at[t] \notin Outside /\ job[t].kind \in {"count", "lift", "account"}
       => content.agent # Nothing
  /\ at[t] = "ready" /\ job[t].kind = "confirm" /\ project = Nothing
       => content.agent # Nothing
  /\ at[t] = "written" => content.agent # Nothing

NamedInv == \A t \in Threads : NamedCall(t)

\* A device without an id has never made one up.
BornInv ==
  /\ content.agent = Nothing => born = {}
  /\ \A i1, i2 \in born : i1 = i2

\* Every write leaves the device with an id.
LEMMA WriteNames ==
  ASSUME LockInv, NamedInv, NEW t \in Threads, Write(t)
  PROVE  content'.agent # Nothing
<1>1. /\ job[t] \in AllJobs /\ job[t].kind # "resolve"
      /\ job[t].kind \in {"count", "lift", "account"} => content.agent # Nothing
      /\ job[t].kind = "confirm" /\ project = Nothing => content.agent # Nothing
  BY DEF NamedInv, NamedCall, Write, Outside
<1>2. job[t].kind # "override" /\ (job[t].kind = "confirm" => project = Nothing)
  BY DEF Write, WritesProject
<1>3. job[t].kind \in {"count", "lift", "account", "confirm", "rename", "print"}
  BY <1>1, <1>2 DEF AllJobs
<1>4. content'.agent = Changed(job[t], content, Suggested[t]).agent
  BY DEF LockInv, FreshInv, Write
<1>5. content \in Record!Records /\ Suggested[t] \in Ids
  BY IdentityFileAssumption DEF LockInv, TypeInv, TypeOK
<1>6. QED
  BY <1>1, <1>2, <1>3, <1>4, <1>5, ChangedAgent, JobShape, IdentityFileAssumption

\* A device that has an id keeps one.
LEMMA IdIsKept ==
  ASSUME LockInv, NamedInv, [Next]_vars, content.agent # Nothing
  PROVE  content'.agent # Nothing
<1>1. ASSUME NEW t \in Threads, Fill(t)
      PROVE  content'.agent # Nothing
  <2>1. content' = Record!Born(Suggested[t])
    BY <1>1 DEF Fill, LockInv, FreshInv
  <2>2. QED
    BY <2>1, IdentityFileAssumption DEF Record!Born, Record!Blank
<1>2. QED
  BY <1>1, WriteNames, OtherStepsLeaveRecord

\* What becomes of the directory's file.
LEMMA ProjectChanges ==
  ASSUME LockInv, [Next]_vars
  PROVE  \/ UNCHANGED project
         \/ project' \in ProjectRecords
         \/ \E t \in Threads : Unlink(t)
<1>1. ASSUME NEW t \in Threads, WriteProject(t)
      PROVE  project' \in ProjectRecords
  <2>1. job[t].kind = "override" => job[t].id \in Ids
    BY JobShape DEF LockInv, TypeInv, TypeOK
  <2>2. job[t].kind # "override" => project.agent \in Ids
    BY <1>1 DEF WriteProject, WritesProject, LockInv, TypeInv, TypeOK, ProjectRecords
  <2>3. QED
    BY <1>1, <2>1, <2>2 DEF WriteProject, ProjectRecords
<1>2. ASSUME NEW t \in Threads, ~WriteProject(t), ~Unlink(t),
             \/ LookAtProject(t) \/ LookAtGlobal(t) \/ Proceed(t)
             \/ WriteFails(t) \/ \E j \in Jobs[t] : Enter(t, j)
      PROVE  UNCHANGED project
  BY <1>2 DEF Proceed, LookAtProject, LookAtGlobal, WriteFails, Enter, TakeFlock,
     Holding, Read, Nest, Write, Create, Fill, Leave, files
<1>3. ASSUME NEW p \in Procs, Crash(p)
      PROVE  UNCHANGED project
  BY <1>3 DEF Crash, files
<1>4. CASE UNCHANGED vars
  BY <1>4 DEF vars
<1>5. QED
  BY <1>1, <1>2, <1>3, <1>4 DEF Next

\* It is not removed under a thread that is about to write.
LEMMA ProjectStays ==
  ASSUME LockInv, [Next]_vars, project # Nothing, NEW t \in Threads,
         at[t] = "ready"
  PROVE  project' # Nothing
<1>1. ASSUME NEW u \in Threads, Unlink(u)
      PROVE  FALSE
  BY <1>1, OneInside DEF Unlink, Inside
<1>2. QED
  BY <1>1, ProjectChanges, IdentityFileAssumption

LEMMA NamedInit == Init => NamedInv /\ BornInv
BY DEF Init, NamedInv, NamedCall, BornInv, Outside

LEMMA NamedNext ==
  ASSUME LocksWork, LockInv, NamedInv, [Next]_vars
  PROVE  NamedInv'
<1> SUFFICES ASSUME NEW u \in Threads
             PROVE  NamedCall(u)'
  BY DEF NamedInv
<1> USE DEF LockInv, TypeInv, TypeOK, Outside
<1>a. NamedCall(u) /\ (content.agent # Nothing => content'.agent # Nothing)
  BY IdIsKept DEF NamedInv
<1>b. at[u] = "ready" /\ project' = Nothing => project = Nothing
  BY ProjectStays
<1>1. ASSUME NEW t \in Threads, LookAtProject(t)
      PROVE  NamedCall(u)'
  BY <1>1, <1>a, <1>b DEF NamedCall, LookAtProject, files, locks
<1>2. ASSUME NEW t \in Threads, LookAtGlobal(t)
      PROVE  NamedCall(u)'
  BY <1>2, <1>a, <1>b DEF NamedCall, LookAtGlobal, files, locks
<1>3. ASSUME NEW t \in Threads, NEW j \in Jobs[t], Enter(t, j)
      PROVE  NamedCall(u)'
  BY <1>3, <1>a, <1>b, IdentityFileAssumption DEF NamedCall, Enter, Callable, files
<1>4. ASSUME NEW t \in Threads, TakeFlock(t)
      PROVE  NamedCall(u)'
  BY <1>4, <1>a, <1>b DEF NamedCall, TakeFlock, Holding, files
<1>5. ASSUME NEW t \in Threads, Read(t)
      PROVE  NamedCall(u)'
  BY <1>5, <1>a, <1>b DEF NamedCall, Read, NothingToDo, FreshInv, files, locks
<1>6. ASSUME NEW t \in Threads, Nest(t)
      PROVE  NamedCall(u)'
  BY <1>6, <1>a, <1>b DEF NamedCall, Nest, files
<1>7. ASSUME NEW t \in Threads, WriteProject(t)
      PROVE  NamedCall(u)'
  BY <1>7, <1>a, <1>b DEF NamedCall, WriteProject
<1>8. ASSUME NEW t \in Threads, Write(t)
      PROVE  NamedCall(u)'
  BY <1>8, <1>a, <1>b, WriteNames DEF NamedCall, Write
<1>9. ASSUME NEW t \in Threads, Unlink(t)
      PROVE  NamedCall(u)'
  BY <1>9, <1>a, <1>b DEF NamedCall, Unlink, locks
<1>10. ASSUME NEW t \in Threads, Create(t)
      PROVE  NamedCall(u)'
  BY <1>10, <1>a, <1>b DEF NamedCall, Create, locks
<1>11. ASSUME NEW t \in Threads, Fill(t)
      PROVE  NamedCall(u)'
  BY <1>11, <1>a, <1>b DEF NamedCall, Fill, locks
<1>12. ASSUME NEW t \in Threads, Leave(t)
      PROVE  NamedCall(u)'
  BY <1>12, <1>a, <1>b DEF NamedCall, Leave, files
<1>13. ASSUME NEW t \in Threads, WriteFails(t)
      PROVE  NamedCall(u)'
  BY <1>13, <1>a, <1>b DEF NamedCall, WriteFails, files
<1>14. ASSUME NEW p \in Procs, Crash(p)
      PROVE  NamedCall(u)'
  BY <1>14, <1>a, <1>b DEF NamedCall, Crash, files
<1>15. CASE UNCHANGED vars
  BY <1>15, <1>a DEF NamedCall, vars
<1>16. QED
  BY <1>1, <1>2, <1>3, <1>4, <1>5, <1>6, <1>7, <1>8, <1>9, <1>10, <1>11, <1>12, <1>13, <1>14, <1>15 DEF Next, Proceed

LEMMA BornNext ==
  ASSUME LockInv, NamedInv, BornInv, [Next]_vars
  PROVE  BornInv'
<1>1. ASSUME NEW t \in Threads, Write(t)
      PROVE  BornInv'
  <2>1. content'.agent # Nothing
    BY <1>1, WriteNames
  <2>2. got[t] = content
    BY <1>1 DEF LockInv, FreshInv, Write
  <2>3. born' = born \/ (content.agent = Nothing /\ born' = born \cup {Suggested[t]})
    BY <1>1, <2>2 DEF Write
  <2>4. QED
    BY <2>1, <2>3 DEF BornInv
<1>2. ASSUME NEW t \in Threads, Fill(t)
      PROVE  BornInv'
  <2>1. content = Blank /\ content' = Record!Born(Suggested[t])
        /\ born' = born \cup {Suggested[t]}
    BY <1>2 DEF Fill, LockInv, FreshInv, TypeInv, TypeOK
  <2>2. content.agent = Nothing /\ content'.agent = Suggested[t]
    BY <2>1 DEF Blank, Record!Blank, Record!Born
  <2>3. QED
    BY <2>1, <2>2, IdentityFileAssumption DEF BornInv
<1>3. CASE UNCHANGED <<content, issued, born>>
  BY <1>3 DEF BornInv
<1>4. QED
  BY <1>1, <1>2, <1>3, OtherStepsLeaveRecord

LEMMA NamedCorrect ==
  ASSUME LocksWork
  PROVE  Spec => [](NamedInv /\ BornInv)
<1>1. LockInv /\ NamedInv /\ BornInv /\ [Next]_vars => NamedInv' /\ BornInv'
  BY NamedNext, BornNext
<1>2. QED
  BY <1>1, NamedInit, LockCorrect, PTL DEF Spec

\* resolve_agent_id and save_fingerprint: whichever gates start on a new device,
\* and wherever they are killed, one id is made up and written.
THEOREM OneBirth == LocksWork /\ Spec => []BornOnce
<1> SUFFICES ASSUME LocksWork
             PROVE  Spec => []BornOnce
  OBVIOUS
<1>1. ASSUME BornInv
      PROVE  BornOnce
  <2>1. CASE born = {}
    BY <2>1, FS_EmptySet DEF BornOnce
  <2>2. CASE born # {}
    <3>1. PICK i : born = {i}
      BY <1>1, <2>2 DEF BornInv
    <3>2. QED
      BY <3>1, FS_Singleton DEF BornOnce
  <2>3. QED
    BY <2>1, <2>2
<1>2. QED
  BY <1>1, NamedCorrect, PTL

\* "Global write first": no step of a rename, of its unlink or of any other call
\* leaves a process without the id it had, whichever write fails or is cut off.
THEOREM IdStays == LocksWork /\ Spec => NeverIdless
<1> SUFFICES ASSUME LocksWork
             PROVE  Spec => NeverIdless
  OBVIOUS
<1>1. ASSUME LockInv, NamedInv, [Next]_vars, InForce # Nothing
      PROVE  InForce' # Nothing
  <2>1. content.agent # Nothing => content'.agent # Nothing
    BY <1>1, IdIsKept
  <2>2. CASE UNCHANGED project
    BY <1>1, <2>1, <2>2 DEF InForce
  <2>3. CASE project' \in ProjectRecords
    BY <2>3, IdentityFileAssumption DEF InForce, ProjectRecords
  <2>4. ASSUME NEW t \in Threads, Unlink(t)
        PROVE  InForce' # Nothing
    <3>1. content.agent # Nothing /\ project' \in {Nothing, project}
      BY <1>1, <2>4 DEF Unlink, NamedInv, NamedCall
    <3>2. QED
      BY <1>1, <2>1, <3>1 DEF InForce
  <2>5. QED
    BY <1>1, <2>2, <2>3, <2>4, ProjectChanges
<1>2. LockInv /\ NamedInv /\ [Next]_vars
        => [InForce # Nothing => InForce' # Nothing]_vars
  BY <1>1
<1>3. QED
  BY <1>2, LockCorrect, NamedCorrect, PTL DEF Spec, NeverIdless

=============================================================================
