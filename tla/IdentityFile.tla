---------------------------- MODULE IdentityFile ----------------------------
(***************************************************************************)
(* identity.json and the processes that write it.                          *)
(*                                                                         *)
(* Every writer reads the whole record, changes it and replaces the file,  *)
(* inside _identity_lock(): a lock among the threads of a process, and one *)
(* among processes that the kernel gives back when its holder dies and     *)
(* that some file systems do not have.  The file is born in two steps,     *)
(* without a replacement: created empty, then filled.                      *)
(*                                                                         *)
(* A directory may have an identity file of its own, which hides the       *)
(* device's; all processes here run in one such directory.                 *)
(*                                                                         *)
(* issued and born are history: no code reads them.                        *)
(***************************************************************************)
EXTENDS Integers, FiniteSets

CONSTANTS
  Procs,       \* gate processes
  Threads,     \* their threads
  Home,        \* the process a thread belongs to
  Flocks,      \* the processes for which flock works
  Jobs,        \* the calls a thread may make, a subset of AllJobs
  MaxOrdinal,  \* bound: no ordinal is asked for once this one is taken
  Ids, Names,  \* agent ids and account names
  Suggested,   \* the id suggest_agent_id() makes up, per thread
  Nothing,     \* None
  Faults       \* the faults that may happen, a subset of {"crash", "full"}

\* full: a write raises OSError.  A crash ends a process and all its threads.
AllJobs ==
  [kind : {"count", "print", "confirm", "resolve"}]
    \cup [kind : {"lift"}, to : Nat]
    \cup [kind : {"account"}, name : Names]
    \cup [kind : {"rename"}, id : Ids, drop : BOOLEAN]
    \cup [kind : {"override"}, id : Ids]

\* A directory's own file.
ProjectRecords == [agent : Ids, confirmed : BOOLEAN]

ASSUME IdentityFileAssumption ==
  /\ Home \in [Threads -> Procs]
  /\ Flocks \subseteq Procs
  /\ Jobs \in [Threads -> SUBSET AllJobs]
  /\ Suggested \in [Threads -> Ids]
  /\ Nothing \notin Ids \cup Names \cup Threads \cup Procs \cup ProjectRecords
  /\ MaxOrdinal \in Nat
  /\ Faults \subseteq {"crash", "full"}

VARIABLES
  file,      \* ~/.antrozous/identity.json: "absent", "empty" or "written"
  content,   \* what is written in it
  project,   \* the directory's own identity.json, or Nothing
  local,     \* process -> the thread that holds _LOCAL_LOCK
  depth,     \* process -> _LOCAL_DEPTH
  flock,     \* the process that holds the lock file
  at,        \* thread -> where it stands
  job,       \* thread -> the call it executes
  got,       \* thread -> the record it has read
  issued,    \* the ordinals next_ordinal has returned
  born       \* the ids that were made up and written

vars == <<file, content, project, local, depth, flock, at, job, got,
          issued, born>>

\* The record, if it were not a file.
Record == INSTANCE IdentityRecord WITH record <- content
Blank == Record!Blank

NoJob == [kind |-> "none"]
Outside == {"idle", "looked", "nameless"}
Inside == {"locked", "read", "ready", "written", "created", "done", "raised"}

TypeOK ==
  /\ file \in {"absent", "empty", "written"}
  /\ content \in Record!Records
  /\ file # "written" => content = Blank
  /\ project \in ProjectRecords \cup {Nothing}
  /\ local \in [Procs -> Threads \cup {Nothing}]
  /\ depth \in [Procs -> 0..2]
  /\ flock \in Procs \cup {Nothing}
  /\ at \in [Threads -> Outside \cup {"waiting"} \cup Inside]
  /\ job \in [Threads -> AllJobs \cup {NoJob}]
  /\ got \in [Threads -> Record!Records]
  /\ issued \subseteq Nat
  /\ born \subseteq Ids
  /\ \A t \in Threads : at[t] \notin Outside => local[Home[t]] = t
  /\ \A p \in Procs : local[p] = Nothing => depth[p] = 0

Init ==
  /\ file = "absent"
  /\ content = Blank
  /\ project = Nothing
  /\ local = [p \in Procs |-> Nothing]
  /\ depth = [p \in Procs |-> 0]
  /\ flock = Nothing
  /\ at = [t \in Threads |-> "idle"]
  /\ job = [t \in Threads |-> NoJob]
  /\ got = [t \in Threads |-> Blank]
  /\ issued = {}
  /\ born = {}

files == <<file, content, project>>
locks == <<local, depth, flock>>
history == <<issued, born>>

\* The id resolve_agent_id() finds: the directory's own, else the device's.
InForce == IF project # Nothing THEN project.agent ELSE content.agent

-----------------------------------------------------------------------------
(* resolve_agent_id looks without the lock, at one file after the other. *)

LookAtProject(t) ==
  /\ at[t] = "idle"
  /\ [kind |-> "resolve"] \in Jobs[t]
  /\ project = Nothing
  /\ at' = [at EXCEPT ![t] = "looked"]
  /\ UNCHANGED <<files, locks, job, got, history>>

LookAtGlobal(t) ==
  /\ at[t] = "looked"
  /\ at' = [at EXCEPT ![t] = IF content.agent = Nothing THEN "nameless" ELSE "idle"]
  /\ UNCHANGED <<files, locks, job, got, history>>

-----------------------------------------------------------------------------
(* _identity_lock. *)

\* The callers of next_ordinal, seed_counter_from_records and set_account_name
\* have asked for the account's name first, or have just written it.
Callable(j) ==
  /\ j.kind \in {"count", "lift", "account"} => content.agent # Nothing
  /\ j.kind = "count" => content.counter < MaxOrdinal

\* _LOCAL_LOCK, by a thread that does not hold it.
Enter(t, j) ==
  /\ \/ at[t] = "idle" /\ j.kind # "resolve" /\ Callable(j)
     \/ at[t] = "nameless" /\ j.kind = "resolve"
  /\ local[Home[t]] = Nothing
  /\ local' = [local EXCEPT ![Home[t]] = t]
  /\ at' = [at EXCEPT ![t] = "waiting"]
  /\ job' = [job EXCEPT ![t] = j]
  /\ UNCHANGED <<files, depth, flock, got, history>>

Holding(t) ==
  /\ depth' = [depth EXCEPT ![Home[t]] = 1]
  /\ at' = [at EXCEPT ![t] = "locked"]
  /\ UNCHANGED <<files, local, job, got, history>>

TakeNoFlock(t) ==                             \* mutant: nobody is waited for
  /\ at[t] = "waiting"
  /\ flock' = Home[t]
  /\ Holding(t)

\* _take_flock, which waits for the other processes where flock works.
TakeFlock(t) ==
  /\ at[t] = "waiting"
  /\ Home[t] \in Flocks => flock = Nothing
  /\ flock' = IF Home[t] \in Flocks THEN Home[t] ELSE flock
  /\ Holding(t)

NestAnew(t) ==                                \* mutant: the lock is taken again
  /\ at[t] = "read"
  /\ flock = Nothing
  /\ depth' = [depth EXCEPT ![Home[t]] = @ + 1]
  /\ at' = [at EXCEPT ![t] = "ready"]
  /\ UNCHANGED <<files, local, flock, job, got, history>>

\* _write_identity takes the lock its caller holds: one level deeper.
Nest(t) ==
  /\ at[t] = "read"
  /\ depth[Home[t]] # 0
  /\ depth' = [depth EXCEPT ![Home[t]] = @ + 1]
  /\ at' = [at EXCEPT ![t] = "ready"]
  /\ UNCHANGED <<files, local, flock, job, got, history>>

LeaveKeepsDepth(t) ==                         \* mutant: depth is left behind
  /\ at[t] \in {"done", "raised"}
  /\ flock' = IF flock = Home[t] THEN Nothing ELSE flock
  /\ local' = [local EXCEPT ![Home[t]] = Nothing]
  /\ at' = [at EXCEPT ![t] = "idle"]
  /\ job' = [job EXCEPT ![t] = NoJob]
  /\ got' = [got EXCEPT ![t] = Blank]
  /\ UNCHANGED <<files, depth, history>>

\* The end of the with statement, reached by exceptions too.
Leave(t) ==
  /\ at[t] \in {"done", "raised"}
  /\ depth' = [depth EXCEPT ![Home[t]] = 0]
  /\ flock' = IF flock = Home[t] THEN Nothing ELSE flock
  /\ local' = [local EXCEPT ![Home[t]] = Nothing]
  /\ at' = [at EXCEPT ![t] = "idle"]
  /\ job' = [job EXCEPT ![t] = NoJob]
  /\ got' = [got EXCEPT ![t] = Blank]
  /\ UNCHANGED <<files, history>>

-----------------------------------------------------------------------------
(* Read, change, write. *)

\* The calls that find nothing to change and return without a write.
NothingToDo(j) ==
  \/ j.kind = "lift" /\ j.to <= content.counter
  \/ j.kind = "print" /\ content.print
  \/ j.kind = "confirm" /\ project # Nothing /\ project.confirmed
  \/ j.kind = "confirm" /\ project = Nothing
       /\ (content.agent = Nothing \/ content.confirmed)

Read(t) ==
  /\ at[t] = "locked"
  /\ job[t].kind # "resolve"
  /\ got' = [got EXCEPT ![t] = content]
  /\ at' = [at EXCEPT ![t] =
       CASE NothingToDo(job[t]) -> "done"
         [] job[t].kind \in {"rename", "override"} -> "read"
         [] OTHER -> "ready"]
  /\ UNCHANGED <<files, locks, job, history>>

\* set_agent_id(scope="project") and, where a directory has its own id,
\* mark_confirmed write the directory's file.
WritesProject(j) ==
  j.kind = "override" \/ (j.kind = "confirm" /\ project # Nothing)

WriteProject(t) ==
  /\ at[t] = "ready"
  /\ WritesProject(job[t])
  /\ project' = [agent |-> IF job[t].kind = "override" THEN job[t].id
                                                      ELSE project.agent,
                 confirmed |-> TRUE]
  /\ depth' = [depth EXCEPT ![Home[t]] = 1]
  /\ at' = [at EXCEPT ![t] = "done"]
  /\ UNCHANGED <<file, content, local, flock, job, got, history>>

\* What the device's record becomes.
Changed(j, r, suggested) ==
  CASE j.kind = "count" -> Record!Counted(r)
    [] j.kind = "lift" -> Record!Raised(r, j.to)
    [] j.kind = "account" -> Record!Accounted(r, j.name)
    [] j.kind = "rename" -> Record!Renamed(r, j.id)
    [] j.kind = "print" -> Record!Printed(r, suggested)
    [] OTHER -> Record!Confirmed(r)

\* _write_json replaces the file.
Write(t) ==
  /\ at[t] = "ready"
  /\ ~WritesProject(job[t])
  /\ file' = "written"
  /\ content' = Changed(job[t], got[t], Suggested[t])
  /\ issued' = IF job[t].kind = "count" THEN issued \cup {got[t].counter + 1}
                                       ELSE issued
  /\ born' = IF job[t].kind = "print" /\ got[t].agent = Nothing
               THEN born \cup {Suggested[t]} ELSE born
  /\ depth' = [depth EXCEPT ![Home[t]] = 1]
  /\ at' = [at EXCEPT ![t] =
       IF job[t].kind = "rename" /\ job[t].drop THEN "written" ELSE "done"]
  /\ UNCHANGED <<project, local, flock, job, got>>

\* The directory's file is removed after the write; OSError is ignored.
Unlink(t) ==
  /\ at[t] = "written"
  /\ project' \in {Nothing, project}
  /\ at' = [at EXCEPT ![t] = "done"]
  /\ UNCHANGED <<file, content, locks, job, got, history>>

WriteFailsButUnlinks(t) ==                    \* mutant: carries on regardless
  /\ "full" \in Faults
  /\ at[t] = "ready"
  /\ depth' = [depth EXCEPT ![Home[t]] = 1]
  /\ at' = [at EXCEPT ![t] =
       IF job[t].kind = "rename" /\ job[t].drop THEN "written" ELSE "raised"]
  /\ UNCHANGED <<files, local, flock, job, got, history>>

\* A write raises, and the call with it.
WriteFails(t) ==
  /\ "full" \in Faults
  /\ at[t] \in {"ready", "created"}
  /\ depth' = [depth EXCEPT ![Home[t]] = 1]
  /\ at' = [at EXCEPT ![t] = "raised"]
  /\ UNCHANGED <<files, local, flock, job, got, history>>

-----------------------------------------------------------------------------
(* _generate_and_persist. *)

CreateAnyway(t) ==                            \* mutant: without O_EXCL
  /\ at[t] = "locked"
  /\ job[t].kind = "resolve"
  /\ file' = "empty"
  /\ content' = Blank
  /\ at' = [at EXCEPT ![t] = "created"]
  /\ UNCHANGED <<project, locks, job, got, history>>

\* The exclusive create.  If the file exists its id is the answer, and it is
\* an error if it has none.
Create(t) ==
  /\ at[t] = "locked"
  /\ job[t].kind = "resolve"
  /\ \/ /\ file = "absent"
        /\ file' = "empty"
        /\ at' = [at EXCEPT ![t] = "created"]
     \/ /\ file # "absent"
        /\ file' = file
        /\ at' = [at EXCEPT ![t] =
             IF content.agent = Nothing THEN "raised" ELSE "done"]
  /\ UNCHANGED <<content, project, locks, job, got, history>>

\* The new file is filled, unless it has been replaced in the meantime.
Fill(t) ==
  /\ at[t] = "created"
  /\ at' = [at EXCEPT ![t] = "done"]
  /\ IF file = "empty"
       THEN /\ file' = "written"
            /\ content' = Record!Born(Suggested[t])
            /\ born' = born \cup {Suggested[t]}
       ELSE UNCHANGED <<file, content, born>>
  /\ UNCHANGED <<project, locks, job, got, issued>>

-----------------------------------------------------------------------------

\* A process is killed; the kernel takes its lock back.  Another one starts.
Crash(p) ==
  /\ "crash" \in Faults
  /\ local[p] # Nothing
  /\ local' = [local EXCEPT ![p] = Nothing]
  /\ depth' = [depth EXCEPT ![p] = 0]
  /\ flock' = IF flock = p THEN Nothing ELSE flock
  /\ at' = [t \in Threads |-> IF Home[t] = p THEN "idle" ELSE at[t]]
  /\ job' = [t \in Threads |-> IF Home[t] = p THEN NoJob ELSE job[t]]
  /\ got' = [t \in Threads |-> IF Home[t] = p THEN Blank ELSE got[t]]
  /\ UNCHANGED <<files, history>>

\* What a thread does once it has called.
Proceed(t) ==
  \/ TakeFlock(t) \/ Read(t) \/ Nest(t) \/ WriteProject(t) \/ Write(t)
  \/ Unlink(t) \/ Create(t) \/ Fill(t) \/ Leave(t)

Next ==
  \/ \E t \in Threads :
       \/ LookAtProject(t)
       \/ LookAtGlobal(t)
       \/ \E j \in Jobs[t] : Enter(t, j)
       \/ Proceed(t)
       \/ WriteFails(t)
  \/ \E p \in Procs : Crash(p)

Spec == Init /\ [][Next]_vars

\* Threads run on.  Nobody has to call.
FairSpec == Spec /\ \A t \in Threads : WF_vars(Proceed(t))

-----------------------------------------------------------------------------
(* What makes it correct. *)

\* Where flock works, calls "cannot interleave into a lost update": the file
\* behaves like one object that every call changes in a single step.
AtomicRecord == Record!Spec

\* "Never reuses a number under the lock": no number next_ordinal returns was
\* returned before, whichever calls wrote the record in between.
NeverReissued ==
  [][\A t \in Threads :
       at[t] = "ready" /\ at'[t] = "done" /\ job[t].kind = "count"
         => got[t].counter + 1 \notin issued]_vars

\* Two gates that start on a new device agree on its id: one id is made up and
\* written, by whichever of them comes first.
BornOnce == Cardinality(born) <= 1

\* "Global write first: a failed unlink leaves us un-consolidated, not
\* id-less": an id is never taken away, not even for a moment.
NeverIdless == [][InForce # Nothing => InForce' # Nothing]_vars

\* "A process SIGKILLed mid-write cannot wedge the next session", and a call
\* inside a call does not wait for itself.
LockIsReleased == \A p \in Procs : flock = p ~> flock # p

=============================================================================
