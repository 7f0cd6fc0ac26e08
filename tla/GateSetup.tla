------------------------------ MODULE GateSetup -------------------------------
(***************************************************************************)
(* How the sessions of one device come to their addresses: the start of a  *)
(* gate, its two popups with their timers, declining, renaming, and the    *)
(* tool calls in whose prompts a popup's answer may arrive.                *)
(*                                                                         *)
(* A gate has a main thread, which reads one message after the other, and  *)
(* timers with threads of their own.  While a tool call waits for its      *)
(* prompt (_elicit) the main thread goes on handling the answers to both   *)
(* popups.  All gates share the identity record; IdentityFile shows that   *)
(* each change of it is one step, and Sessions takes registering apart.    *)
(*                                                                         *)
(* A name is a stem and the ordinals behind it: <<bot>> is an account,     *)
(* <<bot, 3>> its third session, and also the account name `bot-3` of a    *)
(* user who typed that.  The fingerprint is the same in all of them.       *)
(***************************************************************************)
EXTENDS Integers, SequencesExt

CONSTANTS
  Gates,        \* sessions of the device, each with a gate
  Stems,        \* what names begin with
  Typed,        \* account names a user may type
  Placeholder,  \* the name a new device makes up for itself
  OldNames,     \* addresses in the records of an older version
  OldConfirmed, \* whether an older version's identity.json may have the
                \* confirmed flag, and may lack it
  MaxLaunches,  \* bound: gates launched in all
  Nothing       \* None

Names == Seq(Stems \cup Nat) \ {<<>>}
NameOrNone == Names \cup {Nothing}
Calls == [tool : {"set_identity", "send_message"}, before : NameOrNone, open : BOOLEAN]

ASSUME GateSetupAssumption ==
  /\ Typed \subseteq Names
  /\ Placeholder \in Names
  /\ OldNames \subseteq {n \in Names : Len(n) > 1}
  /\ OldConfirmed \subseteq BOOLEAN
  /\ \A n \in Typed \cup OldNames \cup {Placeholder} :
       Len(n) > 1 => Last(n) \in Nat
  /\ MaxLaunches \in Nat
  /\ Nothing \notin Names \cup Calls

VARIABLES
  record,     \* identity.json
  saved,      \* session -> the agent_id in its record, or Nothing
  launches,   \* gates launched so far
  asks,       \* gate -> CLIENT_ELICITATION
  job,        \* gate -> what its main thread is in the middle of
  name,       \* gate -> the name that job works with
  number,     \* gate -> the ordinal that job has taken, or 0
  call,       \* gate -> the tool call it serves, or Nothing
  adopted,    \* gate -> SESSION_AGENT_ID
  declined,   \* gate -> SESSION_DECLINED
  first,      \* gate -> it found a device without a name
  timers,     \* gate -> its timers that run
  pending,    \* gate -> popups it waits for (_startup_pending, _migration_pending)
  shown,      \* gate -> popups its user has not answered
  own,        \* session -> the address its ordinal gave it (history)
  crossed,    \* gates whose naming popup was answered in a tool call (history)
  overtaken,  \* gates whose decision is older than the name on record (history)
  late        \* gates that have given up their migration popup (history)

shared == <<record, saved>>
main == <<job, name, number, call>>
session == <<adopted, declined>>
popups == <<timers, pending, shown>>
history == <<own, crossed, overtaken, late>>
vars == <<shared, launches, asks, first, main, session, popups, history>>

Popups == {"naming", "migration"}
Jobs == {"off", "idle", "seeding", "numbering", "adopting", "offering",
         "recording", "savingId", "savingName", "repinning"}
Records == [agent : Names, confirmed : BOOLEAN, account : NameOrNone, counter : Nat]

\* The session is addressable while the migration popup is on screen, and a
\* main thread that saves a name, or adopts an address, has one.
Equipped(g) ==
  /\ "migration" \in shown[g] => adopted[g] # Nothing
  /\ job[g] \in {"savingId", "savingName"} => name[g] # Nothing
  /\ job[g] = "adopting" => name[g] # Nothing \/ number[g] # 0

TypeOK ==
  /\ record \in Records
  /\ saved \in [Gates -> NameOrNone]
  /\ launches \in 0..MaxLaunches
  /\ asks \in [Gates -> BOOLEAN]
  /\ job \in [Gates -> Jobs]
  /\ name \in [Gates -> NameOrNone]
  /\ number \in [Gates -> Nat]
  /\ call \in [Gates -> Calls \cup {Nothing}]
  /\ adopted \in [Gates -> NameOrNone]
  /\ declined \in [Gates -> BOOLEAN]
  /\ first \in [Gates -> BOOLEAN]
  /\ timers \in [Gates -> SUBSET {"naming", "offer", "answer"}]
  /\ pending \in [Gates -> SUBSET Popups]
  /\ shown \in [Gates -> SUBSET Popups]
  /\ own \in [Gates -> NameOrNone]
  /\ crossed \subseteq Gates
  /\ overtaken \subseteq Gates
  /\ late \subseteq Gates
  /\ \A g \in Gates : Equipped(g)

Blank == [agent |-> Placeholder, confirmed |-> FALSE, account |-> Nothing, counter |-> 0]
Old(n, c) == [agent |-> n, confirmed |-> c, account |-> Nothing, counter |-> 0]

\* A new device, or one of an older version: its users have typed ordinals, and
\* its identity.json may be older than the flag that says so.
Init ==
  /\ \/ record = Blank /\ saved = [g \in Gates |-> Nothing]
     \/ /\ record \in {Old(n, c) : n \in OldNames, c \in OldConfirmed}
        /\ saved \in [Gates -> OldNames \cup {Nothing}]
        /\ \A g, h \in Gates : g # h /\ saved[g] # Nothing => saved[g] # saved[h]
  /\ launches = 0
  /\ asks \in [Gates -> BOOLEAN]
  /\ job = [g \in Gates |-> "off"]
  /\ name = [g \in Gates |-> Nothing]
  /\ number = [g \in Gates |-> 0]
  /\ call = [g \in Gates |-> Nothing]
  /\ adopted = [g \in Gates |-> Nothing]
  /\ declined = [g \in Gates |-> FALSE]
  /\ first = [g \in Gates |-> FALSE]
  /\ timers = [g \in Gates |-> {}]
  /\ pending = [g \in Gates |-> {}]
  /\ shown = [g \in Gates |-> {}]
  /\ own = saved
  /\ crossed = {}
  /\ overtaken = {}
  /\ late = {}

-----------------------------------------------------------------------------
(* Who answers to what. *)

\* current_agent_id(): a session that has adopted nothing, and declined
\* nothing, answers to the device's address.
Current(g) ==
  IF adopted[g] # Nothing THEN adopted[g]
  ELSE IF declined[g] THEN Nothing ELSE record.agent

\* account_name(): the stem of the sessions to come.
AccountName == IF record.account # Nothing THEN record.account ELSE record.agent

\* migration_candidate()
Candidate ==
  IF record.account = Nothing /\ Len(record.agent) > 1
    THEN Front(record.agent) ELSE Nothing

\* Mutant: the counter is not lifted.
KeepCounter == UNCHANGED record

\* The counter, and every ordinal in a session's record.
Counts ==
  {record.counter} \cup
    {Last(saved[g]) : g \in {h \in Gates : saved[h] # Nothing /\ Len(saved[h]) > 1}}

\* seed_counter_from_records()
LiftCounter ==
  \E n \in Counts :
    /\ \A o \in Counts : o <= n
    /\ record' = [record EXCEPT !.counter = n]

-----------------------------------------------------------------------------
(* The start: schedule_identity_setup. *)

\* A device without a confirmed name is asked for one, by a timer.
Launch(g) ==
  /\ job[g] = "off"
  /\ launches < MaxLaunches
  /\ launches' = launches + 1
  /\ first' = [first EXCEPT ![g] = ~record.confirmed]
  /\ IF record.confirmed
       THEN job' = [job EXCEPT ![g] = "seeding"] /\ UNCHANGED timers
       ELSE /\ job' = [job EXCEPT ![g] = "idle"]
            /\ timers' = [timers EXCEPT ![g] = {"naming"}]
  /\ UNCHANGED <<shared, asks, name, number, call, session, pending, shown, history>>

\* Mutant: the offer is made first, and the address adopted after it.
OfferFirst(g) == "offering"

\* _finish_identity_setup does nothing for a session that has an address.
AfterSeed(g) == IF adopted[g] = Nothing THEN "numbering" ELSE "idle"

Seed(g) ==
  /\ job[g] = "seeding"
  /\ LiftCounter
  /\ job' = [job EXCEPT ![g] = AfterSeed(g)]
  /\ UNCHANGED <<saved, launches, asks, first, name, number, call, session,
                 popups, history>>

\* resume_or_assign_session_id: back to the address in the session's record,
Resume(g) ==
  /\ job[g] = "numbering"
  /\ saved[g] # Nothing
  /\ name' = [name EXCEPT ![g] = saved[g]]
  /\ job' = [job EXCEPT ![g] = "adopting"]
  /\ UNCHANGED <<shared, launches, asks, first, number, call, session, popups, history>>

\* or on to the next ordinal.
TakeOrdinal(g) ==
  /\ job[g] = "numbering"
  /\ saved[g] = Nothing
  /\ record' = [record EXCEPT !.counter = @ + 1]
  /\ number' = [number EXCEPT ![g] = record.counter + 1]
  /\ job' = [job EXCEPT ![g] = "adopting"]
  /\ UNCHANGED <<saved, launches, asks, first, name, call, session, popups, history>>

\* _adopt_session_id
TakeAddress(g, a) ==
  /\ adopted' = [adopted EXCEPT ![g] = a]
  /\ declined' = [declined EXCEPT ![g] = FALSE]
  /\ saved' = [saved EXCEPT ![g] = a]

\* session_agent_id reads the stem only now.
Adopt(g) ==
  LET a == IF number[g] = 0 THEN name[g] ELSE Append(AccountName, number[g]) IN
  /\ job[g] = "adopting"
  /\ TakeAddress(g, a)
  /\ own' = IF number[g] = 0 THEN own ELSE [own EXCEPT ![g] = a]
  /\ number' = [number EXCEPT ![g] = 0]
  /\ name' = [name EXCEPT ![g] = Nothing]
  /\ job' = [job EXCEPT ![g] = IF first[g] THEN "idle" ELSE "offering"]
  /\ UNCHANGED <<record, launches, asks, first, call, popups, crossed, overtaken, late>>

-----------------------------------------------------------------------------
(* The migration popup: strip the ordinal from an account name of old. *)

\* What schedule_identity_setup does last.  A client that cannot be asked
\* declines: the name as it is goes on record.
Offer(g) ==
  /\ job[g] = "offering"
  /\ \/ /\ Candidate = Nothing
        /\ job' = [job EXCEPT ![g] = "idle"]
        /\ UNCHANGED <<timers, name>>
     \/ /\ Candidate # Nothing /\ asks[g]
        /\ job' = [job EXCEPT ![g] = "idle"]
        /\ timers' = [timers EXCEPT ![g] = @ \cup {"offer"}]
        /\ UNCHANGED name
     \/ /\ Candidate # Nothing /\ ~asks[g]
        /\ job' = [job EXCEPT ![g] = "recording"]
        /\ name' = [name EXCEPT ![g] = AccountName]
        /\ UNCHANGED timers
  /\ UNCHANGED <<shared, launches, asks, first, number, call, session, pending,
                 shown, history>>

\* offer_account_migration, on a timer's thread: it looks again.
OfferMigration(g) ==
  /\ "offer" \in timers[g]
  /\ IF Candidate = Nothing
       THEN /\ timers' = [timers EXCEPT ![g] = @ \ {"offer"}]
            /\ UNCHANGED <<pending, shown>>
       ELSE /\ timers' = [timers EXCEPT ![g] = (@ \ {"offer"}) \cup {"answer"}]
            /\ pending' = [pending EXCEPT ![g] = @ \cup {"migration"}]
            /\ shown' = [shown EXCEPT ![g] = @ \cup {"migration"}]
  /\ UNCHANGED <<shared, launches, asks, first, main, session, history>>

\* The main thread is in read_message(), at rest or for a tool call's prompt.
Listening(g) == job[g] = "idle" /\ (call[g] # Nothing => call[g].open)

\* Mutant: the answer counts whoever has given up on it.
HeedsLate(g) == TRUE

\* _handle_migration_reply's look at _migration_pending, under its lock.
Heeds(g) == "migration" \in pending[g]

\* apply_account_migration: the name an answer puts on record, if any.
Decision(answer) ==
  CASE answer = "accept" -> Candidate
    [] answer = "decline" -> AccountName
    [] OTHER -> Nothing

\* A late answer is a response to nothing, and ignored.
MigrationReply(g, answer) ==
  /\ Listening(g)
  /\ "migration" \in shown[g]
  /\ shown' = [shown EXCEPT ![g] = @ \ {"migration"}]
  /\ IF Heeds(g)
       THEN /\ pending' = [pending EXCEPT ![g] = @ \ {"migration"}]
            /\ timers' = [timers EXCEPT ![g] = @ \ {"answer"}]
            /\ name' = [name EXCEPT ![g] = Decision(answer)]
            /\ job' = [job EXCEPT ![g] = "recording"]
       ELSE UNCHANGED <<pending, timers, name, job>>
  /\ UNCHANGED <<shared, launches, asks, first, number, call, session, history>>

\* set_account_name by g: decisions taken before it are overtaken.
NewAccount(g, n) ==
  /\ record' = [record EXCEPT !.account = n]
  /\ overtaken' = (overtaken \cup {h \in Gates : job[h] = "recording"}) \ {g}

\* The write may fail, which leaves the decision to the next launch.
Record(g) ==
  /\ job[g] = "recording"
  /\ \/ name[g] # Nothing /\ NewAccount(g, name[g])
     \/ overtaken' = overtaken \ {g} /\ UNCHANGED record
  /\ name' = [name EXCEPT ![g] = Nothing]
  /\ job' = [job EXCEPT ![g] = "seeding"]
  /\ UNCHANGED <<saved, launches, asks, first, number, call, session, popups,
                 own, crossed, late>>

\* _migration_timeout, on its own thread.  Its _finish_identity_setup finds an
\* address adopted.
MigrationTimeout(g) ==
  /\ "answer" \in timers[g]
  /\ timers' = [timers EXCEPT ![g] = @ \ {"answer"}]
  /\ IF "migration" \in pending[g]
       THEN /\ pending' = [pending EXCEPT ![g] = @ \ {"migration"}]
            /\ LiftCounter
            /\ late' = late \cup {g}
       ELSE UNCHANGED <<pending, record, late>>
  /\ UNCHANGED <<saved, launches, asks, first, main, session, shown,
                 own, crossed, overtaken>>

-----------------------------------------------------------------------------
(* The naming popup of a first run. *)

\* offer_identity_setup does not look whether a name is still missing.
OfferNaming(g) ==
  /\ "naming" \in timers[g]
  /\ timers' = [timers EXCEPT ![g] = @ \ {"naming"}]
  /\ IF asks[g]
       THEN /\ pending' = [pending EXCEPT ![g] = @ \cup {"naming"}]
            /\ shown' = [shown EXCEPT ![g] = @ \cup {"naming"}]
       ELSE UNCHANGED <<pending, shown>>
  /\ UNCHANGED <<shared, launches, asks, first, main, session, history>>

\* _handle_startup_reply takes the answer it has been waiting for.
NamingAnswered(g) ==
  /\ Listening(g)
  /\ "naming" \in pending[g] \cap shown[g]
  /\ pending' = [pending EXCEPT ![g] = @ \ {"naming"}]
  /\ shown' = [shown EXCEPT ![g] = @ \ {"naming"}]
  /\ crossed' = IF call[g] = Nothing THEN crossed ELSE crossed \cup {g}
  /\ UNCHANGED <<record, launches, asks, first, number, call, timers, own, overtaken, late>>

\* The client does not support the prompt: everything stays as it is.
NamingFails(g) ==
  /\ NamingAnswered(g)
  /\ UNCHANGED <<saved, name, job, session>>

NamingDeclined(g) ==
  /\ NamingAnswered(g)
  /\ declined' = [declined EXCEPT ![g] = TRUE]
  /\ UNCHANGED <<saved, name, job, adopted>>

\* A name that is none: the session takes the device's address.
NamingRejected(g) ==
  /\ NamingAnswered(g)
  /\ TakeAddress(g, record.agent)
  /\ UNCHANGED <<name, job>>

NamingAccepted(g, n) ==
  /\ NamingAnswered(g)
  /\ name' = [name EXCEPT ![g] = n]
  /\ job' = [job EXCEPT ![g] = "savingId"]
  /\ UNCHANGED <<saved, session>>

-----------------------------------------------------------------------------
(* Tool calls: set_identity, and send_message's return address. *)

\* Past its prompt, set_identity is what the main thread works for.
Renaming(g) ==
  call[g] # Nothing /\ call[g].tool = "set_identity" /\ ~call[g].open

CallEnds(g) ==
  /\ call' = [call EXCEPT ![g] = Nothing]
  /\ crossed' = crossed \ {g}

\* session_before is captured before the prompt; a client that cannot be asked
\* is refused.
SetIdentity(g) ==
  /\ job[g] = "idle"
  /\ call[g] = Nothing
  /\ asks[g]
  /\ call' = [call EXCEPT ![g] =
       [tool |-> "set_identity", before |-> Current(g), open |-> TRUE]]
  /\ UNCHANGED <<shared, launches, asks, first, job, name, number, session, popups, history>>

RenameAccepted(g, n) ==
  /\ job[g] = "idle"
  /\ call[g] # Nothing /\ call[g].tool = "set_identity"
  /\ call' = [call EXCEPT ![g].open = FALSE]
  /\ name' = [name EXCEPT ![g] = n]
  /\ job' = [job EXCEPT ![g] = "savingId"]
  /\ UNCHANGED <<shared, launches, asks, first, number, session, popups, history>>

\* Declining confirms the name there is; dismissing does nothing.
RenameRefused(g) ==
  /\ job[g] = "idle"
  /\ call[g] # Nothing /\ call[g].tool = "set_identity"
  /\ CallEnds(g)
  /\ \/ record' = [record EXCEPT !.confirmed = TRUE]
     \/ UNCHANGED record
  /\ UNCHANGED <<saved, launches, asks, first, job, name, number, session, popups,
                 own, overtaken, late>>

\* set_agent_id, for the popup and for the tool.
SaveId(g) ==
  /\ job[g] = "savingId"
  /\ record' = [record EXCEPT !.agent = name[g], !.confirmed = TRUE]
  /\ job' = [job EXCEPT ![g] = "savingName"]
  /\ UNCHANGED <<saved, launches, asks, first, name, number, call, session, popups, history>>

\* It fails: the popup goes on to a number, the tool reports it.
SaveIdFails(g) ==
  /\ job[g] = "savingId"
  /\ name' = [name EXCEPT ![g] = Nothing]
  /\ IF Renaming(g)
       THEN job' = [job EXCEPT ![g] = "idle"] /\ CallEnds(g)
       ELSE job' = [job EXCEPT ![g] = "numbering"] /\ UNCHANGED <<call, crossed>>
  /\ UNCHANGED <<shared, launches, asks, first, number, session, popups,
                 own, overtaken, late>>

\* set_account_name; if it fails, both go on.
SaveName(g) ==
  /\ job[g] = "savingName"
  /\ NewAccount(g, name[g]) \/ UNCHANGED <<record, overtaken>>
  /\ name' = [name EXCEPT ![g] = Nothing]
  /\ job' = [job EXCEPT ![g] = IF Renaming(g) THEN "repinning" ELSE "numbering"]
  /\ UNCHANGED <<saved, launches, asks, first, number, call, session, popups,
                 own, crossed, late>>

\* Mutant: the session takes the account's new address, as it did once.
TakesNewName(g) ==
  IF call[g].before = Nothing THEN UNCHANGED <<saved, session>>
  ELSE TakeAddress(g, record.agent)

\* The session is pinned back onto the address it had before the prompt.
PinnedBack(g) ==
  IF call[g].before = Nothing THEN UNCHANGED <<saved, session>>
  ELSE TakeAddress(g, call[g].before)

Repin(g) ==
  /\ job[g] = "repinning"
  /\ PinnedBack(g)
  /\ job' = [job EXCEPT ![g] = "idle"]
  /\ CallEnds(g)
  /\ UNCHANGED <<record, launches, asks, first, name, number, popups,
                 own, overtaken, late>>

\* do_send captures from_agent, then looks for the peer's keys; it may have to
\* ask whether the message may go in the clear.
Send(g) ==
  /\ job[g] = "idle"
  /\ call[g] = Nothing
  /\ Current(g) # Nothing
  /\ \E open \in {FALSE, asks[g]} :
       call' = [call EXCEPT ![g] =
         [tool |-> "send_message", before |-> Current(g), open |-> open]]
  /\ UNCHANGED <<shared, launches, asks, first, job, name, number, session, popups, history>>

\* The message is posted, or given up.
SendEnds(g) ==
  /\ job[g] = "idle"
  /\ call[g] # Nothing /\ call[g].tool = "send_message"
  /\ CallEnds(g)
  /\ UNCHANGED <<shared, launches, asks, first, job, name, number, session, popups,
                 own, overtaken, late>>

-----------------------------------------------------------------------------
(* The end. *)

\* The client closes, or the process is killed wherever it is.
End(g) ==
  /\ job[g] # "off"
  /\ job' = [job EXCEPT ![g] = "off"]
  /\ name' = [name EXCEPT ![g] = Nothing]
  /\ number' = [number EXCEPT ![g] = 0]
  /\ adopted' = [adopted EXCEPT ![g] = Nothing]
  /\ declined' = [declined EXCEPT ![g] = FALSE]
  /\ timers' = [timers EXCEPT ![g] = {}]
  /\ pending' = [pending EXCEPT ![g] = {}]
  /\ shown' = [shown EXCEPT ![g] = {}]
  /\ CallEnds(g)
  /\ first' = [first EXCEPT ![g] = FALSE]
  /\ overtaken' = overtaken \ {g}
  /\ late' = late \ {g}
  /\ UNCHANGED <<shared, launches, asks, own>>

-----------------------------------------------------------------------------

Starting(g) == Seed(g) \/ Resume(g) \/ TakeOrdinal(g) \/ Adopt(g) \/ Offer(g)
Saving(g) == SaveId(g) \/ SaveIdFails(g) \/ SaveName(g) \/ Record(g) \/ Repin(g)
Timer(g) == OfferNaming(g) \/ OfferMigration(g) \/ MigrationTimeout(g)

Answer(g) ==
  \/ \E answer \in {"accept", "decline", "dismiss"} : MigrationReply(g, answer)
  \/ NamingFails(g) \/ NamingDeclined(g) \/ NamingRejected(g)
  \/ \E n \in Typed : NamingAccepted(g, n) \/ RenameAccepted(g, n)
  \/ RenameRefused(g)

Next ==
  \E g \in Gates :
    \/ Launch(g) \/ Starting(g) \/ Saving(g) \/ Timer(g) \/ Answer(g)
    \/ SetIdentity(g) \/ Send(g) \/ SendEnds(g) \/ End(g)

Spec == Init /\ [][Next]_vars

-----------------------------------------------------------------------------
(* What makes it correct. *)

\* The addresses whose mail a session reads, or will read when it is resumed.
Answers(g) ==
  ({saved[g]} \cup (IF job[g] = "off" THEN {} ELSE {Current(g)})) \ {Nothing}

\* "A collision merges two inboxes": an address that two sessions answer to is
\* not both sessions' own.  Renames, migrations, ordinals of old and numbers
\* taken under another stem do not bring two numbered sessions together; a
\* session that stands on the device's address has no such promise.
OnlyFallbackShares ==
  \A g, h \in Gates : g # h =>
    \A a \in Answers(g) \cap Answers(h) : own[g] # a \/ own[h] # a

\* "Pin this session back onto its pre-rename address": an address does not
\* change while its gate lives, whoever renames the account and whichever write
\* fails; unless the naming popup of a first run is answered inside a tool
\* call, or with no name, after the session has taken an address.
AddressIsStable ==
  [][\A g \in Gates :
       adopted[g] # Nothing /\ job'[g] # "off" /\ adopted'[g] # adopted[g]
         => g \in crossed \/ NamingRejected(g)]_vars

\* The answer to the migration popup puts a name on record only while the gate
\* waits for it, and only where there is none: neither another session's answer
\* nor a rename is taken back, unless it came between the look and the write.
DecisionStands ==
  [][\A g \in Gates :
       Record(g) /\ record'.account # record.account
         => g \notin late /\ (record.account = Nothing \/ g \in overtaken)]_vars

-----------------------------------------------------------------------------
(* What the texts of the program say beside that, and its code does not do. *)

\* "Run set_identity to give it one": a rename that its user has accepted leaves
\* no session without an address, a declined one neither.
SetIdentityOptsIn ==
  [][\A g \in Gates : Repin(g) => Current(g)' # Nothing]_vars

=============================================================================
