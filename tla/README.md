# antrozous in TLA+

antrozous lets coding-agent sessions send each other sealed messages. Each session runs a
*gate* (`mcp_gate.py`, an MCP server on stdio); all gates talk to one *relay*
(`src/antrozous/server.py`, FastAPI). A message waits in its addressee's queue on the relay
until the addressee's gate has shown it to its user and the user has accepted it; only then may
the model read it. This directory holds TLA+ modules for the parts of the program whose
correctness depends on the order of events, TLC configurations that check them on small
instances, and proofs, checked by TLAPS, of what matters most.

Paths below are relative to the repository's root. `PROJECT.json` maps every definition to the
lines it models.

## 1. Inventory

| component | state | operations | what makes it correct |
|---|---|---|---|
| Inbox review (`do_check`, `open_envelope`) | the locals of one check: addresses, fetched, decided_by_addr, approved | fetch each queue, verify and decrypt, ask, consume by count, return the accepted messages | nothing undecided is removed; nothing unaccepted reaches the model; a decided message is not asked about again; all mail is decided on in the end |
| Relay queues | `inboxes`: agent id -> list of messages, in memory | `/send`, `/inbox`, `/consume`, `/inboxes` | a stored message stays until a consume returns it; oldest first |
| Doorbell | `manager.active`, the listener's sockets | `ws_inbox`, `doorbell`, `disconnect` | a connected listener hears of all mail it has not seen |
| Request authentication | `_seen_nonces`, `_tickets` | `_check_signature`, `_sweep`, `mint_ticket`, the ticket check of `ws_inbox` | a request counts once; a socket is opened only by its agent |
| Session registry (`identity.py`) | `sessions/<key>.json`: agent_id, pid, start, primary; `session_counter` | seed, resume, next_ordinal, register, claim_primary, unregister | no two sessions have one address; an address is permanent; one session is primary |
| Identity file (`identity.json`) | agent_id, account_name, confirmed, fingerprint, session_counter; the lock file | six read-change-write operations under a best-effort lock; first creation | no update is lost; the counter never goes back; a fresh device gets one identity |
| Gate start-up and renaming | session address, popup and timer state | startup and migration popups, their answers and timeouts, `set_identity` | numbered sessions share no address; an address does not change under its session; `set_identity` opts a declined session back in; a late answer changes nothing |
| Addresses and keys | relay: `aliases`, `agent_keys`; gate: `peers.json` pins | `publish_keys`, `resolve_alias`, `resolve_peer`, `_pin_peer` | a bare name keeps meaning the peer it was pinned to; published keys come back after a relay restart |
| Sending (`do_send`) | none | resolve, seal, upload, confirm, POST | a refused or failed confirmation sends nothing |
| Blob store | files named by their hash | PUT, GET with size limits | content matches its name |
| Keys and sealing (`keys.py`, `enclave.py`, `_purecrypto.py`) | `key.json`, `key.enc`, the key each process has unwrapped | load or create, unwrap, wrap; sign, seal, unseal | one device has one identity key; arithmetic, the operating system's key store |
| Listener preference, hook, skills, commands | one flag | on/off; text for the model | the model answers every frame by a check |

How they interact. A gate reaches the relay by HTTP requests with a 10 s timeout, signed with
its key; every gate of a device shares `identity.json`, `key.json` and the session records on
disk, and nothing else. The relay's coroutines (`/send`, the WebSocket) share one event loop,
its plain handlers (`/inbox`, `/consume`, `/keys`, authentication) run in a thread pool beside
it, and all of them share dictionaries without a lock. A listener's socket carries doorbells
only: a frame makes the session's model call `check_inbox`.

What is hard about it, and hard to test:

- *Consume by count.* The gate tells the relay how many messages to remove, not which. Between
  its GET and its POST the user thinks, for minutes.
- *Handlers without locks.* A consume in a thread replaces a list a coroutine is about to append
  to; a nonce is looked up and recorded in two steps.
- *Crashes.* A gate may die between any two requests; a record on disk keeps the pid and the
  primary flag of a dead process, and pids are recycled.
- *Clocks.* A request is accepted in a window around the relay's clock, and remembered for a time
  that must outlast the window.
- *Many gates on one device.* Two gates start together, take numbers, look for a primary, each
  make a key, rewrite `peers.json`.
- *Popups and timers.* A gate reads one stdin. While a tool call waits for its prompt, the answer
  to a start-up popup arrives in the same loop and changes the session under the call; a timer on
  another thread gives the popup up.
- *Doorbells are not stored.* One rung at a dropped socket is gone.

`PROJECT.json` lists every such hazard at its line, with the properties that cover it.

## 2. Modules

Each module is one question about the program; none is bigger than the code it stands for.

| module | models | state, in the code's terms |
|---|---|---|
| `ApprovalGate` | nothing in particular: the promise made to the user, as a specification without gates and requests | what is pending, decided, read by the model |
| `InboxCheck` | `do_check` of any number of gates, and `/send`, `/inbox`, `/consume` as atomic steps | `inbox` = `inboxes`; per gate `todo`/`at` = the loop over `addresses`, `fetched`, `decided` = `decided_by_addr`, `approved`, `call` = the consume request in flight; `late` = requests whose caller has given up |
| `RelayMail` | the same relay handlers taken apart at every point where a thread or a coroutine may be switched, with the doorbell and the listener's sockets | `lists`/`queue` = the list objects and the one `inboxes[agent]` names; `into` = the list `send_message` has looked up; `active` = `manager.active`; `bells` = the doorbell's snapshot; `dead` |
| `RelayAuth` | `_check_signature`, `_sweep`, tickets, over time and threads | `seen` = `_seen_nonces`, `tickets` = `_tickets`, `now` = `time.time()`, `work` = a handler's locals |
| `Sessions` | the session records, ordinals and the primary slot, through launches, resumes, crashes and recycled pids | `records` = `sessions/*.json`, `counter` = `session_counter`, `address` = `SESSION_AGENT_ID` |
| `IdentityRecord` | what identity.json is meant to be: one object changed in single steps | the record's fields, the ordinals handed out |
| `IdentityFile` | the same operations as they are: `_LOCAL_LOCK`, `_LOCAL_DEPTH`, the lock file, read, write, create, fill, unlink, failures, kills | `file`, `content`, `project`, `local`, `depth`, `flock`, `got` = the record a call has read |
| `GateSetup` | the start of a gate, its two popups with their timers, declining, `set_identity`, and `do_send`'s return address | `record` = identity.json; `saved` = `agent_id` in the session records; per gate `adopted` = `SESSION_AGENT_ID`, `declined` = `SESSION_DECLINED`, `timers`, `pending` = `_startup_pending` and `_migration_pending`, `shown` = popups nobody has answered, `job`/`name`/`number` = the main thread's place and locals, `call` = the tool call it serves |
| `AddressBook` | whom a name means: `publish_keys`, the relay's directory, `resolve_peer`, `_pin_peer`, and the rest of `do_send` | `aliases`, `agentKeys` = `agent_keys`, `peers` = peers.json; per gate `at`/`name`/`to`/`pinned`/`got` = the locals of `do_send` and of what it calls |
| `KeyStore` | `load_or_create`, `enclave_load`, `enclave_wrap`, and what users do to the files and the helper | `plain`/`whole` = key.json, `enc` = key.enc, `cached` = `_unwrapped`, `helper`, `epoch` = the enclave's wrapping secret |
| `InboxCheckProofs`, `RelayAuthProofs`, `RelayMailProofs`, `SessionsProofs`, `IdentityFileProofs`, `GateSetupProofs`, `AddressBookProofs`, `KeyStoreProofs` | theorems | |
| `MC*` | instances for TLC | |

`InboxCheck` refines `ApprovalGate` (`KeepsThePromise`); `IdentityFile` refines `IdentityRecord`
(`AtomicRecord`), and uses its operators for what a call makes of the record, so that the two
can only differ in *when* things happen. `InboxCheck` treats a relay handler as one step and
`RelayMail` says when that is right: always, but for a consume that overlaps an append or
another consume. `Sessions` takes `next_ordinal` and the lifting of the counter as one step each,
and `IdentityFile` shows that they are, where `flock` works. `GateSetup` takes registering as one
step as well, which `Sessions` takes apart, and asks instead what addresses sessions end up with
when names are renamed. A message's way is in four modules: its return address in `GateSetup`,
its addressee in `AddressBook`, the relay in `RelayMail`, its review in `InboxCheck`.

Conventions. An action is one handler, or the stretch of one between two points where another
actor may come in; the comment above it names the function. History variables, which no code
reads, are marked in the declarations. Definitions whose comment says *mutant* are wrong on
purpose: they are not used by the specification and document which slip each property catches.

### What was abstracted

- A message is a name; whether `open_envelope` can verify and decrypt it is the set `Readable`.
  Attachments are fetched only after approval and carry no state of a check.
- A request to the relay is its nonce: `os.urandom(12)` does not repeat. Malformed requests and
  keys that do not fit their address are refused before they touch state, and left out.
- An address in `Sessions` is its ordinal: stem and fingerprint are common to all sessions of a
  device. A process's start marker is the process; it can always be read.
- Timestamps in records and the `.git/info/exclude` entry are left out of `IdentityFile`; all its
  processes run in one directory, and the callers of `next_ordinal`, `seed_counter_from_records`
  and `set_account_name` have made sure of an id before (`Callable`), as `main()` does.
- In `RelayMail` a GET is one step (it returns the list object, which is serialised at once), and
  a thread is switched at calls and loops only, where CPython switches.
- `claim_primary(force=True)` has no caller and is not modelled.
- A name in `GateSetup` is a stem and the ordinals behind it, so that an account `bot-1` and the
  first session of `bot` can meet; the fingerprint is common. `$AGENT_ID` and directories with an
  address of their own are left out: such a session is asked nothing and numbers nothing.
- A device in `AddressBook` is its fingerprint and keeps its keys; key rotation is left out, and
  so is a relay that answers from anything but its directory. Attachments are a step of `do_send`
  that may fail.
- A key in `KeyStore` stands for both halves; one process at a time wraps, which users do by hand.

## 3. Runs

Each run is `tlc -config <cfg> <module>`.

| run | configuration | shows |
|---|---|---|
| `inbox_sole` | `InboxCheckSole.cfg`: two gates, three queues of which one gate has two, three messages, one of them unreadable; the other gate's GETs and consumes may fail, and it may crash; fair users | `NothingUndecidedLost`, the refinement `KeepsThePromise`, and for the steady gate `DecidedOnce`, `MailIsSettled`, `ApprovedIsDelivered` |
| `inbox_faults` | `InboxCheckFaults.cfg`: two gates on the same two queues, a third without a prompt, two messages, and also late consumes and relay restarts | `ContextOnlyApproved` and `DecidedIsFront` need no assumption at all |
| `inbox_shared` | `InboxCheckShared.cfg`: two gates on one queue, nothing fails | `NothingUndecidedLost` is violated (finding 1) |
| `mail` | `RelayMail.cfg`: two messages, two readers, two connections | `OnlyOverlapLoses`, `NoDeafListener`, `MailIsHeard` |
| `relay_auth` | `MCRelayAuth.cfg`: two agents, requests and handlers, every client clock; window 1, cache 3, stall 1, tickets 2, time up to 5 | `ForgottenIsStale`, `NoReplay`, `SocketProvesKey` |
| `sessions` | `Sessions.cfg`: two sessions, three processes, two pids, records of an older version | `PrivateQueues`, `AddressIsKept`, `PrimaryHasClaimed`, `OnlyOverlapDoubles`, `PrimaryKeepsSlot`, `NewcomerFillsVacancy` |
| `sessions_stranded` | `SessionsStranded.cfg`: two sessions on a new device, fair | `FrontDoorHasReader` is violated (finding 2) |
| `identity_file` | `IdentityFile.cfg`: two processes, one with two threads, every kind of call, a full disk, kills | `AtomicRecord`, `NeverReissued`, `BornOnce`, `NeverIdless`, `LockIsReleased` |
| `gate_setup` | `GateSetup.cfg`: two sessions, two launches, a new device or a named one with records of an older version, clients with and without prompts | `OnlyFallbackShares`, `AddressIsStable`, `DecisionStands` |
| `gate_setup_declined` | `GateSetupDeclined.cfg`: two sessions on a new device | `SetIdentityOptsIn` is violated (finding 3) |
| `address_book` | `AddressBook.cfg`: two devices that share a name, two gates of a third, one of which can ask, two relay restarts | `OneMeaning`, `KeysComeBack` |
| `key_store` | `KeyStore.cfg`: three processes, two keys, one reset of the enclave | `OneIdentity` |

Several properties carry an exception, which is part of what they say: mail is lost *only* when
a consume overlaps an append or another consume (`OnlyOverlapLoses`); two primary flags come
*only* from two looks before either claim (`OnlyOverlapDoubles`), and *only* then may
`is_primary()` turn false for a process that lives (`PrimaryKeepsSlot`); an address changes *only*
when the naming popup is answered inside a tool call, or without a usable name
(`AddressIsStable`); a bare name means one device *but* for names the user also writes with a
fingerprint, and names whose pin two gates race for (`OneMeaning`); a request passes once *but*
for two copies that are looked up before either is recorded (`NoReplay`). Section 5 tells what
the program does in these cases.

### Bounds, and why they are enough

- *Inbox.* Consuming by count goes wrong only if the count and the queue speak of different
  messages: one decided message, one undecided, and one that arrives in between. Two gates are
  the smallest number that share a queue; two queues the smallest that have an order. `Unsteady`
  names the gates faults may happen to. In `inbox_sole` it is one of two, so that the steady one
  can be held to its liveness while the other fails; in `inbox_faults` it is both, and there the
  gate that dies may have two queues under review.
- *Mail.* A race needs one append and one consume, or two consumes; a deaf listener one message
  and a successor connection. Each message is sent once and each connection is used once, so the
  runs are finite without counters.
- *Authentication.* One tick is a minute, so the window and the cache have the code's own
  proportions (`MaxClockSkew` 60 s, `NonceTTL` 180 s). `MaxTime` lets a nonce be recorded at any
  time a request from the past or the future is accepted, and be swept. `MaxStall` is the time a
  handler may spend between its first and second look at the clock: with more than
  `NonceTTL - 2 * MaxClockSkew` (60 s) the property is false, which is why it is an assumption.
- *Sessions.* Three processes over two sessions and two pids give a session that is resumed
  under the pid of another, next to one that runs all the time.
- *Identity file.* Two processes contend for the lock file, two threads of one process for the
  inner lock. `MaxOrdinal` bounds how often `next_ordinal` is called; two is enough for a number
  that was lost and handed out again.
- *Gate set-up.* Two sessions are enough for one to rename, or to answer a popup, behind the
  other's back. Users type `bot` or `bot-1`, and an older version may have left `bot-1` and `bot-2`
  on record, so a typed name, an old address and a number taken now can be the same string.
  `MaxLaunches = 2` is both sessions once, or one and its resumption. `OldConfirmed` says whether
  the older device has been named (`confirmed` in its identity.json). `gate_setup` takes a new
  device and a named one; an unnamed one with records is the instance with `{FALSE}`,
  where `OnlyFallbackShares` is false (section 5). The other properties are proved for it too.
- *Address book.* Two restarts let a name change hands and come back; two gates share peers.json.
- *Key store.* Two processes race for one file, a third comes after the race; with two keys a
  second identity can be told from the first.

### Fairness

- `InboxCheck`: a gate's own steps and the relay's answers are weakly fair: both are loops that
  block on nobody but each other. A user may dismiss prompts, but not for ever: answering is
  strongly fair. `CheckAgain` is weakly fair, and that is an assumption about the model and its
  user, not something a gate schedules: the inbox skill tells the model to check on every doorbell
  and after every reconnection. A session that ignores its skill settles no mail.
- `RelayMail`: coroutines that were started run on, the listener reconnects and answers a frame
  it has been told, and a check that was begun ends. Nobody has to send or to look unasked.
- `Sessions`: a gate that has begun to start goes on. Nobody has to launch, rename or close.
- `IdentityFile`: a thread that has called runs on. Nobody has to call.
- `AddressBook`: publishing is strongly fair for each device. Every gate publishes when it starts,
  renames itself and sends, so a device whose sessions keep sending reaches the relay now and
  then. The relay may be restarted between.
- `RelayAuth`, `GateSetup` and `KeyStore` have no liveness property: nobody owes them a step.

`CHECK_DEADLOCK FALSE` is set where the system may stop: every message is sent and read, every
process is gone, or no ordinal or launch is left. The other specifications never stop.

## 4. What is proved

TLAPS checks the following for every value of the constants.

| theorem | statement |
|---|---|
| `InboxCheckProofs!TypeCorrect` | `Spec => []TypeOK` |
| `InboxCheckProofs!ContextSafe` | `Spec => []ContextOnlyApproved` |
| `InboxCheckProofs!NothingLost` | `CountsAreCurrent /\ Spec => []NothingUndecidedLost` |
| `InboxCheckProofs!ImplementsPromise` | `CountsAreCurrent /\ Spec => KeepsThePromise` |
| `InboxCheckProofs!FrontIsDecided` | `Spec => []DecidedIsFront` |
| `InboxCheckProofs!PromptedOnce` | `SoleReader /\ Spec => DecidedOnce` |
| `RelayAuthProofs!TypeCorrect` | `Spec => []TypeOK` |
| `RelayAuthProofs!ForgottenCorrect` | `Spec => []ForgottenIsStale` |
| `RelayAuthProofs!ReplayRefused` | `Spec => NoReplay` |
| `RelayAuthProofs!SocketsArePaid` | `Spec => []SocketProvesKey` |
| `RelayMailProofs!TypeCorrect` | `Spec => []TypeOK` |
| `RelayMailProofs!OnlyOverlaps` | `Spec => []OnlyOverlapLoses` |
| `RelayMailProofs!NobodyIsDeaf` | `Spec => []NoDeafListener` |
| `SessionsProofs!TypeCorrect` | `Spec => []TypeOK` |
| `SessionsProofs!QueuesArePrivate` | `Spec => []PrivateQueues` |
| `SessionsProofs!AddressesAreKept` | `Spec => AddressIsKept` |
| `SessionsProofs!PrimariesHaveClaimed` | `Spec => []PrimaryHasClaimed` |
| `SessionsProofs!OnlyOverlaps` | `Spec => []OnlyOverlapDoubles` |
| `SessionsProofs!PrimariesStay` | `Spec => PrimaryKeepsSlot` |
| `SessionsProofs!NewcomersFill` | `Spec => NewcomerFillsVacancy` |
| `IdentityFileProofs!TypeCorrect` | `Spec => []TypeOK` |
| `IdentityFileProofs!FileIsAtomic` | `LocksWork /\ Spec => AtomicRecord` |
| `IdentityFileProofs!OrdinalsAreSpent` | `LocksWork /\ Spec => NeverReissued` |
| `IdentityFileProofs!OneBirth` | `LocksWork /\ Spec => []BornOnce` |
| `IdentityFileProofs!IdStays` | `LocksWork /\ Spec => NeverIdless` |
| `GateSetupProofs!TypeCorrect` | `Spec => []TypeOK` |
| `GateSetupProofs!OnlyFallback` | `OldIsNamed /\ Spec => []OnlyFallbackShares` |
| `GateSetupProofs!StableAddress` | `Spec => AddressIsStable` |
| `GateSetupProofs!FirstDecision` | `Spec => DecisionStands` |
| `AddressBookProofs!TypeCorrect` | `Spec => []TypeOK` |
| `AddressBookProofs!NamesMeanOne` | `Spec => []OneMeaning` |
| `KeyStoreProofs!TypeCorrect` | `Spec => []TypeOK` |
| `KeyStoreProofs!OneIdentityHolds` | `Spec => []OneIdentity` |

Assumptions. The named `ASSUME`s of the modules: what the sets are, that `Nothing` is none of the
names, calls, ids and records it stands in for, and for `RelayAuth` that
`2 * MaxClockSkew + MaxStall <= NonceTTL`. `CountsAreCurrent` says that every queue has one
reader and that neither late consumes nor relay restarts happen; without it the two theorems are
false, as `inbox_shared` shows. `SoleReader` is the first of the three. `DecidedOnce` itself is
about the steady gates, those outside `Unsteady`: a failed consume, or a crash, leaves decided
mail queued, and the next check asks again. `LocksWork` says that `flock` works for every process;
where it does not, `_identity_lock`'s comment itself gives the guarantee up. `OldIsNamed` says
that a device of an older version that has session records has been named; without it
`OnlyFallback` is false, as section 5 says.

Arguments.

- *Inbox.* `TypeInv` adds to `TypeOK` what each program point knows. `ApprovedInv`: what a check
  has collected is accepted and readable; nothing else is returned, so `ContextSafe` needs no more.
  `ReaderInv` is the heart of `NothingLost`: what a gate has fetched of a queue is still the front
  of that queue (only its own consume shortens it, others append), and the first
  `decided` of it are settled; hence a consume of that count removes settled messages only, and
  maps to the abstract gate's own removal.
  `FrontIsDecided` needs none of the assumptions, because a consume, whoever sends it and however
  late, only takes a front away. Its invariant `MailInv` says what survives that: no message
  is queued or fetched twice, or in two queues, and a queued message that some gate has fetched
  still stands in front, preceded by what preceded it then (`Follows`). So whatever is queued
  before the message a gate decides on was in front of it in the gate's own list, and is decided.
  `PromptedOnce` adds `OnceInv`: in the queue of a steady gate, decided mail is among what a gate
  has yet to consume (`PendingInv`), and what a steady gate may still ask about is undecided
  (`OpenInv`). A gate fetches while it has nothing to consume, and nobody else reads its queue; so
  what it fetches is undecided. A gate that fails or dies gives up mail of its own queue only,
  which is no steady gate's (`UnsteadyKeepsOnce`).
- *Authentication.* `WindowInv` bounds the age of what a handler has checked by `MaxStall`.
  `RememberedInv`: an accepted request is in the cache with a time not before its window opened,
  or no copy can be under way any more. A sweep keeps this because the cache outlives window and
  stall together; `ReplayRefused` follows from both.
- *Identity file.* `ExclusiveInv`: a thread past the lock holds it for its process, so with the
  inner lock at most one thread is (`OneInside`). `FreshInv`: what such a thread has read is what
  the file holds. Thus a write, and the filling of a new file, is one step of `IdentityRecord`,
  and every other step is none. The same two give the id's fate. `NamedInv`: a call
  that brings no id of its own finds one in the record when it writes, and a rename has written
  one before it removes the directory's; so every write leaves the record an id (`WriteNames`),
  and no step takes one away (`IdIsKept`). `BornInv`: as long as the record has no id none has
  been made up, and afterwards there is only that one.
- *Gate set-up.* `StageInv` says where a gate can be: on a new device it asks for a name at most
  once (`FirstRun`), on a named one it serves nobody before it has an address and then has one of
  offer, popup and answer at a time (`Named`); and a tool call is served by the main thread, with
  the session's address, unless the naming popup's answer crosses it (`InCall`). Hence no address
  is adopted over another but in the cases `StableAddress` names. `OwnInv`, which holds under
  `OldIsNamed` only, is behind `OnlyFallback`: own addresses differ, a number that was taken is in
  no record and with no other gate, and either the counter has passed every number on record, or
  nobody has come further than to lift it (`Counted \/ Unlifted`). The stem does not matter, which
  is why renames in between do no harm. `NameInv`, for `FirstDecision`: a name about to be recorded
  is the first one, or the one on record, or has been overtaken.
- *Mail.* `AppendsLand`: the list a sender has looked up is still the queue, or a consume has
  overtaken the message. `RetiredListsAreSpent`: a list that is no queue any more holds only what
  was returned, is in the queue, or was overtaken. `BellInv` adds to `NoDeafListener` that every
  open connection is in `manager.active`, since a connection is only thrown out when it was found
  broken, and that a message on its way has rung nowhere; so the snapshot taken after the append
  holds every connection that is open.
- *Sessions.* `AddressInv`: records have different addresses; a fresh number is in no record and
  with no other process; later the record has the process's address; and once a process has
  lifted the counter, it has passed every recorded address. The last part is why every gate must
  lift it: one that did not could take a number from an older version's record. `SlotInv`: a
  start time in a record is that of a process launched for this session under that pid, a flag
  beside it was claimed by it; and any two that hold the slot, or are about to, have seen it
  vacant together. No two live processes have one pid, so while a process keeps its flag and
  nobody else has one, `primary_pid()` is its pid under any listing; `PrimariesStay` follows,
  because a flag outlives every step of its process (`Carries`), and whoever else has one has
  looked together with it.
- *Address book.* `PinInv`: what was sent to a bare name went to its pin, and what a gate knows of
  the pin, at each point of `do_send`, is the pin or nothing. Every step keeps this but writing
  back a file that was read too early (`raced`), and typing the fingerprint (`spelled`), which
  the property excuses; the first of the two is a limit of the program.
- *Keys.* `IInv`: keys in use agree; a key.json that is being written has one writer; and where
  there is no readable key.json, a process past its look at key.enc would be making the first
  key. The user's carelessness is a history variable and excuses all of it.

Only model-checked: liveness (`MailIsSettled`, `ApprovedIsDelivered`, `MailIsHeard`,
`LockIsReleased`, `KeysComeBack`), which is out of the prover's reach. Every invariant and every
action property that a passing run checks is a theorem. The invariants the proofs rest on were
checked by TLC, on instances of the same size, before they were proved.

## 5. Findings and limits

1. *Two readers of one queue* (`inbox_shared`). `do_check` consumes a number of messages. When two
   gates review one queue, which `check_inbox` with another session's `agent_id` allows, the
   second consume removes messages nobody has seen.
2. *Stranded front door* (`sessions_stranded`). The slot is only claimed when a session adopts its
   address. When the primary ends, the sessions that keep running never take it.
3. *Declined for good* (`gate_setup_declined`). The repository disagrees with itself. Its popup,
   its messages, its skill and a test's name say that `set_identity` opts a declined session back
   in; `do_set_identity` pins a session back only if it had an address, and a comment there wants
   that. So the session renames the account and keeps no address.

`PROJECT.json` quotes the comments these disagree with.

Limits that the code has, and that the models contain:

- *Mail.* A consume that replaces the list between a sender's lookup and its append loses a
  message the sender was told is sent; so may two consumes at once.
- *Delivery.* A timeout while a consume's answer is read is no `URLError`: it ends the gate. What
  the user had accepted, and the relay has removed, is then never seen by the model.
  `ApprovalGate` allows this, and no property forbids it.
- *Primary.* Two gates that look for a primary together may both set their flag. At any look only
  the one that comes first in the directory's listing is primary; but the second may have seen
  itself alone before, and the front door passes from one to the other between two looks. If the
  first gate's review is under way, both then drain the queue, as in finding 1.
- *Files.* A process killed while it creates identity.json leaves an empty file, and every gate
  after it fails on start; the same holds of key.json. A gate that loses the race for key.json may
  read it before it is filled, and raise.
- *Keys.* With key.enc there, key.json deleted and the helper gone, a new key is made without a
  word, where `load_or_create` refuses to if the helper is there but fails. This is the
  carelessness `OneIdentity` excuses.
- *Naming.* The first-run popup does not look whether another session has named the device since,
  and its answer renames the account again. Answered while a prompt of `set_identity` waits, it
  gives the session a numbered address, or a decline, which the re-pin to the address read before
  the prompt (`mcp_gate.py:1825`, `1943`) then takes back; `AddressIsStable` excuses this, though
  the tool's description (`mcp_gate.py:2076-2077`) does not. Sessions that adopted nothing follow
  the device's address, which another session's rename changes; a client without prompts stays in
  that state on a new device. If such a session is sending, its message may carry the address of
  before, which nobody polls any more (`mcp_gate.py:1199`).
- *Ordinals.* The naming popup's answer takes an ordinal without lifting the counter
  (`mcp_gate.py:1120`). On a device whose identity.json is older than the `confirmed` flag, and
  which has session records of that time, it may take a number that is on record:
  `OnlyFallbackShares` is false with `OldConfirmed = {FALSE}`.
- *Names.* After a relay restart another device may claim a name first; senders that have pinned
  the old one refuse it, or go on by their pin, and new senders trust the newcomer. Two gates that
  write peers.json together may drop each other's pins of different names. They may also both find
  a name unpinned; if the relay is restarted and the name claimed by another device between their
  two lookups, `_pin_peer` puts the second answer over the first pin without a look at it
  (`mcp_gate.py:369`), and the second message goes to that device. The docstring of `resolve_peer`
  calls such a change "a hard error, never a silent re-trust"; `OneMeaning` excuses it (`raced`).
- *Authentication.* A relay restart empties the nonce cache, so a request may pass once more while
  it is young; and two copies of one request that are looked up before either is recorded both
  pass.

## 6. Plan

Done: `InboxCheck` with `ApprovalGate`, `RelayAuth`, `RelayMail`, `Sessions`, `IdentityFile` with
`IdentityRecord`, `GateSetup`, `AddressBook`, `KeyStore`; for each of them, proofs of all the
invariants, action properties and refinements that hold.

Left, most important first:

1. `RelayAuth` with a relay restart: the nonce cache is emptied, and `NoReplay` becomes a bound on
   how long a request of before can pass.
2. Weaker hypotheses: `NothingLost` per queue, so that one shared queue takes nothing from the
   promise about the others.
3. A start-time marker that cannot be read, in `Sessions`; the tool calls `_elicit` drops while
   it waits, in `GateSetup`.

### Not modelled

Cryptography (`keys.py`'s arithmetic, `_purecrypto.py`, the Secure Enclave helper): what it
decides enters as `Readable`, as well-formed requests, and as keys that open or do not. The blob
store, whose files are named by their content, written once under a temporary name and never
changed. The listener preference and the hook, which keep one flag, and the texts of skills and
commands, of which the rule that a frame is answered by a check is the listener of `RelayMail`.
