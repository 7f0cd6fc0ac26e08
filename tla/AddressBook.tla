----------------------------- MODULE AddressBook ------------------------------
(***************************************************************************)
(* Whom a name means.  The relay's directory gives a bare name to the      *)
(* first device that publishes under it, and forgets everything when it is *)
(* restarted.  A sending device pins the fingerprint a name resolved to,   *)
(* in peers.json, which all its gates read, change and write back without  *)
(* a lock.                                                                 *)
(*                                                                         *)
(* A device is its fingerprint: its keys hash to it, and a device never    *)
(* changes them.  The relay answers from its directory and from nothing    *)
(* else.  Requests may fail on their way.                                  *)
(***************************************************************************)
EXTENDS FiniteSets, Naturals

CONSTANTS
  Devices,     \* devices that can be written to
  Names,       \* bare names
  Calls,       \* device -> the names its addresses carry
  Gates,       \* gates of one sending device
  Encryption,  \* its ANTROZOUS_REQUIRE_ENCRYPTION: "ask", "strict" or "off"
  Asks,        \* the gates whose client can show a prompt
  MaxRestarts, \* bound: restarts of the relay
  Nobody       \* no fingerprint

ASSUME AddressBookAssumption ==
  /\ Nobody \notin Devices
  /\ Names # {}
  /\ Calls \in [Devices -> SUBSET Names]
  /\ Encryption \in {"ask", "strict", "off"}
  /\ Asks \subseteq Gates
  /\ MaxRestarts \in Nat

VARIABLES
  aliases,    \* relay: name -> the fingerprint it resolves to
  agentKeys,  \* relay: the devices whose keys are published
  restarts,   \* of the relay, so far
  peers,      \* peers.json: name -> the fingerprint pinned
  at,         \* gate -> where its do_send stands
  name,       \* gate -> the name in the address it was given
  to,         \* gate -> the fingerprint in that address, or it resolved to
  pinned,     \* gate -> the pin it found before it asked the relay
  got,        \* gate -> the peers it has read in order to write them back
  meant,      \* name -> whom messages sent by bare name went to (history)
  spelled,    \* names the user has written with a fingerprint, whose meaning
              \* no longer counts (history)
  raced       \* names pinned from a file that was read too early (history)

relay == <<aliases, agentKeys, restarts>>
sending == <<at, name, to, pinned, got>>
history == <<meant, spelled, raced>>
vars == <<relay, peers, sending, history>>

Pins == [Names -> Devices \cup {Nobody}]
Steps == {"idle", "asking", "pinning", "writing", "resolved", "confirming", "sending"}

TypeOK ==
  /\ aliases \in Pins
  /\ agentKeys \subseteq Devices
  /\ restarts \in 0..MaxRestarts
  /\ peers \in Pins
  /\ at \in [Gates -> Steps]
  /\ name \in [Gates -> Names]
  /\ to \in [Gates -> Devices \cup {Nobody}]
  /\ pinned \in [Gates -> Devices \cup {Nobody}]
  /\ got \in [Gates -> Pins]
  /\ meant \in [Names -> SUBSET Devices]
  /\ spelled \subseteq Names
  /\ raced \subseteq Names
  /\ \A g \in Gates : at[g] \notin {"idle", "asking"} => to[g] # Nobody
  /\ \A n \in Names : aliases[n] # Nobody => aliases[n] \in agentKeys

NoPins == [n \in Names |-> Nobody]
SomeName == CHOOSE n \in Names : TRUE

Init ==
  /\ aliases = NoPins
  /\ agentKeys = {}
  /\ restarts = 0
  /\ peers = NoPins
  /\ at = [g \in Gates |-> "idle"]
  /\ name = [g \in Gates |-> SomeName]
  /\ to = [g \in Gates |-> Nobody]
  /\ pinned = [g \in Gates |-> Nobody]
  /\ got = [g \in Gates |-> NoPins]
  /\ meant = [n \in Names |-> {}]
  /\ spelled = {}
  /\ raced = {}

-----------------------------------------------------------------------------
(* The relay's directory. *)

\* aliases.setdefault
Claimed(d) ==
  [n \in Names |-> IF n \in Calls[d] /\ aliases[n] = Nobody THEN d ELSE aliases[n]]

\* Mutant: gates publish when they start, and not when they send; all of them
\* started before the relay was restarted.
AtStart(d) == restarts = 0

\* _publish_identities asks for no reason to publish.
MayPublish(d) == d \in Devices

\* publish_keys for every address of a device, as each of its gates does when
\* it starts, renames itself and sends.
Publish(d) ==
  /\ MayPublish(d)
  /\ agentKeys' = agentKeys \cup {d}
  /\ aliases' = Claimed(d)
  /\ UNCHANGED <<restarts, peers, sending, history>>

RestartRelay ==
  /\ restarts < MaxRestarts
  /\ restarts' = restarts + 1
  /\ aliases' = NoPins
  /\ agentKeys' = {}
  /\ UNCHANGED <<peers, sending, history>>

-----------------------------------------------------------------------------
(* resolve_peer *)

Goto(g, step) == at' = [at EXCEPT ![g] = step]

\* The user tells this device himself whom a name means.
Spell(n) ==
  /\ spelled' = spelled \cup {n}
  /\ meant' = [meant EXCEPT ![n] = {}]

\* Another gate has pinned these names since this one has read them.
Race(names) ==
  /\ raced' = raced \cup names
  /\ UNCHANGED <<meant, spelled>>

\* do_send is over, one way or the other: its locals are gone.
Over(g) ==
  /\ Goto(g, "idle")
  /\ name' = [name EXCEPT ![g] = SomeName]
  /\ to' = [to EXCEPT ![g] = Nobody]
  /\ pinned' = [pinned EXCEPT ![g] = Nobody]
  /\ got' = [got EXCEPT ![g] = NoPins]

\* A qualified address needs no answer, but is remembered.
SendToQualified(g, n, d) ==
  /\ at[g] = "idle"
  /\ n \in Calls[d]
  /\ Goto(g, "pinning")
  /\ name' = [name EXCEPT ![g] = n]
  /\ to' = [to EXCEPT ![g] = d]
  /\ Spell(n)
  /\ UNCHANGED <<relay, peers, pinned, got, raced>>

\* A bare name: what is pinned is read before the relay is asked.
SendToName(g, n) ==
  /\ at[g] = "idle"
  /\ Goto(g, "asking")
  /\ name' = [name EXCEPT ![g] = n]
  /\ pinned' = [pinned EXCEPT ![g] = peers[n]]
  /\ UNCHANGED <<relay, peers, to, got, history>>

\* Mutants: whatever the relay says is believed; an answer without a
\* fingerprint is taken for one.
Believes(g) == aliases[name[g]] # Nobody
AnyAnswer(g) == pinned[g] \in {Nobody, aliases[name[g]]}

\* A name that was pinned to another fingerprint is not re-trusted.
Agrees(g) ==
  /\ aliases[name[g]] # Nobody
  /\ pinned[g] \in {Nobody, aliases[name[g]]}

Resolved(g) ==
  /\ at[g] = "asking"
  /\ Agrees(g)
  /\ to' = [to EXCEPT ![g] = aliases[name[g]]]
  /\ Goto(g, "pinning")
  /\ UNCHANGED <<relay, peers, name, pinned, got, history>>

\* No answer, or none that is known here: the pin will do.
FallBack(g) ==
  /\ at[g] = "asking"
  /\ pinned[g] # Nobody
  /\ to' = [to EXCEPT ![g] = pinned[g]]
  /\ Goto(g, "resolved")
  /\ UNCHANGED <<relay, peers, name, pinned, got, history>>

\* Refused: repointed, unknown, or the relay is not reached.
Unresolved(g) ==
  /\ at[g] = "asking"
  /\ Over(g)
  /\ UNCHANGED <<relay, peers, history>>

\* _pin_peer reads peers.json; there may be nothing to change.
PinIsThere(g) ==
  /\ at[g] = "pinning"
  /\ peers[name[g]] = to[g]
  /\ pinned' = [pinned EXCEPT ![g] = Nobody]
  /\ Goto(g, "resolved")
  /\ UNCHANGED <<relay, peers, name, to, got, history>>

\* The pin it goes by may no longer be the one in the file.
ReadPeers(g) ==
  /\ at[g] = "pinning"
  /\ peers[name[g]] # to[g]
  /\ got' = [got EXCEPT ![g] = peers]
  /\ pinned' = [pinned EXCEPT ![g] = Nobody]
  /\ Race(IF peers[name[g]] # pinned[g] THEN {name[g]} ELSE {})
  /\ Goto(g, "writing")
  /\ UNCHANGED <<relay, peers, name, to>>

\* It writes back all it has read, and the pin.
WritePeers(g) ==
  /\ at[g] = "writing"
  /\ peers' = [got[g] EXCEPT ![name[g]] = to[g]]
  /\ got' = [got EXCEPT ![g] = NoPins]
  /\ Race({n \in Names : peers[n] # got[g][n]})
  /\ Goto(g, "resolved")
  /\ UNCHANGED <<relay, name, to, pinned>>

-----------------------------------------------------------------------------
(* The rest of do_send: upload, fetch_peer_keys, confirm, POST /send. *)

\* The keys are there: the message is sealed.
FetchKeys(g) ==
  /\ at[g] = "resolved"
  /\ to[g] \in agentKeys
  /\ Goto(g, "sending")
  /\ UNCHANGED <<relay, peers, name, to, pinned, got, history>>

\* No keys, or no answer: in the clear, if that is allowed or can be asked.
NoKeys(g) ==
  /\ at[g] = "resolved"
  /\ CASE Encryption = "off" -> Goto(g, "sending")
       [] Encryption = "ask" /\ g \in Asks -> Goto(g, "confirming")
       [] OTHER -> FALSE
  /\ UNCHANGED <<relay, peers, name, to, pinned, got, history>>

Confirm(g) ==
  /\ at[g] = "confirming"
  /\ Goto(g, "sending")
  /\ UNCHANGED <<relay, peers, name, to, pinned, got, history>>

\* NOT SENT: the upload failed, strict without keys, nobody to ask, declined,
\* or the POST was not answered; or the gate's process ends.
GiveUp(g) ==
  /\ at[g] \notin {"idle", "asking"}
  /\ Over(g)
  /\ UNCHANGED <<relay, peers, history>>

Post(g) ==
  /\ at[g] = "sending"
  /\ meant' = IF name[g] \in spelled THEN meant
              ELSE [meant EXCEPT ![name[g]] = @ \cup {to[g]}]
  /\ Over(g)
  /\ UNCHANGED <<relay, peers, spelled, raced>>

-----------------------------------------------------------------------------

Sending(g) ==
  \/ \E n \in Names : SendToName(g, n) \/ \E d \in Devices : SendToQualified(g, n, d)
  \/ Resolved(g) \/ FallBack(g) \/ Unresolved(g)
  \/ PinIsThere(g) \/ ReadPeers(g) \/ WritePeers(g)
  \/ FetchKeys(g) \/ NoKeys(g) \/ Confirm(g) \/ GiveUp(g) \/ Post(g)

Next ==
  \/ \E d \in Devices : Publish(d)
  \/ RestartRelay
  \/ \E g \in Gates : Sending(g)

Spec == Init /\ [][Next]_vars

\* A device whose sessions keep sending reaches the relay now and then.  Nobody
\* else has to do anything.
FairSpec == Spec /\ \A d \in Devices : SF_vars(Publish(d))

-----------------------------------------------------------------------------
(* What makes it correct. *)

\* Whatever the relay says, after a restart or a new claim: all messages that
\* were sent to one bare name went to one device, but for a name the user has
\* written with a fingerprint, and for one whose pin two gates of the sender
\* raced for in peers.json.
OneMeaning == \A n \in Names \ raced : Cardinality(meant[n]) <= 1

\* "Self-healing": after a restart of the relay the keys of every device come
\* back, and messages to it are sealed again.
KeysComeBack == \A d \in Devices : []<>(d \in agentKeys)

=============================================================================
