-------------------------- MODULE AddressBookProofs --------------------------
(***************************************************************************)
(* AddressBook for every set of devices, names and gates, and any number   *)
(* of relay restarts: its types, and that a bare name has one meaning.     *)
(***************************************************************************)
EXTENDS AddressBook, FiniteSetTheorems, TLAPS

\* The first state is well typed.
LEMMA InitTyped == Init => TypeOK
<1> SUFFICES ASSUME Init PROVE TypeOK
  OBVIOUS
<1>1. SomeName \in Names /\ 0 \in 0..MaxRestarts
  BY AddressBookAssumption DEF SomeName
<1> QED
  BY <1>1 DEF Init, TypeOK, NoPins, Pins, Steps

\* Every action keeps the types.
LEMMA StepTyped == TypeOK /\ [Next]_vars => TypeOK'
<1> SUFFICES ASSUME TypeOK, [Next]_vars PROVE TypeOK'
  OBVIOUS
<1>0. SomeName \in Names /\ NoPins \in Pins
  BY AddressBookAssumption DEF SomeName, NoPins, Pins
<1> USE <1>0, AddressBookAssumption DEF TypeOK, Pins, Steps, relay, sending, history
<1>1. CASE UNCHANGED vars
  BY <1>1 DEF vars
<1>2. ASSUME NEW d \in Devices, Publish(d) PROVE TypeOK'
  BY <1>2 DEF Publish, Claimed
<1>3. CASE RestartRelay
  BY <1>3 DEF RestartRelay, NoPins
<1>4. ASSUME NEW g \in Gates, NEW n \in Names, SendToName(g, n) PROVE TypeOK'
  BY <1>4 DEF SendToName, Goto
<1>5. ASSUME NEW g \in Gates, NEW n \in Names, NEW d \in Devices, SendToQualified(g, n, d) PROVE TypeOK'
  BY <1>5 DEF SendToQualified, Goto, Spell
<1>6. ASSUME NEW g \in Gates, Resolved(g) PROVE TypeOK'
  BY <1>6 DEF Resolved, Agrees, Goto
<1>7. ASSUME NEW g \in Gates, FallBack(g) PROVE TypeOK'
  BY <1>7 DEF FallBack, Goto
<1>8. ASSUME NEW g \in Gates, Unresolved(g) PROVE TypeOK'
  BY <1>8 DEF Unresolved, Over, Goto
<1>9. ASSUME NEW g \in Gates, PinIsThere(g) PROVE TypeOK'
  BY <1>9 DEF PinIsThere, Goto
<1>10. ASSUME NEW g \in Gates, ReadPeers(g) PROVE TypeOK'
  BY <1>10 DEF ReadPeers, Goto, Race
<1>11. ASSUME NEW g \in Gates, WritePeers(g) PROVE TypeOK'
  BY <1>11 DEF WritePeers, Goto, Race
<1>12. ASSUME NEW g \in Gates, FetchKeys(g) PROVE TypeOK'
  BY <1>12 DEF FetchKeys, Goto
<1>13. ASSUME NEW g \in Gates, NoKeys(g) PROVE TypeOK'
  BY <1>13 DEF NoKeys, Goto
<1>14. ASSUME NEW g \in Gates, Confirm(g) PROVE TypeOK'
  BY <1>14 DEF Confirm, Goto
<1>15. ASSUME NEW g \in Gates, GiveUp(g) PROVE TypeOK'
  BY <1>15 DEF GiveUp, Over, Goto
<1>16. ASSUME NEW g \in Gates, Post(g) PROVE TypeOK'
  BY <1>16 DEF Post, Over, Goto
<1> QED
  BY <1>1, <1>2, <1>3, <1>4, <1>5, <1>6, <1>7, <1>8, <1>9, <1>10, <1>11, <1>12,
     <1>13, <1>14, <1>15, <1>16
     DEF Next, Sending

\* The types of AddressBook: a send that is past its question has an addressee,
\* and the relay only knows names of devices whose keys it has.
THEOREM TypeCorrect == Spec => []TypeOK
<1>1. Init => TypeOK
  BY InitTyped
<1>2. TypeOK /\ [Next]_vars => TypeOK'
  BY StepTyped
<1> QED
  BY <1>1, <1>2, PTL DEF Spec

-----------------------------------------------------------------------------
(* One meaning.  The pin of a name that nobody has spelled out and no two  *)
(* gates raced for, once there, stays; whatever has been sent to the name, *)
(* or will be by a gate that is past its look at peers.json, goes to that  *)
(* pin.                                                                    *)

Excused == spelled \cup raced

\* What a gate that works on name[g] knows of its pin, unless it is excused.
Knows(g) ==
  name[g] \notin Excused =>
    /\ at[g] \in {"asking", "pinning"} => pinned[g] \in {Nobody, peers[name[g]]}
    /\ at[g] = "pinning" => pinned[g] \in {Nobody, to[g]}
    /\ at[g] = "writing" => got[g][name[g]] = Nobody
    /\ at[g] \in {"resolved", "confirming", "sending"} => to[g] = peers[name[g]]

MeantPin ==
  \A n \in Names :
    /\ n \notin raced => meant[n] \subseteq {peers[n]}
    /\ n \in spelled => meant[n] = {}

PinInv == MeantPin /\ \A g \in Gates : Knows(g)

LEMMA InitPin == Init => PinInv
BY DEF Init, PinInv, MeantPin, Knows, Excused

\* A write of peers.json changes no pin of a name that stays unraced, but for the
\* first pin of the writer's own name, or a pin of a name that is spelled out.
LEMMA WriteKeepsPins ==
  ASSUME TypeOK, PinInv, NEW g \in Gates, WritePeers(g), NEW n \in Names, n \notin raced'
  PROVE  /\ n # name[g] => peers'[n] = peers[n]
         /\ n = name[g] /\ n \notin spelled => peers[n] = Nobody /\ peers'[n] = to[g]
<1>1. n \notin raced /\ peers[n] = got[g][n]
  BY DEF WritePeers, Race
<1>2. got[g] \in Pins /\ name[g] \in Names
  BY DEF TypeOK
<1>3. n = name[g] /\ n \notin spelled => got[g][n] = Nobody
  BY <1>1 DEF PinInv, Knows, Excused, WritePeers
<1> QED
  BY <1>1, <1>2, <1>3 DEF WritePeers, Pins

LEMMA StepPin == TypeOK /\ PinInv /\ [Next]_vars => PinInv'
<1> SUFFICES ASSUME TypeOK, PinInv, [Next]_vars PROVE PinInv'
  OBVIOUS
<1> USE AddressBookAssumption DEF Pins, relay, sending, history, Excused
<1>1. CASE UNCHANGED vars
  BY <1>1 DEF vars, PinInv, MeantPin, Knows
<1>2. ASSUME NEW d \in Devices, Publish(d) PROVE PinInv'
  BY <1>2 DEF Publish, PinInv, MeantPin, Knows
<1>3. CASE RestartRelay
  BY <1>3 DEF RestartRelay, PinInv, MeantPin, Knows
<1>4. ASSUME NEW g \in Gates, NEW n \in Names, SendToName(g, n) PROVE PinInv'
  BY <1>4 DEF SendToName, Goto, TypeOK, PinInv, MeantPin, Knows
<1>5. ASSUME NEW g \in Gates, NEW n \in Names, NEW d \in Devices, SendToQualified(g, n, d) PROVE PinInv'
  BY <1>5 DEF SendToQualified, Goto, Spell, TypeOK, PinInv, MeantPin, Knows
<1>6. ASSUME NEW g \in Gates, Resolved(g) PROVE PinInv'
  BY <1>6 DEF Resolved, Agrees, Goto, TypeOK, PinInv, MeantPin, Knows
<1>7. ASSUME NEW g \in Gates, FallBack(g) PROVE PinInv'
  BY <1>7 DEF FallBack, Goto, TypeOK, PinInv, MeantPin, Knows
<1>8. ASSUME NEW g \in Gates, Unresolved(g) PROVE PinInv'
  BY <1>8 DEF Unresolved, Over, Goto, TypeOK, PinInv, MeantPin, Knows
<1>9. ASSUME NEW g \in Gates, PinIsThere(g) PROVE PinInv'
  BY <1>9 DEF PinIsThere, Goto, TypeOK, PinInv, MeantPin, Knows
<1>10. ASSUME NEW g \in Gates, ReadPeers(g) PROVE PinInv'
  BY <1>10 DEF ReadPeers, Goto, Race, TypeOK, PinInv, MeantPin, Knows
<1>11. ASSUME NEW g \in Gates, WritePeers(g) PROVE PinInv'
  <2>1. /\ raced \subseteq raced' /\ UNCHANGED <<meant, spelled>>
        /\ UNCHANGED <<name, to, pinned>>
    BY <1>11 DEF WritePeers, Race
  <2>2. to[g] # Nobody
    BY <1>11 DEF TypeOK, WritePeers
  <2>3. MeantPin'
    <3> SUFFICES ASSUME NEW n \in Names, n \notin raced'
                 PROVE  meant[n] \subseteq {peers'[n]}
      BY <2>1 DEF PinInv, MeantPin
    <3>1. /\ meant[n] \subseteq {peers[n]}
          /\ meant[n] \subseteq Devices
          /\ n \in spelled => meant[n] = {}
      BY <2>1 DEF TypeOK, PinInv, MeantPin
    <3> QED
      BY <1>11, <3>1, WriteKeepsPins
  <2>4. ASSUME NEW h \in Gates PROVE Knows(h)'
    <3> SUFFICES ASSUME (name[h] \notin Excused)' PROVE Knows(h)'
      BY DEF Knows
    <3>1. name[h] \in Names /\ name[h] \notin raced' /\ name[h] \notin Excused
      BY <2>1 DEF TypeOK
    <3>2. CASE h = g
      <4>1. peers'[name[g]] = to[g]
        BY <1>11, <3>1, <3>2 DEF WritePeers, TypeOK
      <4>2. at'[g] = "resolved"
        BY <1>11 DEF WritePeers, Goto, TypeOK
      <4> QED
        BY <2>1, <3>2, <4>1, <4>2 DEF Knows
    <3>3. CASE h # g /\ name[h] # name[g]
      <4>1. peers'[name[h]] = peers[name[h]]
        BY <1>11, <3>1, <3>3, WriteKeepsPins
      <4> QED
        BY <1>11, <2>1, <3>1, <3>3, <4>1 DEF WritePeers, Goto, TypeOK, PinInv, Knows
    <3>4. CASE h # g /\ name[h] = name[g]
      <4>1. peers[name[h]] = Nobody
        BY <1>11, <3>1, <3>4, WriteKeepsPins
      <4>2. /\ at'[h] = at[h] /\ got'[h] = got[h] /\ Knows(h)
            /\ at[h] \notin {"idle", "asking"} => to[h] # Nobody
        BY <1>11, <3>4 DEF WritePeers, Goto, TypeOK, PinInv
      <4> QED
        BY <2>1, <3>1, <4>1, <4>2 DEF Knows
    <3> QED
      BY <3>2, <3>3, <3>4
  <2> QED
    BY <2>3, <2>4 DEF PinInv
<1>12. ASSUME NEW g \in Gates, FetchKeys(g) PROVE PinInv'
  BY <1>12 DEF FetchKeys, Goto, TypeOK, PinInv, MeantPin, Knows
<1>13. ASSUME NEW g \in Gates, NoKeys(g) PROVE PinInv'
  BY <1>13 DEF NoKeys, Goto, TypeOK, PinInv, MeantPin, Knows
<1>14. ASSUME NEW g \in Gates, Confirm(g) PROVE PinInv'
  BY <1>14 DEF Confirm, Goto, TypeOK, PinInv, MeantPin, Knows
<1>15. ASSUME NEW g \in Gates, GiveUp(g) PROVE PinInv'
  BY <1>15 DEF GiveUp, Over, Goto, TypeOK, PinInv, MeantPin, Knows
<1>16. ASSUME NEW g \in Gates, Post(g) PROVE PinInv'
  BY <1>16 DEF Post, Over, Goto, TypeOK, PinInv, MeantPin, Knows
<1> QED
  BY <1>1, <1>2, <1>3, <1>4, <1>5, <1>6, <1>7, <1>8, <1>9, <1>10, <1>11, <1>12,
     <1>13, <1>14, <1>15, <1>16
     DEF Next, Sending

\* Whatever the relay answers, and however often it is restarted, the messages
\* sent to a bare name go to one device; except names the user has also written
\* with a fingerprint, and names whose pin two gates of the sender raced for in
\* peers.json.
THEOREM NamesMeanOne == Spec => []OneMeaning
<1>1. TypeOK /\ PinInv => OneMeaning
  <2> SUFFICES ASSUME PinInv, NEW n \in Names \ raced PROVE Cardinality(meant[n]) <= 1
    BY DEF OneMeaning
  <2>1. meant[n] = {} \/ meant[n] = {peers[n]}
    BY DEF PinInv, MeantPin
  <2>2. Cardinality({}) = 0 /\ Cardinality({peers[n]}) = 1
    BY FS_EmptySet, FS_Singleton
  <2> QED
    BY <2>1, <2>2
<1>2. Init => TypeOK /\ PinInv
  BY InitTyped, InitPin
<1>3. TypeOK /\ PinInv /\ [Next]_vars => (TypeOK /\ PinInv)'
  BY StepTyped, StepPin
<1> QED
  BY <1>1, <1>2, <1>3, PTL DEF Spec

=============================================================================
