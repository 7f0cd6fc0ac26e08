---------------------------- MODULE KeyStoreProofs ----------------------------
(***************************************************************************)
(* KeyStore for every set of processes and keys, and any number of resets: *)
(* its types, and that a device has one identity.                          *)
(***************************************************************************)
EXTENDS KeyStore, TLAPS

\* The first state is well typed.
LEMMA InitTyped == Init => TypeOK
<1> SUFFICES ASSUME Init PROVE TypeOK
  OBVIOUS
<1>1. 0 \in 0..MaxResets
  BY KeyStoreAssumption
<1>2. /\ at \in [Processes -> Steps]
      /\ wraps \in [Processes -> BOOLEAN]
      /\ secret \in [Processes -> 0..MaxResets]
      /\ \A p \in Processes : at[p] = "idle"
  BY <1>1 DEF Init, Steps
<1>3. /\ cached \in [Processes -> KeyOrNone]
      /\ using \in [Processes -> KeyOrNone]
      /\ made \in [Processes -> KeyOrNone]
  BY DEF Init, KeyOrNone
<1> QED
  BY <1>1, <1>2, <1>3 DEF Init, TypeOK, KeyOrNone

\* Every action keeps the types.
LEMMA StepTyped == TypeOK /\ [Next]_vars => TypeOK'
<1> SUFFICES ASSUME TypeOK, [Next]_vars PROVE TypeOK'
  OBVIOUS
<1> USE KeyStoreAssumption DEF TypeOK, KeyOrNone, Steps, files, enclave, process
<1>1. CASE UNCHANGED vars
  BY <1>1 DEF vars
<1>2. ASSUME NEW p \in Processes, NEW wrap \in BOOLEAN, Load(p, wrap) PROVE TypeOK'
  BY <1>2 DEF Load, Goto
<1>3. ASSUME NEW p \in Processes, Cached(p) PROVE TypeOK'
  BY <1>3 DEF Cached, Returns, Goto
<1>4. ASSUME NEW p \in Processes, Unwrap(p) PROVE TypeOK'
  BY <1>4 DEF Unwrap, Returns, Goto
<1>5. ASSUME NEW p \in Processes, NoEnclave(p) PROVE TypeOK'
  BY <1>5 DEF NoEnclave, Goto
<1>6. ASSUME NEW p \in Processes, CannotOpen(p) PROVE TypeOK'
  BY <1>6 DEF CannotOpen, Goto
<1>7. ASSUME NEW p \in Processes, FallBack(p) PROVE TypeOK'
  BY <1>7 DEF FallBack, Fails, Goto
<1>8. ASSUME NEW p \in Processes, ReadPlain(p) PROVE TypeOK'
  BY <1>8 DEF ReadPlain, Readable, Returns, Goto
<1>9. ASSUME NEW p \in Processes, Create(p) PROVE TypeOK'
  BY <1>9 DEF Create, Goto
<1>10. ASSUME NEW p \in Processes, LoseRace(p) PROVE TypeOK'
  BY <1>10 DEF LoseRace, Readable, Returns, Fails, Goto
<1>11. ASSUME NEW p \in Processes, Fill(p) PROVE TypeOK'
  BY <1>11 DEF Fill, Returns, Goto
<1>12. ASSUME NEW p \in Processes, FillFails(p) PROVE TypeOK'
  BY <1>12 DEF FillFails, Fails, Goto
<1>13. ASSUME NEW p \in Processes, Derive(p) PROVE TypeOK'
  BY <1>13 DEF Derive, Goto
<1>14. ASSUME NEW p \in Processes, DeriveFails(p) PROVE TypeOK'
  BY <1>14 DEF DeriveFails, Fails, Goto
<1>15. ASSUME NEW p \in Processes, Replace(p) PROVE TypeOK'
  BY <1>15 DEF Replace, Goto
<1>16. ASSUME NEW p \in Processes, Crash(p) PROVE TypeOK'
  BY <1>16 DEF Crash, Goto
<1>17. CASE InstallHelper
  BY <1>17 DEF InstallHelper
<1>18. CASE RemoveHelper
  BY <1>18 DEF RemoveHelper
<1>19. CASE ResetEnclave
  BY <1>19 DEF ResetEnclave
<1>20. CASE DeletePlain
  BY <1>20 DEF DeletePlain
<1> QED
  BY <1>1, <1>2, <1>3, <1>4, <1>5, <1>6, <1>7, <1>8, <1>9, <1>10, <1>11, <1>12,
     <1>13, <1>14, <1>15, <1>16, <1>17, <1>18, <1>19, <1>20 DEF Next, Loading

\* The types of KeyStore hold in every state.
THEOREM TypeCorrect == Spec => []TypeOK
<1>1. Init => TypeOK
  BY InitTyped
<1>2. TypeOK /\ [Next]_vars => TypeOK'
  BY StepTyped
<1> QED
  BY <1>1, <1>2, PTL DEF Spec

-----------------------------------------------------------------------------
(* One identity.  While the user is careful a process that is about to     *)
(* create a key finds either a key.json that is there to stay, or a device *)
(* on which no key is in use at all.                                       *)

\* Key k is in use somewhere.
Goes(k) ==
  \/ Readable /\ plain = k
  \/ enc # Nothing /\ enc.key = k
  \/ \E p \in Processes : cached[p] = k \/ using[p] = k

Agreed == \A k, l \in Keys : Goes(k) /\ Goes(l) => k = l

NoKeyYet == \A k \in Keys : ~Goes(k)

\* A file that is being written holds the key of its only writer.
Written ==
  \A p \in Processes : at[p] = "filling" =>
    /\ plain = made[p] /\ ~whole
    /\ \A q \in Processes : at[q] = "filling" => q = p

\* Where there is no key.json that can be read, a process past its look at
\* key.enc would make the first key.
Careful ==
  /\ Written
  /\ ~Readable /\ (plain # Nothing \/ enc = Nothing \/ ~helper) => NoKeyYet
  /\ ~Readable /\ (\E p \in Processes : at[p] \in {"reading", "creating"}) => NoKeyYet

IInv == TypeOK /\ (~careless => Agreed /\ Careful)

LEMMA InitOne == Init => IInv
<1> SUFFICES ASSUME Init PROVE Agreed /\ Careful
  BY InitTyped DEF IInv
<1>1. \A k \in Keys : ~Goes(k)
  BY KeyStoreAssumption DEF Init, Goes, Readable
<1>2. Written
  BY DEF Init, Written
<1> QED
  BY <1>1, <1>2 DEF Agreed, Careful, NoKeyYet

\* A step that brings no key into use.
LEMMA NothingNew ==
  ASSUME Agreed, \A k \in Keys : Goes(k)' => Goes(k)
  PROVE  Agreed' /\ (NoKeyYet => NoKeyYet')
BY DEF Agreed, NoKeyYet

LEMMA StepOne == IInv /\ [Next]_vars => IInv'
<1> SUFFICES ASSUME IInv, [Next]_vars, ~careless' PROVE Agreed' /\ Careful'
  BY StepTyped DEF IInv
<1> USE DEF KeyOrNone
<1>0. TypeOK /\ Agreed /\ Careful
  <2>1. ~careless
    BY DEF vars, Next, Loading, Load, Cached, Unwrap, NoEnclave, CannotOpen, FallBack,
       ReadPlain, Create, LoseRace, Fill, FillFails, Derive, DeriveFails, Replace, Crash,
       InstallHelper, RemoveHelper, ResetEnclave, DeletePlain
  <2> QED
    BY <2>1 DEF IInv
<1>1. CASE UNCHANGED vars
  BY <1>0, <1>1 DEF vars, files, enclave, process, Agreed, Careful, Written, NoKeyYet,
     Goes, Readable
<1>2. ASSUME NEW p \in Processes, NEW wrap \in BOOLEAN, Load(p, wrap)
      PROVE  Agreed' /\ Careful'
  <2>1. \A k \in Keys : Goes(k)' => Goes(k)
    BY <1>2 DEF Load, files, enclave, Goes, Readable
  <2>2. Written' /\ (Readable' <=> Readable)
    BY <1>0, <1>2 DEF TypeOK, Careful, Written, Load, Goto, files, Readable
  <2>3. \A q \in Processes : at'[q] \in {"reading", "creating"} => at[q] = at'[q]
    BY <1>0, <1>2 DEF TypeOK, Load, Goto
  <2> QED
    BY <1>0, <1>2, <2>1, <2>2, <2>3, NothingNew DEF Careful, Load, files, enclave
<1>3. ASSUME NEW p \in Processes, Cached(p) PROVE Agreed' /\ Careful'
  <2>1. \A k \in Keys : Goes(k)' => Goes(k)
    BY <1>0, <1>3 DEF TypeOK, Cached, Returns, files, enclave, Goes, Readable
  <2>2. Written' /\ (Readable' <=> Readable)
    BY <1>0, <1>3 DEF TypeOK, Careful, Written, Cached, Returns, Goto, files, Readable
  <2>3. \A q \in Processes : at'[q] \in {"reading", "creating"} => at[q] = at'[q]
    BY <1>0, <1>3 DEF TypeOK, Cached, Returns, Goto
  <2> QED
    BY <1>0, <1>3, <2>1, <2>2, <2>3, NothingNew DEF Careful, Cached, files, enclave
<1>4. ASSUME NEW p \in Processes, Unwrap(p) PROVE Agreed' /\ Careful'
  <2>1. \A k \in Keys : Goes(k)' => Goes(k)
    BY <1>0, <1>4 DEF TypeOK, Unwrap, Returns, files, enclave, Goes, Readable
  <2>2. Written' /\ (Readable' <=> Readable)
    BY <1>0, <1>4 DEF TypeOK, Careful, Written, Unwrap, Returns, Goto, files, Readable
  <2>3. \A q \in Processes : at'[q] \in {"reading", "creating"} => at[q] = at'[q]
    BY <1>0, <1>4 DEF TypeOK, Unwrap, Returns, Goto
  <2> QED
    BY <1>0, <1>4, <2>1, <2>2, <2>3, NothingNew DEF Careful, Unwrap, files, enclave
<1>5. ASSUME NEW p \in Processes, NoEnclave(p) PROVE Agreed' /\ Careful'
  <2>1. \A k \in Keys : Goes(k)' => Goes(k)
    BY <1>5 DEF NoEnclave, files, enclave, Goes, Readable
  <2>2. Written' /\ (Readable' <=> Readable)
    BY <1>0, <1>5 DEF TypeOK, Careful, Written, NoEnclave, Goto, files, Readable
  <2> QED
    BY <1>0, <1>5, <2>1, <2>2, NothingNew DEF Careful, NoEnclave, files, enclave
<1>6. ASSUME NEW p \in Processes, CannotOpen(p) PROVE Agreed' /\ Careful'
  <2>1. \A k \in Keys : Goes(k)' => Goes(k)
    BY <1>6 DEF CannotOpen, files, enclave, Goes, Readable
  <2>2. Written' /\ (Readable' <=> Readable)
    BY <1>0, <1>6 DEF TypeOK, Careful, Written, CannotOpen, Goto, files, Readable
  <2>3. \A q \in Processes : at'[q] \in {"reading", "creating"} => at[q] = at'[q]
    BY <1>0, <1>6 DEF TypeOK, CannotOpen, Goto
  <2> QED
    BY <1>0, <1>6, <2>1, <2>2, <2>3, NothingNew DEF Careful, CannotOpen, files, enclave
<1>7. ASSUME NEW p \in Processes, FallBack(p) PROVE Agreed' /\ Careful'
  <2>1. \A k \in Keys : Goes(k)' => Goes(k)
    BY <1>7 DEF FallBack, Fails, files, enclave, Goes, Readable
  <2>2. Written' /\ (Readable' <=> Readable)
    BY <1>0, <1>7 DEF TypeOK, Careful, Written, FallBack, Fails, Goto, files, Readable
  <2>3. ~Readable => \A q \in Processes :
          at'[q] \in {"reading", "creating"} => at[q] = at'[q]
    BY <1>0, <1>7 DEF TypeOK, FallBack, Fails, Goto, MayFallBack
  <2> QED
    BY <1>0, <1>7, <2>1, <2>2, <2>3, NothingNew DEF Careful, FallBack, files, enclave
<1>8. ASSUME NEW p \in Processes, ReadPlain(p) PROVE Agreed' /\ Careful'
  <2>1. \A k \in Keys : Goes(k)' => Goes(k)
    BY <1>0, <1>8 DEF TypeOK, ReadPlain, Returns, files, enclave, Goes, Readable
  <2>2. Written' /\ (Readable' <=> Readable)
    BY <1>0, <1>8 DEF TypeOK, Careful, Written, ReadPlain, Returns, Goto, files, Readable
  <2> QED
    BY <1>0, <1>8, <2>1, <2>2, NothingNew DEF Careful, ReadPlain, files, enclave
<1>9. ASSUME NEW p \in Processes, Create(p) PROVE Agreed' /\ Careful'
  <2>1. ~Readable /\ NoKeyYet
    BY <1>0, <1>9 DEF Careful, Create, MayCreate, Readable
  <2>2. \A k \in Keys : Goes(k)' => Goes(k)
    BY <1>9 DEF Create, enclave, Goes, Readable
  <2>3. \A q \in Processes : at[q] # "filling"
    BY <1>0, <1>9 DEF TypeOK, Careful, Written, Create, MayCreate
  <2>4. Written'
    BY <1>0, <1>9, <2>3 DEF TypeOK, Written, Create, Goto
  <2> QED
    BY <1>0, <2>1, <2>2, <2>4, NothingNew DEF Careful
<1>10. ASSUME NEW p \in Processes, LoseRace(p) PROVE Agreed' /\ Careful'
  <2>1. \A k \in Keys : Goes(k)' => Goes(k)
    BY <1>0, <1>10 DEF TypeOK, LoseRace, Returns, Fails, files, enclave, Goes, Readable
  <2>2. Written' /\ (Readable' <=> Readable)
    BY <1>0, <1>10 DEF TypeOK, Careful, Written, LoseRace, Returns, Fails, Goto, files,
       Readable
  <2>3. \A q \in Processes : at'[q] \in {"reading", "creating"} => at[q] = at'[q]
    BY <1>0, <1>10 DEF TypeOK, LoseRace, Returns, Fails, Goto
  <2> QED
    BY <1>0, <1>10, <2>1, <2>2, <2>3, NothingNew DEF Careful, LoseRace, files, enclave
<1>11. ASSUME NEW p \in Processes, Fill(p) PROVE Agreed' /\ Careful'
  <2>1. /\ plain = made[p] /\ plain # Nothing /\ ~Readable
        /\ \A q \in Processes : at[q] = "filling" => q = p
    BY <1>0, <1>11 DEF TypeOK, Careful, Written, Fill, Readable
  <2>2. NoKeyYet
    BY <1>0, <2>1 DEF Careful
  <2>3. \A k \in Keys : Goes(k)' => k = plain
    BY <1>0, <1>11, <2>1, <2>2 DEF TypeOK, Fill, Returns, enclave, NoKeyYet, Goes, Readable
  <2>4. Written' /\ Readable'
    BY <1>0, <1>11, <2>1 DEF TypeOK, Written, Fill, Returns, Goto, Readable
  <2> QED
    BY <2>3, <2>4 DEF Agreed, Careful
<1>12. ASSUME NEW p \in Processes, FillFails(p) PROVE Agreed' /\ Careful'
  <2>1. \A k \in Keys : Goes(k)' => Goes(k)
    BY <1>12 DEF FillFails, Fails, files, enclave, Goes, Readable
  <2>2. Written' /\ (Readable' <=> Readable)
    BY <1>0, <1>12 DEF TypeOK, Careful, Written, FillFails, Fails, Goto, files, Readable
  <2>3. \A q \in Processes : at'[q] \in {"reading", "creating"} => at[q] = at'[q]
    BY <1>0, <1>12 DEF TypeOK, FillFails, Fails, Goto
  <2> QED
    BY <1>0, <1>12, <2>1, <2>2, <2>3, NothingNew DEF Careful, FillFails, files, enclave
<1>13. ASSUME NEW p \in Processes, Derive(p) PROVE Agreed' /\ Careful'
  <2>1. \A k \in Keys : Goes(k)' => Goes(k)
    BY <1>13 DEF Derive, files, enclave, Goes, Readable
  <2>2. Written' /\ (Readable' <=> Readable)
    BY <1>0, <1>13 DEF TypeOK, Careful, Written, Derive, Goto, files, Readable
  <2>3. \A q \in Processes : at'[q] \in {"reading", "creating"} => at[q] = at'[q]
    BY <1>0, <1>13 DEF TypeOK, Derive, Goto
  <2> QED
    BY <1>0, <1>13, <2>1, <2>2, <2>3, NothingNew DEF Careful, Derive, files, enclave
<1>14. ASSUME NEW p \in Processes, DeriveFails(p) PROVE Agreed' /\ Careful'
  <2>1. \A k \in Keys : Goes(k)' => Goes(k)
    BY <1>14 DEF DeriveFails, Fails, files, enclave, Goes, Readable
  <2>2. Written' /\ (Readable' <=> Readable)
    BY <1>0, <1>14 DEF TypeOK, Careful, Written, DeriveFails, Fails, Goto, files, Readable
  <2>3. \A q \in Processes : at'[q] \in {"reading", "creating"} => at[q] = at'[q]
    BY <1>0, <1>14 DEF TypeOK, DeriveFails, Fails, Goto
  <2> QED
    BY <1>0, <1>14, <2>1, <2>2, <2>3, NothingNew DEF Careful, DeriveFails, files, enclave
<1>15. ASSUME NEW p \in Processes, Replace(p) PROVE Agreed' /\ Careful'
  <2>1. using[p] \in Keys /\ Goes(using[p])
    BY <1>0, <1>15 DEF TypeOK, Replace, Goes
  <2>2. \A k \in Keys : Goes(k)' => Goes(k)
    BY <1>15, <2>1 DEF Replace, enclave, Goes, Readable
  <2>3. Written' /\ (Readable' <=> Readable)
    BY <1>0, <1>15 DEF TypeOK, Careful, Written, Replace, Goto, Readable
  <2>4. \A q \in Processes : at'[q] \in {"reading", "creating"} => at[q] = at'[q]
    BY <1>0, <1>15 DEF TypeOK, Replace, Goto
  <2>5. enc' # Nothing
    BY <1>0, <1>15, <2>1, KeyStoreAssumption DEF TypeOK, Replace
  <2> QED
    BY <1>0, <1>15, <2>1, <2>2, <2>3, <2>4, <2>5, NothingNew
       DEF Careful, NoKeyYet, Replace, enclave
<1>16. ASSUME NEW p \in Processes, Crash(p) PROVE Agreed' /\ Careful'
  <2>1. \A k \in Keys : Goes(k)' => Goes(k)
    BY <1>0, <1>16, KeyStoreAssumption DEF TypeOK, Crash, files, enclave, Goes, Readable
  <2>2. Written' /\ (Readable' <=> Readable)
    BY <1>0, <1>16 DEF TypeOK, Careful, Written, Crash, Goto, files, Readable
  <2>3. \A q \in Processes : at'[q] \in {"reading", "creating"} => at[q] = at'[q]
    BY <1>0, <1>16 DEF TypeOK, Crash, Goto
  <2> QED
    BY <1>0, <1>16, <2>1, <2>2, <2>3, NothingNew DEF Careful, Crash, files, enclave
<1>17. CASE InstallHelper
  BY <1>0, <1>17 DEF InstallHelper, files, process, Agreed, Careful, Written, NoKeyYet,
     Goes, Readable
<1>18. CASE RemoveHelper
  <2>1. plain # Nothing \/ enc = Nothing
    BY <1>18 DEF RemoveHelper
  <2> QED
    BY <1>0, <1>18, <2>1 DEF RemoveHelper, files, process, Agreed, Careful, Written,
       NoKeyYet, Goes, Readable
<1>19. CASE ResetEnclave
  BY <1>0, <1>19 DEF ResetEnclave, files, process, Agreed, Careful, Written, NoKeyYet,
     Goes, Readable
<1>20. CASE DeletePlain
  <2>1. \A k \in Keys : Goes(k)' => Goes(k)
    BY <1>20 DEF DeletePlain, enclave, process, Goes, Readable
  <2>2. /\ \A p \in Processes : at'[p] = "idle"
        /\ enc = Nothing \/ helper
        /\ enc = Nothing => NoKeyYet
    BY <1>0, <1>20 DEF DeletePlain, process, Careful, Readable
  <2>3. Agreed' /\ (NoKeyYet => NoKeyYet')
    BY <1>0, <2>1, NothingNew
  <2>4. Written'
    BY <2>2 DEF Written
  <2>5. plain' = Nothing /\ enc' = enc /\ helper' = helper
    BY <1>20 DEF DeletePlain, enclave
  <2> QED
    BY <2>2, <2>3, <2>4, <2>5 DEF Careful
<1> QED
  BY <1>1, <1>2, <1>3, <1>4, <1>5, <1>6, <1>7, <1>8, <1>9, <1>10, <1>11, <1>12,
     <1>13, <1>14, <1>15, <1>16, <1>17, <1>18, <1>19, <1>20 DEF Next, Loading

\* Careful users have one identity: gates that start together, are killed while
\* they write, wrap or fall back never bring a second key into use.
THEOREM OneIdentityHolds == Spec => []OneIdentity
<1>1. IInv => OneIdentity
  BY DEF IInv, OneIdentity, Agreed, InUse, Goes
<1>2. Init => IInv
  BY InitOne
<1>3. IInv /\ [Next]_vars => IInv'
  BY StepOne
<1> QED
  BY <1>1, <1>2, <1>3, PTL DEF Spec

=============================================================================
