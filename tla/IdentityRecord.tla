--------------------------- MODULE IdentityRecord ---------------------------
(***************************************************************************)
(* What the device's identity record is meant to be: one object that every *)
(* operation of identity.py changes in a single step, whoever calls it.    *)
(*                                                                         *)
(* IdentityFile, in which the same operations take a lock, read a file,    *)
(* and write it back, is shown to implement this module.                   *)
(***************************************************************************)
EXTENDS Integers

CONSTANTS
  Ids,       \* agent ids
  Names,     \* account names
  Nothing    \* a field that is not set

VARIABLES
  record,    \* the fields of identity.json that outlive a change of another
  issued     \* the ordinals handed out to sessions

vars == <<record, issued>>

Records == [agent : Ids \cup {Nothing}, account : Names \cup {Nothing},
            print : BOOLEAN, confirmed : BOOLEAN, counter : Nat]

Blank == [agent |-> Nothing, account |-> Nothing,
          print |-> FALSE, confirmed |-> FALSE, counter |-> 0]

-----------------------------------------------------------------------------
(* What each operation makes of the record. *)

\* next_ordinal
Counted(r) == [r EXCEPT !.counter = @ + 1]

\* seed_counter_from_records
Raised(r, n) == [r EXCEPT !.counter = IF @ < n THEN n ELSE @]

\* set_account_name
Accounted(r, name) == [r EXCEPT !.account = name]

\* mark_confirmed
Confirmed(r) == [r EXCEPT !.confirmed = TRUE]

\* Mutant: the counter is not among the fields carried over.
RenamedAnew(r, id) == [r EXCEPT !.agent = id, !.confirmed = TRUE, !.counter = 0]

\* _write_identity: a rename replaces the id and resets nothing else.
Renamed(r, id) == [r EXCEPT !.agent = id, !.confirmed = TRUE]

\* save_fingerprint: a record without an id gets one.
Printed(r, id) ==
  [r EXCEPT !.print = TRUE, !.agent = IF @ = Nothing THEN id ELSE @]

\* _generate_and_persist
Born(id) == [Blank EXCEPT !.agent = id]

-----------------------------------------------------------------------------

Init ==
  /\ record = Blank
  /\ issued = {}

Issue ==
  /\ record' = Counted(record)
  /\ issued' = issued \cup {record.counter + 1}

Update ==
  /\ \/ record' = Raised(record, record'.counter)
     \/ \E name \in Names : record' = Accounted(record, name)
     \/ record' = Confirmed(record)
     \/ \E id \in Ids : record' = Renamed(record, id)
     \/ \E id \in Ids : record' = Printed(record, id)
  /\ UNCHANGED issued

\* A device names itself only while it has no name.
Birth ==
  /\ record = Blank
  /\ \E id \in Ids : record' = Born(id)
  /\ UNCHANGED issued

Next == Issue \/ Update \/ Birth

Spec == Init /\ [][Next]_vars

=============================================================================
