------------------------------- MODULE KeyStore -------------------------------
(***************************************************************************)
(* The identity key of a device: key.json, key.enc (the same key wrapped   *)
(* by the Secure Enclave) and the copies its processes hold.  Gates that   *)
(* start together may each find no key and make one.                       *)
(*                                                                         *)
(* A key stands for both its halves.  key.json is created empty and filled *)
(* in a second step; key.enc is replaced in one.  Only one process at a    *)
(* time wraps, which users do by hand.                                     *)
(***************************************************************************)
EXTENDS Naturals

CONSTANTS
  Processes,  \* gates and other users of the key
  Keys,       \* what generate() may return
  MaxResets,  \* bound: resets of the enclave
  Nothing     \* no file, no key

ASSUME KeyStoreAssumption ==
  /\ MaxResets \in Nat
  /\ Nothing \notin Keys \cup [key : Keys, epoch : Nat]

VARIABLES
  plain,    \* key.json: the key that is in it or is being written, or Nothing
  whole,    \* key.json has been written to its end
  enc,      \* key.enc: the key and the wrapping secret's epoch, or Nothing
  helper,   \* the enclave helper is installed
  epoch,    \* resets of the enclave so far; each makes a new wrapping secret
  at,       \* process -> where it stands
  wraps,    \* process -> it loads the key to wrap it
  cached,   \* process -> the key it has unwrapped (_unwrapped)
  using,    \* process -> the key that it got last
  made,     \* process -> the key that it is writing
  secret,   \* process -> the epoch of the secret it has derived
  careless  \* the user took away what was needed (history)

files == <<plain, whole, enc>>
enclave == <<helper, epoch>>
process == <<at, wraps, cached, using, made, secret>>
vars == <<files, enclave, process, careless>>

KeyOrNone == Keys \cup {Nothing}
Steps == {"idle", "unwrapping", "shut", "reading", "creating", "filling",
          "sealing", "replacing"}

TypeOK ==
  /\ plain \in KeyOrNone
  /\ whole \in BOOLEAN
  /\ enc \in [key : Keys, epoch : 0..MaxResets] \cup {Nothing}
  /\ helper \in BOOLEAN
  /\ epoch \in 0..MaxResets
  /\ at \in [Processes -> Steps]
  /\ wraps \in [Processes -> BOOLEAN]
  /\ cached \in [Processes -> KeyOrNone]
  /\ using \in [Processes -> KeyOrNone]
  /\ made \in [Processes -> KeyOrNone]
  /\ secret \in [Processes -> 0..MaxResets]
  /\ careless \in BOOLEAN
  /\ \A p \in Processes :
       /\ at[p] = "filling" => made[p] # Nothing
       /\ at[p] \in {"sealing", "replacing"} => using[p] # Nothing

Init ==
  /\ plain = Nothing
  /\ whole = FALSE
  /\ enc = Nothing
  /\ helper \in BOOLEAN
  /\ epoch = 0
  /\ at = [p \in Processes |-> "idle"]
  /\ wraps = [p \in Processes |-> FALSE]
  /\ cached = [p \in Processes |-> Nothing]
  /\ using = [p \in Processes |-> Nothing]
  /\ made = [p \in Processes |-> Nothing]
  /\ secret = [p \in Processes |-> 0]
  /\ careless = FALSE

-----------------------------------------------------------------------------
(* load_or_create *)

Goto(p, step) == at' = [at EXCEPT ![p] = step]

\* Mutant: any record is valid, also none.
AnyRecord == TRUE

\* _valid(_read_json(key_path()))
Readable == plain # Nothing /\ whole

\* load_or_create returns a key; enclave_wrap goes on with it.
Returns(p, key) ==
  /\ using' = [using EXCEPT ![p] = key]
  /\ Goto(p, IF wraps[p] THEN "sealing" ELSE "idle")

\* It raises; the process goes on without a key, or with the one it had.
Fails(p) ==
  /\ Goto(p, "idle")
  /\ UNCHANGED using

\* For a gate, or for enclave_wrap, which looks for the helper first.
Load(p, wrap) ==
  /\ at[p] = "idle"
  /\ wrap => helper /\ \A q \in Processes : at[q] # "idle" => ~wraps[q]
  /\ wraps' = [wraps EXCEPT ![p] = wrap]
  /\ Goto(p, "unwrapping")
  /\ UNCHANGED <<files, enclave, cached, using, made, secret, careless>>

Cached(p) ==
  /\ at[p] = "unwrapping"
  /\ cached[p] # Nothing
  /\ Returns(p, cached[p])
  /\ UNCHANGED <<files, enclave, wraps, cached, made, secret, careless>>

\* enclave_load
Unwrap(p) ==
  /\ at[p] = "unwrapping"
  /\ cached[p] = Nothing
  /\ enc # Nothing /\ helper /\ enc.epoch = epoch
  /\ cached' = [cached EXCEPT ![p] = enc.key]
  /\ Returns(p, enc.key)
  /\ UNCHANGED <<files, enclave, wraps, made, secret, careless>>

\* Nothing to unwrap, or nothing to unwrap it with.
NoEnclave(p) ==
  /\ at[p] = "unwrapping"
  /\ cached[p] = Nothing
  /\ enc = Nothing \/ ~helper
  /\ Goto(p, "reading")
  /\ UNCHANGED <<files, enclave, wraps, cached, using, made, secret, careless>>

\* CryptoError: the enclave was reset, or the user does not touch the sensor.
CannotOpen(p) ==
  /\ at[p] = "unwrapping"
  /\ cached[p] = Nothing
  /\ enc # Nothing /\ helper
  /\ Goto(p, "shut")
  /\ UNCHANGED <<files, enclave, wraps, cached, using, made, secret, careless>>

\* Mutant: a key.enc that does not open is passed over.
PassOver == TRUE

\* A key.enc that does not open strands nobody who has a key.json, and is fatal
\* to everybody else.
MayFallBack == Readable

FallBack(p) ==
  /\ at[p] = "shut"
  /\ IF MayFallBack THEN Goto(p, "reading") /\ UNCHANGED using ELSE Fails(p)
  /\ UNCHANGED <<files, enclave, wraps, cached, made, secret, careless>>

ReadPlain(p) ==
  /\ at[p] = "reading"
  /\ IF Readable THEN Returns(p, plain) ELSE Goto(p, "creating") /\ UNCHANGED using
  /\ UNCHANGED <<files, enclave, wraps, cached, made, secret, careless>>

MayCreate == plain = Nothing

\* O_CREAT | O_EXCL
Create(p) ==
  /\ at[p] = "creating"
  /\ MayCreate
  /\ \E key \in Keys : plain' = key /\ made' = [made EXCEPT ![p] = key]
  /\ whole' = FALSE
  /\ Goto(p, "filling")
  /\ UNCHANGED <<enc, enclave, wraps, cached, using, secret, careless>>

\* FileExistsError: the winner may not have filled it yet.
LoseRace(p) ==
  /\ at[p] = "creating"
  /\ ~MayCreate
  /\ IF Readable THEN Returns(p, plain) ELSE Fails(p)
  /\ UNCHANGED <<files, enclave, wraps, cached, made, secret, careless>>

\* The file may have been deleted under its writer.
Fill(p) ==
  /\ at[p] = "filling"
  /\ whole' = (whole \/ plain = made[p])
  /\ Returns(p, made[p])
  /\ made' = [made EXCEPT ![p] = Nothing]
  /\ UNCHANGED <<plain, enc, enclave, wraps, cached, secret, careless>>

\* The disk is full.
FillFails(p) ==
  /\ at[p] = "filling"
  /\ Fails(p)
  /\ made' = [made EXCEPT ![p] = Nothing]
  /\ UNCHANGED <<files, enclave, wraps, cached, secret, careless>>

-----------------------------------------------------------------------------
(* enclave_wrap *)

\* The helper's init and derive.
Derive(p) ==
  /\ at[p] = "sealing"
  /\ helper
  /\ secret' = [secret EXCEPT ![p] = epoch]
  /\ Goto(p, "replacing")
  /\ UNCHANGED <<files, enclave, wraps, cached, using, made, careless>>

DeriveFails(p) ==
  /\ at[p] = "sealing"
  /\ Fails(p)
  /\ UNCHANGED <<files, enclave, wraps, cached, made, secret, careless>>

\* os.replace.  key.json is left alone, and so is what is cached.
Replace(p) ==
  /\ at[p] = "replacing"
  /\ enc' = [key |-> using[p], epoch |-> secret[p]]
  /\ secret' = [secret EXCEPT ![p] = 0]
  /\ Goto(p, "idle")
  /\ UNCHANGED <<plain, whole, enclave, wraps, cached, using, made, careless>>

-----------------------------------------------------------------------------
(* Processes that end, and what users do. *)

\* A process ends or is killed wherever it is.
Crash(p) ==
  /\ at[p] # "idle" \/ using[p] # Nothing
  /\ Goto(p, "idle")
  /\ cached' = [cached EXCEPT ![p] = Nothing]
  /\ using' = [using EXCEPT ![p] = Nothing]
  /\ made' = [made EXCEPT ![p] = Nothing]
  /\ secret' = [secret EXCEPT ![p] = 0]
  /\ UNCHANGED <<files, enclave, wraps, careless>>

InstallHelper ==
  /\ ~helper
  /\ helper' = TRUE
  /\ UNCHANGED <<files, epoch, process, careless>>

\* Without the helper key.enc is not looked at.
RemoveHelper ==
  /\ helper
  /\ helper' = FALSE
  /\ careless' = (careless \/ (enc # Nothing /\ plain = Nothing))
  /\ UNCHANGED <<files, epoch, process>>

ResetEnclave ==
  /\ epoch < MaxResets
  /\ epoch' = epoch + 1
  /\ UNCHANGED <<files, helper, process, careless>>

\* "The separate, irreversible step"; or an empty key.json has to go.  Careful
\* users have the helper, and no gate that is about to read the file.
DeletePlain ==
  /\ plain # Nothing
  /\ enc # Nothing \/ ~whole
  /\ plain' = Nothing
  /\ whole' = FALSE
  /\ careless' = (careless \/ (enc # Nothing /\ ~helper)
                          \/ \E p \in Processes : at[p] # "idle")
  /\ UNCHANGED <<enc, enclave, process>>

-----------------------------------------------------------------------------

Loading(p) ==
  \/ \E wrap \in BOOLEAN : Load(p, wrap)
  \/ Cached(p) \/ Unwrap(p) \/ NoEnclave(p) \/ CannotOpen(p) \/ FallBack(p)
  \/ ReadPlain(p) \/ Create(p) \/ LoseRace(p) \/ Fill(p) \/ FillFails(p)

Next ==
  \/ \E p \in Processes :
       Loading(p) \/ Derive(p) \/ DeriveFails(p) \/ Replace(p) \/ Crash(p)
  \/ InstallHelper \/ RemoveHelper \/ ResetEnclave \/ DeletePlain

Spec == Init /\ [][Next]_vars

-----------------------------------------------------------------------------
(* What makes it correct. *)

\* The keys that the device goes by, or would after a restart.
InUse ==
  {k \in Keys :
     \/ Readable /\ plain = k
     \/ enc # Nothing /\ enc.key = k
     \/ \E p \in Processes : k \in {cached[p], using[p]}}

\* "So two gates starting together cannot clobber each other's key": a device
\* has one identity, in its files and in its processes, whichever gates start
\* together, wrap, fail to unwrap or are killed; unless the user deletes
\* key.json under a running load or without the helper, or removes the helper
\* after key.json.
OneIdentity == ~careless => \A k, l \in InUse : k = l

=============================================================================
