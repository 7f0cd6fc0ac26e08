------------------------------ MODULE RelayAuth ------------------------------
(***************************************************************************)
(* How the relay decides that a signed request is authentic, once.         *)
(*                                                                         *)
(* A request carries the time its client signed it and a random nonce.     *)
(* _check_signature compares that time with the relay's clock, verifies    *)
(* the signature, sweeps old nonces out of _seen_nonces and, last, looks   *)
(* the nonce up and records it.  Handlers run in a thread pool, so every   *)
(* one of these is a step of its own, and time passes between them.  The   *)
(* tickets that stand in for a signature on a WebSocket live here too.     *)
(*                                                                         *)
(* A request is named by its nonce: os.urandom(12) never repeats.  Only    *)
(* well-formed requests whose key fits their address are considered: the   *)
(* others are refused before they touch any state.                         *)
(***************************************************************************)
EXTENDS Integers, FiniteSets

CONSTANTS
  Agents,         \* agent ids
  Nonces,         \* requests, each one named by its nonce
  Handlers,       \* threads executing _check_signature
  MaxClockSkew,   \* MAX_CLOCK_SKEW
  NonceTTL,       \* NONCE_TTL
  TicketTTL,      \* TICKET_TTL
  MaxStall,       \* longest time a handler spends between skew check and sweep
  MaxTime         \* bound on the relay's clock

\* The code's values are 60, 180 and 3600 seconds: the nonce cache outlives
\* the acceptance window by a minute, which is what MaxStall may be.
ASSUME RelayAuthAssumption ==
  /\ MaxClockSkew \in Nat
  /\ NonceTTL \in Nat
  /\ TicketTTL \in Nat
  /\ MaxStall \in Nat
  /\ MaxTime \in Nat
  /\ 2 * MaxClockSkew + MaxStall <= NonceTTL

VARIABLES
  now,        \* time.time() on the relay
  signed,     \* nonce -> who signs that request, and when by its own clock
  seen,       \* _seen_nonces: nonce -> when, or Unseen
  tickets,    \* _tickets
  work,       \* handler -> where _check_signature stands
  accepted,   \* requests accepted since the relay started (history)
  admitted    \* agents with a WebSocket admitted since then (history)

vars == <<now, signed, seen, tickets, work, accepted, admitted>>

Unseen == -1
Times == 0..MaxTime

Idle == [at |-> "idle"]
Working(at) == [at : at, nonce : Nonces, read : Times]

TypeOK ==
  /\ now \in Times
  /\ signed \in [Nonces -> [agent : Agents, ts : Times]]
  /\ seen \in [Nonces -> {Unseen} \cup 0..now]
  /\ tickets \subseteq [agent : Agents, expires : Nat]
  /\ work \in [Handlers -> {Idle} \cup Working({"verified", "fresh"})]
  /\ \A h \in Handlers : work[h] # Idle => work[h].read <= now
  /\ accepted \subseteq Nonces
  /\ admitted \subseteq Agents

\* Each client signs with its own clock, which may be wrong.
Init ==
  /\ now = 0
  /\ signed \in [Nonces -> [agent : Agents, ts : Times]]
  /\ seen = [n \in Nonces |-> Unseen]
  /\ tickets = {}
  /\ work = [h \in Handlers |-> Idle]
  /\ accepted = {}
  /\ admitted = {}

-----------------------------------------------------------------------------
(* _check_signature. *)

\* A handler is never held up for longer than MaxStall between its two looks
\* at the clock.
Tick ==
  /\ now < MaxTime
  /\ \A h \in Handlers :
       work[h].at = "verified" => now < work[h].read + MaxStall
  /\ now' = now + 1
  /\ UNCHANGED <<signed, seen, tickets, work, accepted, admitted>>

\* Mutant: only requests from the future are refused, stale ones are not.
NotFromTheFuture(ts) == ts - now <= MaxClockSkew

\* abs(time.time() - float(ts)) <= MAX_CLOCK_SKEW
InWindow(ts) ==
  /\ now - ts <= MaxClockSkew
  /\ ts - now <= MaxClockSkew

\* A request arrives, for the first time or again, and passes the skew check
\* and the signature check.
Verify(h, n) ==
  /\ work[h] = Idle
  /\ InWindow(signed[n].ts)
  /\ work' = [work EXCEPT ![h] = [at |-> "verified", nonce |-> n, read |-> now]]
  /\ UNCHANGED <<now, signed, seen, tickets, accepted, admitted>>

\* _sweep: nonces older than NONCE_TTL and tickets past their expiry go.
Swept == [n \in Nonces |-> IF seen[n] # Unseen /\ now - seen[n] > NonceTTL
                           THEN Unseen ELSE seen[n]]
LiveTickets == {t \in tickets : now <= t.expires}

\* The second look at the clock, the sweep and the look at the nonce cache:
\* 401 if the nonce is known.
Look(h) ==
  /\ work[h].at = "verified"
  /\ seen' = Swept
  /\ tickets' = LiveTickets
  /\ LET n == work[h].nonce IN
     work' = [work EXCEPT ![h] =
       IF Swept[n] = Unseen THEN [at |-> "fresh", nonce |-> n, read |-> now]
                            ELSE Idle]
  /\ UNCHANGED <<now, signed, accepted, admitted>>

\* Mutants: the nonce is remembered with the client's time; not at all.
SeenAtClientTime(h) ==
  [seen EXCEPT ![work[h].nonce] = signed[work[h].nonce].ts]
SeenNever(h) == seen

\* _seen_nonces[nonce] = now, with the time read before the sweep.
SeenNow(h) == [seen EXCEPT ![work[h].nonce] = work[h].read]

\* The nonce is recorded and the request accepted; POST /auth/ticket goes on
\* to mint a ticket.
Record(h, minted) ==
  /\ work[h].at = "fresh"
  /\ seen' = SeenNow(h)
  /\ accepted' = accepted \cup {work[h].nonce}
  /\ work' = [work EXCEPT ![h] = Idle]
  /\ tickets' = tickets \cup minted
  /\ UNCHANGED <<now, signed, admitted>>

-----------------------------------------------------------------------------
(* Tickets and sockets. *)

\* mint_ticket, for the agent that signed the request.
TicketFor(h) ==
  [agent |-> signed[work[h].nonce].agent, expires |-> now + TicketTTL]

MintTicket(h) == work[h].at = "fresh" /\ Record(h, {TicketFor(h)})

\* Mutant: any live ticket opens any inbox's socket.
LiveTicket(a, t) == now <= t.expires

Admits(a, t) == t.agent = a /\ now <= t.expires

\* ws_inbox: swept first; the ticket must be this agent's and be live.
Connect(a) ==
  /\ \E t \in LiveTickets : Admits(a, t)
  /\ seen' = Swept
  /\ tickets' = LiveTickets
  /\ admitted' = admitted \cup {a}
  /\ UNCHANGED <<now, signed, work, accepted>>

\* Nonces, tickets and connections are only in memory.
Restart ==
  /\ seen' = [n \in Nonces |-> Unseen]
  /\ tickets' = {}
  /\ work' = [h \in Handlers |-> Idle]
  /\ accepted' = {}
  /\ admitted' = {}
  /\ UNCHANGED <<now, signed>>

Next ==
  \/ Tick
  \/ \E h \in Handlers, n \in Nonces : Verify(h, n)
  \/ \E h \in Handlers : Look(h) \/ Record(h, {}) \/ MintTicket(h)
  \/ \E a \in Agents : Connect(a)
  \/ Restart

Spec == Init /\ [][Next]_vars

-----------------------------------------------------------------------------
(* What makes it correct. *)

\* "The nonce cache remembers each one for longer than the window is wide, so
\* nothing can be replayed": a request the relay has accepted never passes the
\* nonce check again, however late its copy arrives and however the handlers
\* interleave.  (Two copies that are past the check before either is recorded
\* are both accepted: the look and the record are two steps of the code.)
NoReplay ==
  [][\A h \in Handlers :
       work[h].at = "verified" /\ work'[h].at = "fresh"
         => work[h].nonce \notin accepted]_vars

\* A nonce is forgotten only once no copy of its request would be let in.
ForgottenIsStale ==
  \A n \in accepted :
    seen[n] # Unseen \/ now > signed[n].ts + MaxClockSkew

\* An agent's doorbell socket was paid for by a request that agent signed.
SocketProvesKey ==
  \A a \in admitted : \E n \in accepted : signed[n].agent = a

=============================================================================
