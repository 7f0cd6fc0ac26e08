--------------------------- MODULE RelayAuthProofs ---------------------------
(***************************************************************************)
(* Theorems about RelayAuth, for every number of agents, requests and      *)
(* handlers and all time constants that fit RelayAuthAssumption.           *)
(***************************************************************************)
EXTENDS RelayAuth, TLAPS

Ts(n) == signed[n].ts

\* A request that is past the skew check was inside the window when it was
\* checked, which is at most MaxStall ago until the nonce cache is looked at;
\* the time a nonce will be recorded with is not before its window opened.
WindowInv ==
  \A h \in Handlers :
    /\ work[h].at = "verified" =>
         /\ now <= work[h].read + MaxStall
         /\ work[h].read <= Ts(work[h].nonce) + MaxClockSkew
    /\ work[h].at # "idle" => Ts(work[h].nonce) - MaxClockSkew <= work[h].read

\* An accepted request is remembered, with a time inside its window, for as long
\* as a copy of it could still be on its way through the checks.
RememberedInv ==
  \A n \in accepted :
    \/ seen[n] # Unseen /\ Ts(n) - MaxClockSkew <= seen[n]
    \/ now > Ts(n) + MaxClockSkew + MaxStall

AuthInv == TypeOK /\ WindowInv /\ RememberedInv

-----------------------------------------------------------------------------
(* Type correctness. *)

LEMMA TypeInit == Init => TypeOK
BY RelayAuthAssumption DEF Init, TypeOK, Times, Idle, Unseen

\* What a handler at work knows.
LEMMA WorkShape ==
  ASSUME TypeOK, NEW h \in Handlers
  PROVE  /\ work[h].at \in {"idle", "verified", "fresh"}
         /\ work[h].at = "idle" <=> work[h] = Idle
         /\ work[h].at # "idle" =>
              /\ work[h].nonce \in Nonces
              /\ work[h].read \in Times
              /\ work[h].read \in 0..now
              /\ signed[work[h].nonce] \in [agent : Agents, ts : Times]
BY RelayAuthAssumption DEF TypeOK, Working, Idle, Times

LEMMA SweptType ==
  ASSUME TypeOK
  PROVE  /\ Swept \in [Nonces -> {Unseen} \cup 0..now]
         /\ LiveTickets \subseteq tickets
BY DEF TypeOK, Swept, LiveTickets

LEMMA RecordType ==
  ASSUME TypeOK, NEW h \in Handlers, NEW minted,
         minted \subseteq [agent : Agents, expires : Nat], Record(h, minted)
  PROVE  TypeOK'
<1>1. /\ work[h].nonce \in Nonces
      /\ work[h].read \in 0..now
  BY WorkShape DEF Record
<1>2. seen' \in [Nonces -> {Unseen} \cup 0..now]
  BY <1>1 DEF Record, SeenNow, TypeOK
<1>3. QED
  BY <1>1, <1>2 DEF Record, TypeOK, Idle

LEMMA TypeNext ==
  ASSUME TypeOK, [Next]_vars
  PROVE  TypeOK'
<1> USE RelayAuthAssumption
<1>1. CASE Tick
  <2>1. now \in Nat /\ now' = now + 1 /\ now' \in Times
    BY <1>1 DEF Tick, TypeOK, Times
  <2>2. seen' \in [Nonces -> {Unseen} \cup 0..now']
    BY <1>1, <2>1 DEF Tick, TypeOK
  <2>3. \A h \in Handlers : work[h] # Idle => work[h].read <= now'
    <3>1. \A h \in Handlers : work[h] # Idle => work[h].read \in 0..now
      BY WorkShape DEF TypeOK, Working, Idle, Times
    <3>2. QED
      BY <2>1, <3>1
  <2>4. QED
    BY <1>1, <2>1, <2>2, <2>3 DEF Tick, TypeOK
<1>2. ASSUME NEW h \in Handlers, NEW n \in Nonces, Verify(h, n)
      PROVE  TypeOK'
  <2>1. [at |-> "verified", nonce |-> n, read |-> now]
          \in Working({"verified", "fresh"})
    BY DEF TypeOK, Working
  <2>2. now \in Nat
    BY DEF TypeOK, Times
  <2>3. work' \in [Handlers -> {Idle} \cup Working({"verified", "fresh"})]
    BY <1>2, <2>1 DEF Verify, TypeOK
  <2>4. \A i \in Handlers : work'[i] # Idle => work'[i].read <= now
    BY <1>2, <2>2 DEF Verify, TypeOK
  <2>5. QED
    BY <1>2, <2>3, <2>4 DEF Verify, TypeOK
<1>3. ASSUME NEW h \in Handlers, Look(h)
      PROVE  TypeOK'
  <2>1. work[h].nonce \in Nonces
    BY <1>3, WorkShape DEF Look
  <2>2. QED
    BY <1>3, <2>1, SweptType DEF Look, TypeOK, Working, Times
<1>4. ASSUME NEW h \in Handlers, Record(h, {})
      PROVE  TypeOK'
  BY <1>4, RecordType
<1>5. ASSUME NEW h \in Handlers, MintTicket(h)
      PROVE  TypeOK'
  <2>1. TicketFor(h) \in [agent : Agents, expires : Nat]
    BY <1>5, WorkShape DEF MintTicket, TicketFor, TypeOK, Times
  <2>2. QED
    BY <1>5, <2>1, RecordType DEF MintTicket
<1>6. ASSUME NEW a \in Agents, Connect(a)
      PROVE  TypeOK'
  BY <1>6, SweptType DEF Connect, TypeOK
<1>7. CASE Restart
  BY <1>7 DEF Restart, TypeOK, Idle, Unseen
<1>8. CASE UNCHANGED vars
  BY <1>8 DEF vars, TypeOK
<1>9. QED
  BY <1>1, <1>2, <1>3, <1>4, <1>5, <1>6, <1>7, <1>8 DEF Next

\* The type invariant holds in every state.
THEOREM TypeCorrect == Spec => []TypeOK
BY TypeInit, TypeNext, PTL DEF Spec

-----------------------------------------------------------------------------
(* The nonce cache outlives the window. *)

\* Sweeping forgets a nonce only when no copy of its request can be on its way.
LEMMA SweepKeepsRemembered ==
  ASSUME AuthInv, NEW n \in accepted
  PROVE  \/ Swept[n] # Unseen /\ Ts(n) - MaxClockSkew <= Swept[n]
         \/ now > Ts(n) + MaxClockSkew + MaxStall
<1> USE RelayAuthAssumption
<1>1. n \in Nonces /\ Ts(n) \in Nat /\ now \in Nat /\ seen[n] \in {Unseen} \cup 0..now
  BY DEF AuthInv, TypeOK, Ts, Times
<1>2. CASE now > Ts(n) + MaxClockSkew + MaxStall
  BY <1>2
<1>3. CASE seen[n] # Unseen /\ Ts(n) - MaxClockSkew <= seen[n]
  <2>1. CASE now - seen[n] > NonceTTL
    BY <1>1, <1>3, <2>1
  <2>2. CASE ~(now - seen[n] > NonceTTL)
    BY <1>1, <1>3, <2>2 DEF Swept
  <2>3. QED
    BY <2>1, <2>2
<1>4. QED
  BY <1>2, <1>3 DEF AuthInv, RememberedInv

\* Recording a nonce keeps what is remembered.
LEMMA RecordKeepsRemembered ==
  ASSUME AuthInv, NEW h \in Handlers, NEW minted, Record(h, minted)
  PROVE  WindowInv' /\ RememberedInv'
<1> USE RelayAuthAssumption
<1>1. /\ work[h].nonce \in Nonces
      /\ work[h].read \in 0..now
      /\ Ts(work[h].nonce) - MaxClockSkew <= work[h].read
  BY WorkShape DEF AuthInv, WindowInv, Record
<1>2. WindowInv'
  BY DEF AuthInv, WindowInv, Record, TypeOK, Idle, Ts
<1>3. ASSUME NEW n \in accepted'
      PROVE  \/ seen'[n] # Unseen /\ Ts(n)' - MaxClockSkew <= seen'[n]
             \/ now' > Ts(n)' + MaxClockSkew + MaxStall
  <2>1. CASE n = work[h].nonce
    BY <1>1, <2>1 DEF AuthInv, TypeOK, Record, SeenNow, Unseen, Ts
  <2>2. CASE n # work[h].nonce
    BY <1>1, <1>3, <2>2 DEF AuthInv, RememberedInv, TypeOK, Record, SeenNow, Ts
  <2>3. QED
    BY <2>1, <2>2
<1>4. QED
  BY <1>2, <1>3 DEF RememberedInv

LEMMA AuthInit == Init => AuthInv
<1>1. Init => WindowInv /\ RememberedInv
  BY DEF Init, WindowInv, RememberedInv, Idle
<1>2. QED
  BY <1>1, TypeInit DEF AuthInv

LEMMA AuthNext ==
  ASSUME AuthInv, [Next]_vars
  PROVE  AuthInv'
<1> USE RelayAuthAssumption
<1>1. TypeOK /\ TypeOK'
  BY TypeNext DEF AuthInv
<1>2. CASE Tick
  <2>1. ASSUME NEW h \in Handlers, work[h].at = "verified"
        PROVE  now' <= work[h].read + MaxStall
    <3>1. work[h].read \in Nat /\ now \in Nat
      BY <1>1, <2>1, WorkShape DEF TypeOK, Times
    <3>2. QED
      BY <1>2, <2>1, <3>1 DEF Tick
  <2>2. WindowInv'
    BY <1>2, <2>1 DEF Tick, AuthInv, WindowInv, Ts
  <2>3. ASSUME NEW n \in accepted
        PROVE  now > Ts(n) + MaxClockSkew + MaxStall
                 => now' > Ts(n) + MaxClockSkew + MaxStall
    BY <1>1, <1>2 DEF Tick, TypeOK, Ts, Times
  <2>4. RememberedInv'
    BY <1>2, <2>3 DEF Tick, AuthInv, RememberedInv, Ts
  <2>5. QED
    BY <1>1, <2>2, <2>4 DEF AuthInv
<1>3. ASSUME NEW h \in Handlers, NEW n \in Nonces, Verify(h, n)
      PROVE  AuthInv'
  <2>1. now \in Nat /\ Ts(n) \in Nat
    BY <1>1 DEF TypeOK, Ts, Times
  <2>2. WindowInv'
    BY <1>1, <1>3, <2>1 DEF Verify, InWindow, AuthInv, WindowInv, TypeOK, Ts
  <2>3. RememberedInv'
    BY <1>3 DEF Verify, AuthInv, RememberedInv, Ts
  <2>4. QED
    BY <1>1, <2>2, <2>3 DEF AuthInv
<1>4. ASSUME NEW h \in Handlers, Look(h)
      PROVE  AuthInv'
  <2>1. /\ work[h].nonce \in Nonces
        /\ work[h].read \in 0..now
        /\ Ts(work[h].nonce) \in Nat
        /\ Ts(work[h].nonce) - MaxClockSkew <= work[h].read
        /\ now \in Nat
    BY <1>1, <1>4, WorkShape DEF Look, AuthInv, WindowInv, TypeOK, Ts, Times
  <2>2. WindowInv'
    BY <1>1, <1>4, <2>1 DEF Look, AuthInv, WindowInv, TypeOK, Ts, Idle
  <2>3. RememberedInv'
    BY <1>4, SweepKeepsRemembered DEF Look, RememberedInv, Ts
  <2>4. QED
    BY <1>1, <2>2, <2>3 DEF AuthInv
<1>5. ASSUME NEW h \in Handlers, Record(h, {}) \/ MintTicket(h)
      PROVE  AuthInv'
  BY <1>1, <1>5, RecordKeepsRemembered DEF MintTicket, AuthInv
<1>6. ASSUME NEW a \in Agents, Connect(a)
      PROVE  AuthInv'
  <2>1. RememberedInv'
    BY <1>6, SweepKeepsRemembered DEF Connect, RememberedInv, Ts
  <2>2. WindowInv'
    BY <1>6 DEF Connect, AuthInv, WindowInv, Ts
  <2>3. QED
    BY <1>1, <2>1, <2>2 DEF AuthInv
<1>7. CASE Restart
  BY <1>1, <1>7 DEF Restart, AuthInv, WindowInv, RememberedInv, Idle
<1>8. CASE UNCHANGED vars
  BY <1>1, <1>8 DEF vars, AuthInv, WindowInv, RememberedInv, Ts
<1>9. QED
  BY <1>2, <1>3, <1>4, <1>5, <1>6, <1>7, <1>8 DEF Next

LEMMA AuthCorrect == Spec => []AuthInv
BY AuthInit, AuthNext, PTL DEF Spec

\* A nonce is forgotten only once no copy of its request would be let in.
THEOREM ForgottenCorrect == Spec => []ForgottenIsStale
<1>1. AuthInv => ForgottenIsStale
  <2>1. ASSUME AuthInv, NEW n \in accepted
        PROVE  seen[n] # Unseen \/ now > Ts(n) + MaxClockSkew
    BY <2>1, RelayAuthAssumption DEF AuthInv, RememberedInv, TypeOK, Ts, Times
  <2>2. QED
    BY <2>1 DEF ForgottenIsStale, Ts
<1>2. QED
  BY <1>1, AuthCorrect, PTL

\* A request the relay has accepted never passes the nonce check again.
THEOREM ReplayRefused == Spec => NoReplay
<1>1. ASSUME AuthInv, [Next]_vars, NEW h \in Handlers,
             work[h].at = "verified", work'[h].at = "fresh",
             work[h].nonce \in accepted
      PROVE  FALSE
  <2> DEFINE n == work[h].nonce
  <2>1. Look(h)
    <3>1. TypeOK
      BY <1>1 DEF AuthInv
    <3>2. ASSUME NEW k \in Handlers, Verify(k, n) \/ Look(k) \/ Record(k, {}) \/ MintTicket(k),
                 k # h
          PROVE  work'[h] = work[h]
      BY <3>1, <3>2 DEF TypeOK, Verify, Look, Record, MintTicket
    <3>3. QED
      BY <1>1, <3>1, <3>2 DEF Next, vars, TypeOK, Tick, Verify, Look, Record,
         MintTicket, Connect, Restart, Idle
  <2>2. Swept[n] = Unseen
    BY <1>1, <2>1 DEF Look, AuthInv, TypeOK, Idle
  <2>3. now > Ts(n) + MaxClockSkew + MaxStall
    BY <1>1, <2>2, SweepKeepsRemembered
  <2>4. /\ now <= work[h].read + MaxStall
        /\ work[h].read <= Ts(n) + MaxClockSkew
        /\ work[h].read \in Nat /\ Ts(n) \in Nat /\ now \in Nat
    BY <1>1, WorkShape, RelayAuthAssumption
       DEF AuthInv, WindowInv, TypeOK, Ts, Times
  <2>5. QED
    BY <2>3, <2>4, RelayAuthAssumption
<1>2. AuthInv /\ [Next]_vars
        => [\A h \in Handlers :
              work[h].at = "verified" /\ work'[h].at = "fresh"
                => work[h].nonce \notin accepted]_vars
  BY <1>1
<1>3. QED
  BY <1>2, AuthCorrect, PTL DEF Spec, NoReplay

-----------------------------------------------------------------------------
(* Tickets. *)

\* Every ticket, too, was paid for by a request its agent signed.
TicketInv == \A t \in tickets : \E n \in accepted : signed[n].agent = t.agent

LEMMA MintKeepsPaid ==
  ASSUME TypeOK, TicketInv, NEW h \in Handlers, MintTicket(h)
  PROVE  TicketInv'
<1>1. /\ work[h].nonce \in accepted'
      /\ signed'[work[h].nonce].agent = TicketFor(h).agent
      /\ accepted \subseteq accepted' /\ signed' = signed
      /\ tickets' = tickets \cup {TicketFor(h)}
  BY DEF MintTicket, Record, TicketFor
<1>2. QED
  BY <1>1 DEF TicketInv

\* Whoever has had a socket admitted has signed a request the relay accepted.
THEOREM SocketsArePaid == Spec => []SocketProvesKey
<1>1. Init => TicketInv /\ SocketProvesKey
  BY DEF Init, TicketInv, SocketProvesKey
<1>2. ASSUME TypeOK, TicketInv, SocketProvesKey, [Next]_vars
      PROVE  TicketInv' /\ SocketProvesKey'
  <2>1. CASE UNCHANGED <<tickets, accepted, signed, admitted>>
    BY <1>2, <2>1 DEF TicketInv, SocketProvesKey
  <2>2. ASSUME NEW h \in Handlers, Look(h)
        PROVE  TicketInv' /\ SocketProvesKey'
    BY <1>2, <2>2, SweptType DEF Look, TicketInv, SocketProvesKey
  <2>3. ASSUME NEW h \in Handlers, Record(h, {})
        PROVE  TicketInv' /\ SocketProvesKey'
    BY <1>2, <2>3 DEF Record, TicketInv, SocketProvesKey
  <2>4. ASSUME NEW h \in Handlers, MintTicket(h)
        PROVE  TicketInv' /\ SocketProvesKey'
    <3>1. SocketProvesKey'
      BY <1>2, <2>4 DEF MintTicket, Record, SocketProvesKey
    <3>2. QED
      BY <1>2, <2>4, <3>1, MintKeepsPaid
  <2>5. ASSUME NEW a \in Agents, Connect(a)
        PROVE  TicketInv' /\ SocketProvesKey'
    BY <1>2, <2>5, SweptType DEF Connect, Admits, TicketInv, SocketProvesKey
  <2>6. CASE Restart
    BY <2>6 DEF Restart, TicketInv, SocketProvesKey
  <2>7. QED
    BY <1>2, <2>1, <2>2, <2>3, <2>4, <2>5, <2>6 DEF Next, vars, Tick, Verify
<1>3. QED
  BY <1>1, <1>2, TypeCorrect, PTL DEF Spec

=============================================================================
