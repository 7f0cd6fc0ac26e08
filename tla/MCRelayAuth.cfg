\* Two handlers, two requests of two agents, every client clock.
CONSTANTS
  a1 = a1  a2 = a2
  n1 = n1  n2 = n2
  h1 = h1  h2 = h2
  Agents = {a1, a2}
  Nonces = {n1, n2}
  Handlers = {h1, h2}
  MaxClockSkew = 1
  NonceTTL = 3
  TicketTTL = 2
  MaxStall = 1
  MaxTime = 5
SYMMETRY Symmetry
SPECIFICATION Spec
INVARIANTS
  TypeOK
  ForgottenIsStale
  SocketProvesKey
PROPERTY
  NoReplay
