\* Two gates review one queue; nothing fails.
CONSTANTS
  g1 = g1  g2 = g2  g3 = g3
  own1 = own1  own2 = own2  front = front
  m1 = m1  m2 = m2  m3 = m3
  Gates = {g1, g2}
  Addrs <- SharedAddrs
  Msgs = {m1, m2, m3}
  Readable = {m1, m2, m3}
  Checks <- SharedChecks
  Elicits = {g1, g2}
  Unsteady = {}
  Faults = {}
SPECIFICATION Spec
INVARIANT
  NothingUndecidedLost
