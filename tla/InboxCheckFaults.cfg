\* Two gates that read the same queues, one without a prompt, and every fault.
CONSTANTS
  g1 = g1  g2 = g2  g3 = g3
  own1 = own1  own2 = own2  front = front
  m1 = m1  m2 = m2  m3 = m3
  Gates = {g1, g2, g3}
  Addrs <- SharedAddrs
  Msgs = {m1, m2}
  Readable = {m1}
  Checks <- SharedChecks
  Elicits = {g1, g2}
  Unsteady = {g1, g2}
  Faults = {"unreachable", "refused", "crash", "late", "restart"}
SPECIFICATION Spec
INVARIANTS
  ContextOnlyApproved
  DecidedIsFront
