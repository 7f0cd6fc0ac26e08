\* One reader per queue, users that do not dismiss for ever; one gate crashes,
\* and its GETs and consumes fail.
CONSTANTS
  g1 = g1  g2 = g2  g3 = g3
  own1 = own1  own2 = own2  front = front
  m1 = m1  m2 = m2  m3 = m3
  Gates = {g1, g2}
  Addrs <- SoleAddrs
  Msgs = {m1, m2, m3}
  Readable = {m1, m2}
  Checks <- SoleChecks
  Elicits = {g1, g2}
  Unsteady = {g2}
  Faults = {"unreachable", "refused", "crash"}
SPECIFICATION FairSpec
INVARIANTS
  TypeOK
  NothingUndecidedLost
PROPERTIES
  KeepsThePromise
  DecidedOnce
  MailIsSettled
  ApprovedIsDelivered
