\* Two sessions, two processes, a new device.
CONSTANTS
  k1 = k1  k2 = k2
  p1 = p1  p2 = p2  p3 = p3
  q1 = q1  q2 = q2
  Claudes = {k1, k2}
  Procs = {p1, p2}
  Pids = {q1, q2}
  Nothing = Nothing
  OldOrdinals = {}
SPECIFICATION FairSpec
PROPERTY
  FrontDoorHasReader
CHECK_DEADLOCK FALSE
