\* Two sessions, three processes, so that one is resumed, and two pids.
CONSTANTS
  k1 = k1  k2 = k2
  p1 = p1  p2 = p2  p3 = p3
  q1 = q1  q2 = q2
  Claudes = {k1, k2}
  Procs = {p1, p2, p3}
  Pids = {q1, q2}
  Nothing = Nothing
  OldOrdinals = {1, 2}
SYMMETRY Symmetry
SPECIFICATION Spec
INVARIANTS
  TypeOK
  PrivateQueues
  PrimaryHasClaimed
  OnlyOverlapDoubles
PROPERTIES
  AddressIsKept
  PrimaryKeepsSlot
  NewcomerFillsVacancy
CHECK_DEADLOCK FALSE
