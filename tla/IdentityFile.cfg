\* Two processes, one with two threads; every call, a full disk and crashes.
CONSTANTS
  p1 = p1  p2 = p2
  t1 = t1  t2 = t2  t3 = t3
  i1 = i1  i2 = i2
  n1 = n1
  Nothing = Nothing
  Procs = {p1, p2}
  Threads = {t1, t2, t3}
  Home <- TwoProcesses
  Flocks = {p1, p2}
  Jobs <- ByThread
  MaxOrdinal = 2
  Ids = {i1, i2}
  Names = {n1}
  Suggested <- EachItsOwn
  Faults = {"crash", "full"}
SPECIFICATION FairSpec
INVARIANTS
  TypeOK
  BornOnce
PROPERTIES
  AtomicRecord
  NeverReissued
  NeverIdless
  LockIsReleased
CHECK_DEADLOCK FALSE
