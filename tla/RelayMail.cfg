\* Two messages, a reader that listens and one that does not, a connection and
\* its successor.
CONSTANTS
  m1 = m1  m2 = m2
  r1 = r1  r2 = r2
  c1 = c1  c2 = c2
  Messages = {m1, m2}
  Readers = {r1, r2}
  Listener = r1
  Conns = {c1, c2}
SPECIFICATION FairSpec
INVARIANTS
  TypeOK
  OnlyOverlapLoses
  NoDeafListener
PROPERTY
  MailIsHeard
CHECK_DEADLOCK FALSE
