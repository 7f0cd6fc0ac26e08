\* Three processes that start together, two keys they may make, a reset.
CONSTANTS
  p1 = p1  p2 = p2  p3 = p3
  k1 = k1  k2 = k2
  Processes = {p1, p2, p3}
  Keys = {k1, k2}
  MaxResets = 1
  Nothing = Nothing
SYMMETRY Symmetry
SPECIFICATION Spec
INVARIANTS
  TypeOK
  OneIdentity
