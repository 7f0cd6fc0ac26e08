\* Two devices that share a name, two gates of one sender, two relay restarts.
CONSTANTS
  d1 = d1  d2 = d2
  n1 = n1  n2 = n2
  g1 = g1  g2 = g2
  Devices = {d1, d2}
  Names = {n1, n2}
  Calls <- TwoDevices
  Gates = {g1, g2}
  Encryption = "ask"
  Asks = {g1}
  MaxRestarts = 2
  Nobody = Nobody
SPECIFICATION FairSpec
INVARIANTS
  TypeOK
  OneMeaning
PROPERTIES
  KeysComeBack
