\* Two sessions on a new device or on one of an older version that has been
\* named; the others are in GateSetupUnnamed.cfg.
CONSTANTS
  g1 = g1  g2 = g2
  bot = bot  agent = agent
  Gates = {g1, g2}
  Stems = {bot, agent}
  Typed <- TypedNames
  Placeholder <- MadeUp
  OldNames <- OldOnes
  OldConfirmed = {TRUE}
  MaxLaunches = 2
  Nothing = Nothing
SYMMETRY Symmetry
SPECIFICATION Spec
INVARIANTS
  TypeOK
  OnlyFallbackShares
PROPERTIES
  AddressIsStable
  DecisionStands
CHECK_DEADLOCK FALSE
