\* Two sessions on a new device.
CONSTANTS
  g1 = g1  g2 = g2
  bot = bot  agent = agent
  Gates = {g1, g2}
  Stems = {bot, agent}
  Typed <- TypedNames
  Placeholder <- MadeUp
  OldNames = {}
  OldConfirmed = {}
  MaxLaunches = 2
  Nothing = Nothing
SYMMETRY Symmetry
SPECIFICATION Spec
PROPERTY
  SetIdentityOptsIn
CHECK_DEADLOCK FALSE
