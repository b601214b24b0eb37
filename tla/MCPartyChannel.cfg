SPECIFICATION Spec
CONSTANTS
  a = a
  b = b
  c = c
  g1 = g1
  g2 = g2
  g3 = g3
  None = None
  Players = {a, b, c}
  Parties = {g1}
SYMMETRY Symmetric
INVARIANTS
  ChannelOfParty
