SPECIFICATION MCSpec
CONSTANTS
  p1 = p1
  p2 = p2
  p3 = p3
  c1 = c1
  c2 = c2
  None = None
  Protocols = {p1, p2, p3}
  Characters = {c1}
  ReplaceKick = {TRUE, FALSE}
  OnePlayerOnAccount = TRUE
  MaxPosted = 2
  Magics <- MCMagics
  Wearable <- MCWearable
  Worn <- MCWorn
  Bare = "bare"
  MaxLater = 1
  v1 = v1
  v2 = v2
  v3 = v3
  Customers = {v1, v2, v3}
  Nobody = Nobody
  Databases <- MCDatabases
  Ground <- MCGround
  Things <- MCThings
  Exit = 0
  MaxCommands = 2
  MaxWalks = 1
SYMMETRY Interchangeable
INVARIANTS
  PlayersHeld
  EffectsBalanced
  ServedOnce
PROPERTIES
  ClientNotStolen
  ConnectionsLive
CHECK_DEADLOCK FALSE
