SPECIFICATION MCSpec
CONSTANTS
  a = a
  b = b
  c = c
  g1 = g1
  g2 = g2
  bag1 = bag1
  bag2 = bag2
  coin = coin
  None = None
  Players = {a, b, c}
  Parties = {g1, g2}
  Traders = {a, b, c}
  Nobody = Nobody
  Items = {bag1, bag2, coin}
  Bags = {bag1, bag2}
  Positions = {0, 1, 3}
  Slots = 1
  Capacity = 1
  DeepQuery = TRUE
  Chatter = {"cat", "dan", "eve"}
  Paying = {"cat", "dan"}
  MayJoin = {"eve"}
  Slot = {100}
  Public = 7
  Hasty = {"dan"}
  Unheard = 2
  NoOwner = "nobody"
  Reporter = {"cat", "dan"}
  Master = {"gm", "god"}
  NoMaster = "nobody"
SYMMETRY Alike
INVARIANTS
  PartiesAgree
  TradesSound
  ChatsAgree
PROPERTIES
  JoinsByInvitation
  TradesFair
