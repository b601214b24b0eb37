SPECIFICATION MCSpec
CONSTANTS
  i1 = i1
  i2 = i2
  i3 = i3
  i4 = i4
  i5 = i5
  i6 = i6
  Player = Player
  Tile = Tile
  None = None
  Items = {i1, i2, i3, i4, i5}
  Kinds <- MCKinds
  KindOf <- MCKindOf
  Coins <- MCCoins
  Belonging <- MCBelonging
  Given = {"gold"}
  Sums = {1}
  Slots = {3, 5, 6}
  Capacity = 4
  MaxStack = 2
  TileLimit = 2
  AutoStack = TRUE
  QueryNested = TRUE
  ann = ann
  bob = bob
  carl = carl
  House = {"h1"}
  Nobody = Nobody
  Resident = {ann, bob, carl}
  Lost = {carl}
  Editor = {}
  Premium = {ann, bob}
  Text <- MCText
  GuildMates <- MCGuildMates
  WarningLimit = 1
SYMMETRY Alike
INVARIANTS
  ItemsSound
  Accounted
  HousesKept
PROPERTIES
  GoodsFollowOwner
