SPECIFICATION Spec
CONSTANTS
  i1 = i1
  i2 = i2
  i3 = i3
  i4 = i4
  i5 = i5
  i6 = i6
  Player = Player
  Tile = Tile
  None = None
  Items = {i1, i2, i3, i4, i5, i6}
  Kinds <- MCKinds
  KindOf <- MCKindOf
  Coins <- MCCoins
  Belonging <- MCNested
  Given = {"gold"}
  Sums = {4}
  Slots = {3, 5, 6}
  Capacity = 9
  MaxStack = 2
  TileLimit = 2
  AutoStack = TRUE
  QueryNested = FALSE
INVARIANT WholeAmountAdded
