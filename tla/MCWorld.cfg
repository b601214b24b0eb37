SPECIFICATION MCSpec
CONSTANTS
  RaidName = {"hunt", "feast", "void"}
  OneTime = {"feast"}
  EventsOf <- MCEventsOf
  Reloads = 1
  Slot = {1, 2, 3, 4}
  Type <- MCType
  NoKind = "nokind"
  Gone = "gone"
  UsesTo <- MCUsesTo
  Replaces <- MCReplaces
  FirstKinds = {"torch", "lamp"}
  Odd = {900}
  Turns = 3
  Crowd = 2
  Player = {"ann"}
  Chaser = {"ann"}
  Monster = {"rat", "elf"}
  Spawned = {"elf"}
  Summoner = {"elf"}
  Cell = {1, 2, 3}
  Sight = 1
  View = 2
  Leash = 2
  Blows = 1
  Fighter = {"ulf", "kay"}
  Beast = {"wolf"}
  Owner <- MCOwner
  NoOne = "nobody"
  RedLimit = 1
  BanLimit = 2
  MostMurders = 1
  Maps <- MCMaps
  Base = 64
  Budget = 1
  Registered = {3}
  NoJob = NoJob
  Inventory <- MCInventory
  SlotIds = {1, 3}
  LockerIds = {0}
  FirstSid = 100
  MaxVersion = 2
  Tries = 2
  MaxFaults = 2
  Width = 4
  Height = 3
  Grounds <- MCGrounds
  Starts <- MCStarts
  Goals <- MCGoals
  Wishes <- MCWishes
  MaxNodes = 12
  ClosedLimit = 6
  Columns = 5
  Lines = 3
  Half = 1
  Solids <- MCSolids
  Doors <- MCDoors
  Landings <- MCLandings
  SpawnRange <- MCSpawnRange
  TargetDistances = {2, 4}
INVARIANTS
  OneRaidAtATime
  DecayKept
  MonstersSound
  FightsMarked
  SavesKept
  WalksRight
PROPERTIES
  InDueTime
CHECK_DEADLOCK FALSE
