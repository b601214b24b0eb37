SPECIFICATION MCSpec
CONSTANTS
  prem1 = prem1
  prem2 = prem2
  free1 = free1
  free2 = free2
  Players = {prem1, prem2, free1, free2}
  Premium = {prem1, prem2}
  Privileged = {}
  Persistent = {prem1}
  MaxPlayers = 1
  MaxMisplaced = 2
  q1 = q1
  q2 = q2
  q3 = q3
  Query = {q1, q2, q3}
  Wanted = {q1}
  Place = {"p1", "p2"}
  Losses = 3
  NoQuery = NoQuery
  Dispatcher = Dispatcher
  Free = Free
  Me = "me"
  Other = {"rat", "imp"}
  Shade = {"imp"}
  GroundItem = {"g"}
  TopItem = {"t"}
  DownItem = {"d"}
  Cells = 3
  Stage = {2}
  ViewRange = 1
  Shown = 4
  Crowd = 2
  Memory = 2
INVARIANTS LineKept QueriesInOrder ClientInStep
PROPERTIES NotOvertaken PremiumServed QueriesServed MonstersReturn
CHECK_DEADLOCK FALSE
