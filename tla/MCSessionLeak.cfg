SPECIFICATION Spec
CONSTANTS
  p1 = p1
  p2 = p2
  p3 = p3
  c1 = c1
  c2 = c2
  None = None
  Protocols = {p1, p2}
  Characters = {c1}
  ReplaceKick = {TRUE, FALSE}
  OnePlayerOnAccount = TRUE
  MaxPosted = 2
INVARIANTS
  ReleasedHasNoPlayer
CHECK_DEADLOCK FALSE
