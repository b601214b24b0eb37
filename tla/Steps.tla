------------------------------- MODULE Steps --------------------------------
(***************************************************************************)
(* The steps of one monster that fights one target (Monster::getNextStep,  *)
(* getDistanceStep, getDanceStep, getRandomStep and canWalkTo, with        *)
(* Creature::goToFollowCreature and onWalk), and the map of the tiles      *)
(* around it that it keeps (localMapCache), on one floor.                  *)
(*                                                                         *)
(* A step is chosen when the way is made, and taken when the walk timer    *)
(* fires: in between, the target moves and tiles open and close.  A search *)
(* for a way is in Paths: here it ends with any tiles the search may use.  *)
(* How long a monster waits between steps, and between dances, is left     *)
(* out.                                                                    *)
(***************************************************************************)
EXTENDS Integers, Sequences, FiniteSets

CONSTANTS
  Columns, Lines,
  Half,            \* the cached map reaches so far in each direction
  Solids,          \* sets of tiles that may be blocked at first
  Doors,           \* tiles that open and close
  Landings,        \* tiles the monster may be put on
  SpawnRange,      \* the tiles it does not leave by a step of its own choice
  TargetDistances  \* what distances it may want to keep

VARIABLES
  solid, at, aim,   \* the blocked tiles, where it is, where the target is
  targetDistance, fleeing,
  localMapCache,    \* whether the tile at an offset can be walked on
  skewed,           \* a diagonal step south was taken since the map was last made anew
  listWalkDir, hasFollowPath

stepVars == <<solid, at, aim, targetDistance, fleeing, localMapCache, skewed, listWalkDir, hasFollowPath>>

Squares == (1 .. Columns) \X (1 .. Lines)
Ahead(p, d) == <<p[1] + d[1], p[2] + d[2]>>
Apart(p, q) == LET x == IF p[1] < q[1] THEN q[1] - p[1] ELSE p[1] - q[1]
                   y == IF p[2] < q[2] THEN q[2] - p[2] ELSE p[2] - q[2]
               IN  IF x < y THEN y ELSE x
Straights == {<<0, -1>>, <<1, 0>>, <<0, 1>>, <<-1, 0>>}
AllDirections == ((-1 .. 1) \X (-1 .. 1)) \ {<<0, 0>>}
Offsets == (-Half .. Half) \X (-Half .. Half)
Heading(n) == IF n > 0 THEN 1 ELSE IF n = 0 THEN 0 ELSE -1

ASSUME StepsAssumption ==
  Columns \in Nat /\ Lines \in Nat /\ Half \in Nat \ {0} /\ Landings \subseteq Squares

-----------------------------------------------------------------------------
(* The map it keeps.                                                       *)

\* What Tile::queryAdd answers it, where these tiles are blocked and the target is there.
Enters(p, blocked, target) == p \in Squares \ blocked /\ p # target
CanEnter(p) == Enters(p, solid, aim)

\* Creature::updateMapCache
MapCache(pos) == [d \in Offsets |-> CanEnter(Ahead(pos, d))]

\* Creature::updateTileCache, for tiles on which something changed.
Refreshed(ps, blocked, target) ==
  [d \in Offsets |-> IF Ahead(at, d) \in ps THEN Enters(Ahead(at, d), blocked, target) ELSE localMapCache[d]]

\* Lines move against the step to pos, then columns, and what comes into sight is asked.
\* On a diagonal step the row that is already new is to be left out of the second; the
\* distance it is told by is never negative, so it is always the first row.
RowsShifted(cache, pos, dy) ==
  IF dy = 0 THEN cache
  ELSE [d \in Offsets |-> IF d[2] = dy * Half THEN CanEnter(Ahead(pos, d)) ELSE cache[<<d[1], d[2] + dy>>]]
ColumnsShifted(cache, pos, dx, dy) ==
  IF dx = 0 THEN cache
  ELSE [d \in Offsets |->
         IF d[1] = dx * Half THEN CanEnter(Ahead(pos, d))
         ELSE IF dy # 0 /\ d[2] = -Half THEN cache[d] ELSE cache[<<d[1] + dx, d[2]>>]]
Shifted(d) == ColumnsShifted(RowsShifted(localMapCache, Ahead(at, d), d[2]), Ahead(at, d), d[1], d[2])

CacheAfterStep(d) == [Shifted(d) EXCEPT ![<<-d[1], -d[2]>>] = CanEnter(at)]

\* Creature::getWalkCache; the window is wider than a step.
WalkCache(p) == p = at \/ localMapCache[<<p[1] - at[1], p[2] - at[2]>>]

\* Monster::canWalkTo
Open(d) == /\ Ahead(at, d) \in SpawnRange
           /\ WalkCache(Ahead(at, d))
           /\ CanEnter(Ahead(at, d))

-----------------------------------------------------------------------------
(* Which step to choose: sets of directions, one of them at random.        *)

Stay == <<0, 0>>
AskSearch == <<9, 9>>   \* leave it to the search
OpenOf(ds) == {d \in ds : Open(d)}
Else(ds, others) == IF ds # {} THEN ds ELSE others

\* The first of a sequence of directions that is open.
FirstOpen(s) ==
  IF \E k \in DOMAIN s : Open(s[k])
  THEN {s[CHOOSE k \in DOMAIN s : Open(s[k]) /\ \A j \in 1 .. k - 1 : ~Open(s[j])]}
  ELSE {}

RandomStep == Else(OpenOf(Straights), {Stay})

\* The target is exactly diagonal; its side is <<-ox, -oy>>.
Slip(ox, oy) ==
  LET alongX == IF Open(<<-ox, 0>>) /\ Open(<<-ox, oy>>) THEN {<<-ox, 0>>} ELSE {}
      alongY == IF Open(<<0, -oy>>) /\ Open(<<ox, -oy>>) THEN {<<0, -oy>>} ELSE {}
  IN  IF ox < 0 /\ oy < 0 THEN Else(alongY, Else(alongX, {Stay})) ELSE Else(alongX, Else(alongY, {Stay}))

FromDiagonal(ox, oy, flee) ==
  Else(OpenOf({<<ox, 0>>, <<0, oy>>}),
  Else(OpenOf({<<ox, oy>>}),
  Else(IF flee THEN OpenOf({<<-ox, 0>>, <<0, -oy>>}) ELSE {},
       Slip(ox, oy))))

\* It is not; off is the smaller offset, across the direction away from the target.
Sideways(first, second, off) ==
  IF off = 0 /\ Open(first) /\ Open(second) THEN {first, second}
  ELSE Else(IF off <= 0 THEN OpenOf({first}) ELSE {}, IF off >= 0 THEN OpenOf({second}) ELSE {})

Slanting(away, first, second) ==
  LET one   == Ahead(away, first)
      other == Ahead(away, second)
  IN  IF Open(one) /\ Open(other) THEN {one, other}
      ELSE IF Open(one) \/ Open(other) THEN FirstOpen(<<first, one, second, other>>) ELSE {}

\* Mutant: what lies toward the target is tried before the sides.
FromStraight_Toward(away, first, second, off, flee) ==
  Else(OpenOf({away}),
  Else(IF flee THEN OpenOf({<<-away[1], -away[2]>>}) ELSE {},
  Else(Sideways(first, second, off), {Stay})))
FromStraight(away, first, second, off, flee) ==
  Else(OpenOf({away}),
  Else(Sideways(first, second, off),
  Else(IF flee THEN OpenOf({first, second}) ELSE {},
  Else(IF away[1] > 0 THEN Slanting(away, second, first) ELSE Slanting(away, first, second),
  Else(IF flee THEN OpenOf({<<-away[1], -away[2]>>}) ELSE {},
       {Stay})))))

Escape(ox, oy, flee) ==
  IF ox = 0 /\ oy = 0 THEN RandomStep
  ELSE IF ox = oy \/ ox = -oy THEN FromDiagonal(Heading(ox), Heading(oy), flee)
  ELSE IF oy * oy > ox * ox THEN FromStraight(<<0, Heading(oy)>>, <<-1, 0>>, <<1, 0>>, ox, flee)
  ELSE FromStraight(<<Heading(ox), 0>>, <<0, -1>>, <<0, 1>>, oy, flee)

DistanceStep(flee, sight) ==
  IF ~flee /\ (Apart(at, aim) > targetDistance \/ ~sight) THEN {AskSearch}
  ELSE IF ~flee /\ Apart(at, aim) = targetDistance THEN {Stay}
  ELSE Escape(at[1] - aim[1], at[2] - aim[2], flee)

\* In its place: around the target for one that flees or fights close, at four tiles for one that shoots.
FleeingDance == {d \in OpenOf(Straights) : Apart(Ahead(at, d), aim) = Apart(at, aim)}
Dance ==
  IF targetDistance >= 4
  THEN {d \in OpenOf(Straights) : Apart(at, aim) >= 4 /\ Apart(Ahead(at, d), aim) = 4
                                  /\ (at[1] - aim[1] \in {4, -4} \/ at[2] - aim[2] \in {4, -4})}
  ELSE {d \in OpenOf(Straights) : Apart(at, aim) <= 1 /\ Apart(Ahead(at, d), aim) <= 1}

-----------------------------------------------------------------------------
StepsInit ==
  /\ solid \in Solids /\ at \in Squares \ solid /\ aim \in Squares \ solid /\ at # aim
  /\ targetDistance \in TargetDistances
  /\ fleeing = FALSE /\ skewed = FALSE /\ listWalkDir = <<>> /\ hasFollowPath = FALSE
  /\ localMapCache = MapCache(at)

\* What a search may end with, as far as it will be walked before the next one.
Ways == {<<d>> : d \in {e \in AllDirections : WalkCache(Ahead(at, e))}}

SearchWay ==
  \/ listWalkDir' \in Ways /\ hasFollowPath' = TRUE
  \/ listWalkDir' = <<>> /\ hasFollowPath' = FALSE

\* Creature::goToFollowCreature
GoToFollow ==
  /\ IF fleeing \/ targetDistance > 1
     THEN \E sight \in BOOLEAN : \E d \in DistanceStep(fleeing, sight) :
            \/ d = AskSearch /\ SearchWay
            \/ d = Stay /\ UNCHANGED <<listWalkDir, hasFollowPath>>
            \/ d \notin {AskSearch, Stay} /\ listWalkDir' = <<d>> /\ hasFollowPath' = TRUE
     ELSE SearchWay
  /\ UNCHANGED <<solid, at, aim, targetDistance, fleeing, localMapCache, skewed>>

\* It moves, unless the tile is no longer free.
Moves(d) ==
  IF CanEnter(Ahead(at, d))
  THEN /\ at' = Ahead(at, d)
       /\ localMapCache' = CacheAfterStep(d)
       /\ skewed' = (skewed \/ (d[1] # 0 /\ d[2] > 0))
  ELSE UNCHANGED <<at, localMapCache, skewed>>

\* Creature::onWalk and Monster::getNextStep: a step of the way, or one in its place.
Walk ==
  /\ \/ /\ hasFollowPath /\ listWalkDir # <<>>
        /\ Moves(Head(listWalkDir)) /\ listWalkDir' = Tail(listWalkDir)
     \/ /\ hasFollowPath /\ listWalkDir = <<>> /\ fleeing
        /\ \E d \in FleeingDance : Moves(d)
        /\ UNCHANGED listWalkDir
     \/ /\ hasFollowPath /\ listWalkDir = <<>> /\ ~fleeing
        /\ \E d \in Dance : Moves(d)
        /\ UNCHANGED listWalkDir
     \/ /\ ~hasFollowPath
        /\ \E d \in RandomStep \ {Stay} : Moves(d)
        /\ UNCHANGED listWalkDir
  /\ UNCHANGED <<solid, aim, targetDistance, fleeing, hasFollowPath>>

\* It is put somewhere else (Creature::onCreatureMove).
Teleported ==
  /\ \E p \in Landings \ solid : at' = p /\ p # at
  /\ localMapCache' = MapCache(at') /\ skewed' = FALSE
  /\ UNCHANGED <<solid, aim, targetDistance, fleeing, listWalkDir, hasFollowPath>>

\* The target walks, or is put where the monster is.
AimMoves ==
  /\ \E p \in Squares \ solid : aim' = p /\ p # aim /\ (Apart(p, aim) = 1 \/ p = at)
  /\ localMapCache' = Refreshed({aim, aim'}, solid, aim')
  /\ UNCHANGED <<solid, at, targetDistance, fleeing, skewed, listWalkDir, hasFollowPath>>

\* Something that blocks is put on a tile, or taken from it.
DoorMoves ==
  /\ \E p \in Doors \ {at, aim} :
       /\ solid' = IF p \in solid THEN solid \ {p} ELSE solid \cup {p}
       /\ localMapCache' = Refreshed({p}, solid', aim)
  /\ UNCHANGED <<at, aim, targetDistance, fleeing, skewed, listWalkDir, hasFollowPath>>

\* Its health falls below where it flees, or recovers.
HealthTurns ==
  /\ fleeing' = ~fleeing
  /\ UNCHANGED <<solid, at, aim, targetDistance, localMapCache, skewed, listWalkDir, hasFollowPath>>

StepsNext == GoToFollow \/ Walk \/ Teleported \/ AimMoves \/ DoorMoves \/ HealthTurns

StepsSpec == StepsInit /\ [][StepsNext]_stepVars

-----------------------------------------------------------------------------
(* What is expected of the steps.                                          *)

\* The kept map is what the tiles would answer, however the monster came to where it is
\* and whatever moved around it - except after a diagonal step to the south.
CacheExact == skewed \/ \A d \in Offsets \ {<<0, 0>>} : localMapCache[d] = CanEnter(Ahead(at, d))

\* Keeping its distance, it does not come nearer.
NeverNearer ==
  \A sight \in BOOLEAN : \A d \in DistanceStep(FALSE, sight) \ {Stay, AskSearch} :
    Open(d) /\ Apart(Ahead(at, d), aim) >= Apart(at, aim)

\* Fleeing, it goes toward the target only when there is nowhere else, and stands still
\* only when it is shut in.
FleesIfItCan ==
  \A d \in DistanceStep(TRUE, TRUE) :
    /\ d = Stay => OpenOf(Straights) = {}
    /\ d # Stay => Open(d)
    /\ d # Stay /\ Apart(Ahead(at, d), aim) < Apart(at, aim) =>
         \A e \in OpenOf(Straights) : Apart(Ahead(at, e), aim) < Apart(at, aim)

\* The map the monster keeps of the tiles around it is right, and a step away from its
\* target is one.
StepsRight == CacheExact /\ NeverNearer /\ FleesIfItCan
=============================================================================
