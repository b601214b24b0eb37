------------------------------- MODULE Paths --------------------------------
(***************************************************************************)
(* Looking for a way (Map::getPathMatching with its AStarNodes, the        *)
(* condition FrozenPathingConditionCall, and Map::isSightClear), on one    *)
(* floor.                                                                  *)
(*                                                                         *)
(* A search keeps a node for each tile that it has seen, in the order they *)
(* were seen; a node knows the tile it was reached from and what that      *)
(* cost.  The cheapest open node is taken, and of its neighbours only      *)
(* those that lie ahead are looked at.  A search may stop at the first     *)
(* tile that is exactly as far from the target as is wanted, or take the   *)
(* best there is.                                                          *)
(***************************************************************************)
EXTENDS Integers, Sequences, FiniteSets, SequencesExt

CONSTANTS
  Width, Height,
  Grounds,       \* what the tiles may be: functions from tiles to "free", "crowd", "field", "wall", "water"
  Starts,
  Goals,
  Wishes,        \* sets of parameters, see Params
  MaxNodes,
  ClosedLimit    \* how many nodes a search without a radius may close

VARIABLES
  ground, start, target,
  fpp,           \* FindPathParams
  nodes,         \* tile -> [parent, f, open, index]; the first has no parent
  closedNodes,
  refused,       \* there was no room for a node
  bestMatch,
  found,         \* a tile, or NoTile
  search         \* "on", "found" or "failed"

pathVars == <<ground, start, target, fpp, nodes, closedNodes, refused, bestMatch, found, search>>

Tiles == (1 .. Width) \X (1 .. Height)
NoTile == <<0, 0>>
Plus(p, d) == <<p[1] + d[1], p[2] + d[2]>>
\* The results of doing F to x up to n times.
Repeated(F(_), x, n) == FoldLeft(LAMBDA xs, k : Append(xs, F(Last(xs))), <<x>>, [k \in 1 .. n |-> k])
Abs(n) == IF n < 0 THEN -n ELSE n
OffsetX(p, q) == p[1] - q[1]
OffsetY(p, q) == p[2] - q[2]
DistanceX(p, q) == Abs(OffsetX(p, q))
DistanceY(p, q) == Abs(OffsetY(p, q))
TilesApart(p, q) == IF DistanceX(p, q) < DistanceY(p, q) THEN DistanceY(p, q) ELSE DistanceX(p, q)

(***************************************************************************)
(* What a creature looks for: all around the target or only on its own     *)
(* side, with a view of it, so far from the start (0: no radius), and at   *)
(* what distances.  keepDistance and allowDiagonal never differ from their *)
(* defaults where a search is made.                                        *)
(***************************************************************************)
Params == [fullPathSearch : BOOLEAN, clearSight : BOOLEAN, maxSearchDist : Nat, minTargetDist : Nat, maxTargetDist : Nat]

\* Creature::getPathSearchParams
CreatureParams(hasFollowPath, reach) ==
  [fullPathSearch |-> ~hasFollowPath, clearSight |-> TRUE, maxSearchDist |-> reach, minTargetDist |-> 1, maxTargetDist |-> 1]

\* Monster::getPathSearchParams; a fleeing monster that is nobody's summon makes no search.
MonsterParams(targetDistance, ofMaster, canUseAttack, reach) ==
  [CreatureParams(FALSE, reach) EXCEPT
     !.maxTargetDist = IF ofMaster THEN 2 ELSE targetDistance,
     !.fullPathSearch = ofMaster \/ targetDistance <= 1 \/ ~canUseAttack]

\* Game: players walk to what they want to use, or on to it.
PlayerParams(far) == [CreatureParams(FALSE, 0) EXCEPT !.minTargetDist = 0, !.maxTargetDist = far]

ASSUME PathsAssumption ==
  /\ Width \in Nat /\ Height \in Nat /\ MaxNodes \in Nat /\ Starts \subseteq Tiles /\ Goals \subseteq Tiles
  /\ \A wish \in Wishes : wish \in Params /\ (wish.minTargetDist > 0 \/ wish.maxTargetDist <= 1)

(***************************************************************************)
(* Sight.                                                                  *)
(***************************************************************************)
Sign(n) == IF n > 0 THEN 1 ELSE IF n = 0 THEN 0 ELSE -1

\* Map::checkSightLine: the step from a tile of the ray to the next, nearest to the line.
RayStep(p, from, to) ==
  LET mx == Sign(to[1] - from[1])
      my == Sign(to[2] - from[2])
      A  == OffsetY(to, from)
      B  == OffsetX(from, to)
      C  == -(A * to[1] + B * to[2])
      Off(q) == Abs(A * q[1] + B * q[2] + C)
      hor   == Off(<<p[1] + mx, p[2]>>)
      ver   == Off(<<p[1], p[2] + my>>)
      cross == Off(<<p[1] + mx, p[2] + my>>)
      down  == p[2] # to[2] /\ (p[1] = to[1] \/ hor > ver \/ hor > cross)
      y     == IF down THEN p[2] + my ELSE p[2]
      along == p[1] # to[1] /\ (y = to[2] \/ ver > hor \/ ver > cross)
  IN  <<IF along THEN p[1] + mx ELSE p[1], y>>

Ray(from, to) == Repeated(LAMBDA p : IF p = to THEN to ELSE RayStep(p, from, to), from, 2 * TilesApart(from, to))

Shut(p) == ground[p] = "wall"
SightLine(from, to) == \A p \in ToSet(Tail(Ray(from, to))) : ~Shut(p)
IsSightClear(from, to) == SightLine(from, to) \/ SightLine(to, from)

(***************************************************************************)
(* Whether a tile is what is looked for.                                   *)
(***************************************************************************)
Within(offset, t, wanted, side, far) ==
  /\ t <= wanted + (IF offset >= 0 \/ ~side THEN far ELSE 0)
  /\ t >= wanted - (IF offset <= 0 \/ ~side THEN far ELSE 0)

IsInRange(p) ==
  /\ Within(OffsetX(start, target), p[1], target[1], ~fpp.fullPathSearch, fpp.maxTargetDist)
  /\ Within(OffsetY(start, target), p[2], target[2], ~fpp.fullPathSearch, fpp.maxTargetDist)

\* FrozenPathingConditionCall::operator(), and the bestMatch that it leaves.
Suits(p) == IsInRange(p) /\ (fpp.clearSight => IsSightClear(p, target)) /\ TilesApart(p, target) >= fpp.minTargetDist
Exact(p) == Suits(p) /\ (fpp.maxTargetDist = 1 \/ TilesApart(p, target) = fpp.maxTargetDist)
Better(p, best) == Suits(p) /\ fpp.maxTargetDist # 1 /\ TilesApart(p, target) \in best + 1 .. fpp.maxTargetDist

(***************************************************************************)
(* The search.                                                             *)
(***************************************************************************)
NormalWalkCost == 10
DiagonalWalkCost == 25

MapWalkCost(p, q) == IF DistanceX(p, q) = DistanceY(p, q) THEN DiagonalWalkCost ELSE NormalWalkCost
\* AStarNodes::getTileWalkCost, for one that pushes nobody and is immune to nothing.
TileWalkCost(p) ==
  CASE ground[p] = "crowd" -> NormalWalkCost * 3
    [] ground[p] = "field" -> NormalWalkCost * 18
    [] OTHER               -> 0

\* Map::canWalkTo
CanWalkTo(p) == p \in Tiles /\ ground[p] \in {"free", "crowd", "field"}

AllNeighbors == <<<<-1, 0>>, <<0, 1>>, <<1, 0>>, <<0, -1>>, <<-1, -1>>, <<1, -1>>, <<1, 1>>, <<-1, 1>>>>
\* By where the parent is.
DirNeighbors ==
  << <<0, -1>>,  <<1, 0>>,  <<0, 1>>,  <<-1, 0>>, <<-1, 1>>, <<1, 1>>, <<-1, -1>>, <<1, -1>> >>
\* Mutant: only what lies straight ahead of a node is looked at.
NeighborsOf_Ahead ==
  << <<<<0, 1>>, <<-1, 1>>, <<1, 1>>>>, <<<<-1, 0>>, <<-1, 1>>, <<-1, -1>>>>,
     <<<<0, -1>>, <<-1, -1>>, <<1, -1>>>>, <<<<1, 0>>, <<1, 1>>, <<1, -1>>>>,
     <<<<1, 0>>, <<0, -1>>, <<1, -1>>>>, <<<<-1, 0>>, <<0, -1>>, <<-1, -1>>>>,
     <<<<0, 1>>, <<1, 0>>, <<1, 1>>>>, <<<<0, 1>>, <<-1, 0>>, <<-1, 1>>>> >>
NeighborsOf ==
  << <<<<-1, 0>>, <<0, 1>>, <<1, 0>>, <<1, 1>>, <<-1, 1>>>>,
     <<<<-1, 0>>, <<0, 1>>, <<0, -1>>, <<-1, -1>>, <<-1, 1>>>>,
     <<<<-1, 0>>, <<1, 0>>, <<0, -1>>, <<-1, -1>>, <<1, -1>>>>,
     <<<<0, 1>>, <<1, 0>>, <<0, -1>>, <<1, -1>>, <<1, 1>>>>,
     <<<<1, 0>>, <<0, -1>>, <<-1, -1>>, <<1, -1>>, <<1, 1>>>>,
     <<<<-1, 0>>, <<0, -1>>, <<-1, -1>>, <<1, -1>>, <<-1, 1>>>>,
     <<<<0, 1>>, <<1, 0>>, <<1, -1>>, <<1, 1>>, <<-1, 1>>>>,
     <<<<-1, 0>>, <<0, 1>>, <<-1, -1>>, <<1, 1>>, <<-1, 1>>>> >>

\* Where the parent lies, as an index of the above.
Behind(n) == CHOOSE k \in 1 .. 8 : Plus(n, DirNeighbors[k]) = nodes[n].parent

Neighbors(n) == IF nodes[n].parent = NoTile THEN AllNeighbors ELSE NeighborsOf[Behind(n)]
Facing(n) == {Plus(n, d) : d \in ToSet(Neighbors(n))}

\* AStarNodes::getBestNode: the first of the cheapest.
Seen == DOMAIN nodes
OpenNodes == {p \in Seen : nodes[p].open}
Cheaper(p, q) == nodes[p].f < nodes[q].f \/ (nodes[p].f = nodes[q].f /\ nodes[p].index <= nodes[q].index)
BestNode == CHOOSE p \in OpenNodes : \A q \in OpenNodes : Cheaper(p, q)

\* The neighbours of n that become nodes, if there is room, in the order they are looked at.
OutOfReach(p) == fpp.maxSearchDist # 0 /\ TilesApart(start, p) > fpp.maxSearchDist
NewNodes(n) == {p \in Facing(n) \ Seen : ~OutOfReach(p) /\ CanWalkTo(p)}
Nth(n, p) == CHOOSE k \in DOMAIN Neighbors(n) : Plus(n, Neighbors(n)[k]) = p
Index(n, p) == Cardinality(Seen) + Cardinality({q \in NewNodes(n) : Nth(n, q) <= Nth(n, p)})

\* Those that are looked at, up to the first for which there is no room.
LookedAt(n) == {p \in Facing(n) : ~OutOfReach(p) /\ (p \in Seen \/ CanWalkTo(p)) /\ Index(n, p) <= MaxNodes}
NoRoom(n) == Cardinality(Seen) + Cardinality(NewNodes(n)) > MaxNodes

\* Those that are reached at less cost than before, and the nodes then.
StepCost(p, q) == MapWalkCost(p, q) + TileWalkCost(q)
Reached(n) == {p \in LookedAt(n) : p \in Seen => nodes[p].f > nodes[n].f + StepCost(n, p)}
Reopened(n) == {p \in Reached(n) \cap Seen : ~nodes[p].open}
Linked(n) ==
  [p \in Seen \cup Reached(n) |->
     IF p \in Reached(n)
     THEN [parent |-> n, f |-> nodes[n].f + StepCost(n, p), open |-> TRUE,
           index |-> IF p \in Seen THEN nodes[p].index ELSE Index(n, p)]
     ELSE nodes[p]]

-----------------------------------------------------------------------------
\* A search that has not looked at a tile yet.
IdleSearch ==
  /\ nodes = [p \in {start} |-> [parent |-> NoTile, f |-> 0, open |-> TRUE, index |-> 1]]
  /\ closedNodes = 0 /\ refused = FALSE /\ bestMatch = 0 /\ found = NoTile /\ search = "on"

PathsInit ==
  /\ ground \in Grounds /\ start \in Starts /\ target \in Goals /\ fpp \in Wishes
  /\ start # target /\ ground[start] = "free"
  /\ IdleSearch

MaySearchOn == search = "on" /\ (fpp.maxSearchDist # 0 \/ closedNodes < ClosedLimit)

\* No time is left, or nothing to look at.
GiveUp ==
  /\ search = "on" /\ (~MaySearchOn \/ OpenNodes = {})
  /\ search' = IF found = NoTile THEN "failed" ELSE "found"
  /\ UNCHANGED <<ground, start, target, fpp, nodes, closedNodes, refused, bestMatch, found>>

\* The tile is as far from the target as wanted.
ReachedIt ==
  /\ MaySearchOn /\ OpenNodes # {} /\ Exact(BestNode)
  /\ found' = BestNode /\ bestMatch' = 0 /\ search' = "found"
  /\ UNCHANGED <<ground, start, target, fpp, nodes, closedNodes, refused>>

\* It may be the best so far; what lies ahead of it is looked at.  Without room the search
\* fails, unless there is something already; its nodes go with it.
Expand ==
  /\ MaySearchOn /\ OpenNodes # {} /\ ~Exact(BestNode)
  /\ LET n == BestNode
     IN  /\ found' = IF Better(n, bestMatch) THEN n ELSE found
         /\ bestMatch' = IF Better(n, bestMatch) THEN TilesApart(n, target) ELSE bestMatch
         /\ search' = IF NoRoom(n) /\ found' = NoTile THEN "failed" ELSE "on"
         /\ nodes' = [Linked(n) EXCEPT ![n].open = FALSE]
         /\ closedNodes' = closedNodes + 1 - Cardinality(Reopened(n))
         /\ refused' = (refused \/ NoRoom(n))
  /\ UNCHANGED <<ground, start, target, fpp>>

PathsNext == GiveUp \/ ReachedIt \/ Expand

PathsSpec == PathsInit /\ [][PathsNext]_pathVars

-----------------------------------------------------------------------------
(* What is found.                                                          *)

\* The nodes from a node back to the start.
Chain(n) == Repeated(LAMBDA p : IF p = start THEN p ELSE nodes[p].parent, n, Cardinality(Seen))

Passable == {p \in Tiles : p = start \/ (CanWalkTo(p) /\ ~OutOfReach(p))}
Adjacent(p, q) == p # q /\ TilesApart(p, q) <= 1

\* A node costs no less than the way to the one it was reached from and the step from
\* there, so there are no loops.
NoLoops ==
  \A p \in Seen \ {start} : nodes[nodes[p].parent].f + StepCost(nodes[p].parent, p) <= nodes[p].f

\* The way that is found can be walked: from tile to neighbouring tile, over tiles that
\* can be walked on, to one that suits.
Walkable ==
  search = "found" =>
    /\ LET way == Chain(found)
       IN  /\ Last(way) = start
           /\ \A k \in 1 .. Len(way) - 1 :
                way[k] \in Passable /\ (way[k] = way[k + 1] \/ Adjacent(way[k], way[k + 1]))
    /\ Suits(found)

\* Ended before all there is to see was seen.
CutShort == refused \/ (fpp.maxSearchDist = 0 /\ ~(closedNodes < ClosedLimit))

\* Though some neighbours of a node are left out, each is known, and no more costly than
\* by way of the node, when the node is closed: no shorter way is ever missed.
NoShortCut ==
  \A n \in Seen \ OpenNodes : \A p \in {q \in Passable : Adjacent(q, n)} :
    p \in Seen /\ nodes[p].f <= nodes[n].f + StepCost(n, p)

\* A search fails only if there is no way.  What it finds is the cheapest of the tiles
\* that are exactly right, or else the farthest from the target of all that can be reached.
FindsTheBest ==
  /\ search = "failed" => OpenNodes = {} /\ \A p \in Seen : ~Suits(p)
  /\ search = "found" /\ bestMatch = 0 =>
       /\ \A p \in OpenNodes : nodes[found].f <= nodes[p].f
       /\ \A p \in Seen \ OpenNodes : ~Exact(p)
  /\ search = "found" /\ bestMatch # 0 =>
       /\ OpenNodes = {}
       /\ \A p \in Seen : Suits(p) => TilesApart(p, target) <= bestMatch

\* What a search finds is a way, and the best one.
PathsRight == NoLoops /\ Walkable /\ (~CutShort => NoShortCut /\ FindsTheBest)
=============================================================================
