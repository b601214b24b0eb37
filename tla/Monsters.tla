------------------------------ MODULE Monsters ------------------------------
(***************************************************************************)
(* Whom the creatures know, follow and attack (creature.cpp, monster.cpp   *)
(* and the check of creatures in game.cpp).                                *)
(*                                                                         *)
(* Every creature is told of what happens near it by callbacks made inside *)
(* the action of another one: appear, move, remove, convinced.  A monster  *)
(* keeps lists of friends and targets, with references; the attacked and   *)
(* the followed creature are plain pointers, so the callbacks must clear   *)
(* them in time.  An idle monster is taken off the checks and is awoken by *)
(* the callbacks only.                                                     *)
(*                                                                         *)
(* The map is one floor and one line of cells.  Sight stands for the 9     *)
(* squares of Monster::canSee, View for the 11 of the spectators, Leash    *)
(* for the 30 after which a summon is removed.  The search for a path is   *)
(* nondeterministic.  The ten lists checkCreatures walks are drawn at      *)
(* random: the model is the draw with one creature in each list at most.   *)
(***************************************************************************)
EXTENDS Integers, Sequences, FiniteSets, FiniteSetsExt, SequencesExt

CONSTANTS Player, Chaser,       \* Chaser: the players in chase mode
          Monster, Summoner, Spawned,   \* Spawned: those of the spawns
          Cell, Sight, View, Leash,
          Blows          \* bound: attacks, conditions, monsters convinced, placed and summoned

ASSUME MonstersAssumption ==
  /\ Player \cap Monster = {} /\ Chaser \subseteq Player /\ Summoner \cup Spawned \subseteq Monster
  /\ Sight < View /\ View <= Leash /\ Cell \subseteq 1..100

Creature == Player \cup Monster
Nobody == "nobody"
Off == 0                             \* isRemoved, or never placed

VARIABLES w,      \* creature -> its record, see New
          blows

monstersVars == <<w, blows>>

New(cell) ==
  [cell    |-> cell,
   alive   |-> TRUE,       \* health > 0
   master  |-> Nobody,
   targets |-> <<>>, friends |-> {},
   attack  |-> Nobody, follow |-> Nobody,
   path    |-> FALSE,      \* hasFollowPath
   update  |-> FALSE,      \* isUpdatingPath
   sick    |-> FALSE,      \* conditions is not empty
   check   |-> FALSE,      \* creatureCheck
   inCheck |-> FALSE,      \* inCheckCreaturesVector
   refs    |-> 0]          \* referenceCounter

Distance(a, b) == IF a > b THEN a - b ELSE b - a
OnMap(v, c) == v[c].cell # Off
Sees(v, x, c) == Distance(v[x].cell, v[c].cell) <= Sight              \* canSee
Spectators(v, cell) == {c \in Creature : OnMap(v, c) /\ Distance(v[c].cell, cell) <= View}
Summons(v, x) == {c \in Creature : v[c].master = x}
IsSummon(v, m) == v[m].master # Nobody

\* Monster::isFriend and isOpponent; nobody is in a party here.
IsFriend(v, m, c) ==
  IF IsSummon(v, m) /\ v[m].master \in Player
  THEN v[m].master \in {c, v[c].master}
  ELSE c \in Monster /\ ~IsSummon(v, c)
IsOpponent(v, m, c) ==
  IF IsSummon(v, m) /\ v[m].master \in Player
  THEN c # v[m].master
  ELSE c \in Player \/ v[c].master \in Player

Ref(v, c) == [v EXCEPT ![c].refs = @ + 1]
UnRef(v, c) == [v EXCEPT ![c].refs = @ - 1]

AddFriend(v, m, c) ==
  IF c \in v[m].friends THEN v ELSE Ref([v EXCEPT ![m].friends = @ \cup {c}], c)
RemoveFriend(v, m, c) ==
  IF c \in v[m].friends THEN UnRef([v EXCEPT ![m].friends = @ \ {c}], c) ELSE v
AddTarget(v, m, c, front) ==
  IF Contains(v[m].targets, c) THEN v
  ELSE Ref([v EXCEPT ![m].targets = IF front THEN <<c>> \o @ ELSE Append(@, c)], c)
RemoveTarget(v, m, c) ==
  IF Contains(v[m].targets, c)
  THEN UnRef([v EXCEPT ![m].targets = SelectSeq(@, LAMBDA x : x # c)], c) ELSE v

\* clearTargetList and clearFriendList
ClearLists(v, m) ==
  FoldSet(LAMBDA c, u : RemoveTarget(RemoveFriend(u, m, c), m, c), v, Creature)

\* Game::addCreatureCheck and removeCreatureCheck
AddCheck(v, c) ==
  IF v[c].inCheck THEN [v EXCEPT ![c].check = TRUE]
  ELSE Ref([v EXCEPT ![c].check = TRUE, ![c].inCheck = TRUE], c)
RemoveCheck(v, c) == IF v[c].inCheck THEN [v EXCEPT ![c].check = FALSE] ELSE v

\* Monster::setIdle and updateIdleStatus
SetIdle(v, m, idle) ==
  IF ~OnMap(v, m) \/ ~v[m].alive THEN v
  ELSE IF idle THEN RemoveCheck(ClearLists(v, m), m) ELSE AddCheck(v, m)
UpdateIdle(v, m) ==
  SetIdle(v, m, ~v[m].sick /\ ~IsSummon(v, m) /\ v[m].targets = <<>>)

\* Monster::onCreatureFound, and onCreatureEnter with front = TRUE
Greet(v, m, c) == IF IsFriend(v, m, c) THEN AddFriend(v, m, c) ELSE v
Mark(v, m, c, front) == IF IsOpponent(v, m, c) THEN AddTarget(v, m, c, front) ELSE v
Found(v, m, c, front) == UpdateIdle(Mark(Greet(v, m, c), m, c, front), m)

\* Monster::updateTargetList
UpdateTargets(v, m) ==
  LET lost(u, c) == ~u[c].alive \/ ~Sees(u, m, c)
      pruned == FoldSet(LAMBDA c, u : IF lost(u, c) THEN RemoveTarget(RemoveFriend(u, m, c), m, c) ELSE u,
                        v, Creature \ {m})
  IN FoldSet(LAMBDA c, u : IF Sees(u, m, c) THEN Found(u, m, c, FALSE) ELSE u,
             pruned, Spectators(v, v[m].cell) \ {m})

\* Monster::onCreatureLeave
Part(v, m, c) == IF IsFriend(v, m, c) THEN RemoveFriend(v, m, c) ELSE v
IdleIfAlone(v, m) == IF v[m].targets = <<>> THEN UpdateIdle(v, m) ELSE v
OnLeave(v, m, c) ==
  IF IsOpponent(v, m, c) THEN IdleIfAlone(RemoveTarget(Part(v, m, c), m, c), m) ELSE Part(v, m, c)

-----------------------------------------------------------------------------
(* Following and attacking. *)

CanFollow(v, x, c) == OnMap(v, c) /\ Sees(v, x, c)

\* Creature::setFollowCreature
SetFollow(v, x, c) ==
  CASE c = Nobody -> [v EXCEPT ![x].follow = Nobody, ![x].update = FALSE]
    [] c # Nobody /\ v[x].follow = c -> v
    [] c # Nobody /\ v[x].follow # c /\ ~CanFollow(v, x, c) -> [v EXCEPT ![x].follow = Nobody]
    [] c # Nobody /\ v[x].follow # c /\ CanFollow(v, x, c) ->
         [v EXCEPT ![x].follow = c, ![x].path = FALSE, ![x].update = TRUE]

\* The summon of a monster that has no way to its target obeys no attack.
MasterStuck(v, x) ==
  /\ v[x].master \in Monster
  /\ ~v[v[x].master].path /\ v[v[x].master].follow = Nobody

\* Creature::setAttackedCreature: the summons attack the same creature.  A
\* player follows the one he attacks in chase mode and nobody otherwise.
Chase(v, x, c) == IF x \in Player THEN SetFollow(v, x, IF x \in Chaser THEN c ELSE Nobody) ELSE v

RECURSIVE SetAttack(_, _, _)
SetAttack(v, x, c) ==
  IF c # Nobody /\ ~Sees(v, x, c) THEN [v EXCEPT ![x].attack = Nobody]
  ELSE IF c # Nobody /\ MasterStuck(v, x) THEN v
  ELSE Chase(FoldSet(LAMBDA s, u : SetAttack(u, s, c), [v EXCEPT ![x].attack = c], Summons(v, x)), x, c)

\* Monster::selectTarget
SelectTarget(v, m, c) ==
  IF ~OnMap(v, c) \/ ~Contains(v[m].targets, c) THEN v ELSE SetFollow(SetAttack(v, m, c), m, c)

\* Mutant: only the attacked creature is given up.
Disappear_Attacked(v, x, c) == IF v[x].attack = c THEN SetAttack(v, x, Nobody) ELSE v

\* Creature::onCreatureDisappear
Unfollow(v, x, c) == IF v[x].follow = c THEN SetFollow(v, x, Nobody) ELSE v
Disappear(v, x, c) == Unfollow(IF v[x].attack = c THEN SetAttack(v, x, Nobody) ELSE v, x, c)

-----------------------------------------------------------------------------
(* Coming and going. *)

\* Creature::addSummon and removeSummon
AddSummon(v, x, s) == Ref([v EXCEPT ![s].master = x], s)
RemoveSummon(v, s) == UnRef([v EXCEPT ![s].master = Nobody], s)

\* x is told that c is removed: Creature::onRemoveCreature and Monster's.
Freely(v, x, c) ==
  IF x = c /\ v[c].master # Nobody /\ OnMap(v, v[c].master) THEN RemoveSummon(v, c) ELSE v
Told(v, x, c) ==
  CASE x \in Player -> Freely(Disappear(v, x, c), x, c)
    [] x \in Monster /\ x = c -> SetIdle(Freely(Disappear(v, x, c), x, c), x, TRUE)
    [] x \in Monster /\ x # c -> OnLeave(Disappear(v, x, c), x, c)

\* Game::removeCreature, which removes the summons too.
RECURSIVE RemoveCreature(_, _)
RemoveCreature(v, c) ==
  IF ~OnMap(v, c) THEN v
  ELSE LET told == FoldSet(LAMBDA x, u : Told(u, x, c), v, Spectators(v, v[c].cell))
           gone == RemoveCheck(UnRef([told EXCEPT ![c].cell = Off], c), c)
       IN FoldSet(LAMBDA s, u : RemoveCreature(u, s), gone, Summons(v, c))

\* The destructor: Creature::~Creature gives its summons back, Monster::~Monster
\* its lists.
Freed(v) == {c \in Creature : v[c].refs = 0 /\ ~OnMap(v, c) /\ v[c] # New(Off)}
RECURSIVE FreeRemoved(_)
FreeRemoved(v) ==
  IF Freed(v) = {} THEN v
  ELSE LET c == CHOOSE x \in Freed(v) : TRUE
           orphaned == FoldSet(LAMBDA s, u : RemoveSummon(u, s), v, Summons(v, c))
       IN FreeRemoved([ClearLists(orphaned, c) EXCEPT ![c] = New(Off)])

\* Game::placeCreature: onCreatureAppear for those around, and the new one.
Placed(v, c, cell) ==
  LET put == Ref([v EXCEPT ![c].cell = cell], c)
      seen(x, u) == CASE x \in Player -> u
                      [] x \in Monster /\ x = c -> UpdateIdle(UpdateTargets(u, x), x)
                      [] x \in Monster /\ x # c -> Found(u, x, c, TRUE)
  IN AddCheck(FoldSet(seen, put, Spectators(put, cell)), c)

\* A creature that moves gives up those it no longer sees, and so do those who
\* follow or attack it: the end of Creature::onCreatureMove.
LostSight(v, x, c, one) ==
  IF one # Nobody /\ c \in {x, one} /\ ~Sees(v, x, one) THEN Disappear(v, x, one) ELSE v
LostAttacked(v, x, c) == LostSight(v, x, c, v[x].attack)
OutOfSight(v, x, c) == LostAttacked(LostSight(v, x, c, v[x].follow), x, c)

\* The summons that a step has left too far behind are removed.
Leashed(v, x, c) ==
  IF x # c THEN v
  ELSE FoldSet(LAMBDA s, u : RemoveCreature(u, s), v,
               {s \in Summons(v, x) : Distance(v[s].cell, v[x].cell) > Leash})

\* A monster with nobody to follow tries the one that moved.  One with somebody
\* may change to the creature in its way, if its kind changes targets at all
\* (changeTargetChance); those of the model do not.
Pick(v, x, c) ==
  IF ~IsSummon(v, x) /\ v[x].follow = Nobody /\ IsOpponent(v, x, c) THEN SelectTarget(v, x, c) ELSE v

\* A monster sees another creature come, go or pass.
Passing(v, x, c, from) ==
  LET saw == Distance(v[x].cell, from) <= Sight
  IN CASE Sees(v, x, c) /\ ~saw -> Found(v, x, c, TRUE)
       [] saw /\ ~Sees(v, x, c) -> OnLeave(v, x, c)
       [] saw = Sees(v, x, c) -> v

\* x sees c move: Creature::onCreatureMove and Monster's.
Moved(v, x, c, from) ==
  CASE ~OnMap(v, x) -> v
    [] OnMap(v, x) /\ x \in Player -> OutOfSight(Leashed(v, x, c), x, c)
    [] OnMap(v, x) /\ x \in Monster /\ x = c ->
         UpdateIdle(UpdateTargets(OutOfSight(Leashed(v, x, c), x, c), x), x)
    [] OnMap(v, x) /\ x \in Monster /\ x # c ->
         Pick(UpdateIdle(Passing(OutOfSight(v, x, c), x, c, from), x), x, c)

-----------------------------------------------------------------------------
(* The actions. *)

\* Spawn::startup has put monsters on the map without telling anybody, and
\* they are not in the checks.
MonstersInit ==
  /\ \E cells \in [Spawned -> Cell] :
       w = [c \in Creature |-> IF c \in Spawned
                                THEN [New(cells[c]) EXCEPT !.refs = 1] ELSE New(Off)]
  /\ blows = 0

Do(v) == w' = FreeRemoved(v)
Blow == blows < Blows /\ blows' = blows + 1

\* A spawn, a raid, or a player who logs in.
Place(c, cell) ==
  /\ w[c] = New(Off)
  /\ IF c \in Player THEN UNCHANGED blows ELSE Blow
  /\ Do(Placed(w, c, cell))

\* Map::moveCreature, by a step or a teleport.
Move(c, cell) ==
  /\ OnMap(w, c) /\ w[c].alive /\ cell # w[c].cell
  /\ LET from == w[c].cell
         there == [w EXCEPT ![c].cell = cell]
     IN Do(FoldSet(LAMBDA x, u : Moved(u, x, c, from), there,
                   Spectators(there, from) \cup Spectators(there, cell)))
  /\ UNCHANGED blows

\* Creature::changeHealth; a monster is taken up by the checks first.
Wounded(v, c, dies) ==
  [(IF c \in Monster THEN SetIdle(v, c, FALSE) ELSE v) EXCEPT ![c].alive = ~dies]

Hurt(c) ==
  /\ OnMap(w, c) /\ w[c].alive /\ Blow
  /\ \E dies \in BOOLEAN : Do(Wounded(w, c, dies))

\* Monster::onAddCondition
Sicken(m) ==
  /\ OnMap(w, m) /\ w[m].alive /\ ~w[m].sick /\ Blow
  /\ Do(UpdateIdle([w EXCEPT ![m].sick = TRUE], m))

\* The summons die with their master: Monster::death and convinceCreature.
KillSummons(v, x) ==
  FoldSet(LAMBDA s, u : UnRef([Wounded(u, s, TRUE) EXCEPT ![s].master = Nobody], s), v, Summons(v, x))

\* Monster::onCreatureConvinced of those around.
LookAnew(v, m) == UpdateIdle(UpdateTargets(v, m), m)
Known(v, p, m) ==
  FoldSet(LAMBDA x, u : IF x \in Monster /\ (IsFriend(u, x, m) \/ IsOpponent(u, x, m))
                        THEN LookAnew(u, x) ELSE u,
          v, Spectators(v, v[m].cell) \cup Spectators(v, v[p].cell))

\* Monster::convinceCreature: those around look at the monster anew.
Convince(p, m) ==
  /\ OnMap(w, p) /\ OnMap(w, m) /\ w[m].master # p /\ Blow
  /\ LET won == AddSummon(IF IsSummon(w, m) THEN RemoveSummon(w, m) ELSE w, p, m)
     IN Do(Known(LookAnew(KillSummons(SetAttack(SetFollow(won, m, Nobody), m, Nobody), m), m), p, m))

\* Game::playerSetAttackedCreature and playerFollowCreature, which gives up the
\* attack first; a player who cannot follow attacks nobody either.
AttackRequest(p, c) ==
  /\ OnMap(w, p) /\ c # p /\ OnMap(w, c)
  /\ Do(SetAttack(w, p, c))
  /\ UNCHANGED blows
FollowRequest(p, c) ==
  /\ OnMap(w, p) /\ c # p /\ OnMap(w, c)
  /\ Do(SetFollow(SetAttack(w, p, Nobody), p, c))
  /\ UNCHANGED blows

\* A player who leaves, or a creature a script removes.
Removed(c) ==
  /\ OnMap(w, c)
  /\ Do(RemoveCreature(w, c))
  /\ UNCHANGED blows

\* Creature::goToFollowCreature and Monster::onFollowCreatureComplete: the one
\* that is followed moves to an end of the targets, a summon drops it.
Walked(v, m, found) ==
  LET c == v[m].follow
      others == SelectSeq(v[m].targets, LAMBDA x : x # c)
      gone == [v EXCEPT ![m].update = FALSE, ![m].path = IF c = Nobody THEN @ ELSE found]
  IN IF ~v[m].update THEN v
     ELSE IF c = Nobody \/ m \in Player \/ ~Contains(v[m].targets, c) THEN gone
     ELSE IF found THEN [gone EXCEPT ![m].targets = <<c>> \o others]
     ELSE IF ~IsSummon(v, m) THEN [gone EXCEPT ![m].targets = Append(others, c)]
     ELSE UnRef([gone EXCEPT ![m].targets = others], c)

\* What a summon does on its turn.
Ordered(v, m) ==
  LET master == v[m].master
  IN CASE v[m].attack = Nobody /\ v[master].attack # Nobody -> SelectTarget(v, m, v[master].attack)
       [] v[m].attack = Nobody /\ v[master].attack = Nobody -> SetFollow(v, m, master)
       [] v[m].attack # Nobody -> SetFollow(v, m, IF v[m].attack = m THEN Nobody ELSE v[m].attack)
ToMaster(v, m) ==
  IF v[m].master \in Monster /\ ~v[v[m].master].path
  THEN SetAttack(SetFollow(v, m, v[m].master), m, Nobody) ELSE v
Obey(v, m) == ToMaster(Ordered(v, m), m)

\* Monster::searchTarget: any target but the one it follows, or none.
Search(v, m) ==
  {v} \cup {SelectTarget(v, m, v[m].targets[k]) : k \in 1..Len(v[m].targets)}

\* What a monster may do on its turn: Monster::onThink.
Acts(v, m) ==
  IF IsSummon(v, m) THEN {Obey(v, m)}
  ELSE IF v[m].targets # <<>> /\ (v[m].follow = Nobody \/ ~v[m].path) THEN Search(v, m)
  ELSE {v}

\* Monster::onThinkDefense: it may call a summon that stands where it stands.
Calls(v, m) ==
  {v} \cup (IF m \in Summoner /\ ~IsSummon(v, m) /\ Summons(v, m) = {} /\ v[m].path /\ blows < Blows
            THEN {Placed(AddSummon(v, m, s), s, v[m].cell) : s \in {c \in Monster : v[c] = New(Off)}}
            ELSE {})

\* Creature::executeConditions: the last condition may end.
Recovered(v, m, ends) ==
  IF ends /\ v[m].sick THEN UpdateIdle([v EXCEPT ![m].sick = FALSE], m) ELSE v

\* What a monster does once it knows whether it is idle.
Awake(v, m) == v[m].sick \/ IsSummon(v, m) \/ v[m].targets # <<>>
TargetsAfter(v, m) ==
  IF ~Awake(v, m) THEN {v} ELSE UNION {Calls(acted, m) : acted \in Acts(v, m)}

\* Game::checkCreatures for a creature with some health left.
ThinkPlayer(c) ==
  /\ w[c].inCheck /\ w[c].check /\ w[c].alive
  /\ \E found \in BOOLEAN : Do(Walked(w, c, found))
  /\ UNCHANGED blows
ThinkMonster(m) ==
  /\ w[m].inCheck /\ w[m].check /\ w[m].alive
  /\ \E found \in BOOLEAN, ends \in BOOLEAN :
       \E turned \in TargetsAfter(UpdateIdle(Walked(w, m, found), m), m) : Do(Recovered(turned, m, ends))
  /\ blows' = blows + Cardinality({s \in Monster : w[s] = New(Off) /\ w'[s] # New(Off)})

\* Monster::onThink out of its spawn's range or past its lifetime.
Despawn(m) ==
  /\ w[m].inCheck /\ w[m].check /\ w[m].alive
  /\ \E found \in BOOLEAN : Do(RemoveCreature(Walked(w, m, found), m))
  /\ UNCHANGED blows

Left(v, c) == IF v[c].master # Nobody THEN RemoveSummon(v, c) ELSE v

\* Creature::onDeath, Monster::death.  A player's summons go when he is removed.
Die(c) ==
  /\ w[c].inCheck /\ w[c].check /\ ~w[c].alive
  /\ LET dead == IF c \in Monster THEN ClearLists(KillSummons(SetAttack(w, c, Nobody), c), c) ELSE w
     IN Do(RemoveCreature(Left(dead, c), c))
  /\ UNCHANGED blows

\* Game::checkCreatures: one that is no longer to be checked leaves the list.
Uncheck(c) ==
  /\ w[c].inCheck /\ ~w[c].check
  /\ Do(UnRef([w EXCEPT ![c].inCheck = FALSE], c))
  /\ UNCHANGED blows

MonstersNext ==
  \/ \E c \in Creature :
       \/ \E cell \in Cell : Place(c, cell) \/ Move(c, cell)
       \/ Hurt(c) \/ Removed(c) \/ Die(c) \/ Uncheck(c)
  \/ \E m \in Monster : Sicken(m) \/ Despawn(m) \/ ThinkMonster(m)
  \/ \E p \in Player : ThinkPlayer(p)
  \/ \E p \in Player : \E c \in Creature : AttackRequest(p, c) \/ FollowRequest(p, c)
  \/ \E p \in Player, m \in Monster : Convince(p, m)

MonstersSpec == MonstersInit /\ [][MonstersNext]_monstersVars

-----------------------------------------------------------------------------
(* No creature on the map attacks or follows one that is off it or out of  *)
(* its sight, or has a master who is gone: these are plain pointers, and a *)
(* creature that is removed is soon freed (creature.cpp onCreatureMove and *)
(* onCreatureDisappear, game.cpp removeCreature).                          *)
NoStalePointer ==
  \A x \in Creature :
    OnMap(w, x) =>
      /\ \A c \in {w[x].attack, w[x].follow} \ {Nobody} : OnMap(w, c) /\ Sees(w, x, c)
      /\ w[x].master # Nobody => OnMap(w, w[x].master)

(* The references of a creature are those of the map, of the lists of the  *)
(* monsters that know it, of its master and of the checks: it is freed     *)
(* when, and only when, nobody can reach it any more (creature.h           *)
(* incrementReferenceCounter and its many callers).                        *)
ReferencesExact ==
  \A c \in Creature :
    w[c].refs = Cardinality({m \in Monster : c \in w[m].friends})
              + Cardinality({m \in Monster : Contains(w[m].targets, c)})
              + (IF OnMap(w, c) THEN 1 ELSE 0) + (IF w[c].inCheck THEN 1 ELSE 0)
              + (IF w[c].master # Nobody THEN 1 ELSE 0)

(* A creature whose health is gone dies: it is in the checks, which alone  *)
(* call onDeath, however idle the monster was when it was hit (monster.cpp *)
(* changeHealth).                                                          *)
DyingIsChecked == \A c \in Creature : OnMap(w, c) /\ ~w[c].alive => w[c].inCheck /\ w[c].check

(* A living monster that has an opponent in sight is awake and knows it,   *)
(* though only callbacks wake it (monster.cpp onCreatureEnter, onCreature- *)
(* Convinced and updateTargetList).                                        *)
AwakeInSight ==
  \A m \in Monster, c \in Creature :
    (m # c /\ OnMap(w, m) /\ OnMap(w, c) /\ w[m].alive /\ w[c].alive /\ Sees(w, m, c) /\ IsOpponent(w, m, c))
      => w[m].check /\ (~IsSummon(w, m) => Contains(w[m].targets, c))
=============================================================================
