------------------------------- MODULE Fights -------------------------------
(***************************************************************************)
(* Fights between players (combat.cpp, player.cpp, creature.cpp,           *)
(* tile.cpp): who is marked for attacking whom, who may not enter a zone   *)
(* or log out while he is, and which kills are murders.                    *)
(*                                                                         *)
(* A player is named by his character; the code names him by the id of his *)
(* session, so when he leaves nothing that others noted about him is his   *)
(* any more.  How hard a hit is, sight, range and secure mode only decide  *)
(* whether something happens, as do the ticks of a fight, which may end at *)
(* any time; who hit last, whose damage was most and recent enough, and    *)
(* whose poison works, is chosen among those who did damage.  One party    *)
(* and no guild wars.                                                      *)
(***************************************************************************)
EXTENDS Naturals, FiniteSets

CONSTANTS
  Fighter,       \* players
  Beast,         \* summons of players, and wild monsters
  Owner,         \* [Beast -> Fighter], or NoOne for a wild one
  NoOne,
  RedLimit,      \* murders that make a red skull
  BanLimit,      \* murders that are punished with a ban
  MostMurders,   \* bound: nobody dies while somebody has so many
  Maps           \* the maps to play on: each is the set of its zones

ASSUME FightsAssumption ==
  /\ Fighter \cap Beast = {} /\ NoOne \notin Fighter \cup Beast
  /\ Owner \in [Beast -> Fighter \cup {NoOne}]
  /\ RedLimit \in Nat /\ BanLimit \in Nat /\ RedLimit <= BanLimit /\ MostMurders \in Nat
  /\ Maps \subseteq SUBSET {"normal", "protection", "nopvp", "pvp"}

VARIABLES
  fighter,       \* player -> his zone, marks, target and wounds
  murders,       \* player -> murders that still count
  latest,        \* beast -> its latestKillEvent
  band,          \* the members of the party
  zones          \* the zones of the map

fightVars == <<fighter, murders, latest, band, zones>>

Beasts(p) == {b \in Beast : Owner[b] = p}
MasterOf(x) == IF x \in Beast THEN Owner[x] ELSE NoOne
PlayerOf(x) == IF x \in Beast THEN Owner[x] ELSE x
Playing == {p \in Fighter : fighter[p].zone # "away"}

Unmarked == [zone |-> "away", attacked |-> {}, skull |-> "none", locked |-> FALSE, fight |-> FALSE,
             target |-> NoOne, dying |-> FALSE, damage |-> {}]

FightsInit ==
  /\ fighter = [p \in Fighter |-> Unmarked]
  /\ murders = [p \in Fighter |-> 0]
  /\ latest = [b \in Beast |-> NoOne]
  /\ band = {}
  /\ zones \in Maps

(***************************************************************************)
(* Marks.                                                                  *)
(***************************************************************************)
Partners(p, q) == {p, q} \subseteq band

\* Player::onAttackedCreature; a monster hands it on to its master.
Marked(F, x, v) ==
  LET p == PlayerOf(x)
      unskulled == F[p].skull = "none" /\ F[v].skull = "none"
      opens == ~Partners(p, v) /\ p \notin F[v].attacked
      answers == ~Partners(p, v) /\ unskulled /\ p \in F[v].attacked
  IN  IF p = NoOne \/ F[v].zone = "pvp" THEN F
      ELSE [F EXCEPT ![p].locked = TRUE, ![p].fight = TRUE,
                     ![p].attacked = IF opens \/ answers THEN @ \cup {v} ELSE @,
                     ![p].skull = IF opens /\ unskulled THEN "white" ELSE @]

\* Player::onAttacked, addInFightTicks
InFight(F, v) == [F EXCEPT ![v].fight = TRUE]

\* Creature::blockHit
BlockHit(F, x, v) == InFight(Marked(F, x, v), v)

\* Game::combatChangeHealth, addDamagePoints: nothing more happens to the dying. The
\* damage may come back at the attacker.
Harmed(F, x, v, fatal) ==
  IF F[v].dying THEN F
  ELSE [F EXCEPT ![v].damage = @ \cup {x}, ![v].dying = fatal]

\* Mutant: the marks are left when the fight ends.
Calmed_StillAttacked(F, p) ==
  [F EXCEPT ![p].fight = FALSE, ![p].locked = FALSE,
            ![p].skull = IF @ = "red" THEN @ ELSE "none",
            ![p].damage = IF F[p].dying THEN @ ELSE {}]

\* Player::onEndCondition of CONDITION_INFIGHT
Calmed(F, p) ==
  [F EXCEPT ![p].fight = FALSE, ![p].locked = FALSE, ![p].attacked = {},
            ![p].skull = IF @ = "red" THEN @ ELSE "none",
            ![p].damage = IF F[p].dying THEN @ ELSE {}]

(***************************************************************************)
(* Attacks.                                                                *)
(***************************************************************************)
\* Combat::canTargetCreature
CanTarget(p, v) ==
  /\ p # v /\ {p, v} \subseteq Playing
  /\ {fighter[p].zone, fighter[v].zone} \cap {"protection", "nopvp"} = {}

\* Combat::canDoCombat
CanDoCombat(x, v) ==
  /\ PlayerOf(x) # NoOne => fighter[v].zone # "nopvp"
  /\ x \in Fighter /\ fighter[x].zone = "nopvp" => fighter[v].zone = "protection"

Untargeted(F, gone) == [p \in Fighter |-> IF F[p].target \in gone THEN [F[p] EXCEPT !.target = NoOne] ELSE F[p]]

\* Game::playerSetAttackedCreature, Creature::setAttackedCreature
SetTarget(p, v) ==
  /\ CanTarget(p, v) /\ ~fighter[p].dying
  /\ fighter' = BlockHit([fighter EXCEPT ![p].target = v], p, v)
  /\ UNCHANGED <<murders, latest, band, zones>>

\* One that is refused, a cancel, or a target that is out of sight.
DropTarget(p) ==
  /\ fighter[p].target # NoOne
  /\ fighter' = [fighter EXCEPT ![p].target = NoOne]
  /\ UNCHANGED <<murders, latest, band, zones>>

\* Creature::onAttacking: both are in a fight even if the blow cannot be struck.
Swing(p) ==
  /\ fighter[p].target # NoOne /\ ~fighter[p].dying
  /\ fighter' = InFight(InFight(fighter, p), fighter[p].target)
  /\ UNCHANGED <<murders, latest, band, zones>>

\* Combat::closeAttack, doCombatHealth, CombatHealthFunc, of a player or of his summon,
\* which attacks what he does; it may come back at the attacker.
Strike(x, v, fatal, reflected) ==
  LET p == PlayerOf(x)
      swung == IF x \in Fighter THEN InFight(InFight(fighter, p), v) ELSE fighter
      hit == Harmed(BlockHit(swung, x, v), x, v, fatal)
      back == IF reflected # "no" /\ x \in Fighter THEN Harmed(hit, v, p, reflected = "fatal") ELSE hit
  IN  /\ p # NoOne /\ p \in Playing /\ ~fighter[p].dying
      /\ fighter[p].target = v /\ v # NoOne /\ CanDoCombat(x, v)
      /\ fighter' = back
      /\ UNCHANGED <<murders, latest, band, zones>>

\* A blow that is blocked
Parried(x, v) ==
  /\ PlayerOf(x) \in Playing /\ ~fighter[PlayerOf(x)].dying
  /\ fighter[PlayerOf(x)].target = v /\ v # NoOne /\ CanDoCombat(x, v)
  /\ fighter' = BlockHit(fighter, x, v)
  /\ UNCHANGED <<murders, latest, band, zones>>

\* ConditionDamage::doDamage: who poisoned or burned him attacks him again, wherever
\* either of them is.
ConditionTick(v, x, fatal) ==
  /\ v \in Playing /\ ~fighter[v].dying /\ x \in fighter[v].damage /\ CanDoCombat(x, v)
  /\ fighter' = Harmed(BlockHit(fighter, x, v), x, v, fatal)
  /\ UNCHANGED <<murders, latest, band, zones>>

\* A wild monster; a field or poison whose owner is gone
Mauled(b, v, fatal) ==
  /\ b \in Beast /\ MasterOf(b) = NoOne /\ v \in Playing /\ fighter[v].zone # "protection"
  /\ fighter' = Harmed(InFight(fighter, v), b, v, fatal)
  /\ UNCHANGED <<murders, latest, band, zones>>
Scathed(v) ==
  /\ v \in Playing
  /\ fighter' = [InFight(fighter, v) EXCEPT ![v].dying = TRUE]
  /\ UNCHANGED <<murders, latest, band, zones>>

(***************************************************************************)
(* Walking, leaving, and the end of a fight.                               *)
(***************************************************************************)
\* Tile::queryAdd: one who is locked
MayEnter(p, z) ==
  fighter[p].locked => (fighter[p].zone = "pvp" <=> z = "pvp") /\ z \notin {"protection", "nopvp"}

\* Player::onChangeZone, onAttackedCreatureChangeZone
Entered(F, p, z) ==
  LET moved == [F EXCEPT ![p].zone = z]
      shy == moved[p].target # NoOne
             /\ (z = "protection" \/ moved[moved[p].target].zone \in {"protection", "nopvp"})
      own == IF shy THEN [moved EXCEPT ![p].target = NoOne] ELSE moved
  IN  IF z \in {"protection", "nopvp"} THEN Untargeted(own, {p}) ELSE own

WalkInto(p, z) ==
  /\ p \in Playing /\ ~fighter[p].dying /\ z # fighter[p].zone /\ MayEnter(p, z)
  /\ fighter' = Entered(fighter, p, z)
  /\ UNCHANGED <<murders, latest, band, zones>>

FightEnds(p) ==
  /\ p \in Playing /\ fighter[p].fight /\ ~fighter[p].dying
  /\ fighter' = Calmed(fighter, p)
  /\ UNCHANGED <<murders, latest, band, zones>>

\* Player::checkSkullTicks, at playerKillerEnd
RedEnds(p) ==
  /\ p \in Playing /\ fighter[p].skull = "red" /\ ~fighter[p].fight
  /\ fighter' = [fighter EXCEPT ![p].skull = "none"]
  /\ UNCHANGED <<murders, latest, band, zones>>

\* checkPlayerKilling: a murder is more than a month ago.
Forgotten(p) ==
  /\ murders[p] > 0 /\ murders' = [murders EXCEPT ![p] = @ - 1]
  /\ UNCHANGED <<fighter, latest, band, zones>>

\* Game::removeCreature: the session's id and those of its summons mean nobody any
\* more. Of the marks only a red skull and the fight are saved.
SessionGone(W, p) ==
  LET ids == {p} \cup Beasts(p)
      forget(q) == [W.f[q] EXCEPT !.attacked = @ \ {p}, !.target = IF @ = p THEN NoOne ELSE @,
                                  !.damage = @ \ ids]
      saved == [Unmarked EXCEPT !.fight = W.f[p].fight, !.skull = IF W.f[p].skull = "red" THEN "red" ELSE "none"]
  IN  [W EXCEPT !.f = [q \in Fighter |-> IF q = p THEN saved ELSE forget(q)],
                !.latest = [b \in Beast |-> IF b \in ids \/ W.latest[b] = p THEN NoOne ELSE W.latest[b]],
                !.band = @ \ {p}]

Everything == [f |-> fighter, murders |-> murders, latest |-> latest, band |-> band, lossless |-> FALSE]
Become(W) == fighter' = W.f /\ murders' = W.murders /\ latest' = W.latest /\ band' = W.band /\ UNCHANGED zones

\* Player::canLogout
Depart(p) ==
  /\ p \in Playing /\ ~fighter[p].dying
  /\ fighter[p].zone = "protection" \/ (~fighter[p].locked /\ ~fighter[p].fight)
  /\ Become(SessionGone(Everything, p))

Arrive(p, z) ==
  /\ p \in Fighter \ Playing /\ murders[p] < BanLimit
  /\ fighter' = [fighter EXCEPT ![p].zone = z]
  /\ UNCHANGED <<murders, latest, band, zones>>

JoinBand(p) == p \in Playing \ band /\ band' = band \cup {p} /\ UNCHANGED <<fighter, murders, latest, zones>>
LeaveBand(p) == p \in band /\ ~fighter[p].fight /\ band' = band \ {p} /\ UNCHANGED <<fighter, murders, latest, zones>>

(***************************************************************************)
(* Death.                                                                  *)
(***************************************************************************)
\* Player::addUnjustifiedDead
Murdered(W, k) ==
  LET n == W.murders[k] + 1
      counted == [W EXCEPT !.murders[k] = n, !.f[k].skull = IF n >= RedLimit THEN "red" ELSE @]
  IN  IF n >= BanLimit THEN SessionGone(counted, k) ELSE counted

\* Player::onKilledCreature; in a PvP zone the victim loses nothing.
KilledByPlayer(W, k, v, last) ==
  LET unjustified == /\ ~Partners(k, v) /\ W.f[v].skull = "none"
                     /\ v \in W.f[k].attacked /\ k \notin W.f[v].attacked
      judged == IF W.f[v].zone = "pvp" THEN [W EXCEPT !.lossless = TRUE]
                ELSE IF unjustified THEN Murdered(W, k) ELSE W
  IN  IF last /\ judged.f[k].zone # "away" /\ judged.f[k].fight
      THEN [judged EXCEPT !.f[k].locked = TRUE] ELSE judged

\* Creature::onKilledCreature: a summon's master killed; but not the one that it killed
\* last, a second time.
Killed(W, x, v, last) ==
  IF x \in Fighter THEN KilledByPlayer(W, x, v, last)
  ELSE IF x = NoOne \/ W.latest[x] = v THEN W
  ELSE LET noted == [W EXCEPT !.latest[x] = v]
       IN IF Owner[x] = NoOne THEN noted ELSE KilledByPlayer(noted, Owner[x], v, TRUE)

\* Mutant: the one who did most is judged, be he the master of the last hitter.
AlsoKilled_Master(l, d) == d # NoOne /\ d # l

\* Whether the one who did most damage counts besides the one with the last hit
AlsoKilled(l, d) ==
  /\ d # NoOne /\ d # l /\ d # MasterOf(l)
  /\ l # MasterOf(d) /\ (MasterOf(l) = NoOne \/ MasterOf(d) # MasterOf(l))

\* Player::death, and removed - or alive again in the temple, if a player killed him in
\* a PvP zone. Who is killed there a second time by the same summon has losses, and
\* stays where he is.
Reborn(W, v, last) ==
  LET healed == Calmed([W.f EXCEPT ![v].dying = FALSE], v)
      arena == W.f[v].zone = "pvp" /\ last # NoOne /\ PlayerOf(last) # NoOne
      home == Untargeted([Entered(healed, v, "protection") EXCEPT ![v].target = NoOne], {v})
  IN  IF ~arena THEN SessionGone([W EXCEPT !.f = healed], v)
      ELSE IF W.lossless THEN [W EXCEPT !.f = home] ELSE [W EXCEPT !.f = healed]

\* Creature::onDeath
OnDeath(v) ==
  /\ v \in Playing /\ fighter[v].dying /\ \A k \in Fighter : murders[k] < MostMurders
  /\ \E last \in fighter[v].damage \cup {NoOne} :
       LET byLast == Killed(Everything, last, v, TRUE)
       IN \E most \in byLast.f[v].damage \cup {NoOne} :
            LET judged == IF AlsoKilled(last, most) THEN Killed(byLast, most, v, FALSE) ELSE byLast
            IN  Become(Reborn(judged, v, last))

FightsNext ==
  \E p \in Fighter :
    \/ DropTarget(p) \/ Swing(p) \/ Scathed(p) \/ OnDeath(p)
    \/ FightEnds(p) \/ RedEnds(p) \/ Forgotten(p) \/ Depart(p) \/ JoinBand(p) \/ LeaveBand(p)
    \/ \E v \in Fighter : SetTarget(p, v)
    \/ \E x \in {p} \cup Beasts(p), v \in Fighter :
         \/ Parried(x, v)
         \/ \E fatal \in BOOLEAN, reflected \in {"no", "yes", "fatal"} :
              Strike(x, v, fatal, reflected)
    \/ \E fatal \in BOOLEAN, x \in Fighter \cup Beast : ConditionTick(p, x, fatal) \/ Mauled(x, p, fatal)
    \/ \E z \in zones : WalkInto(p, z) \/ Arrive(p, z)

FightsSpec == FightsInit /\ [][FightsNext]_fightVars

-----------------------------------------------------------------------------
\* Marks last as long as the fight: who is white, locked or has somebody in his attacked
\* set is in one. Nobody has a target in a protection or no-PvP zone, or from inside a
\* protection zone, and what is noted of others is about sessions that are still there.
FightsMarked ==
  \A p \in Fighter :
    LET f == fighter[p]
    IN  /\ f.skull = "white" \/ f.locked \/ f.attacked # {} => f.fight
        /\ f.target # NoOne => f.zone \notin {"away", "protection"} /\ fighter[f.target].zone \notin {"away", "protection", "nopvp"}
        /\ f.attacked \cup {PlayerOf(x) : x \in f.damage} \subseteq Playing \cup {NoOne}
        /\ p \notin f.attacked /\ f.zone = "away" => f.skull # "white"

\* A death is at most one murder of each killer, and only of one who did damage, himself
\* or through a summon, to a victim he had attacked and who had not attacked him.
KillsJudged ==
  [][\A k \in Fighter : murders'[k] > murders[k] =>
       /\ murders'[k] = murders[k] + 1
       /\ \E v \in Playing : /\ fighter[v].dying /\ v \in fighter[k].attacked /\ k \notin fighter[v].attacked
                             /\ ({k} \cup Beasts(k)) \cap fighter[v].damage # {}]_fightVars
=============================================================================
