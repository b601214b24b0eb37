---------------------------- MODULE PlayersProofs ----------------------------
(***************************************************************************)
(* What Fights promises, for any players, summons, limits and maps;        *)
(* Errands, for any ground and thing and any number of commands; Effects,  *)
(* for any conditions, slots and items; and Npc, for any customers and     *)
(* scripts.                                                                *)
(*                                                                         *)
(* The marks of a fight are kept on one record per player, which a handler *)
(* changes through a chain of operators (Marked, InFight, Harmed, Calmed,  *)
(* Entered, SessionGone, ...).  The invariant is therefore a predicate on  *)
(* the function of these records, WellKept, with one lemma per operator    *)
(* that says what the operator leaves alone and that it keeps WellKept; an *)
(* action is then the composition its handler makes.  What it says beyond  *)
(* FightsMarked is that nothing of a session is left on a player who is    *)
(* away, and that a player who plays has fewer murders than the ban takes. *)
(*                                                                         *)
(* What a walker wants to do waits in several places, and walking moves it *)
(* from one to the next or gives it up.  Each operator of walking has a    *)
(* lemma that it makes no more of it and leaves no walk task behind        *)
(* (Walks); a handler may add a copy or carry the command out, and starts  *)
(* with a command to spare (Ready) and ends without (TasksSound).          *)
(*                                                                         *)
(* What conditions and worn items do is a sum that no handler computes:    *)
(* the folds of the community modules do, one for the sum, others for what *)
(* a handler does for each condition or item.  A fold over a finite set is *)
(* a function on its subsets (FoldExists), about which SetInduction        *)
(* proves.  Balanced says what the sums and the outfit are, with one lemma *)
(* per operator of Effects, and VeilsWorn which item hides its bearer.     *)
(*                                                                         *)
(* An NPC is in the middle of its rules most of the time, so Serves speaks *)
(* of the duties that are still to come: each may rely on what is true     *)
(* when it is the first.                                                   *)
(***************************************************************************)
EXTENDS Fights, Business, Effects, SequenceTheorems, FiniteSetTheorems, WellFoundedInduction, TLAPS

Zones == {"normal", "protection", "nopvp", "pvp"}
FighterState ==
  [zone : Zones \cup {"away"}, attacked : SUBSET Fighter, skull : {"none", "white", "red"},
   locked : BOOLEAN, fight : BOOLEAN, target : Fighter \cup {NoOne}, dying : BOOLEAN,
   damage : SUBSET (Fighter \cup Beast)]
Fighters == [Fighter -> FighterState]

\* Players in the game, if F is what is kept of them.
In(F) == {p \in Fighter : F[p].zone # "away"}

WellMarked(F, p) ==
  /\ F[p].skull = "white" \/ F[p].locked \/ F[p].attacked # {} => F[p].fight
  /\ F[p].target # NoOne => /\ F[p].zone \notin {"away", "protection"}
                            /\ F[F[p].target].zone \notin {"away", "protection", "nopvp"}
  /\ F[p].attacked \subseteq In(F)
  /\ \A x \in F[p].damage : PlayerOf(x) \in In(F) \cup {NoOne}
  /\ F[p].zone = "away" => /\ ~F[p].locked /\ F[p].attacked = {} /\ F[p].skull # "white"
                           /\ F[p].target = NoOne /\ ~F[p].dying /\ F[p].damage = {}

WellKept(F) == F \in Fighters /\ \A p \in Fighter : WellMarked(F, p)

\* Players other than p keep their records, p keeps his zone.
OnlyOf(F, G, p) ==
  /\ G \in Fighters /\ G[p].zone = F[p].zone
  /\ \A q \in Fighter \ {p} : G[q] = F[q]

-----------------------------------------------------------------------------
\* The fields of a player's record have their types.
LEMMA Fields ==
  ASSUME NEW F \in Fighters, NEW p \in Fighter
  PROVE  /\ F[p] \in FighterState /\ F[p].zone \in Zones \cup {"away"}
         /\ F[p].attacked \subseteq Fighter /\ F[p].skull \in {"none", "white", "red"}
         /\ F[p].locked \in BOOLEAN /\ F[p].fight \in BOOLEAN
         /\ F[p].target \in Fighter \cup {NoOne} /\ F[p].dying \in BOOLEAN
         /\ F[p].damage \subseteq Fighter \cup Beast
BY DEF Fighters, FighterState

\* Who is responsible for what x does is a player or nobody.
LEMMA Responsible ==
  /\ \A x \in Fighter : PlayerOf(x) = x /\ MasterOf(x) = NoOne
  /\ \A x \in Beast : PlayerOf(x) = Owner[x] /\ MasterOf(x) = Owner[x]
                      /\ Owner[x] \in Fighter \cup {NoOne}
  /\ NoOne \notin Fighter \cup Beast
BY FightsAssumption DEF PlayerOf, MasterOf

\* One player's record changes and he stays where he is.
LEMMA OneKept ==
  ASSUME NEW F, NEW G, NEW p \in Fighter, WellKept(F), OnlyOf(F, G, p), WellMarked(G, p)
  PROVE  WellKept(G) /\ In(G) = In(F)
<1>1. \A q \in Fighter : G[q].zone = F[q].zone
  BY DEF OnlyOf
<1>2. In(G) = In(F)
  BY <1>1 DEF In
<1>3. ASSUME NEW q \in Fighter, q # p  PROVE WellMarked(G, q)
  <2>1. WellMarked(F, q) /\ G[q] = F[q]
    BY <1>3 DEF WellKept, OnlyOf
  <2>2. F[q].target \in Fighter \cup {NoOne}
    BY Fields DEF WellKept
  <2>3. F[q].target # NoOne => G[F[q].target].zone = F[F[q].target].zone
    BY <1>1, <2>2
  <2> QED BY <1>2, <2>1, <2>3 DEF WellMarked
<1> QED BY <1>2, <1>3 DEF WellKept, OnlyOf

\* Player::addInFightTicks changes nothing but the fight of one who plays.
LEMMA InFightKept ==
  ASSUME NEW F, WellKept(F), NEW v \in Fighter, v \in In(F)
  PROVE  /\ WellKept(InFight(F, v)) /\ OnlyOf(F, InFight(F, v), v)
         /\ \A q \in Fighter : LET g == InFight(F, v)[q] IN
              /\ g.attacked = F[q].attacked /\ g.target = F[q].target /\ g.dying = F[q].dying
              /\ g.damage = F[q].damage /\ g.zone = F[q].zone
<1> DEFINE r == [F[v] EXCEPT !.fight = TRUE]  G == InFight(F, v)
<1>1. F \in Fighters /\ F[v] \in FighterState /\ WellMarked(F, v)
  BY Fields DEF WellKept
<1>2. /\ r \in FighterState /\ r.fight = TRUE
      /\ r.zone = F[v].zone /\ r.attacked = F[v].attacked /\ r.skull = F[v].skull
      /\ r.locked = F[v].locked /\ r.target = F[v].target /\ r.dying = F[v].dying
      /\ r.damage = F[v].damage
  BY <1>1 DEF FighterState
<1>3. G = [F EXCEPT ![v] = r]
  BY DEF InFight
<1> HIDE DEF r, G
<1>4. G \in Fighters /\ G[v] = r /\ \A q \in Fighter \ {v} : G[q] = F[q]
  BY <1>1, <1>2, <1>3 DEF Fighters
<1>5. OnlyOf(F, G, v)
  BY <1>2, <1>4 DEF OnlyOf
<1>6. \A q \in Fighter : G[q].zone = F[q].zone
  BY <1>2, <1>4
<1>7. In(G) = In(F)
  BY <1>6 DEF In
<1>8. F[v].target \in Fighter \cup {NoOne}
  BY <1>1, Fields
<1>9. WellMarked(G, v)
  BY <1>1, <1>2, <1>4, <1>6, <1>7, <1>8 DEF WellMarked, In
<1>10. WellKept(G)
  BY <1>5, <1>9, OneKept
<1>11. \A q \in Fighter : /\ G[q].attacked = F[q].attacked /\ G[q].target = F[q].target
                          /\ G[q].dying = F[q].dying /\ G[q].damage = F[q].damage
  BY <1>2, <1>4
<1> QED BY <1>5, <1>6, <1>10, <1>11 DEF G

\* Player::onAttackedCreature marks the attacker, who plays.
LEMMA MarkedKept ==
  ASSUME NEW F, WellKept(F), NEW x \in Fighter \cup Beast, NEW v \in Fighter, v \in In(F),
         PlayerOf(x) \in In(F) \cup {NoOne}
  PROVE  /\ WellKept(Marked(F, x, v)) /\ In(Marked(F, x, v)) = In(F)
         /\ \A q \in Fighter : LET g == Marked(F, x, v)[q] IN
              /\ g.zone = F[q].zone /\ g.target = F[q].target /\ g.dying = F[q].dying
              /\ g.damage = F[q].damage
<1> DEFINE p == PlayerOf(x)
           unskulled == F[p].skull = "none" /\ F[v].skull = "none"
           opens == ~Partners(p, v) /\ p \notin F[v].attacked
           answers == ~Partners(p, v) /\ unskulled /\ p \in F[v].attacked
           others == IF opens \/ answers THEN F[p].attacked \cup {v} ELSE F[p].attacked
           mark == IF opens /\ unskulled THEN "white" ELSE F[p].skull
           r == [F[p] EXCEPT !.locked = TRUE, !.fight = TRUE, !.attacked = others, !.skull = mark]
           G == Marked(F, x, v)
<1>1. CASE p = NoOne \/ F[v].zone = "pvp"
  <2>1. G = F
    BY <1>1 DEF Marked
  <2> QED BY <2>1
<1>2. CASE p # NoOne /\ F[v].zone # "pvp"
  <2>1. /\ F \in Fighters /\ p \in Fighter /\ F[p].zone # "away"
        /\ F[p] \in FighterState /\ WellMarked(F, p)
    BY <1>2, Fields DEF In, WellKept
  <2>2. others \subseteq In(F) /\ others \subseteq Fighter /\ mark \in {"none", "white", "red"}
    BY <2>1, Fields DEF WellMarked, In
  <2>3. G = [F EXCEPT ![p] = r]
    <3>1. G = [F EXCEPT ![p].locked = TRUE, ![p].fight = TRUE,
                        ![p].attacked = IF opens \/ answers THEN @ \cup {v} ELSE @,
                        ![p].skull = IF opens /\ unskulled THEN "white" ELSE @]
      BY <1>2 DEF Marked
    <3> QED BY <3>1, <2>1 DEF Fighters, FighterState
  <2> HIDE DEF others, mark
  <2>4. r \in FighterState
    BY <2>1, <2>2 DEF FighterState
  <2>5. /\ r.fight = TRUE /\ r.attacked = others
        /\ r.zone = F[p].zone /\ r.target = F[p].target /\ r.dying = F[p].dying
        /\ r.damage = F[p].damage
    BY <2>1 DEF FighterState
  <2> HIDE DEF r, G
  <2>6. G \in Fighters /\ G[p] = r /\ \A q \in Fighter \ {p} : G[q] = F[q]
    BY <2>1, <2>3, <2>4 DEF Fighters
  <2>7. OnlyOf(F, G, p)
    BY <2>5, <2>6 DEF OnlyOf
  <2>8. \A q \in Fighter : G[q].zone = F[q].zone
    BY <2>5, <2>6
  <2>9. In(G) = In(F)
    BY <2>8 DEF In
  <2>10. F[p].target \in Fighter \cup {NoOne}
    BY <2>1, Fields
  <2>11. WellMarked(G, p)
    BY <2>1, <2>2, <2>5, <2>6, <2>8, <2>9, <2>10 DEF WellMarked
  <2>12. WellKept(G)
    BY <2>1, <2>7, <2>11, OneKept
  <2>13. \A q \in Fighter : G[q].target = F[q].target /\ G[q].dying = F[q].dying /\ G[q].damage = F[q].damage
    BY <2>5, <2>6
  <2> QED BY <2>8, <2>9, <2>12, <2>13 DEF G
<1> QED BY <1>1, <1>2

\* Creature::blockHit
LEMMA BlockHitKept ==
  ASSUME NEW F, WellKept(F), NEW x \in Fighter \cup Beast, NEW v \in Fighter, v \in In(F),
         PlayerOf(x) \in In(F) \cup {NoOne}
  PROVE  /\ WellKept(BlockHit(F, x, v)) /\ In(BlockHit(F, x, v)) = In(F)
         /\ \A q \in Fighter : LET g == BlockHit(F, x, v)[q] IN
              g.zone = F[q].zone /\ g.target = F[q].target /\ g.dying = F[q].dying
<1>1. WellKept(Marked(F, x, v)) /\ v \in In(Marked(F, x, v))
  BY MarkedKept
<1>2. WellKept(InFight(Marked(F, x, v), v))
      /\ OnlyOf(Marked(F, x, v), InFight(Marked(F, x, v), v), v)
      /\ \A q \in Fighter : LET g == InFight(Marked(F, x, v), v)[q] IN
           /\ g.zone = Marked(F, x, v)[q].zone /\ g.target = Marked(F, x, v)[q].target
           /\ g.dying = Marked(F, x, v)[q].dying
  BY <1>1, InFightKept
<1>3. \A q \in Fighter : LET g == BlockHit(F, x, v)[q] IN
        g.zone = F[q].zone /\ g.target = F[q].target /\ g.dying = F[q].dying
  BY <1>2, MarkedKept DEF BlockHit
<1>4. In(BlockHit(F, x, v)) = In(F)
  BY <1>3 DEF In
<1> QED BY <1>2, <1>3, <1>4 DEF BlockHit

\* Game::combatChangeHealth notes who hurt a player, and that he dies of it.
LEMMA HarmedKept ==
  ASSUME NEW F, WellKept(F), NEW x \in Fighter \cup Beast, NEW v \in Fighter, v \in In(F),
         PlayerOf(x) \in In(F) \cup {NoOne}, NEW fatal \in BOOLEAN
  PROVE  /\ WellKept(Harmed(F, x, v, fatal)) /\ In(Harmed(F, x, v, fatal)) = In(F)
         /\ \A q \in Fighter : Harmed(F, x, v, fatal)[q].target = F[q].target
<1> DEFINE G == Harmed(F, x, v, fatal)
           r == [F[v] EXCEPT !.damage = F[v].damage \cup {x}, !.dying = fatal]
<1>1. F \in Fighters /\ F[v] \in FighterState /\ WellMarked(F, v) /\ F[v].zone # "away"
      /\ F[v].target \in Fighter \cup {NoOne}
  BY Fields DEF WellKept, In
<1>2. CASE F[v].dying
  BY <1>2 DEF Harmed
<1>3. CASE ~F[v].dying
  <2>1. G = [F EXCEPT ![v] = r]
    <3>1. G = [F EXCEPT ![v].damage = @ \cup {x}, ![v].dying = fatal]
      BY <1>3 DEF Harmed
    <3> QED BY <3>1, <1>1 DEF Fighters, FighterState
  <2>2. r \in FighterState /\ r.damage = F[v].damage \cup {x}
    BY <1>1 DEF FighterState
  <2>3. /\ r.zone = F[v].zone /\ r.attacked = F[v].attacked /\ r.skull = F[v].skull
        /\ r.locked = F[v].locked /\ r.target = F[v].target /\ r.fight = F[v].fight
    BY <1>1 DEF FighterState
  <2> HIDE DEF r, G
  <2>4. G \in Fighters /\ G[v] = r /\ \A q \in Fighter \ {v} : G[q] = F[q]
    BY <1>1, <2>1, <2>2 DEF Fighters
  <2>5. OnlyOf(F, G, v)
    BY <2>3, <2>4 DEF OnlyOf
  <2>6. \A q \in Fighter : G[q].zone = F[q].zone /\ G[q].target = F[q].target
    BY <2>3, <2>4
  <2>7. In(G) = In(F)
    BY <2>6 DEF In
  <2>8. \A y \in G[v].damage : PlayerOf(y) \in In(G) \cup {NoOne}
    BY <1>1, <2>2, <2>4, <2>7 DEF WellMarked
  <2>9. WellMarked(G, v)
    BY <1>1, <2>3, <2>4, <2>6, <2>7, <2>8 DEF WellMarked
  <2>10. WellKept(G)
    BY <1>1, <2>5, <2>9, OneKept
  <2> QED BY <2>6, <2>7, <2>10 DEF G
<1> QED BY <1>2, <1>3

\* A player's dying flag is set or taken back.
LEMMA DyingKept ==
  ASSUME NEW F, WellKept(F), NEW p \in Fighter, p \in In(F), NEW d \in BOOLEAN
  PROVE  LET G == [F EXCEPT ![p].dying = d] IN
         /\ WellKept(G) /\ In(G) = In(F) /\ OnlyOf(F, G, p)
         /\ G[p].dying = d /\ G[p].attacked = F[p].attacked /\ G[p].target = F[p].target
<1> DEFINE r == [F[p] EXCEPT !.dying = d]  G == [F EXCEPT ![p] = r]
<1>1. /\ F \in Fighters /\ F[p] \in FighterState /\ WellMarked(F, p) /\ F[p].zone # "away"
      /\ F[p].target \in Fighter \cup {NoOne}
  BY Fields DEF WellKept, In
<1>2. /\ r \in FighterState /\ r.dying = d
      /\ r.zone = F[p].zone /\ r.attacked = F[p].attacked /\ r.skull = F[p].skull
      /\ r.locked = F[p].locked /\ r.target = F[p].target /\ r.fight = F[p].fight
      /\ r.damage = F[p].damage
  BY <1>1 DEF FighterState
<1>3. [F EXCEPT ![p].dying = d] = G
  OBVIOUS
<1> HIDE DEF r
<1>4. G \in Fighters /\ G[p] = r /\ \A q \in Fighter \ {p} : G[q] = F[q]
  BY <1>1, <1>2 DEF Fighters
<1> HIDE DEF G
<1>5. OnlyOf(F, G, p) /\ \A q \in Fighter : G[q].zone = F[q].zone
  BY <1>2, <1>4 DEF OnlyOf
<1>6. In(G) = In(F)
  BY <1>5 DEF In
<1>7. WellMarked(G, p)
  BY <1>1, <1>2, <1>4, <1>5, <1>6 DEF WellMarked
<1> QED BY <1>1, <1>2, <1>3, <1>4, <1>5, <1>6, <1>7, OneKept

\* A target is given up, or taken where targets may be.
LEMMA TargetKept ==
  ASSUME NEW F, WellKept(F), NEW p \in Fighter, NEW t \in Fighter \cup {NoOne},
         t # NoOne => /\ F[p].zone \notin {"away", "protection"}
                      /\ F[t].zone \notin {"away", "protection", "nopvp"}
  PROVE  LET G == [F EXCEPT ![p].target = t] IN
         /\ WellKept(G) /\ In(G) = In(F) /\ OnlyOf(F, G, p)
         /\ G[p].attacked = F[p].attacked
<1> DEFINE r == [F[p] EXCEPT !.target = t]  G == [F EXCEPT ![p] = r]
<1>1. F \in Fighters /\ F[p] \in FighterState /\ WellMarked(F, p)
  BY Fields DEF WellKept
<1>2. /\ r \in FighterState /\ r.target = t
      /\ r.zone = F[p].zone /\ r.attacked = F[p].attacked /\ r.skull = F[p].skull
      /\ r.locked = F[p].locked /\ r.dying = F[p].dying /\ r.fight = F[p].fight
      /\ r.damage = F[p].damage
  BY <1>1 DEF FighterState
<1>3. [F EXCEPT ![p].target = t] = G
  OBVIOUS
<1> HIDE DEF r
<1>4. G \in Fighters /\ G[p] = r /\ \A q \in Fighter \ {p} : G[q] = F[q]
  BY <1>1, <1>2 DEF Fighters
<1> HIDE DEF G
<1>5. OnlyOf(F, G, p) /\ \A q \in Fighter : G[q].zone = F[q].zone
  BY <1>2, <1>4 DEF OnlyOf
<1>6. In(G) = In(F)
  BY <1>5 DEF In
<1>7. WellMarked(G, p)
  BY <1>1, <1>2, <1>4, <1>5, <1>6 DEF WellMarked
<1> QED BY <1>2, <1>3, <1>4, <1>5, <1>6, <1>7, OneKept

\* Player::onEndCondition of the fight takes all its marks but a red skull.
LEMMA CalmedKept ==
  ASSUME NEW F, WellKept(F), NEW p \in Fighter
  PROVE  LET G == Calmed(F, p) IN
         /\ WellKept(G) /\ In(G) = In(F) /\ OnlyOf(F, G, p)
         /\ G[p].target = F[p].target
<1> DEFINE left == IF F[p].skull = "red" THEN F[p].skull ELSE "none"
           hurt == IF F[p].dying THEN F[p].damage ELSE {}
           r == [F[p] EXCEPT !.fight = FALSE, !.locked = FALSE, !.attacked = {},
                             !.skull = left, !.damage = hurt]
           G == Calmed(F, p)
<1>1. /\ F \in Fighters /\ F[p] \in FighterState /\ WellMarked(F, p)
      /\ F[p].target \in Fighter \cup {NoOne}
  BY Fields DEF WellKept
<1>2. left \in {"none", "red"} /\ hurt \subseteq F[p].damage
  OBVIOUS
<1>3. G = [F EXCEPT ![p] = r]
  <2>1. G = [F EXCEPT ![p].fight = FALSE, ![p].locked = FALSE, ![p].attacked = {},
            ![p].skull = IF @ = "red" THEN @ ELSE "none",
            ![p].damage = IF F[p].dying THEN @ ELSE {}]
    BY DEF Calmed
  <2> QED BY <2>1, <1>1 DEF Fighters, FighterState
<1> HIDE DEF left, hurt
<1>4. r \in FighterState
  BY <1>1, <1>2 DEF FighterState
<1>5. /\ ~r.fight /\ ~r.locked /\ r.attacked = {} /\ r.skull = left /\ r.damage = hurt
      /\ r.zone = F[p].zone /\ r.target = F[p].target /\ r.dying = F[p].dying
  BY <1>1 DEF FighterState
<1> HIDE DEF r, G
<1>6. G \in Fighters /\ G[p] = r /\ \A q \in Fighter \ {p} : G[q] = F[q]
  BY <1>1, <1>3, <1>4 DEF Fighters
<1>7. OnlyOf(F, G, p) /\ \A q \in Fighter : G[q].zone = F[q].zone
  BY <1>5, <1>6 DEF OnlyOf
<1>8. In(G) = In(F)
  BY <1>7 DEF In
<1>9. WellMarked(G, p)
  BY <1>1, <1>2, <1>5, <1>6, <1>7, <1>8 DEF WellMarked
<1> QED BY <1>5, <1>6, <1>7, <1>8, <1>9, OneKept DEF G

\* Who targets one of those gone has no target any more; nothing else changes.
LEMMA UntargetedFields ==
  ASSUME NEW F \in Fighters, NEW gone
  PROVE  LET G == Untargeted(F, gone) IN
         /\ G \in Fighters
         /\ \A q \in Fighter :
              /\ G[q].target = IF F[q].target \in gone THEN NoOne ELSE F[q].target
              /\ G[q].zone = F[q].zone /\ G[q].attacked = F[q].attacked
              /\ G[q].skull = F[q].skull /\ G[q].locked = F[q].locked /\ G[q].fight = F[q].fight
              /\ G[q].dying = F[q].dying /\ G[q].damage = F[q].damage
<1> DEFINE r(q) == [F[q] EXCEPT !.target = NoOne]  G == Untargeted(F, gone)
<1>1. ASSUME NEW q \in Fighter
      PROVE  /\ r(q) \in FighterState /\ r(q).target = NoOne
             /\ r(q).zone = F[q].zone /\ r(q).attacked = F[q].attacked /\ r(q).skull = F[q].skull
             /\ r(q).locked = F[q].locked /\ r(q).fight = F[q].fight
             /\ r(q).dying = F[q].dying /\ r(q).damage = F[q].damage
  <2>1. F[q] \in FighterState
    BY Fields
  <2> QED BY <2>1 DEF FighterState
<1>2. G = [q \in Fighter |-> IF F[q].target \in gone THEN r(q) ELSE F[q]]
  BY DEF Untargeted
<1> HIDE DEF r, G
<1>3. \A q \in Fighter : F[q] \in FighterState
  BY Fields
<1>4. G \in Fighters
  BY <1>1, <1>2, <1>3 DEF Fighters
<1> QED BY <1>1, <1>2, <1>4 DEF G

\* Targets are given up, and nothing else changes.
LEMMA UntargetedKept ==
  ASSUME NEW F, WellKept(F), NEW gone
  PROVE  WellKept(Untargeted(F, gone)) /\ In(Untargeted(F, gone)) = In(F)
<1> DEFINE G == Untargeted(F, gone)
<1>1. F \in Fighters /\ G \in Fighters
  BY UntargetedFields DEF WellKept
<1>2. \A q \in Fighter :
        /\ G[q].target = IF F[q].target \in gone THEN NoOne ELSE F[q].target
        /\ G[q].zone = F[q].zone /\ G[q].attacked = F[q].attacked
        /\ G[q].skull = F[q].skull /\ G[q].locked = F[q].locked /\ G[q].fight = F[q].fight
        /\ G[q].dying = F[q].dying /\ G[q].damage = F[q].damage
  BY <1>1, UntargetedFields
<1> HIDE DEF G
<1>3. In(G) = In(F)
  BY <1>2 DEF In
<1>4. ASSUME NEW q \in Fighter  PROVE WellMarked(G, q)
  <2>1. WellMarked(F, q) /\ F[q].target \in Fighter \cup {NoOne}
    BY <1>1, Fields DEF WellKept
  <2> QED BY <1>2, <1>3, <2>1 DEF WellMarked
<1> QED BY <1>1, <1>3, <1>4 DEF WellKept, G

\* Player::onChangeZone and onAttackedCreatureChangeZone: one player is in another zone,
\* and targets are given up.
LEMMA EnteredFields ==
  ASSUME NEW F, WellKept(F), NEW p \in Fighter, NEW z \in Zones
  PROVE  LET G == Entered(F, p, z) IN
         /\ G \in Fighters
         /\ \A q \in Fighter :
              /\ G[q].target \in {F[q].target, NoOne}
              /\ G[q].zone = IF q = p THEN z ELSE F[q].zone
              /\ G[q].attacked = F[q].attacked
              /\ G[q].skull = F[q].skull /\ G[q].locked = F[q].locked /\ G[q].fight = F[q].fight
              /\ G[q].dying = F[q].dying /\ G[q].damage = F[q].damage
         /\ z = "protection" => G[p].target = NoOne
         /\ G[p].target # NoOne =>
              (IF F[p].target = p THEN z ELSE F[F[p].target].zone) \notin {"protection", "nopvp"}
         /\ z \in {"protection", "nopvp"} => \A q \in Fighter : G[q].target # p
<1> DEFINE r == [F[p] EXCEPT !.zone = z]
           moved == [F EXCEPT ![p].zone = z]
           shy == moved[p].target # NoOne
                  /\ (z = "protection" \/ moved[moved[p].target].zone \in {"protection", "nopvp"})
           u == [moved[p] EXCEPT !.target = NoOne]
           own == IF shy THEN [moved EXCEPT ![p].target = NoOne] ELSE moved
           G == Entered(F, p, z)
<1>1. F \in Fighters /\ F[p] \in FighterState /\ \A q \in Fighter : F[q].target \in Fighter \cup {NoOne}
  BY Fields DEF WellKept
<1>2. /\ r \in FighterState /\ r.zone = z
      /\ r.target = F[p].target /\ r.attacked = F[p].attacked /\ r.skull = F[p].skull
      /\ r.locked = F[p].locked /\ r.dying = F[p].dying /\ r.fight = F[p].fight
      /\ r.damage = F[p].damage
  BY <1>1 DEF FighterState, Zones
<1>3. moved = [F EXCEPT ![p] = r]
  OBVIOUS
<1>4. G = IF z \in {"protection", "nopvp"} THEN Untargeted(own, {p}) ELSE own
  BY DEF Entered
<1>5. own = IF shy THEN [moved EXCEPT ![p] = u] ELSE moved
  OBVIOUS
<1> HIDE DEF r, moved
<1>6. moved \in Fighters /\ moved[p] = r /\ \A q \in Fighter \ {p} : moved[q] = F[q]
  BY <1>1, <1>2, <1>3 DEF Fighters
<1>7. /\ u \in FighterState /\ u.target = NoOne
      /\ u.zone = r.zone /\ u.attacked = r.attacked /\ u.skull = r.skull
      /\ u.locked = r.locked /\ u.dying = r.dying /\ u.fight = r.fight /\ u.damage = r.damage
  BY <1>2, <1>6 DEF FighterState
<1>8. shy <=> F[p].target # NoOne
              /\ (z = "protection"
                  \/ (IF F[p].target = p THEN z ELSE F[F[p].target].zone) \in {"protection", "nopvp"})
  BY <1>1, <1>2, <1>6
<1> HIDE DEF u, own, shy
<1>9. own \in Fighters /\ \A q \in Fighter \ {p} : own[q] = F[q]
  BY <1>5, <1>6, <1>7 DEF Fighters
<1>10. own[p] = IF shy THEN u ELSE r
  BY <1>5, <1>6 DEF Fighters
<1>11. /\ own[p].target = IF shy THEN NoOne ELSE F[p].target
       /\ own[p].zone = z /\ own[p].attacked = F[p].attacked /\ own[p].skull = F[p].skull
       /\ own[p].locked = F[p].locked /\ own[p].fight = F[p].fight
       /\ own[p].dying = F[p].dying /\ own[p].damage = F[p].damage
  BY <1>2, <1>7, <1>10
<1>12. CASE z \in {"protection", "nopvp"}
  <2>1. G = Untargeted(own, {p})
    BY <1>4, <1>12
  <2>2. /\ G \in Fighters
        /\ \A q \in Fighter :
              /\ G[q].target = IF own[q].target \in {p} THEN NoOne ELSE own[q].target
              /\ G[q].zone = own[q].zone /\ G[q].attacked = own[q].attacked
              /\ G[q].skull = own[q].skull /\ G[q].locked = own[q].locked /\ G[q].fight = own[q].fight
              /\ G[q].dying = own[q].dying /\ G[q].damage = own[q].damage
    BY <1>9, <2>1, UntargetedFields
  <2> HIDE DEF G
  <2>3. NoOne # p
    BY Responsible
  <2> QED BY <1>8, <1>9, <1>11, <2>2, <2>3 DEF G
<1>13. CASE z \notin {"protection", "nopvp"}
  <2>1. G = own
    BY <1>4, <1>13
  <2> HIDE DEF G
  <2> QED BY <1>8, <1>9, <1>11, <1>13, <2>1 DEF G
<1> QED BY <1>12, <1>13

\* A player in the game goes from one zone to another.
LEMMA EnteredKept ==
  ASSUME NEW F, WellKept(F), NEW p \in Fighter, NEW z \in Zones, p \in In(F)
  PROVE  WellKept(Entered(F, p, z)) /\ In(Entered(F, p, z)) = In(F)
<1> DEFINE G == Entered(F, p, z)
<1>1. /\ G \in Fighters
      /\ \A q \in Fighter :
           /\ G[q].target \in {F[q].target, NoOne}
           /\ G[q].zone = IF q = p THEN z ELSE F[q].zone
           /\ G[q].attacked = F[q].attacked
           /\ G[q].skull = F[q].skull /\ G[q].locked = F[q].locked /\ G[q].fight = F[q].fight
           /\ G[q].dying = F[q].dying /\ G[q].damage = F[q].damage
      /\ z = "protection" => G[p].target = NoOne
      /\ G[p].target # NoOne =>
           (IF F[p].target = p THEN z ELSE F[F[p].target].zone) \notin {"protection", "nopvp"}
      /\ z \in {"protection", "nopvp"} => \A q \in Fighter : G[q].target # p
  BY EnteredFields
<1> HIDE DEF G
<1>2. z # "away"
  BY DEF Zones
<1>3. In(G) = In(F)
  BY <1>1, <1>2 DEF In
<1>4. ASSUME NEW q \in Fighter  PROVE WellMarked(G, q)
  <2>1. WellMarked(F, q) /\ F[q].target \in Fighter \cup {NoOne}
    BY Fields DEF WellKept
  <2>2. G[q].zone = "away" => F[q].zone = "away"
    BY <1>1, <1>2
  <2>3. G[q].target # NoOne => G[q].zone \notin {"away", "protection"}
    BY <1>1, <1>2, <2>1 DEF WellMarked
  <2>4. G[q].target # NoOne => G[G[q].target].zone \notin {"away", "protection", "nopvp"}
    BY <1>1, <1>2, <2>1 DEF WellMarked
  <2> QED BY <1>1, <1>3, <2>1, <2>2, <2>3, <2>4 DEF WellMarked
<1> QED BY <1>1, <1>3, <1>4 DEF WellKept, G

\* Player::setSkull, but for the white one of onAttackedCreature.
LEMMA SkullKept ==
  ASSUME NEW F, WellKept(F), NEW p \in Fighter, NEW s, s = "none" \/ s = "red"
  PROVE  LET G == [F EXCEPT ![p].skull = s] IN
         /\ WellKept(G) /\ In(G) = In(F) /\ OnlyOf(F, G, p)
         /\ G[p].attacked = F[p].attacked /\ G[p].damage = F[p].damage
         /\ G[p].dying = F[p].dying /\ G[p].fight = F[p].fight
<1> DEFINE r == [F[p] EXCEPT !.skull = s]  G == [F EXCEPT ![p] = r]
<1>1. F \in Fighters /\ F[p] \in FighterState /\ WellMarked(F, p)
      /\ F[p].target \in Fighter \cup {NoOne}
  BY Fields DEF WellKept
<1>2. /\ r \in FighterState /\ r.skull = s
      /\ r.zone = F[p].zone /\ r.attacked = F[p].attacked /\ r.target = F[p].target
      /\ r.locked = F[p].locked /\ r.dying = F[p].dying /\ r.fight = F[p].fight
      /\ r.damage = F[p].damage
  BY <1>1 DEF FighterState
<1>3. [F EXCEPT ![p].skull = s] = G
  OBVIOUS
<1> HIDE DEF r
<1>4. G \in Fighters /\ G[p] = r /\ \A q \in Fighter \ {p} : G[q] = F[q]
  BY <1>1, <1>2 DEF Fighters
<1> HIDE DEF G
<1>5. OnlyOf(F, G, p) /\ \A q \in Fighter : G[q].zone = F[q].zone
  BY <1>2, <1>4 DEF OnlyOf
<1>6. In(G) = In(F)
  BY <1>5 DEF In
<1>7. WellMarked(G, p)
  BY <1>1, <1>2, <1>4, <1>5, <1>6 DEF WellMarked
<1> QED BY <1>2, <1>3, <1>4, <1>5, <1>6, <1>7, OneKept

\* pzLocked of a player who is in a fight.
LEMMA LockedKept ==
  ASSUME NEW F, WellKept(F), NEW p \in Fighter, p \in In(F), F[p].fight
  PROVE  LET G == [F EXCEPT ![p].locked = TRUE] IN
         /\ WellKept(G) /\ In(G) = In(F) /\ OnlyOf(F, G, p)
         /\ G[p].attacked = F[p].attacked /\ G[p].damage = F[p].damage
         /\ G[p].dying = F[p].dying
<1> DEFINE r == [F[p] EXCEPT !.locked = TRUE]  G == [F EXCEPT ![p] = r]
<1>1. F \in Fighters /\ F[p] \in FighterState /\ WellMarked(F, p) /\ F[p].zone # "away"
      /\ F[p].target \in Fighter \cup {NoOne}
  BY Fields DEF WellKept, In
<1>2. /\ r \in FighterState /\ r.locked
      /\ r.zone = F[p].zone /\ r.attacked = F[p].attacked /\ r.target = F[p].target
      /\ r.skull = F[p].skull /\ r.dying = F[p].dying /\ r.fight = F[p].fight
      /\ r.damage = F[p].damage
  BY <1>1 DEF FighterState
<1>3. [F EXCEPT ![p].locked = TRUE] = G
  OBVIOUS
<1> HIDE DEF r
<1>4. G \in Fighters /\ G[p] = r /\ \A q \in Fighter \ {p} : G[q] = F[q]
  BY <1>1, <1>2 DEF Fighters
<1> HIDE DEF G
<1>5. OnlyOf(F, G, p) /\ \A q \in Fighter : G[q].zone = F[q].zone
  BY <1>2, <1>4 DEF OnlyOf
<1>6. In(G) = In(F)
  BY <1>5 DEF In
<1>7. WellMarked(G, p)
  BY <1>1, <1>2, <1>4, <1>5, <1>6 DEF WellMarked
<1> QED BY <1>2, <1>3, <1>4, <1>5, <1>6, <1>7, OneKept

-----------------------------------------------------------------------------
\* Everything an event of the game changes at once.
Worlds ==
  [f : Fighters, murders : [Fighter -> Nat], latest : [Beast -> Fighter \cup {NoOne}],
   band : SUBSET Fighter, lossless : BOOLEAN]

\* Nobody plays who has as many murders as the ban takes.
Unbanned(F, count) == \A p \in In(F) : count[p] < BanLimit

Sound(W) == W \in Worlds /\ WellKept(W.f) /\ Unbanned(W.f, W.murders)

\* The fields of a world have their types.
LEMMA WorldFields ==
  ASSUME NEW W \in Worlds
  PROVE  /\ W.f \in Fighters /\ W.murders \in [Fighter -> Nat]
         /\ W.latest \in [Beast -> Fighter \cup {NoOne}]
         /\ W.band \subseteq Fighter /\ W.lossless \in BOOLEAN
BY DEF Worlds

\* A world with other records of the players
LEMMA WorldWith ==
  ASSUME NEW W \in Worlds, NEW F \in Fighters
  PROVE  LET R == [W EXCEPT !.f = F] IN
         /\ R \in Worlds /\ R.f = F /\ R.murders = W.murders /\ R.latest = W.latest
         /\ R.band = W.band /\ R.lossless = W.lossless
BY DEF Worlds

\* Game::removeCreature: what is left of a session, on the player and on the others.
LEMMA SessionGoneFields ==
  ASSUME NEW W \in Worlds, NEW p \in Fighter
  PROVE  LET R == SessionGone(W, p) IN
         /\ R \in Worlds /\ R.murders = W.murders /\ R.lossless = W.lossless
         /\ \A q \in Fighter \ {p} :
              /\ R.f[q].attacked = W.f[q].attacked \ {p}
              /\ R.f[q].target = IF W.f[q].target = p THEN NoOne ELSE W.f[q].target
              /\ R.f[q].damage = W.f[q].damage \ ({p} \cup Beasts(p))
              /\ R.f[q].zone = W.f[q].zone /\ R.f[q].skull = W.f[q].skull
              /\ R.f[q].locked = W.f[q].locked /\ R.f[q].fight = W.f[q].fight
              /\ R.f[q].dying = W.f[q].dying
         /\ R.f[p].zone = "away" /\ R.f[p].attacked = {} /\ R.f[p].skull \in {"none", "red"}
         /\ ~R.f[p].locked /\ R.f[p].target = NoOne /\ ~R.f[p].dying /\ R.f[p].damage = {}
<1> DEFINE ids == {p} \cup Beasts(p)
           forget(q) == [W.f[q] EXCEPT !.attacked = @ \ {p}, !.target = IF @ = p THEN NoOne ELSE @,
                                       !.damage = @ \ ids]
           away == [Unmarked EXCEPT !.fight = W.f[p].fight, !.skull = IF W.f[p].skull = "red" THEN "red" ELSE "none"]
           F == [q \in Fighter |-> IF q = p THEN away ELSE forget(q)]
           l == [b \in Beast |-> IF b \in ids \/ W.latest[b] = p THEN NoOne ELSE W.latest[b]]
           R == SessionGone(W, p)
<1>1. /\ W.f \in Fighters /\ \A q \in Fighter : W.f[q] \in FighterState
      /\ W.latest \in [Beast -> Fighter \cup {NoOne}] /\ W.band \subseteq Fighter
  BY WorldFields, Fields
<1>2. ASSUME NEW q \in Fighter
      PROVE  /\ forget(q) \in FighterState
             /\ forget(q).attacked = W.f[q].attacked \ {p}
             /\ forget(q).target = IF W.f[q].target = p THEN NoOne ELSE W.f[q].target
             /\ forget(q).damage = W.f[q].damage \ ids
             /\ forget(q).zone = W.f[q].zone /\ forget(q).skull = W.f[q].skull
             /\ forget(q).locked = W.f[q].locked /\ forget(q).fight = W.f[q].fight
             /\ forget(q).dying = W.f[q].dying
  <2> DEFINE a == W.f[q].attacked \ {p}  t == IF W.f[q].target = p THEN NoOne ELSE W.f[q].target
             d == W.f[q].damage \ ids
             g == [W.f[q] EXCEPT !.attacked = a, !.target = t, !.damage = d]
  <2>1. forget(q) = g
    BY <1>1 DEF FighterState
  <2>2. W.f[q] \in FighterState /\ a \subseteq Fighter /\ t \in Fighter \cup {NoOne}
        /\ d \subseteq Fighter \cup Beast
    BY <1>1, Fields
  <2> HIDE DEF a, t, d
  <2>3. g \in FighterState
    BY <2>2 DEF FighterState
  <2>4. /\ g.attacked = a /\ g.target = t /\ g.damage = d
        /\ g.zone = W.f[q].zone /\ g.skull = W.f[q].skull
        /\ g.locked = W.f[q].locked /\ g.fight = W.f[q].fight /\ g.dying = W.f[q].dying
    BY <2>2 DEF FighterState
  <2> HIDE DEF g, forget
  <2> QED BY <2>1, <2>3, <2>4 DEF a, t, d
<1>3. /\ away \in FighterState
      /\ away.zone = "away" /\ away.attacked = {} /\ away.skull \in {"none", "red"}
      /\ ~away.locked /\ away.target = NoOne /\ ~away.dying /\ away.damage = {}
  <2>1. W.f[p].fight \in BOOLEAN
    BY <1>1, Fields
  <2> QED BY <2>1 DEF Unmarked, FighterState
<1>4. R = [W EXCEPT !.f = F, !.latest = l, !.band = @ \ {p}]
  BY DEF SessionGone
<1> HIDE DEF forget, away
<1>5. F \in Fighters
  BY <1>2, <1>3 DEF Fighters
<1>6. l \in [Beast -> Fighter \cup {NoOne}]
  BY <1>1
<1> HIDE DEF l
<1>7. \A q \in Fighter : F[q] = IF q = p THEN away ELSE forget(q)
  OBVIOUS
<1> HIDE DEF F
<1>8. R \in Worlds /\ R.f = F /\ R.murders = W.murders /\ R.lossless = W.lossless
  BY <1>1, <1>4, <1>5, <1>6 DEF Worlds
<1> HIDE DEF R
<1>9. R.f[p] = away /\ \A q \in Fighter \ {p} : R.f[q] = forget(q)
  BY <1>7, <1>8
<1> QED BY <1>2, <1>3, <1>8, <1>9 DEF R

\* Who leaves is away, and what the others noted about him is forgotten.
LEMMA SessionGoneKept ==
  ASSUME NEW W, W \in Worlds, WellKept(W.f), NEW p \in Fighter
  PROVE  WellKept(SessionGone(W, p).f) /\ In(SessionGone(W, p).f) = In(W.f) \ {p}
<1> DEFINE F == W.f  G == SessionGone(W, p).f
<1>1. /\ \A q \in Fighter \ {p} :
              /\ G[q].attacked = F[q].attacked \ {p}
              /\ G[q].target = IF F[q].target = p THEN NoOne ELSE F[q].target
              /\ G[q].damage = F[q].damage \ ({p} \cup Beasts(p))
              /\ G[q].zone = F[q].zone /\ G[q].skull = F[q].skull
              /\ G[q].locked = F[q].locked /\ G[q].fight = F[q].fight
              /\ G[q].dying = F[q].dying
      /\ G[p].zone = "away" /\ G[p].attacked = {} /\ G[p].skull \in {"none", "red"}
      /\ ~G[p].locked /\ G[p].target = NoOne /\ ~G[p].dying /\ G[p].damage = {}
  BY SessionGoneFields
<1>2. G \in Fighters /\ F \in Fighters
  BY SessionGoneFields, WorldFields
<1> HIDE DEF F, G
<1>3. In(G) = In(F) \ {p}
  BY <1>1 DEF In
<1>4. WellMarked(G, p)
  <2>1. G[p].skull # "white"
    BY <1>1
  <2> QED BY <1>1, <2>1 DEF WellMarked
<1>5. ASSUME NEW q \in Fighter, q # p  PROVE WellMarked(G, q)
  <2>1. WellMarked(F, q) /\ F[q].target \in Fighter \cup {NoOne}
    BY <1>2, Fields DEF WellKept, F
  <2>2. ASSUME NEW x \in G[q].damage  PROVE PlayerOf(x) \in In(G) \cup {NoOne}
    <3>1. x \in F[q].damage /\ x # p /\ x \notin Beasts(p)
      BY <1>1, <1>5, <2>2
    <3>2. x \in Fighter \cup Beast
      BY <1>2, <3>1, Fields
    <3>3. PlayerOf(x) # p
      BY <3>1, <3>2, Responsible DEF Beasts
    <3> QED BY <1>3, <2>1, <3>1, <3>3 DEF WellMarked
  <2>3. G[q].attacked \subseteq In(G)
    BY <1>1, <1>3, <1>5, <2>1 DEF WellMarked
  <2>4. G[q].target # NoOne => /\ G[q].zone \notin {"away", "protection"}
                               /\ G[G[q].target].zone \notin {"away", "protection", "nopvp"}
    BY <1>1, <1>5, <2>1 DEF WellMarked
  <2>5. G[q].zone = "away" => /\ ~G[q].locked /\ G[q].attacked = {} /\ G[q].skull # "white"
                              /\ G[q].target = NoOne /\ ~G[q].dying /\ G[q].damage = {}
    BY <1>1, <1>5, <2>1 DEF WellMarked
  <2>6. G[q].skull = "white" \/ G[q].locked \/ G[q].attacked # {} => G[q].fight
    BY <1>1, <1>5, <2>1 DEF WellMarked
  <2> QED BY <2>2, <2>3, <2>4, <2>5, <2>6 DEF WellMarked
<1> QED BY <1>2, <1>3, <1>4, <1>5 DEF WellKept, F, G

\* What judging the killers K of player v does to the world: murders are counted, for a
\* victim that had been attacked and had not attacked, and a killer may be banned.
Judged(W, R, K, v) ==
  /\ In(R.f) \subseteq In(W.f) /\ In(W.f) \subseteq In(R.f) \cup (K \ {v})
  /\ \A q \in Fighter : /\ R.f[q].attacked \subseteq W.f[q].attacked
                        /\ R.f[q].damage \subseteq W.f[q].damage
  /\ W.f[v].attacked \subseteq R.f[v].attacked \cup K
  /\ \A q \in Fighter :
       \/ R.murders[q] = W.murders[q]
       \/ /\ q \in K /\ R.murders[q] = W.murders[q] + 1
          /\ v \in W.f[q].attacked /\ q \notin W.f[v].attacked

\* Player::addUnjustifiedDead counts one murder, and bans who has too many.
LEMMA MurderedKept ==
  ASSUME NEW W, Sound(W), NEW k \in Fighter, k \in In(W.f), NEW v \in Fighter,
         v \in W.f[k].attacked, k \notin W.f[v].attacked
  PROVE  Sound(Murdered(W, k)) /\ Judged(W, Murdered(W, k), {k}, v)
<1> DEFINE n == W.murders[k] + 1
           s == IF n >= RedLimit THEN "red" ELSE W.f[k].skull
           m == [W.murders EXCEPT ![k] = n]
           F == [W.f EXCEPT ![k].skull = s]
           C == [W EXCEPT !.murders = m, !.f = F]
           R == Murdered(W, k)
<1>1. /\ W \in Worlds /\ WellKept(W.f) /\ W.f \in Fighters /\ W.murders \in [Fighter -> Nat]
      /\ \A q \in In(W.f) : W.murders[q] < BanLimit
  BY WorldFields DEF Sound, Unbanned
<1>2. k # v
  BY Zenon
<1>3. /\ n \in Nat /\ m \in [Fighter -> Nat] /\ m[k] = W.murders[k] + 1
      /\ \A q \in Fighter \ {k} : m[q] = W.murders[q]
  BY <1>1
<1>4. /\ WellKept(F) /\ In(F) = In(W.f) /\ OnlyOf(W.f, F, k)
      /\ F[k].attacked = W.f[k].attacked /\ F[k].damage = W.f[k].damage
  <2>1. CASE n >= RedLimit
    <3>1. F = [W.f EXCEPT ![k].skull = "red"]
      BY <2>1
    <3>2. LET G == [W.f EXCEPT ![k].skull = "red"] IN
          /\ WellKept(G) /\ In(G) = In(W.f) /\ OnlyOf(W.f, G, k)
          /\ G[k].attacked = W.f[k].attacked /\ G[k].damage = W.f[k].damage
      BY <1>1, SkullKept
    <3> QED BY <3>1, <3>2
  <2>2. CASE ~(n >= RedLimit)
    <3>1. F = W.f
      BY <1>1, <2>2 DEF Fighters, FighterState
    <3> QED BY <1>1, <3>1 DEF OnlyOf
  <2> QED BY <2>1, <2>2
<1>5. \A q \in Fighter : F[q].attacked = W.f[q].attacked /\ F[q].damage = W.f[q].damage
  BY <1>4 DEF OnlyOf
<1>6. R = IF n >= BanLimit THEN SessionGone(C, k) ELSE C
  <2>1. C = [W EXCEPT !.murders[k] = n, !.f[k].skull = IF n >= RedLimit THEN "red" ELSE @]
    BY <1>1 DEF Worlds
  <2> QED BY <2>1 DEF Murdered
<1> HIDE DEF s, F
<1>7. F \in Fighters
  BY <1>4 DEF WellKept
<1> HIDE DEF m
<1>8. C \in Worlds /\ C.f = F /\ C.murders = m
  BY <1>1, <1>3, <1>7 DEF Worlds
<1> HIDE DEF C, R, n
<1>9. ASSUME NEW q \in Fighter
      PROVE  \/ m[q] = W.murders[q]
             \/ /\ q \in {k} /\ m[q] = W.murders[q] + 1
                /\ v \in W.f[q].attacked /\ q \notin W.f[v].attacked
  BY <1>3
<1>10. CASE n >= BanLimit
  <2>1. R = SessionGone(C, k)
    BY <1>6, <1>10
  <2>2. R \in Worlds /\ R.murders = m
    BY <1>8, <2>1, SessionGoneFields
  <2>3. WellKept(R.f) /\ In(R.f) = In(W.f) \ {k}
    BY <1>4, <1>8, <2>1, SessionGoneKept
  <2>4. /\ \A q \in Fighter \ {k} : /\ R.f[q].attacked = F[q].attacked \ {k}
                                    /\ R.f[q].damage = F[q].damage \ ({k} \cup Beasts(k))
        /\ R.f[k].attacked = {} /\ R.f[k].damage = {}
    BY <1>8, <2>1, SessionGoneFields, SMTT(30)
  <2>5. Unbanned(R.f, R.murders)
    BY <1>1, <1>3, <2>2, <2>3 DEF Unbanned, In
  <2>6. Judged(W, R, {k}, v)
    <3>1. In(R.f) \subseteq In(W.f) /\ In(W.f) \subseteq In(R.f) \cup ({k} \ {v})
      BY <1>2, <2>3
    <3>2. \A q \in Fighter : R.f[q].attacked \subseteq W.f[q].attacked /\ R.f[q].damage \subseteq W.f[q].damage
      BY <1>5, <2>4
    <3>3. W.f[v].attacked \subseteq R.f[v].attacked \cup {k}
      BY <1>2, <1>5, <2>4
    <3> QED BY <1>9, <2>2, <3>1, <3>2, <3>3 DEF Judged
  <2> QED BY <2>2, <2>3, <2>5, <2>6 DEF Sound, R
<1>11. CASE ~(n >= BanLimit)
  <2>1. R = C
    BY <1>6, <1>11
  <2>2. Unbanned(F, m)
    <3>1. BanLimit \in Nat
      BY FightsAssumption
    <3>2. m[k] < BanLimit
      BY <1>3, <1>11, <3>1 DEF n
    <3> QED BY <1>1, <1>3, <1>4, <3>2 DEF Unbanned, In
  <2>3. Judged(W, R, {k}, v)
    <3>1. R.f = F /\ R.murders = m
      BY <1>8, <2>1
    <3> QED BY <1>4, <1>5, <1>9, <3>1 DEF Judged
  <2> QED BY <1>4, <1>8, <2>1, <2>2, <2>3 DEF Sound, R
<1> QED BY <1>10, <1>11

\* Judging nobody changes nothing.
LEMMA Unjudged ==
  ASSUME NEW W, NEW R, Sound(W), NEW K, NEW v \in Fighter, R \in Worlds, R.f = W.f, R.murders = W.murders
  PROVE  Sound(R) /\ Judged(W, R, K, v)
BY DEF Sound, Unbanned, Judged

\* Player::onKilledCreature
LEMMA KilledByPlayerKept ==
  ASSUME NEW W, Sound(W), NEW k \in Fighter, k \in In(W.f), NEW v \in Fighter, NEW last \in BOOLEAN
  PROVE  Sound(KilledByPlayer(W, k, v, last)) /\ Judged(W, KilledByPlayer(W, k, v, last), {k}, v)
<1> DEFINE unjustified == /\ ~Partners(k, v) /\ W.f[v].skull = "none"
                          /\ v \in W.f[k].attacked /\ k \notin W.f[v].attacked
           J == IF W.f[v].zone = "pvp" THEN [W EXCEPT !.lossless = TRUE]
                ELSE IF unjustified THEN Murdered(W, k) ELSE W
           F == [J.f EXCEPT ![k].locked = TRUE]
           L == [J EXCEPT !.f[k].locked = TRUE]
           R == KilledByPlayer(W, k, v, last)
<1>1. W \in Worlds /\ WellKept(W.f)
  BY DEF Sound
<1>2. Sound(J) /\ Judged(W, J, {k}, v)
  <2>1. CASE W.f[v].zone = "pvp"
    <3>1. J \in Worlds /\ J.f = W.f /\ J.murders = W.murders
      BY <1>1, <2>1 DEF Worlds
    <3> QED BY <3>1, Unjudged
  <2>2. CASE W.f[v].zone # "pvp" /\ unjustified
    BY <2>2, MurderedKept
  <2>3. CASE W.f[v].zone # "pvp" /\ ~unjustified
    <3>1. J = W
      BY <2>3
    <3> QED BY <1>1, <3>1, Unjudged
  <2> QED BY <2>1, <2>2, <2>3
<1>3. R = IF last /\ J.f[k].zone # "away" /\ J.f[k].fight THEN L ELSE J
  BY DEF KilledByPlayer
<1> HIDE DEF J
<1>4. CASE last /\ J.f[k].zone # "away" /\ J.f[k].fight
  <2>1. J \in Worlds /\ WellKept(J.f) /\ J.f \in Fighters /\ k \in In(J.f)
    BY <1>2, <1>4, WorldFields DEF Sound, In
  <2>2. /\ WellKept(F) /\ In(F) = In(J.f) /\ OnlyOf(J.f, F, k)
        /\ F[k].attacked = J.f[k].attacked /\ F[k].damage = J.f[k].damage
    BY <1>4, <2>1, LockedKept
  <2>3. L = [J EXCEPT !.f = F]
    BY <2>1 DEF Worlds
  <2> HIDE DEF F, L
  <2>4. L \in Worlds /\ L.f = F /\ L.murders = J.murders
    BY <2>1, <2>2, <2>3, WorldWith DEF WellKept
  <2>5. \A q \in Fighter : F[q].attacked = J.f[q].attacked /\ F[q].damage = J.f[q].damage
    BY <2>2 DEF OnlyOf
  <2>6. Sound(L)
    BY <1>2, <2>2, <2>4 DEF Sound, Unbanned
  <2>7. Judged(W, L, {k}, v)
    BY <1>2, <2>2, <2>4, <2>5 DEF Judged
  <2> QED BY <1>3, <1>4, <2>6, <2>7
<1>5. CASE ~(last /\ J.f[k].zone # "away" /\ J.f[k].fight)
  <2>1. R = J
    BY <1>3, <1>5
  <2> QED BY <1>2, <2>1
<1> QED BY <1>4, <1>5

\* Creature::onKilledCreature: who is judged is a player who did damage, or whose
\* summon did, and nobody else.
LEMMA KilledKept ==
  ASSUME NEW W, Sound(W), NEW v \in Fighter, NEW x \in W.f[v].damage \cup {NoOne}, NEW last \in BOOLEAN
  PROVE  Sound(Killed(W, x, v, last)) /\ Judged(W, Killed(W, x, v, last), {PlayerOf(x)}, v)
<1> DEFINE l == [W.latest EXCEPT ![x] = v]
           N == [W EXCEPT !.latest[x] = v]
           R == Killed(W, x, v, last)
<1>1. W \in Worlds /\ WellKept(W.f) /\ W.f \in Fighters /\ WellMarked(W.f, v)
  BY WorldFields DEF Sound, WellKept
<1>2. x \in Fighter \cup Beast \cup {NoOne}
  BY <1>1, Fields
<1>3. x # NoOne => PlayerOf(x) \in In(W.f) \cup {NoOne}
  BY <1>1 DEF WellMarked
<1>4. CASE x \in Fighter
  <2>1. PlayerOf(x) = x /\ x \in In(W.f)
    BY <1>3, <1>4, Responsible
  <2>2. R = KilledByPlayer(W, x, v, last)
    BY <1>4 DEF Killed
  <2> QED BY <1>4, <2>1, <2>2, KilledByPlayerKept
<1>5. CASE x \notin Fighter /\ (x = NoOne \/ W.latest[x] = v)
  <2>1. R = W
    BY <1>5 DEF Killed
  <2> QED BY <1>1, <2>1, Unjudged
<1>6. CASE x \notin Fighter /\ x # NoOne /\ W.latest[x] # v
  <2>1. x \in Beast /\ PlayerOf(x) = Owner[x] /\ Owner[x] \in In(W.f) \cup {NoOne}
    BY <1>2, <1>3, <1>6, Responsible
  <2>2. N \in Worlds /\ N.f = W.f /\ N.murders = W.murders
    <3>1. N = [W EXCEPT !.latest = l]
      BY <1>1 DEF Worlds
    <3>2. l \in [Beast -> Fighter \cup {NoOne}]
      BY <1>1, WorldFields
    <3> HIDE DEF l
    <3> QED BY <1>1, <3>1, <3>2 DEF Worlds
  <2>3. Sound(N)
    BY <2>2, Unjudged
  <2>4. R = IF Owner[x] = NoOne THEN N ELSE KilledByPlayer(N, Owner[x], v, TRUE)
    BY <1>6 DEF Killed
  <2> HIDE DEF N
  <2>5. CASE Owner[x] = NoOne
    BY <2>2, <2>4, <2>5, Unjudged
  <2>6. CASE Owner[x] # NoOne
    <3>1. Owner[x] \in Fighter /\ Owner[x] \in In(N.f)
      BY <2>1, <2>2, <2>6 DEF In
    <3>2. R = KilledByPlayer(N, Owner[x], v, TRUE)
      BY <2>4, <2>6
    <3>3. Sound(R) /\ Judged(N, R, {Owner[x]}, v)
      BY <2>3, <3>1, <3>2, KilledByPlayerKept
    <3>4. Judged(W, R, {Owner[x]}, v)
      BY <2>2, <3>3 DEF Judged
    <3> QED BY <2>1, <3>3, <3>4
  <2> QED BY <2>5, <2>6
<1> QED BY <1>4, <1>5, <1>6

\* Player::death: the victim is removed, or in the temple, or left where he is.
LEMMA RebornKept ==
  ASSUME NEW W, Sound(W), NEW v \in Fighter, v \in In(W.f), NEW last
  PROVE  LET R == Reborn(W, v, last) IN
         Sound(R) /\ R.murders = W.murders
<1> DEFINE alive == [W.f EXCEPT ![v].dying = FALSE]
           healed == Calmed(alive, v)
           arena == W.f[v].zone = "pvp" /\ last # NoOne /\ PlayerOf(last) # NoOne
           entered == Entered(healed, v, "protection")
           idle == [entered EXCEPT ![v].target = NoOne]
           home == Untargeted(idle, {v})
           C(F) == [W EXCEPT !.f = F]
           R == Reborn(W, v, last)
<1>1. W \in Worlds /\ WellKept(W.f)
  BY DEF Sound
<1>2. WellKept(alive) /\ In(alive) = In(W.f)
  BY <1>1, DyingKept
<1> HIDE DEF alive
<1>3. WellKept(healed) /\ In(healed) = In(W.f)
  BY <1>2, CalmedKept
<1> HIDE DEF healed
<1>4. WellKept(entered) /\ In(entered) = In(W.f)
  BY <1>3, EnteredKept DEF Zones
<1> HIDE DEF entered
<1>5. WellKept(idle) /\ In(idle) = In(W.f)
  BY <1>4, TargetKept
<1> HIDE DEF idle
<1>6. WellKept(home) /\ In(home) = In(W.f)
  BY <1>5, UntargetedKept
<1> HIDE DEF home
<1>7. ASSUME NEW F, WellKept(F), In(F) = In(W.f)
      PROVE  Sound(C(F)) /\ C(F).murders = W.murders /\ C(F).f = F
  <2>1. C(F) \in Worlds /\ C(F).murders = W.murders /\ C(F).f = F
    BY <1>1, <1>7, WorldWith DEF WellKept
  <2> HIDE DEF C
  <2> QED BY <1>7, <2>1 DEF Sound, Unbanned
<1>8. R = IF ~arena THEN SessionGone(C(healed), v) ELSE IF W.lossless THEN C(home) ELSE C(healed)
  BY DEF Reborn, home, idle, entered, healed, alive
<1> HIDE DEF C, R, arena
<1>9. CASE ~arena
  <2>1. R = SessionGone(C(healed), v)
    BY <1>8, <1>9
  <2>2. Sound(C(healed)) /\ C(healed).murders = W.murders
    BY <1>3, <1>7
  <2>3. R \in Worlds /\ R.murders = W.murders
    BY <2>1, <2>2, SessionGoneFields DEF Sound
  <2>4. WellKept(R.f) /\ In(R.f) = In(C(healed).f) \ {v}
    BY <2>1, <2>2, SessionGoneKept DEF Sound
  <2>5. Unbanned(R.f, R.murders)
    BY <2>2, <2>3, <2>4 DEF Sound, Unbanned, In
  <2> QED BY <2>3, <2>4, <2>5 DEF Sound, R
<1>10. CASE arena
  BY <1>3, <1>6, <1>7, <1>8, <1>10 DEF R
<1> QED BY <1>9, <1>10

-----------------------------------------------------------------------------
\* The inductive invariant
IInv ==
  /\ WellKept(fighter) /\ Unbanned(fighter, murders)
  /\ murders \in [Fighter -> Nat]
  /\ latest \in [Beast -> Fighter \cup {NoOne}]
  /\ band \subseteq Fighter
  /\ zones \subseteq Zones

\* The state as a world, and a world as the next state.
LEMMA EverythingSound ==
  IInv => /\ Sound(Everything) /\ Everything.f = fighter /\ Everything.murders = murders
          /\ In(fighter) = Playing
BY DEF IInv, Sound, Worlds, Everything, WellKept, In, Playing

\* A sound world as the next state keeps the invariant.
LEMMA BecomeKept ==
  ASSUME IInv, NEW W, Sound(W), Become(W)
  PROVE  IInv'
<1>1. /\ W.f \in Fighters /\ W.murders \in [Fighter -> Nat]
      /\ W.latest \in [Beast -> Fighter \cup {NoOne}] /\ W.band \subseteq Fighter
      /\ WellKept(W.f) /\ Unbanned(W.f, W.murders)
  BY WorldFields DEF Sound
<1>2. fighter' = W.f /\ murders' = W.murders /\ latest' = W.latest /\ band' = W.band /\ zones' = zones
  BY DEF Become
<1> QED BY <1>1, <1>2 DEF IInv, WellKept, WellMarked, Unbanned, In, Fighters, FighterState, Zones

\* An action that changes only the players' records, and lets nobody in.
LEMMA OnlyRecords ==
  ASSUME IInv, NEW F, WellKept(F), In(F) = In(fighter), fighter' = F,
         UNCHANGED <<murders, latest, band, zones>>
  PROVE  IInv'
<1>1. Sound([Everything EXCEPT !.f = F]) /\ Become([Everything EXCEPT !.f = F])
  <2>1. Everything \in Worlds /\ Unbanned(fighter, murders) /\ F \in Fighters
    BY EverythingSound DEF IInv, Sound, WellKept
  <2>2. LET R == [Everything EXCEPT !.f = F] IN
        R \in Worlds /\ R.f = F /\ R.murders = murders /\ R.latest = latest /\ R.band = band
    BY <2>1, WorldWith DEF Everything
  <2> QED BY <2>1, <2>2 DEF Sound, Unbanned, Become
<1> QED BY <1>1, BecomeKept

\* The one with the last hit and the one who did most are not judged both when the same
\* player is behind them.
LEMMA DifferentKillers ==
  ASSUME NEW l \in Fighter \cup Beast \cup {NoOne}, NEW d \in Fighter \cup Beast \cup {NoOne},
         AlsoKilled(l, d), PlayerOf(l) # NoOne
  PROVE  PlayerOf(d) # PlayerOf(l)
<1>1. PlayerOf(NoOne) = NoOne /\ MasterOf(NoOne) = NoOne
  BY Responsible DEF PlayerOf, MasterOf
<1> QED BY <1>1, Responsible, FightsAssumption DEF AlsoKilled

\* The murders of a death: one of each killer at most, each with his own hand in it.
FairlyJudged(v) ==
  \A k \in Fighter :
    \/ murders'[k] = murders[k]
    \/ /\ murders'[k] = murders[k] + 1
       /\ v \in fighter[k].attacked /\ k \notin fighter[v].attacked
       /\ ({k} \cup Beasts(k)) \cap fighter[v].damage # {}

\* Creature::onDeath keeps the invariant and judges fairly.
LEMMA OnDeathKept ==
  ASSUME IInv, NEW v \in Fighter, OnDeath(v)
  PROVE  IInv' /\ FairlyJudged(v)
<1>1. /\ Sound(Everything) /\ Everything.f = fighter /\ Everything.murders = murders
      /\ v \in In(fighter) /\ fighter \in Fighters
  BY EverythingSound DEF OnDeath, IInv, WellKept
<1>2. PICK last \in fighter[v].damage \cup {NoOne} :
        LET byLast == Killed(Everything, last, v, TRUE)
        IN \E most \in byLast.f[v].damage \cup {NoOne} :
             LET judged == IF AlsoKilled(last, most) THEN Killed(byLast, most, v, FALSE) ELSE byLast
             IN  Become(Reborn(judged, v, last))
  BY DEF OnDeath
<1> DEFINE B == Killed(Everything, last, v, TRUE)
<1>3. PICK most \in B.f[v].damage \cup {NoOne} :
        Become(Reborn(IF AlsoKilled(last, most) THEN Killed(B, most, v, FALSE) ELSE B, v, last))
  BY <1>2
<1> DEFINE J == IF AlsoKilled(last, most) THEN Killed(B, most, v, FALSE) ELSE B
           K1 == {PlayerOf(last)}
           K2 == {PlayerOf(most)}
<1>4. Sound(B) /\ Judged(Everything, B, K1, v)
  BY <1>1, KilledKept
<1> HIDE DEF B
<1>5. /\ In(B.f) \subseteq In(fighter) /\ v \in In(B.f)
      /\ \A q \in Fighter : /\ B.f[q].attacked \subseteq fighter[q].attacked
                            /\ B.f[q].damage \subseteq fighter[q].damage
      /\ fighter[v].attacked \subseteq B.f[v].attacked \cup K1
      /\ \A q \in Fighter :
           \/ B.murders[q] = murders[q]
           \/ /\ q \in K1 /\ B.murders[q] = murders[q] + 1
              /\ v \in fighter[q].attacked /\ q \notin fighter[v].attacked
  BY <1>1, <1>4 DEF Judged
<1>6. /\ Sound(J) /\ v \in In(J.f)
      /\ AlsoKilled(last, most) => Judged(B, J, K2, v)
  <2>1. CASE AlsoKilled(last, most)
    <3>1. J = Killed(B, most, v, FALSE)
      BY <2>1
    <3> HIDE DEF J
    <3>2. Sound(J) /\ Judged(B, J, K2, v)
      BY <1>4, <3>1, KilledKept
    <3>3. v \in In(J.f)
      BY <1>5, <3>2 DEF Judged
    <3> QED BY <3>2, <3>3
  <2>2. CASE ~AlsoKilled(last, most)
    BY <1>4, <1>5, <2>2
  <2> QED BY <2>1, <2>2
<1>7. ~AlsoKilled(last, most) => J = B
  OBVIOUS
<1>8. Become(Reborn(J, v, last))
  BY <1>3
<1> HIDE DEF J
<1>9. Sound(Reborn(J, v, last)) /\ Reborn(J, v, last).murders = J.murders
  BY <1>6, RebornKept
<1>10. IInv' /\ murders' = J.murders
  BY <1>8, <1>9, BecomeKept DEF Become
<1>11. /\ last \in Fighter \cup Beast \cup {NoOne} /\ most \in Fighter \cup Beast \cup {NoOne}
       /\ most # NoOne => most \in fighter[v].damage
  <2>1. fighter[v].damage \subseteq Fighter \cup Beast
    BY <1>1, Fields
  <2>2. most # NoOne => most \in fighter[v].damage
    BY <1>3, <1>5
  <2> QED BY <1>2, <2>1, <2>2
<1>12. ASSUME NEW k \in Fighter, NEW x \in {last, most}, k = PlayerOf(x)
       PROVE  ({k} \cup Beasts(k)) \cap fighter[v].damage # {}
  <2>1. PlayerOf(NoOne) = NoOne /\ k # NoOne
    BY Responsible DEF PlayerOf
  <2>2. x \in fighter[v].damage /\ x \in Fighter \cup Beast
    BY <1>2, <1>11, <1>12, <2>1
  <2>3. x \in {k} \cup Beasts(k)
    BY <1>12, <2>2, Responsible DEF Beasts
  <2> QED BY <2>2, <2>3
<1>13. ASSUME NEW k \in Fighter
       PROVE  \/ J.murders[k] = murders[k]
              \/ /\ J.murders[k] = murders[k] + 1
                 /\ v \in fighter[k].attacked /\ k \notin fighter[v].attacked
                 /\ ({k} \cup Beasts(k)) \cap fighter[v].damage # {}
  <2>1. CASE J.murders[k] = B.murders[k]
    BY <1>5, <1>12, <2>1
  <2>2. CASE J.murders[k] # B.murders[k]
    <3>1. /\ AlsoKilled(last, most) /\ k = PlayerOf(most) /\ J.murders[k] = B.murders[k] + 1
          /\ v \in B.f[k].attacked /\ k \notin B.f[v].attacked
      BY <1>6, <1>7, <2>2 DEF Judged
    <3>2. k \notin K1
      <4>1. k # NoOne
        BY Responsible
      <4> QED BY <1>11, <3>1, <4>1, DifferentKillers
    <3>3. B.murders[k] = murders[k] /\ v \in fighter[k].attacked /\ k \notin fighter[v].attacked
      BY <1>5, <3>1, <3>2
    <3> QED BY <1>12, <3>1, <3>3
  <2> QED BY <2>1, <2>2
<1> QED BY <1>10, <1>13 DEF FairlyJudged

-----------------------------------------------------------------------------
\* Who has a target is in the game, and so is the target.
LEMMA TargetsPlay ==
  ASSUME NEW F, WellKept(F), NEW p \in Fighter, F[p].target # NoOne
  PROVE  p \in In(F) /\ F[p].target \in Fighter /\ F[p].target \in In(F)
<1>1. WellMarked(F, p) /\ F[p].target \in Fighter \cup {NoOne}
  BY Fields DEF WellKept
<1> QED BY <1>1 DEF WellMarked, In

\* Attacks that do not hit: a target is chosen, dropped or swung at.
LEMMA AimsKept ==
  ASSUME IInv, NEW p \in Fighter, NEW v \in Fighter, SetTarget(p, v) \/ DropTarget(p) \/ Swing(p)
  PROVE  IInv'
<1>1. WellKept(fighter)
  BY DEF IInv
<1>2. CASE SetTarget(p, v)
  <2> DEFINE F == [fighter EXCEPT ![p].target = v]
  <2>1. /\ p \in In(fighter) /\ v \in In(fighter)
        /\ fighter[p].zone \notin {"away", "protection"}
        /\ fighter[v].zone \notin {"away", "protection", "nopvp"}
    BY <1>2 DEF SetTarget, CanTarget, Playing, In
  <2>2. WellKept(F) /\ In(F) = In(fighter)
    BY <1>1, <2>1, TargetKept
  <2>3. fighter' = BlockHit(F, p, v) /\ UNCHANGED <<murders, latest, band, zones>>
    BY <1>2 DEF SetTarget
  <2> HIDE DEF F
  <2>4. WellKept(BlockHit(F, p, v)) /\ In(BlockHit(F, p, v)) = In(fighter)
    BY <2>1, <2>2, BlockHitKept, Responsible
  <2> QED BY <2>3, <2>4, OnlyRecords
<1>3. CASE DropTarget(p)
  <2> DEFINE F == [fighter EXCEPT ![p].target = NoOne]
  <2>1. WellKept(F) /\ In(F) = In(fighter)
    BY <1>1, TargetKept
  <2>2. fighter' = F /\ UNCHANGED <<murders, latest, band, zones>>
    BY <1>3 DEF DropTarget
  <2> HIDE DEF F
  <2> QED BY <2>1, <2>2, OnlyRecords
<1>4. CASE Swing(p)
  <2> DEFINE t == fighter[p].target
             F == InFight(fighter, p)
             G == InFight(F, t)
  <2>1. p \in In(fighter) /\ t \in Fighter /\ t \in In(fighter)
    BY <1>1, <1>4, TargetsPlay DEF Swing
  <2>2. fighter' = G /\ UNCHANGED <<murders, latest, band, zones>>
    BY <1>4 DEF Swing
  <2> HIDE DEF t, G
  <2>3. WellKept(F) /\ In(F) = In(fighter)
    BY <1>1, <2>1, InFightKept DEF In
  <2> HIDE DEF F
  <2>4. WellKept(G) /\ In(G) = In(fighter)
    BY <2>1, <2>3, InFightKept DEF In, G
  <2> QED BY <2>2, <2>4, OnlyRecords
<1> QED BY <1>2, <1>3, <1>4

\* Attacks that hit: of a player, his summon, a condition, a monster or a field.
LEMMA BlowsKept ==
  ASSUME IInv, NEW x \in Fighter \cup Beast, NEW v \in Fighter, NEW fatal \in BOOLEAN, NEW reflected,
         Parried(x, v) \/ Strike(x, v, fatal, reflected) \/ ConditionTick(v, x, fatal)
           \/ Mauled(x, v, fatal)
  PROVE  IInv'
<1> DEFINE p == PlayerOf(x)
<1>1. WellKept(fighter) /\ Playing = In(fighter)
  BY EverythingSound DEF IInv
<1>2. ASSUME NEW F, WellKept(F), In(F) = In(fighter), v \in In(fighter), p \in In(fighter) \cup {NoOne}
      PROVE  /\ WellKept(BlockHit(F, x, v)) /\ In(BlockHit(F, x, v)) = In(fighter)
             /\ WellKept(Harmed(BlockHit(F, x, v), x, v, fatal))
             /\ In(Harmed(BlockHit(F, x, v), x, v, fatal)) = In(fighter)
  <2>1. WellKept(BlockHit(F, x, v)) /\ In(BlockHit(F, x, v)) = In(fighter)
    BY <1>2, BlockHitKept
  <2> QED BY <1>2, <2>1, HarmedKept
<1>3. CASE Parried(x, v)
  <2>1. p \in In(fighter) /\ v \in In(fighter)
    BY <1>1, <1>3, TargetsPlay DEF Parried, Playing
  <2>2. fighter' = BlockHit(fighter, x, v) /\ UNCHANGED <<murders, latest, band, zones>>
    BY <1>3 DEF Parried
  <2> QED BY <1>1, <1>2, <2>1, <2>2, OnlyRecords
<1>4. CASE Strike(x, v, fatal, reflected)
  <2> DEFINE swung == IF x \in Fighter THEN InFight(InFight(fighter, p), v) ELSE fighter
             hit == Harmed(BlockHit(swung, x, v), x, v, fatal)
             back == IF reflected # "no" /\ x \in Fighter
                     THEN Harmed(hit, v, p, reflected = "fatal") ELSE hit
  <2>1. p \in Fighter /\ p \in In(fighter) /\ v \in In(fighter)
    BY <1>1, <1>4, TargetsPlay DEF Strike, Playing
  <2>2. fighter' = back /\ UNCHANGED <<murders, latest, band, zones>>
    BY <1>4 DEF Strike
  <2>3. WellKept(swung) /\ In(swung) = In(fighter)
    <3>1. WellKept(InFight(fighter, p)) /\ In(InFight(fighter, p)) = In(fighter)
      BY <1>1, <2>1, InFightKept DEF In
    <3>2. WellKept(InFight(InFight(fighter, p), v))
          /\ In(InFight(InFight(fighter, p), v)) = In(fighter)
      BY <2>1, <3>1, InFightKept DEF In
    <3> QED BY <1>1, <3>2
  <2> HIDE DEF swung
  <2>4. WellKept(hit) /\ In(hit) = In(fighter)
    BY <1>2, <2>1, <2>3
  <2> HIDE DEF hit
  <2>5. WellKept(back) /\ In(back) = In(fighter)
    <3> DEFINE d == reflected = "fatal"
    <3>1. d \in BOOLEAN /\ PlayerOf(v) \in In(hit) /\ p \in In(hit)
      BY <2>1, <2>4, Responsible
    <3>2. back = IF reflected # "no" /\ x \in Fighter THEN Harmed(hit, v, p, d) ELSE hit
      OBVIOUS
    <3> HIDE DEF d, p, back
    <3>3. WellKept(Harmed(hit, v, p, d)) /\ In(Harmed(hit, v, p, d)) = In(hit)
      BY <2>1, <2>4, <3>1, HarmedKept
    <3> QED BY <2>4, <3>2, <3>3
  <2> HIDE DEF back
  <2> QED BY <2>2, <2>5, OnlyRecords
<1>5. CASE ConditionTick(v, x, fatal)
  <2>1. v \in In(fighter) /\ x \in fighter[v].damage /\ WellMarked(fighter, v)
    BY <1>1, <1>5 DEF ConditionTick, WellKept
  <2>2. p \in In(fighter) \cup {NoOne}
    BY <2>1 DEF WellMarked
  <2>3. fighter' = Harmed(BlockHit(fighter, x, v), x, v, fatal) /\ UNCHANGED <<murders, latest, band, zones>>
    BY <1>5 DEF ConditionTick
  <2> QED BY <1>1, <1>2, <2>1, <2>2, <2>3, OnlyRecords
<1>6. CASE Mauled(x, v, fatal)
  <2>1. v \in In(fighter) /\ p = NoOne
    BY <1>1, <1>6, Responsible DEF Mauled
  <2>2. WellKept(InFight(fighter, v)) /\ In(InFight(fighter, v)) = In(fighter)
    BY <1>1, <2>1, InFightKept DEF In
  <2>3. WellKept(Harmed(InFight(fighter, v), x, v, fatal))
        /\ In(Harmed(InFight(fighter, v), x, v, fatal)) = In(fighter)
    BY <2>1, <2>2, HarmedKept
  <2>4. fighter' = Harmed(InFight(fighter, v), x, v, fatal) /\ UNCHANGED <<murders, latest, band, zones>>
    BY <1>6 DEF Mauled
  <2> QED BY <2>3, <2>4, OnlyRecords
<1> QED BY <1>3, <1>4, <1>5, <1>6

\* A player dies of nobody's blow, calms down, or loses his red skull.
LEMMA MarksKept ==
  ASSUME IInv, NEW p \in Fighter, Scathed(p) \/ FightEnds(p) \/ RedEnds(p)
  PROVE  IInv'
<1>1. WellKept(fighter) /\ Playing = In(fighter)
  BY EverythingSound DEF IInv
<1>2. CASE Scathed(p)
  <2> DEFINE F == InFight(fighter, p)  G == [F EXCEPT ![p].dying = TRUE]
  <2>1. WellKept(F) /\ In(F) = In(fighter) /\ p \in In(F)
    BY <1>1, <1>2, InFightKept DEF In, Scathed
  <2>2. fighter' = G /\ UNCHANGED <<murders, latest, band, zones>>
    BY <1>2 DEF Scathed
  <2> HIDE DEF F
  <2>3. WellKept(G) /\ In(G) = In(fighter)
    BY <2>1, DyingKept
  <2> HIDE DEF G
  <2> QED BY <2>2, <2>3, OnlyRecords
<1>3. CASE FightEnds(p)
  <2>1. fighter' = Calmed(fighter, p) /\ UNCHANGED <<murders, latest, band, zones>>
    BY <1>3 DEF FightEnds
  <2>2. WellKept(Calmed(fighter, p)) /\ In(Calmed(fighter, p)) = In(fighter)
    BY <1>1, CalmedKept
  <2> QED BY <2>1, <2>2, OnlyRecords
<1>4. CASE RedEnds(p)
  <2> DEFINE G == [fighter EXCEPT ![p].skull = "none"]
  <2>1. fighter' = G /\ UNCHANGED <<murders, latest, band, zones>>
    BY <1>4 DEF RedEnds
  <2>2. WellKept(G) /\ In(G) = In(fighter)
    BY <1>1, SkullKept
  <2> HIDE DEF G
  <2> QED BY <2>1, <2>2, OnlyRecords
<1> QED BY <1>2, <1>3, <1>4

\* Walking, entering and leaving the game, the party, and murders that are forgotten.
LEMMA MovesKept ==
  ASSUME IInv, NEW p \in Fighter,
         \/ Forgotten(p) \/ Depart(p) \/ JoinBand(p) \/ LeaveBand(p)
         \/ \E z \in zones : WalkInto(p, z) \/ Arrive(p, z)
  PROVE  IInv'
<1>1. /\ WellKept(fighter) /\ Playing = In(fighter) /\ fighter \in Fighters
      /\ murders \in [Fighter -> Nat] /\ zones \subseteq Zones /\ Unbanned(fighter, murders)
      /\ latest \in [Beast -> Fighter \cup {NoOne}] /\ band \subseteq Fighter
  BY EverythingSound DEF IInv, WellKept
<1>2. CASE Forgotten(p)
  <2>1. /\ murders' = [murders EXCEPT ![p] = @ - 1] /\ murders[p] > 0 /\ murders[p] \in Nat
        /\ UNCHANGED <<fighter, latest, band, zones>>
    BY <1>1, <1>2 DEF Forgotten
  <2>2. murders' \in [Fighter -> Nat]
    BY <1>1, <2>1
  <2>3. Unbanned(fighter, murders')
    <3> SUFFICES ASSUME NEW q \in In(fighter)  PROVE murders'[q] < BanLimit
      BY DEF Unbanned
    <3>1. q \in Fighter /\ murders[q] \in Nat /\ murders[q] < BanLimit /\ BanLimit \in Nat
      BY <1>1, FightsAssumption DEF In, Unbanned
    <3> QED BY <1>1, <2>1, <3>1
  <2> QED
    BY <1>1, <2>1, <2>2, <2>3
    DEF IInv, WellKept, WellMarked, Unbanned, In, Fighters, FighterState, Zones
<1>3. CASE Depart(p)
  <2>1. Become(SessionGone(Everything, p))
    BY <1>3 DEF Depart
  <2>2. Sound(Everything) /\ Everything.murders = murders /\ Everything.f = fighter
    BY EverythingSound
  <2>3. /\ SessionGone(Everything, p) \in Worlds /\ SessionGone(Everything, p).murders = murders
        /\ WellKept(SessionGone(Everything, p).f)
        /\ In(SessionGone(Everything, p).f) = In(fighter) \ {p}
    <3>1. Everything \in Worlds /\ WellKept(Everything.f)
      BY <2>2 DEF Sound
    <3>2. SessionGone(Everything, p) \in Worlds
          /\ SessionGone(Everything, p).murders = Everything.murders
      BY <3>1, SessionGoneFields
    <3>3. WellKept(SessionGone(Everything, p).f)
          /\ In(SessionGone(Everything, p).f) = In(Everything.f) \ {p}
      BY <3>1, SessionGoneKept
    <3> QED BY <2>2, <3>2, <3>3
  <2>4. Sound(SessionGone(Everything, p))
    BY <1>1, <2>3 DEF Sound, Unbanned
  <2> QED BY <2>1, <2>4, BecomeKept
<1>4. CASE JoinBand(p) \/ LeaveBand(p)
  <2>1. band' \subseteq Fighter /\ UNCHANGED <<fighter, murders, latest, zones>>
    BY <1>1, <1>4 DEF JoinBand, LeaveBand
  <2> QED
    BY <1>1, <2>1 DEF IInv, WellKept, WellMarked, Unbanned, In, Fighters, FighterState, Zones
<1>5. ASSUME NEW z \in zones, WalkInto(p, z)
      PROVE  IInv'
  <2>1. fighter' = Entered(fighter, p, z) /\ UNCHANGED <<murders, latest, band, zones>>
        /\ p \in In(fighter) /\ z \in Zones
    BY <1>1, <1>5 DEF WalkInto
  <2>2. WellKept(Entered(fighter, p, z)) /\ In(Entered(fighter, p, z)) = In(fighter)
    BY <1>1, <2>1, EnteredKept
  <2> QED BY <2>1, <2>2, OnlyRecords
<1>6. ASSUME NEW z \in zones, Arrive(p, z)
      PROVE  IInv'
  <2> DEFINE r == [fighter[p] EXCEPT !.zone = z]  F == [fighter EXCEPT ![p] = r]
  <2>1. /\ fighter' = F /\ murders[p] < BanLimit /\ z \in Zones /\ z # "away"
        /\ UNCHANGED <<murders, latest, band, zones>> /\ fighter[p].zone = "away"
    BY <1>1, <1>6 DEF Arrive, Zones, Playing
  <2>2. fighter[p] \in FighterState /\ WellMarked(fighter, p)
    BY <1>1, Fields DEF WellKept
  <2>3. /\ r \in FighterState /\ r.zone = z
        /\ r.target = fighter[p].target /\ r.attacked = fighter[p].attacked
        /\ r.skull = fighter[p].skull /\ r.locked = fighter[p].locked
        /\ r.dying = fighter[p].dying /\ r.fight = fighter[p].fight /\ r.damage = fighter[p].damage
    BY <2>1, <2>2 DEF FighterState
  <2> HIDE DEF r
  <2>4. F \in Fighters /\ F[p] = r /\ \A q \in Fighter \ {p} : F[q] = fighter[q]
    BY <1>1, <2>3 DEF Fighters
  <2> HIDE DEF F
  <2>5. In(F) = In(fighter) \cup {p}
    BY <2>1, <2>3, <2>4 DEF In
  <2>6. WellMarked(F, p)
    BY <2>1, <2>2, <2>3, <2>4, <2>5 DEF WellMarked
  <2>7. ASSUME NEW q \in Fighter, q # p  PROVE WellMarked(F, q)
    <3>1. WellMarked(fighter, q) /\ fighter[q].target \in Fighter \cup {NoOne} /\ F[q] = fighter[q]
      BY <1>1, <2>4, <2>7, Fields DEF WellKept
    <3>2. fighter[q].target # p
      BY <2>1, <3>1, Responsible DEF WellMarked
    <3> QED BY <2>4, <2>5, <3>1, <3>2 DEF WellMarked
  <2>8. WellKept(F) /\ Unbanned(F, murders)
    BY <1>1, <2>1, <2>4, <2>5, <2>6, <2>7 DEF WellKept, Unbanned
  <2>9. LET R == [Everything EXCEPT !.f = F] IN Sound(R) /\ Become(R)
    <3>1. Everything \in Worlds /\ F \in Fighters
      BY <2>4, EverythingSound DEF Sound
    <3>2. LET R == [Everything EXCEPT !.f = F] IN
          R \in Worlds /\ R.f = F /\ R.murders = murders /\ R.latest = latest /\ R.band = band
      BY <3>1, WorldWith DEF Everything
    <3> QED BY <2>1, <2>8, <3>2 DEF Sound, Become
  <2> QED BY <2>9, BecomeKept
<1> QED BY <1>2, <1>3, <1>4, <1>5, <1>6

-----------------------------------------------------------------------------
\* The first state satisfies the invariant: nobody plays.
LEMMA InitKept == FightsInit => IInv
<1> SUFFICES ASSUME FightsInit  PROVE IInv
  OBVIOUS
<1>1. Unmarked \in FighterState
  BY Responsible DEF Unmarked, FighterState
<1>2. /\ Unmarked.zone = "away" /\ Unmarked.attacked = {} /\ Unmarked.skull = "none"
      /\ ~Unmarked.locked /\ ~Unmarked.fight /\ Unmarked.target = NoOne
      /\ ~Unmarked.dying /\ Unmarked.damage = {}
  BY DEF Unmarked
<1>3. fighter \in Fighters /\ \A p \in Fighter : fighter[p] = Unmarked
  BY <1>1 DEF FightsInit, Fighters
<1>4. In(fighter) = {}
  BY <1>2, <1>3 DEF In
<1>5. WellKept(fighter)
  BY <1>2, <1>3, <1>4 DEF WellKept, WellMarked
<1>6. Unbanned(fighter, murders)
  BY <1>4 DEF Unbanned
<1> QED BY <1>5, <1>6, FightsAssumption DEF FightsInit, IInv, Zones

\* Every step keeps the invariant.
LEMMA StepKept == IInv /\ [FightsNext]_fightVars => IInv'
<1> SUFFICES ASSUME IInv, [FightsNext]_fightVars  PROVE IInv'
  OBVIOUS
<1>1. CASE UNCHANGED fightVars
  BY <1>1 DEF fightVars, IInv, WellKept, WellMarked, Unbanned, In, Fighters, FighterState, Zones
<1>2. CASE FightsNext
  <2>1. PICK p \in Fighter :
          \/ DropTarget(p) \/ Swing(p) \/ Scathed(p) \/ OnDeath(p)
          \/ FightEnds(p) \/ RedEnds(p) \/ Forgotten(p) \/ Depart(p) \/ JoinBand(p) \/ LeaveBand(p)
          \/ \E v \in Fighter : SetTarget(p, v)
          \/ \E x \in {p} \cup Beasts(p), v \in Fighter :
               \/ Parried(x, v)
               \/ \E fatal \in BOOLEAN, reflected \in {"no", "yes", "fatal"} :
                    Strike(x, v, fatal, reflected)
          \/ \E fatal \in BOOLEAN, x \in Fighter \cup Beast : ConditionTick(p, x, fatal) \/ Mauled(x, p, fatal)
          \/ \E z \in zones : WalkInto(p, z) \/ Arrive(p, z)
    BY <1>2 DEF FightsNext
  <2>2. CASE DropTarget(p) \/ Swing(p) \/ \E v \in Fighter : SetTarget(p, v)
    BY <2>2, AimsKept
  <2>3. CASE Scathed(p) \/ FightEnds(p) \/ RedEnds(p)
    BY <2>3, MarksKept
  <2>4. CASE OnDeath(p)
    BY <2>4, OnDeathKept
  <2>5. CASE \E x \in {p} \cup Beasts(p), v \in Fighter :
               \/ Parried(x, v)
               \/ \E fatal \in BOOLEAN, reflected \in {"no", "yes", "fatal"} :
                    Strike(x, v, fatal, reflected)
    <3>1. PICK x \in {p} \cup Beasts(p), v \in Fighter :
               \/ Parried(x, v)
               \/ \E fatal \in BOOLEAN, reflected \in {"no", "yes", "fatal"} :
                    Strike(x, v, fatal, reflected)
      BY <2>5
    <3>2. x \in Fighter \cup Beast /\ TRUE \in BOOLEAN
      BY DEF Beasts
    <3> QED BY <3>1, <3>2, BlowsKept
  <2>6. CASE \E fatal \in BOOLEAN, x \in Fighter \cup Beast : ConditionTick(p, x, fatal) \/ Mauled(x, p, fatal)
    BY <2>6, BlowsKept
  <2>7. CASE \/ Forgotten(p) \/ Depart(p) \/ JoinBand(p) \/ LeaveBand(p)
             \/ \E z \in zones : WalkInto(p, z) \/ Arrive(p, z)
    BY <2>7, MovesKept
  <2> QED BY <2>1, <2>2, <2>3, <2>4, <2>5, <2>6, <2>7
<1> QED BY <1>1, <1>2

\* The invariant holds in every reachable state.
LEMMA Invariant == FightsSpec => []IInv
BY InitKept, StepKept, PTL DEF FightsSpec

\* Marks last as long as the fight, targets are where they may be attacked, and what is
\* noted of others is about sessions that are still there.
THEOREM MarksSound == FightsSpec => []FightsMarked
<1>1. IInv => FightsMarked
  <2> SUFFICES ASSUME IInv, NEW p \in Fighter
               PROVE  LET f == fighter[p]
                      IN  /\ f.skull = "white" \/ f.locked \/ f.attacked # {} => f.fight
                          /\ f.target # NoOne => f.zone \notin {"away", "protection"} /\ fighter[f.target].zone \notin {"away", "protection", "nopvp"}
                          /\ f.attacked \cup {PlayerOf(x) : x \in f.damage} \subseteq Playing \cup {NoOne}
                          /\ p \notin f.attacked /\ f.zone = "away" => f.skull # "white"
    BY DEF FightsMarked
  <2>1. WellMarked(fighter, p) /\ In(fighter) = Playing
    BY EverythingSound DEF IInv, WellKept
  <2>2. {PlayerOf(x) : x \in fighter[p].damage} \subseteq Playing \cup {NoOne}
    BY <2>1 DEF WellMarked
  <2> QED BY <2>1, <2>2 DEF WellMarked
<1> QED BY <1>1, Invariant, PTL

\* Nobody plays who has as many murders as are punished with a ban, so a murderer is out
\* of the game before his next victim (Player::addUnjustifiedDead, the login's check).
THEOREM BannedAway == FightsSpec => []\A p \in Playing : murders[p] < BanLimit
<1>1. IInv => \A p \in Playing : murders[p] < BanLimit
  BY EverythingSound DEF IInv, Unbanned
<1> QED BY <1>1, Invariant, PTL

\* A death is at most one murder of each killer, and only of one who did damage, himself
\* or through a summon, to a victim he had attacked and who had not attacked him.
THEOREM JudgedFairly == FightsSpec => KillsJudged
<1> DEFINE Just == \A k \in Fighter : murders'[k] > murders[k] =>
       /\ murders'[k] = murders[k] + 1
       /\ \E v \in Playing : /\ fighter[v].dying /\ v \in fighter[k].attacked /\ k \notin fighter[v].attacked
                             /\ ({k} \cup Beasts(k)) \cap fighter[v].damage # {}
<1>1. IInv /\ [FightsNext]_fightVars => [Just]_fightVars
  <2> SUFFICES ASSUME IInv, FightsNext, ~\E v \in Fighter : OnDeath(v)
               PROVE  \A k \in Fighter : ~(murders'[k] > murders[k])
    <3>1. ASSUME IInv, NEW v \in Fighter, OnDeath(v)  PROVE Just
      <4>1. FairlyJudged(v) /\ v \in Playing /\ fighter[v].dying
        BY <3>1, OnDeathKept DEF OnDeath
      <4>2. \A k \in Fighter : murders[k] \in Nat
        BY <3>1 DEF IInv
      <4> QED BY <4>1, <4>2 DEF FairlyJudged
    <3> QED BY <3>1
  <2>1. \A k \in Fighter : murders[k] \in Nat
    BY DEF IInv
  <2>2. murders \in [Fighter -> Nat]
    BY DEF IInv
  <2>3. murders' = murders \/ \E p \in Fighter : murders' = [murders EXCEPT ![p] = @ - 1]
    <3>1. Everything.murders = murders /\ Everything \in Worlds
      BY EverythingSound DEF Sound
    <3>2. \A p \in Fighter : Depart(p) => murders' = murders
      <4> SUFFICES ASSUME NEW p \in Fighter, Depart(p)  PROVE murders' = murders
        OBVIOUS
      <4>1. SessionGone(Everything, p).murders = murders
        BY <3>1, SessionGoneFields
      <4> QED BY <4>1 DEF Depart, Become
    <3> DEFINE Calm == murders' = murders
    <3>3. \A p \in Fighter :
            /\ DropTarget(p) \/ Swing(p) \/ Scathed(p) \/ FightEnds(p) \/ RedEnds(p)
                 \/ JoinBand(p) \/ LeaveBand(p) => Calm
            /\ Forgotten(p) => murders' = [murders EXCEPT ![p] = @ - 1]
      BY DEF DropTarget, Swing, Scathed, FightEnds, RedEnds, Forgotten, JoinBand, LeaveBand
    <3>4. \A p, v : SetTarget(p, v) \/ Parried(p, v) => Calm
      BY DEF SetTarget, Parried
    <3>5. \A x, v, fatal, reflected : Strike(x, v, fatal, reflected) => Calm
      BY DEF Strike
    <3>6. \A x, v, fatal : ConditionTick(v, x, fatal) \/ Mauled(x, v, fatal) => Calm
      BY DEF ConditionTick, Mauled
    <3>7. \A p, z : WalkInto(p, z) \/ Arrive(p, z) => Calm
      BY DEF WalkInto, Arrive
    <3> HIDE DEF Calm
    <3>8. Calm \/ \E p \in Fighter : murders' = [murders EXCEPT ![p] = @ - 1]
      <4> SUFFICES ASSUME ~Calm
                   PROVE  \E p \in Fighter : murders' = [murders EXCEPT ![p] = @ - 1]
        OBVIOUS
      <4>1. PICK p \in Fighter : Forgotten(p)
        BY <3>2, <3>3, <3>4, <3>5, <3>6, <3>7, Zenon DEF FightsNext, Calm
      <4> QED BY <3>3, <4>1
    <3> QED BY <3>8 DEF Calm
  <2> QED BY <2>1, <2>2, <2>3
<1> QED BY <1>1, Invariant, PTL DEF FightsSpec, KillsJudged
-----------------------------------------------------------------------------
(* Errands                                                                 *)

Ways == Seq({-1, 1})
Walkers ==
  [at : Ground, list : Ways, posted : Seq(Ways), eventWalk : {"none", "set", "fired"}, stray : Nat, walks : Nat,
   walkTask : BOOLEAN, walkTaskEvent : BOOLEAN, errands : Nat, actionTaskEvent : BOOLEAN, deeds : Nat,
   cancelNextWalk : BOOLEAN, resting : BOOLEAN, busy : BOOLEAN, owed : Int, carried : BOOLEAN]

One(b) == IF b THEN 1 ELSE 0
\* In how many places what he wants to do waits.
Copies(W) == One(W.walkTask) + One(W.walkTaskEvent) + One(W.actionTaskEvent) + W.errands + W.deeds

\* A walk that will end is there for the walk task.
Led(W) == W.walkTask /\ ~W.carried => W.eventWalk # "none" \/ W.posted # <<>>

\* What he still wants to do waits in as many places as commands have not been carried out, with
\* `spare' of them to go.
Waiting(W, spare) == W \in Walkers /\ Copies(W) + spare <= W.owed

\* What walking may do to the tasks: some of them may be stopped, and none is left behind.
Walks(W, V) == V \in Walkers /\ Copies(V) <= Copies(W) /\ V.owed = W.owed /\ (Led(W) => Led(V))

LEMMA CopiesCount ==
  ASSUME NEW W \in Walkers
  PROVE  /\ Copies(W) \in Nat /\ W.owed \in Int
         /\ \A V \in Walkers :
              /\ V.walkTask = W.walkTask /\ V.walkTaskEvent = W.walkTaskEvent /\ V.errands = W.errands
              /\ V.deeds = W.deeds /\ (V.actionTaskEvent => W.actionTaskEvent)
              => Copies(V) <= Copies(W)
<1>1. \A V \in Walkers : /\ V.walkTask \in BOOLEAN /\ V.walkTaskEvent \in BOOLEAN /\ V.actionTaskEvent \in BOOLEAN
                         /\ V.errands \in Nat /\ V.deeds \in Nat /\ V.owed \in Int
  BY DEF Walkers
<1>2. \A b \in BOOLEAN : One(b) \in {0, 1} /\ (One(b) = 1 <=> b)
  BY DEF One
<1>3. Copies(W) \in Nat
  <2>1. One(W.walkTask) \in Nat /\ One(W.walkTaskEvent) \in Nat /\ One(W.actionTaskEvent) \in Nat
    BY <1>1, <1>2
  <2> QED BY <1>1, <2>1 DEF Copies
<1>4. ASSUME NEW V \in Walkers, V.walkTask = W.walkTask, V.walkTaskEvent = W.walkTaskEvent, V.errands = W.errands,
             V.deeds = W.deeds, V.actionTaskEvent => W.actionTaskEvent
      PROVE  Copies(V) <= Copies(W)
  <2>1. One(V.actionTaskEvent) \in Nat /\ One(W.actionTaskEvent) \in Nat /\ One(V.actionTaskEvent) <= One(W.actionTaskEvent)
    BY <1>1, <1>4 DEF One
  <2>2. One(W.walkTask) \in Nat /\ One(W.walkTaskEvent) \in Nat
    BY <1>1 DEF One
  <2> QED BY <1>1, <1>4, <2>1, <2>2 DEF Copies
<1> QED BY <1>1, <1>3, <1>4

LEMMA WalksTwice ==
  ASSUME NEW U \in Walkers, NEW V, Walks(U, V), NEW W, Walks(V, W)
  PROVE  Walks(U, W)
<1>1. Copies(U) \in Nat /\ Copies(V) \in Nat /\ Copies(W) \in Nat
  BY CopiesCount DEF Walks
<1> QED BY <1>1 DEF Walks

LEMMA TaskSet ==
  ASSUME NEW W \in Walkers, NEW task \in BOOLEAN
  PROVE  /\ SetNextWalkActionTask(W, task) \in Walkers
         /\ SetNextWalkActionTask(W, task).walkTask = task
         /\ Copies(SetNextWalkActionTask(W, task)) <= Copies(W) + One(task)
         /\ SetNextWalkActionTask(W, task).owed = W.owed
         /\ SetNextWalkActionTask(W, task).posted = W.posted
<1> DEFINE V == SetNextWalkActionTask(W, task)
<1>1. /\ V \in Walkers /\ V.walkTask = task /\ V.walkTaskEvent = FALSE /\ V.actionTaskEvent = W.actionTaskEvent
      /\ V.errands = W.errands /\ V.deeds = W.deeds /\ V.owed = W.owed /\ V.posted = W.posted
  BY DEF SetNextWalkActionTask, Walkers
<1> HIDE DEF V
<1>2. /\ W.walkTask \in BOOLEAN /\ W.walkTaskEvent \in BOOLEAN /\ W.actionTaskEvent \in BOOLEAN
      /\ W.errands \in Nat /\ W.deeds \in Nat
  BY DEF Walkers
<1>3. Copies(V) <= Copies(W) + One(task)
  BY <1>1, <1>2 DEF Copies, One
<1> QED BY <1>1, <1>3 DEF V

\* Who is teleported leaves his walk behind, and is not owed the rest of it.
LEMMA ArrivedThere ==
  ASSUME NEW W \in Walkers, NEW to \in Ground, NEW teleport \in BOOLEAN
  PROVE  Walks(W, Arrived(W, to, teleport))
<1> DEFINE V == Arrived(W, to, teleport)
<1>1. CASE teleport
  <2> DEFINE T == [W EXCEPT !.at = to, !.resting = TRUE]
             S == StopEventWalk(T)
  <2>4. V = [S EXCEPT !.carried = W.walkTask]
    BY <1>1 DEF Arrived
  <2>5. /\ T \in Walkers /\ T.walkTask = W.walkTask /\ T.walkTaskEvent = W.walkTaskEvent /\ T.errands = W.errands
        /\ T.deeds = W.deeds /\ T.actionTaskEvent = W.actionTaskEvent /\ T.owed = W.owed
    BY DEF Walkers
  <2> HIDE DEF T, V
  <2>6. /\ S \in Walkers /\ S.walkTask = T.walkTask /\ S.walkTaskEvent = T.walkTaskEvent /\ S.errands = T.errands
        /\ S.deeds = T.deeds /\ S.actionTaskEvent = T.actionTaskEvent /\ S.owed = T.owed
    BY <2>5 DEF StopEventWalk, Walkers
  <2> HIDE DEF S
  <2>2. /\ V \in Walkers /\ V.walkTask = W.walkTask /\ V.walkTaskEvent = W.walkTaskEvent /\ V.errands = W.errands
        /\ V.deeds = W.deeds /\ V.actionTaskEvent = W.actionTaskEvent /\ V.owed = W.owed /\ V.carried = V.walkTask
    BY <2>4, <2>5, <2>6 DEF Walkers
  <2> HIDE DEF V
  <2>3. Copies(V) <= Copies(W) /\ Led(V)
    BY <2>2, CopiesCount DEF Led
  <2> QED BY <2>2, <2>3 DEF Walks, V
<1>2. CASE ~teleport
  <2>1. V = [W EXCEPT !.at = to, !.resting = TRUE]
    BY <1>2 DEF Arrived
  <2>2. /\ V \in Walkers /\ V.walkTask = W.walkTask /\ V.walkTaskEvent = W.walkTaskEvent /\ V.errands = W.errands
        /\ V.deeds = W.deeds /\ V.actionTaskEvent = W.actionTaskEvent /\ V.owed = W.owed /\ V.carried = W.carried
        /\ V.eventWalk = W.eventWalk /\ V.posted = W.posted
    BY <2>1 DEF Walkers
  <2> HIDE DEF V
  <2>3. Copies(V) <= Copies(W) /\ (Led(W) => Led(V))
    BY <2>2, CopiesCount DEF Led
  <2> QED BY <2>2, <2>3 DEF Walks, V
<1> QED BY <1>1, <1>2

LEMMA HasMoved ==
  ASSUME NEW W \in Walkers, NEW dir, NEW free
  PROVE  Walks(W, Moves(W, dir, free))
<1> DEFINE to == W.at + dir
<1>1. CASE ~free \/ to \notin Ground
  <2>1. Moves(W, dir, free) = W
    BY <1>1 DEF Moves
  <2> QED BY <2>1, CopiesCount DEF Walks
<1>2. CASE ~(~free \/ to \notin Ground) /\ to \in thing.portals
  <2> DEFINE there == Arrived(W, to, FALSE)
  <2>1. Moves(W, dir, free) = Arrived(there, Exit, TRUE)
    BY <1>2 DEF Moves
  <2>2. Walks(W, there)
    BY <1>2, ArrivedThere
  <2> HIDE DEF there, to
  <2>3. Walks(there, Arrived(there, Exit, TRUE))
    BY <2>2, ArrivedThere, ErrandsAssumption DEF Walks
  <2> QED BY <2>1, <2>2, <2>3, WalksTwice
<1>3. CASE ~(~free \/ to \notin Ground) /\ ~(to \in thing.portals)
  <2>1. Moves(W, dir, free) = Arrived(W, to, FALSE)
    BY <1>3 DEF Moves
  <2>2. Walks(W, Arrived(W, to, FALSE))
    BY <1>3, ArrivedThere
  <2> QED BY <2>1, <2>2
<1> QED BY <1>1, <1>2, <1>3

LEMMA Stepped ==
  ASSUME NEW W \in Walkers, W.list # <<>>, NEW free
  PROVE  Walks(W, Steps(W, free))
<1> DEFINE V == [W EXCEPT !.list = Tail(@), !.actionTaskEvent = FALSE, !.busy = TRUE]
<1>1. Tail(W.list) \in Ways
  BY DEF Walkers, Ways
<1>2. /\ V \in Walkers /\ V.walkTask = W.walkTask /\ V.walkTaskEvent = W.walkTaskEvent /\ V.errands = W.errands
      /\ V.deeds = W.deeds /\ V.actionTaskEvent = FALSE /\ V.owed = W.owed /\ V.carried = W.carried
      /\ V.eventWalk = W.eventWalk /\ V.posted = W.posted
  BY <1>1 DEF Walkers
<1>3. Steps(W, free) = Moves(V, Head(W.list), free)
  BY DEF Steps
<1> HIDE DEF V
<1>4. Copies(V) <= Copies(W) /\ (Led(W) => Led(V))
  BY <1>2, CopiesCount DEF Led
<1>5. Walks(W, V)
  BY <1>2, <1>4 DEF Walks
<1>6. Walks(V, Moves(V, Head(W.list), free))
  BY <1>2, HasMoved
<1> QED BY <1>2, <1>3, <1>5, <1>6, WalksTwice

\* A walk that has ended gives its task to the scheduler.
LEMMA Completed ==
  ASSUME NEW W \in Walkers
  PROVE  Walks(W, StopEventWalk(OnWalkComplete(W)))
<1> DEFINE U == OnWalkComplete(W)
           V == StopEventWalk(U)
<1>1. /\ U \in Walkers /\ ~U.walkTask /\ U.errands = W.errands /\ U.deeds = W.deeds
      /\ U.actionTaskEvent = W.actionTaskEvent /\ U.owed = W.owed
      /\ U.walkTaskEvent = (W.walkTask \/ W.walkTaskEvent)
  BY DEF OnWalkComplete, Walkers
<1> HIDE DEF U
<1>2. /\ V \in Walkers /\ V.walkTask = U.walkTask /\ V.errands = U.errands /\ V.deeds = U.deeds
      /\ V.actionTaskEvent = U.actionTaskEvent /\ V.owed = U.owed /\ V.walkTaskEvent = U.walkTaskEvent
  BY <1>1 DEF StopEventWalk, Walkers
<1> HIDE DEF V
<1>3. Copies(V) <= Copies(W)
  <2>1. /\ W.walkTask \in BOOLEAN /\ W.walkTaskEvent \in BOOLEAN /\ W.errands \in Nat /\ W.deeds \in Nat
        /\ One(W.actionTaskEvent) \in Nat
    BY DEF Walkers, One
  <2>2. One(V.walkTask) + One(V.walkTaskEvent) <= One(W.walkTask) + One(W.walkTaskEvent)
        /\ One(V.walkTask) = 0 /\ One(V.walkTaskEvent) \in Nat /\ One(W.walkTask) \in Nat /\ One(W.walkTaskEvent) \in Nat
    BY <1>1, <1>2, <2>1 DEF One
  <2> QED BY <1>1, <1>2, <2>1, <2>2 DEF Copies
<1>4. Led(V)
  BY <1>1, <1>2 DEF Led
<1> QED BY <1>1, <1>2, <1>3, <1>4 DEF Walks, U, V

LEMMA WalkedOn ==
  ASSUME NEW W \in Walkers, NEW free
  PROVE  Walks(W, Walked(W, free))
<1> DEFINE S == IF W.resting THEN W ELSE IF W.list # <<>> THEN Steps(W, free) ELSE StopEventWalk(OnWalkComplete(W))
           U == SetNextWalkActionTask(S, FALSE)
           V == [U EXCEPT !.list = <<>>, !.cancelNextWalk = FALSE]
<1>1. Walked(W, free) = IF ~W.cancelNextWalk THEN S ELSE V
  BY DEF Walked
<1>2. Walks(W, W)
  BY CopiesCount DEF Walks
<1>3. Walks(W, S)
  BY <1>2, Stepped, Completed
<1> HIDE DEF S
<1>4. /\ S \in Walkers /\ U \in Walkers /\ ~U.walkTask /\ Copies(U) <= Copies(S) + One(FALSE) /\ U.owed = S.owed
  BY <1>3, TaskSet DEF Walks
<1> HIDE DEF U
<1>5. <<>> \in Ways
  BY DEF Ways
<1>6. /\ V \in Walkers /\ V.walkTask = U.walkTask /\ V.errands = U.errands /\ V.deeds = U.deeds
      /\ V.actionTaskEvent = U.actionTaskEvent /\ V.owed = U.owed /\ V.walkTaskEvent = U.walkTaskEvent
  BY <1>4, <1>5 DEF Walkers
<1> HIDE DEF V
<1>7. /\ Copies(V) <= Copies(U) /\ Copies(U) \in Nat /\ Copies(V) \in Nat /\ Copies(S) \in Nat
  BY <1>4, <1>6, CopiesCount
<1>8. Copies(V) <= Copies(S)
  BY <1>4, <1>7 DEF One
<1>9. Walks(S, V)
  BY <1>4, <1>6, <1>8 DEF Walks, Led
<1>10. Walks(W, V)
  BY <1>3, <1>4, <1>9, WalksTwice
<1> QED BY <1>1, <1>3, <1>10

\* A walk that begins or goes on has a timer.
LEMMA EventAdded ==
  ASSUME NEW W \in Walkers, NEW firstStep, NEW free
  PROVE  Walks(W, AddEventWalk(W, firstStep, free)) /\ Led(AddEventWalk(W, firstStep, free))
<1> DEFINE going == [W EXCEPT !.cancelNextWalk = FALSE]
           first == IF firstStep /\ ~W.resting THEN Walked(going, free) ELSE going
           V == [first EXCEPT !.eventWalk = "set"]
<1>1. AddEventWalk(W, firstStep, free) = IF W.eventWalk # "none" THEN going ELSE V
  BY DEF AddEventWalk, Walkers
<1>2. /\ going \in Walkers /\ going.walkTask = W.walkTask /\ going.walkTaskEvent = W.walkTaskEvent
      /\ going.errands = W.errands /\ going.deeds = W.deeds /\ going.actionTaskEvent = W.actionTaskEvent
      /\ going.owed = W.owed /\ going.eventWalk = W.eventWalk /\ going.carried = W.carried /\ going.posted = W.posted
  BY DEF Walkers
<1> HIDE DEF going
<1>3. Walks(W, going)
  <2>1. Copies(going) <= Copies(W)
    BY <1>2, CopiesCount
  <2> QED BY <1>2, <2>1 DEF Walks, Led
<1>4. Walks(going, first)
  <2>1. Walks(going, going)
    BY <1>2, CopiesCount DEF Walks
  <2> QED BY <1>2, <2>1, WalkedOn
<1> HIDE DEF first
<1>5. first \in Walkers
  BY <1>4 DEF Walks
<1>6. /\ V \in Walkers /\ V.walkTask = first.walkTask /\ V.walkTaskEvent = first.walkTaskEvent
      /\ V.errands = first.errands /\ V.deeds = first.deeds /\ V.actionTaskEvent = first.actionTaskEvent
      /\ V.owed = first.owed /\ V.eventWalk = "set"
  BY <1>5 DEF Walkers
<1> HIDE DEF V
<1>7. Led(V) /\ Copies(V) <= Copies(first)
  BY <1>5, <1>6, CopiesCount DEF Led
<1>8. Walks(W, V)
  <2>1. Walks(first, V)
    BY <1>6, <1>7 DEF Walks
  <2> QED BY <1>2, <1>3, <1>4, <1>5, <2>1, WalksTwice
<1>9. CASE W.eventWalk # "none"
  BY <1>1, <1>2, <1>3, <1>9 DEF Led
<1>10. CASE W.eventWalk = "none"
  BY <1>1, <1>7, <1>8, <1>10
<1> QED BY <1>9, <1>10

LEMMA WalkStarted ==
  ASSUME NEW W \in Walkers, NEW list \in Ways, NEW free
  PROVE  /\ StartAutoWalk(W, list, free) \in Walkers /\ Copies(StartAutoWalk(W, list, free)) <= Copies(W)
         /\ StartAutoWalk(W, list, free).owed = W.owed /\ Led(StartAutoWalk(W, list, free))
<1> DEFINE U == [W EXCEPT !.list = list, !.carried = FALSE]
<1>1. /\ U \in Walkers /\ U.walkTask = W.walkTask /\ U.walkTaskEvent = W.walkTaskEvent
      /\ U.errands = W.errands /\ U.deeds = W.deeds /\ U.actionTaskEvent = W.actionTaskEvent /\ U.owed = W.owed
  BY DEF Walkers
<1>2. StartAutoWalk(W, list, free) = AddEventWalk(U, Len(list) = 1, free)
  BY DEF StartAutoWalk
<1> HIDE DEF U
<1>3. Copies(U) <= Copies(W) /\ Copies(U) \in Nat /\ Copies(W) \in Nat
  BY <1>1, CopiesCount
<1> DEFINE V == AddEventWalk(U, Len(list) = 1, free)
<1>4. Walks(U, V) /\ Led(V)
  BY <1>1, EventAdded
<1> HIDE DEF V
<1>5. Copies(V) \in Nat /\ Copies(V) <= Copies(U) /\ V \in Walkers /\ V.owed = U.owed
  BY <1>4, CopiesCount DEF Walks
<1> QED BY <1>1, <1>2, <1>3, <1>4, <1>5 DEF V

LEMMA WalkRun ==
  ASSUME NEW W \in Walkers, NEW free
  PROVE  Walks(W, OnWalk(W, free))
<1> DEFINE S == Walked(W, free)
           stray == IF S.eventWalk = "set" THEN S.stray + 1 ELSE S.stray
           U == [S EXCEPT !.eventWalk = "none", !.stray = stray]
           V == AddEventWalk(U, FALSE, free)
<1>1. OnWalk(W, free) = IF S.eventWalk = "none" THEN S ELSE V
  BY DEF OnWalk
<1>2. Walks(W, S)
  BY WalkedOn
<1> HIDE DEF S
<1>3. S \in Walkers /\ stray \in Nat
  BY <1>2 DEF Walks, Walkers
<1> HIDE DEF stray
<1>4. /\ U \in Walkers /\ U.walkTask = S.walkTask /\ U.walkTaskEvent = S.walkTaskEvent
      /\ U.errands = S.errands /\ U.deeds = S.deeds /\ U.actionTaskEvent = S.actionTaskEvent /\ U.owed = S.owed
  BY <1>3 DEF Walkers
<1> HIDE DEF U
<1>5. Copies(U) <= Copies(S) /\ Copies(U) \in Nat /\ Copies(S) \in Nat
  BY <1>3, <1>4, CopiesCount
<1>6. Walks(U, V) /\ Led(V)
  BY <1>4, EventAdded
<1> HIDE DEF V
<1>7. Copies(V) \in Nat /\ Copies(V) <= Copies(U) /\ V \in Walkers /\ V.owed = U.owed
  BY <1>6, CopiesCount DEF Walks
<1>8. Copies(V) <= Copies(S)
  BY <1>5, <1>7
<1>9. Walks(S, V)
  BY <1>4, <1>6, <1>7, <1>8 DEF Walks
<1> QED BY <1>1, <1>2, <1>3, <1>9, WalksTwice
-----------------------------------------------------------------------------

\* The tasks are as they should be, and one command more may wait (Ready) or not.
Ready(W) == W \in Walkers /\ Copies(W) + 1 <= W.owed /\ Led(W)
TasksSound(W) == W \in Walkers /\ Copies(W) <= W.owed /\ Led(W)

LEMMA ReadyIsSound ==
  ASSUME NEW W, Ready(W)
  PROVE  TasksSound(W) /\ Copies(W) \in Nat /\ W.owed \in Int
BY CopiesCount DEF Ready, TasksSound

LEMMA WayThere ==
  ASSUME NEW W \in Walkers, thing \in Things
  PROVE  PathTo(W) \in Ways
<1> DEFINE far == thing.at - W.at
<1>1. far \in Int
  <2>1. W.at \in Ground
    BY DEF Walkers
  <2>2. thing.at \in Ground /\ Ground \subseteq Int
    BY ErrandsAssumption
  <2>3. W.at \in Int /\ thing.at \in Int
    BY <2>1, <2>2
  <2> QED BY <2>3
<1>2. PathTo(W) = IF far > 0 THEN [i \in 1 .. far - 1 |-> 1] ELSE [i \in 1 .. -far - 1 |-> -1]
  BY DEF PathTo
<1> HIDE DEF far
<1>3. CASE far > 0
  <2>1. far - 1 \in Nat /\ PathTo(W) \in [1 .. far - 1 -> {-1, 1}]
    BY <1>1, <1>2, <1>3
  <2> HIDE DEF PathTo
  <2> QED BY <2>1 DEF Ways
<1>4. CASE far = 0
  <2>1. 1 .. -far - 1 = 1 .. 0
    BY <1>4
  <2>2. PathTo(W) \in [1 .. 0 -> {-1, 1}]
    BY <1>2, <1>4, <2>1
  <2> QED BY <2>2 DEF Ways
<1>5. CASE far < 0
  <2>1. -far - 1 \in Nat /\ PathTo(W) \in [1 .. -far - 1 -> {-1, 1}]
    BY <1>1, <1>2, <1>5
  <2> HIDE DEF PathTo
  <2> QED BY <2>1 DEF Ways
<1> QED BY <1>1, <1>3, <1>4, <1>5

LEMMA SentThere ==
  ASSUME NEW W, Ready(W), thing \in Things, NEW way
  PROVE  TasksSound(WalkThere(W, way))
<1>1. CASE ~way
  BY <1>1, ReadyIsSound DEF WalkThere
<1>2. CASE way
  <2> DEFINE path == PathTo(W)
             U == [W EXCEPT !.posted = Append(W.posted, path)]
             V == SetNextWalkActionTask(U, TRUE)
  <2>1. WalkThere(W, way) = V
    BY <1>2 DEF WalkThere
  <2>2. W \in Walkers /\ W.posted \in Seq(Ways) /\ path \in Ways
    BY WayThere DEF Ready, Walkers
  <2> HIDE DEF path
  <2>3. Append(W.posted, path) \in Seq(Ways) /\ Append(W.posted, path) # <<>>
    BY <2>2
  <2>4. /\ U \in Walkers /\ U.walkTask = W.walkTask /\ U.walkTaskEvent = W.walkTaskEvent
        /\ U.errands = W.errands /\ U.deeds = W.deeds /\ U.actionTaskEvent = W.actionTaskEvent /\ U.owed = W.owed
        /\ U.posted # <<>>
    BY <2>2, <2>3 DEF Walkers
  <2> HIDE DEF U
  <2>5. Copies(U) <= Copies(W) /\ Copies(U) \in Nat
    BY <2>2, <2>4, CopiesCount
  <2>6. V \in Walkers /\ Copies(V) <= Copies(U) + One(TRUE) /\ V.owed = U.owed /\ V.posted = U.posted
    BY <2>4, TaskSet
  <2> HIDE DEF V
  <2>7. Copies(V) \in Nat
    BY <2>6, CopiesCount
  <2>8. Copies(V) <= V.owed
    BY <2>4, <2>5, <2>6, <2>7, ReadyIsSound DEF One, Ready
  <2> QED BY <2>1, <2>4, <2>6, <2>8 DEF TasksSound, Led
<1> QED BY <1>1, <1>2

\* The action task waits, is given up, or is done.
LEMMA ItIsPut ==
  ASSUME NEW W, Ready(W)
  PROVE  /\ TasksSound(Later(W)) /\ Ready(NotLater(W))
         /\ NotLater(W).at = W.at
         /\ TasksSound([NotLater(W) EXCEPT !.owed = @ - 1]) /\ TasksSound([W EXCEPT !.owed = @ - 1])
         /\ TasksSound([NotLater(W) EXCEPT !.busy = TRUE, !.cancelNextWalk = TRUE, !.owed = @ - 1])
<1>1. W \in Walkers /\ Copies(W) \in Nat /\ W.owed \in Int /\ Copies(W) + 1 <= W.owed /\ Led(W)
  BY ReadyIsSound DEF Ready
<1> DEFINE A == Later(W)
           B == NotLater(W)
<1>2. /\ A \in Walkers /\ A.walkTask = W.walkTask /\ A.walkTaskEvent = W.walkTaskEvent
      /\ A.errands = W.errands /\ A.deeds = W.deeds /\ A.actionTaskEvent = TRUE /\ A.owed = W.owed
      /\ A.posted = W.posted /\ A.eventWalk = W.eventWalk /\ A.carried = W.carried
  BY <1>1 DEF Walkers, Later
<1>3. /\ B \in Walkers /\ B.walkTask = W.walkTask /\ B.walkTaskEvent = W.walkTaskEvent
      /\ B.errands = W.errands /\ B.deeds = W.deeds /\ B.actionTaskEvent = FALSE /\ B.owed = W.owed
      /\ B.posted = W.posted /\ B.eventWalk = W.eventWalk /\ B.carried = W.carried /\ B.at = W.at
  BY <1>1 DEF Walkers, NotLater
<1> HIDE DEF A, B
<1>4. TasksSound(A)
  <2>1. Copies(A) <= Copies(W) + 1
    <3>1. One(W.actionTaskEvent) \in {0, 1} /\ One(A.actionTaskEvent) \in {0, 1} /\ One(W.walkTask) \in {0, 1}
          /\ One(W.walkTaskEvent) \in {0, 1} /\ W.errands \in Nat /\ W.deeds \in Nat
      BY <1>1 DEF One, Walkers
    <3> QED BY <1>2, <3>1 DEF Copies
  <2>2. Copies(A) \in Nat
    BY <1>2, CopiesCount
  <2> QED BY <1>1, <1>2, <2>1, <2>2 DEF TasksSound, Led
<1>5. Ready(B)
  <2>1. Copies(B) <= Copies(W) /\ Copies(B) \in Nat
    BY <1>1, <1>3, CopiesCount
  <2> QED BY <1>1, <1>3, <2>1 DEF Ready, Led
<1>6. ASSUME NEW U, Ready(U)
      PROVE  /\ TasksSound([U EXCEPT !.owed = @ - 1])
             /\ TasksSound([U EXCEPT !.busy = TRUE, !.cancelNextWalk = TRUE, !.owed = @ - 1])
  <2> DEFINE n == U.owed - 1
             C == [U EXCEPT !.owed = n]
             D == [U EXCEPT !.busy = TRUE, !.cancelNextWalk = TRUE, !.owed = n]
  <2>1. U \in Walkers /\ Copies(U) \in Nat /\ U.owed \in Int /\ Copies(U) + 1 <= U.owed /\ Led(U)
    BY <1>6, ReadyIsSound DEF Ready
  <2>9. n \in Int
    BY <2>1
  <2> HIDE DEF n
  <2>2. /\ C \in Walkers /\ C.walkTask = U.walkTask /\ C.walkTaskEvent = U.walkTaskEvent
        /\ C.errands = U.errands /\ C.deeds = U.deeds /\ C.actionTaskEvent = U.actionTaskEvent /\ C.owed = n
        /\ C.posted = U.posted /\ C.eventWalk = U.eventWalk /\ C.carried = U.carried
    BY <2>1, <2>9 DEF Walkers
  <2> DEFINE E == [U EXCEPT !.busy = TRUE, !.cancelNextWalk = TRUE]
  <2>7. /\ E \in Walkers /\ E.walkTask = U.walkTask /\ E.walkTaskEvent = U.walkTaskEvent
        /\ E.errands = U.errands /\ E.deeds = U.deeds /\ E.actionTaskEvent = U.actionTaskEvent /\ E.owed = U.owed
        /\ E.posted = U.posted /\ E.eventWalk = U.eventWalk /\ E.carried = U.carried
    BY <2>1 DEF Walkers
  <2>8. D = [E EXCEPT !.owed = n]
    BY <2>1, <2>7 DEF Walkers
  <2> HIDE DEF E
  <2>3. /\ D \in Walkers /\ D.walkTask = U.walkTask /\ D.walkTaskEvent = U.walkTaskEvent
        /\ D.errands = U.errands /\ D.deeds = U.deeds /\ D.actionTaskEvent = U.actionTaskEvent /\ D.owed = n
        /\ D.posted = U.posted /\ D.eventWalk = U.eventWalk /\ D.carried = U.carried
    <3> HIDE DEF D
    <3> QED BY <2>7, <2>8, <2>9 DEF Walkers
  <2> HIDE DEF C, D
  <2>4. Copies(C) <= Copies(U) /\ Copies(C) \in Nat /\ Copies(D) <= Copies(U) /\ Copies(D) \in Nat
    BY <2>1, <2>2, <2>3, CopiesCount
  <2>5. TasksSound(C)
    BY <2>1, <2>2, <2>4 DEF TasksSound, Led, n
  <2>6. TasksSound(D)
    BY <2>1, <2>3, <2>4 DEF TasksSound, Led, n
  <2> QED BY <2>5, <2>6 DEF C, D, n
<1> QED BY <1>3, <1>4, <1>5, <1>6 DEF A, B

LEMMA MoveHandled ==
  ASSUME NEW W, Ready(W), thing \in Things, NEW there, NEW way
  PROVE  TasksSound(MoveItem(W, there, way))
<1>1. Ready(NotLater(W)) /\ TasksSound(Later(W)) /\ TasksSound([NotLater(W) EXCEPT !.owed = @ - 1])
  BY ItIsPut
<1>2. TasksSound(NotLater(W)) /\ TasksSound(WalkThere(NotLater(W), way))
  BY <1>1, ReadyIsSound, SentThere
<1> QED BY <1>1, <1>2 DEF MoveItem

LEMMA Handled ==
  ASSUME NEW W, Ready(W), thing \in Things, NEW there, NEW way
  PROVE  TasksSound(Handle(W, there, way))
<1>1. /\ TasksSound(W) /\ TasksSound(WalkThere(W, way)) /\ TasksSound(Later(W)) /\ TasksSound([W EXCEPT !.owed = @ - 1])
      /\ TasksSound([NotLater(W) EXCEPT !.busy = TRUE, !.cancelNextWalk = TRUE, !.owed = @ - 1])
  BY ReadyIsSound, SentThere, ItIsPut
<1>2. thing.kind \in {"use", "move", "push", "rotate"}
  BY ErrandsAssumption
<1>3. CASE thing.kind = "use"
  <2>1. TasksSound(UseItem(W, there, way))
    BY <1>1 DEF UseItem
  <2> QED BY <1>3, <2>1 DEF Handle
<1>4. CASE thing.kind = "move"
  <2>1. TasksSound(MoveItem(W, there, way))
    BY MoveHandled
  <2> QED BY <1>4, <2>1 DEF Handle
<1>5. CASE thing.kind = "push"
  <2>1. TasksSound(PushCreature(W, there, way))
    BY <1>1, MoveHandled DEF PushCreature
  <2> QED BY <1>5, <2>1 DEF Handle
<1>6. CASE thing.kind = "rotate"
  <2>1. TasksSound(RotateItem(W, there, way))
    BY <1>1 DEF RotateItem
  <2> QED BY <1>6, <2>1 DEF Handle
<1> QED BY <1>2, <1>3, <1>4, <1>5, <1>6

LEMMA SoundWalks ==
  ASSUME NEW W, TasksSound(W), NEW V, Walks(W, V)
  PROVE  TasksSound(V)
<1>1. Copies(W) \in Nat /\ Copies(V) \in Nat /\ W.owed \in Int
  BY CopiesCount DEF TasksSound, Walks
<1> QED BY <1>1 DEF TasksSound, Walks

\* A command that is given, or a task that is run, is one that is not carried out yet.
LEMMA MadeReady ==
  ASSUME TasksSound(walker)
  PROVE  /\ Ready([walker EXCEPT !.owed = @ + 1])
         /\ walker.errands > 0 => Ready([walker EXCEPT !.errands = @ - 1])
         /\ walker.deeds > 0 => Ready([walker EXCEPT !.deeds = @ - 1])
<1>1. walker \in Walkers /\ Copies(walker) \in Nat /\ walker.owed \in Int /\ walker.errands \in Nat /\ walker.deeds \in Nat
      /\ Led(walker) /\ Copies(walker) <= walker.owed
  BY CopiesCount DEF TasksSound, Walkers
<1>2. One(walker.walkTask) \in Nat /\ One(walker.walkTaskEvent) \in Nat /\ One(walker.actionTaskEvent) \in Nat
  BY DEF One
<1> DEFINE A == [walker EXCEPT !.owed = @ + 1]
           B == [walker EXCEPT !.errands = @ - 1]
           C == [walker EXCEPT !.deeds = @ - 1]
<1>3. /\ A \in Walkers /\ A.walkTask = walker.walkTask /\ A.walkTaskEvent = walker.walkTaskEvent
      /\ A.errands = walker.errands /\ A.deeds = walker.deeds /\ A.actionTaskEvent = walker.actionTaskEvent
      /\ A.owed = walker.owed + 1 /\ A.posted = walker.posted /\ A.eventWalk = walker.eventWalk
      /\ A.carried = walker.carried
  BY <1>1 DEF Walkers
<1>4. Ready(A)
  <2> HIDE DEF A
  <2>1. Copies(A) = Copies(walker)
    BY <1>3 DEF Copies
  <2> QED BY <1>1, <1>3, <2>1 DEF Ready, Led
<1>5. ASSUME walker.errands > 0 PROVE Ready(B)
  <2>1. /\ B \in Walkers /\ B.walkTask = walker.walkTask /\ B.walkTaskEvent = walker.walkTaskEvent
        /\ B.errands = walker.errands - 1 /\ B.deeds = walker.deeds /\ B.actionTaskEvent = walker.actionTaskEvent
        /\ B.owed = walker.owed /\ B.posted = walker.posted /\ B.eventWalk = walker.eventWalk
        /\ B.carried = walker.carried
    BY <1>1, <1>5 DEF Walkers
  <2> HIDE DEF B
  <2>2. Copies(B) = Copies(walker) - 1
    BY <1>1, <1>2, <2>1 DEF Copies
  <2> QED BY <1>1, <2>1, <2>2 DEF Ready, Led
<1>6. ASSUME walker.deeds > 0 PROVE Ready(C)
  <2>1. /\ C \in Walkers /\ C.walkTask = walker.walkTask /\ C.walkTaskEvent = walker.walkTaskEvent
        /\ C.errands = walker.errands /\ C.deeds = walker.deeds - 1 /\ C.actionTaskEvent = walker.actionTaskEvent
        /\ C.owed = walker.owed /\ C.posted = walker.posted /\ C.eventWalk = walker.eventWalk
        /\ C.carried = walker.carried
    BY <1>1, <1>6 DEF Walkers
  <2> HIDE DEF C
  <2>2. Copies(C) = Copies(walker) - 1
    BY <1>1, <1>2, <2>1 DEF Copies
  <2> QED BY <1>1, <2>1, <2>2 DEF Ready, Led
<1> QED BY <1>4, <1>5, <1>6
-----------------------------------------------------------------------------
(* The actions.                                                            *)

ErrandsInv == TasksSound(walker) /\ thing \in Things

LEMMA ErrandsStart == ErrandsInit => ErrandsInv
<1> SUFFICES ASSUME ErrandsInit PROVE ErrandsInv
  OBVIOUS
<1>1. <<>> \in Ways /\ <<>> \in Seq(Ways)
  BY DEF Ways
<1>2. walker \in Walkers /\ ~walker.walkTask /\ ~walker.walkTaskEvent /\ ~walker.actionTaskEvent
      /\ walker.errands = 0 /\ walker.deeds = 0 /\ walker.owed = 0
  BY <1>1, ErrandsAssumption DEF ErrandsInit, Walkers
<1>3. Copies(walker) = 0
  BY <1>2 DEF Copies, One
<1> QED BY <1>2, <1>3 DEF ErrandsInv, TasksSound, Led, ErrandsInit

\* A record that differs in nothing that waits.
LEMMA SameTasks ==
  ASSUME NEW W, TasksSound(W), NEW V \in Walkers,
         V.walkTask = W.walkTask, V.walkTaskEvent = W.walkTaskEvent, V.errands = W.errands, V.deeds = W.deeds,
         V.actionTaskEvent = W.actionTaskEvent, V.owed = W.owed, V.carried = W.carried,
         V.posted = W.posted, V.eventWalk = "none" => W.eventWalk = "none"
  PROVE  TasksSound(V)
<1>1. Copies(V) = Copies(W)
  BY DEF Copies
<1> QED BY <1>1 DEF TasksSound, Led

\* The scheduler takes a task off its list.
LEMMA Fired ==
  ASSUME NEW W, TasksSound(W)
  PROVE  /\ W.eventWalk = "set" => TasksSound([W EXCEPT !.eventWalk = "fired", !.walks = 1])
         /\ W.stray > 0 => TasksSound([W EXCEPT !.stray = @ - 1, !.walks = 1])
         /\ W.walkTaskEvent => TasksSound([W EXCEPT !.walkTaskEvent = FALSE, !.errands = @ + 1])
         /\ W.actionTaskEvent => TasksSound([W EXCEPT !.actionTaskEvent = FALSE, !.deeds = @ + 1])
<1>1. /\ W \in Walkers /\ Copies(W) <= W.owed /\ Led(W) /\ W.errands \in Nat /\ W.deeds \in Nat /\ W.stray \in Nat
      /\ One(W.walkTask) \in Nat /\ One(W.walkTaskEvent) \in Nat /\ One(W.actionTaskEvent) \in Nat
  BY DEF TasksSound, Walkers, One
<1>2. ASSUME W.eventWalk = "set"  PROVE TasksSound([W EXCEPT !.eventWalk = "fired", !.walks = 1])
  <2> DEFINE V == [W EXCEPT !.eventWalk = "fired", !.walks = 1]
  <2>1. /\ V \in Walkers /\ V.walkTask = W.walkTask /\ V.walkTaskEvent = W.walkTaskEvent /\ V.errands = W.errands
        /\ V.deeds = W.deeds /\ V.actionTaskEvent = W.actionTaskEvent /\ V.owed = W.owed /\ V.carried = W.carried
        /\ V.posted = W.posted /\ V.eventWalk = "fired"
    BY <1>1 DEF Walkers
  <2> HIDE DEF V
  <2>2. TasksSound(V)
    BY <2>1, SameTasks
  <2> QED BY <2>2 DEF V
<1>3. ASSUME W.stray > 0  PROVE TasksSound([W EXCEPT !.stray = @ - 1, !.walks = 1])
  <2> DEFINE n == W.stray - 1
             V == [W EXCEPT !.stray = n, !.walks = 1]
  <2>1. n \in Nat
    BY <1>1, <1>3
  <2> HIDE DEF n
  <2>2. /\ V \in Walkers /\ V.walkTask = W.walkTask /\ V.walkTaskEvent = W.walkTaskEvent /\ V.errands = W.errands
        /\ V.deeds = W.deeds /\ V.actionTaskEvent = W.actionTaskEvent /\ V.owed = W.owed /\ V.carried = W.carried
        /\ V.posted = W.posted /\ V.eventWalk = W.eventWalk
    BY <1>1, <2>1 DEF Walkers
  <2> HIDE DEF V
  <2>3. TasksSound(V)
    BY <2>2, SameTasks
  <2> QED BY <2>3 DEF V, n
<1>4. ASSUME W.walkTaskEvent  PROVE TasksSound([W EXCEPT !.walkTaskEvent = FALSE, !.errands = @ + 1])
  <2> DEFINE n == W.errands + 1
             V == [W EXCEPT !.walkTaskEvent = FALSE, !.errands = n]
  <2>1. n \in Nat
    BY <1>1
  <2> HIDE DEF n
  <2>2. /\ V \in Walkers /\ V.walkTask = W.walkTask /\ V.walkTaskEvent = FALSE /\ V.errands = n
        /\ V.deeds = W.deeds /\ V.actionTaskEvent = W.actionTaskEvent /\ V.owed = W.owed /\ V.carried = W.carried
        /\ V.posted = W.posted /\ V.eventWalk = W.eventWalk
    BY <1>1, <2>1 DEF Walkers
  <2> HIDE DEF V
  <2>3. One(V.walkTaskEvent) = 0 /\ One(W.walkTaskEvent) = 1
    BY <1>4, <2>2 DEF One
  <2>4. Copies(V) = Copies(W)
    BY <1>1, <2>2, <2>3 DEF Copies, n
  <2>5. TasksSound(V)
    BY <1>1, <2>2, <2>4 DEF TasksSound, Led
  <2> QED BY <2>5 DEF V, n
<1>5. ASSUME W.actionTaskEvent  PROVE TasksSound([W EXCEPT !.actionTaskEvent = FALSE, !.deeds = @ + 1])
  <2> DEFINE n == W.deeds + 1
             V == [W EXCEPT !.actionTaskEvent = FALSE, !.deeds = n]
  <2>1. n \in Nat
    BY <1>1
  <2> HIDE DEF n
  <2>2. /\ V \in Walkers /\ V.walkTask = W.walkTask /\ V.walkTaskEvent = W.walkTaskEvent /\ V.deeds = n
        /\ V.errands = W.errands /\ V.actionTaskEvent = FALSE /\ V.owed = W.owed /\ V.carried = W.carried
        /\ V.posted = W.posted /\ V.eventWalk = W.eventWalk
    BY <1>1, <2>1 DEF Walkers
  <2> HIDE DEF V
  <2>3. One(V.actionTaskEvent) = 0 /\ One(W.actionTaskEvent) = 1
    BY <1>5, <2>2 DEF One
  <2>4. Copies(V) = Copies(W)
    BY <1>1, <2>2, <2>3 DEF Copies, n
  <2>5. TasksSound(V)
    BY <1>1, <2>2, <2>4 DEF TasksSound, Led
  <2> QED BY <2>5 DEF V, n
<1> QED BY <1>2, <1>3, <1>4, <1>5

\* He stops, or time goes by, or a task of the dispatcher is no more in the queue.
LEMMA Waited ==
  ASSUME NEW W, TasksSound(W)
  PROVE  /\ TasksSound([W EXCEPT !.cancelNextWalk = TRUE]) /\ TasksSound([W EXCEPT !.resting = FALSE])
         /\ TasksSound([W EXCEPT !.busy = FALSE])
         /\ W.walks > 0 => TasksSound([W EXCEPT !.walks = @ - 1])
         /\ W.posted # <<>> => [W EXCEPT !.posted = Tail(@)] \in Walkers /\ Head(W.posted) \in Ways
<1>1. W \in Walkers /\ W.walks \in Nat /\ W.posted \in Seq(Ways)
  BY DEF TasksSound, Walkers
<1>2. TasksSound([W EXCEPT !.cancelNextWalk = TRUE])
  <2> DEFINE V == [W EXCEPT !.cancelNextWalk = TRUE]
  <2>1. /\ V \in Walkers /\ V.walkTask = W.walkTask /\ V.walkTaskEvent = W.walkTaskEvent /\ V.errands = W.errands
        /\ V.deeds = W.deeds /\ V.actionTaskEvent = W.actionTaskEvent /\ V.owed = W.owed /\ V.carried = W.carried
        /\ V.posted = W.posted /\ V.eventWalk = W.eventWalk
    BY <1>1 DEF Walkers
  <2> HIDE DEF V
  <2>2. TasksSound(V)
    BY <2>1, SameTasks
  <2> QED BY <2>2 DEF V
<1>3. TasksSound([W EXCEPT !.resting = FALSE])
  <2> DEFINE V == [W EXCEPT !.resting = FALSE]
  <2>1. /\ V \in Walkers /\ V.walkTask = W.walkTask /\ V.walkTaskEvent = W.walkTaskEvent /\ V.errands = W.errands
        /\ V.deeds = W.deeds /\ V.actionTaskEvent = W.actionTaskEvent /\ V.owed = W.owed /\ V.carried = W.carried
        /\ V.posted = W.posted /\ V.eventWalk = W.eventWalk
    BY <1>1 DEF Walkers
  <2> HIDE DEF V
  <2>2. TasksSound(V)
    BY <2>1, SameTasks
  <2> QED BY <2>2 DEF V
<1>4. TasksSound([W EXCEPT !.busy = FALSE])
  <2> DEFINE V == [W EXCEPT !.busy = FALSE]
  <2>1. /\ V \in Walkers /\ V.walkTask = W.walkTask /\ V.walkTaskEvent = W.walkTaskEvent /\ V.errands = W.errands
        /\ V.deeds = W.deeds /\ V.actionTaskEvent = W.actionTaskEvent /\ V.owed = W.owed /\ V.carried = W.carried
        /\ V.posted = W.posted /\ V.eventWalk = W.eventWalk
    BY <1>1 DEF Walkers
  <2> HIDE DEF V
  <2>2. TasksSound(V)
    BY <2>1, SameTasks
  <2> QED BY <2>2 DEF V
<1>5. ASSUME W.walks > 0  PROVE TasksSound([W EXCEPT !.walks = @ - 1])
  <2> DEFINE n == W.walks - 1
             V == [W EXCEPT !.walks = n]
  <2>1. n \in Nat
    BY <1>1, <1>5
  <2> HIDE DEF n
  <2>2. /\ V \in Walkers /\ V.walkTask = W.walkTask /\ V.walkTaskEvent = W.walkTaskEvent /\ V.errands = W.errands
        /\ V.deeds = W.deeds /\ V.actionTaskEvent = W.actionTaskEvent /\ V.owed = W.owed /\ V.carried = W.carried
        /\ V.posted = W.posted /\ V.eventWalk = W.eventWalk
    BY <1>1, <2>1 DEF Walkers
  <2> HIDE DEF V
  <2>3. TasksSound(V)
    BY <2>2, SameTasks
  <2> QED BY <2>3 DEF V, n
<1>6. ASSUME W.posted # <<>>  PROVE [W EXCEPT !.posted = Tail(@)] \in Walkers /\ Head(W.posted) \in Ways
  <2>1. Tail(W.posted) \in Seq(Ways) /\ Head(W.posted) \in Ways
    BY <1>1, <1>6
  <2>2. [W EXCEPT !.posted = Tail(@)] \in Walkers
    BY <1>1, <2>1 DEF Walkers
  <2> QED BY <2>1, <2>2
<1> QED BY <1>2, <1>3, <1>4, <1>5, <1>6

\* A walk begins: it has a timer, and so the walk task will be seen to.
LEMMA Begun ==
  ASSUME NEW W, TasksSound(W), NEW V \in Walkers, Copies(V) <= Copies(W), V.owed = W.owed, NEW list \in Ways, NEW free
  PROVE  TasksSound(StartAutoWalk(V, list, free))
<1> DEFINE U == StartAutoWalk(V, list, free)
<1>1. U \in Walkers /\ Copies(U) <= Copies(V) /\ U.owed = V.owed /\ Led(U)
  BY WalkStarted
<1> HIDE DEF U
<1>2. Copies(U) \in Nat /\ Copies(V) \in Nat /\ Copies(W) \in Nat /\ W.owed \in Int /\ Copies(W) <= W.owed
  BY <1>1, CopiesCount DEF TasksSound
<1> QED BY <1>1, <1>2 DEF TasksSound, U

LEMMA StepWalks ==
  \A dir \in {-1, 1} : <<dir>> \in Ways /\ <<dir, dir>> \in Ways
BY DEF Ways

LEMMA AskKept ==
  ASSUME ErrandsInv, NEW there, NEW way, AskToHandle(there, way)
  PROVE  ErrandsInv'
<1> DEFINE W == [walker EXCEPT !.owed = @ + 1]
<1>1. TasksSound(walker) /\ thing \in Things /\ thing' = thing
  BY DEF ErrandsInv, AskToHandle
<1>2. Ready(W)
  BY <1>1, MadeReady
<1>3. walker' = IF thing.kind = "push" /\ InReach(W) THEN Later(W) ELSE Handle(W, there, way)
  BY DEF AskToHandle
<1> HIDE DEF W
<1>4. TasksSound(Later(W)) /\ TasksSound(Handle(W, there, way))
  BY <1>1, <1>2, ItIsPut, Handled
<1>5. TasksSound(walker')
  BY <1>3, <1>4
<1> QED BY <1>1, <1>5 DEF ErrandsInv, TasksSound, Led

\* An action that does something to the player only.
LEMMA DoesKept ==
  ASSUME ErrandsInv, NEW W, TasksSound(W), Does(W)
  PROVE  ErrandsInv'
<1>1. walker' = W /\ thing' = thing
  BY DEF Does
<1>2. TasksSound(walker')
  BY <1>1
<1> QED BY <1>1, <1>2 DEF ErrandsInv, TasksSound, Led

LEMMA ClientKept ==
  ASSUME ErrandsInv, NEW free, NEW dir \in {-1, 1}, Key(dir, free) \/ Click(dir, free)
  PROVE  ErrandsInv'
<1>1. TasksSound(walker) /\ walker \in Walkers /\ Copies(walker) \in Nat
  BY CopiesCount DEF ErrandsInv, TasksSound
<1>2. CASE Key(dir, free)
  <2> DEFINE V == SetNextWalkActionTask(walker, FALSE)
  <2>1. V \in Walkers /\ Copies(V) <= Copies(walker) + One(FALSE) /\ V.owed = walker.owed
    BY <1>1, TaskSet
  <2>2. Does(StartAutoWalk(V, <<dir>>, free))
    BY <1>2 DEF Key
  <2> HIDE DEF V
  <2>3. Copies(V) <= Copies(walker)
    BY <1>1, <2>1, CopiesCount DEF One
  <2>4. TasksSound(StartAutoWalk(V, <<dir>>, free))
    BY <1>1, <2>1, <2>3, StepWalks, Begun
  <2> QED BY <2>2, <2>4, DoesKept
<1>3. CASE Click(dir, free)
  <2>1. TasksSound(StartAutoWalk(walker, <<dir, dir>>, free))
    BY <1>1, StepWalks, Begun
  <2> QED BY <1>3, <2>1, DoesKept DEF Click
<1> QED BY <1>2, <1>3

LEMMA RunKept ==
  ASSUME ErrandsInv, NEW free, RunWalk(free) \/ RunPosted(free)
  PROVE  ErrandsInv'
<1>1. TasksSound(walker) /\ walker \in Walkers
  BY DEF ErrandsInv, TasksSound
<1>2. CASE RunWalk(free)
  <2> DEFINE V == [walker EXCEPT !.walks = @ - 1]
  <2>1. TasksSound(V) /\ Does(OnWalk(V, free))
    BY <1>1, <1>2, Waited DEF RunWalk
  <2> HIDE DEF V
  <2>2. Walks(V, OnWalk(V, free))
    BY <2>1, WalkRun DEF TasksSound
  <2>3. TasksSound(OnWalk(V, free))
    BY <2>1, <2>2, SoundWalks
  <2> QED BY <2>1, <2>3, DoesKept
<1>3. CASE RunPosted(free)
  <2> DEFINE V == [walker EXCEPT !.posted = Tail(@)]
             list == Head(walker.posted)
  <2>1. V \in Walkers /\ list \in Ways /\ Does(StartAutoWalk(V, list, free))
    BY <1>1, <1>3, Waited DEF RunPosted
  <2>2. /\ V.walkTask = walker.walkTask /\ V.walkTaskEvent = walker.walkTaskEvent /\ V.errands = walker.errands
        /\ V.deeds = walker.deeds /\ V.actionTaskEvent = walker.actionTaskEvent /\ V.owed = walker.owed
    BY <1>1 DEF Walkers
  <2> HIDE DEF V, list
  <2>3. Copies(V) <= Copies(walker)
    BY <1>1, <2>1, <2>2, CopiesCount
  <2>4. TasksSound(StartAutoWalk(V, list, free))
    BY <1>1, <2>1, <2>2, <2>3, Begun
  <2> QED BY <2>1, <2>4, DoesKept
<1> QED BY <1>2, <1>3

LEMMA TaskKept ==
  ASSUME ErrandsInv, NEW there, NEW way, RunErrand(there, way) \/ RunDeed(there, way)
  PROVE  ErrandsInv'
<1>1. TasksSound(walker) /\ thing \in Things
  BY DEF ErrandsInv
<1>2. CASE RunErrand(there, way)
  <2> DEFINE V == [walker EXCEPT !.errands = @ - 1]
  <2>1. Ready(V) /\ Does(Handle(V, there, way))
    BY <1>1, <1>2, MadeReady DEF RunErrand
  <2> HIDE DEF V
  <2>2. TasksSound(Handle(V, there, way))
    BY <1>1, <2>1, Handled
  <2> QED BY <2>1, <2>2, DoesKept
<1>3. CASE RunDeed(there, way)
  <2> DEFINE V == [walker EXCEPT !.deeds = @ - 1]
  <2>1. Ready(V) /\ Does(Handle(V, there, way))
    BY <1>1, <1>3, MadeReady DEF RunDeed
  <2> HIDE DEF V
  <2>2. TasksSound(Handle(V, there, way))
    BY <1>1, <2>1, Handled
  <2> QED BY <2>1, <2>2, DoesKept
<1> QED BY <1>2, <1>3

LEMMA ErrandsStep == ErrandsInv /\ [ErrandsNext]_errandsVars => ErrandsInv'
<1> SUFFICES ASSUME ErrandsInv, [ErrandsNext]_errandsVars  PROVE ErrandsInv'
  OBVIOUS
<1>0. TasksSound(walker) /\ walker \in Walkers /\ thing \in Things
  BY DEF ErrandsInv, TasksSound
<1>1. CASE UNCHANGED errandsVars
  BY <1>1 DEF errandsVars, ErrandsInv, TasksSound, Led, Copies, One
<1>2. CASE StopAutoWalk \/ Rested \/ MayActAgain
  BY <1>0, <1>2, Waited, DoesKept DEF StopAutoWalk, Rested, MayActAgain
<1>3. CASE FireWalk \/ FireErrand \/ FireDeed
  BY <1>0, <1>3, Fired, DoesKept DEF FireWalk, FireErrand, FireDeed
<1>4. ASSUME NEW there \in BOOLEAN, NEW way \in BOOLEAN,
             AskToHandle(there, way) \/ RunErrand(there, way) \/ RunDeed(there, way)
      PROVE  ErrandsInv'
  BY <1>4, AskKept, TaskKept
<1>5. ASSUME NEW free \in BOOLEAN, RunWalk(free) \/ RunPosted(free)
      PROVE  ErrandsInv'
  BY <1>5, RunKept
<1>6. ASSUME NEW free \in BOOLEAN, NEW dir \in {-1, 1}, Key(dir, free) \/ Click(dir, free)
      PROVE  ErrandsInv'
  BY <1>6, ClientKept
<1>7. ASSUME NEW to \in Ground, TeleportWalker(to)
      PROVE  ErrandsInv'
  <2>1. Walks(walker, Arrived(walker, to, TRUE)) /\ Does(Arrived(walker, to, TRUE))
    BY <1>0, <1>7, ArrivedThere DEF TeleportWalker
  <2>2. TasksSound(Arrived(walker, to, TRUE))
    BY <1>0, <2>1, SoundWalks
  <2> QED BY <2>1, <2>2, DoesKept
<1>8. CASE TeleportWalker(Exit) \/ TeleportWalker(thing.at)
  BY <1>0, <1>7, <1>8, ErrandsAssumption
<1> QED BY <1>1, <1>2, <1>3, <1>4, <1>5, <1>6, <1>8 DEF ErrandsNext

\* Whatever he asks, clicks and is teleported between, and however late the tasks come: nothing
\* is done twice, and a walk task is not left behind.
THEOREM ErrandsDoneOnce == ErrandsSpec => []ErrandsKept
<1>1. ErrandsInv => ErrandsKept
  BY DEF ErrandsInv, TasksSound, ErrandsKept, Copies, One, Led
<1> QED BY <1>1, ErrandsStart, ErrandsStep, PTL DEF ErrandsSpec

-----------------------------------------------------------------------------
(* Folds.                                                                  *)

\* A set of numbers has a least one.
LEMMA LeastOne ==
  ASSUME NEW S \in SUBSET Nat, S # {}
  PROVE  \E least \in S : \A k \in S : least <= k
<1>1. \E least \in S : \A k \in S : ~(<<k, least>> \in OpToRel(<, Nat))
  BY NatLessThanWellFounded, WFMin
<1>2. OpToRel(<, Nat) = {ss \in Nat \X Nat : ss[1] < ss[2]}
  BY DEF OpToRel
<1>3. PICK least \in S : \A k \in S : <<k, least>> \notin {ss \in Nat \X Nat : ss[1] < ss[2]}
  BY <1>1, <1>2
<1>4. \A k \in S : least <= k
  <2> SUFFICES ASSUME NEW k \in S  PROVE least <= k
    OBVIOUS
  <2>1. ~(<<k, least>>[1] < <<k, least>>[2])
    BY <1>3
  <2> QED BY <2>1
<1> QED BY <1>4

\* Induction over the subsets of a finite set: P is the set of those for which it holds.
LEMMA SetInduction ==
  ASSUME NEW T, IsFiniteSet(T), NEW P, {} \in P,
         \A s \in SUBSET T : s # {} /\ (\A x \in s : s \ {x} \in P) => s \in P
  PROVE  \A s \in SUBSET T : s \in P
<1> DEFINE bad == {s \in SUBSET T : s \notin P}
           sizes == {Cardinality(s) : s \in bad}
<1>1. \A s \in SUBSET T : IsFiniteSet(s) /\ Cardinality(s) \in Nat
  BY FS_Subset, FS_CardinalityType
<1>2. SUFFICES ASSUME bad # {}  PROVE FALSE
  OBVIOUS
<1>3. PICK least \in sizes : \A k \in sizes : least <= k
  <2>1. sizes \in SUBSET Nat /\ sizes # {}
    BY <1>1, <1>2
  <2> HIDE DEF sizes
  <2> QED BY <2>1, LeastOne
<1>4. PICK s \in bad : Cardinality(s) = least
  BY <1>3
<1>5. \A x \in s : s \ {x} \in P
  <2> SUFFICES ASSUME NEW x \in s, s \ {x} \notin P  PROVE FALSE
    OBVIOUS
  <2>1. s \ {x} \in bad
    OBVIOUS
  <2>2. Cardinality(s \ {x}) = Cardinality(s) - 1
    BY <1>1, FS_RemoveElement
  <2>3. least <= Cardinality(s \ {x})
    BY <1>3, <2>1
  <2> QED BY <1>1, <1>4, <2>2, <2>3
<1> QED BY <1>4, <1>5

\* What a fold yields for the subsets of what it folds: step is what it does with an
\* element and the result so far, pick what it takes of a set.
Folds(T, base, step, pick, f) ==
  \A s \in SUBSET T : f[s] = IF s = {} THEN base ELSE step[<<pick[s], f[s \ {pick[s]}]>>]

\* There is such a function.
LEMMA FoldExists ==
  ASSUME NEW T, IsFiniteSet(T), NEW D, NEW base \in D, NEW step \in [T \X D -> D],
         NEW pick, \A s \in SUBSET T : s # {} => pick[s] \in s
  PROVE  \E f \in [SUBSET T -> D] : Folds(T, base, step, pick, f)
<1>1. \A s \in SUBSET T : IsFiniteSet(s) /\ Cardinality(s) \in Nat /\ Cardinality(s) <= Cardinality(T)
  BY FS_Subset, FS_CardinalityType
<1>2. Cardinality(T) \in Nat
  BY FS_CardinalityType
<1> DEFINE right(f, s) == f[s] = IF s = {} THEN base ELSE step[<<pick[s], f[s \ {pick[s]}]>>]
           upto(n) == \E f \in [SUBSET T -> D] : \A s \in SUBSET T : Cardinality(s) <= n => right(f, s)
           bad == {n \in Nat : ~upto(n)}
<1>3. upto(0)
  <2> DEFINE f == [s \in SUBSET T |-> base]
  <2>1. f \in [SUBSET T -> D]
    OBVIOUS
  <2>2. \A s \in SUBSET T : Cardinality(s) <= 0 => s = {}
    BY <1>1, FS_EmptySet
  <2>3. \A s \in SUBSET T : Cardinality(s) <= 0 => right(f, s)
    BY <2>2
  <2> QED BY <2>1, <2>3
<1>4. ASSUME NEW n \in Nat, upto(n)  PROVE upto(n + 1)
  <2>1. PICK f \in [SUBSET T -> D] : \A s \in SUBSET T : Cardinality(s) <= n => right(f, s)
    BY <1>4
  <2> DEFINE g == [s \in SUBSET T |-> IF Cardinality(s) <= n THEN f[s] ELSE step[<<pick[s], f[s \ {pick[s]}]>>]]
  <2>2. \A s \in SUBSET T : s # {} => /\ pick[s] \in T /\ s \ {pick[s]} \in SUBSET T
                                      /\ Cardinality(s \ {pick[s]}) = Cardinality(s) - 1
    BY <1>1, FS_RemoveElement
  <2>3. \A s \in SUBSET T : ~(Cardinality(s) <= n) => s # {}
    BY <1>1, FS_EmptySet
  <2>4. g \in [SUBSET T -> D]
    BY <2>2, <2>3
  <2>5. ASSUME NEW s \in SUBSET T, Cardinality(s) <= n + 1  PROVE right(g, s)
    <3>1. CASE Cardinality(s) <= n
      <4>1. g[s] = f[s] /\ right(f, s)
        BY <2>1, <3>1
      <4>2. CASE s = {}
        BY <4>1, <4>2
      <4>3. CASE s # {}
        <5>1. Cardinality(s \ {pick[s]}) <= n
          BY <1>1, <2>2, <3>1, <4>3
        <5>2. g[s \ {pick[s]}] = f[s \ {pick[s]}]
          BY <2>2, <4>3, <5>1
        <5> QED BY <4>1, <4>3, <5>2
      <4> QED BY <4>2, <4>3
    <3>2. CASE ~(Cardinality(s) <= n)
      <4>1. s # {}
        BY <2>3, <3>2
      <4>2. Cardinality(s \ {pick[s]}) <= n
        BY <1>1, <2>2, <2>5, <4>1
      <4>3. g[s \ {pick[s]}] = f[s \ {pick[s]}]
        BY <2>2, <4>1, <4>2
      <4> QED BY <3>2, <4>1, <4>3
    <3> QED BY <3>1, <3>2
  <2> QED BY <2>4, <2>5
<1>5. upto(Cardinality(T))
  <2> HIDE DEF upto
  <2>1. SUFFICES ASSUME bad # {}  PROVE FALSE
    BY <1>2
  <2>2. PICK least \in bad : \A k \in bad : least <= k
    <3>1. bad \in SUBSET Nat
      OBVIOUS
    <3> HIDE DEF bad
    <3> QED BY <2>1, <3>1, LeastOne
  <2>3. least # 0
    BY <1>3
  <2>4. least - 1 \in Nat /\ least - 1 \notin bad
    BY <2>2, <2>3
  <2>5. upto(least - 1)
    BY <2>4
  <2>6. upto((least - 1) + 1)
    BY <1>4, <2>4, <2>5
  <2>7. (least - 1) + 1 = least
    BY <2>2
  <2> QED BY <2>2, <2>6, <2>7
<1>6. PICK f \in [SUBSET T -> D] : \A s \in SUBSET T : Cardinality(s) <= Cardinality(T) => right(f, s)
  BY <1>5
<1>7. \A s \in SUBSET T : right(f, s)
  BY <1>1, <1>6
<1> QED BY <1>7 DEF Folds

-----------------------------------------------------------------------------
\* Sums.

\* The element that the community modules' folds take first.
Pick(s) == CHOOSE x \in s : TRUE

\* g gives the sums of f over the subsets of S.
Adds(f, S, g) ==
  /\ g \in [SUBSET S -> Int] /\ g[{}] = 0 /\ SumOf(f, S) = g[S]
  /\ \A s \in SUBSET S : s # {} => g[s] = f[Pick(s)] + g[s \ {Pick(s)}]

\* There is such a function.
LEMMA SumIs ==
  ASSUME NEW S, IsFiniteSet(S), NEW f, \A x \in S : f[x] \in Int
  PROVE  \E g : Adds(f, S, g)
<1> DEFINE pick == [s \in SUBSET S |-> CHOOSE x \in s : TRUE]
           step == [p \in S \X Int |-> f[p[1]] + p[2]]
           eq(g) == g = [s \in SUBSET S |-> IF s = {} THEN 0 ELSE f[CHOOSE x \in s : TRUE] + g[s \ {CHOOSE x \in s : TRUE}]]
           sum == CHOOSE g : eq(g)
<1>1. \A s \in SUBSET S : s # {} => pick[s] \in s
  OBVIOUS
<1>2. step \in [S \X Int -> Int]
  OBVIOUS
<1>3. PICK g \in [SUBSET S -> Int] : Folds(S, 0, step, pick, g)
  <2> HIDE DEF pick, step
  <2>1. 0 \in Int
    OBVIOUS
  <2> QED BY <1>1, <1>2, <2>1, FoldExists
<1>4. ASSUME NEW s \in SUBSET S
      PROVE  g[s] = IF s = {} THEN 0 ELSE f[CHOOSE x \in s : TRUE] + g[s \ {CHOOSE x \in s : TRUE}]
  <2>1. CASE s = {}
    BY <1>3, <2>1 DEF Folds
  <2>2. CASE s # {}
    <3>1. pick[s] \in S /\ s \ {pick[s]} \in SUBSET S /\ pick[s] = CHOOSE x \in s : TRUE
      BY <1>1, <2>2
    <3>2. g[s] = step[<<pick[s], g[s \ {pick[s]}]>>]
      BY <1>3, <2>2 DEF Folds
    <3> HIDE DEF pick
    <3>3. step[<<pick[s], g[s \ {pick[s]}]>>] = f[pick[s]] + g[s \ {pick[s]}]
      BY <3>1
    <3> QED BY <2>2, <3>1, <3>2, <3>3
  <2> QED BY <2>1, <2>2
<1>5. eq(g)
  BY <1>4
<1>6. eq(sum)
  <2> HIDE DEF eq
  <2> QED BY <1>5
<1>7. SumOf(f, S) = sum[S]
  BY DEF SumOf, FoldFunctionOnSet, MapThenFoldSet
<1> HIDE DEF sum
<1>8. \A s \in SUBSET S : sum[s] = IF s = {} THEN 0 ELSE f[CHOOSE x \in s : TRUE] + sum[s \ {CHOOSE x \in s : TRUE}]
  BY <1>6
<1>9. sum \in [SUBSET S -> Int]
  <2> DEFINE P == {s \in SUBSET S : sum[s] \in Int}
  <2>1. {} \in P
    <3>1. sum[{}] = 0
      BY <1>8
    <3> QED BY <3>1
  <2>2. ASSUME NEW s \in SUBSET S, s # {}, \A x \in s : s \ {x} \in P  PROVE s \in P
    <3> DEFINE x == CHOOSE x \in s : TRUE
    <3>1. x \in s /\ sum[s \ {x}] \in Int /\ f[x] \in Int
      BY <2>2
    <3>2. sum[s] = f[x] + sum[s \ {x}]
      BY <1>8, <2>2
    <3> QED BY <3>1, <3>2
  <2> HIDE DEF P
  <2>3. \A s \in SUBSET S : s \in P
    BY <2>1, <2>2, SetInduction
  <2>4. \A s \in SUBSET S : sum[s] \in Int
    BY <2>3 DEF P
  <2>5. sum = [s \in SUBSET S |-> sum[s]]
    BY <1>6
  <2> QED BY <2>4, <2>5
<1>10. \A s \in SUBSET S : s # {} => sum[s] = f[Pick(s)] + sum[s \ {Pick(s)}]
  BY <1>8 DEF Pick
<1>11. sum[{}] = 0
  BY <1>8
<1> QED BY <1>7, <1>9, <1>10, <1>11 DEF Adds

\* A sum is a number; it does not matter which element is added last.
LEMMA SumStep ==
  ASSUME NEW S, IsFiniteSet(S), NEW f, \A x \in S : f[x] \in Int
  PROVE  /\ SumOf(f, S) \in Int
         /\ S = {} => SumOf(f, S) = 0
         /\ \A x \in S : SumOf(f, S) = f[x] + SumOf(f, S \ {x})
<1>1. PICK g : Adds(f, S, g)
  BY SumIs
<1>2. \A s \in SUBSET S : s # {} => Pick(s) \in s
  BY DEF Pick
<1>0. g \in [SUBSET S -> Int] /\ \A s \in SUBSET S : s # {} => g[s] = f[Pick(s)] + g[s \ {Pick(s)}]
  BY <1>1 DEF Adds
\* The order does not matter for g.
<1>3. \A s \in SUBSET S : \A x \in s : g[s] = f[x] + g[s \ {x}]
  <2> DEFINE P == {s \in SUBSET S : \A x \in s : g[s] = f[x] + g[s \ {x}]}
  <2>1. {} \in P
    OBVIOUS
  <2>2. ASSUME NEW s \in SUBSET S, s # {}, \A x \in s : s \ {x} \in P  PROVE s \in P
    <3> SUFFICES ASSUME NEW x \in s  PROVE g[s] = f[x] + g[s \ {x}]
      OBVIOUS
    <3> DEFINE y == Pick(s)
    <3>1. y \in s /\ g[s] = f[y] + g[s \ {y}]
      BY <1>0, <1>2, <2>2
    <3> HIDE DEF y
    <3>2. CASE x = y
      BY <3>1, <3>2
    <3>3. CASE x # y
      <4>1. g[s \ {y}] = f[x] + g[(s \ {y}) \ {x}]
        BY <2>2, <3>1, <3>3
      <4>2. g[s \ {x}] = f[y] + g[(s \ {x}) \ {y}]
        BY <2>2, <3>1, <3>3
      <4>3. (s \ {x}) \ {y} = (s \ {y}) \ {x}
        OBVIOUS
      <4>4. f[x] \in Int /\ f[y] \in Int /\ g[(s \ {y}) \ {x}] \in Int
        BY <1>0, <3>1
      <4>5. g[s] = f[y] + (f[x] + g[(s \ {y}) \ {x}])
        BY <3>1, <4>1
      <4>6. g[s \ {x}] = f[y] + g[(s \ {y}) \ {x}]
        BY <4>2, <4>3
      <4> HIDE DEF P
      <4> QED BY <4>4, <4>5, <4>6
    <3> QED BY <3>2, <3>3
  <2> HIDE DEF P
  <2>3. \A s \in SUBSET S : s \in P
    BY <2>1, <2>2, SetInduction
  <2> QED BY <2>3 DEF P
\* The sum of fewer is the same function's.
<1>4. ASSUME NEW T \in SUBSET S  PROVE SumOf(f, T) = g[T]
  <2>1. IsFiniteSet(T) /\ \A x \in T : f[x] \in Int
    BY FS_Subset
  <2>2. PICK h : Adds(f, T, h)
    BY <2>1, SumIs
  <2> DEFINE P == {s \in SUBSET T : h[s] = g[s]}
  <2>3. {} \in P
    BY <1>1, <2>2 DEF Adds
  <2>4. ASSUME NEW s \in SUBSET T, s # {}, \A x \in s : s \ {x} \in P  PROVE s \in P
    <3> DEFINE y == Pick(s)
    <3>1. y \in s /\ g[s] = f[y] + g[s \ {y}] /\ h[s] = f[y] + h[s \ {y}]
      BY <1>0, <1>2, <2>2, <2>4 DEF Adds
    <3> HIDE DEF y
    <3> QED BY <2>4, <3>1
  <2> HIDE DEF P
  <2>5. \A s \in SUBSET T : s \in P
    BY <2>1, <2>3, <2>4, SetInduction
  <2> QED BY <2>2, <2>5 DEF P, Adds
<1>5. SumOf(f, S) = g[S] /\ g[{}] = 0 /\ g[S] \in Int
  BY <1>1 DEF Adds
<1>6. \A x \in S : SumOf(f, S) = f[x] + SumOf(f, S \ {x})
  BY <1>3, <1>4, <1>5
<1> QED BY <1>5, <1>6

\* A sum depends on what is added only.
LEMMA SumSame ==
  ASSUME NEW S, IsFiniteSet(S), NEW f, NEW g, \A x \in S : f[x] \in Int /\ g[x] = f[x]
  PROVE  SumOf(g, S) = SumOf(f, S)
<1> DEFINE P == {s \in SUBSET S : SumOf(g, s) = SumOf(f, s)}
<1>1. \A s \in SUBSET S : IsFiniteSet(s) /\ \A x \in s : f[x] \in Int /\ g[x] \in Int
  BY FS_Subset
<1>2. {} \in P
  BY SumStep, FS_EmptySet
<1>3. ASSUME NEW s \in SUBSET S, s # {}, \A x \in s : s \ {x} \in P  PROVE s \in P
  <2>1. PICK x : x \in s
    BY <1>3
  <2>2. SumOf(g, s) = g[x] + SumOf(g, s \ {x})
    BY <1>1, <2>1, SumStep
  <2>3. SumOf(f, s) = f[x] + SumOf(f, s \ {x})
    BY <1>1, <2>1, SumStep
  <2> QED BY <1>3, <2>1, <2>2, <2>3
<1> HIDE DEF P
<1>4. \A s \in SUBSET S : s \in P
  BY <1>2, <1>3, SetInduction
<1> QED BY <1>4 DEF P

-----------------------------------------------------------------------------
(* Conditions and worn items.                                              *)

\* Slots are ids of conditions, and 0 is that of spells.
Places == DOMAIN Wearable
Condition == [type : Types, id : {0} \cup Places, left : -1 .. Forever, power : Int]
Body ==
  [online : BOOLEAN, strong : BOOLEAN, worn : [Places -> DOMAIN Worn \cup {Bare}], enabled : [Places -> BOOLEAN],
   conditions : SUBSET Condition, speed : Int, skill : Int, outfit : Int, shown : Int,
   hasten : SUBSET Condition, unparalyze : Nat]

\* The condition of an item hides its bearer until it is taken off.
OfItem(c) == c.id # 0 => c.type = "veil" /\ c.left = Forever
\* A condition that spells or items give.
Proper(c) == c \in Condition /\ OfItem(c)

\* What conditions of some types do together, and worn items that work.
Power == [c \in Condition |-> c.power]
Powers(C, types) == SumOf(Power, {c \in C : c.type \in types})
Speeds == {"haste", "paralyze"}
Skills == {"skill"}

SpeedOf == [k \in DOMAIN Worn |-> Worn[k].speed]
SkillOf == [k \in DOMAIN Worn |-> Worn[k].skill]
EnabledIn(B) == {s \in Places : B.enabled[s]}
Gains(B, gain) == SumOf([s \in Places |-> gain[B.worn[s]]], EnabledIn(B))

\* The list of conditions is as it should be, and the worn items that work can.
Listed(B) ==
  /\ B \in Body
  /\ IsFiniteSet(B.conditions)
  /\ \A c, d \in B.conditions : SameAs(c, d) => c = d
  /\ \A c \in B.conditions : OfItem(c)
  /\ \A c \in B.hasten : c.id = 0
  /\ \A s \in Places : B.enabled[s] => B.worn[s] \in DOMAIN Worn /\ Worn[B.worn[s]].event

\* The outfit is the guise's, and hidden from others by a veil.
Dress(B) ==
  /\ \A c \in B.conditions : c.type = "guise" => B.outfit = c.power
  /\ (\A c \in B.conditions : c.type # "guise") => B.outfit = 0
  /\ B.shown = IF Veiled(B) THEN Unseen ELSE B.outfit

\* Speed and skill are what the conditions and the worn items give.
Sums(B) ==
  /\ B.speed = Powers(B.conditions, Speeds) + Gains(B, SpeedOf)
  /\ B.skill = Powers(B.conditions, Skills) + Gains(B, SkillOf)

\* What is started is undone once.
Balanced(B) == Listed(B) /\ Sums(B) /\ Dress(B)

\* An item hides its bearer while it is worn.
VeilOf(B, s) == \E c \in B.conditions : c.type = "veil" /\ c.id = s
VeilsWorn(B) == \A s \in Places : VeilOf(B, s) <=> (B.enabled[s] /\ Worn[B.worn[s]].veil)

-----------------------------------------------------------------------------
\* The powers of conditions are numbers, and of those of a type they are a sum.
LEMMA PowersAre ==
  ASSUME NEW C \in SUBSET Condition, IsFiniteSet(C), NEW types
  PROVE  /\ Powers(C, types) \in Int
         /\ C = {} => Powers(C, types) = 0
         /\ \A c \in C : Powers(C, types) = (IF c.type \in types THEN c.power ELSE 0) + Powers(C \ {c}, types)
<1> DEFINE S == {c \in C : c.type \in types}
<1>1. IsFiniteSet(S) /\ \A c \in S : Power[c] \in Int
  <2>1. S \in SUBSET C
    OBVIOUS
  <2>2. \A c \in S : Power[c] = c.power /\ c.power \in Int
    BY DEF Power, Condition
  <2> HIDE DEF S
  <2> QED BY <2>1, <2>2, FS_Subset
<1>2. Powers(C, types) = SumOf(Power, S)
  BY DEF Powers
<1>3. /\ SumOf(Power, S) \in Int /\ (S = {} => SumOf(Power, S) = 0)
      /\ \A c \in S : SumOf(Power, S) = Power[c] + SumOf(Power, S \ {c})
  <2> HIDE DEF S
  <2> QED BY <1>1, SumStep
<1>4. ASSUME NEW c \in C  PROVE Powers(C, types) = (IF c.type \in types THEN c.power ELSE 0) + Powers(C \ {c}, types)
  <2>1. CASE c.type \in types
    <3>1. S \ {c} = {d \in C \ {c} : d.type \in types}
      OBVIOUS
    <3>2. Powers(C \ {c}, types) = SumOf(Power, S \ {c})
      BY <3>1 DEF Powers
    <3>3. c \in S /\ Power[c] = c.power
      BY <2>1 DEF Power
    <3> QED BY <1>2, <1>3, <2>1, <3>2, <3>3
  <2>2. CASE c.type \notin types
    <3>1. S = {d \in C \ {c} : d.type \in types}
      BY <2>2
    <3>2. Powers(C \ {c}, types) = SumOf(Power, S)
      BY <3>1 DEF Powers
    <3> QED BY <1>2, <1>3, <2>2, <3>2
  <2> QED BY <2>1, <2>2
<1> QED BY <1>2, <1>3, <1>4

\* One condition more.
LEMMA PowersAdd ==
  ASSUME NEW C \in SUBSET Condition, IsFiniteSet(C), NEW types, NEW c \in Condition \ C
  PROVE  /\ IsFiniteSet(C \cup {c}) /\ Powers(C, types) \in Int
         /\ Powers(C \cup {c}, types) = (IF c.type \in types THEN c.power ELSE 0) + Powers(C, types)
<1>1. C \cup {c} \in SUBSET Condition /\ IsFiniteSet(C \cup {c}) /\ (C \cup {c}) \ {c} = C /\ c \in C \cup {c}
  BY FS_AddElement
<1>2. Powers(C, types) \in Int
  BY PowersAre
<1> DEFINE D == C \cup {c}
<1>3. D \in SUBSET Condition /\ IsFiniteSet(D) /\ c \in D /\ D \ {c} = C
  BY <1>1
<1> HIDE DEF D
<1>4. \A d \in D : Powers(D, types) = (IF d.type \in types THEN d.power ELSE 0) + Powers(D \ {d}, types)
  BY <1>3, PowersAre
<1>5. Powers(D, types) = (IF c.type \in types THEN c.power ELSE 0) + Powers(C, types)
  BY <1>3, <1>4
<1> QED BY <1>1, <1>2, <1>5 DEF D

\* What worn items give is a number.
LEMMA GainsAre ==
  ASSUME NEW B \in Body, NEW gain \in [DOMAIN Worn -> Int],
         \A s \in EnabledIn(B) : B.worn[s] \in DOMAIN Worn
  PROVE  /\ Gains(B, gain) \in Int /\ IsFiniteSet(EnabledIn(B))
         /\ EnabledIn(B) = {} => Gains(B, gain) = 0
         /\ \A s \in EnabledIn(B) : \A R \in Body :
              /\ EnabledIn(R) = EnabledIn(B) \ {s} /\ \A t \in Places \ {s} : R.worn[t] = B.worn[t]
              => Gains(B, gain) = gain[B.worn[s]] + Gains(R, gain)
         /\ \A R \in Body :
              /\ EnabledIn(R) = EnabledIn(B) /\ \A t \in EnabledIn(B) : R.worn[t] = B.worn[t]
              => Gains(R, gain) = Gains(B, gain)
<1> DEFINE f(X) == [s \in Places |-> gain[X.worn[s]]]
           S == EnabledIn(B)
<1>1. S \in SUBSET Places /\ IsFiniteSet(S)
  <2>1. S \in SUBSET Places
    BY DEF EnabledIn
  <2> HIDE DEF S
  <2> QED BY <2>1, EffectsAssumption, FS_Subset DEF Places
<1>2. \A s \in S : f(B)[s] \in Int
  BY <1>1
<1>3. Gains(B, gain) = SumOf(f(B), S)
  BY DEF Gains
<1>4. /\ SumOf(f(B), S) \in Int /\ (S = {} => SumOf(f(B), S) = 0)
      /\ \A s \in S : SumOf(f(B), S) = f(B)[s] + SumOf(f(B), S \ {s})
  <2> HIDE DEF S, f
  <2> QED BY <1>1, <1>2, SumStep
<1>5. ASSUME NEW s \in S, NEW R \in Body, EnabledIn(R) = S \ {s}, \A t \in Places \ {s} : R.worn[t] = B.worn[t]
      PROVE  Gains(B, gain) = gain[B.worn[s]] + Gains(R, gain)
  <2>1. IsFiniteSet(S \ {s}) /\ \A t \in S \ {s} : f(B)[t] \in Int /\ f(R)[t] = f(B)[t]
    BY <1>1, <1>2, <1>5, FS_RemoveElement
  <2>2. SumOf(f(R), S \ {s}) = SumOf(f(B), S \ {s})
    <3> HIDE DEF S, f
    <3> QED BY <2>1, SumSame
  <2>3. Gains(R, gain) = SumOf(f(R), S \ {s})
    BY <1>5 DEF Gains
  <2>4. f(B)[s] = gain[B.worn[s]]
    BY <1>1
  <2> QED BY <1>3, <1>4, <2>2, <2>3, <2>4
<1>6. ASSUME NEW R \in Body, EnabledIn(R) = S, \A t \in S : R.worn[t] = B.worn[t]
      PROVE  Gains(R, gain) = Gains(B, gain)
  <2>1. \A t \in S : f(B)[t] \in Int /\ f(R)[t] = f(B)[t]
    BY <1>1, <1>2, <1>6
  <2>2. SumOf(f(R), S) = SumOf(f(B), S)
    <3> HIDE DEF S, f
    <3> QED BY <1>1, <2>1, SumSame
  <2>3. Gains(R, gain) = SumOf(f(R), S)
    BY <1>6 DEF Gains
  <2> QED BY <1>3, <2>2, <2>3
<1> QED BY <1>1, <1>3, <1>4, <1>5, <1>6

\* The fields of a body.
LEMMA BodyIs ==
  ASSUME NEW B \in Body
  PROVE  /\ B.online \in BOOLEAN /\ B.strong \in BOOLEAN
         /\ B.worn \in [Places -> DOMAIN Worn \cup {Bare}] /\ B.enabled \in [Places -> BOOLEAN]
         /\ B.conditions \in SUBSET Condition /\ B.speed \in Int /\ B.skill \in Int
         /\ B.outfit \in Int /\ B.shown \in Int /\ B.hasten \in SUBSET Condition /\ B.unparalyze \in Nat
BY DEF Body

\* What is left alone when a sum, the outfit or the list of conditions changes.
Same(R, B) ==
  /\ R \in Body /\ R.online = B.online /\ R.strong = B.strong /\ R.worn = B.worn /\ R.enabled = B.enabled
  /\ R.hasten = B.hasten /\ R.unparalyze = B.unparalyze

\* What these are then.
Changed(R, B, C, speed, skill, outfit, shown) ==
  /\ Same(R, B) /\ R.conditions = C /\ R.speed = speed /\ R.skill = skill /\ R.outfit = outfit /\ R.shown = shown

\* Creature::changeSpeed adds to the speed and leaves all else alone.
LEMMA SpeedChanged ==
  ASSUME NEW B \in Body, NEW v \in Int
  PROVE  Changed(Faster(B, v), B, B.conditions, B.speed + v, B.skill, B.outfit, B.shown)
<1> DEFINE n == B.speed + v
           R == [B EXCEPT !.speed = n]
<1>1. n \in Int
  BY BodyIs
<1>2. Faster(B, v) = R
  BY DEF Faster
<1> HIDE DEF n
<1>3. Changed(R, B, B.conditions, n, B.skill, B.outfit, B.shown)
  BY <1>1 DEF Changed, Same, Body
<1> QED BY <1>2, <1>3 DEF n

\* So do skills.
LEMMA SkillChanged ==
  ASSUME NEW B \in Body, NEW v \in Int
  PROVE  Changed(Skilled(B, v), B, B.conditions, B.speed, B.skill + v, B.outfit, B.shown)
<1> DEFINE n == B.skill + v
           R == [B EXCEPT !.skill = n]
<1>1. n \in Int
  BY BodyIs
<1>2. Skilled(B, v) = R
  BY DEF Skilled
<1> HIDE DEF n
<1>3. Changed(R, B, B.conditions, B.speed, n, B.outfit, B.shown)
  BY <1>1 DEF Changed, Same, Body
<1> QED BY <1>2, <1>3 DEF n

\* A change of outfit shows unless he is invisible; hiding and showing change no more than that.
LEMMA OutfitChanged ==
  ASSUME NEW B \in Body, NEW v \in Int
  PROVE  /\ Changed(Dressed(B, v), B, B.conditions, B.speed, B.skill, v, IF Veiled(B) THEN B.shown ELSE v)
         /\ Changed(Hidden(B), B, B.conditions, B.speed, B.skill, B.outfit, Unseen)
         /\ Changed(Visible(B), B, B.conditions, B.speed, B.skill, B.outfit, B.outfit)
<1> DEFINE n == IF Veiled(B) THEN B.shown ELSE v
           R == [B EXCEPT !.outfit = v, !.shown = n]
           u == Unseen
<1>1. n \in Int /\ u \in Int
  BY BodyIs DEF Unseen
<1>2. Dressed(B, v) = R
  BY DEF Dressed
<1>4. Hidden(B) = [B EXCEPT !.shown = u]
  BY DEF Hidden
<1> HIDE DEF n, u
<1>3. Changed(R, B, B.conditions, B.speed, B.skill, v, n)
  BY <1>1 DEF Changed, Same, Body
<1>5. Changed([B EXCEPT !.shown = u], B, B.conditions, B.speed, B.skill, B.outfit, u)
  BY <1>1 DEF Changed, Same, Body
<1>6. Changed(Visible(B), B, B.conditions, B.speed, B.skill, B.outfit, B.outfit)
  BY BodyIs DEF Changed, Same, Body, Visible
<1> QED BY <1>2, <1>3, <1>4, <1>5, <1>6 DEF n, u

\* The list of conditions by itself does nothing.
LEMMA ListChanged ==
  ASSUME NEW B \in Body, NEW C \in SUBSET Condition
  PROVE  Changed([B EXCEPT !.conditions = C], B, C, B.speed, B.skill, B.outfit, B.shown)
BY BodyIs DEF Changed, Same, Body

\* What a condition does to the sums.
Effect(c, types) == IF c.type \in types THEN c.power ELSE 0

\* What starts adds its power, and what ends takes it away.
LEMMA StartedIs ==
  ASSUME NEW B \in Body, NEW c \in Condition
  PROVE  Changed(Started(B, c), B, B.conditions, B.speed + Effect(c, Speeds), B.skill + Effect(c, Skills),
                 IF c.type = "guise" THEN c.power ELSE B.outfit,
                 IF c.type = "veil" THEN Unseen ELSE IF c.type = "guise" /\ ~Veiled(B) THEN c.power ELSE B.shown)
<1>1. c.type \in Types /\ c.power \in Int /\ B.speed \in Int /\ B.skill \in Int
  BY BodyIs DEF Condition
<1>6. B.speed + 0 = B.speed /\ B.skill + 0 = B.skill
  BY <1>1
<1>2. CASE c.type = "haste" \/ c.type = "paralyze"
  <2>1. Started(B, c) = Faster(B, c.power) /\ Effect(c, Speeds) = c.power /\ Effect(c, Skills) = 0
    BY <1>2 DEF Started, Effect, Speeds, Skills
  <2>2. c.type # "guise" /\ c.type # "veil"
    BY <1>2
  <2> QED BY <1>1, <1>6, <2>1, <2>2, SpeedChanged
<1>3. CASE c.type = "skill"
  <2>1. Started(B, c) = Skilled(B, c.power) /\ Effect(c, Speeds) = 0 /\ Effect(c, Skills) = c.power
    BY <1>3 DEF Started, Effect, Speeds, Skills
  <2>2. c.type # "guise" /\ c.type # "veil"
    BY <1>3
  <2> QED BY <1>1, <1>6, <2>1, <2>2, SkillChanged
<1>4. CASE c.type = "veil"
  <2>1. Started(B, c) = Hidden(B) /\ Effect(c, Speeds) = 0 /\ Effect(c, Skills) = 0
    BY <1>4 DEF Started, Effect, Speeds, Skills
  <2>2. 0 \in Int /\ c.type # "guise"
    BY <1>4
  <2> QED BY <1>4, <1>6, <2>1, <2>2, OutfitChanged
<1>5. CASE c.type = "guise"
  <2>1. Started(B, c) = Dressed(B, c.power) /\ Effect(c, Speeds) = 0 /\ Effect(c, Skills) = 0
    BY <1>5 DEF Started, Effect, Speeds, Skills
  <2>2. Changed(Dressed(B, c.power), B, B.conditions, B.speed, B.skill, c.power, IF Veiled(B) THEN B.shown ELSE c.power)
    BY <1>1, OutfitChanged
  <2>3. (IF Veiled(B) THEN B.shown ELSE c.power) = (IF ~Veiled(B) THEN c.power ELSE B.shown)
    OBVIOUS
  <2> QED BY <1>5, <1>6, <2>1, <2>2, <2>3
<1> QED BY <1>1, <1>2, <1>3, <1>4, <1>5 DEF Types

\* endCondition takes away what startCondition gave.
LEMMA EndedIs ==
  ASSUME NEW B \in Body, NEW c \in Condition
  PROVE  Changed(Ended(B, c), B, B.conditions, B.speed - Effect(c, Speeds), B.skill - Effect(c, Skills),
                 IF c.type = "guise" THEN 0 ELSE B.outfit,
                 IF c.type = "veil" /\ ~Veiled(B) THEN B.outfit
                 ELSE IF c.type = "guise" /\ ~Veiled(B) THEN 0 ELSE B.shown)
<1>1. c.type \in Types /\ c.power \in Int /\ B.speed \in Int /\ B.skill \in Int /\ 0 \in Int
  BY BodyIs DEF Condition
<1>6. B.speed - 0 = B.speed /\ B.skill - 0 = B.skill
  BY <1>1
<1>7. -c.power \in Int /\ B.speed + (-c.power) = B.speed - c.power /\ B.skill + (-c.power) = B.skill - c.power
  BY <1>1
<1>2. CASE c.type = "haste" \/ c.type = "paralyze"
  <2>1. Ended(B, c) = Faster(B, -c.power) /\ Effect(c, Speeds) = c.power /\ Effect(c, Skills) = 0
    BY <1>2 DEF Ended, Effect, Speeds, Skills
  <2>2. c.type # "guise" /\ c.type # "veil"
    BY <1>2
  <2>3. Changed(Faster(B, -c.power), B, B.conditions, B.speed + (-c.power), B.skill, B.outfit, B.shown)
    BY <1>7, SpeedChanged
  <2> QED BY <1>6, <1>7, <2>1, <2>2, <2>3
<1>3. CASE c.type = "skill"
  <2>1. Ended(B, c) = Skilled(B, -c.power) /\ Effect(c, Speeds) = 0 /\ Effect(c, Skills) = c.power
    BY <1>3 DEF Ended, Effect, Speeds, Skills
  <2>2. c.type # "guise" /\ c.type # "veil"
    BY <1>3
  <2>3. Changed(Skilled(B, -c.power), B, B.conditions, B.speed, B.skill + (-c.power), B.outfit, B.shown)
    BY <1>7, SkillChanged
  <2> QED BY <1>6, <1>7, <2>1, <2>2, <2>3
<1>4. CASE c.type = "veil"
  <2>1. Effect(c, Speeds) = 0 /\ Effect(c, Skills) = 0 /\ c.type # "guise"
    BY <1>4 DEF Effect, Speeds, Skills
  <2>2. CASE Veiled(B)
    <3>1. Ended(B, c) = B
      BY <1>4, <2>2 DEF Ended
    <3>2. Changed(B, B, B.conditions, B.speed, B.skill, B.outfit, B.shown)
      BY DEF Changed, Same
    <3> QED BY <1>6, <2>1, <2>2, <3>1, <3>2
  <2>3. CASE ~Veiled(B)
    <3>1. Ended(B, c) = Visible(B)
      BY <1>4, <2>3 DEF Ended
    <3>2. Changed(Visible(B), B, B.conditions, B.speed, B.skill, B.outfit, B.outfit)
      BY <1>1, OutfitChanged
    <3> QED BY <1>4, <1>6, <2>1, <2>3, <3>1, <3>2
  <2> QED BY <2>2, <2>3
<1>5. CASE c.type = "guise"
  <2>1. Ended(B, c) = Dressed(B, 0) /\ Effect(c, Speeds) = 0 /\ Effect(c, Skills) = 0 /\ c.type # "veil"
    BY <1>5 DEF Ended, Effect, Speeds, Skills
  <2>2. Changed(Dressed(B, 0), B, B.conditions, B.speed, B.skill, 0, IF Veiled(B) THEN B.shown ELSE 0)
    BY <1>1, OutfitChanged
  <2>3. (IF Veiled(B) THEN B.shown ELSE 0) = (IF ~Veiled(B) THEN 0 ELSE B.shown)
    OBVIOUS
  <2> QED BY <1>5, <1>6, <2>1, <2>2, <2>3
<1> QED BY <1>1, <1>2, <1>3, <1>4, <1>5 DEF Types

\* Two sums that move alike differ by what they differed by.
LEMMA MovedAlike ==
  ASSUME NEW a \in Int, NEW b \in Int, NEW p \in Int, NEW q \in Int, NEW g \in Int, a - b = p - q, b = q + g
  PROVE  a = p + g
OBVIOUS

\* What sets a body right: its list, the two sums and the outfit.
LEMMA SoundIf ==
  ASSUME NEW B, Balanced(B), NEW R, Same(R, B), IsFiniteSet(R.conditions),
         \A c, d \in R.conditions : SameAs(c, d) => c = d,
         \A c \in R.conditions : OfItem(c),
         R.speed - B.speed = Powers(R.conditions, Speeds) - Powers(B.conditions, Speeds),
         R.skill - B.skill = Powers(R.conditions, Skills) - Powers(B.conditions, Skills),
         Dress(R)
  PROVE  Balanced(R)
<1>1. B \in Body /\ R \in Body /\ Listed(B)
  BY DEF Balanced, Listed, Same
<1>2. R.enabled = B.enabled /\ R.worn = B.worn /\ R.hasten = B.hasten
  BY DEF Same
<1>3. EnabledIn(R) = EnabledIn(B)
  BY <1>2 DEF EnabledIn
<1>4. Gains(R, SpeedOf) = Gains(B, SpeedOf) /\ Gains(R, SkillOf) = Gains(B, SkillOf)
  BY <1>2, <1>3 DEF Gains
<1>5. Gains(B, SpeedOf) \in Int /\ Gains(B, SkillOf) \in Int
  <2>1. \A s \in EnabledIn(B) : B.worn[s] \in DOMAIN Worn
    BY <1>1 DEF Listed, EnabledIn
  <2>2. SpeedOf \in [DOMAIN Worn -> Int] /\ SkillOf \in [DOMAIN Worn -> Int]
    BY EffectsAssumption DEF SpeedOf, SkillOf
  <2> QED BY <1>1, <2>1, <2>2, GainsAre
<1>6. B.conditions \in SUBSET Condition /\ IsFiniteSet(B.conditions) /\ R.conditions \in SUBSET Condition
  BY <1>1, BodyIs DEF Listed
<1>7. /\ Powers(B.conditions, Speeds) \in Int /\ Powers(B.conditions, Skills) \in Int
      /\ Powers(R.conditions, Speeds) \in Int /\ Powers(R.conditions, Skills) \in Int
  BY <1>6, PowersAre
<1>8. R.speed \in Int /\ B.speed \in Int /\ R.skill \in Int /\ B.skill \in Int
  BY <1>1, BodyIs
<1>9. Listed(R)
  BY <1>1, <1>2 DEF Listed
<1>10. Sums(R)
  <2>0. /\ R.speed - B.speed = Powers(R.conditions, Speeds) - Powers(B.conditions, Speeds)
        /\ R.skill - B.skill = Powers(R.conditions, Skills) - Powers(B.conditions, Skills)
    OBVIOUS
  <2>1. B.speed = Powers(B.conditions, Speeds) + Gains(B, SpeedOf) /\ B.skill = Powers(B.conditions, Skills) + Gains(B, SkillOf)
    BY DEF Balanced, Sums
  <2>2. R.speed = Powers(R.conditions, Speeds) + Gains(B, SpeedOf)
    BY <1>5, <1>7, <1>8, <2>0, <2>1, MovedAlike
  <2>3. R.skill = Powers(R.conditions, Skills) + Gains(B, SkillOf)
    <3> DEFINE a == R.skill
               b == B.skill
               p == Powers(R.conditions, Skills)
               q == Powers(B.conditions, Skills)
               g == Gains(B, SkillOf)
    <3>1. a \in Int /\ b \in Int /\ p \in Int /\ q \in Int /\ g \in Int
      BY <1>5, <1>7, <1>8
    <3>2. a - b = p - q /\ b = q + g
      BY <2>0, <2>1
    <3> HIDE DEF a, b, p, q, g
    <3>3. a = p + g
      BY <3>1, <3>2, MovedAlike
    <3> QED BY <3>3 DEF a, p, g
  <2> QED BY <1>4, <2>2, <2>3 DEF Sums
<1> QED BY <1>9, <1>10 DEF Balanced

\* There is one guise at most.
LEMMA OneGuise ==
  ASSUME NEW B, Listed(B), NEW c \in B.conditions, NEW d \in B.conditions, c.type = "guise", d.type = "guise"
  PROVE  c = d
<1>1. c.id = 0 /\ d.id = 0
  BY DEF Listed, OfItem
<1> QED BY <1>1 DEF Listed, SameAs

\* What a condition does is a number.
LEMMA EffectIs ==
  ASSUME NEW c \in Condition, NEW types
  PROVE  Effect(c, types) \in Int
BY DEF Effect, Condition

\* A condition that is taken from the list takes what it did with it.
LEMMA TakenIs ==
  ASSUME NEW B, Balanced(B), NEW c \in B.conditions
  PROVE  /\ Balanced(Taken(B, c)) /\ Same(Taken(B, c), B)
         /\ Taken(B, c).conditions = B.conditions \ {c}
<1> DEFINE C == B.conditions \ {c}
           L == [B EXCEPT !.conditions = C]
           R == Taken(B, c)
<1>1. B \in Body /\ Listed(B) /\ B.conditions \in SUBSET Condition /\ IsFiniteSet(B.conditions) /\ c \in Condition
  BY BodyIs DEF Balanced, Listed
<1>2. C \in SUBSET Condition /\ IsFiniteSet(C)
  BY <1>1, FS_RemoveElement
<1>3. Changed(L, B, C, B.speed, B.skill, B.outfit, B.shown)
  <2> HIDE DEF C
  <2> QED BY <1>1, <1>2, ListChanged
<1>4. R = Ended(L, c)
  BY DEF Taken
<1> HIDE DEF L, R
<1>5. L \in Body
  BY <1>3 DEF Changed, Same
<1>6. Changed(R, L, L.conditions, L.speed - Effect(c, Speeds), L.skill - Effect(c, Skills),
              IF c.type = "guise" THEN 0 ELSE L.outfit,
              IF c.type = "veil" /\ ~Veiled(L) THEN L.outfit
              ELSE IF c.type = "guise" /\ ~Veiled(L) THEN 0 ELSE L.shown)
  BY <1>1, <1>4, <1>5, EndedIs
<1>7. Same(R, B) /\ R.conditions = C
  BY <1>3, <1>6 DEF Changed, Same
<1>8. R.speed = B.speed - Effect(c, Speeds) /\ R.skill = B.skill - Effect(c, Skills)
  BY <1>3, <1>6 DEF Changed
<1>9. /\ R.outfit = (IF c.type = "guise" THEN 0 ELSE B.outfit)
      /\ R.shown = (IF c.type = "veil" /\ ~Veiled(R) THEN B.outfit
                    ELSE IF c.type = "guise" /\ ~Veiled(R) THEN 0 ELSE B.shown)
  <2>1. Veiled(R) <=> Veiled(L)
    BY <1>3, <1>7 DEF Veiled, Changed
  <2> QED BY <1>3, <1>6, <2>1 DEF Changed
<1>10. /\ Powers(B.conditions, Speeds) = Effect(c, Speeds) + Powers(C, Speeds)
       /\ Powers(B.conditions, Skills) = Effect(c, Skills) + Powers(C, Skills)
  <2>1. \A d \in B.conditions :
          Powers(B.conditions, Speeds) = (IF d.type \in Speeds THEN d.power ELSE 0) + Powers(B.conditions \ {d}, Speeds)
    BY <1>1, PowersAre
  <2>2. \A d \in B.conditions :
          Powers(B.conditions, Skills) = (IF d.type \in Skills THEN d.power ELSE 0) + Powers(B.conditions \ {d}, Skills)
    BY <1>1, PowersAre
  <2> QED BY <2>1, <2>2 DEF Effect
<1>11. /\ Effect(c, Speeds) \in Int /\ Effect(c, Skills) \in Int
       /\ Powers(C, Speeds) \in Int /\ Powers(C, Skills) \in Int
       /\ B.speed \in Int /\ B.skill \in Int
  <2> HIDE DEF C
  <2> QED BY <1>1, <1>2, EffectIs, PowersAre, BodyIs
<1>12. Dress(R)
  <2>1. \A d \in B.conditions : d.type = "guise" => B.outfit = d.power
    BY DEF Balanced, Dress
  <2>2. (\A d \in B.conditions : d.type # "guise") => B.outfit = 0
    BY DEF Balanced, Dress
  <2>3. B.shown = IF Veiled(B) THEN Unseen ELSE B.outfit
    BY DEF Balanced, Dress
  <2>4. ASSUME NEW d \in R.conditions, d.type = "guise"  PROVE R.outfit = d.power
    <3>1. d \in B.conditions /\ d # c
      BY <1>7, <2>4
    <3>2. c.type # "guise"
      BY <1>1, <2>4, <3>1, OneGuise
    <3> QED BY <1>9, <2>1, <2>4, <3>1, <3>2
  <2>5. ASSUME \A d \in R.conditions : d.type # "guise"  PROVE R.outfit = 0
    <3>1. CASE c.type = "guise"
      BY <1>9, <3>1
    <3>2. CASE c.type # "guise"
      BY <1>7, <1>9, <2>2, <2>5, <3>2
    <3> QED BY <3>1, <3>2
  <2>6. R.shown = IF Veiled(R) THEN Unseen ELSE R.outfit
    <3>1. CASE c.type = "veil"
      <4>1. Veiled(B)
        BY <3>1 DEF Veiled
      <4> QED BY <1>9, <2>3, <3>1, <4>1
    <3>2. CASE c.type # "veil"
      <4>1. Veiled(R) <=> Veiled(B)
        BY <1>7, <3>2 DEF Veiled
      <4> QED BY <1>9, <2>3, <3>2, <4>1
    <3> QED BY <3>1, <3>2
  <2> QED BY <2>4, <2>5, <2>6 DEF Dress
<1>13. /\ R.speed - B.speed = Powers(C, Speeds) - Powers(B.conditions, Speeds)
       /\ R.skill - B.skill = Powers(C, Skills) - Powers(B.conditions, Skills)
  <2> HIDE DEF C
  <2> QED BY <1>8, <1>10, <1>11
<1>14. /\ \A d, e \in C : SameAs(d, e) => d = e
       /\ \A d \in C : OfItem(d)
  BY <1>1 DEF Listed
<1> HIDE DEF C
<1>15. Balanced(R)
  BY <1>2, <1>7, <1>12, <1>13, <1>14, SoundIf
<1> QED BY <1>7, <1>15 DEF C, R

\* A condition that is new does what it does once.
LEMMA NewIs ==
  ASSUME NEW B, Balanced(B), NEW c, Proper(c), \A d \in B.conditions : ~SameAs(d, c), NEW R,
         R = [Started(B, c) EXCEPT !.conditions = @ \cup {c}]
  PROVE  Balanced(R) /\ Same(R, B) /\ R.conditions = B.conditions \cup {c}
<1> DEFINE C == B.conditions \cup {c}
           S == Started(B, c)
<1>1. B \in Body /\ Listed(B) /\ B.conditions \in SUBSET Condition /\ IsFiniteSet(B.conditions) /\ c \in Condition
  BY BodyIs DEF Balanced, Listed, Proper
<1>2. c \notin B.conditions
  BY DEF SameAs
<1>3. /\ IsFiniteSet(C) /\ C \in SUBSET Condition
      /\ Powers(C, Speeds) = Effect(c, Speeds) + Powers(B.conditions, Speeds)
      /\ Powers(C, Skills) = Effect(c, Skills) + Powers(B.conditions, Skills)
  BY <1>1, <1>2, PowersAdd DEF Effect
<1>4. Changed(S, B, B.conditions, B.speed + Effect(c, Speeds), B.skill + Effect(c, Skills),
              IF c.type = "guise" THEN c.power ELSE B.outfit,
              IF c.type = "veil" THEN Unseen ELSE IF c.type = "guise" /\ ~Veiled(B) THEN c.power ELSE B.shown)
  BY <1>1, StartedIs
<1>5. S.conditions = B.conditions /\ S \in Body
  BY <1>4 DEF Changed, Same
<1>6. R = [S EXCEPT !.conditions = C]
  BY <1>5
<1> HIDE DEF S, C
<1>7. Changed(R, S, C, S.speed, S.skill, S.outfit, S.shown)
  BY <1>3, <1>5, <1>6, ListChanged
<1>8. Same(R, B) /\ R.conditions = C
  BY <1>4, <1>7 DEF Changed, Same
<1>9. /\ R.speed = B.speed + Effect(c, Speeds) /\ R.skill = B.skill + Effect(c, Skills)
      /\ R.outfit = (IF c.type = "guise" THEN c.power ELSE B.outfit)
      /\ R.shown = (IF c.type = "veil" THEN Unseen ELSE IF c.type = "guise" /\ ~Veiled(B) THEN c.power ELSE B.shown)
  BY <1>4, <1>7 DEF Changed
<1>10. /\ Effect(c, Speeds) \in Int /\ Effect(c, Skills) \in Int
       /\ Powers(B.conditions, Speeds) \in Int /\ Powers(B.conditions, Skills) \in Int
       /\ B.speed \in Int /\ B.skill \in Int
  BY <1>1, EffectIs, PowersAre, BodyIs
<1>11. /\ R.speed - B.speed = Powers(C, Speeds) - Powers(B.conditions, Speeds)
       /\ R.skill - B.skill = Powers(C, Skills) - Powers(B.conditions, Skills)
  BY <1>3, <1>9, <1>10
<1>12. /\ \A d, e \in C : SameAs(d, e) => d = e
       /\ \A d \in C : OfItem(d)
  <2>1. \A d \in B.conditions : ~SameAs(c, d)
    BY DEF SameAs
  <2> QED BY <1>1, <2>1 DEF C, Listed, Proper
<1>13. Dress(R)
  <2>1. \A d \in B.conditions : d.type = "guise" => B.outfit = d.power
    BY DEF Balanced, Dress
  <2>2. (\A d \in B.conditions : d.type # "guise") => B.outfit = 0
    BY DEF Balanced, Dress
  <2>3. B.shown = IF Veiled(B) THEN Unseen ELSE B.outfit
    BY DEF Balanced, Dress
  <2>4. ASSUME NEW d \in R.conditions, d.type = "guise"  PROVE R.outfit = d.power
    <3>1. CASE d = c
      BY <1>9, <2>4, <3>1
    <3>2. CASE d # c
      <4>1. d \in B.conditions
        BY <1>8, <2>4, <3>2 DEF C
      <4>2. c.type # "guise"
        <5> SUFFICES ASSUME c.type = "guise"  PROVE FALSE
          OBVIOUS
        <5>1. d.id = 0 /\ c.id = 0
          BY <1>1, <2>4, <4>1 DEF Listed, OfItem, Proper
        <5> QED BY <2>4, <4>1, <5>1 DEF SameAs
      <4> QED BY <1>9, <2>1, <2>4, <4>1, <4>2
    <3> QED BY <3>1, <3>2
  <2>5. ASSUME \A d \in R.conditions : d.type # "guise"  PROVE R.outfit = 0
    BY <1>8, <1>9, <2>2, <2>5 DEF C
  <2>6. R.shown = IF Veiled(R) THEN Unseen ELSE R.outfit
    <3>1. Veiled(R) <=> (c.type = "veil" \/ Veiled(B))
      BY <1>8 DEF Veiled, C
    <3> QED BY <1>9, <2>3, <3>1
  <2> QED BY <2>4, <2>5, <2>6 DEF Dress
<1>14. Balanced(R)
  BY <1>3, <1>8, <1>11, <1>12, <1>13, SoundIf
<1> QED BY <1>8, <1>14 DEF C

\* A condition that takes the place of one of its kind and the difference with it.
LEMMA PutIs ==
  ASSUME NEW B, Balanced(B), NEW old \in B.conditions, NEW new, Proper(new), SameAs(old, new), NEW R, Same(R, B),
         R.conditions = (B.conditions \ {old}) \cup {new},
         R.speed = B.speed - Effect(old, Speeds) + Effect(new, Speeds),
         R.skill = B.skill - Effect(old, Skills) + Effect(new, Skills),
         R.outfit = (IF new.type = "guise" THEN new.power ELSE B.outfit),
         R.shown = (IF new.type = "guise" /\ ~Veiled(B) THEN new.power ELSE B.shown)
  PROVE  Balanced(R) /\ \A s \in Places : VeilOf(R, s) <=> VeilOf(B, s)
<1> DEFINE D == B.conditions \ {old}
           C == R.conditions
<1>1. /\ B \in Body /\ Listed(B) /\ B.conditions \in SUBSET Condition /\ IsFiniteSet(B.conditions)
      /\ old \in Condition /\ new \in Condition
  BY BodyIs DEF Balanced, Listed, Proper
<1>2. D \in SUBSET Condition /\ IsFiniteSet(D)
  BY <1>1, FS_RemoveElement
<1>3. new \in Condition \ D
  BY <1>1 DEF Listed
<1>4. C = D \cup {new}
  OBVIOUS
<1>5. /\ Powers(B.conditions, Speeds) = Effect(old, Speeds) + Powers(D, Speeds)
      /\ Powers(B.conditions, Skills) = Effect(old, Skills) + Powers(D, Skills)
  <2>1. \A c \in B.conditions :
          Powers(B.conditions, Speeds) = (IF c.type \in Speeds THEN c.power ELSE 0) + Powers(B.conditions \ {c}, Speeds)
    BY <1>1, PowersAre
  <2>2. \A c \in B.conditions :
          Powers(B.conditions, Skills) = (IF c.type \in Skills THEN c.power ELSE 0) + Powers(B.conditions \ {c}, Skills)
    BY <1>1, PowersAre
  <2> QED BY <2>1, <2>2 DEF Effect
<1> HIDE DEF C
<1>6. /\ \A d, e \in C : SameAs(d, e) => d = e
      /\ \A d \in C : OfItem(d)
  <2>1. \A d \in D : d \in B.conditions /\ d # old
    OBVIOUS
  <2>2. \A d \in D : ~SameAs(d, new) /\ ~SameAs(new, d)
    BY <1>1, <2>1 DEF Listed, SameAs
  <2> HIDE DEF D
  <2> QED BY <1>1, <1>4, <2>1, <2>2 DEF Listed, Proper
<1> HIDE DEF D
<1>7. /\ IsFiniteSet(C)
      /\ Powers(C, Speeds) = Effect(new, Speeds) + Powers(D, Speeds)
      /\ Powers(C, Skills) = Effect(new, Skills) + Powers(D, Skills)
  BY <1>2, <1>3, <1>4, PowersAdd DEF Effect
<1>8. /\ Effect(old, Speeds) \in Int /\ Effect(old, Skills) \in Int
      /\ Effect(new, Speeds) \in Int /\ Effect(new, Skills) \in Int
      /\ Powers(D, Speeds) \in Int /\ Powers(D, Skills) \in Int
      /\ B.speed \in Int /\ B.skill \in Int
  BY <1>1, <1>2, EffectIs, PowersAre, BodyIs
<1>9. /\ R.speed - B.speed = Powers(C, Speeds) - Powers(B.conditions, Speeds)
      /\ R.skill - B.skill = Powers(C, Skills) - Powers(B.conditions, Skills)
  BY <1>5, <1>7, <1>8
<1>10. Veiled(R) <=> Veiled(B)
  BY <1>4 DEF Veiled, C, D, SameAs
<1>11. Dress(R)
  <2>1. \A d \in B.conditions : d.type = "guise" => B.outfit = d.power
    BY DEF Balanced, Dress
  <2>2. (\A d \in B.conditions : d.type # "guise") => B.outfit = 0
    BY DEF Balanced, Dress
  <2>3. B.shown = IF Veiled(B) THEN Unseen ELSE B.outfit
    BY DEF Balanced, Dress
  <2>4. ASSUME NEW d \in C, d.type = "guise"  PROVE R.outfit = d.power
    <3>1. CASE d = new
      BY <2>4, <3>1
    <3>2. CASE d # new
      <4>1. d \in B.conditions /\ d # old
        BY <1>4, <2>4, <3>2 DEF D
      <4>2. old.type # "guise"
        BY <1>1, <2>4, <4>1, OneGuise
      <4>3. new.type # "guise"
        BY <4>2 DEF SameAs
      <4> QED BY <2>1, <2>4, <4>1, <4>3
    <3> QED BY <3>1, <3>2
  <2>5. ASSUME \A d \in C : d.type # "guise"  PROVE R.outfit = 0
    <3>1. new.type # "guise" /\ old.type # "guise"
      BY <1>4, <2>5 DEF SameAs
    <3>2. \A d \in B.conditions : d.type # "guise"
      BY <1>4, <2>5, <3>1 DEF D
    <3> QED BY <2>2, <3>1, <3>2
  <2>6. R.shown = IF Veiled(R) THEN Unseen ELSE R.outfit
    BY <1>10, <2>3
  <2> QED BY <2>4, <2>5, <2>6 DEF Dress, C
<1>12. Balanced(R)
  BY <1>6, <1>7, <1>9, <1>11, SoundIf DEF C
<1>13. ASSUME NEW s \in Places  PROVE VeilOf(R, s) <=> VeilOf(B, s)
  BY <1>4 DEF VeilOf, C, D, SameAs
<1> QED BY <1>12, <1>13

\* g gives what a fold yields for the subsets of T.
Iterates(T, D, base, step, g) ==
  /\ g \in [SUBSET T -> D]
  /\ \A s \in SUBSET T : g[s] = IF s = {} THEN base ELSE step[<<Pick(s), g[s \ {Pick(s)}]>>]

\* There is such a function.
LEMMA FoldIs ==
  ASSUME NEW T, IsFiniteSet(T), NEW D, NEW base \in D, NEW step \in [T \X D -> D]
  PROVE  \E g : Iterates(T, D, base, step, g)
<1> DEFINE pick == [s \in SUBSET T |-> Pick(s)]
<1>1. \A s \in SUBSET T : s # {} => pick[s] \in s
  BY DEF Pick
<1>2. PICK g \in [SUBSET T -> D] : Folds(T, base, step, pick, g)
  <2> HIDE DEF pick
  <2> QED BY <1>1, FoldExists
<1> QED BY <1>2 DEF Folds, Iterates

\* A body stays one when a condition is taken from it.
LEMMA TakenBody ==
  ASSUME NEW B \in Body, NEW c \in Condition
  PROVE  Taken(B, c) \in Body
<1> DEFINE C == B.conditions \ {c}
           L == [B EXCEPT !.conditions = C]
<1>1. C \in SUBSET Condition
  BY BodyIs
<1>2. L \in Body
  <2> HIDE DEF C
  <2> QED BY <1>1, ListChanged DEF Changed, Same
<1>3. Taken(B, c) = Ended(L, c)
  BY DEF Taken
<1> HIDE DEF L
<1> QED BY <1>2, <1>3, EndedIs DEF Changed, Same

\* Conditions that are taken one by one.
LEMMA AllTaken ==
  ASSUME NEW B, Balanced(B), NEW T \in SUBSET B.conditions, NEW F, F = FoldSet(LAMBDA c, X : Taken(X, c), B, T)
  PROVE  Balanced(F) /\ Same(F, B) /\ F.conditions = B.conditions \ T
<1>1. B \in Body /\ B.conditions \in SUBSET Condition /\ IsFiniteSet(B.conditions)
  BY BodyIs DEF Balanced, Listed
<1>2. IsFiniteSet(T) /\ T \in SUBSET Condition
  BY <1>1, FS_Subset
<1> DEFINE step == [p \in T \X Body |-> Taken(p[2], p[1])]
           eq(g) == g = [s \in SUBSET T |-> IF s = {} THEN B
                                            ELSE Taken(g[s \ {CHOOSE x \in s : TRUE}], CHOOSE x \in s : TRUE)]
           iter == CHOOSE g : eq(g)
<1>3. step \in [T \X Body -> Body]
  BY <1>2, TakenBody
<1>4. PICK g : Iterates(T, Body, B, step, g)
  <2> HIDE DEF step
  <2>1. B \in Body /\ IsFiniteSet(T)
    BY <1>1, <1>2
  <2> QED BY <1>3, <2>1, FoldIs
<1>5. ASSUME NEW s \in SUBSET T, s # {}
      PROVE  g[s] = Taken(g[s \ {Pick(s)}], Pick(s))
  <2>1. Pick(s) \in T /\ s \ {Pick(s)} \in SUBSET T
    BY <1>5 DEF Pick
  <2>2. <<Pick(s), g[s \ {Pick(s)}]>> \in T \X Body
    BY <1>4, <2>1 DEF Iterates
  <2> QED BY <1>4, <1>5, <2>2 DEF Iterates
<1>6. eq(g)
  <2>1. g = [s \in SUBSET T |-> g[s]] /\ g[{}] = B
    BY <1>4 DEF Iterates
  <2> QED BY <1>5, <2>1 DEF Pick
<1>7. eq(iter)
  <2> HIDE DEF eq
  <2> QED BY <1>6
<1>8. F = iter[T]
  BY DEF FoldSet, MapThenFoldSet
<1> HIDE DEF iter, step
<1>9. iter[{}] = B /\ \A s \in SUBSET T : s # {} => iter[s] = Taken(iter[s \ {Pick(s)}], Pick(s))
  BY <1>7 DEF Pick
<1> HIDE DEF eq
<1> DEFINE P == {s \in SUBSET T : Balanced(iter[s]) /\ Same(iter[s], B) /\ iter[s].conditions = B.conditions \ s}
<1>10. {} \in P
  BY <1>1, <1>9 DEF Same
<1>11. ASSUME NEW s \in SUBSET T, s # {}, \A x \in s : s \ {x} \in P  PROVE s \in P
  <2> DEFINE x == Pick(s)
             X == iter[s \ {x}]
  <2>1. x \in s
    BY <1>11 DEF Pick
  <2>2. iter[s] = Taken(X, x)
    BY <1>9, <1>11
  <2>3. Balanced(X) /\ Same(X, B) /\ X.conditions = B.conditions \ (s \ {x})
    BY <1>11, <2>1
  <2> HIDE DEF x, X
  <2>4. x \in X.conditions
    BY <2>1, <2>3
  <2>5. Balanced(Taken(X, x)) /\ Same(Taken(X, x), X) /\ Taken(X, x).conditions = X.conditions \ {x}
    BY <2>3, <2>4, TakenIs
  <2>6. X.conditions \ {x} = B.conditions \ s
    BY <2>1, <2>3
  <2>7. Same(iter[s], B)
    BY <2>2, <2>3, <2>5 DEF Same
  <2> QED BY <2>2, <2>5, <2>6, <2>7
<1>12. \A s \in SUBSET T : s \in P
  <2> HIDE DEF P
  <2> QED BY <1>2, <1>10, <1>11, SetInduction
<1> QED BY <1>8, <1>12

\* What later tasks will do may change besides the conditions.
Tasked(R, B) ==
  /\ Balanced(R) /\ R.online = B.online /\ R.strong = B.strong /\ R.worn = B.worn /\ R.enabled = B.enabled

\* What waits for the end of a step does nothing yet.
LEMMA LaterIs ==
  ASSUME NEW B, Balanced(B), NEW H \in SUBSET Condition, \A c \in H : c.id = 0, NEW n \in Nat
  PROVE  /\ Tasked([B EXCEPT !.hasten = H], B) /\ [B EXCEPT !.hasten = H].conditions = B.conditions
         /\ Tasked([B EXCEPT !.unparalyze = n], B) /\ [B EXCEPT !.unparalyze = n].conditions = B.conditions
<1>1. B \in Body
  BY DEF Balanced, Listed
<1>2. ASSUME NEW R, R \in Body, R.online = B.online, R.strong = B.strong, R.worn = B.worn, R.enabled = B.enabled,
             R.conditions = B.conditions, R.speed = B.speed, R.skill = B.skill, R.outfit = B.outfit, R.shown = B.shown,
             \A c \in R.hasten : c.id = 0
      PROVE  Tasked(R, B)
  <2>1. Listed(R)
    BY <1>2 DEF Balanced, Listed
  <2>2. EnabledIn(R) = EnabledIn(B)
    BY <1>2 DEF EnabledIn
  <2>3. Sums(R)
    BY <1>2, <2>2 DEF Balanced, Sums, Gains
  <2>4. Dress(R)
    BY <1>2 DEF Balanced, Dress, Veiled
  <2> QED BY <1>2, <2>1, <2>3, <2>4 DEF Tasked, Balanced
<1> DEFINE X == [B EXCEPT !.hasten = H]
           Y == [B EXCEPT !.unparalyze = n]
<1>3. /\ X \in Body /\ X.online = B.online /\ X.strong = B.strong /\ X.worn = B.worn /\ X.enabled = B.enabled
      /\ X.conditions = B.conditions /\ X.speed = B.speed /\ X.skill = B.skill /\ X.outfit = B.outfit /\ X.shown = B.shown
      /\ X.hasten = H
  BY <1>1 DEF Body
<1>4. /\ Y \in Body /\ Y.online = B.online /\ Y.strong = B.strong /\ Y.worn = B.worn /\ Y.enabled = B.enabled
      /\ Y.conditions = B.conditions /\ Y.speed = B.speed /\ Y.skill = B.skill /\ Y.outfit = B.outfit /\ Y.shown = B.shown
      /\ Y.hasten = B.hasten
  BY <1>1 DEF Body
<1> HIDE DEF X, Y
<1>5. Tasked(X, B)
  BY <1>2, <1>3
<1>6. Tasked(Y, B)
  <2>1. \A c \in Y.hasten : c.id = 0
    BY <1>4 DEF Balanced, Listed
  <2> QED BY <1>2, <1>4, <2>1
<1> QED BY <1>3, <1>4, <1>5, <1>6 DEF X, Y

\* Creature::removeCondition by type undoes what it removes.
LEMMA RemovedIs ==
  ASSUME NEW B, Balanced(B), NEW type \in Types \ {"veil"}, NEW stepping \in BOOLEAN
  PROVE  Tasked(Removed(B, type, stepping), B) /\ \A s \in Places : VeilOf(Removed(B, type, stepping), s) <=> VeilOf(B, s)
<1> DEFINE T == {c \in B.conditions : c.type = type}
           F == FoldSet(LAMBDA c, X : Taken(X, c), B, T)
           R == Removed(B, type, stepping)
<1>1. CASE type = "paralyze" /\ stepping /\ \E c \in B.conditions : c.type = type
  <2> DEFINE n == B.unparalyze + 1
  <2>1. R = [B EXCEPT !.unparalyze = n]
    BY <1>1 DEF Removed
  <2>2. n \in Nat
    BY BodyIs DEF Balanced, Listed
  <2>3. {} \in SUBSET Condition /\ \A c \in {} : c.id = 0
    OBVIOUS
  <2> HIDE DEF n, R
  <2>4. Tasked(R, B) /\ R.conditions = B.conditions
    BY <2>1, <2>2, <2>3, LaterIs
  <2> QED BY <2>4 DEF VeilOf, R
<1>2. CASE ~(type = "paralyze" /\ stepping /\ \E c \in B.conditions : c.type = type)
  <2>1. R = F
    BY <1>2 DEF Removed
  <2>2. Balanced(F) /\ Same(F, B) /\ F.conditions = B.conditions \ T
    BY AllTaken
  <2> HIDE DEF F, R
  <2>3. \A s \in Places : VeilOf(F, s) <=> VeilOf(B, s)
    BY <2>2 DEF VeilOf
  <2>4. Tasked(F, B)
    BY <2>2 DEF Tasked, Same
  <2> QED BY <2>1, <2>3, <2>4 DEF R
<1> QED BY <1>1, <1>2

\* The same items hide their bearer.
SameVeils(R, B) == \A s \in Places : VeilOf(R, s) <=> VeilOf(B, s)

\* Creature::onAddCondition
LEMMA OpposedIs ==
  ASSUME NEW B, Balanced(B), NEW type, NEW stepping \in BOOLEAN
  PROVE  Tasked(Opposed(B, type, stepping), B) /\ SameVeils(Opposed(B, type, stepping), B)
<1>1. "haste" \in Types \ {"veil"} /\ "paralyze" \in Types \ {"veil"}
  BY DEF Types
<1>2. CASE type = "paralyze" /\ Has(B, "haste")
  <2>1. Opposed(B, type, stepping) = Removed(B, "haste", stepping)
    BY <1>2 DEF Opposed
  <2> QED BY <1>1, <2>1, RemovedIs DEF SameVeils
<1>3. CASE type = "haste" /\ Has(B, "paralyze")
  <2>1. Opposed(B, type, stepping) = Removed(B, "paralyze", stepping)
    BY <1>3 DEF Opposed
  <2> QED BY <1>1, <2>1, RemovedIs DEF SameVeils
<1>4. CASE ~(type = "paralyze" /\ Has(B, "haste")) /\ ~(type = "haste" /\ Has(B, "paralyze"))
  <2>1. Opposed(B, type, stepping) = B
    BY <1>4 DEF Opposed
  <2> QED BY <2>1 DEF SameVeils, Tasked
<1> QED BY <1>2, <1>3, <1>4

\* Only the list changes when a condition takes the place of another.
LEMMA PutList ==
  ASSUME NEW B \in Body, NEW old, NEW new \in Condition
  PROVE  Changed(Put(B, old, new), B, (B.conditions \ {old}) \cup {new}, B.speed, B.skill, B.outfit, B.shown)
<1> DEFINE C == (B.conditions \ {old}) \cup {new}
<1>1. C \in SUBSET Condition
  BY BodyIs
<1>2. Put(B, old, new) = [B EXCEPT !.conditions = C]
  BY DEF Put
<1> HIDE DEF C
<1>3. Changed([B EXCEPT !.conditions = C], B, C, B.speed, B.skill, B.outfit, B.shown)
  BY <1>1, ListChanged
<1> QED BY <1>2, <1>3 DEF C

\* addCondition of a condition that is there already, by its class, leaves a sound body.
LEMMA RenewedIs ==
  ASSUME NEW B, Balanced(B), NEW old \in B.conditions, NEW c, Proper(c), SameAs(old, c)
  PROVE  Tasked(Renewed(B, old, c), B) /\ SameVeils(Renewed(B, old, c), B)
<1> DEFINE R == Renewed(B, old, c)
           M == Put(B, old, c)
<1>1. B \in Body /\ Listed(B) /\ B.conditions \in SUBSET Condition /\ old \in Condition /\ c \in Condition /\ OfItem(old)
  BY BodyIs DEF Balanced, Listed, Proper
<1>2. /\ old.type = c.type /\ old.id = c.id /\ c.type \in Types /\ c.power \in Int /\ old.power \in Int
      /\ B.speed \in Int /\ B.skill \in Int
  BY <1>1, BodyIs DEF SameAs, Condition
<1>3. Changed(M, B, (B.conditions \ {old}) \cup {c}, B.speed, B.skill, B.outfit, B.shown)
  BY <1>1, PutList
<1>4. Tasked(B, B) /\ SameVeils(B, B)
  BY DEF Tasked, SameVeils
<1>5. ASSUME NEW X, Same(X, B), Balanced(X) /\ \A s \in Places : VeilOf(X, s) <=> VeilOf(B, s)
      PROVE  Tasked(X, B) /\ SameVeils(X, B)
  BY <1>5 DEF Tasked, Same, SameVeils
<1> HIDE DEF M
<1>6. CASE c.type = "haste" \/ c.type = "paralyze"
  <2>1. Renewed(B, old, c) = RenewedSpeed(B, old, c)
    BY <1>6 DEF Renewed
  <2>2. CASE old.left = Forever
    BY <1>4, <2>1, <2>2 DEF RenewedSpeed
  <2>3. CASE old.left # Forever
    <3> DEFINE v == c.power - old.power
               X == Faster(M, v)
    <3>1. R = X
      BY <2>1, <2>3 DEF RenewedSpeed, M
    <3>2. v \in Int /\ M \in Body
      BY <1>2, <1>3 DEF Changed, Same
    <3> HIDE DEF v, R
    <3>3. Changed(X, M, M.conditions, M.speed + v, M.skill, M.outfit, M.shown)
      BY <3>2, SpeedChanged
    <3> HIDE DEF X
    <3>4. /\ Same(X, B) /\ X.conditions = (B.conditions \ {old}) \cup {c} /\ X.speed = B.speed + v
          /\ X.skill = B.skill /\ X.outfit = B.outfit /\ X.shown = B.shown
      BY <1>3, <3>3 DEF Changed, Same
    <3>5. Effect(old, Speeds) = old.power /\ Effect(c, Speeds) = c.power /\ Effect(old, Skills) = 0 /\ Effect(c, Skills) = 0
      BY <1>2, <1>6 DEF Effect, Speeds, Skills
    <3>6. X.speed = B.speed - Effect(old, Speeds) + Effect(c, Speeds)
      BY <1>2, <3>4, <3>5 DEF v
    <3>7. X.skill = B.skill - Effect(old, Skills) + Effect(c, Skills)
      BY <1>2, <3>4, <3>5
    <3>8. c.type # "guise"
      BY <1>6
    <3>9. Balanced(X) /\ \A s \in Places : VeilOf(X, s) <=> VeilOf(B, s)
      BY <3>4, <3>6, <3>7, <3>8, PutIs
    <3> QED BY <1>5, <3>1, <3>4, <3>9 DEF R
  <2> QED BY <2>2, <2>3
<1>7. CASE c.type = "skill"
  <2>1. Renewed(B, old, c) = RenewedSkill(B, old, c)
    BY <1>7 DEF Renewed
  <2>2. CASE ~Renews(old, c)
    BY <1>4, <2>1, <2>2 DEF RenewedSkill
  <2>3. CASE Renews(old, c)
    <3> DEFINE v == c.power - old.power
               X == Skilled(M, v)
    <3>1. R = X
      BY <2>1, <2>3 DEF RenewedSkill, M
    <3>2. v \in Int /\ M \in Body
      BY <1>2, <1>3 DEF Changed, Same
    <3> HIDE DEF v, R
    <3>3. Changed(X, M, M.conditions, M.speed, M.skill + v, M.outfit, M.shown)
      BY <3>2, SkillChanged
    <3> HIDE DEF X
    <3>4. /\ Same(X, B) /\ X.conditions = (B.conditions \ {old}) \cup {c} /\ X.speed = B.speed
          /\ X.skill = B.skill + v /\ X.outfit = B.outfit /\ X.shown = B.shown
      BY <1>3, <3>3 DEF Changed, Same
    <3>5. Effect(old, Speeds) = 0 /\ Effect(c, Speeds) = 0 /\ Effect(old, Skills) = old.power /\ Effect(c, Skills) = c.power
      BY <1>2, <1>7 DEF Effect, Speeds, Skills
    <3>6. X.speed = B.speed - Effect(old, Speeds) + Effect(c, Speeds)
      BY <1>2, <3>4, <3>5
    <3>7. X.skill = B.skill - Effect(old, Skills) + Effect(c, Skills)
      BY <1>2, <3>4, <3>5 DEF v
    <3>8. c.type # "guise"
      BY <1>7
    <3>9. Balanced(X) /\ \A s \in Places : VeilOf(X, s) <=> VeilOf(B, s)
      BY <3>4, <3>6, <3>7, <3>8, PutIs
    <3> QED BY <1>5, <3>1, <3>4, <3>9 DEF R
  <2> QED BY <2>2, <2>3
<1>8. CASE c.type = "veil"
  <2>1. Renewed(B, old, c) = RenewedTime(B, old, c)
    BY <1>8 DEF Renewed
  <2>2. CASE ~Renews(old, c)
    BY <1>4, <2>1, <2>2 DEF RenewedTime
  <2>3. CASE Renews(old, c)
    <3> DEFINE new == [old EXCEPT !.left = c.left]
               X == Put(B, old, new)
    <3>1. R = X
      BY <2>1, <2>3 DEF RenewedTime
    <3>2. new \in Condition /\ SameAs(old, new) /\ new.type = "veil"
      BY <1>1, <1>2, <1>8 DEF Condition, SameAs
    <3>3. OfItem(new)
      BY <1>1, <1>2, <1>8, <2>3 DEF OfItem, Renews, Condition
    <3> HIDE DEF new, R
    <3>4. Changed(X, B, (B.conditions \ {old}) \cup {new}, B.speed, B.skill, B.outfit, B.shown)
      BY <1>1, <3>2, PutList
    <3> HIDE DEF X
    <3>5. Effect(old, Speeds) = 0 /\ Effect(new, Speeds) = 0 /\ Effect(old, Skills) = 0 /\ Effect(new, Skills) = 0
      BY <1>2, <1>8, <3>2 DEF Effect, Speeds, Skills
    <3>6. X.speed = B.speed - Effect(old, Speeds) + Effect(new, Speeds)
      BY <1>2, <3>4, <3>5 DEF Changed
    <3>7. X.skill = B.skill - Effect(old, Skills) + Effect(new, Skills)
      BY <1>2, <3>4, <3>5 DEF Changed
    <3>8. /\ new.type # "guise" /\ Proper(new) /\ Same(X, B) /\ X.conditions = (B.conditions \ {old}) \cup {new}
          /\ X.outfit = B.outfit /\ X.shown = B.shown
      BY <3>2, <3>3, <3>4 DEF Proper, Changed
    <3>9. Balanced(X) /\ \A s \in Places : VeilOf(X, s) <=> VeilOf(B, s)
      BY <3>2, <3>6, <3>7, <3>8, PutIs
    <3> QED BY <1>5, <3>1, <3>8, <3>9 DEF R
  <2> QED BY <2>2, <2>3
<1>9. CASE c.type = "guise"
  <2>1. Renewed(B, old, c) = RenewedGuise(B, old, c)
    BY <1>9 DEF Renewed
  <2>2. CASE ~Renews(old, c)
    BY <1>4, <2>1, <2>2 DEF RenewedGuise
  <2>3. CASE Renews(old, c)
    <3> DEFINE v == c.power
               X == Dressed(M, v)
    <3>1. R = X
      BY <2>1, <2>3 DEF RenewedGuise, M
    <3>2. v \in Int /\ M \in Body
      BY <1>2, <1>3 DEF Changed, Same
    <3> HIDE DEF R
    <3>3. Changed(X, M, M.conditions, M.speed, M.skill, v, IF Veiled(M) THEN M.shown ELSE v)
      BY <3>2, OutfitChanged
    <3> HIDE DEF X
    <3>4. Veiled(M) <=> Veiled(B)
      BY <1>2, <1>3, <1>9 DEF Veiled, Changed
    <3>5. Effect(old, Speeds) = 0 /\ Effect(c, Speeds) = 0 /\ Effect(old, Skills) = 0 /\ Effect(c, Skills) = 0
      BY <1>2, <1>9 DEF Effect, Speeds, Skills
    <3>6. X.speed = B.speed - Effect(old, Speeds) + Effect(c, Speeds)
      BY <1>2, <1>3, <3>3, <3>5 DEF Changed
    <3>7. X.skill = B.skill - Effect(old, Skills) + Effect(c, Skills)
      BY <1>2, <1>3, <3>3, <3>5 DEF Changed
    <3>8. /\ Same(X, B) /\ X.conditions = (B.conditions \ {old}) \cup {c}
          /\ X.outfit = c.power /\ X.shown = IF Veiled(B) THEN B.shown ELSE c.power
      BY <1>3, <3>3, <3>4 DEF Changed, Same
    <3>9. X.shown = IF c.type = "guise" /\ ~Veiled(B) THEN c.power ELSE B.shown
      BY <1>9, <3>8
    <3>10. X.outfit = IF c.type = "guise" THEN c.power ELSE B.outfit
      BY <1>9, <3>8
    <3>11. Balanced(X) /\ \A s \in Places : VeilOf(X, s) <=> VeilOf(B, s)
      BY <3>6, <3>7, <3>8, <3>9, <3>10, PutIs
    <3> QED BY <1>5, <3>1, <3>8, <3>11 DEF R
  <2> QED BY <2>2, <2>3
<1> QED BY <1>2, <1>6, <1>7, <1>8, <1>9 DEF Types

\* Creature::addCondition leaves a sound body.
LEMMA AddedIs ==
  ASSUME NEW B, Balanced(B), NEW c, Proper(c), NEW stepping \in BOOLEAN, NEW force \in BOOLEAN
  PROVE  /\ Tasked(Added(B, c, stepping, force), B)
         /\ \A s \in Places : VeilOf(Added(B, c, stepping, force), s) <=> (VeilOf(B, s) \/ (c.type = "veil" /\ c.id = s))
<1> DEFINE R == Added(B, c, stepping, force)
           old == {d \in B.conditions : SameAs(d, c)}
           later == ~force /\ c.type = "haste" /\ Has(B, "paralyze") /\ stepping
<1>1. c \in Condition /\ OfItem(c) /\ B \in Body
  BY DEF Proper, Balanced, Listed
<1>2. CASE later
  <2> DEFINE H == B.hasten \cup {c}
  <2>1. R = [B EXCEPT !.hasten = H]
    BY <1>2 DEF Added
  <2>2. H \in SUBSET Condition /\ (\A d \in H : d.id = 0) /\ c.type # "veil"
    BY <1>1, <1>2, BodyIs DEF Balanced, Listed, OfItem
  <2>3. 0 \in Nat
    OBVIOUS
  <2> HIDE DEF H, R
  <2>4. Tasked(R, B) /\ R.conditions = B.conditions
    BY <2>1, <2>2, <2>3, LaterIs
  <2> QED BY <2>2, <2>4 DEF VeilOf, R
<1>3. CASE ~later /\ old # {}
  <2> DEFINE d == CHOOSE d \in old : TRUE
  <2>1. d \in B.conditions /\ SameAs(d, c)
    BY <1>3
  <2>2. R = Renewed(B, d, c)
    BY <1>3 DEF Added
  <2> HIDE DEF d, R
  <2>3. Tasked(R, B) /\ SameVeils(R, B)
    BY <2>1, <2>2, RenewedIs
  <2>4. \A s \in Places : (c.type = "veil" /\ c.id = s) => VeilOf(B, s)
    BY <2>1 DEF VeilOf, SameAs
  <2> QED BY <2>3, <2>4 DEF SameVeils, R
<1>4. CASE ~later /\ old = {}
  <2> DEFINE N == [Started(B, c) EXCEPT !.conditions = @ \cup {c}]
  <2>1. R = Opposed(N, c.type, stepping)
    BY <1>4 DEF Added
  <2>2. \A d \in B.conditions : ~SameAs(d, c)
    BY <1>4
  <2>3. Balanced(N) /\ Same(N, B) /\ N.conditions = B.conditions \cup {c}
    BY <2>2, NewIs
  <2> HIDE DEF N, R
  <2>4. Tasked(R, N) /\ SameVeils(R, N)
    BY <2>1, <2>3, OpposedIs
  <2>5. Tasked(R, B)
    BY <2>3, <2>4 DEF Tasked, Same
  <2>6. \A s \in Places : VeilOf(N, s) <=> (VeilOf(B, s) \/ (c.type = "veil" /\ c.id = s))
    BY <2>3 DEF VeilOf
  <2> QED BY <2>4, <2>5, <2>6 DEF SameVeils, R
<1> QED BY <1>2, <1>3, <1>4

\* What items give are numbers.
LEMMA GainsOf ==
  ASSUME NEW B, Listed(B)
  PROVE  /\ Gains(B, SpeedOf) \in Int /\ Gains(B, SkillOf) \in Int
         /\ SpeedOf \in [DOMAIN Worn -> Int] /\ SkillOf \in [DOMAIN Worn -> Int]
         /\ B \in Body /\ \A s \in EnabledIn(B) : B.worn[s] \in DOMAIN Worn
<1>1. B \in Body
  BY DEF Listed
<1>2. \A s \in EnabledIn(B) : B.worn[s] \in DOMAIN Worn
  BY DEF Listed, EnabledIn
<1>3. SpeedOf \in [DOMAIN Worn -> Int] /\ SkillOf \in [DOMAIN Worn -> Int]
  BY EffectsAssumption DEF SpeedOf, SkillOf
<1> QED BY <1>1, <1>2, <1>3, GainsAre

\* The items that work change, and the sums with them.
LEMMA WornIf ==
  ASSUME NEW B, Balanced(B), NEW F \in Body, F.conditions = B.conditions, F.outfit = B.outfit, F.shown = B.shown,
         F.hasten = B.hasten, \A t \in Places : F.enabled[t] => F.worn[t] \in DOMAIN Worn /\ Worn[F.worn[t]].event,
         F.speed - B.speed = Gains(F, SpeedOf) - Gains(B, SpeedOf),
         F.skill - B.skill = Gains(F, SkillOf) - Gains(B, SkillOf)
  PROVE  Balanced(F)
<1>1. Listed(B)
  BY DEF Balanced
<1>2. Listed(F)
  BY <1>1 DEF Listed
<1>3. Dress(F)
  BY DEF Balanced, Dress, Veiled
<1> DEFINE p == Powers(B.conditions, Speeds)
           q == Powers(B.conditions, Skills)
           g == Gains(B, SpeedOf)
           h == Gains(B, SkillOf)
           gg == Gains(F, SpeedOf)
           hh == Gains(F, SkillOf)
           a == F.speed
           b == B.speed
           d == F.skill
           e == B.skill
<1>4. p \in Int /\ q \in Int
  <2>1. B.conditions \in SUBSET Condition /\ IsFiniteSet(B.conditions)
    BY <1>1, BodyIs DEF Listed
  <2> QED BY <2>1, PowersAre
<1>5. g \in Int /\ h \in Int /\ gg \in Int /\ hh \in Int
  BY <1>1, <1>2, GainsOf
<1>6. a \in Int /\ b \in Int /\ d \in Int /\ e \in Int
  BY <1>1, BodyIs DEF Listed
<1>7. b = p + g /\ e = q + h /\ a - b = gg - g /\ d - e = hh - h
  BY DEF Balanced, Sums
<1>8. a = p + gg /\ d = q + hh
  <2> HIDE DEF p, q, g, h, gg, hh, a, b, d, e
  <2>1. a = p + gg
    BY <1>4, <1>5, <1>6, <1>7
  <2>2. d = q + hh
    BY <1>4, <1>5, <1>6, <1>7
  <2> QED BY <2>1, <2>2
<1>9. Sums(F)
  BY <1>8 DEF Sums
<1> QED BY <1>2, <1>3, <1>9 DEF Balanced

\* All is as it was but for what is worn in a slot.
Elsewhere(R, B, s) ==
  /\ R \in Body /\ R.online = B.online /\ R.strong = B.strong /\ R.conditions = B.conditions
  /\ R.speed = B.speed /\ R.skill = B.skill /\ R.outfit = B.outfit /\ R.shown = B.shown
  /\ R.hasten = B.hasten /\ R.unparalyze = B.unparalyze /\ R.enabled = B.enabled
  /\ \A t \in Places \ {s} : R.worn[t] = B.worn[t]

\* Another item in a slot changes what is worn there only.
LEMMA ItemChanged ==
  ASSUME NEW B \in Body, NEW s \in Places, NEW w \in DOMAIN Worn \cup {Bare}
  PROVE  Elsewhere([B EXCEPT !.worn[s] = w], B, s) /\ [B EXCEPT !.worn[s] = w].worn[s] = w
<1> DEFINE W == [B.worn EXCEPT ![s] = w]
           X == [B EXCEPT !.worn = W]
<1>1. W \in [Places -> DOMAIN Worn \cup {Bare}] /\ W[s] = w /\ \A t \in Places \ {s} : W[t] = B.worn[t]
  BY BodyIs
<1>2. [B EXCEPT !.worn[s] = w] = X
  BY DEF Body
<1> HIDE DEF W
<1>3. X \in Body /\ X.worn = W
  BY <1>1 DEF Body
<1>4. Elsewhere(X, B, s)
  BY <1>1, <1>3 DEF Elsewhere, Body
<1> QED BY <1>1, <1>2, <1>3, <1>4

\* An item that does nothing may become another, or be gone.
LEMMA IdleItem ==
  ASSUME NEW B, Balanced(B), VeilsWorn(B), NEW s \in Places, B.enabled[s] = FALSE, NEW X, Elsewhere(X, B, s)
  PROVE  Balanced(X) /\ VeilsWorn(X)
<1>1. Listed(B) /\ B \in Body /\ X \in Body /\ B.enabled \in [Places -> BOOLEAN]
  BY BodyIs DEF Balanced, Listed, Elsewhere
<1>2. EnabledIn(X) = EnabledIn(B) /\ s \notin EnabledIn(B) /\ EnabledIn(B) \subseteq Places
  BY DEF Elsewhere, EnabledIn
<1>3. \A t \in EnabledIn(B) : X.worn[t] = B.worn[t]
  BY <1>2 DEF Elsewhere
<1>4. Gains(X, SpeedOf) = Gains(B, SpeedOf) /\ Gains(X, SkillOf) = Gains(B, SkillOf)
  BY <1>1, <1>2, <1>3, GainsOf, GainsAre
<1>5. \A t \in Places : X.enabled[t] => X.worn[t] \in DOMAIN Worn /\ Worn[X.worn[t]].event
  <2> SUFFICES ASSUME NEW t \in Places, X.enabled[t]  PROVE X.worn[t] \in DOMAIN Worn /\ Worn[X.worn[t]].event
    OBVIOUS
  <2>1. B.enabled[t] /\ t # s
    BY DEF Elsewhere
  <2>2. X.worn[t] = B.worn[t]
    BY <2>1 DEF Elsewhere
  <2> QED BY <1>1, <2>1, <2>2 DEF Listed
<1>6. X.speed - B.speed = Gains(X, SpeedOf) - Gains(B, SpeedOf)
  <2>1. B.speed \in Int /\ X.speed = B.speed /\ Gains(B, SpeedOf) \in Int
    BY <1>1, BodyIs, GainsOf DEF Elsewhere
  <2> QED BY <1>4, <2>1
<1>7. X.skill - B.skill = Gains(X, SkillOf) - Gains(B, SkillOf)
  <2>1. B.skill \in Int /\ X.skill = B.skill /\ Gains(B, SkillOf) \in Int
    BY <1>1, BodyIs, GainsOf DEF Elsewhere
  <2> QED BY <1>4, <2>1
<1>8. Balanced(X)
  BY <1>1, <1>5, <1>6, <1>7, WornIf DEF Elsewhere
<1>9. VeilsWorn(X)
  <2> SUFFICES ASSUME NEW t \in Places  PROVE VeilOf(X, t) <=> (X.enabled[t] /\ Worn[X.worn[t]].veil)
    BY DEF VeilsWorn
  <2>1. VeilOf(X, t) <=> VeilOf(B, t)
    BY DEF Elsewhere, VeilOf
  <2>2. VeilOf(B, t) <=> (B.enabled[t] /\ Worn[B.worn[t]].veil)
    BY DEF VeilsWorn
  <2>3. X.enabled[t] = B.enabled[t]
    BY DEF Elsewhere
  <2>4. CASE t = s
    BY <2>1, <2>2, <2>3, <2>4
  <2>5. CASE t # s
    <3>1. X.worn[t] = B.worn[t]
      BY <2>5 DEF Elsewhere
    <3> QED BY <2>1, <2>2, <2>3, <3>1
  <2> QED BY <2>4, <2>5
<1> QED BY <1>8, <1>9

\* All is as it was but for an item that works or does not any more, and the sums.
Switched(R, B, s, on, speed, skill) ==
  /\ R \in Body /\ R.online = B.online /\ R.strong = B.strong /\ R.conditions = B.conditions
  /\ R.speed = speed /\ R.skill = skill /\ R.outfit = B.outfit /\ R.shown = B.shown
  /\ R.hasten = B.hasten /\ R.unparalyze = B.unparalyze /\ R.worn = B.worn
  /\ R.enabled[s] = on /\ \A t \in Places \ {s} : R.enabled[t] = B.enabled[t]

\* An item that is switched on or off changes that, and the sums by what it gives or takes.
LEMMA SwitchedIs ==
  ASSUME NEW B \in Body, NEW s \in Places, NEW on \in BOOLEAN, NEW speed \in Int, NEW skill \in Int
  PROVE  Switched(Skilled(Faster([B EXCEPT !.enabled[s] = on], speed), skill), B, s, on, B.speed + speed, B.skill + skill)
<1> DEFINE W == [B.enabled EXCEPT ![s] = on]
           X == [B EXCEPT !.enabled = W]
           F == Faster(X, speed)
           R == Skilled(F, skill)
<1>1. W \in [Places -> BOOLEAN] /\ W[s] = on /\ \A t \in Places \ {s} : W[t] = B.enabled[t]
  BY BodyIs
<1>2. [B EXCEPT !.enabled[s] = on] = X
  BY DEF Body
<1> HIDE DEF W
<1>3. Switched(X, B, s, on, B.speed, B.skill)
  BY <1>1 DEF Switched, Body
<1> HIDE DEF X
<1>4. X \in Body
  BY <1>3 DEF Switched
<1>5. Changed(F, X, X.conditions, X.speed + speed, X.skill, X.outfit, X.shown)
  BY <1>4, SpeedChanged
<1> HIDE DEF F
<1>6. F \in Body
  BY <1>5 DEF Changed, Same
<1>7. Changed(R, F, F.conditions, F.speed, F.skill + skill, F.outfit, F.shown)
  BY <1>6, SkillChanged
<1> HIDE DEF R
<1>8. Switched(R, B, s, on, B.speed + speed, B.skill + skill)
  BY <1>3, <1>5, <1>7 DEF Switched, Changed, Same
<1> QED BY <1>2, <1>8 DEF R, F

\* Balanced, and what hides him is what he wears.
Right(B) == Balanced(B) /\ VeilsWorn(B)

\* Who he is, and what he wears elsewhere, stays.
Kept(R, B, s) ==
  /\ Right(R) /\ R.online = B.online /\ R.strong = B.strong
  /\ \A t \in Places \ {s} : R.worn[t] = B.worn[t]

\* An item's values, and the condition it gives.
LEMMA ItemIs ==
  ASSUME NEW k \in DOMAIN Worn
  PROVE  /\ Worn[k].speed \in Int /\ Worn[k].skill \in Int /\ Worn[k].on \in DOMAIN Worn \cup {Bare}
         /\ -Worn[k].speed \in Int /\ -Worn[k].skill \in Int
         /\ SpeedOf[k] = Worn[k].speed /\ SkillOf[k] = Worn[k].skill
<1>1. Worn[k].speed \in Int /\ Worn[k].skill \in Int /\ Worn[k].on \in DOMAIN Worn \cup {Bare}
  BY EffectsAssumption
<1>2. -Worn[k].speed \in Int /\ -Worn[k].skill \in Int
  BY <1>1
<1> QED BY <1>1, <1>2 DEF SpeedOf, SkillOf

\* The condition that a hiding item gives is a proper one.
LEMMA VeilIs ==
  ASSUME NEW s \in Places, NEW v, v = [type |-> "veil", id |-> s, left |-> Forever, power |-> 0]
  PROVE  Proper(v) /\ v.type = "veil" /\ v.id = s
<1>1. v \in Condition
  BY DEF Condition, Types, Forever
<1> QED BY <1>1 DEF Proper, OfItem

\* What an item gives once it works.
LEMMA SwitchedOn ==
  ASSUME NEW B, Right(B), NEW s \in Places, B.enabled[s] = FALSE, NEW k \in DOMAIN Worn, B.worn[s] = k, Worn[k].event,
         NEW F, Switched(F, B, s, TRUE, B.speed + Worn[k].speed, B.skill + Worn[k].skill)
  PROVE  Balanced(F) /\ \A t \in Places : VeilOf(F, t) <=> VeilOf(B, t)
<1>1. Balanced(B) /\ Listed(B) /\ B \in Body /\ F \in Body
  BY DEF Right, Balanced, Listed, Switched
<1>2. B.enabled \in [Places -> BOOLEAN] /\ F.enabled \in [Places -> BOOLEAN]
  BY <1>1, BodyIs
<1>3. s \in EnabledIn(F) /\ EnabledIn(B) = EnabledIn(F) \ {s}
  <2>1. \A t \in Places \ {s} : F.enabled[t] = B.enabled[t]
    BY DEF Switched
  <2>2. F.enabled[s] = TRUE
    BY DEF Switched
  <2> QED BY <1>2, <2>1, <2>2 DEF EnabledIn
<1>4. ASSUME NEW t \in Places, F.enabled[t]  PROVE F.worn[t] \in DOMAIN Worn /\ Worn[F.worn[t]].event
  <2>1. F.worn = B.worn
    BY DEF Switched
  <2>2. CASE t = s
    BY <2>1, <2>2
  <2>3. CASE t # s
    <3>1. B.enabled[t]
      BY <1>4, <2>3 DEF Switched
    <3> QED BY <1>1, <2>1, <3>1 DEF Listed
  <2> QED BY <2>2, <2>3
<1>5. \A t \in EnabledIn(F) : F.worn[t] \in DOMAIN Worn
  BY <1>4 DEF EnabledIn
<1>6. F.worn = B.worn /\ F.worn[s] = k
  BY DEF Switched
<1>7. Gains(F, SpeedOf) = SpeedOf[k] + Gains(B, SpeedOf) /\ Gains(F, SkillOf) = SkillOf[k] + Gains(B, SkillOf)
  <2>1. SpeedOf \in [DOMAIN Worn -> Int] /\ SkillOf \in [DOMAIN Worn -> Int]
    BY <1>1, GainsOf
  <2>2. \A t \in Places \ {s} : B.worn[t] = F.worn[t]
    BY <1>6
  <2>3. /\ Gains(F, SpeedOf) = SpeedOf[F.worn[s]] + Gains(B, SpeedOf)
        /\ Gains(F, SkillOf) = SkillOf[F.worn[s]] + Gains(B, SkillOf)
    BY <1>1, <1>3, <1>5, <2>1, <2>2, GainsAre
  <2> QED BY <1>6, <2>3
<1>8. /\ Gains(B, SpeedOf) \in Int /\ Gains(B, SkillOf) \in Int /\ B.speed \in Int /\ B.skill \in Int
      /\ SpeedOf[k] \in Int /\ SkillOf[k] \in Int
  <2>1. SpeedOf[k] \in Int /\ SkillOf[k] \in Int
    BY ItemIs
  <2> QED BY <1>1, <2>1, GainsOf, BodyIs
<1>9. F.speed = B.speed + SpeedOf[k] /\ F.skill = B.skill + SkillOf[k]
  BY ItemIs DEF Switched
<1>10. F.speed - B.speed = Gains(F, SpeedOf) - Gains(B, SpeedOf)
  BY <1>7, <1>8, <1>9
<1>11. F.skill - B.skill = Gains(F, SkillOf) - Gains(B, SkillOf)
  BY <1>7, <1>8, <1>9
<1>12. F.conditions = B.conditions /\ F.outfit = B.outfit /\ F.shown = B.shown /\ F.hasten = B.hasten
  BY DEF Switched
<1>13. Balanced(F)
  BY <1>1, <1>4, <1>10, <1>11, <1>12, WornIf
<1> QED BY <1>12, <1>13 DEF VeilOf

\* What it takes when it works no more.
LEMMA SwitchedOff ==
  ASSUME NEW B, Right(B), NEW s \in Places, B.enabled[s] = TRUE, NEW k, B.worn[s] = k, NEW X, Elsewhere(X, B, s),
         NEW F, Switched(F, X, s, FALSE, X.speed + (-Worn[k].speed), X.skill + (-Worn[k].skill))
  PROVE  Balanced(F) /\ \A t \in Places : VeilOf(F, t) <=> VeilOf(B, t)
<1>1. Balanced(B) /\ Listed(B) /\ B \in Body /\ F \in Body /\ X \in Body
  BY DEF Right, Balanced, Listed, Switched, Elsewhere
<1>0. k \in DOMAIN Worn
  BY <1>1 DEF Listed
<1>2. B.enabled \in [Places -> BOOLEAN] /\ F.enabled \in [Places -> BOOLEAN] /\ X.enabled = B.enabled
  BY <1>1, BodyIs DEF Elsewhere
<1>6. \A t \in Places \ {s} : F.worn[t] = B.worn[t]
  BY DEF Switched, Elsewhere
<1>3. s \in EnabledIn(B) /\ EnabledIn(F) = EnabledIn(B) \ {s}
  <2>1. \A t \in Places \ {s} : F.enabled[t] = B.enabled[t]
    BY <1>2 DEF Switched
  <2>2. F.enabled[s] = FALSE
    BY DEF Switched
  <2> QED BY <1>2, <2>1, <2>2 DEF EnabledIn
<1>4. ASSUME NEW t \in Places, F.enabled[t]  PROVE F.worn[t] \in DOMAIN Worn /\ Worn[F.worn[t]].event
  <2>1. t # s
    BY <1>4 DEF Switched
  <2>2. B.enabled[t]
    BY <1>2, <1>4, <2>1 DEF Switched
  <2> QED BY <1>1, <1>6, <2>1, <2>2 DEF Listed
<1>7. Gains(B, SpeedOf) = SpeedOf[k] + Gains(F, SpeedOf) /\ Gains(B, SkillOf) = SkillOf[k] + Gains(F, SkillOf)
  <2>1. SpeedOf \in [DOMAIN Worn -> Int] /\ SkillOf \in [DOMAIN Worn -> Int] /\ \A t \in EnabledIn(B) : B.worn[t] \in DOMAIN Worn
    BY <1>1, GainsOf
  <2>3. /\ Gains(B, SpeedOf) = SpeedOf[B.worn[s]] + Gains(F, SpeedOf)
        /\ Gains(B, SkillOf) = SkillOf[B.worn[s]] + Gains(F, SkillOf)
    BY <1>1, <1>3, <1>6, <2>1, GainsAre
  <2> QED BY <2>3
<1>8. /\ Gains(B, SpeedOf) \in Int /\ Gains(B, SkillOf) \in Int /\ B.speed \in Int /\ B.skill \in Int
      /\ Gains(F, SpeedOf) \in Int /\ Gains(F, SkillOf) \in Int
  <2>1. Listed(F)
    BY <1>1, <1>4 DEF Listed, Switched, Elsewhere
  <2> QED BY <1>1, <2>1, GainsOf, BodyIs
<1>9. /\ F.speed = B.speed + (-Worn[k].speed) /\ F.skill = B.skill + (-Worn[k].skill)
      /\ Worn[k].speed \in Int /\ Worn[k].skill \in Int
      /\ SpeedOf[k] = Worn[k].speed /\ SkillOf[k] = Worn[k].skill
  BY <1>0, ItemIs DEF Switched, Elsewhere
<1>10. F.speed - B.speed = Gains(F, SpeedOf) - Gains(B, SpeedOf)
  BY <1>7, <1>8, <1>9
<1>11. F.skill - B.skill = Gains(F, SkillOf) - Gains(B, SkillOf)
  BY <1>7, <1>8, <1>9
<1>12. F.conditions = B.conditions /\ F.outfit = B.outfit /\ F.shown = B.shown /\ F.hasten = B.hasten
  BY DEF Switched, Elsewhere
<1>13. Balanced(F)
  BY <1>1, <1>4, <1>10, <1>11, <1>12, WornIf
<1> QED BY <1>12, <1>13 DEF VeilOf

\* EquipItem of a type that stays what it is.
LEMMA EquippedPlainIs ==
  ASSUME NEW B, Right(B), NEW s \in Places, NEW k \in DOMAIN Worn, B.worn[s] = k
  PROVE  Kept(EquippedPlain(B, s, k), B, s) /\ EquippedPlain(B, s, k).worn[s] = k
<1> DEFINE F == Skilled(Faster([B EXCEPT !.enabled[s] = TRUE], Worn[k].speed), Worn[k].skill)
           v == [type |-> "veil", id |-> s, left |-> Forever, power |-> 0]
           R == EquippedPlain(B, s, k)
           X == Added(F, v, FALSE, FALSE)
<1>1. Balanced(B) /\ B \in Body /\ B.enabled \in [Places -> BOOLEAN]
  BY BodyIs DEF Right, Balanced, Listed
<1>2. CASE ~Worn[k].event \/ B.enabled[s] \/ ~MayWear(B, k)
  BY <1>2 DEF EquippedPlain, Kept
<1>3. CASE ~(~Worn[k].event \/ B.enabled[s] \/ ~MayWear(B, k))
  <2>1. B.enabled[s] = FALSE /\ Worn[k].event
    BY <1>1, <1>3
  <2>2. Switched(F, B, s, TRUE, B.speed + Worn[k].speed, B.skill + Worn[k].skill)
    BY <1>1, ItemIs, SwitchedIs
  <2>3. R = IF Worn[k].veil THEN X ELSE F
    BY <1>3 DEF EquippedPlain, Gives
  <2> HIDE DEF F, R
  <2>4. Balanced(F) /\ \A t \in Places : VeilOf(F, t) <=> VeilOf(B, t)
    BY <2>1, <2>2, SwitchedOn
  <2>5. VeilOf(B, s) <=> FALSE
    BY <2>1 DEF Right, VeilsWorn
  <2>6. ASSUME NEW t \in Places \ {s}  PROVE VeilOf(B, t) <=> (F.enabled[t] /\ Worn[F.worn[t]].veil)
    <3>1. F.worn = B.worn /\ F.enabled[t] = B.enabled[t]
      BY <2>2 DEF Switched
    <3>2. VeilOf(B, t) <=> (B.enabled[t] /\ Worn[B.worn[t]].veil)
      BY DEF Right, VeilsWorn
    <3> QED BY <3>1, <3>2
  <2>7. F.online = B.online /\ F.strong = B.strong /\ F.worn = B.worn /\ F.worn[s] = k /\ F.enabled[s] = TRUE
    BY <2>2 DEF Switched
  <2>8. CASE Worn[k].veil
    <3>1. R = X /\ FALSE \in BOOLEAN
      BY <2>3, <2>8
    <3>2. Proper(v) /\ v.type = "veil" /\ v.id = s
      BY VeilIs
    <3> HIDE DEF v, X
    <3>3. /\ Tasked(X, F)
          /\ \A t \in Places : VeilOf(X, t) <=> (VeilOf(F, t) \/ (v.type = "veil" /\ v.id = t))
      BY <2>4, <3>1, <3>2, AddedIs DEF X
    <3>4. \A t \in Places : VeilOf(X, t) <=> (VeilOf(B, t) \/ t = s)
      BY <2>4, <3>2, <3>3
    <3>5. X.enabled = F.enabled /\ X.worn = F.worn /\ X.online = F.online /\ X.strong = F.strong /\ Balanced(X)
      BY <3>3 DEF Tasked
    <3>6. VeilsWorn(X)
      <4> SUFFICES ASSUME NEW t \in Places  PROVE VeilOf(X, t) <=> (X.enabled[t] /\ Worn[X.worn[t]].veil)
        BY DEF VeilsWorn
      <4>1. CASE t = s
        BY <2>7, <2>8, <3>4, <3>5, <4>1
      <4>2. CASE t # s
        BY <2>6, <3>4, <3>5, <4>2
      <4> QED BY <4>1, <4>2
    <3> QED BY <2>7, <3>1, <3>5, <3>6 DEF R, Kept, Right
  <2>9. CASE ~Worn[k].veil
    <3>1. R = F
      BY <2>3, <2>9
    <3>2. VeilsWorn(F)
      <4> SUFFICES ASSUME NEW t \in Places  PROVE VeilOf(F, t) <=> (F.enabled[t] /\ Worn[F.worn[t]].veil)
        BY DEF VeilsWorn
      <4>1. CASE t = s
        BY <2>4, <2>5, <2>7, <2>9, <4>1
      <4>2. CASE t # s
        BY <2>4, <2>6, <4>2
      <4> QED BY <4>1, <4>2
    <3> QED BY <2>4, <2>7, <3>1, <3>2 DEF R, Kept, Right
  <2> QED BY <2>8, <2>9
<1> QED BY <1>2, <1>3

\* EquipItem by postAddNotification: he wears something there afterwards as well.
LEMMA EquippedIs ==
  ASSUME NEW B, Right(B), NEW s \in Places, B.worn[s] \in DOMAIN Worn
  PROVE  Kept(Equipped(B, s), B, s) /\ Equipped(B, s).worn[s] \in DOMAIN Worn
<1> DEFINE k == B.worn[s]
           on == Worn[k].on
           X == [B EXCEPT !.worn[s] = on]
           Z == EquippedPlain(X, s, on)
           R == Equipped(B, s)
<1>1. k \in DOMAIN Worn /\ on \in DOMAIN Worn \cup {Bare}
  BY ItemIs
<1>2. Balanced(B) /\ VeilsWorn(B) /\ B \in Body /\ B.enabled \in [Places -> BOOLEAN]
  BY BodyIs DEF Right, Balanced, Listed
<1>3. CASE on = Bare
  <2>1. R = EquippedPlain(B, s, k)
    BY <1>3 DEF Equipped
  <2> HIDE DEF R, k
  <2>2. Kept(EquippedPlain(B, s, k), B, s) /\ EquippedPlain(B, s, k).worn[s] = k
    BY <1>1, EquippedPlainIs DEF k
  <2> QED BY <1>1, <2>1, <2>2 DEF R
<1>4. CASE on # Bare /\ (~Worn[k].event \/ B.enabled[s] \/ ~MayWear(B, k))
  <2>1. R = B
    BY <1>4 DEF Equipped
  <2> HIDE DEF R
  <2> QED BY <2>1 DEF Kept, R
<1>5. CASE on # Bare /\ ~(~Worn[k].event \/ B.enabled[s] \/ ~MayWear(B, k))
  <2>1. on \in DOMAIN Worn /\ B.enabled[s] = FALSE
    BY <1>1, <1>2, <1>5
  <2>2. R = Gives(Z, s, k)
    BY <1>5 DEF Equipped
  <2>3. Worn[k].speed = 0 /\ Worn[k].skill = 0 /\ ~Worn[k].veil
    BY <1>1, <1>5, EffectsAssumption
  <2>4. Elsewhere(X, B, s) /\ X.worn[s] = on
    <3> HIDE DEF on
    <3> QED BY <1>1, <1>2, ItemChanged
  <2> HIDE DEF X, on
  <2>5. Right(X)
    BY <1>2, <2>1, <2>4, IdleItem DEF Right
  <2>6. Kept(Z, X, s) /\ Z.worn[s] = on
    BY <2>1, <2>4, <2>5, EquippedPlainIs
  <2> HIDE DEF Z
  <2>7. Right(Z) /\ Z \in Body
    BY <2>6 DEF Kept, Right, Balanced, Listed
  <2> DEFINE F == Faster(Z, 0)
             Y == Skilled(F, 0)
  <2>8. R = Y
    BY <2>2, <2>3 DEF Gives
  <2>9. Changed(F, Z, Z.conditions, Z.speed + 0, Z.skill, Z.outfit, Z.shown)
    BY <2>7, SpeedChanged
  <2> HIDE DEF F
  <2>10. F \in Body
    BY <2>9 DEF Changed, Same
  <2>11. Changed(Y, F, F.conditions, F.speed, F.skill + 0, F.outfit, F.shown)
    BY <2>10, SkillChanged
  <2> HIDE DEF Y, R
  <2>12. /\ Same(Y, Z) /\ Y.conditions = Z.conditions /\ Y.speed = Z.speed /\ Y.skill = Z.skill
         /\ Y.outfit = Z.outfit /\ Y.shown = Z.shown
    <3>1. Z.speed + 0 = Z.speed /\ Z.skill + 0 = Z.skill
      BY <2>7, BodyIs
    <3> QED BY <2>9, <2>11, <3>1 DEF Changed, Same
  <2>13. Balanced(Y)
    <3>1. Balanced(Z) /\ Listed(Z) /\ Dress(Z) /\ Z.conditions \in SUBSET Condition /\ IsFiniteSet(Z.conditions)
      BY <2>7, BodyIs DEF Right, Balanced, Listed
    <3>2. Y.speed - Z.speed = Powers(Y.conditions, Speeds) - Powers(Z.conditions, Speeds)
      <4>1. Z.speed \in Int /\ Powers(Z.conditions, Speeds) \in Int
        BY <2>7, <3>1, BodyIs, PowersAre
      <4> QED BY <2>12, <4>1
    <3>3. Y.skill - Z.skill = Powers(Y.conditions, Skills) - Powers(Z.conditions, Skills)
      <4>1. Z.skill \in Int /\ Powers(Z.conditions, Skills) \in Int
        BY <2>7, <3>1, BodyIs, PowersAre
      <4> QED BY <2>12, <4>1
    <3>4. Dress(Y)
      BY <2>12, <3>1 DEF Dress, Veiled
    <3>5. (\A c, d \in Y.conditions : SameAs(c, d) => c = d) /\ (\A c \in Y.conditions : OfItem(c))
      BY <2>12, <3>1 DEF Listed
    <3>6. IsFiniteSet(Y.conditions)
      BY <2>12, <3>1
    <3> QED BY <2>12, <3>1, <3>2, <3>3, <3>4, <3>5, <3>6, SoundIf
  <2>14. VeilsWorn(Y)
    BY <2>7, <2>12 DEF Right, VeilsWorn, VeilOf, Same
  <2>15. Kept(Y, B, s) /\ Y.worn[s] = on
    BY <2>4, <2>6, <2>12, <2>13, <2>14 DEF Kept, Right, Elsewhere, Same
  <2> QED BY <2>1, <2>8, <2>15 DEF R
<1> QED BY <1>3, <1>4, <1>5

\* DeEquipItem by postRemoveNotification: the item works no more.
LEMMA DeEquippedIs ==
  ASSUME NEW B, Right(B), NEW s \in Places, NEW k \in DOMAIN Worn, B.worn[s] = k, NEW X, Elsewhere(X, B, s)
  PROVE  Kept(DeEquipped(X, s, k), B, s) /\ DeEquipped(X, s, k).worn[s] = X.worn[s] /\ DeEquipped(X, s, k).enabled[s] = FALSE
<1> DEFINE F == Skilled(Faster([X EXCEPT !.enabled[s] = FALSE], -Worn[k].speed), -Worn[k].skill)
           R == DeEquipped(X, s, k)
<1>1. Balanced(B) /\ VeilsWorn(B) /\ Listed(B) /\ B \in Body /\ X \in Body /\ B.enabled \in [Places -> BOOLEAN] /\ X.enabled = B.enabled
  BY BodyIs DEF Right, Balanced, Listed, Elsewhere
<1>2. CASE ~B.enabled[s]
  <2>1. R = X
    BY <1>1, <1>2 DEF DeEquipped
  <2>2. B.enabled[s] = FALSE
    BY <1>1, <1>2
  <2> HIDE DEF R
  <2>3. Right(X)
    BY <1>1, <2>2, IdleItem DEF Right
  <2>4. Kept(X, B, s)
    BY <2>3 DEF Kept, Elsewhere
  <2> QED BY <1>1, <2>1, <2>2, <2>4 DEF R
<1>3. CASE B.enabled[s]
  <2>1. B.enabled[s] = TRUE /\ Worn[k].event
    BY <1>1, <1>3 DEF Listed
  <2> DEFINE Y == [X EXCEPT !.enabled[s] = FALSE]
             T == {c \in Y.conditions : c.type = "veil" /\ c.id = s}
             W == FoldSet(LAMBDA c, Z : Taken(Z, c), F, T)
  <2>2. R = IF Worn[k].veil THEN W ELSE F
    <3>1. R = Takes(Y, s, k)
      BY <1>1, <1>3, <2>1 DEF DeEquipped
    <3> HIDE DEF R
    <3> QED BY <3>1 DEF Takes
  <2>3. Switched(F, X, s, FALSE, X.speed + (-Worn[k].speed), X.skill + (-Worn[k].skill))
    BY <1>1, ItemIs, SwitchedIs
  <2>4. Y.conditions = X.conditions
    BY <1>1 DEF Body
  <2> HIDE DEF F, R, Y
  <2>5. Balanced(F) /\ \A t \in Places : VeilOf(F, t) <=> VeilOf(B, t)
    <3> HIDE DEF F
    <3>1. B.enabled[s] = TRUE
      BY <2>1
    <3> QED BY <2>3, <3>1, SwitchedOff, ZenonT(60)
  <2>6. F.conditions = X.conditions /\ F.worn = X.worn /\ F.enabled[s] = FALSE /\ F.online = B.online /\ F.strong = B.strong
    BY <2>3 DEF Switched, Elsewhere
  <2>7. ASSUME NEW t \in Places \ {s}  PROVE VeilOf(F, t) <=> (F.enabled[t] /\ Worn[F.worn[t]].veil)
    <3>1. F.worn[t] = B.worn[t] /\ F.enabled[t] = B.enabled[t]
      BY <1>1, <2>3 DEF Switched, Elsewhere
    <3>2. VeilOf(B, t) <=> (B.enabled[t] /\ Worn[B.worn[t]].veil)
      BY <1>1 DEF VeilsWorn
    <3> QED BY <2>5, <3>1, <3>2
  <2>8. \A t \in Places \ {s} : F.worn[t] = B.worn[t]
    BY <2>6 DEF Elsewhere
  <2>9. CASE Worn[k].veil
    <3>1. T \in SUBSET F.conditions
      BY <2>4, <2>6
    <3>2. R = W
      BY <2>2, <2>9
    <3>3. Balanced(W) /\ Same(W, F) /\ W.conditions = F.conditions \ T
      <4> HIDE DEF T
      <4> QED BY <2>5, <3>1, AllTaken
    <3> HIDE DEF W
    <3>4. W.worn = F.worn /\ W.enabled = F.enabled /\ W.online = F.online /\ W.strong = F.strong
      BY <3>3 DEF Same
    <3>5. VeilsWorn(W)
      <4> SUFFICES ASSUME NEW t \in Places  PROVE VeilOf(W, t) <=> (W.enabled[t] /\ Worn[W.worn[t]].veil)
        BY DEF VeilsWorn
      <4>1. VeilOf(W, t) <=> (VeilOf(F, t) /\ t # s)
        BY <2>4, <2>6, <3>3 DEF VeilOf
      <4>2. CASE t = s
        BY <2>6, <3>4, <4>1, <4>2
      <4>3. CASE t # s
        BY <2>7, <3>4, <4>1, <4>3
      <4> QED BY <4>2, <4>3
    <3>6. Kept(W, B, s)
      BY <2>6, <2>8, <3>3, <3>4, <3>5 DEF Kept, Right
    <3> QED BY <2>6, <3>2, <3>4, <3>6 DEF R
  <2>10. CASE ~Worn[k].veil
    <3>1. R = F
      BY <2>2, <2>10
    <3>2. VeilsWorn(F)
      <4> SUFFICES ASSUME NEW t \in Places  PROVE VeilOf(F, t) <=> (F.enabled[t] /\ Worn[F.worn[t]].veil)
        BY DEF VeilsWorn
      <4>1. VeilOf(B, s) <=> FALSE
        BY <1>1, <2>10 DEF VeilsWorn
      <4>2. CASE t = s
        BY <2>5, <2>6, <4>1, <4>2
      <4>3. CASE t # s
        BY <2>7, <4>3
      <4> QED BY <4>2, <4>3
    <3>3. Kept(F, B, s)
      BY <2>5, <2>6, <2>8, <3>2 DEF Kept, Right
    <3> QED BY <2>6, <3>1, <3>3 DEF R
  <2> QED BY <2>9, <2>10
<1> QED BY <1>2, <1>3

\* A right body stays so when the items that hide it are the same.
LEMMA RightIf ==
  ASSUME NEW B, Right(B), NEW R, Tasked(R, B), SameVeils(R, B)
  PROVE  Right(R) /\ R.online = B.online
<1>1. VeilsWorn(R)
  BY DEF Right, VeilsWorn, SameVeils, Tasked
<1> QED BY <1>1 DEF Right, Tasked

\* A condition that no item gives may be added.
LEMMA CastIs ==
  ASSUME NEW B, Right(B), NEW c, Proper(c), c.id = 0, NEW stepping \in BOOLEAN, NEW force \in BOOLEAN
  PROVE  Right(Added(B, c, stepping, force)) /\ Added(B, c, stepping, force).online = B.online
<1> DEFINE R == Added(B, c, stepping, force)
<1>1. Balanced(B)
  BY DEF Right
<1>2. /\ Tasked(R, B)
      /\ \A s \in Places : VeilOf(R, s) <=> (VeilOf(B, s) \/ (c.type = "veil" /\ c.id = s))
  BY <1>1, AddedIs
<1>3. 0 \notin Places
  BY EffectsAssumption DEF Places
<1> HIDE DEF R
<1>4. SameVeils(R, B)
  BY <1>2, <1>3 DEF SameVeils
<1>5. Right(R) /\ R.online = B.online
  BY <1>2, <1>4, RightIf
<1> QED BY <1>5 DEF R

\* The conditions of the last save come back.
LEMMA AllAdded ==
  ASSUME NEW B, Right(B), NEW T, IsFiniteSet(T), \A c \in T : Proper(c) /\ c.id = 0, NEW stepping \in BOOLEAN,
         NEW F, F = FoldSet(LAMBDA c, X : Added(X, c, stepping, FALSE), B, T)
  PROVE  Right(F) /\ F.online = B.online
<1> DEFINE D == {X \in Body : Right(X) /\ X.online = B.online}
           step == [p \in T \X D |-> Added(p[2], p[1], stepping, FALSE)]
           eq(g) == g = [s \in SUBSET T |-> IF s = {} THEN B
                                            ELSE Added(g[s \ {CHOOSE x \in s : TRUE}], CHOOSE x \in s : TRUE, stepping, FALSE)]
           iter == CHOOSE g : eq(g)
<1>1. B \in D
  BY DEF Right, Balanced, Listed
<1>2. ASSUME NEW c \in T, NEW X \in D  PROVE Added(X, c, stepping, FALSE) \in D
  <2> DEFINE R == Added(X, c, stepping, FALSE)
  <2>1. Right(X) /\ X.online = B.online /\ FALSE \in BOOLEAN
    BY <1>2
  <2>2. Right(R) /\ R.online = B.online
    BY <2>1, CastIs
  <2> HIDE DEF R
  <2> QED BY <2>2 DEF R, Right, Balanced, Listed
<1> HIDE DEF D
<1>3. step \in [T \X D -> D]
  BY <1>2
<1>4. PICK g : Iterates(T, D, B, step, g)
  <2> HIDE DEF step
  <2> QED BY <1>1, <1>3, FoldIs
<1>5. ASSUME NEW s \in SUBSET T, s # {}
      PROVE  g[s] = Added(g[s \ {Pick(s)}], Pick(s), stepping, FALSE)
  <2>1. Pick(s) \in T /\ s \ {Pick(s)} \in SUBSET T
    BY <1>5 DEF Pick
  <2>2. <<Pick(s), g[s \ {Pick(s)}]>> \in T \X D
    BY <1>4, <2>1 DEF Iterates
  <2> QED BY <1>4, <1>5, <2>2 DEF Iterates
<1>6. eq(g)
  <2>1. g = [s \in SUBSET T |-> g[s]] /\ g[{}] = B
    BY <1>4 DEF Iterates
  <2> QED BY <1>5, <2>1 DEF Pick
<1>7. eq(iter)
  <2> HIDE DEF eq
  <2> QED BY <1>6
<1>8. F = iter[T]
  BY DEF FoldSet, MapThenFoldSet
<1> HIDE DEF iter, step
<1>9. iter[{}] = B /\ \A s \in SUBSET T : s # {} => iter[s] = Added(iter[s \ {Pick(s)}], Pick(s), stepping, FALSE)
  BY <1>7 DEF Pick
<1> HIDE DEF eq
<1> DEFINE P == {s \in SUBSET T : iter[s] \in D}
<1>10. {} \in P
  BY <1>1, <1>9
<1>11. ASSUME NEW s \in SUBSET T, s # {}, \A x \in s : s \ {x} \in P  PROVE s \in P
  <2>1. Pick(s) \in s
    BY <1>11 DEF Pick
  <2>2. iter[s \ {Pick(s)}] \in D
    BY <1>11, <2>1
  <2>3. Added(iter[s \ {Pick(s)}], Pick(s), stepping, FALSE) \in D
    <3>1. Pick(s) \in T
      BY <2>1
    <3> QED BY <1>2, <2>2, <3>1
  <2>4. iter[s] = Added(iter[s \ {Pick(s)}], Pick(s), stepping, FALSE)
    BY <1>9, <1>11
  <2> QED BY <2>3, <2>4
<1>12. \A s \in SUBSET T : s \in P
  <2> HIDE DEF P
  <2> QED BY <1>10, <1>11, SetInduction
<1> QED BY <1>8, <1>12 DEF D

\* What he wears begins to work.
LEMMA AllEquipped ==
  ASSUME NEW B, Right(B), NEW T \in SUBSET Places, \A s \in T : B.worn[s] # Bare,
         NEW F, F = FoldSet(LAMBDA s, X : Equipped(X, s), B, T)
  PROVE  Right(F) /\ F.online = B.online
<1> DEFINE D == {X \in Body : Right(X) /\ X.online = B.online /\ \A s \in T : X.worn[s] \in DOMAIN Worn}
           step == [p \in T \X D |-> Equipped(p[2], p[1])]
           eq(g) == g = [s \in SUBSET T |-> IF s = {} THEN B
                                            ELSE Equipped(g[s \ {CHOOSE x \in s : TRUE}], CHOOSE x \in s : TRUE)]
           iter == CHOOSE g : eq(g)
<1>0. IsFiniteSet(T)
  BY EffectsAssumption, FS_Subset DEF Places
<1>1. B \in D
  <2>1. B \in Body
    BY DEF Right, Balanced, Listed
  <2>2. B.worn \in [Places -> DOMAIN Worn \cup {Bare}]
    BY <2>1, BodyIs
  <2> QED BY <2>1, <2>2
<1>2. ASSUME NEW t \in T, NEW X \in D  PROVE Equipped(X, t) \in D
  <2> DEFINE R == Equipped(X, t)
  <2>1. Right(X) /\ X.online = B.online /\ X.worn[t] \in DOMAIN Worn
    BY <1>2
  <2>2. Kept(R, X, t) /\ R.worn[t] \in DOMAIN Worn
    BY <2>1, EquippedIs
  <2> HIDE DEF R
  <2>3. R \in Body /\ Right(R) /\ R.online = B.online
    BY <2>1, <2>2 DEF Kept, Right, Balanced, Listed
  <2>4. \A s \in T : R.worn[s] \in DOMAIN Worn
    BY <2>2 DEF Kept
  <2> QED BY <2>3, <2>4 DEF R
<1> HIDE DEF D
<1>3. step \in [T \X D -> D]
  BY <1>2
<1>4. PICK g : Iterates(T, D, B, step, g)
  <2> HIDE DEF step
  <2> QED BY <1>0, <1>1, <1>3, FoldIs
<1>5. ASSUME NEW s \in SUBSET T, s # {}
      PROVE  g[s] = Equipped(g[s \ {Pick(s)}], Pick(s))
  <2>1. Pick(s) \in T /\ s \ {Pick(s)} \in SUBSET T
    BY <1>5 DEF Pick
  <2>2. <<Pick(s), g[s \ {Pick(s)}]>> \in T \X D
    BY <1>4, <2>1 DEF Iterates
  <2> QED BY <1>4, <1>5, <2>2 DEF Iterates
<1>6. eq(g)
  <2>1. g = [s \in SUBSET T |-> g[s]] /\ g[{}] = B
    BY <1>4 DEF Iterates
  <2> QED BY <1>5, <2>1 DEF Pick
<1>7. eq(iter)
  <2> HIDE DEF eq
  <2> QED BY <1>6
<1>8. F = iter[T]
  BY DEF FoldSet, MapThenFoldSet
<1> HIDE DEF iter, step
<1>9. iter[{}] = B /\ \A s \in SUBSET T : s # {} => iter[s] = Equipped(iter[s \ {Pick(s)}], Pick(s))
  BY <1>7 DEF Pick
<1> HIDE DEF eq
<1> DEFINE P == {s \in SUBSET T : iter[s] \in D}
<1>10. {} \in P
  BY <1>1, <1>9
<1>11. ASSUME NEW s \in SUBSET T, s # {}, \A x \in s : s \ {x} \in P  PROVE s \in P
  <2>1. Pick(s) \in s
    BY <1>11 DEF Pick
  <2>2. iter[s \ {Pick(s)}] \in D
    BY <1>11, <2>1
  <2> QED BY <1>2, <1>9, <1>11, <2>1, <2>2
<1>12. \A s \in SUBSET T : s \in P
  <2> HIDE DEF P
  <2> QED BY <1>0, <1>10, <1>11, SetInduction
<1> QED BY <1>8, <1>12 DEF D

\* A condition that is older does what it did.
LEMMA OlderIs ==
  ASSUME NEW c \in Condition
  PROVE  /\ Older(c) \in Condition /\ SameAs(Older(c), c) /\ Older(c).power = c.power
         /\ OfItem(c) => OfItem(Older(c))
<1>1. c.left \in -1 .. Forever
  BY DEF Condition
<1>2. CASE c.left \in {Forever, -1}
  BY <1>2 DEF Older, SameAs
<1>3. CASE c.left \notin {Forever, -1}
  <2> DEFINE n == c.left - 1
  <2>1. Older(c) = [c EXCEPT !.left = n]
    BY <1>3 DEF Older
  <2>2. n \in -1 .. Forever
    BY <1>1, <1>3 DEF Forever
  <2> HIDE DEF n
  <2>3. [c EXCEPT !.left = n] \in Condition /\ SameAs([c EXCEPT !.left = n], c) /\ [c EXCEPT !.left = n].power = c.power
    BY <2>2 DEF Condition, SameAs
  <2>4. OfItem(c) => c.id = 0
    BY <1>3 DEF OfItem
  <2>5. [c EXCEPT !.left = n].id = c.id
    BY <2>3 DEF SameAs
  <2> QED BY <2>1, <2>3, <2>4, <2>5 DEF OfItem
<1> QED BY <1>2, <1>3

\* The conditions after a second.
Aged(C) == {Older(c) : c \in C}

\* The sums stay while time passes.
LEMMA AgedPowers ==
  ASSUME NEW C \in SUBSET Condition, IsFiniteSet(C), \A c, d \in C : SameAs(c, d) => c = d
  PROVE  /\ IsFiniteSet(Aged(C)) /\ Aged(C) \in SUBSET Condition
         /\ Powers(Aged(C), Speeds) = Powers(C, Speeds) /\ Powers(Aged(C), Skills) = Powers(C, Skills)
<1> DEFINE Fits(s) == /\ IsFiniteSet(Aged(s)) /\ Aged(s) \in SUBSET Condition
                      /\ Powers(Aged(s), Speeds) = Powers(s, Speeds) /\ Powers(Aged(s), Skills) = Powers(s, Skills)
           P == {s \in SUBSET C : Fits(s)}
<1>1. {} \in P
  <2>1. Aged({}) = {}
    BY DEF Aged
  <2> QED BY <2>1, FS_EmptySet
<1>2. ASSUME NEW s \in SUBSET C, s # {}, \A x \in s : s \ {x} \in P  PROVE s \in P
  <2>1. PICK c \in s : TRUE
    BY <1>2
  <2> DEFINE r == s \ {c}
             A == Aged(r)
             o == Older(c)
  <2>2. Fits(r)
    BY <1>2, <2>1
  <2>3. /\ IsFiniteSet(A) /\ A \in SUBSET Condition
        /\ Powers(A, Speeds) = Powers(r, Speeds) /\ Powers(A, Skills) = Powers(r, Skills)
    BY <2>2
  <2>4. o \in Condition /\ SameAs(o, c) /\ o.power = c.power
    BY <2>1, OlderIs
  <2>5. o \notin A
    <3> SUFFICES ASSUME NEW d \in r, Older(d) = o  PROVE FALSE
      BY DEF Aged
    <3>1. SameAs(Older(d), d)
      BY OlderIs
    <3>2. SameAs(d, c)
      BY <2>4, <3>1 DEF SameAs
    <3> QED BY <3>2
  <2>6. Aged(s) = A \cup {o}
    BY <2>1 DEF Aged
  <2>7. s \in SUBSET Condition /\ IsFiniteSet(s) /\ c \in s
    BY <2>1, FS_Subset
  <2> HIDE DEF A, o
  <2>8. /\ IsFiniteSet(A \cup {o})
        /\ Powers(A \cup {o}, Speeds) = (IF o.type \in Speeds THEN o.power ELSE 0) + Powers(A, Speeds)
        /\ Powers(A \cup {o}, Skills) = (IF o.type \in Skills THEN o.power ELSE 0) + Powers(A, Skills)
    <3>1. o \in Condition \ A
      BY <2>4, <2>5
    <3> QED BY <2>3, <3>1, PowersAdd
  <2>9. /\ Powers(s, Speeds) = (IF c.type \in Speeds THEN c.power ELSE 0) + Powers(r, Speeds)
        /\ Powers(s, Skills) = (IF c.type \in Skills THEN c.power ELSE 0) + Powers(r, Skills)
    <3> HIDE DEF r
    <3>1. \A d \in s : Powers(s, Speeds) = (IF d.type \in Speeds THEN d.power ELSE 0) + Powers(s \ {d}, Speeds)
      BY <2>7, PowersAre
    <3>2. \A d \in s : Powers(s, Skills) = (IF d.type \in Skills THEN d.power ELSE 0) + Powers(s \ {d}, Skills)
      BY <2>7, PowersAre
    <3> QED BY <2>7, <3>1, <3>2 DEF r
  <2>10. o.type = c.type
    BY <2>4 DEF SameAs
  <2>11. A \cup {o} \in SUBSET Condition
    BY <2>3, <2>4
  <2> HIDE DEF r
  <2>12. Powers(A \cup {o}, Speeds) = Powers(s, Speeds) /\ Powers(A \cup {o}, Skills) = Powers(s, Skills)
    BY <2>3, <2>4, <2>8, <2>9, <2>10
  <2> QED BY <2>6, <2>8, <2>11, <2>12
<1> HIDE DEF P
<1>3. \A s \in SUBSET C : s \in P
  BY <1>1, <1>2, SetInduction
<1> QED BY <1>3 DEF P

\* Time passes, and nothing ends by it alone.
LEMMA AgedIs ==
  ASSUME NEW B, Right(B), NEW R, R = [B EXCEPT !.conditions = {Older(c) : c \in @}]
  PROVE  Right(R)
<1> DEFINE C == B.conditions
           A == Aged(C)
<1>1. Balanced(B) /\ VeilsWorn(B) /\ Listed(B) /\ Dress(B) /\ B \in Body /\ C \in SUBSET Condition /\ IsFiniteSet(C)
  BY BodyIs DEF Right, Balanced, Listed
<1>2. \A c, d \in C : SameAs(c, d) => c = d
  BY <1>1 DEF Listed
<1>3. /\ IsFiniteSet(A) /\ A \in SUBSET Condition
      /\ Powers(A, Speeds) = Powers(C, Speeds) /\ Powers(A, Skills) = Powers(C, Skills)
  <2> HIDE DEF C
  <2> QED BY <1>1, <1>2, AgedPowers
<1>4. \A a \in A : \E c \in C : a = Older(c) /\ SameAs(a, c) /\ a.power = c.power /\ OfItem(a)
  <2> SUFFICES ASSUME NEW c \in C
               PROVE  SameAs(Older(c), c) /\ Older(c).power = c.power /\ OfItem(Older(c))
    BY DEF Aged
  <2>1. c \in Condition /\ OfItem(c)
    BY <1>1 DEF Listed
  <2> QED BY <2>1, OlderIs
<1>5. \A c \in C : \E a \in A : SameAs(a, c) /\ a.power = c.power
  <2> SUFFICES ASSUME NEW c \in C  PROVE SameAs(Older(c), c) /\ Older(c).power = c.power
    BY DEF Aged
  <2>1. c \in Condition
    BY <1>1
  <2> QED BY <2>1, OlderIs
<1>6. \A a, b \in A : SameAs(a, b) => a = b
  <2> SUFFICES ASSUME NEW a \in A, NEW b \in A, SameAs(a, b)  PROVE a = b
    OBVIOUS
  <2> HIDE DEF A
  <2>1. PICK c \in C : a = Older(c) /\ SameAs(a, c)
    BY <1>4
  <2>2. PICK d \in C : b = Older(d) /\ SameAs(b, d)
    BY <1>4
  <2>3. SameAs(c, d)
    BY <2>1, <2>2 DEF SameAs
  <2> QED BY <1>2, <2>1, <2>2, <2>3
<1>7. R = [B EXCEPT !.conditions = A]
  BY DEF Aged
<1> HIDE DEF A
<1>8. Changed(R, B, A, B.speed, B.skill, B.outfit, B.shown)
  BY <1>1, <1>3, <1>7, ListChanged
<1>9. Veiled(R) <=> Veiled(B)
  BY <1>4, <1>5, <1>8 DEF Veiled, Changed, SameAs
<1>10. Dress(R)
  <2>1. \A a \in A : a.type = "guise" => R.outfit = a.power
    BY <1>1, <1>4, <1>8 DEF Changed, Dress, SameAs
  <2>2. (\A a \in A : a.type # "guise") => R.outfit = 0
    BY <1>1, <1>5, <1>8 DEF Changed, Dress, SameAs
  <2>3. R.shown = IF Veiled(R) THEN Unseen ELSE R.outfit
    BY <1>1, <1>8, <1>9 DEF Changed, Dress
  <2> QED BY <1>8, <2>1, <2>2, <2>3 DEF Changed, Dress
<1>11. R.conditions = A /\ Same(R, B) /\ R.speed = B.speed /\ R.skill = B.skill
  BY <1>8 DEF Changed
<1>12. Balanced(R)
  <2>1. R.speed - B.speed = Powers(A, Speeds) - Powers(B.conditions, Speeds)
    <3>1. B.speed \in Int /\ Powers(C, Speeds) \in Int
      BY <1>1, BodyIs, PowersAre
    <3> QED BY <1>3, <1>11, <3>1
  <2>2. R.skill - B.skill = Powers(A, Skills) - Powers(B.conditions, Skills)
    <3>1. B.skill \in Int /\ Powers(C, Skills) \in Int
      BY <1>1, BodyIs, PowersAre
    <3> QED BY <1>3, <1>11, <3>1
  <2>3. \A a \in A : OfItem(a)
    BY <1>4
  <2> QED BY <1>1, <1>3, <1>6, <1>10, <1>11, <2>1, <2>2, <2>3, SoundIf
<1>13. SameVeils(R, B)
  <2> SUFFICES ASSUME NEW s \in Places  PROVE VeilOf(R, s) <=> VeilOf(B, s)
    BY DEF SameVeils
  <2> QED BY <1>4, <1>5, <1>11 DEF VeilOf, SameAs
<1>14. Tasked(R, B)
  BY <1>11, <1>12 DEF Tasked, Same
<1> QED BY <1>13, <1>14, RightIf

\* The conditions of a save are his own, and whatever is cast is one.
EffectsInv ==
  /\ Right(body)
  /\ IsFiniteSet(saved) /\ \A c \in saved : c \in Condition /\ c.id = 0
  /\ magic \in Magics

\* Who is away.
Away(w, strong) ==
  [online |-> FALSE, strong |-> strong, worn |-> w, enabled |-> [s \in Places |-> FALSE], conditions |-> {},
   speed |-> 0, skill |-> 0, outfit |-> 0, shown |-> 0, hasten |-> {}, unparalyze |-> 0]

\* What the code sets for who dies or logs out.
LEMMA AwayWas ==
  ASSUME NEW w, NEW strong, NEW R, R = [Nothing EXCEPT !.worn = w, !.strong = strong]
  PROVE  R = Away(w, strong)
BY DEF Nothing, Places, Away

\* He is a player still.
LEMMA AwayBody ==
  ASSUME NEW w \in [Places -> DOMAIN Worn \cup {Bare}], NEW strong \in BOOLEAN
  PROVE  Away(w, strong) \in Body
<1>1. [s \in Places |-> FALSE] \in [Places -> BOOLEAN]
  OBVIOUS
<1> DEFINE e == [s \in Places |-> FALSE]
           W == DOMAIN Worn \cup {Bare}
<1>2. e \in [Places -> BOOLEAN] /\ w \in [Places -> W] /\ {} \in SUBSET Condition /\ 0 \in Int /\ 0 \in Nat
  BY <1>1
<1> HIDE DEF e, W
<1>3. [online |-> FALSE, strong |-> strong, worn |-> w, enabled |-> e, conditions |-> {},
       speed |-> 0, skill |-> 0, outfit |-> 0, shown |-> 0, hasten |-> {}, unparalyze |-> 0]
      \in [online : BOOLEAN, strong : BOOLEAN, worn : [Places -> W], enabled : [Places -> BOOLEAN],
           conditions : SUBSET Condition, speed : Int, skill : Int, outfit : Int, shown : Int,
           hasten : SUBSET Condition, unparalyze : Nat]
  BY <1>2
<1> QED BY <1>3 DEF Away, Body, e, W

\* He has nothing that lasts.
LEMMA AwayIs ==
  ASSUME NEW w \in [Places -> DOMAIN Worn \cup {Bare}], NEW strong \in BOOLEAN, NEW R, R = Away(w, strong)
  PROVE  Right(R)
<1>1. /\ R.worn = w /\ R.strong = strong /\ R.online = FALSE /\ R.enabled = [s \in Places |-> FALSE] /\ R.conditions = {}
      /\ R.speed = 0 /\ R.skill = 0 /\ R.outfit = 0 /\ R.shown = 0 /\ R.hasten = {} /\ R.unparalyze = 0
  BY DEF Away
<1>2. R \in Body
  BY AwayBody
<1>3. Listed(R)
  BY <1>1, <1>2, FS_EmptySet DEF Listed
<1>4. Powers(R.conditions, Speeds) = 0 /\ Powers(R.conditions, Skills) = 0
  <2>1. R.conditions \in SUBSET Condition /\ IsFiniteSet(R.conditions)
    BY <1>1, FS_EmptySet
  <2> QED BY <1>1, <2>1, PowersAre
<1>5. Gains(R, SpeedOf) = 0 /\ Gains(R, SkillOf) = 0
  <2>1. EnabledIn(R) = {}
    BY <1>1 DEF EnabledIn
  <2> QED BY <1>3, <2>1, GainsOf, GainsAre
<1>6. Sums(R)
  BY <1>1, <1>4, <1>5 DEF Sums
<1>7. Dress(R)
  BY <1>1 DEF Dress, Veiled
<1>8. VeilsWorn(R)
  BY <1>1 DEF VeilsWorn, VeilOf
<1> QED BY <1>3, <1>6, <1>7, <1>8 DEF Right, Balanced

\* Whether he plays, and what he has learned, is not what conditions do.
LEMMA OtherIs ==
  ASSUME NEW B, Right(B), NEW v \in BOOLEAN
  PROVE  /\ Right([B EXCEPT !.online = v]) /\ Right([B EXCEPT !.strong = v])
         /\ [B EXCEPT !.online = v].worn = B.worn
<1>1. B \in Body
  BY DEF Right, Balanced, Listed
<1>2. ASSUME NEW R, R \in Body, R.worn = B.worn, R.enabled = B.enabled, R.conditions = B.conditions,
             R.speed = B.speed, R.skill = B.skill, R.outfit = B.outfit, R.shown = B.shown, R.hasten = B.hasten
      PROVE  Right(R)
  <2>1. Listed(R)
    BY <1>2 DEF Right, Balanced, Listed
  <2>2. EnabledIn(R) = EnabledIn(B)
    BY <1>2 DEF EnabledIn
  <2>3. Sums(R)
    BY <1>2, <2>2 DEF Right, Balanced, Sums, Gains
  <2>4. Dress(R)
    BY <1>2 DEF Right, Balanced, Dress, Veiled
  <2>5. VeilsWorn(R)
    BY <1>2 DEF Right, VeilsWorn, VeilOf
  <2> QED BY <2>1, <2>3, <2>4, <2>5 DEF Right, Balanced
<1> DEFINE X == [B EXCEPT !.online = v]
           Y == [B EXCEPT !.strong = v]
<1>3. /\ X \in Body /\ X.worn = B.worn /\ X.enabled = B.enabled /\ X.conditions = B.conditions
      /\ X.speed = B.speed /\ X.skill = B.skill /\ X.outfit = B.outfit /\ X.shown = B.shown /\ X.hasten = B.hasten
  BY <1>1 DEF Body
<1>4. /\ Y \in Body /\ Y.worn = B.worn /\ Y.enabled = B.enabled /\ Y.conditions = B.conditions
      /\ Y.speed = B.speed /\ Y.skill = B.skill /\ Y.outfit = B.outfit /\ Y.shown = B.shown /\ Y.hasten = B.hasten
  BY <1>1 DEF Body
<1> HIDE DEF X, Y
<1>5. Right(X) /\ Right(Y) /\ X.worn = B.worn
  BY <1>2, <1>3, <1>4
<1> QED BY <1>5 DEF X, Y

\* Conditions that no item gives may be taken.
LEMMA OwnTaken ==
  ASSUME NEW B, Right(B), NEW T \in SUBSET B.conditions, \A c \in T : c.id = 0,
         NEW F, F = FoldSet(LAMBDA c, X : Taken(X, c), B, T)
  PROVE  Right(F)
<1>1. Balanced(F) /\ Same(F, B) /\ F.conditions = B.conditions \ T
  BY AllTaken DEF Right
<1>2. 0 \notin Places
  BY EffectsAssumption DEF Places
<1>3. SameVeils(F, B)
  BY <1>1, <1>2 DEF SameVeils, VeilOf
<1>4. Tasked(F, B)
  BY <1>1 DEF Tasked, Same
<1> QED BY <1>3, <1>4, RightIf

\* What a condition that others cast is.
LEMMA CastProper ==
  ASSUME magic \in Magics, NEW c \in magic, NEW d, d = [type |-> c.type, id |-> 0, left |-> c.left, power |-> c.power]
  PROVE  Proper(d) /\ d.id = 0
<1>1. c \in UNION Magics
  OBVIOUS
<1>2. c.type \in Types /\ c.left \in Nat /\ c.left < Forever /\ c.power \in Int
  BY <1>1, EffectsAssumption
<1>3. c.left \in -1 .. Forever
  BY <1>2 DEF Forever
<1>4. d \in Condition
  BY <1>2, <1>3 DEF Condition
<1> QED BY <1>4 DEF Proper, OfItem

\* Spells, runes and fields.
LEMMA CastOnRight ==
  ASSUME EffectsInv, NEW stepping \in BOOLEAN, NEW c \in magic, CastOn(c, stepping)
  PROVE  Right(body')
<1> DEFINE d == [type |-> c.type, id |-> 0, left |-> c.left, power |-> c.power]
<1>1. Proper(d) /\ d.id = 0
  BY CastProper DEF EffectsInv
<1>2. body' = Added(body, d, stepping, FALSE)
  BY DEF CastOn, Becomes
<1> HIDE DEF d
<1>3. Right(body) /\ FALSE \in BOOLEAN
  BY DEF EffectsInv
<1> QED BY <1>1, <1>2, <1>3, CastIs

\* Tasks at the end of a step.
LEMMA HastenNowRight ==
  ASSUME EffectsInv, NEW stepping \in BOOLEAN, NEW c \in body.hasten, HastenNow(c, stepping)
  PROVE  Right(body')
<1> DEFINE H == body.hasten \ {c}
           X == [body EXCEPT !.hasten = H]
<1>1. Right(body) /\ Balanced(body) /\ body.hasten \in SUBSET Condition /\ \A d \in body.hasten : d.id = 0
  BY BodyIs DEF EffectsInv, Right, Balanced, Listed
<1>2. H \in SUBSET Condition /\ (\A d \in H : d.id = 0) /\ 0 \in Nat
  BY <1>1
<1>3. body' = Added(X, c, stepping, TRUE)
  BY DEF HastenNow, Becomes
<1> HIDE DEF H
<1>4. Tasked(X, body) /\ X.conditions = body.conditions
  BY <1>1, <1>2, LaterIs
<1> HIDE DEF X
<1>5. Right(X)
  <2>1. SameVeils(X, body)
    BY <1>4 DEF SameVeils, VeilOf
  <2> QED BY <1>1, <1>4, <2>1, RightIf
<1>6. Proper(c) /\ c.id = 0 /\ TRUE \in BOOLEAN
  BY <1>1 DEF Proper, OfItem
<1> QED BY <1>3, <1>5, <1>6, CastIs

\* The task that ends a paralysis at the end of a step.
LEMMA UnparalyzeNowRight ==
  ASSUME EffectsInv, UnparalyzeNow
  PROVE  Right(body')
<1> DEFINE n == body.unparalyze - 1
           X == [body EXCEPT !.unparalyze = n]
<1>1. Right(body) /\ Balanced(body) /\ body.unparalyze \in Nat
  BY BodyIs DEF EffectsInv, Right, Balanced, Listed
<1>2. n \in Nat /\ {} \in SUBSET Condition /\ \A c \in {} : c.id = 0
  BY <1>1 DEF UnparalyzeNow
<1>3. body' = Removed(X, "paralyze", FALSE)
  BY DEF UnparalyzeNow, Becomes
<1> HIDE DEF n
<1>4. Tasked(X, body) /\ X.conditions = body.conditions
  BY <1>1, <1>2, LaterIs
<1> HIDE DEF X
<1>5. Right(X)
  <2>1. SameVeils(X, body)
    BY <1>4 DEF SameVeils, VeilOf
  <2> QED BY <1>1, <1>4, <2>1, RightIf
<1>6. "paralyze" \in Types \ {"veil"} /\ FALSE \in BOOLEAN /\ Balanced(X)
  BY <1>5 DEF Types, Right
<1>7. Tasked(body', X) /\ SameVeils(body', X)
  BY <1>3, <1>6, RemovedIs DEF SameVeils
<1> QED BY <1>5, <1>7, RightIf

\* What is overdue is no item's.
LEMMA ExecuteConditionsRight ==
  ASSUME EffectsInv, ExecuteConditions
  PROVE  Right(body')
<1> DEFINE T == {c \in body.conditions : c.left = -1}
<1>1. Right(body) /\ \A c \in body.conditions : OfItem(c)
  BY DEF EffectsInv, Right, Balanced, Listed
<1>2. body' = FoldSet(LAMBDA c, X : Taken(X, c), body, T)
  BY DEF ExecuteConditions, Becomes
<1>3. T \in SUBSET body.conditions /\ \A c \in T : c.id = 0
  BY <1>1 DEF OfItem, Forever
<1> HIDE DEF T
<1> QED BY <1>1, <1>2, <1>3, OwnTaken

\* A condition that is dispelled: at once, in a moment or after the step.
LEMMA DispelRight ==
  ASSUME EffectsInv, NEW stepping \in BOOLEAN, NEW acting \in BOOLEAN, NEW c \in body.conditions, Dispel(c, acting, stepping)
  PROVE  Right(body')
<1>1. Right(body) /\ Balanced(body) /\ body \in Body /\ c \in Condition /\ c.id = 0 /\ 0 \notin Places
  BY BodyIs, EffectsAssumption DEF EffectsInv, Right, Balanced, Listed, Dispel, Places
<1>2. CASE acting
  <2> DEFINE new == [c EXCEPT !.left = 0]
  <2>1. body' = Put(body, c, new)
    BY <1>2 DEF Dispel, Becomes
  <2>2. new \in Condition /\ SameAs(c, new) /\ new.power = c.power /\ new.type = c.type /\ new.id = 0
    BY <1>1 DEF Condition, SameAs, Forever
  <2> HIDE DEF new
  <2> DEFINE R == Put(body, c, new)
  <2>3. Changed(R, body, (body.conditions \ {c}) \cup {new}, body.speed, body.skill, body.outfit, body.shown)
    BY <1>1, <2>2, PutList
  <2> HIDE DEF R
  <2>4. Effect(new, Speeds) = Effect(c, Speeds) /\ Effect(new, Skills) = Effect(c, Skills)
    BY <2>2 DEF Effect
  <2>5. R.speed = body.speed - Effect(c, Speeds) + Effect(new, Speeds)
    BY <1>1, <2>3, <2>4, BodyIs, EffectIs DEF Changed
  <2>6. R.skill = body.skill - Effect(c, Skills) + Effect(new, Skills)
    BY <1>1, <2>3, <2>4, BodyIs, EffectIs DEF Changed
  <2>7. /\ R.outfit = (IF new.type = "guise" THEN new.power ELSE body.outfit)
        /\ R.shown = (IF new.type = "guise" /\ ~Veiled(body) THEN new.power ELSE body.shown)
    <3>1. Dress(body)
      BY <1>1 DEF Balanced
    <3>2. c.type = "guise" => body.outfit = c.power
      BY <3>1 DEF Dress
    <3>3. ~Veiled(body) => body.shown = body.outfit
      BY <3>1 DEF Dress
    <3> QED BY <2>2, <2>3, <3>2, <3>3 DEF Changed
  <2>8. Proper(new) /\ Same(R, body) /\ R.conditions = (body.conditions \ {c}) \cup {new}
    BY <2>2, <2>3 DEF Proper, OfItem, Changed
  <2>9. Balanced(R) /\ SameVeils(R, body)
    BY <1>1, <2>2, <2>5, <2>6, <2>7, <2>8, PutIs DEF SameVeils
  <2>10. Tasked(R, body)
    BY <2>8, <2>9 DEF Tasked, Same
  <2> QED BY <1>1, <2>1, <2>9, <2>10, RightIf DEF R
<1>3. CASE ~acting /\ c.type = "paralyze" /\ stepping
  <2> DEFINE n == body.unparalyze + 1
             X == [body EXCEPT !.unparalyze = n]
  <2>1. body' = X
    BY <1>3 DEF Dispel, Becomes
  <2>2. n \in Nat /\ {} \in SUBSET Condition /\ \A d \in {} : d.id = 0
    BY <1>1, BodyIs
  <2> HIDE DEF n
  <2>3. Tasked(X, body) /\ X.conditions = body.conditions
    BY <1>1, <2>2, LaterIs
  <2> HIDE DEF X
  <2>4. SameVeils(X, body)
    BY <2>3 DEF SameVeils, VeilOf
  <2> QED BY <1>1, <2>1, <2>3, <2>4, RightIf
<1>4. CASE ~acting /\ ~(c.type = "paralyze" /\ stepping)
  <2> DEFINE R == Taken(body, c)
  <2>1. body' = R
    BY <1>4 DEF Dispel, Becomes
  <2>2. Balanced(R) /\ Same(R, body) /\ R.conditions = body.conditions \ {c}
    BY <1>1, TakenIs
  <2> HIDE DEF R
  <2>3. Tasked(R, body) /\ SameVeils(R, body)
    BY <1>1, <2>2 DEF Tasked, Same, SameVeils, VeilOf
  <2> QED BY <1>1, <2>1, <2>3, RightIf
<1> QED BY <1>2, <1>3, <1>4

\* Items that are put on, taken off or used.
LEMMA WearRight ==
  ASSUME EffectsInv, NEW s \in Places, NEW k \in Wearable[s], Wear(s, k)
  PROVE  Right(body')
<1> DEFINE X == [body EXCEPT !.worn[s] = k]
<1>1. Right(body) /\ Balanced(body) /\ VeilsWorn(body) /\ Listed(body) /\ body \in Body /\ body.enabled \in [Places -> BOOLEAN]
  BY BodyIs DEF EffectsInv, Right, Balanced, Listed
<1>2. k \in DOMAIN Worn /\ Bare \notin DOMAIN Worn
  BY EffectsAssumption DEF Places
<1>3. body.enabled[s] = FALSE
  <2>1. body.worn[s] = Bare
    BY DEF Wear
  <2> QED BY <1>1, <1>2, <2>1 DEF Listed
<1>4. Elsewhere(X, body, s) /\ X.worn[s] = k
  BY <1>1, <1>2, ItemChanged
<1>5. body' = Equipped(X, s)
  BY DEF Wear, Becomes
<1> HIDE DEF X
<1>6. Right(X)
  BY <1>1, <1>3, <1>4, IdleItem DEF Right
<1>7. Kept(Equipped(X, s), X, s)
  BY <1>2, <1>4, <1>6, EquippedIs
<1> QED BY <1>5, <1>7 DEF Kept

\* An item that is taken off, expires or is used up.
LEMMA TakeOffRight ==
  ASSUME EffectsInv, NEW s \in Places, TakeOff(s)
  PROVE  Right(body')
<1> DEFINE k == body.worn[s]
           X == [body EXCEPT !.worn[s] = Bare]
<1>1. Right(body) /\ body \in Body /\ k \in DOMAIN Worn
  BY BodyIs DEF EffectsInv, Right, Balanced, Listed, TakeOff
<1>2. Elsewhere(X, body, s)
  BY <1>1, ItemChanged
<1>3. body' = DeEquipped(X, s, k)
  BY DEF TakeOff, WithoutItem, Becomes
<1> HIDE DEF X
<1>4. Kept(DeEquipped(X, s, k), body, s)
  BY <1>1, <1>2, DeEquippedIs
<1> QED BY <1>3, <1>4 DEF Kept

\* An item that has a use less is taken off and put on again.
LEMMA UseUpRight ==
  ASSUME EffectsInv, NEW s \in Places, UseUp(s)
  PROVE  Right(body')
<1> DEFINE k == body.worn[s]
           X == DeEquipped(body, s, k)
<1>1. Right(body) /\ body \in Body /\ k \in DOMAIN Worn
  BY DEF EffectsInv, Right, Balanced, Listed, UseUp
<1>2. Elsewhere(body, body, s)
  BY <1>1 DEF Elsewhere
<1>3. body' = Equipped(X, s)
  BY DEF UseUp, Becomes
<1>4. Kept(X, body, s) /\ X.worn[s] = k
  BY <1>1, <1>2, DeEquippedIs
<1> HIDE DEF X
<1>5. Right(X) /\ X.worn[s] \in DOMAIN Worn
  BY <1>1, <1>4 DEF Kept
<1>6. Kept(Equipped(X, s), X, s)
  BY <1>5, EquippedIs
<1> QED BY <1>3, <1>6 DEF Kept

\* Death, and the way out and in again.
LEMMA PerishRight ==
  ASSUME EffectsInv, NEW arena \in BOOLEAN, Perish(arena)
  PROVE  Right(body')
<1> DEFINE T == {c \in body.conditions : Persistent(c)}
           dead == FoldSet(LAMBDA c, X : Taken(X, c), body, T)
           gone == [Nothing EXCEPT !.worn = body.worn, !.strong = FALSE]
<1>1. Right(body) /\ body \in Body /\ body.worn \in [Places -> DOMAIN Worn \cup {Bare}] /\ FALSE \in BOOLEAN
  BY BodyIs DEF EffectsInv, Right, Balanced, Listed
<1>2. body' = IF arena THEN dead ELSE gone
  BY DEF Perish
<1>3. Right(dead)
  <2>1. T \in SUBSET body.conditions /\ \A c \in T : c.id = 0
    BY DEF Persistent
  <2> HIDE DEF T
  <2> QED BY <1>1, <2>1, OwnTaken
<1>4. Right(gone)
  <2>1. gone = Away(body.worn, FALSE)
    BY AwayWas
  <2> HIDE DEF gone
  <2> QED BY <1>1, <2>1, AwayIs
<1> HIDE DEF dead, gone
<1> QED BY <1>2, <1>3, <1>4

\* Conditions that last are saved, and nothing is left of the rest.
LEMMA LogOutRight ==
  ASSUME EffectsInv, LogOut
  PROVE  Right(body') /\ IsFiniteSet(saved') /\ \A c \in saved' : c \in Condition /\ c.id = 0
<1>1. /\ body \in Body /\ body.worn \in [Places -> DOMAIN Worn \cup {Bare}] /\ body.strong \in BOOLEAN
      /\ body.conditions \in SUBSET Condition /\ IsFiniteSet(body.conditions)
  BY BodyIs DEF EffectsInv, Right, Balanced, Listed
<1>2. body' = Away(body.worn, body.strong)
  BY DEF LogOut, Nothing, Places, Away
<1>3. Right(body')
  BY <1>1, <1>2, AwayIs
<1>4. saved' \in SUBSET body.conditions /\ \A c \in saved' : c.id = 0
  BY DEF LogOut, Persistent
<1>5. IsFiniteSet(saved')
  BY <1>1, <1>4, FS_Subset
<1> QED BY <1>1, <1>3, <1>4, <1>5

\* Items first, then the saved conditions.
LEMMA LogInRight ==
  ASSUME EffectsInv, NEW stepping \in BOOLEAN, LogIn(stepping)
  PROVE  Right(body')
<1> DEFINE X == [body EXCEPT !.online = TRUE]
           T == {s \in Places : body.worn[s] # Bare}
           items == FoldSet(LAMBDA s, Z : Equipped(Z, s), X, T)
<1>1. Right(body) /\ TRUE \in BOOLEAN
  BY DEF EffectsInv
<1>2. Right(X) /\ X.worn = body.worn
  BY <1>1, OtherIs
<1>3. body' = FoldSet(LAMBDA c, Z : Added(Z, c, stepping, FALSE), items, saved)
  BY DEF LogIn, Places
<1>4. Right(items)
  <2>1. T \in SUBSET Places /\ \A s \in T : X.worn[s] # Bare
    BY <1>2
  <2> HIDE DEF X, T
  <2> QED BY <1>2, <2>1, AllEquipped
<1>5. IsFiniteSet(saved) /\ \A c \in saved : Proper(c) /\ c.id = 0
  BY DEF EffectsInv, Proper, OfItem
<1> HIDE DEF items
<1> QED BY <1>3, <1>4, <1>5, AllAdded

\* Every step keeps the invariant.
LEMMA EffectsInvStep == EffectsInv /\ [EffectsNext]_effectsVars => EffectsInv'
<1> SUFFICES ASSUME EffectsInv, [EffectsNext]_effectsVars  PROVE EffectsInv'
  OBVIOUS
<1>1. SUFFICES /\ Right(body') /\ magic' = magic
               /\ saved' = saved \/ saved' = {} \/ (IsFiniteSet(saved') /\ \A c \in saved' : c \in Condition /\ c.id = 0)
  BY FS_EmptySet DEF EffectsInv, Right, Balanced, Listed, Sums, Dress, VeilsWorn, VeilOf, EnabledIn, Gains, Veiled
<1>2. CASE LogOut
  BY <1>2, LogOutRight DEF LogOut
<1>3. ASSUME NEW stepping \in BOOLEAN, LogIn(stepping)
      PROVE  Right(body') /\ magic' = magic /\ saved' = {}
  BY <1>3, LogInRight DEF LogIn
<1>4. ASSUME NEW arena \in BOOLEAN, Perish(arena)
      PROVE  Right(body') /\ magic' = magic /\ saved' = saved
  BY <1>4, PerishRight DEF Perish
<1>5. CASE TimePasses
  <2>1. body' = [body EXCEPT !.conditions = {Older(c) : c \in @}]
    BY <1>5 DEF TimePasses, Becomes
  <2>2. Right(body)
    BY DEF EffectsInv
  <2>3. Right(body')
    BY <2>1, <2>2, AgedIs
  <2> QED BY <1>5, <2>3 DEF TimePasses, Becomes
<1>6. CASE ExecuteConditions
  BY <1>6, ExecuteConditionsRight DEF ExecuteConditions, Becomes
<1>7. CASE UnparalyzeNow
  BY <1>7, UnparalyzeNowRight DEF UnparalyzeNow, Becomes
<1>8. CASE Train
  <2>1. body' = [body EXCEPT !.strong = TRUE] /\ TRUE \in BOOLEAN
    BY <1>8 DEF Train, Becomes
  <2>2. Right(body)
    BY DEF EffectsInv
  <2>3. Right(body')
    BY <2>1, <2>2, OtherIs
  <2> QED BY <1>8, <2>3 DEF Train, Becomes
<1>9. ASSUME NEW stepping \in BOOLEAN, NEW c \in magic, CastOn(c, stepping)
      PROVE  Right(body') /\ magic' = magic /\ saved' = saved
  BY <1>9, CastOnRight DEF CastOn, Becomes
<1>10. ASSUME NEW stepping \in BOOLEAN, NEW c \in body.hasten, HastenNow(c, stepping)
       PROVE  Right(body') /\ magic' = magic /\ saved' = saved
  BY <1>10, HastenNowRight DEF HastenNow, Becomes
<1>11. ASSUME NEW stepping \in BOOLEAN, NEW c \in body.conditions, NEW acting \in BOOLEAN, Dispel(c, acting, stepping)
       PROVE  Right(body') /\ magic' = magic /\ saved' = saved
  BY <1>11, DispelRight DEF Dispel, Becomes
<1>12. ASSUME NEW s \in Places, TakeOff(s) \/ UseUp(s) \/ \E k \in Wearable[s] : Wear(s, k)
       PROVE  Right(body') /\ magic' = magic /\ saved' = saved
  <2>1. CASE TakeOff(s)
    BY <2>1, TakeOffRight DEF TakeOff, Becomes
  <2>2. CASE UseUp(s)
    BY <2>2, UseUpRight DEF UseUp, Becomes
  <2>3. CASE \E k \in Wearable[s] : Wear(s, k)
    BY <2>3, WearRight DEF Wear, Becomes
  <2> QED BY <1>12, <2>1, <2>2, <2>3
<1>13. CASE UNCHANGED effectsVars
  BY <1>13 DEF effectsVars, EffectsInv
<1> QED BY <1>2, <1>3, <1>4, <1>5, <1>6, <1>7, <1>8, <1>9, <1>10, <1>11, <1>12, <1>13 DEF EffectsNext, Places

\* It holds at first.
LEMMA EffectsInvInit == EffectsInit => EffectsInv
<1> SUFFICES ASSUME EffectsInit  PROVE EffectsInv
  OBVIOUS
<1> DEFINE w == [s \in Places |-> Bare]
<1>1. w \in [Places -> DOMAIN Worn \cup {Bare}] /\ TRUE \in BOOLEAN
  OBVIOUS
<1>2. body = Away(w, TRUE)
  BY DEF EffectsInit, Nothing, Places, Away
<1> HIDE DEF w
<1>3. Right(body)
  BY <1>1, <1>2, AwayIs
<1> QED BY <1>3, FS_EmptySet DEF EffectsInit, EffectsInv

\* The sums, the outfit and the veils of a right body are those of EffectsBalanced.
LEMMA InvBalanced == EffectsInv => EffectsBalanced
<1> SUFFICES ASSUME EffectsInv  PROVE EffectsBalanced
  OBVIOUS
<1> DEFINE of(types) == {c \in body.conditions : c.type \in types}
           power == [c \in body.conditions |-> c.power]
           fast == [s \in WornNow |-> Worn[body.worn[s]].speed]
           able == [s \in WornNow |-> Worn[body.worn[s]].skill]
<1>1. /\ Balanced(body) /\ VeilsWorn(body) /\ Listed(body) /\ Sums(body) /\ Dress(body) /\ body \in Body
      /\ body.conditions \in SUBSET Condition /\ IsFiniteSet(body.conditions)
  BY BodyIs DEF EffectsInv, Right, Balanced, Listed
<1>2. ASSUME NEW types  PROVE SumOf(power, of(types)) = Powers(body.conditions, types)
  <2> DEFINE S == of(types)
  <2>1. IsFiniteSet(S)
    <3>1. S \in SUBSET body.conditions
      OBVIOUS
    <3> HIDE DEF S
    <3> QED BY <1>1, <3>1, FS_Subset
  <2>2. \A c \in S : Power[c] \in Int /\ power[c] = Power[c]
    BY <1>1 DEF Power, Condition
  <2>3. Powers(body.conditions, types) = SumOf(Power, S)
    BY DEF Powers
  <2> HIDE DEF S, power
  <2>4. SumOf(power, S) = SumOf(Power, S)
    BY <2>1, <2>2, SumSame
  <2> QED BY <2>3, <2>4 DEF S
<1>3. WornNow = EnabledIn(body) /\ IsFiniteSet(WornNow) /\ \A s \in WornNow : s \in Places /\ body.worn[s] \in DOMAIN Worn
  <2>1. WornNow = EnabledIn(body)
    BY DEF WornNow, EnabledIn, Places
  <2>2. \A s \in EnabledIn(body) : s \in Places /\ body.worn[s] \in DOMAIN Worn
    BY <1>1 DEF EnabledIn, Listed
  <2>3. IsFiniteSet(EnabledIn(body))
    <3>1. EnabledIn(body) \in SUBSET Places
      BY DEF EnabledIn
    <3> QED BY <3>1, EffectsAssumption, FS_Subset DEF Places
  <2> QED BY <2>1, <2>2, <2>3
<1>4. SumOf(fast, WornNow) = Gains(body, SpeedOf)
  <2> DEFINE f == [s \in Places |-> SpeedOf[body.worn[s]]]
  <2>1. \A s \in WornNow : f[s] \in Int /\ fast[s] = f[s]
    BY <1>3, EffectsAssumption DEF SpeedOf
  <2>2. Gains(body, SpeedOf) = SumOf(f, WornNow)
    BY <1>3 DEF Gains
  <2> HIDE DEF f, fast
  <2> QED BY <1>3, <2>1, <2>2, SumSame
<1>5. SumOf(able, WornNow) = Gains(body, SkillOf)
  <2> DEFINE f == [s \in Places |-> SkillOf[body.worn[s]]]
  <2>1. \A s \in WornNow : f[s] \in Int /\ able[s] = f[s]
    BY <1>3, EffectsAssumption DEF SkillOf
  <2>2. Gains(body, SkillOf) = SumOf(f, WornNow)
    BY <1>3 DEF Gains
  <2> HIDE DEF f, able
  <2> QED BY <1>3, <2>1, <2>2, SumSame
<1>6. body.speed = SumOf(power, of({"haste", "paralyze"})) + SumOf(fast, WornNow)
  BY <1>1, <1>2, <1>4 DEF Sums, Speeds
<1>7. body.skill = SumOf(power, of({"skill"})) + SumOf(able, WornNow)
  BY <1>1, <1>2, <1>5 DEF Sums, Skills
<1>8. body.outfit = IF of({"guise"}) = {} THEN 0 ELSE (CHOOSE c \in of({"guise"}) : TRUE).power
  <2> DEFINE G == of({"guise"})
  <2>1. CASE G = {}
    BY <1>1, <2>1 DEF Dress
  <2>2. CASE G # {}
    <3>1. (CHOOSE c \in G : TRUE) \in G
      BY <2>2
    <3>2. \A c \in G : body.outfit = c.power
      BY <1>1 DEF Dress
    <3> QED BY <2>2, <3>1, <3>2
  <2> QED BY <2>1, <2>2
<1>9. body.shown = IF of({"veil"}) = {} THEN body.outfit ELSE Unseen
  <2>1. Veiled(body) <=> of({"veil"}) # {}
    BY DEF Veiled
  <2> QED BY <1>1, <2>1 DEF Dress
<1>10. \A s \in DOMAIN Wearable :
         (\E c \in of({"veil"}) : c.id = s) <=> (body.enabled[s] /\ Worn[body.worn[s]].veil)
  <2> SUFFICES ASSUME NEW s \in Places
               PROVE  (\E c \in of({"veil"}) : c.id = s) <=> (body.enabled[s] /\ Worn[body.worn[s]].veil)
    BY DEF Places
  <2>1. VeilOf(body, s) <=> (body.enabled[s] /\ Worn[body.worn[s]].veil)
    BY <1>1 DEF VeilsWorn
  <2>2. VeilOf(body, s) <=> \E c \in of({"veil"}) : c.id = s
    BY DEF VeilOf
  <2> QED BY <2>1, <2>2
<1> QED BY <1>6, <1>7, <1>8, <1>9, <1>10 DEF EffectsBalanced

\* Whatever a condition or a worn item starts is undone once, in whatever order spells,
\* items, deaths and logouts come.
THEOREM EffectsUndoneOnce == EffectsSpec => []EffectsBalanced
<1>1. EffectsSpec => []EffectsInv
  BY EffectsInvInit, EffectsInvStep, PTL DEF EffectsSpec
<1>2. EffectsInv => EffectsBalanced
  BY InvBalanced
<1> QED BY <1>1, <1>2, PTL

-----------------------------------------------------------------------------
(* An NPC and its customers.                                               *)

NpcDuty == [action : Actions \cup {"gone"}, who : Customers, word : Words \cup {AnyWord}]
Served == [focus : Customers \cup {Nobody}, queue : Seq([who : Customers, word : Words \cup {AnyWord}]), topic : Nat,
           asker : Customers \cup {Nobody}, ends : BOOLEAN, sayings : Nat, loose : Nat, last : Customers \cup {Nobody},
           place : [Customers -> {"near", "far", "away"}], todo : Seq(NpcDuty)]

\* The next thing done is to let the customer go.
Turning(T) == T # <<>> /\ T[1].action = "idle"

\* The customer is there and will be let go when he is silent, or is just being let go.
Attended(f, place, ends, T) == f = Nobody \/ (place[f] = "near" /\ ends) \/ Turning(T)

\* Nobody waits while the NPC is free, for himself, or twice.
Awaited(f, queue) ==
  /\ f = Nobody => queue = <<>>
  /\ \A i \in 1..Len(queue) : queue[i].who # f /\ \A j \in 1..(i - 1) : queue[j].who # queue[i].who

\* What was agreed on was agreed with the customer, who is not about to be let go.
Agreed(topic, asker, f, T) ==
  ~LetsGo(rules) /\ topic # 0 =>
    f = asker /\ asker \in Customers /\ \A k \in 1..Len(T) : T[k].action # "idle"

\* Something will be agreed on only with the customer, and before he goes.
TopicDuty(f, T) ==
  \A k, j \in 1..Len(T) : T[k].action = "topic" =>
    T[k].who = f /\ T[j].action # "idle" /\ (j < k => T[j].action # "teleport")

\* Who will wait is not the customer, and nothing moves anybody before.
QueueDuty(f, T) ==
  \A k, j \in 1..Len(T) : T[k].action = "queue" =>
    f \notin {Nobody, T[k].who} /\ T[j].action # "gone" /\ (j < k => T[j].action \notin {"idle", "teleport"})

\* Who will be gone is not the customer by then, and does not wait, unless nothing comes first.
GoneDuty(f, queue, T) ==
  \A k \in 1..Len(T) : T[k].action = "gone" =>
    /\ k # 1 => \A i \in 1..Len(queue) : queue[i].who # T[k].who
    /\ f = T[k].who => Turning(T)

Serves(N) ==
  /\ N \in Served /\ rules \in Databases
  /\ Attended(N.focus, N.place, N.ends, N.todo)
  /\ Awaited(N.focus, N.queue)
  /\ Agreed(N.topic, N.asker, N.focus, N.todo)
  /\ TopicDuty(N.focus, N.todo) /\ QueueDuty(N.focus, N.todo) /\ GoneDuty(N.focus, N.queue, N.todo)

\* Its fields by their names.
Record(f, q, t, a, e, s, l, x, p, T) ==
  [focus |-> f, queue |-> q, topic |-> t, asker |-> a, ends |-> e, sayings |-> s, loose |-> l, last |-> x, place |-> p, todo |-> T]

LEMMA RecordIs ==
  ASSUME NEW f \in Customers \cup {Nobody}, NEW q \in Seq([who : Customers, word : Words \cup {AnyWord}]), NEW t \in Nat,
         NEW a \in Customers \cup {Nobody}, NEW e \in BOOLEAN, NEW s \in Nat, NEW l \in Nat, NEW x \in Customers \cup {Nobody},
         NEW p \in [Customers -> {"near", "far", "away"}], NEW T \in Seq(NpcDuty),
         NEW N, N = Record(f, q, t, a, e, s, l, x, p, T)
  PROVE  /\ N \in Served
         /\ N.focus = f /\ N.queue = q /\ N.topic = t /\ N.asker = a /\ N.ends = e /\ N.sayings = s /\ N.loose = l
         /\ N.last = x /\ N.place = p /\ N.todo = T
BY DEF Record, Served

LEMMA IsRecord ==
  ASSUME NEW N \in Served
  PROVE  /\ N = Record(N.focus, N.queue, N.topic, N.asker, N.ends, N.sayings, N.loose, N.last, N.place, N.todo)
         /\ N.focus \in Customers \cup {Nobody} /\ N.queue \in Seq([who : Customers, word : Words \cup {AnyWord}])
         /\ N.topic \in Nat /\ N.asker \in Customers \cup {Nobody} /\ N.ends \in BOOLEAN /\ N.sayings \in Nat
         /\ N.loose \in Nat /\ N.last \in Customers \cup {Nobody} /\ N.place \in [Customers -> {"near", "far", "away"}]
         /\ N.todo \in Seq(NpcDuty)
BY DEF Record, Served

\* What comes before a list of duties, and what is left of one.
LEMMA Ahead ==
  ASSUME NEW a \in Seq(NpcDuty), NEW T \in Seq(NpcDuty), NEW L, L = a \o T
  PROVE  /\ L \in Seq(NpcDuty) /\ Len(L) = Len(a) + Len(T) /\ Len(a) \in Nat /\ Len(T) \in Nat
         /\ \A k \in 1..Len(a) : L[k] = a[k] /\ a[k] \in NpcDuty
         /\ \A k \in 1..Len(T) : L[Len(a) + k] = T[k] /\ T[k] \in NpcDuty
         /\ \A k \in 1..Len(L) : k \in 1..Len(a) \/ (k - Len(a) \in 1..Len(T) /\ L[k] = T[k - Len(a)])
<1>1. L \in Seq(NpcDuty) /\ Len(L) = Len(a) + Len(T) /\ Len(a) \in Nat /\ Len(T) \in Nat
  BY ConcatProperties, LenProperties
<1>2. \A k \in 1..(Len(a) + Len(T)) : L[k] = IF k <= Len(a) THEN a[k] ELSE T[k - Len(a)]
  BY ConcatProperties
<1>3. \A k \in 1..Len(a) : L[k] = a[k] /\ a[k] \in NpcDuty
  <2> SUFFICES ASSUME NEW k \in 1..Len(a)  PROVE L[k] = a[k] /\ a[k] \in NpcDuty
    OBVIOUS
  <2>1. k \in 1..(Len(a) + Len(T)) /\ k <= Len(a)
    BY <1>1
  <2>2. a[k] \in NpcDuty
    BY ElementOfSeq
  <2> QED BY <1>2, <2>1, <2>2
<1>4. \A k \in 1..Len(T) : L[Len(a) + k] = T[k] /\ T[k] \in NpcDuty
  <2> SUFFICES ASSUME NEW k \in 1..Len(T)  PROVE L[Len(a) + k] = T[k] /\ T[k] \in NpcDuty
    OBVIOUS
  <2>1. Len(a) + k \in 1..(Len(a) + Len(T)) /\ ~(Len(a) + k <= Len(a)) /\ (Len(a) + k) - Len(a) = k
    BY <1>1
  <2>2. T[k] \in NpcDuty
    BY ElementOfSeq
  <2> QED BY <1>2, <2>1, <2>2
<1>5. \A k \in 1..Len(L) : k \in 1..Len(a) \/ (k - Len(a) \in 1..Len(T) /\ L[k] = T[k - Len(a)])
  <2> SUFFICES ASSUME NEW k \in 1..Len(L), k \notin 1..Len(a)
               PROVE  k - Len(a) \in 1..Len(T) /\ L[k] = T[k - Len(a)]
    OBVIOUS
  <2>1. k \in 1..(Len(a) + Len(T)) /\ ~(k <= Len(a)) /\ k - Len(a) \in 1..Len(T)
    BY <1>1
  <2> QED BY <1>2, <2>1
<1> QED BY <1>1, <1>3, <1>4, <1>5

LEMMA AheadOf ==
  ASSUME NEW T \in Seq(NpcDuty), T # <<>>
  PROVE  /\ T[1] \in NpcDuty /\ Head(T) = T[1] /\ Tail(T) \in Seq(NpcDuty)
         /\ Len(T) \in Nat /\ Len(T) > 0 /\ Len(Tail(T)) = Len(T) - 1
         /\ \A k \in 1..Len(Tail(T)) : k + 1 \in 1..Len(T) /\ Tail(T)[k] = T[k + 1] /\ T[k + 1] \in NpcDuty
<1>1. Len(T) \in Nat /\ Len(T) > 0 /\ Head(T) = T[1]
  BY EmptySeq, LenProperties, HeadTailProperties
<1>2. Tail(T) \in Seq(NpcDuty) /\ Len(Tail(T)) = Len(T) - 1
  BY HeadTailProperties
<1>3. ASSUME NEW k \in 1..Len(Tail(T))  PROVE k + 1 \in 1..Len(T) /\ Tail(T)[k] = T[k + 1] /\ T[k + 1] \in NpcDuty
  <2>1. k + 1 \in 1..Len(T)
    BY <1>1, <1>2
  <2>2. Tail(T)[k] = T[k + 1]
    BY <1>1, <1>2, HeadTailProperties
  <2> QED BY <2>1, <2>2, ElementOfSeq
<1>4. T[1] \in NpcDuty
  BY <1>1, ElementOfSeq
<1> QED BY <1>1, <1>2, <1>3, <1>4

\* A script has rules that are what it is assumed to have.
LEMMA ScriptIs ==
  ASSUME rules \in Databases, NEW i \in DOMAIN rules
  PROVE  /\ i \in Nat /\ rules[i].situation \in Situations /\ rules[i].word \in Words \cup {AnyWord}
         /\ rules[i].actions \in Seq(Actions)
         /\ \A k, j \in DOMAIN rules[i].actions :
              /\ rules[i].actions[k] = "queue" =>
                   rules[i].situation = "busy" /\ (j < k => rules[i].actions[j] \notin {"idle", "teleport"})
              /\ rules[i].actions[k] = "topic" =>
                   rules[i].situation = "none" /\ rules[i].actions[j] # "idle" /\ (j < k => rules[i].actions[j] # "teleport")
<1> DEFINE entry == [situation : Situations, word : Words \cup {AnyWord}, topic : {AnyTopic} \cup Nat, actions : Seq(Actions)]
<1>1. rules \in Seq(entry)
  BY NpcAssumption
<1>2. rules[i] \in entry /\ i \in Nat
  <2>1. i \in 1..Len(rules)
    BY <1>1, LenProperties
  <2> HIDE DEF entry
  <2> QED BY <1>1, <2>1, ElementOfSeq
<1>3. \A k, j \in DOMAIN rules[i].actions :
              /\ rules[i].actions[k] = "queue" =>
                   rules[i].situation = "busy" /\ (j < k => rules[i].actions[j] \notin {"idle", "teleport"})
              /\ rules[i].actions[k] = "topic" =>
                   rules[i].situation = "none" /\ rules[i].actions[j] # "idle" /\ (j < k => rules[i].actions[j] # "teleport")
  BY NpcAssumption
<1> QED BY <1>2, <1>3

\* There is always a rule for a greeting and for taking leave.
LEMMA SomeFits ==
  ASSUME rules \in Databases, NEW N, NEW s \in {"address", "vanish"}, NEW word
  PROVE  Matching(N, s, word) # {}
<1>1. PICK i \in DOMAIN rules : rules[i].situation = s /\ rules[i].word = AnyWord /\ rules[i].topic = AnyTopic
  BY NpcAssumption
<1>2. Fulfilled(N, rules[i], s, word)
  BY <1>1 DEF Fulfilled
<1> QED BY <1>1, <1>2 DEF Matching

\* What a rule has to be done for a player.
LEMMA DutiesAre ==
  ASSUME rules \in Databases, NEW i \in DOMAIN rules, NEW p \in Customers, NEW word \in Words \cup {AnyWord},
         NEW d, d = Duties(rules[i], p, word)
  PROVE  /\ d \in Seq(NpcDuty) /\ Len(d) \in Nat
         /\ \A k \in 1..Len(d) : d[k].who = p /\ d[k].action \in Actions /\ d[k].action = rules[i].actions[k]
                                 /\ k \in DOMAIN rules[i].actions
<1> DEFINE does == rules[i].actions
<1>1. does \in Seq(Actions)
  BY ScriptIs
<1>2. Len(does) \in Nat /\ DOMAIN does = 1..Len(does) /\ \A k \in 1..Len(does) : does[k] \in Actions
  BY <1>1, LenProperties, ElementOfSeq
<1>3. d = [k \in 1..Len(does) |-> Duty(does[k], p, word)]
  BY <1>2 DEF Duties
<1> HIDE DEF does
<1>4. ASSUME NEW k \in 1..Len(does)
      PROVE  Duty(does[k], p, word) \in NpcDuty /\ Duty(does[k], p, word).who = p /\ Duty(does[k], p, word).action = does[k]
  BY <1>2, <1>4 DEF Duty, NpcDuty
<1>5. d \in Seq(NpcDuty)
  BY <1>2, <1>3, <1>4
<1>6. Len(d) = Len(does)
  BY <1>2, <1>3, <1>5
<1>7. ASSUME NEW k \in 1..Len(does)  PROVE d[k].who = p /\ d[k].action = does[k]
  BY <1>3, <1>4, <1>7
<1> QED BY <1>2, <1>5, <1>6, <1>7 DEF does

\* How a reaction begins: with the duties d of a rule for the situation.
Begins(N, s, p, word, d, R) ==
  /\ R \in Served /\ R.queue = N.queue /\ R.place = N.place
  /\ R.focus = IF s = "address" THEN p ELSE N.focus
  /\ R.todo = IF s = "vanish" THEN <<Duty("idle", p, word)>> \o d \o N.todo ELSE d \o N.todo
  /\ R.ends = IF s = "vanish" THEN FALSE ELSE IF s = "address" \/ N.focus = p THEN TRUE ELSE N.ends
  /\ N.focus = p => R.topic = 0
  /\ N.focus # p => R.topic = N.topic /\ R.asker = N.asker

\* What is begun for a player: nothing is agreed on or has anybody wait but when it may.
RuleBegun(s, p, d) ==
  /\ d \in Seq(NpcDuty) /\ Len(d) \in Nat
  /\ \A k \in 1..Len(d) : d[k].who = p /\ d[k].action \in Actions
  /\ \A k, j \in 1..Len(d) :
       /\ d[k].action = "queue" => s = "busy" /\ (j < k => d[j].action \notin {"idle", "teleport"})
       /\ d[k].action = "topic" => s = "none" /\ d[j].action # "idle" /\ (j < k => d[j].action # "teleport")
  /\ ~LetsGo(rules) /\ s = "busy" => \A k \in 1..Len(d) : d[k].action # "idle"

LEMMA ReactIs ==
  ASSUME rules \in Databases, NEW N \in Served, NEW s \in Situations, NEW p \in Customers, NEW word \in Words \cup {AnyWord},
         s = "vanish" => N.focus = p, NEW R, R = React(N, s, p, word)
  PROVE  (R = N /\ s \notin {"address", "vanish"}) \/ \E d : RuleBegun(s, p, d) /\ Begins(N, s, p, word, d, R)
<1> DEFINE fits == Matching(N, s, word)
           quiet == [N EXCEPT !.sayings = 0]
           cleared == IF N.focus = p THEN [quiet EXCEPT !.topic = 0, !.asker = Nobody] ELSE quiet
           attended == IF s = "address" \/ N.focus = p THEN AttendCustomer(cleared, p) ELSE cleared
<1>1. CASE fits = {}
  <2>1. R = N
    BY <1>1 DEF React
  <2>2. s \notin {"address", "vanish"}
    BY <1>1, SomeFits
  <2> QED BY <2>1, <2>2
<1>2. CASE fits # {}
  <2>1. fits \subseteq DOMAIN rules /\ \A j \in fits : rules[j].situation = s
    BY DEF Matching, Fulfilled
  <2>2. fits \in SUBSET Nat
    BY <2>1, ScriptIs
  <2> DEFINE i == CHOOSE n \in fits : \A j \in fits : n <= j
             d == Duties(rules[i], p, word)
  <2>3. i \in fits
    <3>1. \E n \in fits : \A j \in fits : n <= j
      <4> HIDE DEF fits
      <4> QED BY <1>2, <2>2, LeastOne
    <3> HIDE DEF fits
    <3> QED BY <3>1
  <2>4. R = IF s = "vanish" THEN [attended EXCEPT !.ends = FALSE, !.todo = <<Duty("idle", p, word)>> \o d \o @]
            ELSE [attended EXCEPT !.todo = d \o @]
    BY <1>2 DEF React
  <2>5. i \in DOMAIN rules /\ rules[i].situation = s
    BY <2>1, <2>3
  <2> HIDE DEF i, fits
  <2>6. /\ d \in Seq(NpcDuty) /\ Len(d) \in Nat
        /\ \A k \in 1..Len(d) : d[k].who = p /\ d[k].action \in Actions /\ d[k].action = rules[i].actions[k]
                                /\ k \in DOMAIN rules[i].actions
    BY <2>5, DutiesAre
  <2> HIDE DEF d
  <2>7. RuleBegun(s, p, d)
    <3>1. ASSUME NEW k \in 1..Len(d), NEW j \in 1..Len(d)
          PROVE  /\ d[k].action = "queue" => s = "busy" /\ (j < k => d[j].action \notin {"idle", "teleport"})
                 /\ d[k].action = "topic" => s = "none" /\ d[j].action # "idle" /\ (j < k => d[j].action # "teleport")
      BY <2>5, <2>6, <3>1, ScriptIs
    <3>2. ASSUME ~LetsGo(rules), s = "busy", NEW k \in 1..Len(d), d[k].action = "idle"  PROVE FALSE
      <4>1. rules[i].actions[k] = "idle" /\ k \in DOMAIN rules[i].actions
        BY <2>6, <3>2
      <4>2. "idle" \in ToSet(rules[i].actions)
        BY <4>1 DEF ToSet
      <4> QED BY <2>5, <3>2, <4>2 DEF LetsGo
    <3> QED BY <2>6, <3>1, <3>2 DEF RuleBegun
  <2>8. Begins(N, s, p, word, d, R)
    <3> DEFINE f == N.focus
               q == N.queue
               l == N.loose
               x == N.last
               c == N.place
               T == N.todo
               t == IF f = p THEN 0 ELSE N.topic
               a == IF f = p THEN Nobody ELSE N.asker
               g == IF s = "address" THEN p ELSE f
               e == IF s = "vanish" THEN FALSE ELSE IF s = "address" \/ f = p THEN TRUE ELSE N.ends
    <3>1. /\ N = Record(f, q, N.topic, N.asker, N.ends, N.sayings, l, x, c, T)
          /\ f \in Customers \cup {Nobody} /\ q \in Seq([who : Customers, word : Words \cup {AnyWord}])
          /\ N.topic \in Nat /\ N.asker \in Customers \cup {Nobody} /\ N.ends \in BOOLEAN
          /\ l \in Nat /\ x \in Customers \cup {Nobody} /\ c \in [Customers -> {"near", "far", "away"}]
          /\ T \in Seq(NpcDuty)
      BY IsRecord
    <3> HIDE DEF f, q, l, x, c, T
    <3>2. cleared = Record(f, q, t, a, N.ends, 0, l, x, c, T)
      <4>1. quiet = Record(f, q, N.topic, N.asker, N.ends, 0, l, x, c, T)
        BY <3>1 DEF Record
      <4> HIDE DEF quiet
      <4>2. CASE f = p
        <5>1. cleared = [quiet EXCEPT !.topic = 0, !.asker = Nobody]
          BY <4>2 DEF f
        <5>2. cleared = Record(f, q, 0, Nobody, N.ends, 0, l, x, c, T)
          BY <4>1, <5>1 DEF Record
        <5> QED BY <4>2, <5>2
      <4>3. CASE f # p
        <5>1. cleared = quiet
          BY <4>3 DEF f
        <5> QED BY <4>1, <4>3, <5>1
      <4> QED BY <4>2, <4>3
    <3>3. attended = Record(g, q, t, a, IF s = "address" \/ f = p THEN TRUE ELSE N.ends, 0, l, x, c, T)
      <4>1. CASE s = "address" \/ f = p
        <5>1. attended = AttendCustomer(cleared, p)
          BY <4>1 DEF f
        <5>2. attended = Record(p, q, t, a, TRUE, 0, l, x, c, T)
          <6> HIDE DEF cleared, t, a
          <6> QED BY <3>2, <5>1 DEF AttendCustomer, Record
        <5> QED BY <4>1, <5>2
      <4>2. CASE ~(s = "address" \/ f = p)
        BY <3>2, <4>2 DEF f
      <4> QED BY <4>1, <4>2
    <3>4. R = Record(g, q, t, a, e, 0, l, x, c, IF s = "vanish" THEN <<Duty("idle", p, word)>> \o d \o T ELSE d \o T)
      <4> HIDE DEF t, a, g, attended
      <4> QED BY <2>4, <3>3 DEF Record
    <3>5. (IF s = "vanish" THEN <<Duty("idle", p, word)>> \o d \o T ELSE d \o T) \in Seq(NpcDuty)
      <4> DEFINE u == Duty("idle", p, word)
      <4>2. u \in NpcDuty
        BY DEF Duty, NpcDuty, Actions
      <4> HIDE DEF u
      <4>1. <<u>> \in Seq(NpcDuty)
        BY <4>2
      <4>3. <<u>> \o d \in Seq(NpcDuty)
        BY <2>6, <4>1, ConcatProperties
      <4>4. <<u>> \o d \o T \in Seq(NpcDuty) /\ d \o T \in Seq(NpcDuty)
        BY <2>6, <3>1, <4>3, ConcatProperties
      <4> QED BY <4>4 DEF u
    <3> DEFINE L == IF s = "vanish" THEN <<Duty("idle", p, word)>> \o d \o T ELSE d \o T
    <3>6. g \in Customers \cup {Nobody} /\ t \in Nat /\ 0 \in Nat /\ a \in Customers \cup {Nobody} /\ e \in BOOLEAN
      BY <3>1
    <3>7. L \in Seq(NpcDuty) /\ R = Record(g, q, t, a, e, 0, l, x, c, L)
      BY <3>4, <3>5
    <3> HIDE DEF L, g, t, a, e
    <3>8. /\ R \in Served
          /\ R.focus = g /\ R.queue = q /\ R.topic = t /\ R.asker = a /\ R.ends = e /\ R.place = c /\ R.todo = L
      <4>1. c \in [Customers -> {"near", "far", "away"}] /\ q \in Seq([who : Customers, word : Words \cup {AnyWord}])
        BY <3>1
      <4>2. /\ N.focus \in Customers \cup {Nobody} /\ l \in Nat /\ x \in Customers \cup {Nobody}
        BY <3>1 DEF f
      <4>3. R.focus = g /\ R.queue = q /\ R.topic = t /\ R.asker = a /\ R.ends = e /\ R.place = c /\ R.todo = L
        BY <3>7 DEF Record
      <4>4. R \in Served
        BY <3>6, <3>7, <4>1, <4>2 DEF Record, Served
      <4> QED BY <4>3, <4>4
    <3> QED BY <3>8 DEF Begins, L, g, t, a, e, f, q, c, T
  <2> QED BY <2>7, <2>8
<1> QED BY <1>1, <1>2

\* Nothing is about to be agreed on, and nobody to be queued.
Silent(T) == \A k \in 1..Len(T) : T[k].action \notin {"topic", "queue"}
\* Who is about to be gone does not wait.
Leavers(T, queue) ==
  \A k \in 1..Len(T) : T[k].action = "gone" => \A i \in 1..Len(queue) : queue[i].who # T[k].who

\* Who is about to be gone was so before.
Inherits(L, T) == \A k \in 1..Len(L) : L[k].action = "gone" => \E j \in 1..Len(T) : T[j] = L[k]

LEMMA SilentDuties ==
  ASSUME NEW f, NEW T, Silent(T)
  PROVE  TopicDuty(f, T) /\ QueueDuty(f, T)
BY DEF Silent, TopicDuty, QueueDuty

\* The duties of a rule for such a situation before others.
LEMMA SilentAhead ==
  ASSUME NEW s \in {"address", "vanish"}, NEW p \in Customers, NEW d, RuleBegun(s, p, d), NEW T \in Seq(NpcDuty), Silent(T),
         NEW queue, Leavers(T, queue), NEW L, L = d \o T
  PROVE  L \in Seq(NpcDuty) /\ Silent(L) /\ Leavers(L, queue) /\ Inherits(L, T)
<1>1. /\ L \in Seq(NpcDuty)
      /\ \A k \in 1..Len(d) : L[k] = d[k] /\ d[k] \in NpcDuty
      /\ \A k \in 1..Len(L) : k \in 1..Len(d) \/ (k - Len(d) \in 1..Len(T) /\ L[k] = T[k - Len(d)])
  BY Ahead DEF RuleBegun
<1>2. \A k \in 1..Len(d) : d[k].action \in Actions /\ d[k].action \notin {"topic", "queue"}
  BY DEF RuleBegun
<1>3. ASSUME NEW k \in 1..Len(L)
      PROVE  L[k].action \in Actions \ {"topic", "queue"} \/ \E j \in 1..Len(T) : T[j] = L[k]
  <2>1. CASE k \in 1..Len(d)
    BY <1>1, <1>2, <2>1
  <2>2. CASE k - Len(d) \in 1..Len(T) /\ L[k] = T[k - Len(d)]
    BY <2>2
  <2> QED BY <1>1, <1>3, <2>1, <2>2
<1>4. "gone" \notin Actions
  BY DEF Actions
<1>5. Silent(L)
  <2> SUFFICES ASSUME NEW k \in 1..Len(L)  PROVE L[k].action \notin {"topic", "queue"}
    BY DEF Silent
  <2> QED BY <1>3 DEF Silent
<1>6. \A k \in 1..Len(L) : L[k].action = "gone" => \E j \in 1..Len(T) : T[j] = L[k]
  BY <1>3, <1>4
<1>7. Leavers(L, queue)
  <2> SUFFICES ASSUME NEW k \in 1..Len(L), L[k].action = "gone", NEW i \in 1..Len(queue)  PROVE queue[i].who # L[k].who
    BY DEF Leavers
  <2>1. PICK j \in 1..Len(T) : T[j] = L[k]
    BY <1>6
  <2> QED BY <2>1 DEF Leavers
<1> QED BY <1>1, <1>5, <1>6, <1>7 DEF Inherits

\* The customer takes leave, or has to.
LEMMA VanishServes ==
  ASSUME rules \in Databases, NEW N \in Served, NEW p \in Customers, N.focus = p, Awaited(N.focus, N.queue),
         Silent(N.todo), Leavers(N.todo, N.queue), NEW word \in Words \cup {AnyWord}, NEW R, R = React(N, "vanish", p, word)
  PROVE  Serves(R)
<1>1. PICK d : RuleBegun("vanish", p, d) /\ Begins(N, "vanish", p, word, d, R)
  BY ReactIs DEF Situations
<1> DEFINE u == Duty("idle", p, word)
           T == N.todo
           q == N.queue
           M == d \o T
           L == R.todo
<1>2. u \in NpcDuty /\ u.action = "idle"
  BY DEF Duty, NpcDuty, Actions
<1>3. T \in Seq(NpcDuty) /\ d \in Seq(NpcDuty)
  BY <1>1, IsRecord DEF RuleBegun
<1>4. L = <<u>> \o d \o T /\ R \in Served /\ R.queue = q /\ R.focus = p /\ R.topic = 0
  BY <1>1 DEF Begins
<1> HIDE DEF u, T, q, L
<1>5. <<u>> \in Seq(NpcDuty)
  BY <1>2
<1>6. L = <<u>> \o M
  BY <1>3, <1>4, <1>5, ConcatAssociative
<1>7. M \in Seq(NpcDuty) /\ Silent(M) /\ Leavers(M, q)
  BY <1>1, <1>3, SilentAhead DEF T, q
<1> HIDE DEF M
<1> DEFINE one == <<u>>
<1>8. one \in Seq(NpcDuty) /\ Len(one) = 1 /\ one[1] = u
  BY <1>2
<1>9. L = one \o M
  BY <1>6
<1> HIDE DEF one
<1>10. /\ Len(L) = Len(one) + Len(M) /\ Len(M) \in Nat
       /\ \A k \in 1..Len(one) : L[k] = one[k]
       /\ \A k \in 1..Len(L) : k \in 1..Len(one) \/ (k - Len(one) \in 1..Len(M) /\ L[k] = M[k - Len(one)])
  <2>1. one \in Seq(NpcDuty) /\ M \in Seq(NpcDuty) /\ L = one \o M
    BY <1>7, <1>8, <1>9
  <2> QED BY <2>1, Ahead
<1>11. L[1] = u /\ \A k \in 1..Len(L) : k = 1 \/ \E j \in 1..Len(M) : L[k] = M[j]
  BY <1>8, <1>10
<1>12. Turning(L)
  BY <1>2, <1>8, <1>10, <1>11, EmptySeq DEF Turning
<1>13. Silent(L)
  <2> SUFFICES ASSUME NEW k \in 1..Len(L)  PROVE L[k].action \notin {"topic", "queue"}
    BY DEF Silent
  <2> QED BY <1>2, <1>7, <1>11 DEF Silent
<1>14. Leavers(L, q)
  <2> SUFFICES ASSUME NEW k \in 1..Len(L), L[k].action = "gone", NEW i \in 1..Len(q)  PROVE q[i].who # L[k].who
    BY DEF Leavers
  <2>1. PICK j \in 1..Len(M) : L[k] = M[j]
    BY <1>2, <1>11
  <2> QED BY <1>7, <2>1 DEF Leavers
<1>15. GoneDuty(p, q, L)
  BY <1>12, <1>14 DEF GoneDuty, Leavers
<1>16. Awaited(p, q)
  BY DEF q
<1>17. TopicDuty(p, L) /\ QueueDuty(p, L)
  BY <1>13, SilentDuties
<1> QED BY <1>4, <1>12, <1>15, <1>16, <1>17 DEF Serves, Attended, Agreed, L

\* A customer has his turn.
LEMMA AddressServes ==
  ASSUME rules \in Databases, NEW N \in Served, NEW p \in Customers, N.place[p] = "near", Awaited(p, N.queue),
         Silent(N.todo), Leavers(N.todo, N.queue), \A k \in 1..Len(N.todo) : N.todo[k].action = "gone" => N.todo[k].who # p,
         ~LetsGo(rules) => N.topic = 0, NEW word \in Words \cup {AnyWord}, NEW R, R = React(N, "address", p, word)
  PROVE  Serves(R)
<1>1. PICK d : RuleBegun("address", p, d) /\ Begins(N, "address", p, word, d, R)
  BY ReactIs DEF Situations
<1> DEFINE T == N.todo
           q == N.queue
           L == R.todo
<1>2. T \in Seq(NpcDuty) /\ d \in Seq(NpcDuty)
  BY <1>1, IsRecord DEF RuleBegun
<1>3. L = d \o T /\ R \in Served /\ R.queue = q /\ R.focus = p /\ R.place = N.place /\ R.ends = TRUE
  BY <1>1 DEF Begins
<1>4. ~LetsGo(rules) => R.topic = 0
  BY <1>1 DEF Begins
<1>5. ASSUME NEW k \in 1..Len(T), T[k].action = "gone"  PROVE T[k].who # p
  BY <1>5
<1> HIDE DEF T, q, L
<1>6. Silent(L) /\ Leavers(L, q) /\ Inherits(L, T)
  <2>1. Silent(T) /\ Leavers(T, q) /\ RuleBegun("address", p, d) /\ T \in Seq(NpcDuty) /\ L = d \o T
    BY <1>1, <1>2, <1>3 DEF T, q
  <2> QED BY <2>1, SilentAhead
<1>7. GoneDuty(p, q, L)
  BY <1>5, <1>6 DEF GoneDuty, Leavers, Inherits
<1>8. Awaited(p, q)
  BY DEF q
<1>9. TopicDuty(p, L) /\ QueueDuty(p, L)
  BY <1>6, SilentDuties
<1> QED BY <1>3, <1>4, <1>7, <1>8, <1>9 DEF Serves, Attended, Agreed, L

\* One field changes and the others do not.
Waiter == [who : Customers, word : Words \cup {AnyWord}]
WithTodo(N, T) == [N EXCEPT !.todo = T]
WithQueue(N, q) == [N EXCEPT !.queue = q]
WithTopic(N, p) == [N EXCEPT !.topic = 1, !.asker = p]
WithFocus(N, f) == [N EXCEPT !.focus = f]
WithPlace(N, p, to) == [N EXCEPT !.place[p] = to]
Goes(c, p, to) == [c EXCEPT ![p] = to]

LEMMA TodoIs ==
  ASSUME NEW N \in Served, NEW T \in Seq(NpcDuty), NEW M, M = WithTodo(N, T)
  PROVE  /\ M \in Served /\ M.todo = T /\ M.focus = N.focus /\ M.queue = N.queue /\ M.topic = N.topic
         /\ M.asker = N.asker /\ M.ends = N.ends /\ M.place = N.place
BY DEF Served, WithTodo
LEMMA QueueIs ==
  ASSUME NEW N \in Served, NEW q \in Seq(Waiter), NEW M, M = WithQueue(N, q)
  PROVE  /\ M \in Served /\ M.queue = q /\ M.focus = N.focus /\ M.topic = N.topic
         /\ M.asker = N.asker /\ M.ends = N.ends /\ M.place = N.place /\ M.todo = N.todo
BY DEF Served, WithQueue, Waiter
LEMMA PlaceIs ==
  ASSUME NEW N \in Served, NEW p \in Customers, NEW to \in {"near", "far", "away"}, NEW M, M = WithPlace(N, p, to)
  PROVE  /\ M \in Served /\ M.place = Goes(N.place, p, to)
         /\ M.focus = N.focus /\ M.queue = N.queue /\ M.topic = N.topic /\ M.asker = N.asker /\ M.ends = N.ends /\ M.todo = N.todo
<1> DEFINE c == Goes(N.place, p, to)
<1>1. N.place \in [Customers -> {"near", "far", "away"}]
  BY IsRecord
<1>2. c \in [Customers -> {"near", "far", "away"}]
  BY <1>1 DEF Goes
<1>3. M = [N EXCEPT !.place = c]
  BY DEF Served, WithPlace, Goes
<1> HIDE DEF c
<1>4. M \in Served /\ M.place = c
  BY <1>2, <1>3 DEF Served
<1>5. M.focus = N.focus /\ M.queue = N.queue /\ M.topic = N.topic /\ M.asker = N.asker /\ M.ends = N.ends /\ M.todo = N.todo
  BY <1>3 DEF Served
<1> QED BY <1>2, <1>4, <1>5 DEF c

\* What does not let the customer go has been done, and the rest stays in order.
LEMMA RestServes ==
  ASSUME NEW N, Serves(N), N.todo # <<>>, ~Turning(N.todo), NEW M, M = WithTodo(N, Tail(N.todo))
  PROVE  /\ Serves(M) /\ Leavers(M.todo, M.queue) /\ N.todo[1] \in NpcDuty /\ Head(N.todo) = N.todo[1]
         /\ N.todo[1].action = "teleport" => Silent(M.todo)
         /\ N.todo[1].action = "queue" => /\ M.focus \notin {Nobody, N.todo[1].who}
                                          /\ \A k \in 1..Len(M.todo) : M.todo[k].action # "gone"
         /\ N.todo[1].action = "topic" => /\ N.todo[1].who = M.focus
                                          /\ \A k \in 1..Len(M.todo) : M.todo[k].action # "idle"
         /\ N.todo[1].action = "gone" => M.focus # N.todo[1].who
         /\ M.focus = Nobody \/ (M.place[M.focus] = "near" /\ M.ends)
<1>1. N \in Served
  BY DEF Serves
<1> DEFINE T == N.todo
           f == N.focus
           q == N.queue
           U == Tail(T)
<1>2. T \in Seq(NpcDuty) /\ T # <<>>
  BY <1>1, IsRecord
<1>3. /\ Attended(f, N.place, N.ends, T) /\ Awaited(f, q) /\ Agreed(N.topic, N.asker, f, T)
      /\ TopicDuty(f, T) /\ QueueDuty(f, T) /\ GoneDuty(f, q, T) /\ ~Turning(T)
  BY DEF Serves
<1>4. M = WithTodo(N, U)
  OBVIOUS
<1> HIDE DEF T, f, q, U
<1>5. /\ T[1] \in NpcDuty /\ Head(T) = T[1] /\ U \in Seq(NpcDuty)
      /\ Len(T) \in Nat /\ Len(T) > 0 /\ Len(U) = Len(T) - 1
      /\ \A k \in 1..Len(U) : k + 1 \in 1..Len(T) /\ U[k] = T[k + 1] /\ T[k + 1] \in NpcDuty
  BY <1>2, AheadOf DEF U
<1>6. /\ M \in Served /\ M.todo = U /\ M.focus = f /\ M.queue = q /\ M.topic = N.topic
      /\ M.asker = N.asker /\ M.ends = N.ends /\ M.place = N.place
  <2>1. U \in Seq(NpcDuty) /\ M = WithTodo(N, U) /\ N \in Served
    BY <1>1, <1>4, <1>5
  <2>2. /\ M \in Served /\ M.todo = U /\ M.focus = N.focus /\ M.queue = N.queue /\ M.topic = N.topic
        /\ M.asker = N.asker /\ M.ends = N.ends /\ M.place = N.place
    BY <2>1, TodoIs
  <2> QED BY <2>2 DEF f, q
<1>7. f = Nobody \/ (N.place[f] = "near" /\ N.ends)
  BY <1>3 DEF Attended
<1>8. Leavers(U, q)
  <2> SUFFICES ASSUME NEW k \in 1..Len(U), U[k].action = "gone", NEW i \in 1..Len(q)  PROVE q[i].who # U[k].who
    BY DEF Leavers
  <2>1. k + 1 \in 1..Len(T) /\ U[k] = T[k + 1] /\ k + 1 # 1
    BY <1>5
  <2> QED BY <1>3, <2>1 DEF GoneDuty
<1>9. GoneDuty(f, q, U)
  <2>1. ASSUME NEW k \in 1..Len(U), U[k].action = "gone", f = U[k].who  PROVE FALSE
    <3>1. k + 1 \in 1..Len(T) /\ U[k] = T[k + 1]
      BY <1>5
    <3> QED BY <1>3, <2>1, <3>1 DEF GoneDuty
  <2> QED BY <1>8, <2>1 DEF GoneDuty, Leavers
<1>10. TopicDuty(f, U)
  <2> SUFFICES ASSUME NEW k \in 1..Len(U), NEW j \in 1..Len(U), U[k].action = "topic"
               PROVE  U[k].who = f /\ U[j].action # "idle" /\ (j < k => U[j].action # "teleport")
    BY DEF TopicDuty
  <2>1. k + 1 \in 1..Len(T) /\ U[k] = T[k + 1] /\ j + 1 \in 1..Len(T) /\ U[j] = T[j + 1] /\ (j < k => j + 1 < k + 1)
    BY <1>5
  <2> QED BY <1>3, <2>1 DEF TopicDuty
<1>11. QueueDuty(f, U)
  <2> SUFFICES ASSUME NEW k \in 1..Len(U), NEW j \in 1..Len(U), U[k].action = "queue"
               PROVE  /\ f \notin {Nobody, U[k].who} /\ U[j].action # "gone"
                      /\ (j < k => U[j].action \notin {"idle", "teleport"})
    BY DEF QueueDuty
  <2>1. k + 1 \in 1..Len(T) /\ U[k] = T[k + 1] /\ j + 1 \in 1..Len(T) /\ U[j] = T[j + 1] /\ (j < k => j + 1 < k + 1)
    BY <1>5
  <2> QED BY <1>3, <2>1 DEF QueueDuty
<1>12. Agreed(N.topic, N.asker, f, U)
  BY <1>3, <1>5 DEF Agreed
<1>13. Serves(M)
  BY <1>3, <1>6, <1>7, <1>9, <1>10, <1>11, <1>12 DEF Serves, Attended
<1>14. 1 \in 1..Len(T)
  BY <1>5
<1>15. ASSUME T[1].action = "teleport"  PROVE Silent(U)
  <2> SUFFICES ASSUME NEW k \in 1..Len(U)  PROVE U[k].action \notin {"topic", "queue"}
    BY DEF Silent
  <2>1. k + 1 \in 1..Len(T) /\ U[k] = T[k + 1] /\ 1 < k + 1
    BY <1>5
  <2> QED BY <1>3, <1>14, <1>15, <2>1 DEF TopicDuty, QueueDuty
<1>16. ASSUME T[1].action = "queue"
       PROVE  f \notin {Nobody, T[1].who} /\ \A k \in 1..Len(U) : U[k].action # "gone"
  BY <1>3, <1>5, <1>14, <1>16 DEF QueueDuty
<1>17. ASSUME T[1].action = "topic"
       PROVE  T[1].who = f /\ \A k \in 1..Len(U) : U[k].action # "idle"
  BY <1>3, <1>5, <1>14, <1>17 DEF TopicDuty
<1>18. ASSUME T[1].action = "gone"  PROVE f # T[1].who
  BY <1>3, <1>14, <1>18 DEF GoneDuty
<1> QED BY <1>5, <1>6, <1>7, <1>8, <1>13, <1>15, <1>16, <1>17, <1>18 DEF T

\* A round of idle: nobody waits, the next one has his turn, or has gone.
LEMMA GoIdleIs ==
  ASSUME NEW N, NEW next, NEW S, S = WithQueue(N, Tail(N.queue)), next = Head(N.queue)
  PROVE  GoIdle(N) = IF N.queue = <<>> THEN WithFocus(N, Nobody)
                     ELSE IF N.place[next.who] = "near" THEN React(S, "address", next.who, next.word)
                     ELSE WithTodo(S, <<Duty("idle", next.who, next.word)>> \o S.todo)
BY DEF GoIdle, WithQueue, WithFocus, WithTodo

\* The customer goes, and the next one who is still there has his turn.
LEMMA IdleServes ==
  ASSUME NEW N, Serves(N), Turning(N.todo), NEW M, M = WithTodo(N, Tail(N.todo)), NEW R, R = GoIdle(M)
  PROVE  Serves(R)
<1>1. N \in Served /\ rules \in Databases
  BY DEF Serves
<1> DEFINE T == N.todo
           f == N.focus
           q == N.queue
           U == Tail(T)
           next == Head(q)
           rest == Tail(q)
<1>2. /\ T \in Seq(NpcDuty) /\ T # <<>> /\ T[1].action = "idle"
      /\ q \in Seq([who : Customers, word : Words \cup {AnyWord}]) /\ f \in Customers \cup {Nobody}
  BY <1>1, IsRecord DEF Turning
<1>3. /\ Awaited(f, q) /\ Agreed(N.topic, N.asker, f, T)
      /\ TopicDuty(f, T) /\ QueueDuty(f, T) /\ GoneDuty(f, q, T)
  BY DEF Serves
<1>4. M = WithTodo(N, U)
  OBVIOUS
<1> HIDE DEF T, f, q, U
<1>5. /\ U \in Seq(NpcDuty) /\ Len(T) \in Nat /\ Len(T) > 0 /\ Len(U) = Len(T) - 1
      /\ \A k \in 1..Len(U) : k + 1 \in 1..Len(T) /\ U[k] = T[k + 1] /\ T[k + 1] \in NpcDuty
  BY <1>2, AheadOf DEF U
<1>6. /\ M \in Served /\ M.todo = U /\ M.focus = f /\ M.queue = q /\ M.topic = N.topic
      /\ M.asker = N.asker /\ M.ends = N.ends /\ M.place = N.place
  <2>1. U \in Seq(NpcDuty) /\ M = WithTodo(N, U) /\ N \in Served
    BY <1>1, <1>4, <1>5
  <2>2. /\ M \in Served /\ M.todo = U /\ M.focus = N.focus /\ M.queue = N.queue /\ M.topic = N.topic
        /\ M.asker = N.asker /\ M.ends = N.ends /\ M.place = N.place
    BY <2>1, TodoIs
  <2> QED BY <2>2 DEF f, q
<1>7. 1 \in 1..Len(T)
  BY <1>5
<1>8. Silent(U)
  <2> SUFFICES ASSUME NEW k \in 1..Len(U)  PROVE U[k].action \notin {"topic", "queue"}
    BY DEF Silent
  <2>1. k + 1 \in 1..Len(T) /\ U[k] = T[k + 1] /\ 1 < k + 1
    BY <1>5
  <2> QED BY <1>2, <1>3, <1>7, <2>1 DEF TopicDuty, QueueDuty
<1>9. Leavers(U, q)
  <2> SUFFICES ASSUME NEW k \in 1..Len(U), U[k].action = "gone", NEW i \in 1..Len(q)  PROVE q[i].who # U[k].who
    BY DEF Leavers
  <2>1. k + 1 \in 1..Len(T) /\ U[k] = T[k + 1] /\ k + 1 # 1
    BY <1>5
  <2> QED BY <1>3, <2>1 DEF GoneDuty
<1>10. ~LetsGo(rules) => N.topic = 0
  BY <1>2, <1>3, <1>7 DEF Agreed
<1>11. ASSUME q = <<>>  PROVE Serves(R)
  <2>1. R = WithFocus(M, Nobody)
    BY <1>6, <1>11, GoIdleIs
  <2>2. /\ R \in Served /\ R.focus = Nobody /\ R.todo = U /\ R.queue = q /\ R.topic = N.topic
    BY <1>6, <2>1 DEF Served, WithFocus
  <2>3. \A k \in 1..Len(U) : U[k].who # Nobody
    BY <1>5, NpcAssumption DEF NpcDuty
  <2>4. GoneDuty(Nobody, q, U)
    BY <1>9, <2>3 DEF GoneDuty, Leavers
  <2>5. Awaited(Nobody, q)
    BY <1>11 DEF Awaited
  <2>6. TopicDuty(Nobody, U) /\ QueueDuty(Nobody, U)
    BY <1>8, SilentDuties
  <2> QED BY <1>1, <1>10, <2>2, <2>4, <2>5, <2>6 DEF Serves, Attended, Agreed
<1>12. ASSUME q # <<>>  PROVE Serves(R)
  <2> DEFINE S == WithQueue(M, rest)
  <2>1. /\ next = q[1] /\ rest \in Seq([who : Customers, word : Words \cup {AnyWord}])
        /\ Len(q) \in Nat /\ Len(q) > 0 /\ Len(rest) = Len(q) - 1
        /\ \A i \in 1..Len(rest) : rest[i] = q[i + 1]
    BY <1>2, <1>12, EmptySeq, LenProperties, HeadTailProperties
  <2>2. next \in [who : Customers, word : Words \cup {AnyWord}]
    <3> DEFINE waiting == [who : Customers, word : Words \cup {AnyWord}]
    <3>1. 1 \in 1..Len(q) /\ q \in Seq(waiting)
      BY <1>2, <2>1
    <3> HIDE DEF waiting
    <3>2. q[1] \in waiting
      BY <3>1, ElementOfSeq
    <3> QED BY <2>1, <3>2 DEF waiting
  <2>3. R = IF M.place[next.who] = "near" THEN React(S, "address", next.who, next.word)
            ELSE WithTodo(S, <<Duty("idle", next.who, next.word)>> \o S.todo)
    <3>1. M.queue # <<>> /\ next = Head(M.queue) /\ S = WithQueue(M, Tail(M.queue))
      BY <1>6, <1>12
    <3> HIDE DEF S, rest, next
    <3> QED BY <3>1, GoIdleIs
  <2>4. S = WithQueue(M, rest)
    OBVIOUS
  <2> HIDE DEF S, rest, next
  <2>5. /\ S \in Served /\ S.queue = rest /\ S.focus = f /\ S.topic = N.topic
        /\ S.asker = N.asker /\ S.ends = N.ends /\ S.place = N.place /\ S.todo = U
    <3>1. M \in Served /\ rest \in Seq(Waiter) /\ S = WithQueue(M, rest)
      BY <1>6, <2>1, <2>4 DEF Waiter
    <3>2. /\ S \in Served /\ S.queue = rest /\ S.focus = M.focus /\ S.topic = M.topic
          /\ S.asker = M.asker /\ S.ends = M.ends /\ S.place = M.place /\ S.todo = M.todo
      BY <3>1, QueueIs
    <3> QED BY <1>6, <3>2
  <2>6. next.who \in Customers /\ next.word \in Words \cup {AnyWord}
    BY <2>2
  <2>7. \A i \in 1..Len(rest) : i + 1 \in 1..Len(q) /\ rest[i] = q[i + 1]
    BY <2>1
  <2>8. 1 \in 1..Len(q)
    BY <2>1
  <2>9. \A i \in 1..Len(rest) : /\ rest[i].who \notin {f, next.who}
                                /\ \A j \in 1..(i - 1) : rest[j].who # rest[i].who
    <3> SUFFICES ASSUME NEW i \in 1..Len(rest)
                 PROVE  rest[i].who \notin {f, next.who} /\ \A j \in 1..(i - 1) : rest[j].who # rest[i].who
      OBVIOUS
    <3>1. i + 1 \in 1..Len(q) /\ rest[i] = q[i + 1]
      BY <2>7
    <3>2. q[i + 1].who # f /\ \A j \in 1..((i + 1) - 1) : q[j].who # q[i + 1].who
      BY <1>3, <3>1 DEF Awaited
    <3>3. 1 \in 1..((i + 1) - 1)
      OBVIOUS
    <3>4. ASSUME NEW j \in 1..(i - 1)  PROVE rest[j].who # rest[i].who
      <4>1. j \in 1..Len(rest) /\ j + 1 \in 1..((i + 1) - 1)
        BY <2>1
      <4> QED BY <2>7, <3>1, <3>2, <4>1
    <3> QED BY <2>1, <3>1, <3>2, <3>3, <3>4
  <2>10. f # Nobody
    BY <1>3, <1>12 DEF Awaited
  <2>11. Awaited(next.who, rest) /\ Awaited(f, rest)
    BY <2>6, <2>9, <2>10, NpcAssumption DEF Awaited
  <2>12. Leavers(U, rest)
    BY <1>9, <2>7 DEF Leavers
  <2>13. CASE N.place[next.who] = "near"
    <3>1. R = React(S, "address", next.who, next.word)
      BY <1>6, <2>3, <2>13
    <3>2. \A k \in 1..Len(S.todo) : S.todo[k].action = "gone" => S.todo[k].who # next.who
      BY <1>9, <2>1, <2>5, <2>8 DEF Leavers
    <3>3. Awaited(next.who, S.queue) /\ Silent(S.todo) /\ Leavers(S.todo, S.queue) /\ S.place[next.who] = "near"
      BY <1>8, <2>5, <2>11, <2>12, <2>13
    <3>4. ~LetsGo(rules) => S.topic = 0
      BY <1>10, <2>5
    <3> DEFINE who == next.who
               word == next.word
    <3>5. /\ who \in Customers /\ word \in Words \cup {AnyWord} /\ R = React(S, "address", who, word)
          /\ \A k \in 1..Len(S.todo) : S.todo[k].action = "gone" => S.todo[k].who # who
          /\ Awaited(who, S.queue) /\ Silent(S.todo) /\ Leavers(S.todo, S.queue) /\ S.place[who] = "near"
      BY <2>6, <3>1, <3>2, <3>3
    <3> HIDE DEF who, word
    <3> QED BY <1>1, <2>5, <3>4, <3>5, AddressServes
  <2>14. CASE N.place[next.who] # "near"
    <3> DEFINE u == Duty("idle", next.who, next.word)
               one == <<u>>
               L == one \o U
    <3>1. u \in NpcDuty /\ u.action = "idle"
      BY <2>6 DEF Duty, NpcDuty, Actions
    <3>3. R = WithTodo(S, L)
      BY <1>6, <2>3, <2>5, <2>14
    <3> HIDE DEF u
    <3>4. one \in Seq(NpcDuty) /\ Len(one) = 1 /\ one[1] = u
      BY <3>1
    <3> HIDE DEF one
    <3>5. /\ L \in Seq(NpcDuty) /\ Len(L) = Len(one) + Len(U) /\ Len(U) \in Nat
          /\ \A k \in 1..Len(one) : L[k] = one[k]
          /\ \A k \in 1..Len(L) : k \in 1..Len(one) \/ (k - Len(one) \in 1..Len(U) /\ L[k] = U[k - Len(one)])
      <4>1. one \in Seq(NpcDuty) /\ U \in Seq(NpcDuty) /\ L = one \o U
        BY <1>5, <3>4
      <4> HIDE DEF L
      <4> QED BY <4>1, Ahead
    <3> HIDE DEF L
    <3>6. L[1] = u /\ \A k \in 1..Len(L) : k = 1 \/ \E j \in 1..Len(U) : L[k] = U[j]
      BY <3>4, <3>5
    <3>7. Turning(L)
      BY <3>1, <3>4, <3>5, <3>6, EmptySeq DEF Turning
    <3>8. Silent(L)
      <4> SUFFICES ASSUME NEW k \in 1..Len(L)  PROVE L[k].action \notin {"topic", "queue"}
        BY DEF Silent
      <4> QED BY <1>8, <3>1, <3>6 DEF Silent
    <3>9. Leavers(L, rest)
      <4> SUFFICES ASSUME NEW k \in 1..Len(L), L[k].action = "gone", NEW i \in 1..Len(rest)  PROVE rest[i].who # L[k].who
        BY DEF Leavers
      <4>1. PICK j \in 1..Len(U) : L[k] = U[j]
        BY <3>1, <3>6
      <4> QED BY <2>12, <4>1 DEF Leavers
    <3>10. GoneDuty(f, rest, L)
      BY <3>7, <3>9 DEF GoneDuty, Leavers
    <3>11. TopicDuty(f, L) /\ QueueDuty(f, L)
      BY <3>8, SilentDuties
    <3>12. R \in Served /\ R.todo = L /\ R.focus = f /\ R.queue = rest /\ R.topic = N.topic
      <4>1. S \in Served /\ L \in Seq(NpcDuty) /\ R = WithTodo(S, L)
        BY <2>5, <3>3, <3>5
      <4>2. R \in Served /\ R.todo = L /\ R.focus = S.focus /\ R.queue = S.queue /\ R.topic = S.topic
        BY <4>1, TodoIs
      <4> QED BY <2>5, <4>2
    <3> QED BY <1>1, <1>10, <2>11, <3>7, <3>10, <3>11, <3>12 DEF Serves, Attended, Agreed
  <2> QED BY <2>13, <2>14
<1> QED BY <1>11, <1>12

\* Nothing of what matters changes, unless the customer will now be let go when he is silent.
LEMMA SameServes ==
  ASSUME NEW N, Serves(N), NEW R \in Served, R.focus = N.focus, R.queue = N.queue, R.topic = N.topic, R.asker = N.asker,
         R.place = N.place, R.todo = N.todo, R.ends = N.ends \/ R.ends = TRUE
  PROVE  Serves(R)
<1>1. Attended(R.focus, R.place, R.ends, R.todo)
  <2>1. Attended(R.focus, R.place, N.ends, R.todo)
    BY DEF Serves
  <2> QED BY <2>1 DEF Attended
<1> QED BY <1>1 DEF Serves

\* Somebody who is not the customer is somewhere else.
LEMMA PlaceServes ==
  ASSUME NEW N, Serves(N), N.focus = Nobody \/ (N.place[N.focus] = "near" /\ N.ends), NEW p \in Customers, N.focus # p,
         NEW to \in {"near", "far", "away"}, NEW R, R = WithPlace(N, p, to)
  PROVE  Serves(R)
<1>1. N \in Served
  BY DEF Serves
<1>2. /\ R \in Served /\ R.place = Goes(N.place, p, to)
      /\ R.focus = N.focus /\ R.queue = N.queue /\ R.topic = N.topic /\ R.asker = N.asker /\ R.ends = N.ends /\ R.todo = N.todo
  BY <1>1, PlaceIs
<1>3. N.focus \in Customers \cup {Nobody}
  BY <1>1, IsRecord
<1>4. N.place \in [Customers -> {"near", "far", "away"}]
  BY <1>1, IsRecord
<1>5. Attended(R.focus, R.place, R.ends, R.todo)
  BY <1>2, <1>3, <1>4 DEF Attended, Goes
<1> QED BY <1>2, <1>5 DEF Serves

\* Npc::onCreatureMove
LEMMA MovedServes ==
  ASSUME NEW N, Serves(N), N.focus = Nobody \/ (N.place[N.focus] = "near" /\ N.ends), Silent(N.todo), Leavers(N.todo, N.queue),
         NEW p \in Customers, NEW to \in {"near", "far"}, N.focus = p => to = "far", NEW R, R = Moved(N, p, to)
  PROVE  Serves(R)
<1> DEFINE there == WithPlace(N, p, to)
<1>1. N \in Served /\ rules \in Databases /\ Awaited(N.focus, N.queue)
  BY DEF Serves
<1>2. R = IF N.focus = p /\ to = "far" THEN React(there, "vanish", p, AnyWord) ELSE there
  BY DEF Moved, WithPlace
<1>3. CASE N.focus = p
  <2>1. R = React(there, "vanish", p, AnyWord)
    BY <1>2, <1>3
  <2> HIDE DEF there
  <2>2. there \in Served /\ there.focus = N.focus /\ there.queue = N.queue /\ there.todo = N.todo
    BY <1>1, PlaceIs DEF there
  <2>3. /\ there.focus = p /\ Awaited(there.focus, there.queue) /\ Silent(there.todo) /\ Leavers(there.todo, there.queue)
        /\ AnyWord \in Words \cup {AnyWord}
    BY <1>1, <1>3, <2>2
  <2> QED BY <1>1, <2>1, <2>2, <2>3, VanishServes
<1>4. CASE N.focus # p
  <2>1. R = there
    BY <1>2, <1>4
  <2> QED BY <1>4, <2>1, PlaceServes
<1> QED BY <1>3, <1>4

\* Somebody else has to wait.
LEMMA QueueServes ==
  ASSUME NEW N, Serves(N), N.focus = Nobody \/ (N.place[N.focus] = "near" /\ N.ends), NEW p \in Customers,
         N.focus \notin {Nobody, p}, \A k \in 1..Len(N.todo) : N.todo[k].action # "gone",
         NEW word \in Words \cup {AnyWord}, NEW R, R = QueueCustomer(N, p, word)
  PROVE  Serves(R)
<1> DEFINE q == N.queue
           e == [who |-> p, word |-> word]
           L == Append(q, e)
<1>1. N \in Served /\ Awaited(N.focus, q)
  BY DEF Serves
<1>2. q \in Seq(Waiter) /\ e \in Waiter
  BY <1>1, IsRecord DEF Waiter
<1>3. CASE \E h \in ToSet(q) : h.who = p
  <2>1. R = N
    BY <1>3 DEF QueueCustomer
  <2> QED BY <2>1
<1>4. CASE ~ \E h \in ToSet(q) : h.who = p
  <2>1. R = WithQueue(N, L)
    BY <1>4 DEF QueueCustomer, WithQueue
  <2>2. e.who = p
    OBVIOUS
  <2> HIDE DEF e
  <2>3. /\ L \in Seq(Waiter) /\ Len(q) \in Nat /\ Len(L) = Len(q) + 1 /\ L[Len(q) + 1] = e
        /\ \A i \in 1..Len(q) : L[i] = q[i]
    BY <1>2, AppendProperties, LenProperties
  <2>4. ASSUME NEW i \in 1..Len(q)  PROVE q[i].who # p
    <3>1. q[i] \in ToSet(q)
      BY <1>2, LenProperties DEF ToSet
    <3> QED BY <1>4, <3>1
  <2> HIDE DEF L, q
  <2>5. /\ R \in Served /\ R.queue = L /\ R.focus = N.focus /\ R.topic = N.topic
        /\ R.asker = N.asker /\ R.ends = N.ends /\ R.place = N.place /\ R.todo = N.todo
    <3>1. N \in Served /\ L \in Seq(Waiter) /\ R = WithQueue(N, L)
      BY <1>1, <2>1, <2>3
    <3> QED BY <3>1, QueueIs
  <2>6. Awaited(N.focus, L)
    <3> SUFFICES ASSUME NEW i \in 1..Len(L)
                 PROVE  L[i].who # N.focus /\ \A j \in 1..(i - 1) : L[j].who # L[i].who
      BY DEF Awaited
    <3>1. CASE i = Len(q) + 1
      <4>1. L[i].who = p
        BY <2>2, <2>3, <3>1
      <4>2. ASSUME NEW j \in 1..(i - 1)  PROVE L[j].who # p
        <5>1. j \in 1..Len(q)
          BY <2>3, <3>1
        <5> QED BY <2>3, <2>4, <5>1
      <4> QED BY <4>1, <4>2
    <3>2. CASE i # Len(q) + 1
      <4>1. i \in 1..Len(q) /\ L[i] = q[i]
        BY <2>3, <3>2
      <4>2. ASSUME NEW j \in 1..(i - 1)  PROVE j \in 1..Len(q) /\ L[j] = q[j]
        BY <2>3, <4>1
      <4> QED BY <1>1, <4>1, <4>2 DEF Awaited
    <3> QED BY <3>1, <3>2
  <2>7. GoneDuty(N.focus, L, N.todo)
    BY DEF GoneDuty
  <2> QED BY <2>5, <2>6, <2>7 DEF Serves
<1> QED BY <1>3, <1>4

\* Something is agreed on with the customer.
LEMMA TopicServes ==
  ASSUME NEW N, Serves(N), NEW p \in Customers, p = N.focus, \A k \in 1..Len(N.todo) : N.todo[k].action # "idle",
         NEW R, R = WithTopic(N, p)
  PROVE  Serves(R)
<1>1. N \in Served
  BY DEF Serves
<1>2. /\ R \in Served /\ R.queue = N.queue /\ R.focus = N.focus /\ R.topic = 1
      /\ R.asker = p /\ R.ends = N.ends /\ R.place = N.place /\ R.todo = N.todo
  BY <1>1 DEF Served, WithTopic
<1>3. Agreed(R.topic, R.asker, R.focus, R.todo)
  BY <1>2 DEF Agreed
<1> QED BY <1>2, <1>3 DEF Serves

\* No handler has been begun.
LEMMA NothingToDo ==
  ASSUME NEW N, Serves(N), N.todo = <<>>
  PROVE  /\ N \in Served /\ rules \in Databases /\ Awaited(N.focus, N.queue)
         /\ N.focus = Nobody \/ (N.focus \in Customers /\ N.place[N.focus] = "near" /\ N.ends)
         /\ Silent(N.todo) /\ Leavers(N.todo, N.queue)
<1>1. N \in Served /\ N.focus \in Customers \cup {Nobody}
  BY IsRecord DEF Serves
<1>2. Len(N.todo) = 0 /\ ~Turning(N.todo)
  BY DEF Turning
<1>3. Silent(N.todo) /\ Leavers(N.todo, N.queue)
  BY <1>2 DEF Silent, Leavers
<1> QED BY <1>1, <1>2, <1>3 DEF Serves, Attended

\* The rules begun with nothing else to do.
Answers(N, s, p, R) ==
  /\ R \in Served /\ R.queue = N.queue /\ R.place = N.place /\ R.focus = N.focus
  /\ R.ends = IF N.focus = p THEN TRUE ELSE N.ends
  /\ N.focus = p => R.topic = 0
  /\ N.focus # p => R.topic = N.topic /\ R.asker = N.asker
  /\ RuleBegun(s, p, R.todo)

LEMMA BegunIs ==
  ASSUME NEW N, Serves(N), N.todo = <<>>, NEW s \in {"none", "busy"}, NEW p \in Customers,
         NEW word \in Words \cup {AnyWord}, NEW R, R = React(N, s, p, word), R # N
  PROVE  Answers(N, s, p, R)
<1>1. N \in Served /\ rules \in Databases
  BY DEF Serves
<1>2. PICK d : RuleBegun(s, p, d) /\ Begins(N, s, p, word, d, R)
  BY <1>1, ReactIs DEF Situations
<1>3. d \in Seq(NpcDuty) /\ R.todo = d \o <<>>
  BY <1>2 DEF RuleBegun, Begins
<1>4. R.todo = d
  BY <1>3, ConcatEmptySeq
<1> QED BY <1>2, <1>4 DEF Begins, Answers

\* The customer says something.
LEMMA NoneServes ==
  ASSUME NEW N, Serves(N), N.todo = <<>>, NEW p \in Customers, N.focus = p,
         NEW word \in Words \cup {AnyWord}, NEW R, R = React(N, "none", p, word)
  PROVE  Serves(R)
<1>1. CASE R = N
  BY <1>1
<1>2. CASE R # N
  <2>1. /\ R \in Served /\ R.queue = N.queue /\ R.place = N.place /\ R.focus = p
        /\ R.ends = TRUE /\ R.topic = 0 /\ RuleBegun("none", p, R.todo)
    <3>1. Answers(N, "none", p, R)
      BY <1>2, BegunIs
    <3> QED BY <3>1 DEF Answers
  <2>2. rules \in Databases /\ Awaited(p, N.queue) /\ N.place[p] = "near"
    <3>1. N.focus # Nobody
      BY NpcAssumption
    <3>2. rules \in Databases /\ Awaited(N.focus, N.queue)
      BY NothingToDo
    <3>3. N.focus = Nobody \/ (N.focus \in Customers /\ N.place[N.focus] = "near" /\ N.ends)
      BY NothingToDo
    <3> QED BY <3>1, <3>2, <3>3
  <2> DEFINE T == R.todo
  <2>3. \A k \in 1..Len(T) : T[k].who = p /\ T[k].action \in Actions
    BY <2>1 DEF RuleBegun
  <2>4. \A k, j \in 1..Len(T) :
          /\ T[k].action # "queue"
          /\ T[k].action = "topic" => T[j].action # "idle" /\ (j < k => T[j].action # "teleport")
    BY <2>1 DEF RuleBegun
  <2> HIDE DEF T
  <2>5. TopicDuty(p, T) /\ QueueDuty(p, T) /\ GoneDuty(p, R.queue, T)
    BY <2>3, <2>4 DEF TopicDuty, QueueDuty, GoneDuty, Actions
  <2> QED BY <2>1, <2>2, <2>5 DEF Serves, Attended, Agreed, T
<1> QED BY <1>1, <1>2

\* Somebody else says something.
LEMMA BusyServes ==
  ASSUME NEW N, Serves(N), N.todo = <<>>, NEW p \in Customers, N.focus \notin {Nobody, p},
         NEW word \in Words \cup {AnyWord}, NEW R, R = React(N, "busy", p, word)
  PROVE  Serves(R)
<1>1. CASE R = N
  BY <1>1
<1>2. CASE R # N
  <2>1. /\ R \in Served /\ R.queue = N.queue /\ R.place = N.place /\ R.focus = N.focus
        /\ R.ends = N.ends /\ R.topic = N.topic /\ R.asker = N.asker /\ RuleBegun("busy", p, R.todo)
    <3>1. Answers(N, "busy", p, R)
      BY <1>2, BegunIs
    <3> QED BY <3>1 DEF Answers
  <2>2. rules \in Databases /\ Awaited(N.focus, N.queue) /\ N.place[N.focus] = "near" /\ N.ends
    <3>1. rules \in Databases /\ Awaited(N.focus, N.queue)
      BY NothingToDo
    <3>2. N.focus = Nobody \/ (N.focus \in Customers /\ N.place[N.focus] = "near" /\ N.ends)
      BY NothingToDo
    <3> QED BY <3>1, <3>2
  <2> DEFINE T == R.todo
  <2>3. \A k \in 1..Len(T) : T[k].who = p /\ T[k].action \in Actions
    BY <2>1 DEF RuleBegun
  <2>4. \A k, j \in 1..Len(T) :
          /\ T[k].action = "queue" => (j < k => T[j].action \notin {"idle", "teleport"})
          /\ T[k].action # "topic"
    BY <2>1 DEF RuleBegun
  <2>5. ~LetsGo(rules) => \A k \in 1..Len(T) : T[k].action # "idle"
    BY <2>1 DEF RuleBegun
  <2> HIDE DEF T
  <2>6. TopicDuty(N.focus, T) /\ QueueDuty(N.focus, T) /\ GoneDuty(N.focus, R.queue, T)
    BY <2>3, <2>4 DEF TopicDuty, QueueDuty, GoneDuty, Actions
  <2>7. Agreed(N.topic, N.asker, N.focus, T)
    BY <2>5 DEF Agreed, Serves
  <2> QED BY <2>1, <2>2, <2>6, <2>7 DEF Serves, Attended, T
<1> QED BY <1>1, <1>2

\* Nothing is agreed on while the NPC is free.
LEMMA AddressedServes ==
  ASSUME NEW N, Serves(N), N.todo = <<>>, NEW p \in Customers, N.focus = Nobody, N.place[p] = "near",
         NEW word \in Words \cup {AnyWord}, NEW R, R = React(N, "address", p, word)
  PROVE  Serves(R)
<1>1. N \in Served /\ rules \in Databases /\ Awaited(N.focus, N.queue) /\ Silent(N.todo) /\ Leavers(N.todo, N.queue)
  BY NothingToDo
<1>2. N.queue = <<>>
  BY <1>1 DEF Awaited
<1>3. Awaited(p, N.queue)
  BY <1>2 DEF Awaited
<1>4. ~LetsGo(rules) => N.topic = 0
  BY NpcAssumption DEF Serves, Agreed
<1>5. \A k \in 1..Len(N.todo) : N.todo[k].action = "gone" => N.todo[k].who # p
  OBVIOUS
<1> QED BY <1>1, <1>3, <1>4, <1>5, AddressServes

LEMMA SilenceServes ==
  ASSUME NEW N, Serves(N), N.todo = <<>>, N.focus # Nobody, NEW R, R = React(N, "vanish", N.focus, AnyWord)
  PROVE  Serves(R)
<1>1. N \in Served /\ rules \in Databases /\ Awaited(N.focus, N.queue) /\ Silent(N.todo) /\ Leavers(N.todo, N.queue)
  BY NothingToDo
<1>2. N.focus \in Customers
  BY <1>1, IsRecord
<1> DEFINE p == N.focus
<1>3. p \in Customers /\ N.focus = p /\ AnyWord \in Words \cup {AnyWord} /\ R = React(N, "vanish", p, AnyWord)
  BY <1>2
<1> HIDE DEF p
<1> QED BY <1>1, <1>3, VanishServes

\* A player is removed.
LEMMA GoneServes ==
  ASSUME NEW N, Serves(N), N.todo = <<>>, NEW p \in Customers, NEW G, G = WithTodo(N, <<Duty("gone", p, AnyWord)>>),
         NEW R, R = IF N.focus = p THEN React(G, "vanish", p, AnyWord) ELSE G
  PROVE  Serves(R)
<1> DEFINE u == Duty("gone", p, AnyWord)
           T == <<u>>
<1>1. /\ N \in Served /\ rules \in Databases /\ Awaited(N.focus, N.queue)
      /\ N.focus = Nobody \/ (N.focus \in Customers /\ N.place[N.focus] = "near" /\ N.ends)
  BY NothingToDo
<1>2. u \in NpcDuty /\ u.action = "gone" /\ u.who = p
  BY DEF Duty, NpcDuty
<1>3. G = WithTodo(N, T)
  OBVIOUS
<1> HIDE DEF u
<1>4. T \in Seq(NpcDuty) /\ Len(T) = 1 /\ T[1] = u
  BY <1>2
<1> HIDE DEF T
<1>5. /\ G \in Served /\ G.todo = T /\ G.focus = N.focus /\ G.queue = N.queue /\ G.topic = N.topic
      /\ G.asker = N.asker /\ G.ends = N.ends /\ G.place = N.place
  BY <1>1, <1>3, <1>4, TodoIs
<1>6. \A k \in 1..Len(T) : T[k] = u
  BY <1>4
<1>7. Silent(T)
  BY <1>2, <1>6 DEF Silent
<1>8. CASE N.focus = p
  <2>1. R = React(G, "vanish", p, AnyWord)
    BY <1>8
  <2>2. Leavers(T, N.queue)
    BY <1>1, <1>2, <1>6, <1>8 DEF Leavers, Awaited
  <2>3. /\ G.focus = p /\ Awaited(G.focus, G.queue) /\ Silent(G.todo) /\ Leavers(G.todo, G.queue)
        /\ AnyWord \in Words \cup {AnyWord}
    BY <1>1, <1>5, <1>7, <1>8, <2>2
  <2> QED BY <1>1, <1>5, <2>1, <2>3, VanishServes
<1>9. CASE N.focus # p
  <2>1. R = G
    BY <1>9
  <2>2. GoneDuty(N.focus, N.queue, T)
    BY <1>2, <1>4, <1>6, <1>9 DEF GoneDuty
  <2>3. TopicDuty(N.focus, T) /\ QueueDuty(N.focus, T)
    BY <1>7, SilentDuties
  <2>4. Agreed(N.topic, N.asker, N.focus, T)
    BY <1>2, <1>6 DEF Agreed, Serves
  <2> QED BY <1>1, <1>5, <2>1, <2>2, <2>3, <2>4 DEF Serves, Attended
<1> QED BY <1>8, <1>9

\* One duty is done.
LEMMA DutyServes ==
  ASSUME NEW N, Serves(N), N.todo # <<>>, NEW M, M = WithTodo(N, Tail(N.todo)), NEW duty, duty = Head(N.todo),
         NEW R, R = CheckAction(M, duty.action, duty.who, duty.word)
  PROVE  Serves(R)
<1>1. N.todo \in Seq(NpcDuty)
  BY IsRecord DEF Serves
<1>2. duty = N.todo[1] /\ duty \in NpcDuty
  BY <1>1, AheadOf
<1>3. duty.action \in Actions \cup {"gone"} /\ duty.who \in Customers /\ duty.word \in Words \cup {AnyWord}
  BY <1>2 DEF NpcDuty
<1> DEFINE p == duty.who
<1>4. CASE Turning(N.todo)
  <2>1. R = GoIdle(M)
    BY <1>2, <1>4 DEF CheckAction, Turning
  <2> QED BY <1>4, <2>1, IdleServes
<1>5. CASE ~Turning(N.todo)
  <2>1. Serves(M) /\ Leavers(M.todo, M.queue) /\ (M.focus = Nobody \/ (M.place[M.focus] = "near" /\ M.ends))
    BY <1>5, RestServes
  <2>2. duty.action = "teleport" => Silent(M.todo)
    BY <1>2, <1>5, RestServes
  <2>3. duty.action = "queue" => M.focus \notin {Nobody, p} /\ \A k \in 1..Len(M.todo) : M.todo[k].action # "gone"
    BY <1>2, <1>5, RestServes
  <2>4. duty.action = "topic" => p = M.focus /\ \A k \in 1..Len(M.todo) : M.todo[k].action # "idle"
    BY <1>2, <1>5, RestServes
  <2>5. duty.action = "gone" => M.focus # p
    BY <1>2, <1>5, RestServes
  <2>6. duty.action # "idle"
    BY <1>2, <1>5 DEF Turning
  <2>7. M \in Served
    BY <2>1 DEF Serves
  <2>8. CASE duty.action = "say"
    <3>1. R = [M EXCEPT !.sayings = M.sayings + 1]
      BY <2>8 DEF CheckAction
    <3>2. /\ R \in Served /\ R.focus = M.focus /\ R.queue = M.queue /\ R.topic = M.topic /\ R.asker = M.asker
          /\ R.place = M.place /\ R.todo = M.todo /\ R.ends = M.ends
      BY <2>7, <3>1 DEF Served
    <3> QED BY <2>1, <3>2, SameServes
  <2>9. CASE duty.action = "queue"
    <3>1. R = QueueCustomer(M, p, duty.word)
      BY <2>9 DEF CheckAction
    <3> DEFINE word == duty.word
    <3>2. /\ Serves(M) /\ p \in Customers
          /\ M.focus \notin {Nobody, p} /\ word \in Words \cup {AnyWord} /\ R = QueueCustomer(M, p, word)
      BY <1>3, <2>1, <2>3, <2>9, <3>1
    <3>3. \A k \in 1..Len(M.todo) : M.todo[k].action # "gone"
      BY <2>3, <2>9
    <3> HIDE DEF p, word
    <3> QED BY <2>1, <3>2, <3>3, QueueServes
  <2>10. CASE duty.action = "topic"
    <3>1. R = WithTopic(M, p)
      BY <2>10 DEF CheckAction, WithTopic
    <3>2. p \in Customers /\ p = M.focus
      BY <1>3, <2>4, <2>10
    <3>3. \A k \in 1..Len(M.todo) : M.todo[k].action # "idle"
      BY <2>4, <2>10
    <3> HIDE DEF p
    <3> QED BY <2>1, <3>1, <3>2, <3>3, TopicServes
  <2>11. CASE duty.action = "teleport"
    <3>1. R = Moved(M, p, "far")
      BY <2>11 DEF CheckAction
    <3>2. p \in Customers /\ Silent(M.todo)
      BY <1>3, <2>2, <2>11
    <3> HIDE DEF p
    <3> QED BY <2>1, <3>1, <3>2, MovedServes
  <2>12. CASE duty.action = "gone"
    <3>1. R = WithPlace(M, p, "away")
      BY <2>12 DEF CheckAction, WithPlace
    <3>2. p \in Customers /\ M.focus # p
      BY <1>3, <2>5, <2>12
    <3> HIDE DEF p
    <3> QED BY <2>1, <3>1, <3>2, PlaceServes
  <2> QED BY <1>3, <2>6, <2>8, <2>9, <2>10, <2>11, <2>12 DEF Actions
<1> QED BY <1>4, <1>5

KeeperServes == Serves(keeper)

\* Each step of the NPC.
LEMMA CarryOutServes == ASSUME KeeperServes, CarryOut PROVE KeeperServes'
<1> DEFINE M == WithTodo(keeper, Tail(keeper.todo))
           duty == Head(keeper.todo)
<1>1. keeper.todo # <<>> /\ rules' = rules /\ keeper' = CheckAction(M, duty.action, duty.who, duty.word)
  BY DEF CarryOut, AllDone, Keeps, WithTodo
<1> HIDE DEF M, duty
<1>2. Serves(CheckAction(M, duty.action, duty.who, duty.word))
  <2>1. Serves(keeper) /\ M = WithTodo(keeper, Tail(keeper.todo)) /\ duty = Head(keeper.todo)
    BY DEF KeeperServes, M, duty
  <2> QED BY <1>1, <2>1, DutyServes
<1> QED BY <1>1, <1>2 DEF KeeperServes, Serves, Agreed

LEMMA SayServes ==
  ASSUME KeeperServes, NEW p \in Customers, NEW word \in Words, SayToNpc(p, word)
  PROVE  KeeperServes'
<1> DEFINE N == [keeper EXCEPT !.last = p]
           s == CASE keeper.focus = Nobody -> "address" [] keeper.focus = p -> "none" [] OTHER -> "busy"
           R == React(N, s, p, word)
<1>1. keeper.todo = <<>> /\ keeper.place[p] = "near" /\ rules' = rules /\ keeper' = R
  BY DEF SayToNpc, AllDone, Keeps
<1>2. keeper \in Served
  BY DEF KeeperServes, Serves
<1>3. /\ N \in Served /\ N.focus = keeper.focus /\ N.queue = keeper.queue /\ N.topic = keeper.topic /\ N.asker = keeper.asker
      /\ N.place = keeper.place /\ N.todo = keeper.todo /\ N.ends = keeper.ends
  BY <1>2 DEF Served
<1> HIDE DEF N
<1>4. Serves(N)
  <2>1. Serves(keeper)
    BY DEF KeeperServes
  <2> QED BY <1>3, <2>1, SameServes
<1>5. N.todo = <<>> /\ N.place[p] = "near" /\ word \in Words \cup {AnyWord}
  BY <1>1, <1>3
<1>6. Serves(R)
  <2>1. CASE N.focus = Nobody
    <3>1. R = React(N, "address", p, word)
      BY <1>3, <2>1, NpcAssumption
    <3> HIDE DEF R
    <3> QED BY <1>4, <1>5, <2>1, <3>1, AddressedServes
  <2>2. CASE N.focus = p
    <3>1. R = React(N, "none", p, word)
      BY <1>3, <2>2, NpcAssumption
    <3> HIDE DEF R
    <3>2. /\ Serves(N) /\ N.todo = <<>> /\ N.focus = p /\ word \in Words \cup {AnyWord} /\ R = React(N, "none", p, word)
      BY <1>4, <1>5, <2>2, <3>1
    <3> QED BY <3>2, NoneServes
  <2>3. CASE N.focus \notin {Nobody, p}
    <3>1. R = React(N, "busy", p, word)
      BY <1>3, <2>3
    <3> HIDE DEF R
    <3> QED BY <1>4, <1>5, <2>3, <3>1, BusyServes
  <2> QED BY <2>1, <2>2, <2>3
<1> HIDE DEF R
<1> QED BY <1>1, <1>6 DEF KeeperServes, Serves, Agreed

LEMMA SilentServes == ASSUME KeeperServes, Silence PROVE KeeperServes'
<1> DEFINE R == React(keeper, "vanish", keeper.focus, AnyWord)
<1>1. keeper.todo = <<>> /\ keeper.focus # Nobody /\ rules' = rules /\ keeper' = R
  BY DEF Silence, AllDone, Keeps
<1>2. Serves(keeper) /\ R = React(keeper, "vanish", keeper.focus, AnyWord)
  BY DEF KeeperServes
<1> HIDE DEF R
<1>3. Serves(R)
  BY <1>1, <1>2, SilenceServes
<1> QED BY <1>1, <1>3 DEF KeeperServes, Serves, Agreed

\* Nothing of what matters depends on what is still to be said.
LEMMA SayingsAre ==
  ASSUME NEW N \in Served, NEW n \in Nat, NEW R, R = [N EXCEPT !.loose = n] \/ R = [N EXCEPT !.sayings = n]
  PROVE  /\ R \in Served /\ R.focus = N.focus /\ R.queue = N.queue /\ R.topic = N.topic /\ R.asker = N.asker
         /\ R.place = N.place /\ R.todo = N.todo /\ R.ends = N.ends
<1>1. CASE R = [N EXCEPT !.loose = n]
  BY <1>1 DEF Served
<1>2. CASE R = [N EXCEPT !.sayings = n]
  BY <1>2 DEF Served
<1> QED BY <1>1, <1>2

Said(S, R) ==
  \/ S.loose > 0 /\ R = [S EXCEPT !.loose = S.loose - 1]
  \/ S.sayings > 0 /\ R = [S EXCEPT !.sayings = S.sayings - 1]

LEMMA SaidServes == ASSUME KeeperServes, DoSay PROVE KeeperServes'
<1> DEFINE N == keeper
           said == [keeper EXCEPT !.ends = IF keeper.last = keeper.focus THEN TRUE ELSE @]
<1>1. Serves(N) /\ N \in Served
  BY DEF KeeperServes, Serves
<1>2. /\ said \in Served /\ said.focus = N.focus /\ said.queue = N.queue /\ said.topic = N.topic /\ said.asker = N.asker
      /\ said.place = N.place /\ said.todo = N.todo /\ (said.ends = N.ends \/ said.ends = TRUE)
      /\ said.loose = N.loose /\ said.sayings = N.sayings
  <2> DEFINE e == IF keeper.last = keeper.focus THEN TRUE ELSE keeper.ends
  <2>1. e \in BOOLEAN /\ (e = TRUE \/ e = N.ends)
    <3>1. keeper.ends \in BOOLEAN
      BY <1>1, IsRecord
    <3>2. CASE keeper.last = keeper.focus
      BY <3>2
    <3>3. CASE keeper.last # keeper.focus
      BY <3>1, <3>3
    <3> QED BY <3>2, <3>3
  <2>3. said = [keeper EXCEPT !.ends = e]
    OBVIOUS
  <2> HIDE DEF e, said
  <2>2. /\ said \in Served /\ said.focus = N.focus /\ said.queue = N.queue /\ said.topic = N.topic /\ said.asker = N.asker
        /\ said.place = N.place /\ said.todo = N.todo /\ said.ends = e
        /\ said.loose = N.loose /\ said.sayings = N.sayings
    BY <1>1, <2>1, <2>3 DEF Served
  <2> QED BY <2>1, <2>2
<1>3. rules' = rules /\ Said(said, keeper')
  <2>1. \/ N.loose > 0 /\ keeper' = [said EXCEPT !.loose = said.loose - 1]
        \/ N.sayings > 0 /\ keeper' = [said EXCEPT !.sayings = said.sayings - 1]
    BY Zenon DEF DoSay, Keeps
  <2>2. rules' = rules
    BY Zenon DEF DoSay, Keeps
  <2> HIDE DEF said
  <2> QED BY <1>2, <2>1, <2>2 DEF Said
<1> HIDE DEF said
<1>4. ASSUME NEW R, Said(said, R)  PROVE Serves(R)
  <2>1. said.loose \in Nat /\ said.sayings \in Nat
    BY <1>2, IsRecord
  <2>2. PICK n \in Nat : R = [said EXCEPT !.loose = n] \/ R = [said EXCEPT !.sayings = n]
    <3>1. CASE said.loose > 0 /\ R = [said EXCEPT !.loose = said.loose - 1]
      <4> DEFINE n == said.loose - 1
      <4>1. n \in Nat /\ R = [said EXCEPT !.loose = n]
        BY <1>2, <2>1, <3>1
      <4> HIDE DEF n
      <4> QED BY <4>1
    <3>2. CASE said.sayings > 0 /\ R = [said EXCEPT !.sayings = said.sayings - 1]
      <4> DEFINE n == said.sayings - 1
      <4>1. n \in Nat /\ R = [said EXCEPT !.sayings = n]
        BY <1>2, <2>1, <3>2
      <4> HIDE DEF n
      <4> QED BY <4>1
    <3> QED BY <1>4, <3>1, <3>2 DEF Said
  <2>3. /\ R \in Served /\ R.focus = said.focus /\ R.queue = said.queue /\ R.topic = said.topic /\ R.asker = said.asker
        /\ R.place = said.place /\ R.todo = said.todo /\ R.ends = said.ends
    BY <1>2, <2>2, SayingsAre
  <2>4. /\ R \in Served /\ R.focus = N.focus /\ R.queue = N.queue /\ R.topic = N.topic /\ R.asker = N.asker
        /\ R.place = N.place /\ R.todo = N.todo /\ (R.ends = N.ends \/ R.ends = TRUE)
    BY <1>2, <2>3
  <2> QED BY <1>1, <2>4, SameServes
<1>5. Serves(keeper')
  BY <1>3, <1>4
<1> QED BY <1>3, <1>5 DEF KeeperServes, Serves, Agreed

LEMMA WalkServes == ASSUME KeeperServes, NEW p \in Customers, WalkBy(p) PROVE KeeperServes'
<1>1. PICK to \in {"near", "far"} : keeper.todo = <<>> /\ keeper.place[p] # to /\ rules' = rules /\ keeper' = Moved(keeper, p, to)
  BY DEF WalkBy, AllDone, Keeps
<1>2. Serves(keeper)
  BY DEF KeeperServes
<1>3. /\ keeper.focus = Nobody \/ (keeper.focus \in Customers /\ keeper.place[keeper.focus] = "near" /\ keeper.ends)
      /\ Silent(keeper.todo) /\ Leavers(keeper.todo, keeper.queue)
  BY <1>1, <1>2, NothingToDo
<1>4. keeper.focus = p => to = "far"
  BY <1>1, <1>3, NpcAssumption
<1>5. Serves(Moved(keeper, p, to))
  BY <1>2, <1>3, <1>4, MovedServes
<1> QED BY <1>1, <1>5 DEF KeeperServes, Serves, Agreed

LEMMA ComeInServes == ASSUME KeeperServes, NEW p \in Customers, ComeIn(p) PROVE KeeperServes'
<1>1. PICK to \in {"near", "far"} : keeper.todo = <<>> /\ keeper.place[p] = "away" /\ rules' = rules /\ keeper' = WithPlace(keeper, p, to)
  BY DEF ComeIn, AllDone, Keeps, WithPlace
<1>2. Serves(keeper)
  BY DEF KeeperServes
<1>3. keeper.focus = Nobody \/ (keeper.focus \in Customers /\ keeper.place[keeper.focus] = "near" /\ keeper.ends)
  BY <1>1, <1>2, NothingToDo
<1>4. keeper.focus # p
  BY <1>1, <1>3, NpcAssumption
<1>5. Serves(WithPlace(keeper, p, to))
  BY <1>2, <1>3, <1>4, PlaceServes
<1> QED BY <1>1, <1>5 DEF KeeperServes, Serves, Agreed

LEMMA DisappearServes == ASSUME KeeperServes, NEW p \in Customers, Disappear(p) PROVE KeeperServes'
<1> DEFINE G == WithTodo(keeper, <<Duty("gone", p, AnyWord)>>)
           R == IF keeper.focus = p THEN React(G, "vanish", p, AnyWord) ELSE G
<1>1. keeper.todo = <<>> /\ rules' = rules /\ keeper' = R
  BY DEF Disappear, AllDone, Keeps, WithTodo
<1>2. Serves(keeper) /\ G = WithTodo(keeper, <<Duty("gone", p, AnyWord)>>)
      /\ R = IF keeper.focus = p THEN React(G, "vanish", p, AnyWord) ELSE G
  BY DEF KeeperServes
<1> HIDE DEF G, R
<1>3. Serves(R)
  BY <1>1, <1>2, GoneServes
<1> QED BY <1>1, <1>3 DEF KeeperServes, Serves, Agreed

LEMMA ReloadServes == ASSUME KeeperServes, ReloadNpc PROVE KeeperServes'
<1> DEFINE N == keeper
           R == Record(Nobody, <<>>, 0, Nobody, FALSE, 0, N.sayings, N.last, N.place, N.todo)
<1>1. N \in Served
  BY DEF KeeperServes, Serves
<1>2. /\ N = Record(N.focus, N.queue, N.topic, N.asker, N.ends, N.sayings, N.loose, N.last, N.place, N.todo)
      /\ N.sayings \in Nat /\ N.last \in Customers \cup {Nobody} /\ N.place \in [Customers -> {"near", "far", "away"}]
      /\ N.todo \in Seq(NpcDuty)
  BY <1>1, IsRecord
<1>3. keeper' = R /\ rules' = rules /\ N.todo = <<>>
  BY <1>2 DEF ReloadNpc, AllDone, Keeps, Record
<1>4. /\ R \in Served /\ R.focus = Nobody /\ R.queue = <<>> /\ R.topic = 0 /\ R.todo = <<>>
  BY <1>2, <1>3 DEF Record, Served
<1> HIDE DEF R
<1>5. Len(R.todo) = 0 /\ Len(R.queue) = 0
  BY <1>4
<1>6. rules \in Databases
  BY DEF KeeperServes, Serves
<1>7. Serves(R)
  BY <1>4, <1>5, <1>6 DEF Serves, Attended, Awaited, Agreed, TopicDuty, QueueDuty, GoneDuty
<1> QED BY <1>3, <1>7 DEF KeeperServes, Serves, Agreed

LEMMA NpcStarts == ASSUME NpcInit PROVE KeeperServes
<1> DEFINE R == Record(Nobody, <<>>, 0, Nobody, FALSE, 0, 0, Nobody, [p \in Customers |-> "away"], <<>>)
<1>1. keeper = R /\ rules \in Databases
  BY DEF NpcInit, Record
<1>2. R \in Served /\ R.focus = Nobody /\ R.queue = <<>> /\ R.topic = 0 /\ R.todo = <<>>
  BY DEF Record, Served
<1> HIDE DEF R
<1>3. Len(R.todo) = 0 /\ Len(R.queue) = 0
  BY <1>2
<1> QED BY <1>1, <1>2, <1>3 DEF KeeperServes, Serves, Attended, Awaited, Agreed, TopicDuty, QueueDuty, GoneDuty

\* Between two handlers the customer of an NPC is within reach and will be let go, nobody waits while the NPC is free,
\* for himself or twice, and what was agreed on with one customer is not taken as agreed on by another
\* (BehaviourDatabase::react, checkAction and idle, Npc::onCreatureMove).
THEOREM NpcIsServing == NpcSpec => []NpcServes
<1>1. NpcInit => KeeperServes
  BY NpcStarts
<1>2. KeeperServes /\ [NpcNext]_npcVars => KeeperServes'
  <2> SUFFICES ASSUME KeeperServes, [NpcNext]_npcVars PROVE KeeperServes'
    OBVIOUS
  <2>1. CASE UNCHANGED npcVars
    BY <2>1 DEF npcVars, KeeperServes, Serves, Agreed
  <2>2. CASE NpcNext
    BY <2>2, CarryOutServes, SilentServes, SaidServes, ReloadServes, WalkServes, ComeInServes, DisappearServes, SayServes
       DEF NpcNext
  <2> QED BY <2>1, <2>2
<1>3. KeeperServes => NpcServes
  <2> SUFFICES ASSUME KeeperServes, keeper.todo = <<>>, NEW N, N = keeper
               PROVE  /\ N.focus # Nobody => N.place[N.focus] = "near" /\ N.ends
                      /\ N.focus = Nobody => N.queue = <<>>
                      /\ \A i \in DOMAIN N.queue :
                           N.queue[i].who # N.focus /\ \A j \in 1 .. (i - 1) : N.queue[j].who # N.queue[i].who
                      /\ ~LetsGo(rules) /\ N.topic # 0 => N.focus = N.asker
    BY DEF NpcServes, AllDone
  <2>1. Serves(N)
    BY DEF KeeperServes
  <2>2. N.focus = Nobody \/ (N.focus \in Customers /\ N.place[N.focus] = "near" /\ N.ends)
    BY <2>1, NothingToDo
  <2>3. Awaited(N.focus, N.queue) /\ Agreed(N.topic, N.asker, N.focus, N.todo) /\ N \in Served
    BY <2>1 DEF Serves
  <2>4. DOMAIN N.queue = 1..Len(N.queue)
    BY <2>3, IsRecord, LenProperties
  <2> QED BY <2>2, <2>3, <2>4 DEF Awaited, Agreed
<1> QED BY <1>1, <1>2, <1>3, PTL DEF NpcSpec

\* Theorem: of what a character is busy with, no command is carried out twice and each
\* customer has his turn, whichever of the two goes on.
THEOREM BusinessDone == BusinessSpec => []ServedOnce
<1>1. BusinessInit => ErrandsInit /\ NpcInit
  BY DEF BusinessInit
<1>2. [BusinessNext]_<<errandsVars, npcVars>> => [ErrandsNext]_errandsVars /\ [NpcNext]_npcVars
  BY DEF BusinessNext
<1>3. BusinessSpec => ErrandsSpec /\ NpcSpec
  BY <1>1, <1>2, PTL DEF BusinessSpec, ErrandsSpec, NpcSpec
<1>4. ErrandsKept /\ NpcServes => ServedOnce
  BY DEF ServedOnce
<1> QED BY <1>3, <1>4, ErrandsDoneOnce, NpcIsServing, PTL
=============================================================================
