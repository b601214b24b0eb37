------------------------------ MODULE Effects -------------------------------
(***************************************************************************)
(* What conditions and worn items do to a player, and undo (condition.cpp, *)
(* creature.cpp, movement.cpp, player.cpp).                                *)
(*                                                                         *)
(* Each condition and each worn item adds to the player's speed and skills *)
(* when it starts and takes away what it added when it ends; nothing ever  *)
(* computes the sums anew.  A condition lasts `left' more rounds of        *)
(* executeConditions, and one that is overdue (-1) is still in the list    *)
(* until then.  Formulas give small numbers, the skills are one, and so    *)
(* are the stats that items add to; items that regenerate, light, and the  *)
(* conditions that only count down are left out.                           *)
(***************************************************************************)
EXTENDS Integers, FiniteSets, FiniteSetsExt

CONSTANTS
  Magics,      \* sets of conditions that spells may give: [type, left, power]
  Wearable,    \* slot -> item types that are worn there
  Worn,        \* item type -> [on, off, event, speed, skill, veil, needs, uses]
  Bare,        \* no item
  MaxLater     \* bound: tasks that wait for the end of a step

Forever == 9   \* -1 ticks: the condition of an item
Types == {"haste", "paralyze", "skill", "veil", "guise"}

ASSUME EffectsAssumption ==
  /\ \A c \in UNION Magics : c.type \in Types /\ c.left \in Nat /\ c.left < Forever /\ c.power \in Int
  /\ IsFiniteSet(DOMAIN Wearable) /\ 0 \notin DOMAIN Wearable     \* CONDITIONID_COMBAT
  /\ \A s \in DOMAIN Wearable : Wearable[s] \subseteq DOMAIN Worn
  /\ Bare \notin DOMAIN Worn /\ MaxLater \in Nat
  /\ \A k \in DOMAIN Worn : Worn[k].on \in DOMAIN Worn \cup {Bare} /\ Worn[k].speed \in Int /\ Worn[k].skill \in Int
  \* A worn item that is replaced by another type, or counts its uses, has no
  \* type for when it is taken off; one that is replaced does nothing itself (items.srv).
  /\ \A k \in DOMAIN Worn :
       /\ Worn[k].on # Bare \/ Worn[k].uses => Worn[k].off = Bare
       /\ Worn[k].on # Bare => Worn[k].speed = 0 /\ Worn[k].skill = 0 /\ ~Worn[k].veil

VARIABLES
  body,        \* what the player is: the sums, and what he wears
  saved,       \* the conditions of his last save, while he is away
  magic        \* the conditions that others cast on him

effectsVars == <<body, saved, magic>>

Nothing == [online |-> FALSE, strong |-> TRUE, worn |-> [s \in DOMAIN Wearable |-> Bare],
            enabled |-> [s \in DOMAIN Wearable |-> FALSE], conditions |-> {},
            speed |-> 0, skill |-> 0, outfit |-> 0, shown |-> 0, hasten |-> {}, unparalyze |-> 0]

EffectsInit == body = Nothing /\ saved = {} /\ magic \in Magics

(***************************************************************************)
(* Conditions.                                                             *)
(***************************************************************************)
Veiled(B) == \E c \in B.conditions : c.type = "veil"
Unseen == -1                                       \* the outfit of an invisible player
Has(B, type) == \E c \in B.conditions : c.type = type /\ c.left \in 0 .. Forever - 1
SameAs(c, d) == c.type = d.type /\ c.id = d.id
Faster(B, delta) == [B EXCEPT !.speed = @ + delta]
Skilled(B, delta) == [B EXCEPT !.skill = @ + delta]

\* internalCreatureChangeOutfit: who is invisible changes unseen.
Dressed(B, outfit) == [B EXCEPT !.outfit = outfit, !.shown = IF Veiled(B) THEN @ ELSE outfit]
\* internalCreatureChangeVisible
Hidden(B) == [B EXCEPT !.shown = Unseen]
Visible(B) == [B EXCEPT !.shown = B.outfit]

\* startCondition: the condition is not in the list yet.
Started(B, c) ==
  CASE c.type \in {"haste", "paralyze"} -> Faster(B, c.power)
    [] c.type = "skill" -> Skilled(B, c.power)
    [] c.type = "veil"  -> Hidden(B)
    [] c.type = "guise" -> Dressed(B, c.power)

\* endCondition: it is in the list no more.
Ended(B, c) ==
  CASE c.type \in {"haste", "paralyze"} -> Faster(B, -c.power)
    [] c.type = "skill" -> Skilled(B, -c.power)
    [] c.type = "veil"  -> IF Veiled(B) THEN B ELSE Visible(B)
    [] c.type = "guise" -> Dressed(B, 0)

Taken(B, c) == Ended([B EXCEPT !.conditions = @ \ {c}], c)
Put(B, old, new) == [B EXCEPT !.conditions = (@ \ {old}) \cup {new}]

\* Condition::updateCondition
Renews(old, c) == ~(old.left = Forever /\ c.left # Forever) /\ (c.left = Forever \/ old.left <= c.left)

\* ConditionGeneric::addCondition
RenewedTime(B, old, c) == IF Renews(old, c) THEN Put(B, old, [old EXCEPT !.left = c.left]) ELSE B

\* Mutant: the old speed is not taken back.
RenewedSpeed_OnTop(B, old, c) == Faster(Put(B, old, c), c.power)

\* ConditionSpeed::addCondition
RenewedSpeed(B, old, c) ==
  IF old.left = Forever THEN B ELSE Faster(Put(B, old, c), c.power - old.power)

\* ConditionAttributes::addCondition
RenewedSkill(B, old, c) == IF Renews(old, c) THEN Skilled(Put(B, old, c), c.power - old.power) ELSE B

\* ConditionOutfit::addCondition
RenewedGuise(B, old, c) == IF Renews(old, c) THEN Dressed(Put(B, old, c), c.power) ELSE B

Renewed(B, old, c) ==
  CASE c.type \in {"haste", "paralyze"} -> RenewedSpeed(B, old, c)
    [] c.type = "skill" -> RenewedSkill(B, old, c)
    [] c.type = "veil"  -> RenewedTime(B, old, c)
    [] c.type = "guise" -> RenewedGuise(B, old, c)

\* Creature::removeCondition(type): while he takes a step, a paralysis is kept, and
\* a task will remove whatever paralyses him then.
Removed(B, type, stepping) ==
  IF type = "paralyze" /\ stepping /\ \E c \in B.conditions : c.type = type
  THEN [B EXCEPT !.unparalyze = @ + 1]
  ELSE FoldSet(LAMBDA c, X : Taken(X, c), B, {c \in B.conditions : c.type = type})

\* Creature::onAddCondition
Opposed(B, type, stepping) ==
  IF type = "paralyze" /\ Has(B, "haste") THEN Removed(B, "haste", stepping)
  ELSE IF type = "haste" /\ Has(B, "paralyze") THEN Removed(B, "paralyze", stepping)
  ELSE B

\* Creature::addCondition
Added(B, c, stepping, force) ==
  LET old == {d \in B.conditions : SameAs(d, c)}
      started == Started(B, c)
  IN  IF ~force /\ c.type = "haste" /\ Has(B, "paralyze") /\ stepping
      THEN [B EXCEPT !.hasten = @ \cup {c}]
      ELSE IF old # {} THEN Renewed(B, CHOOSE d \in old : TRUE, c)
      ELSE Opposed([started EXCEPT !.conditions = @ \cup {c}], c.type, stepping)

(***************************************************************************)
(* Worn items.                                                             *)
(***************************************************************************)
\* What EquipItem and DeEquipItem do for a type; a condition's id is the slot.
Gives(B, s, k) ==
  LET faster == Skilled(Faster(B, Worn[k].speed), Worn[k].skill)
      veil == [type |-> "veil", id |-> s, left |-> Forever, power |-> 0]
  IN  IF Worn[k].veil THEN Added(faster, veil, FALSE, FALSE) ELSE faster
Takes(B, s, k) ==
  LET slower == Skilled(Faster(B, -Worn[k].speed), -Worn[k].skill)
      veils == {c \in B.conditions : c.type = "veil" /\ c.id = s}
  IN  IF Worn[k].veil THEN FoldSet(LAMBDA c, X : Taken(X, c), slower, veils) ELSE slower

MayWear(B, k) == Worn[k].needs => B.strong

\* MoveEvent::EquipItem, of a type that stays what it is
EquippedPlain(B, s, k) ==
  IF ~Worn[k].event \/ B.enabled[s] \/ ~MayWear(B, k) THEN B
  ELSE Gives([B EXCEPT !.enabled[s] = TRUE], s, k)

\* MoveEvent::EquipItem by Player::postAddNotification: the type may become another
\* one, which is equipped by its own event.
Equipped(B, s) ==
  LET k == B.worn[s]
      on == Worn[k].on
      turned == EquippedPlain([B EXCEPT !.worn[s] = on], s, on)
  IN  IF on = Bare THEN EquippedPlain(B, s, k)
      ELSE IF ~Worn[k].event \/ B.enabled[s] \/ ~MayWear(B, k) THEN B
      ELSE Gives(turned, s, k)

\* MoveEvent::DeEquipItem by Player::postRemoveNotification
DeEquipped(B, s, k) ==
  IF ~Worn[k].event \/ ~B.enabled[s] THEN B ELSE Takes([B EXCEPT !.enabled[s] = FALSE], s, k)

WithoutItem(B, s) == DeEquipped([B EXCEPT !.worn[s] = Bare], s, B.worn[s])

(***************************************************************************)
(* Actions.                                                                *)
(***************************************************************************)
Online == body.online
Becomes(B) == body' = B /\ UNCHANGED <<saved, magic>>

\* A spell, rune or field: addCombatCondition
CastOn(c, stepping) ==
  /\ Online /\ Cardinality(body.hasten) < MaxLater /\ body.unparalyze < MaxLater
  /\ Becomes(Added(body, [type |-> c.type, id |-> 0, left |-> c.left, power |-> c.power], stepping, FALSE))

\* Game::forceAddCondition, Game::forceRemoveCondition: at the end of a step
HastenNow(c, stepping) ==
  /\ Online /\ c \in body.hasten
  /\ Becomes(Added([body EXCEPT !.hasten = @ \ {c}], c, stepping, TRUE))
UnparalyzeNow ==
  /\ Online /\ body.unparalyze > 0
  /\ Becomes(Removed([body EXCEPT !.unparalyze = @ - 1], "paralyze", FALSE))

\* Time goes by.
Older(c) == IF c.left \in {Forever, -1} THEN c ELSE [c EXCEPT !.left = @ - 1]
TimePasses ==
  /\ Online /\ \E c \in body.conditions : Older(c) # c
  /\ Becomes([body EXCEPT !.conditions = {Older(c) : c \in @}])

\* Creature::executeConditions
ExecuteConditions ==
  LET over == {c \in body.conditions : c.left = -1}
  IN  /\ Online /\ over # {} /\ Becomes(FoldSet(LAMBDA c, X : Taken(X, c), body, over))

\* Player::onCombatRemoveCondition: who acts just now loses it in a moment, and what
\* an item does stays.
Dispel(c, acting, stepping) ==
  /\ Online /\ c \in body.conditions /\ c.id = 0 /\ body.unparalyze < MaxLater
  /\ Becomes(IF acting THEN Put(body, c, [c EXCEPT !.left = 0])
             ELSE IF c.type = "paralyze" /\ stepping THEN [body EXCEPT !.unparalyze = @ + 1]
             ELSE Taken(body, c))

\* Player::queryAdd, postAddNotification
Wear(s, k) ==
  /\ Online /\ body.worn[s] = Bare /\ k \in Wearable[s]
  /\ Worn[k].off = Bare        \* it is that type only while it is worn
  /\ Worn[k].event => MayWear(body, k)
  /\ Becomes(Equipped([body EXCEPT !.worn[s] = k], s))

\* Taken off, expired or used up: Player::postRemoveNotification
TakeOff(s) == Online /\ body.worn[s] # Bare /\ Becomes(WithoutItem(body, s))

\* Player::blockHit: the item absorbs a blow, and is changed for one with a use less.
UseUp(s) ==
  /\ Online /\ body.enabled[s] /\ Worn[body.worn[s]].uses
  /\ Becomes(Equipped(DeEquipped(body, s, body.worn[s]), s))

Persistent(c) == c.left # Forever /\ c.id = 0

\* Player::death; a player who dies in an arena stays.
Perish(arena) ==
  LET dead == FoldSet(LAMBDA c, X : Taken(X, c), body, {c \in body.conditions : Persistent(c)})
  IN  /\ Online
      /\ body' = IF arena THEN dead ELSE [Nothing EXCEPT !.worn = body.worn, !.strong = FALSE]
      /\ UNCHANGED <<saved, magic>>

\* IOLoginData::savePlayer; tasks that come later find nobody.
LogOut ==
  /\ Online /\ saved' = {c \in body.conditions : Persistent(c)}
  /\ body' = [Nothing EXCEPT !.worn = body.worn, !.strong = body.strong]
  /\ UNCHANGED magic

\* IOLoginData::loadPlayer, Player::onCreatureAppear: items first, then conditions.
LogIn(stepping) ==
  LET items == FoldSet(LAMBDA s, X : Equipped(X, s), [body EXCEPT !.online = TRUE],
                       {s \in DOMAIN Wearable : body.worn[s] # Bare})
  IN  /\ ~Online
      /\ body' = FoldSet(LAMBDA c, X : Added(X, c, stepping, FALSE), items, saved)
      /\ saved' = {} /\ UNCHANGED magic

\* He reaches the level that an item wants.
Train == Online /\ ~body.strong /\ Becomes([body EXCEPT !.strong = TRUE])

EffectsNext ==
  \/ TimePasses \/ ExecuteConditions \/ UnparalyzeNow \/ LogOut \/ Train
  \/ \E stepping \in BOOLEAN :
       \/ LogIn(stepping)
       \/ \E c \in magic : CastOn(c, stepping)
       \/ \E c \in body.hasten : HastenNow(c, stepping)
       \/ \E c \in body.conditions, acting \in BOOLEAN : Dispel(c, acting, stepping)
  \/ \E arena \in BOOLEAN : Perish(arena)
  \/ \E s \in DOMAIN Wearable : TakeOff(s) \/ UseUp(s) \/ \E k \in Wearable[s] : Wear(s, k)

EffectsSpec == EffectsInit /\ [][EffectsNext]_effectsVars

-----------------------------------------------------------------------------
SumOf(f, S) == FoldFunctionOnSet(+, 0, f, S)
WornNow == {s \in DOMAIN Wearable : body.enabled[s]}

\* Whatever is started is undone once: speed and skill are exactly what the conditions
\* in force and the worn items give, and others see the outfit of the last guise, or
\* nobody while one thing makes him invisible.
EffectsBalanced ==
  LET of(types) == {c \in body.conditions : c.type \in types}
      power == [c \in body.conditions |-> c.power]
      guises == of({"guise"})
  IN  /\ body.speed = SumOf(power, of({"haste", "paralyze"})) + SumOf([s \in WornNow |-> Worn[body.worn[s]].speed], WornNow)
      /\ body.skill = SumOf(power, of({"skill"})) + SumOf([s \in WornNow |-> Worn[body.worn[s]].skill], WornNow)
      /\ body.outfit = IF guises = {} THEN 0 ELSE (CHOOSE c \in guises : TRUE).power
      /\ body.shown = IF of({"veil"}) = {} THEN body.outfit ELSE Unseen
      /\ \A s \in DOMAIN Wearable :
           (\E c \in of({"veil"}) : c.id = s) <=> (body.enabled[s] /\ Worn[body.worn[s]].veil)
=============================================================================
