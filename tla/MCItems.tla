------------------------------- MODULE MCItems -------------------------------
(***************************************************************************)
(* Items for TLC: a backpack that may hold a bag, coins of two kinds and   *)
(* something for one hand, with stacks of two.                             *)
(***************************************************************************)
EXTENDS Items, TLC

CONSTANTS i1, i2, i3, i4, i5, i6

Kind(stackable, maxSize, weight, fits, weapon, twoHanded, worth, decaysTo) ==
    [stackable |-> stackable, maxSize |-> maxSize, weight |-> weight, fits |-> fits,
     weapon |-> weapon, twoHanded |-> twoHanded, worth |-> worth, decaysTo |-> decaysTo]

MCKinds == {"gold", "platinum", "bag", "sword", "shield"}
MCKindOf ==
    [k \in MCKinds |->
       CASE k = "gold" -> Kind(TRUE, 0, 1, {RIGHT, LEFT}, "none", FALSE, 1, None)
         [] k = "platinum" -> Kind(TRUE, 0, 1, {RIGHT, LEFT}, "none", FALSE, 2, None)
         [] k = "bag" -> Kind(FALSE, 2, 1, {BACKPACK, RIGHT, LEFT}, "none", FALSE, 0, None)
         [] k = "sword" -> Kind(FALSE, 0, 2, {RIGHT, LEFT}, "weapon", TRUE, 0, "shield")
         [] k = "shield" -> Kind(FALSE, 0, 1, {RIGHT, LEFT}, "shield", FALSE, 0, None)]

MCCoins == <<"platinum", "gold">>

Laid(item, kind, count, at, index) ==
    [item |-> item, kind |-> kind, count |-> count, at |-> at, index |-> index]

\* A backpack; with a bag in it and a sword in hand, or with a coin on the ground.
Backpack == Laid(i1, "bag", 1, Player, BACKPACK)
MCBelonging ==
    {<<Backpack, Laid(i2, "bag", 1, i1, 0), Laid(i3, "sword", 1, Player, RIGHT)>>,
     <<Backpack, Laid(i3, "platinum", 1, Tile, 0)>>}

\* A sword in both hands, a coin on the ground and two bags: one on the back and, in it
\* or on the ground, another that is empty.
MCNested ==
    {<<Backpack, Laid(i2, "bag", 1, at, 0), Laid(i3, "sword", 1, Player, RIGHT),
       Laid(i4, "platinum", 1, Tile, 0)>> : at \in {i1, Tile}}

Alike == Permutations({i1, i2}) \cup Permutations({i3, i4, i5})
=============================================================================
