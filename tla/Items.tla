-------------------------------- MODULE Items --------------------------------
(***************************************************************************)
(* Items and the cylinders that hold them: the slots of one player, the    *)
(* containers at any depth and the tile the player stands on (container.cpp, *)
(* tile.cpp and the item half of player.cpp), and the operations of Game   *)
(* that move, add, remove and transform items and that pay with coins.     *)
(*                                                                         *)
(* A handler is a chain of calls on the same objects, so the objects are   *)
(* one record, "world", and every call an operator from world to world.    *)
(* Left out: quivers, hangables, fields and splashes, tiles whose items    *)
(* block, offers (module Trade), equipment scripts and item attributes:    *)
(* two items are equal when their kinds are.                               *)
(***************************************************************************)
EXTENDS Integers, FiniteSets, Sequences, FiniteSetsExt, SequencesExt

CONSTANTS
    Items,         \* the objects an Item may be
    Kinds,         \* the item types; KindOf[k] is the part of ItemType used here
    KindOf,
    Coins,         \* the coin kinds, most valuable first
    Slots,         \* the slots in use, by the numbers of slots_t
    Capacity,      \* the weight the player may carry
    MaxStack,      \* 100 in the code
    TileLimit,     \* 20 in the code
    AutoStack,     \* configuration autoStackCumulatives
    QueryNested,   \* configuration queryPlayerContainers
    Belonging,     \* what the player and the tile start with: sets of sequences of
                   \* [item, kind, count, at, index]
    Given,         \* the kinds scripts give the player
    Sums,          \* the amounts paid and earned at once
    Player, Tile, None

BACKPACK == 3      \* slots_t
RIGHT == 5
LEFT == 6
AMMO == 10
WhereverSlot == 0
Wherever == -1     \* INDEX_WHEREEVER
MoveUp == 254
AddWherever == 255

ASSUME ItemsAssumption ==
    /\ Slots \subseteq 1 .. 10
    /\ MaxStack \in Nat \ {0} /\ Capacity \in Nat /\ TileLimit \in Nat
    /\ DOMAIN KindOf = Kinds
    /\ \A k \in Kinds : KindOf[k].weight \in Nat \ {0}
    /\ AutoStack \in BOOLEAN /\ QueryNested \in BOOLEAN

VARIABLES
    world,         \* every object and cylinder
    due,           \* history: what the calls so far should have left of each good
    burst          \* history: some container has held more than its maxSize

vars == <<world, due, burst>>

Lesser(m, n) == IF m <= n THEN m ELSE n
Greater(m, n) == IF m >= n THEN m ELSE n

-----------------------------------------------------------------------------
(* Objects. An object with no kind is free memory.                         *)

Live(w) == {i \in Items : w.kind[i] # None}
Free(w) == Items \ Live(w)
Fresh(w) == CHOOSE i \in Free(w) : TRUE

Stackable(w, i) == KindOf[w.kind[i]].stackable
IsContainer(w, i) == i \in Items /\ w.kind[i] # None /\ KindOf[w.kind[i]].maxSize > 0
MaxSize(w, c) == KindOf[w.kind[c]].maxSize
Equals(w, i, j) == j # None /\ w.kind[i] = w.kind[j]
BaseWeight(w, i) == KindOf[w.kind[i]].weight

\* Container::getWeight adds the weight the container remembers for its contents.
Weight(w, i) ==
    w.held[i] + BaseWeight(w, i) * (IF Stackable(w, i) THEN Greater(1, w.cnt[i]) ELSE 1)

Created(w, i, k, n) == [w EXCEPT !.kind[i] = k, !.cnt[i] = n]

\* The object and what it contains are deleted.
RECURSIVE Released(_, _)
Released(w, i) ==
    FoldSeq(LAMBDA x, v : Released(v, x),
            [w EXCEPT !.kind[i] = None, !.cnt[i] = 0, !.parent[i] = None,
                      !.held[i] = 0, !.inside[i] = <<>>],
            w.inside[i])

\* Deletes the object when it is nowhere (Item::isRemoved).
ReleasedIfRemoved(w, i) == IF w.parent[i] = None THEN Released(w, i) ELSE w

-----------------------------------------------------------------------------
(* Where things are.                                                       *)

\* The cylinder c and the containers around it (getParent, up to the top).
RECURSIVE Upwards(_, _, _)
Upwards(w, c, n) ==
    IF n = 0 \/ c \notin Items THEN {} ELSE {c} \cup Upwards(w, w.parent[c], n - 1)
Holders(w, c) == Upwards(w, c, Cardinality(Items))

\* getTopParent() of c is the player.
OnPlayer(w, c) == c = Player \/ \E h \in Holders(w, c) : w.parent[h] = Player

IndexIn(s, x) == SelectInSeq(s, LAMBDA y : y = x) - 1
Things(w, cyl) == IF cyl = Tile THEN w.ground ELSE w.inside[cyl]
SlotOf(w, i) == IF \E s \in Slots : w.slot[s] = i
                THEN CHOOSE s \in Slots : w.slot[s] = i ELSE -1
GetThingIndex(w, cyl, i) ==
    IF cyl = Player THEN SlotOf(w, i) ELSE IndexIn(Things(w, cyl), i)

\* The item at an index of the cylinder, or None.
ThingAt(w, cyl, index) ==
    IF cyl = Player THEN (IF index \in Slots THEN w.slot[index] ELSE None)
    ELSE IF index + 1 \in DOMAIN Things(w, cyl) THEN Things(w, cyl)[index + 1] ELSE None

SlotOrder == SetToSortSeq(Slots, <)
Worn(w) == SelectSeq([n \in 1 .. Len(SlotOrder) |-> w.slot[SlotOrder[n]]],
                     LAMBDA i : i # None)
Bags(w, s) == SelectSeq(s, LAMBDA i : IsContainer(w, i))

\* The containers of the queue and those in them, in the order of a search that
\* appends the ones it meets.
RECURSIVE Breadth(_, _)
Breadth(w, queue) ==
    IF queue = <<>> THEN <<>>
    ELSE <<Head(queue)>> \o Breadth(w, Tail(queue) \o Bags(w, w.inside[Head(queue)]))
Contents(w, queue) == LET b == Breadth(w, queue)
                      IN FlattenSeq([n \in 1 .. Len(b) |-> w.inside[b[n]]])

-----------------------------------------------------------------------------
(* Container::updateItemWeight and the members that add, change and remove. *)

UpdateItemWeight(w, c, diff) ==
    LET around == Holders(w, c)
    IN [w EXCEPT !.held = [i \in Items |-> IF i \in around THEN @[i] + diff ELSE @[i]]]

TileAddThing(w, i) == [w EXCEPT !.ground = <<i>> \o @, !.parent[i] = Tile]

PlayerAddThing(w, index, i) ==
    IF index \in Slots THEN [w EXCEPT !.slot[index] = i, !.parent[i] = Player] ELSE w

ContainerAddThing(w, c, index, i) ==
    IF index >= MaxSize(w, c) THEN w
    ELSE UpdateItemWeight([w EXCEPT !.inside[c] = <<i>> \o @, !.parent[i] = c],
                          c, Weight(w, i))

AddThing(w, cyl, index, i) ==
    CASE cyl = Tile -> TileAddThing(w, i)
      [] cyl = Player -> PlayerAddThing(w, index, i)
      [] OTHER -> ContainerAddThing(w, cyl, index, i)

\* updateThing with the item's new kind and count, where the item is.
UpdateThing(w, i, k, n) ==
    LET v == [w EXCEPT !.kind[i] = k, !.cnt[i] = n]
        cyl == w.parent[i]
    IN IF cyl \in Items THEN UpdateItemWeight(v, cyl, Weight(v, i) - Weight(w, i)) ELSE v

\* removeThing: a part of a stack, or the whole item, which then has no parent.
TileRemoveThing(w, i) == [w EXCEPT !.ground = Remove(@, i), !.parent[i] = None]

PlayerRemoveThing(w, i) == [w EXCEPT !.slot[SlotOf(w, i)] = None, !.parent[i] = None]

ContainerRemoveThing(w, c, i) ==
    UpdateItemWeight([w EXCEPT !.inside[c] = Remove(@, i), !.parent[i] = None], c, -Weight(w, i))

RemoveThing(w, cyl, i, count) ==
    CASE Stackable(w, i) /\ count # w.cnt[i] ->
           UpdateThing(w, i, w.kind[i], Greater(0, w.cnt[i] - count))
      [] OTHER ->
           CASE cyl = Tile -> TileRemoveThing(w, i)
             [] cyl = Player -> PlayerRemoveThing(w, i)
             [] OTHER -> ContainerRemoveThing(w, cyl, i)

TileReplaceThing(w, index, new) == [w EXCEPT !.ground[index + 1] = new]

PlayerReplaceThing(w, index, new) == [w EXCEPT !.slot[index] = new]

ContainerReplaceThing(w, c, index, new) ==
    UpdateItemWeight([w EXCEPT !.inside[c][index + 1] = new],
                     c, Weight(w, new) - Weight(w, w.inside[c][index + 1]))

ReplaceThing(w, cyl, i, new) ==
    LET index == GetThingIndex(w, cyl, i)
        v == CASE cyl = Tile -> TileReplaceThing(w, index, new)
               [] cyl = Player -> PlayerReplaceThing(w, index, new)
               [] OTHER -> ContainerReplaceThing(w, cyl, index, new)
    IN [v EXCEPT !.parent[new] = cyl, !.parent[i] = None]

\* The post notifications reach the player when the cylinder is on him:
\* Player::updateInventoryWeight.
Notified(w, cyl) ==
    IF OnPlayer(w, cyl)
    THEN [w EXCEPT !.carried = MapThenSumSet(LAMBDA i : Weight(w, i), ToSet(Worn(w)))]
    ELSE w

-----------------------------------------------------------------------------
(* What a cylinder answers when asked to take an item. The answers that    *)
(* differ only in wording are one, "no".                                   *)

HasCapacity(w, i, count) ==
    \/ OnPlayer(w, w.parent[i])
    \/ (IF IsContainer(w, i) THEN Weight(w, i)
        ELSE BaseWeight(w, i) * (IF Stackable(w, i) THEN count ELSE 1))
         <= Greater(0, Capacity - w.carried)

\* Two things in two hands: the whole of one moving to the other hand, or not two
\* shields and not two weapons.
GoTogether(w, i, j, count) ==
    /\ ~KindOf[w.kind[j]].twoHanded
    /\ \/ i = j /\ count = w.cnt[i]
       \/ LET mine == KindOf[w.kind[i]].weapon
              other == KindOf[w.kind[j]].weapon
          IN /\ ~(mine = "shield" /\ other = "shield")
             /\ {mine, other} \cap {"none", "shield", "ammo"} # {}

HandAllows(w, index, i, count) ==
    LET other == ThingAt(w, Player, IF index = LEFT THEN RIGHT ELSE LEFT)
    IN IF KindOf[w.kind[i]].twoHanded THEN other \in {None, i}
       ELSE other = None \/ GoTogether(w, i, other, count)

\* What is made for no place of the body may be worn anywhere, and anything may be
\* worn as ammunition.
SlotAllows(w, index, i, count) ==
    LET k == KindOf[w.kind[i]]
    IN /\ index \in Slots
       /\ \/ index = AMMO
          \/ k.fits = {} /\ ~k.twoHanded
          \/ /\ index \in k.fits
             /\ index \in {LEFT, RIGHT} => HandAllows(w, index, i, count)

PlayerQueryAdd(w, index, i, count) ==
    LET worn == ThingAt(w, Player, index)
    IN CASE ~SlotAllows(w, index, i, count) -> "no"
         [] worn # None /\ ~(Stackable(w, worn) /\ w.kind[worn] = w.kind[i]) -> "exchange"
         [] OTHER -> IF HasCapacity(w, i, count) THEN "ok" ELSE "no"

\* Mutant: the container may be moved into one that is in it.
ContainerQueryAdd_Itself(w, c, index, i, count) ==
    /\ i # c
    /\ index = Wherever => Len(w.inside[c]) < MaxSize(w, c)
    /\ OnPlayer(w, c) => HasCapacity(w, i, count)

\* A container never takes itself or what it is in; carried by the player, it asks
\* him for the weight.
ContainerQueryAdd(w, c, index, i, count) ==
    /\ i \notin Holders(w, c)
    /\ index = Wherever => Len(w.inside[c]) < MaxSize(w, c)
    /\ OnPlayer(w, c) => HasCapacity(w, i, count)

QueryAdd(w, cyl, index, i, count) ==
    CASE cyl = Tile -> "ok"
      [] cyl = Player -> PlayerQueryAdd(w, index, i, count)
      [] OTHER -> IF ContainerQueryAdd(w, cyl, index, i, count) THEN "ok" ELSE "no"

\* Room left in the stack j for more of i.
StackRoom(w, i, j) ==
    IF Equals(w, i, j) THEN Greater(0, MaxStack - w.cnt[j]) ELSE 0

ContainerQueryMaxCount(w, c, index, i) ==
    LET free == Greater(0, MaxSize(w, c) - Len(w.inside[c]))
        into(j) == IF ContainerQueryAdd(w, c, 0, i, StackRoom(w, i, j))
                   THEN StackRoom(w, i, j) ELSE 0
        at == ThingAt(w, c, index)
    IN IF ~Stackable(w, i) THEN free
       ELSE free * MaxStack
            + (IF index = Wherever THEN MapThenSumSet(into, ToSet(w.inside[c]) \ {i})
               ELSE IF Equals(w, i, at) THEN into(at) ELSE 0)

\* The room of one slot, with all that can be put into a container worn there.
SlotRoom(w, s, i) ==
    LET worn == w.slot[s]
        bags == IF IsContainer(w, worn) THEN Breadth(w, <<worn>>) ELSE <<>>
    IN CASE worn = None ->
              IF PlayerQueryAdd(w, s, i, w.cnt[i]) # "ok" THEN 0
              ELSE IF Stackable(w, i) THEN MaxStack ELSE 1
         [] IsContainer(w, worn) ->
              MapThenSumSet(LAMBDA c : ContainerQueryMaxCount(w, c, Wherever, i), ToSet(bags))
         [] OTHER ->
              IF Stackable(w, worn) /\ PlayerQueryAdd(w, s, i, StackRoom(w, i, worn)) = "ok"
              THEN StackRoom(w, i, worn) ELSE 0

PlayerQueryMaxCount(w, index, i, count) ==
    LET worn == ThingAt(w, Player, index)
    IN CASE index = Wherever -> MapThenSumSet(LAMBDA s : SlotRoom(w, s, i), Slots)
         [] index # Wherever /\ worn # None ->
              IF Stackable(w, worn) THEN StackRoom(w, i, worn) ELSE 0
         [] OTHER ->
              IF PlayerQueryAdd(w, index, i, count) # "ok" THEN 0
              ELSE IF Stackable(w, i) THEN MaxStack ELSE 1

QueryMaxCount(w, cyl, index, i, count) ==
    CASE cyl = Tile -> Greater(1, count)
      [] cyl = Player -> PlayerQueryMaxCount(w, index, i, count)
      [] OTHER -> ContainerQueryMaxCount(w, cyl, index, i)

QueryRemove(w, i, count) == count > 0 /\ (Stackable(w, i) => count <= w.cnt[i])

-----------------------------------------------------------------------------
(* queryDestination: where an item put into a cylinder would really go, at *)
(* which index, and the item it would meet there.                          *)

Dest(cyl, index, i) == [cyl |-> cyl, index |-> index, item |-> i]

PartialStack(w, s, i) ==
    SelectInSeq(s, LAMBDA j : j # i /\ Equals(w, i, j) /\ w.cnt[j] < MaxStack)

ContainerDestination(w, c, index, i) ==
    LET asked == IF index = AddWherever \/ index >= MaxSize(w, c) THEN Wherever ELSE index
        stack == PartialStack(w, w.inside[c], i)
        at == ThingAt(w, c, asked)
    IN CASE index = MoveUp ->
              Dest(IF w.parent[c] \in Items THEN w.parent[c] ELSE c, Wherever, None)
         [] index # MoveUp /\ AutoStack /\ Stackable(w, i) /\ w.parent[i] # c /\ stack # 0 ->
              Dest(c, stack - 1, w.inside[c][stack])
         [] OTHER ->
              IF IsContainer(w, at) THEN Dest(at, Wherever, None) ELSE Dest(c, asked, at)

\* The first slot, in their order, that is empty and takes the item or holds a stack
\* of it that has room.
FirstSlot(w, i) ==
    LET takes(s) ==
          /\ w.slot[s] # i
          /\ PlayerQueryAdd(w, s, i, w.cnt[i]) = "ok"
          /\ \/ w.slot[s] = None
             \/ Stackable(w, i) /\ Equals(w, i, w.slot[s]) /\ w.cnt[w.slot[s]] < MaxStack
    IN SelectInSeq(SlotOrder, takes)

\* The containers the player searches, in order.
Searched(w, i) ==
    LET bags == SelectSeq(Bags(w, Worn(w)), LAMBDA b : b # i)
    IN IF QueryNested THEN Breadth(w, bags) ELSE bags

\* What the loop over a container's list counts: not a stack that is moved.
Listed(w, c, i) == SelectSeq(w.inside[c], LAMBDA j : Stackable(w, i) => j # i)

\* A container with a stack that takes more, or with a free place; for what does not
\* stack the free places are capacity() - size(), unsigned.
StackIn(w, c, i) == IF Stackable(w, i) THEN PartialStack(w, Listed(w, c, i), i) ELSE 0
Opens(w, c, i) ==
    LET size == Len(Listed(w, c, i))
    IN /\ IF Stackable(w, i) THEN size < MaxSize(w, c) ELSE size # MaxSize(w, c)
       /\ ContainerQueryAdd(w, c, size, i, w.cnt[i])

PlaceIn(w, c, i, stack) ==
    IF stack # 0 THEN Dest(c, stack - 1, Listed(w, c, i)[stack])
    ELSE Dest(c, Len(Listed(w, c, i)), None)

BagSearch(w, index, i, bags) ==
    IF bags = <<>> THEN Dest(Player, index, None)
    ELSE PlaceIn(w, Head(bags), i, StackIn(w, Head(bags), i))

\* A slot comes before all containers.
PlayerSearch(w, index, i, slot) ==
    IF slot # 0 THEN Dest(Player, SlotOrder[slot], w.slot[SlotOrder[slot]])
    ELSE BagSearch(w, index, i, SelectSeq(Searched(w, i),
                                          LAMBDA c : StackIn(w, c, i) # 0 \/ Opens(w, c, i)))

PlayerDestination(w, index, i) ==
    LET worn == ThingAt(w, Player, index)
    IN IF index \in {WhereverSlot, Wherever} THEN PlayerSearch(w, index, i, FirstSlot(w, i))
       ELSE IF IsContainer(w, worn) THEN Dest(worn, Wherever, None)
       ELSE Dest(Player, index, worn)

QueryDestination(w, cyl, index, i) ==
    CASE cyl = Tile -> Dest(Tile, index, IF w.ground = <<>> THEN None ELSE Head(w.ground))
      [] cyl = Player -> PlayerDestination(w, index, i)
      [] OTHER -> ContainerDestination(w, cyl, index, i)

\* The loop of internalMoveItem: asks again until a cylinder names itself.
RECURSIVE Settled(_, _, _, _)
Settled(w, cyl, index, i) ==
    LET d == QueryDestination(w, cyl, index, i)
    IN IF d.cyl = cyl THEN d ELSE Settled(w, d.cyl, d.index, i)

-----------------------------------------------------------------------------
(* Game::internalMoveItem.                                                 *)

\* Mutant: whatever is worn is taken off.
MayExchange_Always(w, from, i, d) == TRUE

\* An item worn in the way may go where the other comes from: that cylinder would
\* take it and has any room for it.
MayExchange(w, from, i, d) ==
    LET n == w.cnt[d.item]
    IN /\ QueryAdd(w, from, GetThingIndex(w, from, i), d.item, n) = "ok"
       /\ QueryMaxCount(w, from, Wherever, d.item, n) > 0

Exchanged(w, from, d) ==
    LET away == RemoveThing(w, d.cyl, d.item, w.cnt[d.item])
        \* Player::addThing without an index does nothing
        put == IF from = Player THEN away ELSE AddThing(away, from, 0, d.item)
    IN Notified(Notified(put, d.cyl), from)

\* What is left of a stack goes on as a new object.
Rest(w, d, k, n, clone) ==
    ReleasedIfRemoved(AddThing(Created(w, clone, k, n), d.cyl, d.index, clone), clone)

\* m of a stack leave; n of them are merged with the stack they meet. The old object is
\* deleted when it is empty.
Left(w, from, i, m) == ReleasedIfRemoved(RemoveThing(w, from, i, m), i)
Met(w, d, k, n) == IF n = 0 THEN w ELSE UpdateThing(w, d.item, k, w.cnt[d.item] + n)
StackMoved(w, d, k, m, n) == IF m = n THEN w ELSE Rest(w, d, k, m - n, Fresh(w))

Fitting(w, d, i, m) ==
    IF Stackable(w, i) /\ Equals(w, i, d.item) THEN Lesser(MaxStack - w.cnt[d.item], m) ELSE 0

\* m of the item go from one cylinder to d.
Moved(w, from, d, i, m) ==
    LET k == w.kind[i]
        n == Fitting(w, d, i, m)
        put == IF Stackable(w, i) THEN StackMoved(Met(Left(w, from, i, m), d, k, n), d, k, m, n)
               ELSE AddThing(RemoveThing(w, from, i, m), d.cyl, d.index, i)
    IN Notified(Notified(put, from), d.cyl)

\* As much as d takes of it, if it may go there and may leave.
MoveSome(w, from, d, i, m) == IF m > 0 /\ QueryRemove(w, i, m) THEN Moved(w, from, d, i, m) ELSE w
MoveTo(w, from, d, i, count) ==
    LET max == QueryMaxCount(w, d.cyl, d.index, i, count)
    IN IF QueryAdd(w, d.cyl, d.index, i, count) # "ok" THEN w
       ELSE MoveSome(w, from, d, i, IF Stackable(w, i) THEN Lesser(count, max) ELSE max)

\* After an exchange, successful or not, d is asked again and no item is met there.
ExchangeOrMove(w, from, d, i, count) ==
    CASE i = d.item -> w
      [] /\ i # d.item /\ QueryAdd(w, d.cyl, d.index, i, count) = "exchange"
         /\ MayExchange(w, from, i, d) ->
           MoveTo(Exchanged(w, from, d), from, [d EXCEPT !.item = None], i, count)
      [] OTHER -> MoveTo(w, from, d, i, count)

InternalMoveItem(w, from, to, index, i, count) ==
    ExchangeOrMove(w, from, Settled(w, to, index, i), i, count)

-----------------------------------------------------------------------------
(* Game::internalAddItem. The result says whether it was NOERROR and how   *)
(* much the caller is told was left over; the object that did not fit is   *)
(* deleted.                                                                *)

Added(w, ok, rest) == [world |-> w, ok |-> ok, rest |-> rest]

\* Into the place d, all of it, with no stack to meet.
AddedAt(w, d, i) ==
    IF w.parent[i] = None THEN Added(Released(w, i), TRUE, 0) ELSE Added(Notified(w, d.cyl), TRUE, 0)

\* The count that the call for the remainder may itself report is not looked at.
AfterRemainder(r, i, count) ==
    IF r.ok THEN Added(r.world, TRUE, 0) ELSE Added(Released(r.world, i), TRUE, count)

RECURSIVE AddItem(_, _, _, _)
AddMerged(w, dest, d, i, n, count) ==
    LET merged == Met(w, d, w.kind[i], n)
    IN IF n = count THEN Added(Notified(Released(merged, i), d.cyl), TRUE, 0)
       ELSE AfterRemainder(AddItem([merged EXCEPT !.cnt[i] = count - n], dest, Wherever, i),
                           i, count - n)

AddTo(w, dest, d, i, n) ==
    CASE \/ QueryAdd(w, d.cyl, d.index, i, w.cnt[i]) # "ok"
         \/ QueryMaxCount(w, dest, Wherever, i, w.cnt[i]) < w.cnt[i] -> Added(w, FALSE, 0)
      [] OTHER -> IF n = 0 THEN AddedAt(AddThing(w, d.cyl, d.index, i), d, i)
                  ELSE AddMerged(w, dest, d, i, n, w.cnt[i])

AddHere(w, dest, d, i) == AddTo(w, dest, d, i, Fitting(w, d, i, w.cnt[i]))
AddItem(w, dest, index, i) == AddHere(w, dest, QueryDestination(w, dest, index, i), i)

\* What does not fit goes to the ground.
AddToGround(w, i) == AddItem(w, Tile, Wherever, i).world

\* The remainder that is reported is made anew.
DroppedRest(r, i, k, rest) ==
    CASE ~r.ok -> AddToGround(r.world, i)
      [] r.ok /\ r.rest > 0 -> AddToGround(Created(r.world, rest, k, r.rest), rest)
      [] OTHER -> r.world

PlayerAdds(w, i, k, n) ==
    LET r == AddItem(Created(w, i, k, n), Player, WhereverSlot, i)
    IN DroppedRest(r, i, k, Fresh(r.world))
InternalPlayerAddItem(w, k, n) == PlayerAdds(w, Fresh(w), k, n)

InternalRemoveItem(w, i, count) ==
    LET cyl == w.parent[i]
    IN IF cyl = None \/ ~QueryRemove(w, i, count) THEN w
       ELSE Notified(ReleasedIfRemoved(RemoveThing(w, cyl, i, count), i), cyl)

RemoveWhole(w, i) == InternalRemoveItem(w, i, w.cnt[i])

\* Game::transformItem as a decaying item calls it: no new count.
TransformItem(w, i, k) ==
    LET cyl == w.parent[i]
        new == Fresh(w)
        sameType == (KindOf[k].maxSize > 0) = (KindOf[w.kind[i]].maxSize > 0)
    IN CASE k = w.kind[i] \/ cyl = None -> w
         [] k # w.kind[i] /\ cyl # None /\ sameType -> Notified(UpdateThing(w, i, k, w.cnt[i]), cyl)
         [] OTHER -> Notified(Released(ReplaceThing(Created(w, new, k, 1), cyl, i, new), i), cyl)

-----------------------------------------------------------------------------
(* Coins.                                                                  *)

\* Item::getWorth, of a number of coins of a kind.
Worth(k, n) == n * KindOf[k].worth

RECURSIVE AddCoins(_, _, _)
AddStack(w, i, k, count) ==
    LET added(r) == IF r.ok THEN r.world ELSE AddToGround(r.world, i)
    IN added(AddItem(Created(w, i, k, count), Player, Wherever, i))
AddCoins(w, k, n) ==
    IF n = 0 THEN w
    ELSE AddCoins(AddStack(w, Fresh(w), k, Lesser(MaxStack, n)), k, n - Lesser(MaxStack, n))

\* As many as fit of each kind of coin, the most valuable first.
AddMoney(w, money) ==
    LET pay(s, k) == [world |-> AddCoins(s.world, k, s.money \div KindOf[k].worth),
                      money |-> s.money % KindOf[k].worth]
    IN FoldLeft(pay, [world |-> w, money |-> money], Coins).world

\* What the player has of some worth, the smallest worth first and, of the same worth,
\* in the order found: worn, then in the containers worn.
Purse(w) ==
    LET found == SelectSeq(Worn(w) \o Contents(w, Bags(w, Worn(w))),
                           LAMBDA i : Worth(w.kind[i], w.cnt[i]) > 0)
        worth(n) == Worth(w.kind[found[n]], w.cnt[found[n]])
        order == SetToSortSeq(DOMAIN found,
                              LAMBDA m, n : worth(m) < worth(n) \/ (worth(m) = worth(n) /\ m < n))
    IN [n \in DOMAIN found |-> found[order[n]]]

\* Change is given before the coins it is for are taken.
PayWith(s, i) ==
    LET worth == Worth(s.world.kind[i], s.world.cnt[i])
        one == KindOf[s.world.kind[i]].worth
        removed == (s.money + one - 1) \div one
    IN CASE s.money = 0 -> s
         [] s.money > 0 /\ worth <= s.money ->
              [world |-> RemoveWhole(s.world, i), money |-> s.money - worth]
         [] OTHER ->
              [world |-> InternalRemoveItem(AddMoney(s.world, one * removed - s.money), i, removed),
               money |-> 0]

Money(w) == LET p == Purse(w)
            IN MapThenSumSet(LAMBDA n : Worth(w.kind[p[n]], w.cnt[p[n]]), DOMAIN p)

RemoveMoney(w, money) ==
    IF Money(w) < money THEN w
    ELSE FoldLeft(PayWith, [world |-> w, money |-> money], Purse(w)).world

-----------------------------------------------------------------------------
(* Player::removeItemOfType: enough of a kind, first found first taken.    *)

\* What is worn, and after a container all that is in it.
Belongings(w) == FlattenSeq([n \in 1 .. Len(Worn(w)) |->
                     <<Worn(w)[n]>> \o Contents(w, Bags(w, <<Worn(w)[n]>>))])

RemoveSome(s, i) ==
    CASE s.amount = 0 -> s
      [] s.amount > 0 /\ s.world.cnt[i] > s.amount ->
           [world |-> InternalRemoveItem(s.world, i, s.amount), amount |-> 0]
      [] OTHER -> [world |-> RemoveWhole(s.world, i), amount |-> s.amount - s.world.cnt[i]]

AmountOf(w, k) == LET b == Belongings(w)
                  IN MapThenSumSet(LAMBDA i : w.cnt[i], {i \in ToSet(b) : w.kind[i] = k})

RemoveItemOfType(w, k, amount) ==
    IF AmountOf(w, k) < amount THEN w
    ELSE FoldLeft(RemoveSome, [world |-> w, amount |-> amount],
                  SelectSeq(Belongings(w), LAMBDA i : w.kind[i] = k)).world

-----------------------------------------------------------------------------
(* The state machine. Every action is one task of the dispatcher.          *)

\* What an object is counted as: coins of every kind are money.
Good(k) == IF KindOf[k].worth > 0 THEN "money" ELSE k
Goods == {Good(k) : k \in Kinds}
Amount(k, n) == n * Greater(1, KindOf[k].worth)
AmountIn(w, set, g) ==
    MapThenSumSet(LAMBDA i : Amount(w.kind[i], w.cnt[i]), {i \in set : Good(w.kind[i]) = g})

\* The object and everything in it.
Within(w, i) == {j \in Live(w) : i \in Holders(w, j)}

Overfull(w, c) == IsContainer(w, c) /\ Len(w.inside[c]) > MaxSize(w, c)

Empty == [kind |-> [i \in Items |-> None], cnt |-> [i \in Items |-> 0],
          parent |-> [i \in Items |-> None], held |-> [i \in Items |-> 0],
          inside |-> [i \in Items |-> <<>>], slot |-> [s \in Slots |-> None],
          ground |-> <<>>, carried |-> 0]

\* The player is loaded item by item and then weighed.
Loaded(list) ==
    LET load(w, b) == AddThing(Created(w, b.item, b.kind, b.count), b.at, b.index, b.item)
    IN Notified(FoldLeft(load, Empty, list), Player)

Init ==
    /\ \E list \in Belonging : world = Loaded(list)
    /\ due = [g \in Goods |-> AmountIn(world, Live(world), g)]
    /\ burst = FALSE

Becomes(w) ==
    /\ world' = w
    /\ burst' = (burst \/ \E c \in Items : Overfull(world', c))

Indexes(cyl) == CASE cyl = Tile -> {0}
                  [] cyl = Player -> Slots \cup {WhereverSlot}
                  [] OTHER -> (0 .. MaxSize(world, cyl) - 1) \cup {MoveUp, AddWherever}

\* playerMoveItem: only the top item of the tile can be taken from it.
PlayerMoveItem(i, to, index, count) ==
    /\ world.parent[i] # None
    /\ world.parent[i] = Tile => i = Head(world.ground)
    /\ to = Tile => Len(world.ground) < TileLimit
    /\ Free(world) # {}
    /\ Stackable(world, i) \/ count = 1
    /\ Becomes(InternalMoveItem(world, world.parent[i], to, index, i, count))
    /\ UNCHANGED due

\* A script, a spell or an NPC gives the player a new item.
GiveItem(k, n) ==
    /\ Cardinality(Free(world)) >= 2
    /\ KindOf[k].stackable \/ n = 1
    /\ Becomes(InternalPlayerAddItem(world, k, n))
    /\ due' = [due EXCEPT ![Good(k)] = @ + Amount(k, n)]

\* A script removes some of an item, or an item is used up or decays to nothing.
TakeItem(i, n) ==
    /\ i \in Live(world) /\ n <= world.cnt[i]
    /\ Becomes(InternalRemoveItem(world, i, n))
    /\ due' = [g \in Goods |->
                 due[g] - (IF n = world.cnt[i] THEN AmountIn(world, Within(world, i), g)
                           ELSE IF g = Good(world.kind[i]) THEN Amount(world.kind[i], n) ELSE 0)]

\* internalDecayItem of an item that decays to another.
Decay(i) ==
    /\ i \in Live(world) /\ KindOf[world.kind[i]].decaysTo # None
    /\ Free(world) # {}
    /\ Becomes(TransformItem(world, i, KindOf[world.kind[i]].decaysTo))
    /\ due' = [g \in Goods |-> due[g] - AmountIn(world, Within(world, i), g)
                                      + AmountIn(world', Live(world') \cap
                                            (Within(world, i) \cup Free(world)), g)]

Pay(money) ==
    /\ Money(world) >= money
    /\ Cardinality(Free(world)) >= 2
    /\ Becomes(RemoveMoney(world, money))
    /\ due' = [due EXCEPT !["money"] = @ - money]

Earn(money) ==
    /\ Cardinality(Free(world)) >= 2
    /\ Becomes(AddMoney(world, money))
    /\ due' = [due EXCEPT !["money"] = @ + money]

TakeOfType(k, n) ==
    /\ KindOf[k].maxSize = 0
    /\ AmountOf(world, k) >= n
    /\ Becomes(RemoveItemOfType(world, k, n))
    /\ due' = [due EXCEPT ![Good(k)] = @ - Amount(k, n)]

Next ==
    \/ \E i \in Items, to \in {Player, Tile} \cup {c \in Items : IsContainer(world, c)} :
         \E index \in Indexes(to), n \in 1 .. MaxStack : PlayerMoveItem(i, to, index, n)
    \/ \E k \in Given, n \in 1 .. MaxStack : GiveItem(k, n)
    \/ \E i \in Items, n \in 1 .. MaxStack : TakeItem(i, n)
    \/ \E i \in Items : Decay(i)
    \/ \E money \in Sums : Pay(money) \/ Earn(money)
    \/ \E k \in Kinds, n \in 1 .. MaxStack : TakeOfType(k, n)

Spec == Init /\ [][Next]_vars

-----------------------------------------------------------------------------
(* Properties.                                                             *)

\* An item is in the one place its parent pointer names, once, and no container is in
\* itself however deep: the parent pointers and the lists of the cylinders, written by
\* different members, agree after every chain of calls.
OnePlace ==
    \A i \in Items :
        LET places == {<<c, n>> \in Items \X (1 .. Cardinality(Items)) :
                         n \in DOMAIN world.inside[c] /\ world.inside[c][n] = i}
            lying == {n \in DOMAIN world.ground : world.ground[n] = i}
            worn == {s \in Slots : world.slot[s] = i}
        IN IF i \notin Live(world) THEN places = {} /\ lying = {} /\ worn = {}
           ELSE /\ Cardinality(places) + Cardinality(lying) + Cardinality(worn) = 1
                /\ \A p \in places : world.parent[i] = p[1]
                /\ lying # {} => world.parent[i] = Tile
                /\ worn # {} => world.parent[i] = Player
                /\ world.parent[i] \in Items => i \notin Holders(world, world.parent[i])

\* The weight a container remembers is the weight of everything in it at any depth, and
\* the weight the player remembers that of all he carries, though no call recomputes
\* the one and only some calls the other.
BareWeight(i) == BaseWeight(world, i) * world.cnt[i]
WeightsExact ==
    /\ \A c \in Items : IsContainer(world, c) =>
         world.held[c] = MapThenSumSet(BareWeight, Within(world, c) \ {c})
    /\ world.carried = MapThenSumSet(BareWeight, {i \in Live(world) : OnPlayer(world, i)})

\* No call leaves the player with more than he may carry, however the load came to
\* him: in a container, merged into a stack, by an exchange or as change. Nor with
\* something two-handed and something else, two shields or two weapons in his hands,
\* whichever was put there first and by which call.
CarriesWhatHeMay ==
    /\ MapThenSumSet(BareWeight, {i \in Live(world) : OnPlayer(world, i)}) <= Capacity
    /\ LET hands == {i \in {world.slot[s] : s \in Slots \cap {LEFT, RIGHT}} : i # None}
           is(i) == KindOf[world.kind[i]]
       IN \A l, r \in hands : l # r =>
            /\ ~is(l).twoHanded
            /\ ~(is(l).weapon = "shield" /\ is(r).weapon = "shield")
            /\ {is(l).weapon, is(r).weapon} \cap {"none", "shield", "ammo"} # {}

\* The pointers, the lists and the cached weights of the items agree, and the player
\* holds no more than he may, after every chain of calls.
ItemsSound == OnePlace /\ WeightsExact /\ CarriesWhatHeMay

\* What the calls so far gave, took and paid is what there is, to the last coin, be it
\* split, merged, exchanged, changed or dropped: nothing is lost or made. It is not
\* so any more once a container was filled beyond its size (see the README).
Accounted == burst \/ \A g \in Goods : AmountIn(world, Live(world), g) = due[g]

\* The comment of internalAddItem: "Check if we can move add the whole amount". So
\* addMoney, which is told RETURNVALUE_NOERROR, has given the player or the ground
\* everything it was to give.
WholeAmountAdded ==
    ~burst /\ Cardinality(Free(world)) >= 2 =>
        \A money \in Sums :
            LET after == AddMoney(world, money)
            IN AmountIn(after, Live(after), "money")
                 = AmountIn(world, Live(world), "money") + money

=============================================================================
