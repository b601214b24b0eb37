----------------------------- MODULE ClientView -----------------------------
(***************************************************************************)
(* What one client shows (tile.cpp, map.cpp, protocolgame.cpp).  A thing   *)
(* on a tile has no name in the protocol: the server names it by its place *)
(* in the stack, as it believes the client sees it.  Every message is      *)
(* therefore right only as long as both count alike: the server counts the *)
(* things the player can see, in the order ground, top items, creatures    *)
(* from the newest, down items; the client has what it was told, and no    *)
(* more than Shown things of a tile.                                       *)
(*                                                                         *)
(* The map is a line of cells.  The client is external: what it does with  *)
(* a message is what the messages of the server imply.                     *)
(***************************************************************************)
EXTENDS Integers, Sequences, FiniteSets, SequencesExt

CONSTANTS
  Me, Other,       \* the player of the client, the other creatures
  Shade,           \* those of them that may become invisible
  GroundItem, TopItem, DownItem,  \* items by the part of the stack they lie in
  Cells,           \* how many there are in the line
  Stage,           \* bound: the cells with items
  ViewRange,       \* how far the client sees
  Shown,           \* things of a tile the client keeps: 10 in the code
  Crowd,           \* with more, a tile is sent again after a removal: 8 in the code
  Memory           \* creatures the client remembers: 150 in the code

Square == 1..Cells
Being == {Me} \cup Other
Item == GroundItem \cup TopItem \cup DownItem
Thing == Being \cup Item

ASSUME ViewAssumption ==
  /\ Shown \in Nat /\ Crowd \in Nat /\ Crowd < Shown
  /\ Cells \in Nat /\ ViewRange \in Nat /\ Memory \in Nat /\ Stage \subseteq Square
  /\ Me \notin Other /\ Shade \subseteq Other /\ Other \cap Item = {} /\ Me \notin Item
  /\ GroundItem \cap (TopItem \cup DownItem) = {} /\ TopItem \cap DownItem = {}

VARIABLES
  pile,      \* cell -> [ground, top, creatures, down]: lists, the newest first
  hidden,    \* invisible creatures
  client,    \* cell -> what the client shows
  known,     \* knownCreatureSet
  flooded,   \* the client was told to forget a creature it sees
  behind     \* cells the client shows wrongly: where a creature that became
             \* invisible made room for a thing the client was never told of,
             \* and where a creature comes from there

viewVars == <<pile, hidden, client, known, flooded, behind>>

\* What remains of a list without some things.
Stripped(list, out) == FoldLeft(LAMBDA rest, x : IF x \in out THEN rest ELSE Append(rest, x), <<>>, list)

Bare == [ground |-> <<>>, top |-> <<>>, creatures |-> <<>>, down |-> <<>>]
PartOf(x) ==
  IF x \in GroundItem THEN "ground" ELSE IF x \in TopItem THEN "top"
  ELSE IF x \in DownItem THEN "down" ELSE "creatures"

\* Tile::addThing: a new one lies before its like.  (creatures: last in the vector, which is
\* shown from its end.)
PutOn(t, x) == [t EXCEPT ![PartOf(x)] = <<x>> \o @]
TakenOff(t, x) == [k \in DOMAIN t |-> Stripped(t[k], {x})]

Things(t) == t.ground \o t.top \o t.creatures \o t.down
On(p, x) == {c \in Square : Contains(Things(p[c]), x)}
Cell(p, x) == CHOOSE c \in Square : Contains(Things(p[c]), x)

\* ProtocolGame::canSee
CanSee(p, cell) == cell - Cell(p, Me) \in -ViewRange..ViewRange

\* What the player can see of a tile, and how much of it the client has room for.
Visible(t, veiled) == Stripped(Things(t), veiled)
Cut(list) == IF Len(list) > Shown THEN SubSeq(list, 1, Shown) ELSE list
Description(t, veiled) == Cut(Visible(t, veiled))       \* GetTileDescription

PlaceOf(list, x) == SelectInSeq(list, LAMBDA y : y = x)

\* Tile::getClientIndexOfCreature: the place in the client's stack, from 1; a thing
\* the player cannot see is asked for before it disappears or after it appears.
ClientIndex(t, veiled, x) == PlaceOf(Visible(t, veiled \ {x}), x)

\* Tile::getStackposOfCreature and getStackposOfItem: -1 past the tenth.
Stackpos(t, veiled, x) ==
  LET n == ClientIndex(t, veiled, x) IN IF n > Shown THEN 0 ELSE n

(***************************************************************************)
(* The client; a view is [client, known, flooded, behind].                 *)
(***************************************************************************)
Put(list, n, x) == Cut(InsertAt(list, IF n > Len(list) + 1 THEN Len(list) + 1 ELSE n, x))
Drop(list, n) == IF n \in DOMAIN list THEN RemoveAt(list, n) ELSE list
Among(list) == 1 + Cardinality({k \in DOMAIN list : list[k] \in GroundItem \cup TopItem})

\* Those the client does not see.
Forgettable(p, veiled, v) ==
  {x \in v.known : On(p, x) = {} \/ x \in veiled \/ ~CanSee(p, Cell(p, x))}

\* ProtocolGame::checkCreatureAsKnown; first is where the iteration happens to begin.
Learn(p, veiled, v, c, first) ==
  LET full == Cardinality(v.known \cup {c}) > Memory
      away == Forgettable(p, veiled, [v EXCEPT !.known = @ \cup {c}])
      pool == IF away # {} THEN away ELSE v.known \ {c}
      lost == IF first \in pool THEN first ELSE CHOOSE x \in pool : TRUE
  IN IF c \in v.known THEN v
     ELSE IF ~full THEN [v EXCEPT !.known = @ \cup {c}]
     ELSE [v EXCEPT !.known = (@ \cup {c}) \ {lost}, !.flooded = @ \/ away = {}]

\* GetMapDescription, and the AddCreature of all it meets, tile by tile.  What it describes
\* is right again; what is out of sight is forgotten.
Shows(p, veiled, v, cells) ==
  [v EXCEPT !.client = [c \in Square |-> IF c \in cells THEN Description(p[c], veiled)
                                         ELSE IF CanSee(p, c) THEN @[c] ELSE <<>>],
            !.behind = {c \in @ \ cells : CanSee(p, c)}]
Meet(p, veiled, v, list, first) ==
  FoldLeft(LAMBDA u, x : IF x \in Being THEN Learn(p, veiled, u, x, first) ELSE u, v, list)
Describe(p, veiled, v, cells, first) ==
  FoldLeft(LAMBDA u, c : IF c \in cells THEN Meet(p, veiled, u, Description(p[c], veiled), first) ELSE u,
           Shows(p, veiled, v, cells), [c \in 1..Cells |-> c])
Sight(p) == {c \in Square : CanSee(p, c)}

\* sendAddCreature, sendRemoveTileThing; n = 0 where the code has -1
SendAdd(p, veiled, v, cell, n, c, first) ==
  IF n = 0 \/ ~CanSee(p, cell) THEN v ELSE [Learn(p, veiled, v, c, first) EXCEPT !.client[cell] = Put(@, n, c)]
SendRemove(p, v, cell, n) ==
  IF n = 0 \/ n > Shown \/ ~CanSee(p, cell) THEN v ELSE [v EXCEPT !.client[cell] = Drop(@, n)]
Carried(shown, from, n, to) ==
  [shown EXCEPT ![from] = Drop(shown[from], n), ![to] = Put(shown[to], Among(shown[to]), shown[from][n])]
\* the message that moves a creature: the client puts whatever it has in that place on top
\* of the other creatures
SendStep(v, from, n, to) ==
  [v EXCEPT !.client = IF n \in DOMAIN v.client[from] THEN Carried(v.client, from, n, to) ELSE v.client,
            !.behind = IF from \in v.behind THEN v.behind \cup {to} ELSE v.behind]

\* Mutant: a tile is sent again only when it still has more than the client keeps.
Crowded_Later(t) == Len(Things(t)) > Shown

\* Tile::postRemoveNotification
Crowded(t) == Len(Things(t)) > Crowd
Repaint(p, veiled, v, cell, first) ==
  IF Crowded(p[cell]) /\ CanSee(p, cell) THEN Describe(p, veiled, v, {cell}, first) ELSE v

\* ProtocolGame::sendMoveCreature
SendMove(p, veiled, v, c, from, to, old, new, teleport, first) ==
  CASE c = Me /\ (old > Shown \/ teleport) -> Describe(p, veiled, v, Sight(p), first)
    [] c = Me /\ ~(old > Shown \/ teleport) ->
         Describe(p, veiled, SendStep(v, from, old, to), {x \in Sight(p) : x - from \notin -ViewRange..ViewRange}, first)
    [] c # Me /\ CanSee(p, from) /\ CanSee(p, to) /\ ~(old > Shown \/ teleport) -> SendStep(v, from, old, to)
    [] c # Me /\ ~(CanSee(p, from) /\ CanSee(p, to) /\ ~(old > Shown \/ teleport)) ->
         SendAdd(p, veiled, SendRemove(p, v, from, old), to, new, c, first)

(***************************************************************************)
(* The tiles.                                                              *)
(***************************************************************************)
ViewInit ==
  \E cell \in Square :
    /\ pile = [c \in Square |-> IF c = cell THEN [Bare EXCEPT !.creatures = <<Me>>] ELSE Bare]
    /\ client = [c \in Square |-> IF c = cell THEN <<Me>> ELSE <<>>]
    /\ hidden = {} /\ known = {Me} /\ flooded = FALSE /\ behind = {}

View == [client |-> client, known |-> known, flooded |-> flooded, behind |-> behind]
Show(p, v) ==
  /\ pile' = p /\ client' = v.client /\ known' = v.known /\ flooded' = v.flooded /\ behind' = v.behind

\* Tile::addThing of an item
AddItem(i, cell) ==
  /\ On(pile, i) = {}
  /\ i \in GroundItem => pile[cell].ground = <<>>
  /\ LET p == [pile EXCEPT ![cell] = PutOn(@, i)]
         n == Stackpos(p[cell], hidden, i)
     IN Show(p, IF n = 0 \/ ~CanSee(p, cell) THEN View ELSE [View EXCEPT !.client[cell] = Put(@, n, i)])
  /\ UNCHANGED hidden

\* Tile::updateThing and replaceThing: the thing in that place is sent anew.
UpdateItem(i) ==
  /\ On(pile, i) # {}
  /\ LET cell == Cell(pile, i)
         n == Stackpos(pile[cell], hidden, i)
     IN Show(pile, IF n \notin DOMAIN client[cell] \/ ~CanSee(pile, cell) THEN View
                   ELSE [View EXCEPT !.client[cell][n] = i])
  /\ UNCHANGED hidden

\* Tile::removeThing, Game::removeCreature
RemoveThing(x) ==
  /\ x # Me /\ On(pile, x) # {}
  /\ LET cell == Cell(pile, x)
         n == IF x \in hidden THEN 0 ELSE Stackpos(pile[cell], hidden, x)
         p == [pile EXCEPT ![cell] = TakenOff(@, x)]
     IN \E first \in Being : Show(p, Repaint(p, hidden, SendRemove(p, View, cell, n), cell, first))
  /\ hidden' = hidden \ {x}

\* Game::placeCreature
PlaceCreature(c, cell) ==
  /\ On(pile, c) = {}
  /\ LET p == [pile EXCEPT ![cell] = PutOn(@, c)]
     IN \E first \in Being : Show(p, SendAdd(p, hidden, View, cell, Stackpos(p[cell], hidden, c), c, first))
  /\ UNCHANGED hidden

\* Map::moveCreature: the old place is looked up before the creature is taken out
\* of its tile, the new one once it is on the other.
MoveCreature(c, to, teleport) ==
  /\ On(pile, c) \notin {{}, {to}}
  /\ LET from == Cell(pile, c)
         old == ClientIndex(pile[from], hidden, c)
         p == [pile EXCEPT ![from] = TakenOff(@, c), ![to] = PutOn(@, c)]
         new == Stackpos(p[to], hidden, c)
         far == teleport \/ from - to \notin {-1, 1} \/ p[to].ground = <<>>
     IN \E first \in Being :
          LET moved == IF c \in hidden THEN View ELSE SendMove(p, hidden, View, c, from, to, old, new, far, first)
          IN Show(p, Repaint(p, hidden, moved, from, first))
  /\ UNCHANGED hidden

\* Player::sendCreatureChangeVisible, before the one and after the other change
ChangeVisible(c) ==
  /\ On(pile, c) # {}
  /\ LET cell == Cell(pile, c)
         n == Stackpos(pile[cell], hidden, c)
         hides == c \notin hidden
         veiled == IF hides THEN hidden \cup {c} ELSE hidden \ {c}
         short == hides /\ CanSee(pile, cell) /\ Len(Visible(pile[cell], veiled)) >= Shown /\ n # 0
     IN /\ hidden' = veiled
        /\ \E first \in Being :
             LET v == IF hides THEN SendRemove(pile, View, cell, n) ELSE SendAdd(pile, veiled, View, cell, n, c, first)
             IN Show(pile, IF short THEN [v EXCEPT !.behind = @ \cup {cell}] ELSE v)

ViewNext ==
  \/ \E i \in Item : UpdateItem(i) \/ \E cell \in Stage : AddItem(i, cell)
  \/ \E x \in Item \cup Other : RemoveThing(x)
  \/ \E c \in Other, cell \in Square : PlaceCreature(c, cell)
  \/ \E c \in Being, cell \in Square, teleport \in BOOLEAN : MoveCreature(c, cell, teleport)
  \/ \E c \in Shade : ChangeVisible(c)

ViewSpec == ViewInit /\ [][ViewNext]_viewVars

-----------------------------------------------------------------------------
(* The client shows of every tile in its sight what the player can see of  *)
(* it, in the order of the server, so that a place in the stack names the  *)
(* same thing for both; a tile where a creature became invisible while     *)
(* there was more than the client keeps is wrong until it is sent again    *)
(* (tile.cpp postRemoveNotification, map.cpp moveCreature, player.h        *)
(* sendCreatureChangeVisible, which alone does not send it again).  And it *)
(* has not been told to forget a creature it shows, unless they are more   *)
(* than it can remember (protocolgame.cpp checkCreatureAsKnown).           *)
ClientInStep ==
  /\ \A c \in Square \ behind : CanSee(pile, c) => client[c] = Description(pile[c], hidden)
  /\ flooded \/ \A c \in Square \ behind : \A x \in Being : Contains(client[c], x) => x \in known
=============================================================================
