-------------------------------- MODULE Trade --------------------------------
(***************************************************************************)
(* Trading items (game.cpp, playerRequestTrade to internalCloseTrade) among *)
(* everything that can disturb a trade: items that are moved, picked up,   *)
(* dropped or destroyed by anyone, players that walk away or log out.      *)
(*                                                                         *)
(* Every action is one task of the dispatcher. A position is a number; a   *)
(* cylinder is a player's inventory, a bag or the ground at a position. An *)
(* item that lies in a cylinder is moved as a whole. `tr` holds what the   *)
(* calls nested in a handler change: the trade members of Player and       *)
(* Game::tradeItems.                                                       *)
(***************************************************************************)
EXTENDS Integers, FiniteSets

CONSTANTS
  Traders,
  Items,
  Bags,       \* the items that are containers
  Positions,  \* a line of tiles
  Slots,      \* places of an inventory
  Capacity,   \* places of a bag
  DeepQuery,  \* config QUERY_PLAYER_CONTAINERS
  Nobody        \* nullptr

ASSUME TradeAssumption ==
  /\ Bags \subseteq Items /\ IsFiniteSet(Items) /\ Positions \subseteq Int
  /\ Items \cap (Traders \cup Positions) = {} /\ Traders \cap Positions = {}
  /\ Nobody \notin Items \cup Traders \cup Positions
  /\ Slots \in Nat /\ Capacity \in Nat /\ DeepQuery \in BOOLEAN

VARIABLES
  inGame,
  at,      \* where a player stands
  parent,  \* Item::parent, Nobody once the item is removed
  refs,    \* Item::referenceCounter
  tr       \* see NoTrade

tradeVars == <<inGame, at, parent, refs, tr>>

\* tradestate_t; TRADE_TRANSFER lasts only inside playerAcceptTrade.
States == {"none", "initiated", "accept", "acknowledge"}

NoTrade ==
  [state   |-> [p \in Traders |-> "none"],  \* tradeState
   partner |-> [p \in Traders |-> Nobody],    \* tradePartner
   item    |-> [p \in Traders |-> Nobody],    \* tradeItem
   owner   |-> [i \in Items |-> Nobody]]      \* Game::tradeItems

-----------------------------------------------------------------------------
(* Cylinders                                                               *)

\* The bags that an item is in, as the loops over getParent find them: the least set
\* with its own bag, and with the bag of each of them.
BagsOf(par, i) ==
  {b \in Bags : \A S \in SUBSET Bags :
                  (\A c \in S \cup {i} : par[c] \in Bags => par[c] \in S) => b \in S}

\* Every cylinder an item is in, its parent's parents included.
Above(par, i) == {par[c] : c \in BagsOf(par, i) \cup {i}}

\* Thing::getPosition of an item or a cylinder.
Where(par, c) ==
  IF c \in Traders THEN at[c]
  ELSE IF c \in Positions THEN c
  ELSE LET top == Above(par, c)
       IN CHOOSE n \in Positions : n \in top \/ \E p \in top \cap Traders : at[p] = n

Near(m, n, d) == m - n \in -d..d

Room(par, c) ==
  Cardinality({i \in Items : par[i] = c}) < (IF c \in Traders THEN Slots ELSE Capacity)

\* Player::queryDestination of INDEX_WHEREEVER: an empty slot, else a bag with
\* room, the least deep first, but none in an offered bag worn by the player.
Destinations(par, p, i) ==
  LET open == {b \in Bags \ {i} :
                 /\ p \in Above(par, b) /\ i \notin Above(par, b) /\ Room(par, b)
                 /\ DeepQuery \/ par[b] = p
                 /\ \A c \in (Above(par, b) \cup {b}) \cap Bags : par[c] = p => c # tr.item[p]}
  IN IF Room(par, p) THEN {p}
     ELSE {b \in open : \A c \in open : Cardinality(Above(par, b)) <= Cardinality(Above(par, c))}

-----------------------------------------------------------------------------
(* Closing a trade                                                         *)

CloseTrades(t, S) ==
  LET both == S \cup {q \in Traders : \E p \in S : t.partner[p] = q}
  IN [state   |-> [p \in Traders |-> IF p \in both THEN "none" ELSE t.state[p]],
      partner |-> [p \in Traders |-> IF p \in both THEN Nobody ELSE t.partner[p]],
      item    |-> [p \in Traders |-> IF p \in both THEN Nobody ELSE t.item[p]],
      owner   |-> [i \in Items |-> IF \E p \in both : t.item[p] = i THEN Nobody ELSE t.owner[i]]]

\* The references that the entries of tradeItems hold and that t gives back, by
\* ReleaseItem and the Game::cleanup that ends the dispatcher's round.
Released(r, t) ==
  [i \in Items |-> IF tr.owner[i] # Nobody /\ t.owner[i] = Nobody THEN r[i] - 1 ELSE r[i]]

Spectators(par, c) == {p \in inGame : Near(at[p], Where(par, c), 2)}

Checks(par, p, i) == tr.item[p] # Nobody /\ (tr.item[p] = i \/ tr.item[p] \in Above(par, i))

\* Who closes its trade when item i is taken from where it is: onRemoveTileItem,
\* onRemoveInventoryItem, onRemoveContainerItem.
RemovalCloses(par, i) ==
  IF par[i] \in Bags
  THEN {p \in Spectators(par, par[i]) :
          \/ Checks(par, p, i)
          \/ /\ tr.item[p] # Nobody /\ par[tr.item[p]] # par[i]
             /\ par[i] \in Above(par, tr.item[p])}
  ELSE {p \in (IF par[i] \in Traders THEN inGame \cap {par[i]} ELSE inGame) :
          tr.item[p] # Nobody /\ (tr.item[p] = i \/ i \in Above(par, tr.item[p]))}

\* Who closes its trade when item i has come where it is: onAddContainerItem.
AdditionCloses(par, i) ==
  IF par[i] \in Bags THEN {p \in Spectators(par, par[i]) : Checks(par, p, i)} ELSE {}

-----------------------------------------------------------------------------
(* Handlers                                                                *)

TradeInit ==
  /\ inGame = Traders /\ at \in [Traders -> Positions]
  /\ parent \in {f \in [Items -> Traders \cup Positions] :
                  \A p \in Traders : Cardinality({i \in Items : f[i] = p}) <= Slots}
  /\ refs = [i \in Items |-> 1] /\ tr = NoTrade

\* Game::internalGetThing, for a player next to it: what it carries, what lies on
\* the ground, or what is in a bag it may have open.
Reaches(p, i) ==
  parent[i] # Nobody /\ \A q \in Traders \cap Above(parent, i) : q = p

AtHand(p, i) == Reaches(p, i) /\ Near(at[p], Where(parent, i), 1)

\* The item is offered, is in an offer or holds one.
Offered(i) ==
  \E j \in Items : tr.owner[j] # Nobody /\ (i = j \/ i \in Above(parent, j) \/ j \in Above(parent, i))

\* Game::internalStartTrade
MayStart(p, q) ==
  /\ tr.state[p] = "none" \/ (tr.state[p] = "acknowledge" /\ tr.partner[p] = q)
  /\ tr.state[q] = "none" \/ tr.partner[q] = p

StartTrade(p, q, i) ==
  /\ MayStart(p, q)
  /\ tr' = [tr EXCEPT !.item[p] = i, !.owner[i] = p,
                      !.state[p] = "initiated", !.partner[p] = q,
                      !.state[q] = IF @ = "none" THEN "acknowledge" ELSE @,
                      !.partner[q] = IF tr.state[q] = "none" THEN p ELSE @]
  /\ refs' = [refs EXCEPT ![i] = @ + 1]

\* Game::playerRequestTrade
RequestTrade(p, q, i) ==
  /\ {p, q} \subseteq inGame /\ p # q /\ Near(at[p], at[q], 2)
  /\ AtHand(p, i) /\ ~Offered(i)
  /\ StartTrade(p, q, i)
  /\ UNCHANGED <<inGame, at, parent>>

\* Game::playerCloseTrade, and the trade part of Player::onRemoveCreature.
Close(S) == tr' = CloseTrades(tr, S) /\ refs' = Released(refs, tr')

CloseTrade(p) ==
  /\ p \in inGame /\ Close({p})
  /\ UNCHANGED <<inGame, at, parent>>

TraderLogout(p) ==
  /\ p \in inGame /\ inGame' = inGame \ {p}
  /\ Close(IF tr.partner[p] # Nobody THEN {p} ELSE {})
  /\ UNCHANGED <<at, parent>>

TraderLogin(p) ==
  /\ p \notin inGame /\ inGame' = inGame \cup {p} /\ at' \in [Traders -> Positions]
  /\ \A q \in Traders \ {p} : at'[q] = at[q]
  /\ UNCHANGED <<parent, refs, tr>>

\* The first accept waits for the other.
AcceptFirst(p) ==
  /\ p \in inGame /\ tr.state[p] \in {"acknowledge", "initiated"}
  /\ tr.state[tr.partner[p]] # "accept"
  /\ tr' = [tr EXCEPT !.state[p] = "accept"]
  /\ UNCHANGED <<inGame, at, parent, refs>>

\* Game::playerAcceptTrade, when the other has accepted: the trade ends, whatever
\* becomes of the items. An item that is not there, not movable or too heavy, or
\* for which there is no room, stops it before anything is moved.
AcceptWith(p, par) ==
  LET q == tr.partner[p]
      third == (IF par = parent THEN {}
                ELSE UNION {RemovalCloses(parent, tr.item[r]) \cup AdditionCloses(par, tr.item[r]) :
                              r \in {p, q}}) \ {p, q}
  IN /\ parent' = par
     /\ tr' = CloseTrades(tr, {p} \cup third) /\ refs' = Released(refs, tr')
     /\ UNCHANGED <<inGame, at>>

\* internalMoveItem is given the other offer, into which nothing may be moved.
\* Mutant: it is not.
KeepsOut_Nothing(par, c, offer) == TRUE
KeepsOut(par, c, offer) == c # offer /\ (c \in Bags => offer \notin Above(par, c))

\* The first item is moved, then the second; the result of that is not looked at.
Exchanged(p) ==
  LET q == tr.partner[p]
      i == tr.item[p]
      j == tr.item[q]
      first == {[parent EXCEPT ![i] = c] :
                  c \in {d \in Destinations(parent, q, i) : KeepsOut(parent, d, j)}}
  IN IF i = Nobody \/ j = Nobody \/ Destinations(parent, p, j) = {} THEN {}
     ELSE UNION {LET to == Destinations(par, p, j)
                 IN IF to = {} THEN {par} ELSE {[par EXCEPT ![j] = c] : c \in to} : par \in first}

AcceptSecond(p) ==
  /\ p \in inGame /\ tr.state[p] \in {"acknowledge", "initiated"}
  /\ tr.state[tr.partner[p]] = "accept"
  /\ \E par \in Exchanged(p) \cup {parent} : AcceptWith(p, par)

\* Game::internalMoveItem of a whole item: a player's playerMoveItem, or a script.
MoveItem(p, i, c) ==
  /\ p \in inGame /\ AtHand(p, i)
  /\ \/ c \in Positions
     \/ c \in Bags \ {i} /\ AtHand(p, c) /\ i \notin Above(parent, c) /\ Room(parent, c)
     \/ c = p /\ Room(parent, p)
  /\ parent' = [parent EXCEPT ![i] = c]
  /\ Close(RemovalCloses(parent, i) \cup AdditionCloses(parent', i))
  /\ UNCHANGED <<inGame, at>>

\* Game::internalRemoveItem of a whole item that is used up or decays. A bag goes
\* with what is in it, whose parent ~Container resets.
RemoveItem(i) ==
  LET gone == {j \in Items : j = i \/ i \in Above(parent, j)}
  IN /\ parent[i] # Nobody
     /\ parent' = [j \in Items |-> IF j \in gone THEN Nobody ELSE parent[j]]
     /\ tr' = CloseTrades(tr, RemovalCloses(parent, i))
     /\ refs' = Released([j \in Items |-> IF j \in gone THEN refs[j] - 1 ELSE refs[j]], tr')
     /\ UNCHANGED <<inGame, at>>

\* Player::onCreatureMove of a step or a teleport. Mutant: only the partner counts.
MoveCloses_Partner(p, there) ==
  tr.partner[p] # Nobody /\ ~Near(there[p], there[tr.partner[p]], 2)
MoveCloses(p, there) ==
  \/ /\ tr.item[p] # Nobody
     /\ p \notin Above(parent, tr.item[p]) /\ ~Near(there[p], Where(parent, tr.item[p]), 1)
  \/ tr.partner[p] # Nobody /\ ~Near(there[p], there[tr.partner[p]], 2)

Walk(p) ==
  /\ p \in inGame
  /\ \E n \in Positions \ {at[p]} : at' = [at EXCEPT ![p] = n]
  /\ Close(IF MoveCloses(p, at') THEN {p} ELSE {})
  /\ UNCHANGED <<inGame, parent>>

TradeNext ==
  \/ \E p \in Traders :
       \/ CloseTrade(p) \/ TraderLogout(p) \/ TraderLogin(p) \/ AcceptFirst(p) \/ AcceptSecond(p) \/ Walk(p)
       \/ \E q \in Traders, i \in Items : RequestTrade(p, q, i)
       \/ \E i \in Items, c \in Bags \cup Positions \cup {p} : MoveItem(p, i, c)
  \/ \E i \in Items : RemoveItem(i)

TradeSpec == TradeInit /\ [][TradeNext]_tradeVars

-----------------------------------------------------------------------------
(* Properties                                                              *)

\* Types. An item has at most the references of its cylinder and of one offer.
TradeTypes ==
  /\ inGame \subseteq Traders /\ at \in [Traders -> Positions]
  /\ parent \in [Items -> Traders \cup Bags \cup Positions \cup {Nobody}]
  /\ refs \in [Items -> 0..2]
  /\ tr \in [state : [Traders -> States], partner : [Traders -> Traders \cup {Nobody}],
             item : [Traders -> Items \cup {Nobody}], owner : [Items -> Traders \cup {Nobody}]]

\* Two players trade with each other or not at all, and one of them has offered
\* something: no player is left waiting for one that knows of no trade.
Paired ==
  \A p \in Traders :
    /\ tr.state[p] = "none" <=> tr.partner[p] = Nobody
    /\ tr.item[p] # Nobody => tr.state[p] \in {"initiated", "accept"}
    /\ tr.state[p] # "none" =>
         LET q == tr.partner[p]
         IN /\ q \in inGame /\ p \in inGame /\ tr.partner[q] = p
            /\ tr.item[p] # Nobody \/ tr.item[q] # Nobody

\* Game::tradeItems lists exactly the items on offer, each for one player and with
\* the reference it holds, so an offer is never freed, nor kept after its trade. No
\* offer is part of another: an item is promised once.
OffersHeld ==
  /\ \A i \in Items :
       /\ \A p \in Traders : tr.owner[i] = p <=> tr.item[p] = i
       /\ refs[i] = (IF parent[i] # Nobody THEN 1 ELSE 0) + (IF tr.owner[i] # Nobody THEN 1 ELSE 0)
  /\ \A p, q \in Traders : p # q /\ tr.item[p] # Nobody /\ tr.item[q] # Nobody =>
       tr.item[p] # tr.item[q] /\ tr.item[p] \notin Above(parent, tr.item[q])

\* While a trade is open the offer is with the player or next to it, and the
\* players are near each other.
InReach ==
  \A p \in Traders :
    /\ tr.item[p] # Nobody => parent[tr.item[p]] # Nobody /\ Near(at[p], Where(parent, tr.item[p]), 1)
    /\ tr.partner[p] # Nobody => Near(at[p], at[tr.partner[p]], 2)

\* Both sides of a trade know of each other, what is offered is held for it and for
\* nothing else, and players and offers are in reach: whatever happens to an offer
\* or to a player meanwhile closes the trade.
TradesSound == Paired /\ OffersHeld /\ InReach

\* As long as an offer stands it stays where it was, with all that was in it and
\* nothing more: the other player gets what it was shown. And a trade gives both
\* players the other's item, or neither.
TradesFair ==
  [][/\ \A p \in Traders : tr.item[p] # Nobody /\ tr'.item[p] = tr.item[p] =>
          \A i \in Items :
            i = tr.item[p] \/ tr.item[p] \in Above(parent, i) \cup Above(parent', i) =>
              parent'[i] = parent[i]
     /\ \A p, q \in Traders : AcceptSecond(p) /\ tr.partner[p] = q /\ parent' # parent =>
          /\ q \in Above(parent', tr.item[p]) /\ p \in Above(parent', tr.item[q])
          /\ tr.state[q] = "accept"]_tradeVars
=============================================================================
