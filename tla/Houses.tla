------------------------------- MODULE Houses -------------------------------
(***************************************************************************)
(* Houses: who owns them, who may enter, who sleeps in their beds and where  *)
(* the goods on their floors go (house.cpp, housetile.cpp, bed.cpp and the    *)
(* house commands).                                                          *)
(*                                                                         *)
(* One state of the world is a record W = [house, player]; an operation that  *)
(* the code calls from several places is an operator from W to W, so that     *)
(* setOwner inside payHouses inside a start of the server is one step, as it  *)
(* is in the dispatcher's thread.                                            *)
(***************************************************************************)
EXTENDS Integers, SequencesExt

CONSTANTS
  House, Resident,     \* houses; characters, named by their GUID
  Nobody,              \* GUID 0: no owner, no sleeper
  Editor,              \* characters with PlayerFlag_CanEditHouses
  Premium,             \* characters of premium accounts
  Lost,                \* characters that loadPlayer refuses: their group does not exist
  Text,                \* access lists a player may write: sequences of lines
  GuildMates,         \* the members of a guild
  WarningLimit         \* letters before the house is lost: 7 in the code

VARIABLES
  house,               \* [owner, guest, subowner, warnings, goods, offered, bed]
  resident             \* [online, at, edits, kicked, sleepsIn]
houseVars == <<house, resident>>

Street == "street"
Floor == "floor"       \* where a house's goods are: on its floor or in a depot
Side == {1, 2}         \* a bed is two items, each the other's partner
NoBed == <<>>
Lists == {"guest", "subowner"}

ASSUME HousesAssumption ==
  /\ Street \notin House /\ Nobody \notin Resident /\ Floor \notin Resident \cup {Nobody}
  /\ Lost \subseteq Resident

NewHouse == [owner |-> Nobody, guest |-> <<>>, subowner |-> <<>>, warnings |-> 0,
             goods |-> Nobody, offered |-> Nobody, bed |-> [i \in Side |-> Nobody]]

NewResident == [online |-> FALSE, at |-> Street, edits |-> Nobody, kicked |-> FALSE, sleepsIn |-> NoBed]

HousesInit ==
  /\ house = [h \in House |-> NewHouse]
  /\ resident = [p \in Resident |-> NewResident]

World == [house |-> house, resident |-> resident]
HousesBecome(W) == house' = W.house /\ resident' = W.resident

(***************************************************************************)
(* Access lists.  A line names a player, a guild or an expression; an         *)
(* expression matches some names and grants or, after a '!', refuses.  The    *)
(* refusing ones go to the front of the list and the granting ones to its     *)
(* end; the first that matches decides.                                      *)
(***************************************************************************)
AddExpression(rules, line) == IF line.allow THEN Append(rules, line) ELSE <<line>> \o rules

ParseList(text) ==
  FoldLeft(LAMBDA list, line :
             CASE line.kind = "player" -> [list EXCEPT !.names = @ \cup {line.who}]
               [] line.kind = "guild"  -> [list EXCEPT !.guilds = @ \cup {line.who}]
               [] OTHER                -> [list EXCEPT !.rules = AddExpression(@, line)],
           [names |-> {}, guilds |-> {}, rules |-> <<>>], text)

InParsed(list, p) ==
  LET match == {i \in DOMAIN list.rules : p \in list.rules[i].who}
  IN  IF match # {} THEN list.rules[CHOOSE i \in match : \A j \in match : i <= j].allow
      ELSE p \in list.names \/ \E g \in list.guilds : p \in GuildMates[g]

IsInList(text, p) == InParsed(ParseList(text), p)

NotInvited == 0
Guest == 1
SubOwner == 2
Owner == 3
Level(hs, p) ==
  IF p \in Editor \/ p = hs.owner THEN Owner
  ELSE IF IsInList(hs.subowner, p) THEN SubOwner
  ELSE IF IsInList(hs.guest, p) THEN Guest
  ELSE NotInvited

IsInvited(hs, p) == Level(hs, p) # NotInvited
CanEdit(hs, p, list) == Level(hs, p) = Owner \/ (Level(hs, p) = SubOwner /\ list = "guest")

(***************************************************************************)
(* What the operations do to the world.                                     *)
(***************************************************************************)
\* kickPlayer(nullptr, target): everyone but an editor is sent to the entry
KickOut(W, h, who) ==
  [W EXCEPT !.resident = [p \in Resident |->
     IF p \in who /\ @[p].online /\ @[p].at = h /\ p \notin Editor
     THEN [@[p] EXCEPT !.at = Street] ELSE @[p]]]

KickUninvited(W, h) == KickOut(W, h, {p \in Resident : ~IsInvited(W.house[h], p)})

SetAccessList(W, h, list, text) ==
  LET set == [W EXCEPT !.house[h] = [@ EXCEPT ![list] = text]]
  IN  KickUninvited(set, h)

\* Mutant: the partner of the bed keeps its sleeper
WakeUp_OneHalf(W, h, i) ==
  LET p == W.house[h].bed[i]
      freed == [W EXCEPT !.house[h].bed[i] = Nobody]
  IN  IF p = Nobody THEN freed ELSE [freed EXCEPT !.resident[p].sleepsIn = NoBed]

\* wakeUp: both halves of the bed are freed and the sleeper leaves the map of sleepers
WakeUp(W, h, i) ==
  LET p == W.house[h].bed[i]
      freed == [W EXCEPT !.house[h].bed = [j \in Side |-> Nobody]]
  IN  IF p = Nobody THEN freed ELSE [freed EXCEPT !.resident[p].sleepsIn = NoBed]

\* return false: there is no depot of an owner who cannot be loaded
TransferToDepot(W, h) ==
  LET o == W.house[h].owner
  IN  IF o \in Lost \cup {Nobody} \/ W.house[h].goods # Floor THEN W ELSE [W EXCEPT !.house[h].goods = o]

WakeAll(W, h) ==
  IF W.house[h].bed[1] # Nobody THEN WakeUp(W, h, 1)
  ELSE IF W.house[h].bed[2] # Nobody THEN WakeUp(W, h, 2) ELSE W

\* Mutant: the owner is reset before his goods are sent after him
Vacate_OwnerFirst(W, h) ==
  LET moved == WakeAll(KickOut(TransferToDepot([W EXCEPT !.house[h].owner = Nobody], h), h, Resident), h)
      bare  == SetAccessList(SetAccessList(moved, h, "subowner", <<>>), h, "guest", <<>>)
  IN  [bare EXCEPT !.house[h].warnings = 0]

Vacate(W, h) ==
  LET moved == WakeAll(KickOut(TransferToDepot(W, h), h, Resident), h)
      empty == [moved EXCEPT !.house[h].owner = Nobody]
      bare  == SetAccessList(SetAccessList(empty, h, "subowner", <<>>), h, "guest", <<>>)
  IN  [bare EXCEPT !.house[h].warnings = 0]

SetOwner(W, h, guid) ==
  IF W.house[h].owner = guid THEN W
  ELSE LET vacant == IF W.house[h].owner = Nobody THEN W ELSE Vacate(W, h)
       IN  [vacant EXCEPT !.house[h].owner = guid]

\* the houses in unpaid are due and the rent is not in their owner's depot, or
\* he cannot be loaded; a payment only moves the date it is next due
PayHouse(W, h, unpaid) ==
  IF W.house[h].owner = Nobody \/ h \notin unpaid THEN W
  ELSE IF W.house[h].owner \notin Lost /\ W.house[h].warnings < WarningLimit
  THEN [W EXCEPT !.house[h].warnings = @ + 1]
  ELSE SetOwner(W, h, Nobody)

\* One house after another, with everybody offline: each is about that house and who
\* sleeps in it only.
PayHouses(W, unpaid) ==
  LET bed(p) == W.resident[p].sleepsIn
  IN  [house |-> [h \in House |-> PayHouse(W, h, unpaid).house[h]],
       resident |-> [p \in Resident |->
          IF bed(p) = NoBed THEN W.resident[p] ELSE PayHouse(W, bed(p)[1], unpaid).resident[p]]]

(***************************************************************************)
(* Players.                                                                *)
(***************************************************************************)
\* Map::placeCreature and HouseTile::queryDestination: who is not invited any
\* more comes in at the entry; onCreatureAppear then wakes him
ResidentLogin(p) ==
  LET r == resident[p]
      at == IF r.at \in House /\ ~IsInvited(house[r.at], p) THEN Street ELSE r.at
      in == [World EXCEPT !.resident[p] = [@ EXCEPT !.online = TRUE, !.kicked = FALSE, !.at = at]]
  IN  /\ ~r.online /\ p \notin Lost
      /\ HousesBecome(IF r.sleepsIn = NoBed THEN in ELSE WakeUp(in, r.sleepsIn[1], r.sleepsIn[2]))

\* a logout cancels the trade and so the offer of the house
Gone(W, p) ==
  LET offers(hs) == hs.offered # Nobody /\ p \in {hs.owner, hs.offered}
  IN  [house |-> [h \in House |-> IF offers(W.house[h]) THEN [W.house[h] EXCEPT !.offered = Nobody] ELSE W.house[h]],
       resident |-> [W.resident EXCEPT ![p] = [@ EXCEPT !.online = FALSE, !.kicked = FALSE, !.edits = Nobody]]]

ResidentLogout(p) == resident[p].online /\ HousesBecome(Gone(World, p))

\* HouseTile::queryAdd
Enter(p, h) ==
  /\ resident[p].online /\ resident[p].at = Street
  /\ IsInvited(house[h], p)
  /\ resident' = [resident EXCEPT ![p].at = h]
  /\ UNCHANGED house

LeaveHouse(p) ==
  /\ resident[p].online /\ resident[p].at \in House
  /\ resident' = [resident EXCEPT ![p].at = Street]
  /\ UNCHANGED house

\* whoever is invited may drop goods on the floor; they stay with the house
DropGoods(p, h) ==
  /\ resident[p].online /\ IsInvited(house[h], p) /\ house[h].goods # Floor
  /\ house' = [house EXCEPT ![h].goods = Floor]
  /\ UNCHANGED resident

\* House::kickPlayer by a spell of someone of at least the target's level
Kick(p, target, h) ==
  /\ resident[p].online /\ resident[target].online /\ resident[target].at = h
  /\ Level(house[h], p) >= Level(house[h], target)
  /\ target \notin Editor
  /\ resident' = [resident EXCEPT ![target].at = Street]
  /\ UNCHANGED house

\* the window in which a list is edited: opened by a spell, answered later
OpenHouseWindow(p, h, list) ==
  /\ resident[p].online /\ resident[p].at = h /\ CanEdit(house[h], p, list)
  /\ resident' = [resident EXCEPT ![p].edits = <<h, list>>]
  /\ UNCHANGED house

UpdateHouseWindow(p, text) ==
  LET w == resident[p].edits
      done == [World EXCEPT !.resident[p].edits = Nobody]
  IN  /\ resident[p].online /\ w # Nobody
      /\ HousesBecome(IF CanEdit(house[w[1]], p, w[2]) THEN SetAccessList(done, w[1], w[2], text) ELSE done)

(***************************************************************************)
(* Beds.  canUse looks at the account and at who sleeps there, and not at     *)
(* whether the player is invited: a bed is used from the next square.        *)
(***************************************************************************)
CanUseBed(p, h, i) ==
  LET s == house[h].bed[i]
  IN  /\ p \in Premium
      /\ s # Nobody => Level(house[h], p) = Owner \/ Level(house[h], s) <= Level(house[h], p)

\* whoever lies down is kicked SCHEDULER_MINTICKS (50 ms) later: before his next
\* walk or use, which wait longer than that
Sleep(p, h, i) ==
  /\ resident[p].online /\ ~resident[p].kicked
  /\ CanUseBed(p, h, i)
  /\ house[h].bed[i] = Nobody
  /\ house' = [house EXCEPT ![h].bed = [j \in Side |-> p]]
  /\ resident' = [resident EXCEPT ![p] = [@ EXCEPT !.sleepsIn = <<h, i>>, !.at = h, !.kicked = TRUE]]

\* trySleep on a bed that is taken: the owner wakes whoever lies there
WakeSleeper(p, h, i) ==
  /\ resident[p].online /\ CanUseBed(p, h, i)
  /\ house[h].bed[i] # Nobody /\ house[h].owner = p
  /\ HousesBecome(WakeUp(World, h, i))

\* the task that sleep scheduled: SCHEDULER_MINTICKS later the sleeper is logged out
KickSleeper(p) == resident[p].online /\ resident[p].kicked /\ HousesBecome(Gone(World, p))

(***************************************************************************)
(* Owners: scripts, the trade of a house, the start of the server.           *)
(***************************************************************************)
SetOwnerGuid(h, guid) == HousesBecome(SetOwner(World, h, guid))

SellHouse(p, partner, h) ==
  /\ resident[p].online /\ resident[partner].online /\ partner # p
  /\ partner \in Premium
  /\ resident[p].at = h /\ house[h].owner = p
  /\ \A k \in House : house[k].owner # partner
  /\ house[h].offered = Nobody
  /\ house' = [house EXCEPT ![h].offered = partner]
  /\ UNCHANGED resident

ExecuteTransfer(h) ==
  /\ house[h].offered # Nobody
  /\ HousesBecome([SetOwner(World, h, house[h].offered) EXCEPT !.house[h].offered = Nobody])

ResetTransferItem(h) ==
  /\ house[h].offered # Nobody
  /\ house' = [house EXCEPT ![h].offered = Nobody]
  /\ UNCHANGED resident

\* a shutdown saves everyone and every house; at the next start
\* both halves of a bed that is loaded name its sleeper, and the last one read
\* is the one in the map; then the rents are collected
Restart(unpaid) ==
  LET off == [p \in Resident |-> [resident[p] EXCEPT !.online = FALSE, !.kicked = FALSE, !.edits = Nobody,
                !.sleepsIn = IF @ = NoBed THEN NoBed ELSE <<@[1], 2>>]]
      on  == [h \in House |-> [house[h] EXCEPT !.offered = Nobody]]
  IN  HousesBecome(PayHouses([house |-> on, resident |-> off], unpaid))

HousesNext ==
  \/ \E p \in Resident : ResidentLogin(p) \/ ResidentLogout(p) \/ LeaveHouse(p) \/ KickSleeper(p)
  \/ \E p \in Resident, h \in House : Enter(p, h) \/ DropGoods(p, h)
  \/ \E p, q \in Resident, h \in House : Kick(p, q, h) \/ SellHouse(p, q, h)
  \/ \E p \in Resident, h \in House, list \in Lists : OpenHouseWindow(p, h, list)
  \/ \E p \in Resident, text \in Text : UpdateHouseWindow(p, text)
  \/ \E p \in Resident, h \in House, i \in Side : Sleep(p, h, i) \/ WakeSleeper(p, h, i)
  \/ \E h \in House, guid \in Resident \cup {Nobody} : SetOwnerGuid(h, guid)
  \/ \E h \in House : ExecuteTransfer(h) \/ ResetTransferItem(h)
  \/ \E unpaid \in SUBSET House : Restart(unpaid)

HousesSpec == HousesInit /\ [][HousesNext]_houseVars

(***************************************************************************)
(* Properties.                                                             *)
(***************************************************************************)
\* Whoever is in a house is invited: a list that changes, an owner that changes
\* or a login puts everyone else at the entry.  The one exception the code makes
\* is who lay down in a bed and is about to be logged out.
OnlyTheInvited ==
  \A p \in Resident : resident[p].online /\ resident[p].at \in House /\ ~resident[p].kicked =>
    IsInvited(house[resident[p].at], p)

\* A bed has one sleeper in both halves, he is the one the map of sleepers leads
\* to that bed, and nobody who is awake keeps a bed.
BedsAgree ==
  /\ \A h \in House : house[h].bed[1] = house[h].bed[2]
  /\ \A h \in House, i \in Side : house[h].bed[i] # Nobody => resident[house[h].bed[i]].sleepsIn # NoBed
  /\ \A p \in Resident : resident[p].sleepsIn # NoBed =>
       /\ house[resident[p].sleepsIn[1]].bed[resident[p].sleepsIn[2]] = p
       /\ resident[p].online => resident[p].kicked

\* Only the invited are in a house, and the halves and sleepers of its beds agree.
HousesKept == OnlyTheInvited /\ BedsAgree

\* When a house changes hands its goods go to the depot of who had it: none stay
\* for the next owner, unless who had it cannot be loaded.
GoodsFollowOwner ==
  [][\A h \in House : house[h].owner \notin Lost \cup {Nobody} /\ house'[h].owner # house[h].owner =>
       /\ house'[h].goods # Floor
       /\ house[h].goods = Floor => house'[h].goods = house[h].owner]_houseVars
=============================================================================
