------------------------------ MODULE Records -------------------------------
(***************************************************************************)
(* What is written of items and conditions when a character or a house is  *)
(* saved, and what is read back (item.cpp, condition.cpp, iologindata.cpp, *)
(* iomapserialize.cpp).                                                    *)
(*                                                                         *)
(* An attribute is a tag and a number of so many bytes, or a string after  *)
(* its length; nothing in the stream says how long an attribute is, so a   *)
(* width that differs between writer and reader spoils all that follows.   *)
(* A character's items are rows that name the row they lie in; a house     *)
(* tile's are one stream, containers inside.  Things that cannot be moved  *)
(* come from the map and only take over what was saved of them.            *)
(***************************************************************************)
EXTENDS Integers, Sequences, SequencesExt, FiniteSetsExt

CONSTANTS
  Base,          \* values of a byte
  Budget,        \* bound: how often goods are made or changed
  Registered     \* guids of the characters there are

VARIABLES
  store,         \* what is being kept: "slots", "tile" or "conditions"
  goods,         \* the items, in memory, by slot or from the top of the tile; or the conditions
  records,          \* the rows, or the stream
  kept,          \* `goods' when it was saved
  missing,       \* what the restart found gone, until the goods change again
  changes

recordVars == <<store, goods, records, kept, missing, changes>>

(***************************************************************************)
(* Kinds of items.                                                         *)
(***************************************************************************)
Traits == [
  coin   |-> {"stackable", "moveable"},          flask  |-> {"fluid", "moveable"},
  amulet |-> {"charged", "moveable"},            torch  |-> {"decaying", "moveable"},
  blade  |-> {"weapon", "moveable"},             bag    |-> {"container", "moveable"},
  board  |-> {"writable"},                       bed    |-> {"bed"},
  open   |-> {"door"},                           closed |-> {"door"},
  chest  |-> {"container"}]
Is(kind, trait) == trait \in Traits[kind]

(***************************************************************************)
(* Tags with their numbers, in the order in which they are written.        *)
(***************************************************************************)
TagNumber == [COUNT |-> 15, CHARGES |-> 22, ACTIONID |-> 4, TEXT |-> 6, DATE |-> 18, WRITER |-> 19,
  DESC |-> 7, DURATION |-> 16, DECAYSTATE |-> 17, NAME |-> 30, ARTICLE |-> 31, PLURALNAME |-> 32,
  WEIGHT |-> 33, ATTACK |-> 34, DEFENSE |-> 35, ARMOR |-> 36, MISSILEEFFECT |-> 38,
  KEYNUMBER |-> 23, KEYHOLENUMBER |-> 24, DOORLEVEL |-> 27, DOORQUESTNUMBER |-> 25,
  DOORQUESTVALUE |-> 26, CHESTQUESTNUMBER |-> 28, LIFELEECH |-> 39, MANALEECH |-> 40,
  CRITICAL |-> 41, REFLECTION |-> 43, SLEEPERGUID |-> 20, SLEEPSTART |-> 21, CONTAINERITEMS |-> 29]
Tags == DOMAIN TagNumber
Strings == {"TEXT", "WRITER", "DESC", "NAME", "ARTICLE", "PLURALNAME"}
Signed == {"ATTACK", "DEFENSE", "ARMOR", "DURATION"}
Bonuses == {"LIFELEECH", "MANALEECH", "CRITICAL"}
Pending == 2           \* DECAYING_PENDING
Sleeping == <<9>>      \* "... is sleeping there."

\* Item::serializeAttr and BedItem::serializeAttr: the numbers' bytes ...
WriteWidth(tag) ==
  CASE tag \in {"COUNT", "DECAYSTATE", "MISSILEEFFECT"} -> 1
    [] tag \in {"DATE", "DURATION", "WEIGHT", "ATTACK", "DEFENSE", "ARMOR", "SLEEPERGUID", "SLEEPSTART"} -> 4
    [] OTHER -> 2
\* ... and their order.
WriteOrder ==
  <<"COUNT", "CHARGES", "ACTIONID", "TEXT", "DATE", "WRITER", "DESC", "DURATION", "DECAYSTATE", "NAME",
    "ARTICLE", "PLURALNAME", "WEIGHT", "ATTACK", "DEFENSE", "ARMOR", "MISSILEEFFECT", "KEYNUMBER",
    "KEYHOLENUMBER", "DOORLEVEL", "DOORQUESTNUMBER", "DOORQUESTVALUE", "CHESTQUESTNUMBER",
    "LIFELEECH", "MANALEECH", "CRITICAL", "REFLECTION">>
BedOrder == <<"SLEEPERGUID", "SLEEPSTART">>

\* Mutant: the duration is read as a 16-bit number.
ReadWidth_ShortDuration(tag) == IF tag = "DURATION" THEN 2 ELSE WriteWidth(tag)

\* Item::readAttr: the bytes it takes for a tag's number.
ReadWidth(tag) ==
  CASE tag \in {"COUNT", "DECAYSTATE", "MISSILEEFFECT"} -> 1
    [] tag \in {"ACTIONID", "CHARGES", "KEYNUMBER", "KEYHOLENUMBER", "DOORLEVEL", "DOORQUESTNUMBER",
                "DOORQUESTVALUE", "CHESTQUESTNUMBER"} \cup Bonuses \cup {"REFLECTION"} -> 2
    [] tag \in {"DATE", "DURATION", "WEIGHT", "ATTACK", "DEFENSE", "ARMOR", "SLEEPERGUID", "SLEEPSTART",
                "CONTAINERITEMS"} -> 4
(***************************************************************************)
(* An item is [kind, count, attrs, inside]: attrs gives the attributes it  *)
(* has, `inside' what a container holds, the top first.                    *)
(***************************************************************************)
With(item, attr, n) == [item EXCEPT !.attrs = [a \in DOMAIN @ \cup {attr} |-> IF a = attr THEN n ELSE @[a]]]
Attr(item, attr) ==
  IF attr \in DOMAIN item.attrs THEN item.attrs[attr] ELSE IF attr \in Strings THEN <<>> ELSE 0

SetSubType(item, n) ==
  CASE Is(item.kind, "fluid")   -> With(item, "FLUIDTYPE", n)
    [] Is(item.kind, "charged") -> With(item, "CHARGES", n)
    [] OTHER                    -> [item EXCEPT !.count = n]

SubType(item) ==
  CASE Is(item.kind, "fluid")   -> Attr(item, "FLUIDTYPE")
    [] Is(item.kind, "charged") -> Attr(item, "CHARGES")
    [] OTHER                    -> item.count

\* Item::CreateItem and the constructor; a new weapon may get bonuses, by chance.
DefaultCharges == 3
DefaultDuration == 5
Blank(kind) == [kind |-> kind, count |-> 1, attrs |-> <<>>, inside |-> <<>>]
CreatedItem(kind, count, luck) ==
  CASE Is(kind, "fluid")     -> SetSubType(Blank(kind), count)
    [] Is(kind, "stackable") -> [Blank(kind) EXCEPT !.count = IF count = 0 THEN 1 ELSE count]
    [] Is(kind, "charged")   -> SetSubType(Blank(kind), IF count = 0 THEN DefaultCharges ELSE count)
    [] Is(kind, "decaying")  -> With(Blank(kind), "DURATION", DefaultDuration)
    [] Is(kind, "weapon")    -> [Blank(kind) EXCEPT !.attrs = [b \in luck |-> 1]]
    [] OTHER                 -> Blank(kind)

(***************************************************************************)
(* Writing.                                                                *)
(***************************************************************************)
Number(n, width) == [k \in 1 .. width |-> (n \div Base ^ (k - 1)) % Base]
String(s) == Number(Len(s), 2) \o s

Written(item, tag) ==
  CASE tag = "COUNT"      -> Is(item.kind, "stackable") \/ Is(item.kind, "fluid")
    [] tag = "ACTIONID"   -> Is(item.kind, "moveable") /\ Attr(item, tag) # 0
    [] tag \in {"CHARGES", "DATE", "REFLECTION", "SLEEPERGUID", "SLEEPSTART", "DECAYSTATE"} \cup Bonuses -> Attr(item, tag) # 0
    [] OTHER              -> tag \in DOMAIN item.attrs

WriteAttr(item, tag) ==
  <<TagNumber[tag]>> \o
  CASE tag \in Strings -> String(Attr(item, tag))
    [] tag = "COUNT"   -> Number(SubType(item), WriteWidth(tag))
    [] OTHER           -> Number(Attr(item, tag), WriteWidth(tag))

SerializeAttr(item) ==
  LET order == IF Is(item.kind, "bed") THEN BedOrder ELSE WriteOrder
  IN  FlattenSeq([k \in DOMAIN order |-> IF Written(item, order[k]) THEN WriteAttr(item, order[k]) ELSE <<>>])

(***************************************************************************)
(* Reading gives what was made of it and the rest of the stream, and       *)
(* whether it went well.                                                   *)
(***************************************************************************)
Read(item, rest, ok) == [item |-> item, rest |-> rest, ok |-> ok, more |-> 0]

Skip(s, n) == SubSeq(s, n + 1, Len(s))
Natural(s, width) == FoldFunctionOnSet(+, 0, [k \in 1 .. width |-> s[k] * Base ^ (k - 1)], 1 .. width)
Extended(n, width) == IF 2 * n >= Base ^ width THEN n - Base ^ width ELSE n

\* Item::readAttr: a number.
Taken(item, tag, n) ==
  CASE tag \in {"COUNT", "CHARGES"} -> SetSubType(item, n)
    [] tag = "DURATION"             -> With(item, tag, Max({0, n}))
    [] tag = "DECAYSTATE"           -> IF n # 0 THEN With(item, tag, Pending) ELSE item
    [] OTHER                        -> With(item, tag, n)

\* BedItem::readAttr
TakenByBed(item, tag, n) ==
  CASE tag = "SLEEPERGUID" -> IF n \in Registered THEN With(With(item, tag, n), "DESC", Sleeping) ELSE item
    [] tag = "SLEEPSTART"  -> With(item, tag, n)
    [] OTHER               -> Taken(item, tag, n)

TakenByAny(item, tag, n) ==
  IF Is(item.kind, "bed") THEN TakenByBed(item, tag, n)
  ELSE IF tag \in {"SLEEPERGUID", "SLEEPSTART"} THEN item ELSE Taken(item, tag, n)

ReadNumberOf(item, tag, s, width) ==
  IF Len(s) < width THEN Read(item, s, FALSE)
  ELSE Read(TakenByAny(item, tag, IF tag \in Signed THEN Extended(Natural(s, width), width) ELSE Natural(s, width)),
            Skip(s, width), TRUE)
ReadNumber(item, tag, s) == ReadNumberOf(item, tag, s, ReadWidth(tag))

\* Item::readAttr: a string; setStrAttr takes no empty ones.
ReadText(item, tag, s, size) ==
  IF Len(s) < size THEN Read(item, s, FALSE)
  ELSE Read(IF size = 0 THEN item ELSE With(item, tag, SubSeq(s, 1, size)), Skip(s, size), TRUE)
ReadString(item, tag, s) ==
  IF Len(s) < 2 THEN Read(item, s, FALSE) ELSE ReadText(item, tag, Skip(s, 2), Natural(s, 2))

\* Container::readAttr leaves the items to loadContainer and ends the attributes.
ReadItems(item, s) ==
  IF Is(item.kind, "container") /\ Len(s) >= 4
  THEN [Read(item, Skip(s, 4), TRUE) EXCEPT !.more = Natural(s, 4)]
  ELSE Read(item, s, FALSE)

UnknownTag == "none"
TagOf(number) == IF \E t \in Tags : TagNumber[t] = number THEN CHOOSE t \in Tags : TagNumber[t] = number ELSE UnknownTag

RECURSIVE UnserializeAttr(_, _), UnserializeNext(_)
ReadAttr(item, tag, s) ==
  CASE tag = UnknownTag       -> Read(item, s, FALSE)
    [] tag = "CONTAINERITEMS" -> ReadItems(item, s)
    [] tag \in Strings        -> UnserializeNext(ReadString(item, tag, s))
    [] OTHER                  -> UnserializeNext(ReadNumber(item, tag, s))
UnserializeNext(read) == IF read.ok THEN UnserializeAttr(read.item, read.rest) ELSE read
UnserializeAttr(item, s) ==
  IF s = <<>> THEN Read(item, s, TRUE)
  ELSE IF s[1] = 0 THEN Read(item, Tail(s), TRUE) ELSE ReadAttr(item, TagOf(s[1]), Tail(s))

-----------------------------------------------------------------------------
(***************************************************************************)
(* The rows of a character: each item after those that lie higher, with    *)
(* the row or the slot it lies in.                                         *)
(***************************************************************************)
FirstRow == 100

Row(item, pid, sid) ==
  [pid |-> pid, sid |-> sid, kind |-> item.kind, count |-> SubType(item), attrs |-> SerializeAttr(item)]

\* The queue of IOLoginData::saveItems: rows written so far, and items whose insides wait.
RECURSIVE SaveInsides(_, _)
SaveInsides(rows, queue) ==
  IF queue = <<>> THEN rows
  ELSE LET inside == queue[1].item.inside
           sid(k) == FirstRow + Len(rows) + k
       IN  SaveInsides(rows \o [k \in DOMAIN inside |-> Row(inside[k], queue[1].sid, sid(k))],
                       Tail(queue) \o [k \in DOMAIN inside |-> [item |-> inside[k], sid |-> sid(k)]])

SaveRows(items) ==
  SaveInsides([k \in DOMAIN items |-> Row(items[k], k, FirstRow + k)],
              [k \in DOMAIN items |-> [item |-> items[k], sid |-> FirstRow + k]])

\* IOLoginData::loadItems: a row of a kind that is no more gives no item.
FromRow(row, luck) == UnserializeAttr(CreatedItem(row.kind, row.count, luck), row.attrs).item

\* IOLoginData::loadPlayer: from the last row to the first, each in front of those behind it.
RECURSIVE Assembled(_, _, _, _)
Assembled(rows, pid, gone, luck) ==
  LET mine == SelectSeq(rows, LAMBDA r : r.pid = pid /\ r.kind # gone)
  IN  [k \in DOMAIN mine |->
         IF Is(mine[k].kind, "container")
         THEN [FromRow(mine[k], luck) EXCEPT !.inside = Assembled(rows, mine[k].sid, gone, luck)]
         ELSE FromRow(mine[k], luck)]

LoadPlayer(rows, gone, luck) ==
  FlattenSeq([slot \in 1 .. FirstRow |-> Assembled(rows, slot, gone, luck)])

-----------------------------------------------------------------------------
(***************************************************************************)
(* The stream of a house tile.                                             *)
(***************************************************************************)
KindOrder == <<"coin", "flask", "amulet", "torch", "blade", "bag", "board", "bed", "open", "closed", "chest">>

RECURSIVE SaveItem(_)
SaveItem(item) ==
  Number(CHOOSE k \in DOMAIN KindOrder : KindOrder[k] = item.kind, 2) \o SerializeAttr(item) \o
  (IF Is(item.kind, "container")
   THEN <<TagNumber["CONTAINERITEMS"]>> \o Number(Len(item.inside), 4) \o
        FlattenSeq([k \in DOMAIN item.inside |-> SaveItem(Reverse(item.inside)[k])])
   ELSE <<>>) \o <<0>>

\* IOMapSerialize::saveTile: what can be moved, and what may have changed.
ToSave(item) ==
  \/ \E trait \in {"moveable", "door", "writable", "bed"} : Is(item.kind, trait)
  \/ item.inside # <<>>

SaveTile(items) ==
  LET saved == Reverse(SelectSeq(items, ToSave))
  IN  Number(Len(saved), 4) \o FlattenSeq([k \in DOMAIN saved |-> SaveItem(saved[k])])

\* IOMapSerialize::loadItem and loadContainer, for an item that is new.
RECURSIVE LoadWhole(_, _, _), LoadContainer(_, _, _), LoadInside(_, _, _, _)
LoadRead(got, luck) == IF got.ok /\ Is(got.item.kind, "container") THEN LoadContainer(got, got.more, luck) ELSE got
LoadWhole(item, s, luck) == LoadRead(UnserializeAttr(item, s), luck)

LoadContainer(got, left, luck) ==
  IF left = 0
  THEN Read(got.item, Skip(got.rest, 1), got.rest # <<>> /\ got.rest[1] = 0)
  ELSE IF Len(got.rest) < 2 \/ Natural(got.rest, 2) \notin DOMAIN KindOrder THEN Read(got.item, got.rest, FALSE)
  ELSE LoadInside(got.item, LoadWhole(CreatedItem(KindOrder[Natural(got.rest, 2)], 0, luck), Skip(got.rest, 2), luck), left, luck)

LoadInside(item, next, left, luck) ==
  IF next.ok
  THEN LoadContainer(Read([item EXCEPT !.inside = <<next.item>> \o @], next.rest, TRUE), left - 1, luck)
  ELSE Read(item, next.rest, FALSE)

\* The thing of the map that takes over what was saved.
Counterparts(tile, kind) ==
  {k \in DOMAIN tile : tile[k].kind = kind \/ \E trait \in {"door", "bed"} : Is(kind, trait) /\ Is(tile[k].kind, trait)}

LoadedTile(tile, rest) == [tile |-> tile, rest |-> rest]
LoadMoveable(tile, new) == LoadedTile(IF new.ok THEN <<new.item>> \o tile ELSE tile, new.rest)
LoadOnto(tile, at, old, kind) ==
  LoadedTile([tile EXCEPT ![at] = IF old.ok THEN [old.item EXCEPT !.kind = kind] ELSE old.item], old.rest)

\* IOMapSerialize::loadItem, on a tile; transformItem opens or closes a door, and what
\* the map has no more is only read.
LoadKind(tile, kind, s, luck) ==
  IF Is(kind, "moveable") THEN LoadMoveable(tile, LoadWhole(CreatedItem(kind, 0, luck), s, luck))
  ELSE IF Counterparts(tile, kind) # {}
  THEN LoadOnto(tile, Min(Counterparts(tile, kind)), LoadWhole(tile[Min(Counterparts(tile, kind))], s, luck), kind)
  ELSE LoadedTile(tile, LoadWhole(CreatedItem(kind, 0, luck), s, luck).rest)

LoadOnTile(tile, s, luck) ==
  IF Len(s) < 2 \/ Natural(s, 2) \notin DOMAIN KindOrder THEN LoadedTile(tile, Skip(s, 2))
  ELSE LoadKind(tile, KindOrder[Natural(s, 2)], Skip(s, 2), luck)

RECURSIVE LoadTile(_, _, _)
LoadTile(loaded, left, luck) ==
  IF left = 0 THEN loaded.tile ELSE LoadTile(LoadOnTile(loaded.tile, loaded.rest, luck), left - 1, luck)

-----------------------------------------------------------------------------
(***************************************************************************)
(* Conditions: [type, id, ticks, subid, values], the values in the order   *)
(* of Fields.                                                              *)
(***************************************************************************)
TypeOrder == <<"fight", "attributes", "regeneration", "soul", "poison", "haste", "outfit", "light">>
FieldNumber == [TYPE |-> 1, ID |-> 2, TICKS |-> 3, SUBID |-> 28, HEALTHTICKS |-> 4, HEALTHGAIN |-> 5,
  MANATICKS |-> 6, MANAGAIN |-> 7, CYCLE |-> 9, COUNT |-> 10, MAXCOUNT |-> 11, FACTORPERCENT |-> 12,
  SPEEDDELTA |-> 13, APPLIEDSPEEDDELTA |-> 14, LIGHTCOLOR |-> 19, LIGHTLEVEL |-> 20, LIGHTTICKS |-> 21,
  LIGHTINTERVAL |-> 22, SOULTICKS |-> 23, SOULGAIN |-> 24, SKILLS |-> 25, STATS |-> 26, OUTFIT |-> 27]
AttrEnd == Base - 2    \* CONDITIONATTR_END

\* What each type's serialize writes after what all have; two skills and two stats stand for all.
AttributesFields   == <<"SKILLS", "SKILLS", "STATS", "STATS">>
RegenerationFields == <<"HEALTHTICKS", "HEALTHGAIN", "MANATICKS", "MANAGAIN">>
SoulFields         == <<"SOULGAIN", "SOULTICKS">>
DamageFields       == <<"CYCLE", "COUNT", "MAXCOUNT", "FACTORPERCENT">>
SpeedFields        == <<"SPEEDDELTA", "APPLIEDSPEEDDELTA">>
OutfitFields       == <<"OUTFIT">>
LightFields        == <<"LIGHTCOLOR", "LIGHTLEVEL", "LIGHTTICKS", "LIGHTINTERVAL">>
Fields == [
  fight |-> <<>>, attributes |-> AttributesFields, regeneration |-> RegenerationFields, soul |-> SoulFields,
  poison |-> DamageFields, haste |-> SpeedFields, outfit |-> OutfitFields, light |-> LightFields]

\* A field of a condition: a 32-bit number, but for the outfit, which is two bytes here.
FieldWidth(field) == IF field = "OUTFIT" THEN 2 ELSE 4
Field(field, n) == <<FieldNumber[field]>> \o Number(n, FieldWidth(field))

TypeNumber(type) == CHOOSE k \in DOMAIN TypeOrder : TypeOrder[k] = type
Serialize(c) ==
  Field("TYPE", TypeNumber(c.type)) \o Field("ID", c.id) \o Field("TICKS", c.ticks) \o Field("SUBID", c.subid)
    \o FlattenSeq([k \in DOMAIN c.values |-> Field(Fields[c.type][k], c.values[k])])

\* Condition::isPersistent: not until further notice, and not from something worn.
IsPersistent(c) == c.ticks # -1 /\ c.id \in {-1, 0}

SaveConditions(conditions) ==
  LET saved == SelectSeq(conditions, IsPersistent)
  IN  FlattenSeq([k \in DOMAIN saved |-> Serialize(saved[k]) \o <<AttrEnd>>])

Whole(s) == Extended(Natural(s, 4), 4)

\* The unserializeProp of the condition's type: its next field of that number.
RECURSIVE UnserializeProps(_, _, _)
UnserializeField(c, k, s, done, width) ==
  IF Len(s) < width THEN Read(c, s, FALSE)
  ELSE UnserializeProps([c EXCEPT !.values[k] = IF width = 4 THEN Whole(s) ELSE Natural(s, width)],
                        Skip(s, width), done \cup {k})
UnserializeProp(c, fits, s, done) ==
  IF fits = {} THEN Read(c, s, FALSE)
  ELSE UnserializeField(c, Min(fits), s, done, FieldWidth(Fields[c.type][Min(fits)]))
UnserializeProps(c, s, done) ==
  IF s = <<>> THEN Read(c, s, TRUE)
  ELSE IF s[1] = AttrEnd THEN Read(c, Tail(s), TRUE)
  ELSE UnserializeProp(c, {k \in DOMAIN Fields[c.type] \ done : FieldNumber[Fields[c.type][k]] = s[1]}, Tail(s), done)

\* Condition::createCondition: the four numbers that all have, in that order.  Damage has no ticks.
Header(s) ==
  /\ Len(s) >= 20
  /\ \A k \in 1 .. 4 : s[5 * k - 4] = FieldNumber[<<"TYPE", "ID", "TICKS", "SUBID">>[k]]
  /\ Whole(Tail(s)) \in DOMAIN TypeOrder
CreateCondition(s) ==
  LET type == TypeOrder[Whole(Tail(s))]
  IN  [type |-> type, id |-> Whole(Skip(s, 6)), subid |-> Whole(Skip(s, 16)),
       ticks |-> IF type = "poison" THEN 0 ELSE Whole(Skip(s, 11)),
       values |-> [k \in DOMAIN Fields[type] |-> 0]]

\* IOLoginData::loadPlayer: each goes in front of those before it.
RECURSIVE LoadConditions(_, _), LoadNext(_, _)
LoadConditions(s, loaded) ==
  IF Header(s) THEN LoadNext(UnserializeProps(CreateCondition(s), Skip(s, 20), {}), loaded) ELSE loaded
LoadNext(got, loaded) == LoadConditions(got.rest, IF got.ok THEN <<got.item>> \o loaded ELSE loaded)

-----------------------------------------------------------------------------
(***************************************************************************)
(* Goods are made and changed, kept, and read back after a restart.        *)
(***************************************************************************)
Nothing == <<>>
TheMap == <<With(Blank("board"), "TEXT", <<7>>), Blank("bed"), Blank("closed"), Blank("chest")>>
\* A bag with two kinds of things, of which one has an early and a late attribute, in two bags.
Used == With(With(Blank("blade"), "WRITER", <<1, 2>>), "REFLECTION", 2)
Packed == [Blank("bag") EXCEPT !.inside =
            <<[Blank("coin") EXCEPT !.count = 2], [Blank("bag") EXCEPT !.inside = <<Used>>]>>]
\* A condition of each type.
Upon == [k \in DOMAIN TypeOrder |->
          [type |-> TypeOrder[k], id |-> 0, subid |-> k, ticks |-> IF TypeOrder[k] = "poison" THEN 0 ELSE Base,
           values |-> [f \in DOMAIN Fields[TypeOrder[k]] |-> f]]]
Portable == {kind \in DOMAIN Traits : Is(kind, "moveable")}

\* A value or two that need all of the tag's bytes.
Sample(tag) ==
  CASE tag \in Strings \ {"TEXT"}  -> {<<0, Base - 1>>}
    [] tag = "TEXT"                -> {<<0, Base - 1>>, <<>>}
    [] tag = "SLEEPERGUID"         -> Registered \cup {Base + 1}
    [] tag = "KEYNUMBER"           -> {0, Base ^ 2 - 1}
    [] tag = "DECAYSTATE"          -> {0, 1, Pending}
    [] tag = "DURATION"            -> {0, Base ^ 3 + 1}
    [] tag = "CHARGES"             -> {0, Base + 2}
    [] tag \in Signed \ {"DURATION"} -> {-1}
    [] tag = "MISSILEEFFECT"       -> {Base - 1}
    [] OTHER                       -> {Base ^ (WriteWidth(tag) - 1) + 2}

\* The attributes that the game and the scripts give to a kind.
Settable(kind) ==
  IF Is(kind, "bed") THEN {"SLEEPERGUID", "SLEEPSTART"}
  ELSE Tags \ ({"COUNT", "SLEEPERGUID", "SLEEPSTART", "CONTAINERITEMS"}
               \cup (IF Is(kind, "decaying") THEN {} ELSE {"DURATION", "DECAYSTATE"})
               \cup (IF Is(kind, "charged") THEN {} ELSE {"CHARGES"}))

\* resetText takes the attribute away.
Revalued(item, tag, n) ==
  IF tag \in Strings /\ n = <<>> THEN [item EXCEPT !.attrs = [a \in DOMAIN @ \ {tag} |-> @[a]]] ELSE With(item, tag, n)

NewItems == {CreatedItem(kind, 2, {}) : kind \in Portable}

\* The item after one change to it or to what it holds.
RECURSIVE Variants(_)
Variants(item) ==
  UNION {{Revalued(item, tag, n) : n \in Sample(tag)} : tag \in Settable(item.kind)}
  \cup (IF Is(item.kind, "container") THEN {[item EXCEPT !.inside = <<new>> \o @] : new \in NewItems} ELSE {})
  \cup UNION {{[item EXCEPT !.inside[k] = v] : v \in Variants(item.inside[k])} : k \in DOMAIN item.inside}
  \cup (IF Is(item.kind, "door") THEN {[item EXCEPT !.kind = IF @ = "open" THEN "closed" ELSE "open"]} ELSE {})

\* Damage has no ticks of its own: it lasts until its cycles are through.
NewConditions ==
  {c \in {[type |-> t, id |-> id, ticks |-> ticks, subid |-> 1, values |-> [k \in DOMAIN Fields[t] |-> f * k]] :
     t \in ToSet(TypeOrder), id \in {-1, 1}, ticks \in {-1, 0, Base ^ 3}, f \in {1, AttrEnd}} :
     c.type = "poison" => c.ticks = 0}

RecordsInit ==
  /\ store \in {"slots", "tile", "conditions"}
  /\ goods = CASE store = "slots" -> <<Packed>> [] store = "tile" -> <<Packed>> \o TheMap [] store = "conditions" -> Upon
  /\ records = Nothing /\ kept = Nothing /\ missing = {} /\ changes = 0

Changes(new) ==
  /\ changes < Budget
  /\ changes' = changes + 1
  /\ goods' = new
  /\ missing' = {}
  /\ UNCHANGED <<store, records, kept>>

\* Something new in the next slot, on the top of the tile, or upon the character.
Get ==
  \/ store = "slots"      /\ \E new \in NewItems : Changes(Append(goods, new))
  \/ store = "tile"       /\ \E new \in NewItems : Changes(<<new>> \o goods)
  \/ store = "conditions" /\ \E new \in NewConditions : Changes(Append(goods, new))

\* One of the items, or something in it, is changed.
Alter == store # "conditions" /\ \E k \in DOMAIN goods : \E v \in Variants(goods[k]) : Changes([goods EXCEPT ![k] = v])

\* Bound: nothing more is saved once something was found gone.
Save ==
  /\ goods # Nothing /\ missing \subseteq {"none"}
  /\ kept' = goods
  /\ records' = CASE store = "slots"      -> SaveRows(goods)
               [] store = "tile"       -> SaveTile(goods)
               [] store = "conditions" -> SaveConditions(goods)
  /\ missing' = {}
  /\ UNCHANGED <<store, goods, changes>>

\* A kind is gone from the items file, or a thing from the map; new weapons are lucky or not.
RestartServerWith(gone, luck) ==
  /\ kept # Nothing
  /\ missing' = {gone}
  /\ goods' = CASE store = "slots"      -> LoadPlayer(records, gone, luck)
                [] store = "tile"       -> LoadTile(LoadedTile(SelectSeq(TheMap, LAMBDA i : i.kind # gone), Skip(records, 4)),
                                                    Natural(records, 4), luck)
                [] store = "conditions" -> LoadConditions(records, <<>>)
  /\ changes' = Budget
  /\ UNCHANGED <<store, records, kept>>

GoneKinds == CASE store = "slots" -> {"none", "bag", "coin"} [] store = "tile" -> {"none", "board", "bed"} [] OTHER -> {"none"}
RestartServer == \E gone \in GoneKinds, luck \in {{}, Bonuses} : RestartServerWith(gone, luck)

RecordsNext == Get \/ Alter \/ Save \/ RestartServer

-----------------------------------------------------------------------------
\* What an item has got back: all that it had, but that its decay waits to be started
\* and that the last charge used up comes back as all of them.
SameAttr(new, old, a) ==
  CASE a = "DECAYSTATE" -> Attr(new, a) = IF Attr(old, a) = 0 THEN 0 ELSE Pending
    [] a \in Bonuses    -> Attr(old, a) # 0 \/ ~Is(old.kind, "weapon") => Attr(new, a) = Attr(old, a)
    [] a = "CHARGES"    -> Attr(new, a) = IF Is(old.kind, "charged") /\ Attr(old, a) = 0 THEN DefaultCharges ELSE Attr(old, a)
    [] OTHER            -> Attr(new, a) = Attr(old, a)

RECURSIVE Same(_, _), AllSame(_, _)
Same(new, old) ==
  /\ new.kind = old.kind /\ new.count = old.count
  /\ \A a \in Tags \cup {"FLUIDTYPE"} : SameAttr(new, old, a)
  /\ AllSame(new.inside, old.inside)
AllSame(new, old) == Len(new) = Len(old) /\ \A k \in DOMAIN new : Same(new[k], old[k])

\* What is left of the items when a kind is no more, with all it holds.
RECURSIVE Without(_, _)
Without(items, kind) ==
  LET left == SelectSeq(items, LAMBDA i : i.kind # kind)
  IN  [k \in DOMAIN left |-> [left[k] EXCEPT !.inside = Without(@, kind)]]

\* A thing of the map has what was saved of it, over what the map says; an empty chest
\* is the map's.
Overlaid(new, old, ofMap) ==
  IF ~ToSave(old) THEN new = ofMap ELSE
  /\ new.kind = old.kind
  /\ Is(old.kind, "bed") => Attr(new, "SLEEPERGUID") = IF Attr(old, "SLEEPERGUID") \in Registered THEN Attr(old, "SLEEPERGUID") ELSE 0
  /\ \A a \in Tags \ {"SLEEPERGUID", "ACTIONID", "DESC"} :
       Attr(new, a) = IF a \in Strings /\ Attr(old, a) = <<>> THEN Attr(ofMap, a) ELSE Attr(old, a)
  /\ AllSame(new.inside, old.inside)

\* After a restart everything is there again, in its order and with its attributes: the
\* items of a character, those of a house, the conditions (serializeAttr and readAttr,
\* saveItems and loadPlayer, saveTile and loadItem, serialize and unserializeProp).
Restored ==
  \A gone \in missing :
    CASE store = "slots" -> AllSame(goods, Without(kept, gone))
      [] store = "tile" ->
           LET ofMap == SelectSeq(TheMap, LAMBDA i : i.kind # gone)
               old   == SelectSeq(kept, LAMBDA i : i.kind # gone)
               loose == Len(old) - Len(ofMap)
           IN  /\ Len(goods) = Len(old)
               /\ \A k \in DOMAIN old :
                    IF k <= loose THEN Same(goods[k], old[k]) ELSE Overlaid(goods[k], old[k], ofMap[k - loose])
      [] store = "conditions" -> goods = Reverse(SelectSeq(kept, IsPersistent))
=============================================================================
