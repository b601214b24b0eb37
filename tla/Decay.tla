-------------------------------- MODULE Decay --------------------------------
(***************************************************************************)
(* The decay of items (game.cpp).  An item that is to decay waits in one   *)
(* of four buckets; checkDecay runs every 250 ms, walks the next bucket,   *)
(* and takes up to a second off the duration of each item there.           *)
(* startDecay leaves new items in toDecayItems, which cleanup sorts into   *)
(* the buckets.                                                            *)
(*                                                                         *)
(* Items are slots of a small pool; a slot is free when its last reference *)
(* is gone.  Item::setID may reset the decay state of an item that is in a *)
(* bucket already, so that the next startDecay lists it twice: the model   *)
(* keeps lists, not sets.                                                  *)
(***************************************************************************)
EXTENDS Integers, Sequences, FiniteSets, SequencesExt

CONSTANTS Slot,            \* the pool of items
          Type,            \* kind -> [time, decayTo, stop]: ItemType's decayTime in
                           \* ms, decayTo (NoKind: -1, Gone: 0) and stopTime
          NoKind, Gone,
          UsesTo,          \* kind -> the kind item use makes of it, or NoKind
          Replaces,        \* the pairs of kinds for which transformItem makes a new item
          FirstKinds,      \* the kinds items are created with
          Odd,             \* durations that scripts set
          Turns,           \* bound: items created, used and taken away
          Crowd            \* bound: no item is created while there are so many

Kinds == DOMAIN Type
Decays(kind) == Type[kind].decayTo # NoKind /\ Type[kind].time > 0

\* What the kinds are is data (data/items/items.srv).
ASSUME DecayAssumption ==
  /\ Turns \in Nat /\ IsFiniteSet(Slot) /\ Crowd \in Nat /\ Crowd <= Cardinality(Slot)
  /\ NoKind \in Kinds /\ Gone \notin Kinds
  /\ Type \in [Kinds -> [time : Nat, decayTo : Kinds \cup {Gone}, stop : BOOLEAN]]
  /\ UsesTo \in [Kinds -> Kinds]
  /\ FirstKinds \subseteq Kinds \ {NoKind} /\ Odd \subseteq Nat \ {0}

\* A kind that one decays into without a new item being made has a clock of its own or
\* none at all: it does not keep the one that has run out.  So it is with every kind in
\* data/items/items.srv.
ASSUME ClocksAssumption ==
  \A kind \in Kinds :
    LET to == Type[kind].decayTo
    IN Decays(kind) /\ to # Gone /\ <<kind, to>> \notin Replaces =>
         \/ Type[to].time > 0 /\ ~Type[kind].stop
         \/ Type[to].time = 0 /\ Type[to].decayTo = NoKind /\ ~Type[to].stop

Interval == 250            \* EVENT_DECAYINTERVAL
Buckets == 4               \* EVENT_DECAY_BUCKETS
Round == Interval * Buckets

VARIABLES
  items,       \* slot -> [kind, duration, decaying, here, refs]; here: it has a parent
  decayItems,  \* bucket -> list of slots
  toDecay,     \* toDecayItems, first to last
  toRelease,   \* ToReleaseItems
  lastBucket,
  wait,        \* slot -> [since, left, twice]: the checks since startDecay took
               \* it, the duration it had then, and whether its
               \* state was reset while it waited
  turns

decayVars == <<items, decayItems, toDecay, toRelease, lastBucket, wait, turns>>

Free == [kind |-> NoKind, duration |-> 0, decaying |-> FALSE, here |-> FALSE, refs |-> 0]
NotWaiting == [since |-> 0, left |-> 0, twice |-> FALSE]

\* Item::canDecay
CanDecay(item) == item.here /\ Decays(item.kind)

Created(kind, duration) ==
  [kind |-> kind, duration |-> duration, decaying |-> FALSE, here |-> TRUE, refs |-> 1]

\* Item::setID.  A kind that has a duration of its own resets the state of the
\* item and its duration, unless the item comes from one that stops the time.
SetId(item, kind) ==
  LET type == Type[kind]
      kept == IF type.time = 0 /\ ~type.stop /\ type.decayTo = NoKind
              THEN [item EXCEPT !.kind = kind, !.duration = 0, !.decaying = FALSE]
              ELSE [item EXCEPT !.kind = kind]
  IN IF type.time > 0 /\ (~Type[item.kind].stop \/ item.duration = 0)
     THEN [kept EXCEPT !.duration = type.time, !.decaying = FALSE] ELSE kept

(***************************************************************************)
(* The state a check works on: [items, toDecay, toRelease, wait, buckets].  *)
(***************************************************************************)
Count(s, list) == Cardinality({k \in DOMAIN list : list[k] = s})
InBuckets(s, buckets) ==
  Count(s, buckets[0]) + Count(s, buckets[1]) + Count(s, buckets[2]) + Count(s, buckets[3])
Entries(s) == Count(s, toDecay) + InBuckets(s, decayItems)

TakenUp(item) == [item EXCEPT !.refs = @ + 1, !.decaying = TRUE]
Anew(waiting, duration) == [waiting EXCEPT !.since = 0, !.left = duration]
Twice(waiting, again) == [waiting EXCEPT !.twice = @ \/ again]

\* Mutant: an item that waits already is taken again.
Listed_Again(w, s) ==
  IF CanDecay(w.items[s])
  THEN [w EXCEPT !.items[s] = TakenUp(@), !.toDecay = <<s>> \o @, !.wait[s] = Anew(@, w.items[s].duration)]
  ELSE w

\* Game::startDecay of an item that has some duration left: it is taken unless
\* its state says that it was.
Listed(w, s) ==
  IF CanDecay(w.items[s]) /\ ~w.items[s].decaying
  THEN [w EXCEPT !.items[s] = TakenUp(@), !.toDecay = <<s>> \o @, !.wait[s] = Anew(@, w.items[s].duration)]
  ELSE w

\* Game::internalRemoveItem, or the old item of a replacement.
Dropped(w, s) == [w EXCEPT !.items[s].here = FALSE, !.toRelease = Append(@, s)]

\* An item that comes into the world.
Made(w, s, kind, duration) == [w EXCEPT !.items[s] = Created(kind, duration), !.wait[s] = NotWaiting]

\* Game::transformItem: the same item under another kind, or a new one.  waits:
\* a list names the item, and will go on to do so.
Transformed(w, s, kind, new, waits) ==
  IF <<w.items[s].kind, kind>> \in Replaces
  THEN Made(Dropped(w, s), new, kind, Type[kind].time)
  ELSE LET item == SetId(w.items[s], kind)
       IN [w EXCEPT !.items[s] = item, !.wait[s] = Twice(@, waits /\ w.items[s].decaying /\ ~item.decaying)]

\* Game::internalDecayItem.  Only an item that becomes another one starts to
\* decay again.  An item with nothing left would decay at once, but an item that
\* can decay always has something left (DecayProofs, TimeIsLeft).
Decayed(w, s, new) ==
  LET to == Type[w.items[s].kind].decayTo
  IN IF to = Gone THEN Dropped(w, s)
     ELSE Listed(Transformed(w, s, to, new, Entries(s) > 1),
                 IF <<w.items[s].kind, to>> \in Replaces THEN new ELSE s)

\* The bucket an item with less than a round left goes to.
NewBucket(bucket, duration) == (bucket + (duration + Interval \div 2) \div 1000) % Buckets

\* The bucket cleanup puts an item in.
FirstBucket(duration, last) ==
  IF duration >= Round THEN last ELSE (last + 1 + duration \div 1000) % Buckets

\* Mutant: a visit takes off the time between two checks, not between two visits.
Elapsed_OneCheck(duration) == IF duration < Interval THEN duration ELSE Interval

\* What one visit takes off: a bucket is walked every fourth check.
Elapsed(duration) == IF duration < Round THEN duration ELSE Round

\* A slot for the item a replacement makes.
NewSlot(w) == CHOOSE s \in Slot : w.items[s].kind = NoKind

\* An entry leaves the lists, and is given back; or goes to the end of one.
Ended(w, s) == [w EXCEPT !.toRelease = Append(@, s)]
PutIn(w, s, bucket) == [w EXCEPT !.buckets[bucket] = Append(@, s)]

\* One turn of checkDecay's loop, for the entry s of the bucket.  What stays in the
\* bucket is put in again, in the same order.
Visit(w, s, bucket) ==
  LET item == w.items[s]
      duration == item.duration - Elapsed(item.duration)
      aged == [w EXCEPT !.items[s].duration = duration]
  IN IF ~CanDecay(item)
     THEN Ended([w EXCEPT !.items[s].decaying = FALSE], s)
     ELSE IF duration <= 0 \/ (duration < Round /\ NewBucket(bucket, duration) = bucket)
     THEN Ended(Decayed(aged, s, NewSlot(w)), s)
     ELSE PutIn(aged, s, IF duration < Round THEN NewBucket(bucket, duration) ELSE bucket)

\* Game::cleanup: references given back, and toDecayItems sorted in.
FreeReleased(its, released) ==
  [s \in Slot |-> LET left == its[s].refs - Count(s, released)
                  IN IF its[s].kind # NoKind /\ left = 0 THEN Free ELSE [its[s] EXCEPT !.refs = left]]
Sorted(buckets, list, its, last) ==
  FoldLeft(LAMBDA bs, s : [bs EXCEPT ![FirstBucket(its[s].duration, last)] = Append(@, s)], buckets, list)

DecayInit ==
  /\ items = [s \in Slot |-> Free]
  /\ decayItems = [b \in 0..(Buckets - 1) |-> <<>>]
  /\ toDecay = <<>> /\ toRelease = <<>>
  /\ lastBucket = 0
  /\ wait = [s \in Slot |-> NotWaiting]
  /\ turns = 0

Work == [items |-> items, toDecay |-> toDecay, toRelease |-> toRelease, wait |-> wait,
         buckets |-> decayItems]
Apply(w) ==
  /\ items' = w.items /\ toDecay' = w.toDecay /\ toRelease' = w.toRelease /\ wait' = w.wait

\* Bound: the pool has free slots for the items that would be made of so many.
Spare(n) == n <= Cardinality({s \in Slot : items[s].kind = NoKind})

\* Game::checkDecay
AfterWalk(bucket) ==
  FoldLeft(LAMBDA w, s : Visit(w, s, bucket), [Work EXCEPT !.buckets[bucket] = <<>>], decayItems[bucket])
CheckDecay ==
  LET bucket == (lastBucket + 1) % Buckets
      w == AfterWalk(bucket)
  IN /\ Spare(Cardinality({s \in Slot : items[s].here /\ Count(s, decayItems[bucket]) > 0}))
     /\ lastBucket' = bucket
     /\ decayItems' = Sorted(w.buckets, w.toDecay, w.items, bucket)
     /\ toDecay' = <<>> /\ toRelease' = <<>>
     /\ items' = FreeReleased(w.items, w.toRelease)
     /\ wait' = [s \in Slot |-> IF items'[s].kind = NoKind THEN NotWaiting
                                ELSE IF items'[s].decaying THEN [w.wait[s] EXCEPT !.since = @ + 1]
                                ELSE w.wait[s]]
  /\ UNCHANGED turns

\* Game::cleanup after the creatures' turn.
CleanUp ==
  /\ toDecay # <<>> \/ toRelease # <<>>
  /\ decayItems' = Sorted(decayItems, toDecay, items, lastBucket)
  /\ toDecay' = <<>> /\ toRelease' = <<>>
  /\ items' = FreeReleased(items, toRelease)
  /\ wait' = [s \in Slot |-> IF items'[s].kind = NoKind THEN NotWaiting ELSE wait[s]]
  /\ UNCHANGED <<lastBucket, turns>>

Turn == turns < Turns /\ turns' = turns + 1 /\ UNCHANGED <<decayItems, lastBucket>>

\* An item comes into the world and starts to decay: a corpse, a field, an item
\* of a player who logs in, one with a duration a script gave it.
Appear(kind, duration) ==
  /\ Cardinality({s \in Slot : items[s].kind # NoKind}) < Crowd /\ Turn
  /\ LET s == NewSlot(Work)
     IN Apply(Listed(Made(Work, s, kind, duration), s))

\* Actions::internalUseItem: transformItem, then startDecay of the item itself,
\* which after a replacement is no longer in the world.
Use(s) ==
  /\ items[s].here /\ UsesTo[items[s].kind] # NoKind /\ Spare(1) /\ Turn
  /\ Apply(Listed(Transformed(Work, s, UsesTo[items[s].kind], NewSlot(Work), Entries(s) > 0), s))

\* Game::internalRemoveItem by a player or a script.
TakeAway(s) ==
  /\ items[s].here /\ Turn
  /\ Apply(Dropped(Work, s))

DecayNext ==
  \/ CheckDecay \/ CleanUp
  \/ \E kind \in FirstKinds : \E duration \in {Type[kind].time} \cup Odd : Appear(kind, duration)
  \/ \E s \in Slot : Use(s) \/ TakeAway(s)

DecaySpec == DecayInit /\ [][DecayNext]_decayVars

-----------------------------------------------------------------------------
(* Every reference is accounted for: an item has one from the world and    *)
(* one from each entry of a list, less those in ToReleaseItems, so that no *)
(* list ever names an item that is freed (game.cpp startDecay, checkDecay, *)
(* cleanup and internalRemoveItem move them).  An item whose state says it *)
(* decays is in a list: it cannot be forgotten.                            *)
NoDanglingEntry ==
  \A s \in Slot :
    /\ items[s].refs = Entries(s) + Count(s, toRelease) + (IF items[s].here THEN 1 ELSE 0)
    /\ items[s].decaying => Entries(s) > 0

(* No item outlives its duration by more than one check of 250 ms, however *)
(* it is moved between the buckets; an item used while it waits, whose     *)
(* state setID has reset, is listed twice and goes earlier (game.cpp       *)
(* checkDecay and cleanup choose the bucket).                              *)
DecaysInTime ==
  \A s \in Slot :
    items[s].decaying /\ CanDecay(items[s]) => wait[s].since * Interval <= wait[s].left + Interval

(* An item that was listed once goes less than a second too early: the     *)
(* remainder under a second is rounded with a quantum of 1000 ms, not of   *)
(* the 250 ms between two checks (game.cpp:3909).                          *)
NotTooEarly ==
  [][\A s \in Slot :
       items[s].decaying /\ CanDecay(items[s]) /\ ~wait[s].twice
         /\ items'[s].kind # items[s].kind /\ turns' = turns
       => (wait[s].since + 1) * Interval > wait[s].left - 1000]_decayVars

(* Both, as game.cpp's startDecay, checkDecay and cleanup keep them.       *)
DecayKept == NoDanglingEntry /\ DecaysInTime
=============================================================================
