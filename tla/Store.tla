-------------------------------- MODULE Store --------------------------------
(***************************************************************************)
(* What is saved and when it is safe (iologindata.cpp, iomapserialize.cpp,   *)
(* the transactions of database.cpp): one character, the access lists of the  *)
(* houses and the items on their floors.                                    *)
(*                                                                         *)
(* A save is a program of statements inside a transaction.  The database is   *)
(* external: a statement succeeds, is refused, or meets a lost connection, in *)
(* which case executeQuery sleeps and repeats it and MYSQL_OPT_RECONNECT gives *)
(* it a new connection, whose predecessor's transaction is gone.              *)
(***************************************************************************)
EXTENDS Integers, FiniteSetsExt, SequencesExt

CONSTANTS
  Inventory,           \* what the character carries in its n-th version
  SlotIds, LockerIds,  \* 1..10 and 0..99 in the code
  FirstSid,            \* saveItems numbers items from here: 100 in the code
  Tries,               \* how often a failed save is tried: 3 in the code
  MaxVersion,          \* bound on the changes of the world
  MaxFaults,           \* bound on refused statements and lost connections
  NoJob

VARIABLES
  storeOnline,         \* is the character in the game
  live,                \* version in memory, of the character and of the map
  disk,                \* committed: table -> set of rows
  tx,                  \* the same as the open transaction sees it, or NoJob
  job,                 \* the save in progress, or NoJob
  acked,               \* version of each target for which a save reported success
  cut,                 \* a connection was lost inside a transaction
  faults
storeVars == <<storeOnline, live, disk, tx, job, acked, cut, faults>>

\* the murders are written as the spells are, the depots as the items
PlayerTables == {"players", "spells", "items", "storage"}
MapTables == {"lists", "tiles"}
Targets == {"player", "lists", "tiles"}
Home(target) == IF target = "player" THEN PlayerTables ELSE {target}

(***************************************************************************)
(* saveItems: the slots first, then breadth first through the containers.  A  *)
(* row names the item, the row of its container (or the slot) and its own      *)
(* number.                                                                 *)
(***************************************************************************)
RECURSIVE Unpack(_, _)
Unpack(queue, rows) ==
  IF queue = <<>> THEN rows
  ELSE LET bag == Head(queue)
           base == FirstSid + Cardinality(rows)
           row(i) == [pid |-> bag.sid, sid |-> base + i, item |-> bag.inside[i].item]
           sub == [i \in DOMAIN bag.inside |-> [sid |-> base + i, inside |-> bag.inside[i].inside]]
       IN  Unpack(Tail(queue) \o SelectSeq(sub, LAMBDA b : b.inside # <<>>),
                  rows \cup {row(i) : i \in DOMAIN bag.inside})

SaveItems(carried) ==
  LET slots == SetToSortSeq(DOMAIN carried, <)
      row(i) == [pid |-> slots[i], sid |-> FirstSid + i, item |-> carried[slots[i]].item]
      bags == [i \in DOMAIN slots |-> [sid |-> FirstSid + i, inside |-> carried[slots[i]].inside]]
  IN  Unpack(SelectSeq(bags, LAMBDA b : b.inside # <<>>), {row(i) : i \in DOMAIN slots})

\* loadPlayer walks the rows from the highest number down and pushes each item
\* to the front of its container; a row whose container is gone is skipped
RECURSIVE Inside(_, _)
Inside(rows, sid) ==
  LET mine == SetToSortSeq({r \in rows : r.pid = sid}, LAMBDA a, b : a.sid > b.sid)
  IN  FoldLeft(LAMBDA list, r : <<[item |-> r.item, inside |-> Inside(rows, r.sid)]>> \o list, <<>>, mine)

LoadItems(rows) ==
  LET top(s) == {r \in rows : r.pid = s}
  IN  [s \in {t \in SlotIds \cup LockerIds : top(t) # {}} |->
         LET r == CHOOSE x \in top(s) : \A y \in top(s) : x.sid >= y.sid
         IN  [item |-> r.item, inside |-> Inside(rows, r.sid)]]

(***************************************************************************)
(* The programs.  Rows carry their version; a table of items carries the      *)
(* rows themselves.  The statements of saveHouseInfo that write the houses     *)
(* are not checked.                                                        *)
(***************************************************************************)
Rows(table, v) == IF table = "items" THEN SaveItems(Inventory[v]) ELSE {v}

Put(table, v) == [op |-> "put", table |-> table, rows |-> Rows(table, v)]
Clear(table) == [op |-> "clear", table |-> table, rows |-> {}]
Add(table, v) == [op |-> "add", table |-> table, rows |-> Rows(table, v)]

SavePlayer(v) ==
  <<Put("players", v), Clear("spells"), Add("spells", v),
    Clear("items"), Add("items", v), Clear("storage"), Add("storage", v)>>
SaveMap(table, v) == <<Clear(table), Add(table, v)>>

Program(target, v) == IF target = "player" THEN SavePlayer(v) ELSE SaveMap(target, v)

\* DBInsert sends nothing when it has no rows
Run(content, s) ==
  CASE s.op = "put"   -> [content EXCEPT ![s.table] = s.rows]
    [] s.op = "clear" -> [content EXCEPT ![s.table] = {}]
    [] s.op = "add"   -> [content EXCEPT ![s.table] = @ \cup s.rows]

(***************************************************************************)
(* State.                                                                  *)
(***************************************************************************)
StoreInit ==
  /\ storeOnline = FALSE
  /\ live = [t \in Targets |-> 1]
  /\ disk = [t \in PlayerTables \cup MapTables |-> Rows(t, 1)]
  /\ tx = NoJob /\ job = NoJob
  /\ acked = [t \in Targets |-> 1]
  /\ cut = {} /\ faults = 0

Key(target) == IF target = "player" THEN "players" ELSE target
OnDisk(target) == IF disk[Key(target)] = {} THEN 0 ELSE Max(disk[Key(target)])

\* a failed save is repeated tries times in all; after it come the targets in after
Job(target, tries, after) ==
  [target |-> target, left |-> Program(target, live[target]), tries |-> tries, after |-> after]
\* BEGIN precedes databaseLock, but what may come between is a question of the I/O
\* thread about bans or accounts: the database thread has a connection of its own
BeginSave(target, tries, after, content) == job' = Job(target, tries, after) /\ tx' = content
Finish == job' = NoJob /\ tx' = NoJob

Load ==
  /\ job = NoJob /\ ~storeOnline
  /\ storeOnline' = TRUE
  /\ live' = [live EXCEPT !["player"] = OnDisk("player")]
  /\ UNCHANGED <<disk, tx, job, acked, cut, faults>>

Change(target) ==
  /\ job = NoJob /\ live[target] < MaxVersion
  /\ target = "player" => storeOnline
  /\ live' = [live EXCEPT ![target] = @ + 1]
  /\ UNCHANGED <<storeOnline, disk, tx, job, acked, cut, faults>>

\* Player::onRemoveCreature; keep is the column `save' of the character: if it is
\* 0 only the time and address of the login are written, and that is a success
Logout(keep) ==
  /\ job = NoJob /\ storeOnline
  /\ storeOnline' = FALSE
  /\ IF keep THEN BeginSave("player", Tries, <<>>, disk) ELSE UNCHANGED <<job, tx>>
  /\ UNCHANGED <<live, disk, acked, cut, faults>>

\* Game::saveGameState: each player once, then Map::save, which tries the houses
\* and, if they are saved, the items on their floors
SaveGameState(keep) ==
  /\ job = NoJob
  /\ IF storeOnline /\ keep THEN BeginSave("player", 1, <<"lists", "tiles">>, disk) ELSE BeginSave("lists", Tries, <<"tiles">>, disk)
  /\ UNCHANGED <<storeOnline, live, disk, acked, cut, faults>>

Proceed(saved, content) ==
  IF job.after = <<>> \/ (~saved /\ job.target # "player") THEN Finish
  ELSE BeginSave(Head(job.after), Tries, Tail(job.after), content)

\* Mutant: a statement that is refused is passed over
Fail_GoesOn(content) == job' = [job EXCEPT !.left = IF @ = <<>> THEN @ ELSE Tail(@)] /\ UNCHANGED tx

\* return false: the destructor of the transaction rolls it back
Fail(content) ==
  IF job.tries > 1 THEN BeginSave(job.target, job.tries - 1, job.after, content) ELSE Proceed(FALSE, content)

Statement ==
  /\ job # NoJob /\ job.left # <<>>
  /\ job' = [job EXCEPT !.left = Tail(@)]
  /\ IF tx = NoJob THEN disk' = Run(disk, Head(job.left)) /\ UNCHANGED tx
     ELSE tx' = Run(tx, Head(job.left)) /\ UNCHANGED disk
  /\ UNCHANGED <<storeOnline, live, acked, cut, faults>>

Refused ==
  /\ job # NoJob /\ job.left # <<>> /\ faults < MaxFaults
  /\ faults' = faults + 1
  /\ Fail(disk)
  /\ UNCHANGED <<storeOnline, live, disk, acked, cut>>

\* CR_SERVER_LOST: the statement is repeated on a connection with no transaction
Reconnect ==
  /\ job # NoJob /\ tx # NoJob /\ job.left # <<>> /\ faults < MaxFaults
  /\ faults' = faults + 1
  /\ cut' = cut \cup {job.target}
  /\ acked' = [acked EXCEPT ![job.target] = 0]     \* what it promised before is gone too
  /\ tx' = NoJob
  /\ UNCHANGED <<storeOnline, live, disk, job>>

Commit ==
  /\ job # NoJob /\ job.left = <<>>
  /\ disk' = IF tx = NoJob THEN disk ELSE tx
  /\ cut' = IF tx = NoJob THEN cut ELSE cut \ {job.target}
  /\ acked' = IF tx = NoJob THEN acked ELSE [acked EXCEPT ![job.target] = live[job.target]]
  /\ Proceed(TRUE, disk')
  /\ UNCHANGED <<storeOnline, live, faults>>

\* mysql_commit reports an error, with the work of the transaction kept or dropped
CommitFails(kept) ==
  /\ job # NoJob /\ job.left = <<>> /\ faults < MaxFaults
  /\ disk' = IF kept /\ tx # NoJob THEN tx ELSE disk
  /\ cut' = IF kept /\ tx # NoJob THEN cut \ {job.target} ELSE cut
  /\ faults' = faults + 1
  /\ Fail(disk')
  /\ UNCHANGED <<storeOnline, live, acked>>

\* the process dies and starts again: the map comes back from the disk
Crash ==
  /\ storeOnline' = FALSE
  /\ live' = [t \in Targets |-> OnDisk(t)]
  /\ Finish
  /\ UNCHANGED <<disk, acked, cut, faults>>

StoreNext ==
  \/ Load \/ Statement \/ Refused \/ Reconnect \/ Commit \/ Crash
  \/ \E target \in Targets : Change(target)
  \/ \E keep \in BOOLEAN : Logout(keep) \/ SaveGameState(keep)
  \/ \E kept \in BOOLEAN : CommitFails(kept)

StoreSpec == StoreInit /\ [][StoreNext]_storeVars

(***************************************************************************)
(* Properties.                                                             *)
(***************************************************************************)
\* A save that is refused in the middle, given up or cut by the death of the
\* process leaves the old character or house and never half of a new one, and a
\* save that reported success is never undone.  The exception is a connection
\* lost inside the transaction: the statements after it are not part of one.
SavesAreWhole ==
  \A t \in Targets \ cut : \E v \in acked[t]..MaxVersion : \A table \in Home(t) : disk[table] = Rows(table, v)

\* What a login reads back is what the last save wrote: every item in its slot,
\* in its container and in its place there.
LoadsWhatWasSaved ==
  "player" \notin cut => LoadItems(disk["items"]) = Inventory[OnDisk("player")]
=============================================================================
