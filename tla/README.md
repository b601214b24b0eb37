# A verification project for the game server

The repository is a C++ game server (YurOTS, a derivative of The Forgotten Server 1.2 in its
Nostalrius variant). All of its code is in `src/src/*.cpp` and `*.h`; `src/data` holds the world's
scripts and tables. This directory models the parts of the server whose correctness depends on the
*order* in which things happen: threads, queues, timers, connections, sessions, what several players
share, what creatures remember of each other, and what survives a restart. Each module names, in its
comments and in `PROJECT.json` (`map`), the code it was translated from. No claim below comes from a
comment of the code; where a comment promises something the code does not do, a run shows it
(section 6).

Contents: 1 inventory, 2 plan, 3 modules and their correspondence to the code, 4 runs and bounds,
5 fairness, 6 where the code and its comments disagree and what else was seen, 7 proofs, 8 what is
not modelled.

## 1. Inventory

### 1.1 Threads and how the parts call each other

| thread | started by | runs |
|---|---|---|
| main (I/O) | `main` -> `ServiceManager::run` | boost::asio's handlers: `ServicePort::onAccept`, `Connection::parseHeader`, `parsePacket`, `onWriteOperation`, the connection timers, signals |
| dispatcher | `g_dispatcher.start` | every `Task`: the whole game, one task at a time |
| scheduler | `g_scheduler.start` | waits for the first event to be due and hands it to the dispatcher |
| database | `g_databaseTasks.start` | queries that nobody waits for |

All game state (players, creatures, tiles, items, parties, chat, houses) belongs to the dispatcher's
thread. The others reach it in one way only, by `Dispatcher::addTask`; the game reaches them by
`Scheduler::addEvent`/`stopEvent`, `DatabaseTasks::addTask` and, directly and under
`connectionLock`, `Connection::send` and `Connection::close`. So the hard parts are of two kinds: the
queues between threads, and long-lived objects that tasks take up again later (an event that fires,
a delayed connect, an offer of a trade, a walk task) on a state that others have changed meanwhile.

### 1.2 Components

| component | state | operations | what makes it hard | what makes it correct | module |
|---|---|---|---|---|---|
| Task queues (`tasks.*`, `scheduler.*`, `thread_holder_base.h`) | `taskList`, `eventList`, `eventIds`, `lastEventId`, two thread states | `addTask`, `addEvent`, `stopEvent`, `stop`, `shutdown`, two `threadMain` loops | notification outside the mutex, spurious wake-ups, an earlier event overtaking the one waited for, a shutdown from inside | no wake-up lost; every accepted task runs once; no event early or after it was stopped; one owner | TaskSystem |
| Connection (`connection.*`, with `Protocol` and `ServicePort::onAccept`) | state, message queue, two timers, outstanding operations | `accept`, `parseHeader`, `parsePacket`, `send`, `internalSend`, `onWriteOperation`, `handleTimeout`, `close`, `closeAll`, destructor | two threads share it; timers race their cancellation; closing must let messages out | one write at a time, in order; released exactly once, last; no client left unheard | Connection, ConnectionLife |
| Game session (`protocolgame.cpp`, login part; `Player`, `Game`) | `player`, `eventConnect`, `acceptPackets`, references, `players`, `ToReleaseCreatures` | login, delayed connect, logout, release, kick, death, `checkCreatures`, `cleanup` | take-over with a delay, releases in any order, manual reference counts | client and Player name each other; counts are exact; a login is answered | Session |
| Output pool (`outputmessage.*`) | `bufferedProtocols`, the chain of `sendAll` events | add, remove, `sendAll` | the chain stops when the list is empty | whoever plays is flushed | Session |
| Waiting list (`waitlist.*`) | two lists with expiry times | `clientLogin`, `getClientSlot`, `cleanupList` | clients retry, expire and overtake | in line once; a place is kept; nobody overtaken | WaitList |
| Database queue (`databasetasks.*`) | queue, thread, lock | `addTask`, `threadMain`, `flush`, `shutdown` | queries run by two threads at the shutdown | each once, in order; none lost | DatabaseTasks |
| Party (`party.*`, `Player`, party channels of `Chat`) | leader, members, invitations both ways, channel users | invite, revoke, join, leave, pass leadership, disband, log out | objects deleted by the last step of nested calls | both sides agree; no empty party | Party |
| Trade (`game.cpp`, `player.cpp`) | `tradeState`, `tradePartner`, `tradeItem`, `Game::tradeItems` | request, accept, close, and every move that closes one | anything may happen to an offer meanwhile | an offer stands unchanged or the trade closes; both give or neither | Trade |
| Chat (`chat.*`, `guild.*`) | channels, users, invitations | create, open, close, invite, exclude, talk, log out | slots of channels are used again; requests name slots | windows show what they are of; said is heard where meant | Channels, Chats |
| Rule violations (`game.cpp`) | `ruleViolations`, gamemasters' lists | report, take, answer, close, cancel, leave | reports are kept by session, named by player | lists are in step | Reports, Chats |
| Items and cylinders (`item.*`, `container.*`, `tile.*`, item part of `game.cpp`, `player.cpp`) | parents, counts, cached weights | move, add, remove, transform, pay | split and merge, exchange, partial moves | nothing made or lost; caches right | Items |
| Decay (`game.cpp`) | buckets, durations | `startDecay`, `checkDecay`, `cleanup` | rounding, items removed while listed | each decays in time, no entry dangles | Decay |
| Conditions and worn items (`condition.*`, `movement.*`) | conditions, bonuses already added | start, tick, end, wear, take off | bonuses are added and taken away in pairs | they balance | Effects |
| Creatures (`creature.*`, `monster.*`) | lists of friends and targets, pointers, check lists | appear, move, vanish, think, summon, convince, die | pointers to what goes away; who sleeps is awoken only by callbacks | no stale pointer; who must act is awake | Monsters |
| Ways and steps (`map.*`, `monster.*`) | search nodes, `localMapCache` | search, choose a step, take it | the map changes between choice and step | steps and searches end where they should | Paths, Steps |
| Walks and errands (`creature.*`, `player.*`, `game.cpp`) | walk lists, walk and action tasks, timers | walk, use, move, push, stop | a posted task cannot be taken back | a command is carried out once at most | Errands |
| Fights (`combat.*`, `player.*`, `creature.*`) | targets, marks, skulls, murders | target, strike, die, enter a zone, log out | marks of one are notes of others | marks last as long as the fight; kills are judged by them | Fights |
| NPCs (`npc.*`, `behaviourdatabase.*`) | focus, queue, topic | say, time out, leave | a rule's action starts the next customer's rule inside it | one customer after the other | Npc |
| Spawns, raids (`spawn.*`, `raids.*`) | places, running raid, events | check, spawn, start, reload | chains of events that re-arm themselves | a dead monster comes back; one raid at a time | Spawns, Raids |
| Houses, beds (`house.*`, `bed.*`) | owner, lists, sleepers, rent | buy, transfer, invite, kick, sleep, pay | owner changes while others hold the pieces | only the invited are inside; beds agree; goods follow the owner | Houses |
| Persistence (`iologindata.*`, `iomapserialize.*`, `database.*`, `item.*`, `condition.*`) | SQL rows and streams | save, load | half a save; a stream read differently than written | a save is whole; what is loaded was saved | Store, Records |
| Client view (`tile.*`, `map.*`, `protocolgame.cpp`) | what the client was told | add, remove, update, move | things are named by their place in a stack | both count alike | ClientView |

Not modelled: combat formulas, spells and weapons, experience, special cylinders, ports and start-up,
other protocols, codecs, scripts, loaders (section 8). Hazards, each at its line and with the
properties that guard it, are in `PROJECT.json`.

## 2. Plan

The parts were modelled in the order of what stands on what: the task queues; connections and sessions,
with ConnectionLife between them; what players share (waiting list, parties, trades); items; then
what the dispatcher keeps for longer than a task (decay, creatures, spawns, raids, saves, fights);
houses, chat, NPCs, errands, the client's view, ways and steps. All of these are done and checked.

A module is written so that it can be proved about: constants with named assumptions, one action
per operation, no RECURSIVE operator (Items, Records and Store have some, for nested containers, Monsters
for calls that come back to their caller; these stay with TLC).

Proofs, in the order of what says most: task queues, parties, connections with the refinement of
ConnectionLife, sessions, the database queue, raids, fights, chats, trades, the waiting list, houses, errands, steps, ways, effects, decay, the client's
view, NPCs. All are done (section 7); what is left to TLC is out of the prover's reach.

## 3. Modules and the code

**TaskSystem** (`tasks.*`, `scheduler.*`, `Game::setGameState`, `Game::shutdown`). The two worker threads are
program counters (`dPc`, `sPc`); an action is a stretch of `threadMain` between two points where another
thread can come in: the state test, the lock, the wait, the handler. `addTask`, `addEvent` and `stopEvent` are
one action each for their critical section (they hold one mutex throughout), and a separate action
for the notification, which the code sends after the unlock; `dOwed`/`sOwed` hold the callers that still
owe one. The heap is a set ordered by `cycle`, and a task of equal time may be popped in any order, as
`priority_queue` allows. Time is a counter; the system clock is read where the code reads it. The id
counter wraps at `IdSpace`, as `uint32_t` does.

**ConnectionLife** says what the game may assume: tasks are posted only while a connection is open,
closing posts the release last, and the object goes away after.

**Connection** (`connection.*`, `protocol.*`, `ServicePort::onAccept`). `conn` is the object together with
what asio holds for it: the read and the writes in flight, the armed timers, timers that were cancelled
but had already fired (their handler runs all the same, with no error, which is why a record
of a timer is a set), and the tasks posted. The recursive `connectionLock` makes a handler
atomic, except `close`, which leaves the manager's lock before it takes the connection's: `closing[t]`
is a thread between the two. `closeAll` runs without the lock, between any two handlers.

**Session** (`ProtocolGame::login`, `connect`, `release`, `logout`, `parsePacket`'s dispatch; `Player::kickPlayer`;
`Creature::onDeath`; `Game::removeCreature`, `checkCreatures`, `cleanup`; `OutputMessagePool`). An action is a task of the
dispatcher, with all it calls. A client is a protocol with its connection, a Player is an object that
one protocol's login made. Reference counts are explicit, one per owner.

**WaitList** (`WaitingList`). `slot` and the answer in seconds as the code computes them; entries expire by
`Tick`. An entry found in one list and erased through the other is undefined behaviour; the model
does what libstdc++'s node lists do (the node goes, the other list's size is one less), and `misplaced`
counts it.

**DatabaseTasks** (`DatabaseTasks`). Two program counters around one mutex; `shutdown` runs in the
dispatcher's thread what is still queued, while the worker may hold one query.

**Party** (`Party`, the party handlers of `Game`, `Player::onRemoveCreature`, `Chat`). `st` is a record of what the
objects hold, and the methods are operators from record to record, so a handler is the
composition of the methods it calls, in their order, with the nested disband. A Party's address may be
used again once it is deleted.

**Trade** (`playerRequestTrade` to `internalCloseTrade`; `Player::checkTradeState`, `onRemoveTileItem`, `onRemoveContainerItem`,
`onRemoveInventoryItem`, `onAddContainerItem`, `onCreatureMove`; `internalMoveItem` and `internalRemoveItem` of whole
items; `Player::queryDestination`). `RemovalCloses` and `AdditionCloses` compute which players' notifications
close a trade, per kind of cylinder. Weight, flags and the line of sight are choices: an exchange
that one of the tests stops moves nothing. Stacks are not split here but in Items. What the loops over
`getParent` find (`BagsOf`, `Above`) is defined as a least set, not by recursion, to be reasoned about.

**Channels** (`chat.*`, the channel handlers of `Game`). The client is external: it asks, and its
requests wait in `asked` until the game handles them, when the slot they name may be another
player's. `window` is what the client shows. A player in `Hasty` has a client that asks for a
channel again before it has been answered; the others wait. **Reports** (`ruleViolations`): a report
is kept under a session's id, so one whose reporter left is nobody's (`orphaned`). **Chats** composes
the two.

**Items** (`Game::internalMoveItem`, `internalAddItem`, `internalPlayerAddItem`, `internalRemoveItem`, `transformItem`, `addMoney`,
`removeMoney`; the cylinder methods of `Player`, `Container` and `Tile`). `world` is every object: kind, count, parent,
contents in order, the weight a container remembers (`held`), the player's slots and weight (`carried`), the
ground. As in Party a call is an operator from world to world, so an action is the whole handler: the queries
of the cylinder, the search for the real destination, the removal, the merge, the new object for the rest, the
notifications that refresh the player's weight. `due` is the ledger of what was given, taken and paid. Two things
the code does are kept and show in the properties. An exchange puts the worn item into the source by
`addThing` before the other item leaves it, so a full container that took part in an exchange whose move was
only partial stays above its size (`burst`); from then on `capacity() - size()` underflows and an added item may be dropped,
so `Accounted` speaks of runs without it. And an object whose `addThing` was refused is garbage no one deletes; the model frees it.

**Houses** (`house.*`, `bed.*`, the house commands). An operator from `W` = [house, player] to `W` per
method, as in Party; `setOwner` inside `payHouses` inside a start of the server is one step. `payHouses` goes
through the houses one by one; as everybody is offline and a sleeper has one bed, each house is its own affair, and the model says so
(`PayHouses`).

**Decay** (`Game::startDecay`, `checkDecay`, `cleanup`, `Item::setID`). The buckets are lists, since an item can be
listed twice; `AfterWalk` is `checkDecay`'s loop, one `Visit` per entry, and what a check or a use makes (`Made`) needs a
free slot of the pool (`Spare`). **Effects** (`condition.cpp`, `MoveEvent::EquipItem`, `DeEquipItem`): what each condition and
each worn item has added is kept, and compared with what speed and skills show. **Monsters**
(`monster.cpp`, `creature.cpp`, `Game::checkCreatures`): `w` is a record of each creature's lists and pointers,
and the callbacks of an action are operators applied to all spectators. **Spawns** and **Raids**: one
event each, with its stage (armed, queued), since `stopEvent` reaches only an armed one; a raid object is a name
and the generation it was read in.

**Fights** (`combat.cpp`, `player.cpp`, `creature.cpp`): the targets, attacked sets, locks, skulls, hits and murders of
players and their summons; damage and chance only decide whether something happens. **Npc**: an action
of a rule may let the customer go, which runs the next one's rule before the rest of the first. What is still to be done
is kept as a stack of duties (`todo`); `React` puts a rule's actions on it, `CarryOut` does the first (`CheckAction`), and no handler
begins before all are done (`AllDone`).
**Errands**: the walk timer, the walk task and the action task with their places in scheduler and
dispatcher. **Business** puts the two next to each other.

**Paths** (`Map::getPathMatching`, `AStarNodes`, `FrozenPathingConditionCall`, `isSightClear`) runs a search step by
step; **Steps** (`Monster::getNextStep` and what it calls, `localMapCache`) one monster and one target.

**Store** (`IOLoginData::savePlayer`, `loadPlayer`, `IOMapSerialize`, `DBTransaction`, `Database::executeQuery`) is a program of
statements against tables; **Records** (`Item::serializeAttr`, `Condition::serialize`, their readers) the streams
inside a row. **ClientView** (`Tile::onAddTileItem` ..., `Map::moveCreature`, `ProtocolGame::send*`) the stack positions that
server and client count. A message names a place only: the one for a step makes the client carry whatever it has there, so a
cell that it shows wrongly (`behind`) may make the next one wrong.

The **MC** modules only give constants their values and put parts next to each other (section 4).
Modules ending in **Proofs** hold theorems (section 7).

## 4. Runs

Every run is listed in `PROJECT.json` with its properties; each property has a mutant, a plausible slip of the
code (a lost notification, a swapped order, a forgotten reset) under which TLC finds it violated with
the same configuration.

Parts that have no variable in common share a run: the initial state chooses which part runs
(`part`), the others stay in one initial state, so the run is the sum of the parts' state spaces and
not their product. Nothing is lost by it, since no action of one part reads another's variables.

| run | instance | what it shows |
|---|---|---|
| `task_system` | 2 tasks, 1 foreign producer, clock 0..2, delays up to 1, fair threads | safety of both queues in all interleavings, spurious wake-ups and shutdown; tasks and events are served |
| `connection` | 2 messages, 2 packets, fair threads | order, draining, implements ConnectionLife; a silent client is released |
| `connection_linger` | 1 message, 1 packet | section 6 |
| `session` | 3 clients of 1 character, then that character's effects, errands and NPC | take-over, references, autosend; bonuses balance; commands and customers are served once |
| `session_live` | 2 clients, 2 characters of one account | one online; a login is answered; a Player is deleted |
| `session_leak` | 2 clients, 1 character | section 6 |
| `services` | 2 premium, 2 free clients and 1 place; 3 queries; a spawn of 2 places; a line of 3 cells and a client | lines, queries, spawns and stacks; all are served |
| `social` | 3 players, 2 party addresses; 3 traders, 2 bags, 1 thing; 3 chatters, 1 slot, 2 requests on the way; 2 reporters, 2 gamemasters | agreement of parties, trades, channels and reports |
| `party_channel` | 3 players, 1 address | section 6 |
| `items` | 5 objects of 5 kinds, stacks of 2, 3 slots; 1 house, 3 residents | places, weights, nothing made or lost; houses, beds and goods agree |
| `items_remainder` | 6 objects, `queryPlayerContainers` off | section 6 |
| `world` | raids, decay, monsters, fights, records, saves, paths, steps | what each keeps between two tasks, or over a restart |

Bounds, and why they are enough:

- *TaskSystem*: two tasks are an early and a late event, or two adders of an empty list; `MaxDelay` = 1 makes an event due at
  once or later; `MaxTime` lets an event expire after its due time (`TaskExpiration` = 1). `IdSpace` = 8 is not reached;
  wrapping is in the theorems.
- *Connection*: two messages make a queue with a head and a tail; two packets are a first and a later one.
- *Session*: a holder, one who waits to take over and one who comes between; `ReplaceKick` has both values, since the
  configuration can be reloaded; `MaxPosted` = 2 bounds the tasks of one connection (a login and its release, or a logout between).
- *WaitList*: `MaxMisplaced` saturates; it only shifts an expiry time, and 2 crosses its step. The run has
  nobody with CanAlwaysLogin, since such players may come and go for ever and starve the others, by design.
- *DatabaseTasks*: one query held, one queued, one that comes with the shutdown; one of them wants an answer.
- *Spawns*: `Losses` = 3 deaths let both places be empty at once and one again after. *ClientView*: three cells; a crowd of 2 with `Shown` = 4
  keeps the code's gap of two (8 and 10), crosses the limit of what a tile shows (10 in the code), and `Memory` = 2 that of known creatures.
- *Party*: a leader, a member and an outsider; an address that is used again, and another.
- *Trade*: two traders and a third person; a bag in a bag with one thing in it; tiles at distance 0, 1, 2
  and 3 separate the ranges 1 and 2 that the code tests. One slot and one place in a bag make every
  exchange depend on the place it frees.
- *Channels*: one slot, so that it is used again by the other payer; two requests on the way are a request and
  one that overtakes its reason. What needs three or four was checked apart from the run, and is proved (section 7).
- *Items*: a stack of 2 is split, merged, overflows and leaves a rest; a backpack of 2 places with a bag of 2 in
  it is full, nested and, moved into itself, a cycle; the back and both hands are all the slots whose tests
  differ; a sword of weight 2 among things of weight 1 makes `Capacity` = 4 bind; two kinds of coins make change. An
  action waits for the free objects it may need (`Free`), which bounds the world.
- *Houses*: an owner, another and one who cannot be loaded; `WarningLimit` = 1 (7 in the code) lets rent be missed once and lost.
- *Effects*: overlapping conditions of one kind, of two kinds on one number, and things worn over them. *Npc*: three customers
  are one served and two queued. *Errands*: two commands, the second over the first; a line of 4 tiles.
- *Raids*: a raid with three events, a one-time one and one without events; one reload. *Decay*: 4 slots, kinds that become one another by `setID` and one
  that needs a new item, a kind that stops; `Odd` durations below the quantum. *Monsters*: a player, a wild monster and one that
  summons, 3 cells with `Sight` 1, `View` 2 and `Leash` 2 in the order of the code's 9, 11 and 30.
- *Fights*: two players and a summon; `RedLimit` 1 and `BanLimit` 2 cross both limits. *Records*: each attribute once, up to two
  items deep. *Store*: two versions, two tries, two faults. *Paths*: a field of 4 x 3 with walls, water and a crowd, `MaxNodes` small
  enough to run out; the wishes of who follows, keeps his distance or returns to his master, and of a player who walks up to a thing. *Steps*: `Half` = 1 for the 11 of the kept map.

CHECK_DEADLOCK is off where the system really stops: after a shutdown (TaskSystem, DatabaseTasks, saves), when the connection is
gone (Connection), when every client has gone (Session), when a search has ended (Paths).

## 5. Fairness

- *TaskSystem*: weak fairness of each thread and of the pending notifications (the operating system runs
  runnable threads) and of time. The timeout of `wait_until` has strong fairness: a wait past
  its deadline does not wake spuriously for ever instead of timing out. Producers and spurious wake-ups have none.
- *Connection*: weak fairness of handlers, of timers that are armed and of the abort of operations on a
  closed socket. Serving a posted task and destroying an unreferenced object have strong fairness:
  the dispatcher is a queue, and other tasks that call `disconnect` only delay them. The client has none.
- *Session*: the dispatcher, the delayed connects, `checkCreatures` and `sendAll` have weak fairness. Clients
  have none.
- *WaitList*: time passes, online players leave sooner or later, and the persistent clients retry.
- *DatabaseTasks*: weak fairness of both threads. *Spawns*: time passes (`Ripen`), the scheduler and the dispatcher
  run what is due. Monsters need not die.

## 6. Where the code and its comments disagree, and what else was seen

- `connection_linger`: `close()` leaves a socket with messages queued to "the destructor or onWriteOperation".
  When the client does not read, the write timer calls `close(FORCE_CLOSE)`, which returns because the
  connection is already closed: the socket stays.
- `session_leak`: `ProtocolGame::connect` takes "the Connection object no longer exists" for the sign that
  `release()` has run. The object may outlive it, and the Player is attached to a released protocol.
- `party_channel`: `disband` and `leaveParty` mean to close the party's channel for those who leave; the
  channel is not found once the player's party pointer is reset.
- `items_remainder`: `internalAddItem` means to "check if we can move add the whole amount". `queryMaxCount` counts nested bags,
  `queryDestination` searches them only with `queryPlayerContainers`, which config.lua ships false. A stack of coins then merges
  in part, the rest finds no place and is deleted, and `addMoney`, which uses the overload without `remainderCount`, is told that
  all went well. With `queryPlayerContainers` on, run `items` shows that nothing is lost.

What the models show beside that, part by part. Some of it is meant, some is not; the properties are stated so that they
hold with it.

- *TaskSystem*. `Scheduler::threadMain` says after a timeout that "there has to be an event", but a shutdown that takes the
  mutex between the timeout and the thread's re-acquisition clears the heap first, and `top()` and `pop()` of an empty heap follow
  (`SchedulerPopEmpty`, which run `task_system` takes). `Scheduler::shutdown` sets the state outside the mutex, so a thread between
  its state test and its lock can sleep for ever and `join` with it. The list that "should already be empty" there never is,
  since periodic events are always scheduled. `addEvent` returns `task->getEventId()` after the unlock, when the threads may have run and
  deleted the task already; the models return the id that was given.
- *Houses*. `transferToDepot` does nothing for an owner who is offline and cannot be loaded (`Lost`: `loadPlayer` refuses a character
  whose group does not exist), and `setOwner` goes on: `payHouses` takes such an owner's house at once, without a warning, and
  his goods stay for the next one. `GoodsFollowOwner` excepts him.
- *WaitList*. The list's size, off after erasures from the wrong list, gives a later client the timeout of a place that it
  does not have.
- *Channels*. A request to close that is handled late may close the player's own new channel, when that was given the slot of
  the old one, and what he said then lands in it. The client of a hasty player, who asks twice and leaves between, keeps the
  window of a channel he is not in.
- *Reports*. A report whose reporter has left is never erased and stays in the lists that show it; any player may close
  another's report by name; a report taken by a gamemaster who left cannot be taken by another.
- *Decay*. `setID` resets the decay state of a waiting item, which the next `startDecay` lists twice. A duration is rounded to
  1000 ms. A clone of a decaying item never decays.
- *Effects*. An overdue haste that is cast again beside a new paralysis leaves both; a charged item stays at its last use; the
  deferred conditions of a session that is gone are deleted.
- *Spawns*. A place whose monster stands elsewhere waits for the next death. *Raids*. A reload with a one-time, forced or queued
  raid leaves it running with nobody to stop it (`loose`); a raid without events hangs; `AreaSpawnEvent` writes the
  lifetime of a monster that it has just deleted.
- *Fights*. The second kill of one arena victim by one summon is not reported to its master, so the victim loses skills and
  stays; a poison tick locks its giver again, inside a protection zone too; a player with most of the damage is not
  counted when the creature that hit last is gone.
- *Npc*. A script whose BUSY rules contain Idle (the "jungle" of `captain1.npc`) lets its customer go and keeps the topic, so the
  next customer's "yes" answers an earlier offer. A goodbye to somebody who vanished is said into the next conversation. A script
  that does not catch every leave (`cody.npc` has no rule for it, `bulin.npc` one for players who have not begun his quest) stays
  with a player who is gone; `NpcAssumption` leaves them out, and `dwarf.npc`, which has no rules and serves nobody. The second `greetings` of `mad.npc` would queue who addresses
  it, but a rule before it takes the word.
- *Errands*. `stop` has no effect while the errand's timer is set or the walk is still posted; a click on the map does not cancel
  the walk task; a posted `playerAutoWalk` overrides a key pressed later; a failed step keeps the rest of the list.
- *ClientView*. A creature that hides on a crowded tile leaves the client one thing short (`behind`).
- *Paths*, *Steps*. `keepDistance` and `allowDiagonal` = false are never used; a search of radius 12 sees up to 625 tiles
  but has 512 nodes. A diagonal step south shifts the wrong rows of the kept map, since `getDistanceY` is absolute
  (`skewed`); when no direction is chosen the old `listWalkDir` stays.
- *Store*. BEGIN is sent before `databaseLock` is taken, so a query of another thread may come between: only the I/O thread's
  questions about bans and accounts, which change nothing, since `DatabaseTasks` has a `Database` of its own. A character whose
  column `save` is 0 is saved with success and not at all, until its next login brings back the old one.
  A BEGIN that fails unlocks a mutex that it does not own; `saveHouseInfo` ignores a failed UPDATE; when the connection
  is lost inside a transaction, what follows is committed statement by statement.
- *Records*. Weapons draw new random bonuses at every load; an item with no charges left comes back with all; SHOOTRANGE and
  MOVEMENT_ID are never written; the action id only of what can be moved; the cleared text of a board comes back from the map; the first
  of two equal fixed things on a tile takes what was saved of both; a type gone from the items file leaves the stream
  misaligned; the order of conditions is reversed at each login; damage conditions come back without ticks.

## 7. Proofs

TLAPS proves what follows for every value of the constants that the modules' ASSUMEs allow; TLC evaluates those
ASSUMEs in the passing runs. Every inductive invariant was first checked by TLC.

**TaskSystemProofs.** `TypeCorrect`; `WakeupsKept` (`DispatcherWakeup` and `SchedulerWakeup`: whoever finds the list empty, or
puts the earliest event, owes a notification until it is sent, and no other adder needs to); `EventsNotEarly`
(needs that the deadline slept for is that of an event still in the heap or earlier than all of them, and that a
thread that timed out is past it); `AcceptedServed` (nothing is accepted behind the terminate task);
`SingleOwner` (needs that shutdown tasks are unborn before their stage and that the heap is cleared once);
`StoppedStaysStopped` and `EventsLostByStopOnly`, which assume that there are more ids than tasks: an id that comes
back while an old event with it is in the heap would break them, and an id is bounded by the number of tasks
taken from `fresh`. In the code the counter has 32 bits.

**ConnectionProofs.** The methods are operators on the record `conn`, so the invariant is a predicate `Sound` of such a record
and of what the socket transmitted, with one lemma per method; a handler composes the lemmas as it composes the
methods. `Sound` has to say more than the properties: which operations and timers an open connection has, what a
closing one still owes (`Posts`), and that what is queued is what was accepted and not transmitted. Then `OneWrite`, `SentInOrder`,
`CloseDrains`, `NeverDeaf` and `WritesTimed`. `ImplementsLife`: with the state mapped to what the dispatcher sees, the first
state is one of ConnectionLife's and each step is one of its actions or a stutter (`LifeInv`).

**SessionProofs.** What the handlers count on is a fact about the dispatcher's queue: a login is the first task of
its protocol and only its release can be behind it, a delayed connect exists once, and until then the protocol has no Player, so
that becoming a Player's client overwrites nothing. From that: `HeldByTheirOwners` (client and Player name each other, reference
counts are exact, who plays is flushed), `OnePlayer`, the action property `OwnReleaseOnly`, and
`ImplementsConnectionLife`: the connections of a session behave as ConnectionLife too, so that the two detailed
models meet in one abstract specification, from both sides.

**ServicesProofs.** The database queue: the queue is the end of the sequence of accepted queries, so how many have left it is a number;
those have been run, but for the one the worker holds. `RunOnceInOrder`, `NoQueryLost`. The waiting list: `WaitInv` says that each list
has a client once, that the lists share none with each other, with those online or with the privileged, and that a client that
was told of some time has that in the line; hence `LineStays` (`LineKept`). It needs that a client is told the time of the
place where `findClient` finds it, which is never more than its entry got, whatever the misplaced erasures add to that.
`InTurn` (`NotOvertaken`) is a matter of counting: cleaned lists keep the order of the clients without gaps (`Ranks`,
`PlacesCleaned`), so that the place of a client is one more than the number of those ahead (`CountsAhead`).
The client's view: `ClientStaysInStep` is `ClientInStep` for any line of tiles, sight, creatures, items and limits. The invariant is
a predicate of tiles, hidden creatures and a view (`Right`): on no tile is a thing twice, a cell in sight that is not `behind` shows
what the player sees of it (`Fine`), and one out of sight shows nothing. A message names a place, and it does what is meant because the lists
before and after differ by one thing at that place (`Inserted`), which stays so when what the player does not see is stripped and the rest is cut; the
exception, a list that was cut and has lost a thing, is a crowd, and sent again. It needs `Crowd` < `Shown`. Each message
and each action has a lemma. The model had to be put right for it: a step was told with the name of its creature, which
the message does not have, so a cell may fall `behind` by a step from one that is; and such a cell is now trusted again only once it is described anew.

**WorldProofs.** *Raids.* That one raid runs is not inductive: a raid may start only if it would begin with its first
event, and a raid is used only while it has not been deleted. Both hold as long as no reload has left one behind
(`loose`), and only for raids of this generation or later. `OneRaidRuns`, `DeletedRaidsRest`.
*Houses.* Each operator from `W` to `W` has a lemma that says what it may do beside its house (`Beside`: nothing to another house, and a resident
is at most put out or woken) and that it leaves a sound world sound (`Well`: everybody in a house is invited, a bed and
its sleeper lead to each other). Inside an operator the world is not sound - the list has changed and who lost his invitation is still in - so
`InvitedBut` and `BedsBut` name what holds meanwhile. `setOwner` is then put together from transfer, kick, wake and the
two lists, and a start of the server from the rents of the houses. `InvitedAndAsleep`, and the action property `GoodsSentOn`.
The proofs assume that no house is the street and that 0 is nobody's GUID.
*Steps.* That the kept map is exact is its own invariant, with the types: each offset is followed through the lines and columns that move,
for a kept map of any width (`StepKeepsExact`). The choice of a step is one lemma (`EscapeIsGood`): whatever it ends with is open and not
nearer, or it is the only step there is. `StepsAreRight` is the half of `WalksRight` about steps (`StepsRight`).
*Paths*. A node looks only at the neighbours that lie ahead of it, so that a search misses nothing has to be shown of what it leaves
out: each such tile is known by way of the parent, at a cost that is no more (`OmittedKnown`). Then all around a closed node is known
(`ClosedCover`), and a way over closed nodes costs no less than they do (`WaysAreClosed`). `WaysCanBeWalked`: parents lead
from tile to neighbouring tile without loops, and what is found suits. `WaysAreBest`: a search that is not cut short fails only if no way leads to a tile that
suits, and finds a tile to which no way is cheaper, or, failing an exact one, the farthest from the target. The ways range over all
finite sequences of tiles, which TLC does not enumerate. `WaysAreRight` is the half of `WalksRight` about paths (`PathsRight`): the chain
of parents is a fold, followed node by node (`ChainGrows`), and it ends at the start because each node on it is cheaper and there are not so many (`ChainEnds`). The assumption that who wants no distance (`minTargetDist` 0)
wants no more than the next tile holds of every caller: creatures and NPCs ask for 1 to 1, players for 0 to 0 or 0 to 1.

**PlayersProofs.** *Fights.* A handler changes one record per player through a chain of operators, so the invariant
(`WellKept`) is a predicate on these records with one lemma per operator. Beyond `FightsMarked` it says that nothing of a
session is left on who is away, and that no player in the game has as many murders as are banned. `MarksSound`, `BannedAway`, and
the action property `JudgedFairly`, a part of `InDueTime`: a death is at most one murder of each killer, and only of one who had done
damage to a victim he had attacked first.
*Errands.* What a player wants to do waits as his walk task, with the scheduler, as his action task, or at the dispatcher. The invariant counts
these places (`Copies`): there are no more than commands not carried out, and whatever waits as a walk task has a walk or a timer that will see to it (`Led`).
Each operator of walking moves or drops a copy and makes none (`Walks`); a handler starts with one command to spare (`Ready`), which it carries out or
puts off. `ErrandsDoneOnce` is `ErrandsKept`, the half of `ServedOnce` about players, without the bounds on commands and walks.
*Effects*. `EffectsUndoneOnce` is `EffectsBalanced` for any slots, items and spells. Its sums are folds, and so is what a handler does to
each of some conditions (`FoldSet`). A fold over a finite set is a function on its subsets (`FoldExists`), about which
`SetInduction` proves: a sum does not depend on the order (`SumStep`), conditions taken one by one leave those that were not
(`AllTaken`). The invariant is a predicate of a body: `Listed` (no kind of condition twice; that of an item lasts until the item goes),
`Sums`, `Dress`, and `VeilsWorn` (an item hides its bearer exactly while it works), with one lemma per operator. It needs what `items.srv` says of its items:
one that becomes another type when it is worn does nothing by itself.
*NPCs*. `NpcIsServing` is `NpcServes`, the other half of `ServedOnce`, for any customers and scripts. It speaks of an NPC that has nothing
left to do; the invariant (`Serves`) says what holds in the middle of a rule, in terms of the duties still to come: the
customer is there and will be let go when he is silent, or that is the very next duty (`Turning`); who is about to wait is not the
customer, and nothing moves anybody before (`QueueDuty`); what is about to be agreed on is with the customer, who is not let go
afterwards (`TopicDuty`); who is about to be gone does not wait (`GoneDuty`). Each rule begun and each duty done has a lemma. It assumes of the scripts
(`NpcAssumption`) what those in `data/npc` are, but for three (section 6): only BUSY rules queue, and not after Idle or
Teleport; only rules for the customer set a topic, and none of these has Idle or sets it after Teleport. `BusinessDone` joins both halves.

**SocialProofs.** `ChatsKept`. That a window shows the channel of its number depends on the queue of its player: it must be
orderly (`Orderly`: a request to open comes after all else that could change the window it is for; one to close is for a window
that is shut), and what he said must be for the channel whose user he is (`Meant`). The proof found that the property as first
stated was false with three requests on the way, which the run's bound of two had hidden: a player who asks twice to open a channel and is
excluded and invited between keeps a window. Hence `Hasty`, and the claim is made for those whose clients
wait. An event of the game concerns one player whose windows it may open; for all others it only shuts windows together with
their place in the channel (`Stays`, `Keeps`), which one lemma shows to be enough. For the reports the invariant adds that
a report is of somebody who plays and that one that waits has no gamemaster.

In the same module, `TradesKept` and the action property `OffersStand`, for bags nested to any depth. Which players are
told of a change depends on where the bags around it are, so `TradeInv` adds to `TradesSound` that everything in the game is
in one inventory or on one tile (`Rooted`; no bag is in itself), that an offer is with nobody but the player that makes it
(`OwnOffers`), and that no bag is overfull (`BagsHold`). The bags of an item are a least set, and `BagsLeast` stands in for an
induction over their depth: `MoveAbove` and `RemoveRooted` say what a move or a removal does to what is above each item. The
core is `OfferApart`: a player whose trade is not closed when an item is taken away has an offer that is neither that item,
nor in it, nor around it; `OfferUnfilled` says the same of what an item is put into. That an exchange is complete needs
`SecondFits`: if there was a place for the second item before the first left, there is one afterwards, because the first went
to the other player and, if it was the bag with the room, it left a place where it lay. The proofs assume that a bag is an
item, that items, players and positions are different things, and that there are finitely many items.

*Parties*, in the same module. The invariant is `PartySound` (both views of a party and of an invitation agree), `FullBut(st, {})`
(no party is empty) and `Absent` (who is offline appears nowhere). It is not preserved by each method but by each
handler: inside a handler the nested disband runs on a state where one party is half left (`HalfLeft`) and may be
empty (`FullBut(st, {g})`). So each method has a lemma from one such state to the other, and a handler composes them.
`AgreementKept` and the action property `EntersInvited` follow.

**DecayProofs.** `DecayIsKept` is `DecayKept` for any pool, kinds and durations. What an item's entries promise depends on how many checks
ahead their bucket is, so the invariant (`DecayInv`) speaks of one item at a time, by its *case*: its state, and how often each list names it.
`Kept` says that its references are those of the lists and of the world, that one of its entries is in a bucket that is looked
at in time (`Soon`), and that if it was listed but once no entry comes too early (`Late`). In the middle of a walk the
entries of the bucket that are still to come count too (`rest`), so the same predicate holds between the visits of a check. An operation has a lemma on
what it does to a case (`ListedKept`, ...) and one saying that it does so to the case of its item alone (`ListedDoes`, ...); the walk and the sorting,
which are folds, are followed entry by entry (`AfterWalkIs`, `SortingIs`). From the same invariant: `DecayIsNotTooEarly`, the part
of `InDueTime` about items, and `TimeIsLeft`, because of which `startDecay` never has to decay an item at once. The proofs assume
(`ClocksAssumption`) that a kind into which an item decays by `setID` has a duration of its own or none at all; all 464
decaying kinds in `data/items/items.srv` do. One that had neither would keep the duration that has run out.

Only model-checked:

- liveness (`EverythingServed`, `SilentClientReleased`, `LoginsSettle`, `PremiumServed`, `QueriesServed`, `MonstersReturn`): temporal
  reasoning under fairness and ENABLED is out of the prover's reach;
- `Accounted`, `ItemsSound`, `SavesKept` and `MonstersSound`: their modules have RECURSIVE operators, which are out of its
  reach. A simplified copy without them would not be the model that TLC checks.

## 8. Not modelled

Each component and the reason is in `PROJECT.json`. In short: combat formulas, spells, weapons and experience are arithmetic on
one object; loaders, codecs and script bindings are input, output or glue; ports, bans and start-up run one thing after the
other. Inside the modelled parts: guild channels (they have no life of their own), doors' lists of houses, quivers, hangables and
splashes, other floors than one, wars of guilds, shared experience, damage and regeneration over time, what NPCs
do to goods and money, and the timing of monsters' steps. `Connection::accept` with a protocol (for services
whose server speaks first) is unreachable in this build and left out. The data race of `ConnectionManager::closeAll` on asio's
socket is seen as an atomic step. A house without a town keeps its goods as that of an owner who cannot be loaded does; `houses.xml`
has none. `addEventWalk` without a timer is no case: it needs a speed or a number of ticks that is not positive, but a paralysis takes at most
20 more than a player's base speed (`condition.cpp:1035`), which leaves 40 (`creature.h:191`), and a step of a creature on a tile lasts 50 ms or more.
