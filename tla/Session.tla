------------------------------- MODULE Session -------------------------------
(***************************************************************************)
(* From a client's login to the end of its Player (protocolgame.cpp,       *)
(* game.cpp, player.cpp, outputmessage.cpp): several clients log in to the *)
(* characters of one account, take over a session, log out, are kicked,    *)
(* die, or just vanish.                                                    *)
(*                                                                         *)
(* Game code runs in the tasks of the dispatcher, one at a time and in the *)
(* order they were queued: an action with RunTask in it is such a task.    *)
(* Connections live as ConnectionLife says; a protocol is named for its    *)
(* connection, and a Player object for the protocol whose login made it.   *)
(* ALLOW_CLONES is off.                                                    *)
(***************************************************************************)
EXTENDS Naturals, Sequences, FiniteSets

CONSTANTS
  Protocols,          \* the clients' connections with their ProtocolGame
  Characters,         \* the characters of one account
  None,               \* nullptr
  ReplaceKick,        \* values of REPLACE_KICK_ON_LOGIN: the configuration is reloaded
                      \* while clients log in
  OnePlayerOnAccount, \* ONE_PLAYER_ON_ACCOUNT
  MaxPosted           \* bound: tasks posted by a connection

ASSUME SessionAssumption ==
  /\ None \notin Protocols /\ IsFiniteSet(Protocols)
  /\ ReplaceKick \subseteq BOOLEAN /\ OnePlayerOnAccount \in BOOLEAN
  /\ MaxPosted \in Nat

VARIABLES
  life, posted, \* of each connection, see ConnectionLife
  tasks,        \* Dispatcher::taskList
  name,         \* the character each client asks for
  event,        \* eventConnect: the Player that ProtocolGame::connect awaits
  timers,       \* protocols whose connect event is still in the scheduler
  player,       \* ProtocolGame::player
  accept,       \* ProtocolGame::acceptPackets
  released,     \* protocols whose release() has run
  client,       \* Player::client
  connecting,   \* Players with isConnecting
  refs,         \* Creature::referenceCounter; 0 before new and after delete
  game,         \* Game::players
  checked,      \* Players in a vector of Game::checkCreatureLists
  toRelease,    \* Game::ToReleaseCreatures: number of entries of each Player
  buffered,     \* OutputMessagePool::bufferedProtocols
  sendAlls      \* events of OutputMessagePool::sendAll in the scheduler

netVars   == <<life, posted, tasks, name>>
protoVars == <<event, timers, player, accept, released>>
worldVars == <<client, connecting, refs, game, checked, toRelease>>
poolVars  == <<buffered, sendAlls>>
vars == <<netVars, protoVars, worldVars, poolVars>>

Players == Protocols
Task(op, p) == [op |-> op, of |-> p]
Ops == {"login", "connect", "logout", "release"}

Init ==
  /\ life = [p \in Protocols |-> "fresh"] /\ posted = [p \in Protocols |-> 0]
  /\ tasks = <<>> /\ name \in [Protocols -> Characters]
  /\ event = [p \in Protocols |-> None] /\ timers = {}
  /\ player = [p \in Protocols |-> None] /\ accept = {} /\ released = {}
  /\ client = [o \in Players |-> None] /\ connecting = {}
  /\ refs = [o \in Players |-> 0] /\ game = {} /\ checked = {}
  /\ toRelease = [o \in Players |-> 0]
  /\ buffered = <<>> /\ sendAlls = 0

-----------------------------------------------------------------------------
(* Pieces of the actions                                                   *)

RunTask(op, p) == tasks # <<>> /\ Head(tasks) = Task(op, p)

\* Mutant: closing a closed connection releases its protocol again.
Close_Again(p, queue) ==
  /\ life' = [life EXCEPT ![p] = IF @ = "open" THEN "closed" ELSE @]
  /\ posted' = [posted EXCEPT ![p] = @ + 1]
  /\ tasks' = Append(queue, Task("release", p))

\* Connection::close of p by code that leaves `queue` in the dispatcher: an
\* open connection posts its release, any other call does nothing.
Close(p, queue) ==
  IF life[p] = "open"
  THEN /\ life' = [life EXCEPT ![p] = "closed"]
       /\ posted' = [posted EXCEPT ![p] = @ + 1]
       /\ tasks' = Append(queue, Task("release", p))
  ELSE tasks' = queue /\ UNCHANGED <<life, posted>>

NoClose(queue) == tasks' = queue /\ UNCHANGED <<life, posted>>

\* Game::removeCreature: nothing for a Player that is removed already.
RemoveCreature(o) ==
  /\ game' = game \ {o}
  /\ toRelease' = IF o \in game THEN [toRelease EXCEPT ![o] = @ + 1] ELSE toRelease

\* OutputMessagePool::addProtocolToAutosend
AddToAutosend(p) ==
  /\ buffered' = Append(buffered, p)
  /\ sendAlls' = IF buffered = <<>> THEN sendAlls + 1 ELSE sendAlls

RemoveFromAutosend(p) ==
  LET n == Len(buffered)
  IN /\ IF \E i \in 1..n : buffered[i] = p
        THEN LET i == CHOOSE j \in 1..n : buffered[j] = p
             IN buffered' = SubSeq([buffered EXCEPT ![i] = buffered[n]], 1, n - 1)
        ELSE UNCHANGED buffered
     /\ UNCHANGED sendAlls

Found(p) == {o \in game : name[o] = name[p]}   \* Game::getPlayerByName

\* ONE_PLAYER_ON_ACCOUNT looks for Game::getPlayerByAccount. Mutant: it does not.
AccountFree_Always == TRUE
AccountFree == OnePlayerOnAccount => game = {}

\* p becomes the client of o. Mutant: its reference is not counted.
Attach_NotCounted(p, o) ==
  /\ player' = [player EXCEPT ![p] = o] /\ client' = [client EXCEPT ![o] = p]
  /\ UNCHANGED refs
Attach(p, o) ==
  /\ player' = [player EXCEPT ![p] = o] /\ client' = [client EXCEPT ![o] = p]
  /\ refs' = [refs EXCEPT ![o] = @ + 1]

\* ProtocolGame::connect finds the Player in the game and without a client.
\* Mutant: a Player that has a client is taken over.
MayConnect_Any(o) == o \in game
MayConnect(o) == o \in game /\ client[o] = None

-----------------------------------------------------------------------------
(* The connections                                                         *)

\* ProtocolGame::onRecvFirstMessage posts the login, or answers and disconnects.
FirstMessage(p, ok) ==
  /\ life[p] = "fresh"
  /\ life' = [life EXCEPT ![p] = IF ok THEN "open" ELSE "closed"]
  /\ posted' = [posted EXCEPT ![p] = 1]
  /\ tasks' = Append(tasks, Task(IF ok THEN "login" ELSE "release", p))
  /\ UNCHANGED <<name, protoVars, worldVars, poolVars>>

\* The connection is closed by its reader, its timers or its peer.
ConnectionLost(p) ==
  /\ life[p] = "open" /\ Close(p, tasks)
  /\ UNCHANGED <<name, protoVars, worldVars, poolVars>>

ConnectionGone(p) ==
  /\ life[p] = "closed"
  /\ life' = [life EXCEPT ![p] = "gone"]
  /\ UNCHANGED <<posted, tasks, name, protoVars, worldVars, poolVars>>

\* ProtocolGame::parsePacket of a logout request (0x14).
ParseLogout(p) ==
  /\ life[p] = "open" /\ p \in accept /\ player[p] # None
  /\ posted[p] < MaxPosted
  /\ posted' = [posted EXCEPT ![p] = @ + 1]
  /\ tasks' = Append(tasks, Task("logout", p))
  /\ UNCHANGED <<life, name, protoVars, worldVars, poolVars>>

-----------------------------------------------------------------------------
(* Login                                                                   *)

Await(p, o) == event' = [event EXCEPT ![p] = o] /\ timers' = timers \cup {p}

\* ProtocolGame::login makes a Player and one of its tests refuses it.
LoginRefused(p) ==
  /\ RunTask("login", p) /\ Found(p) = {}
  /\ Close(p, Tail(tasks))
  /\ Attach(p, p)
  /\ UNCHANGED <<name, event, timers, accept, released, connecting, game, checked,
                 toRelease, poolVars>>

\* The Player is placed in the world, which counts two more references, the
\* world's and the check vector's; Player::onPlacedCreature may kick it at once.
LoginPlaced(p, kicked) ==
  /\ RunTask("login", p) /\ Found(p) = {}
  /\ AccountFree
  /\ player' = [player EXCEPT ![p] = p] /\ client' = [client EXCEPT ![p] = p]
  /\ refs' = [refs EXCEPT ![p] = 3] /\ checked' = checked \cup {p}
  /\ IF kicked
     THEN /\ Close(p, Tail(tasks)) /\ UNCHANGED game
          /\ toRelease' = [toRelease EXCEPT ![p] = @ + 1]
     ELSE NoClose(Tail(tasks)) /\ game' = game \cup {p} /\ UNCHANGED toRelease
  /\ accept' = accept \cup {p}
  /\ AddToAutosend(p)
  /\ UNCHANGED <<name, event, timers, released, connecting>>

\* The character is online and REPLACE_KICK_ON_LOGIN is off.
LoginAlready(p) ==
  /\ RunTask("login", p) /\ Found(p) # {} /\ FALSE \in ReplaceKick
  /\ Close(p, Tail(tasks))
  /\ UNCHANGED <<name, protoVars, worldVars, poolVars>>

\* It has a client: disconnect that one and connect in a second.
LoginReplaces(p) ==
  /\ RunTask("login", p) /\ TRUE \in ReplaceKick
  /\ \E o \in Found(p) :
        /\ client[o] # None
        /\ Close(client[o], Tail(tasks))
        /\ connecting' = connecting \cup {o}
        /\ Await(p, o)
  /\ AddToAutosend(p)
  /\ UNCHANGED <<name, player, accept, released, client, refs, game, checked, toRelease>>

\* ProtocolGame::connect to the Player o.
Connect(p, o) ==
  IF ~MayConnect(o)
  THEN Close(p, Tail(tasks)) /\ UNCHANGED <<player, client, refs, connecting, accept>>
  ELSE IF life[p] = "gone"
  THEN NoClose(Tail(tasks)) /\ UNCHANGED <<player, client, refs, connecting, accept>>
  ELSE /\ NoClose(Tail(tasks))
       /\ Attach(p, o)
       /\ connecting' = connecting \ {o} /\ accept' = accept \cup {p}

\* Online without a client: login connects to it.
LoginConnects(p) ==
  /\ RunTask("login", p) /\ TRUE \in ReplaceKick
  /\ \E o \in Found(p) : client[o] = None /\ Connect(p, o)
  /\ AddToAutosend(p)
  /\ UNCHANGED <<name, event, timers, released, game, checked, toRelease>>

\* The scheduler hands the delayed connect to the dispatcher.
ConnectExpires(p) ==
  /\ p \in timers /\ timers' = timers \ {p}
  /\ tasks' = Append(tasks, Task("connect", p))
  /\ UNCHANGED <<life, posted, name, event, player, accept, released, worldVars, poolVars>>

RunConnect(p) ==
  /\ RunTask("connect", p)
  /\ event' = [event EXCEPT ![p] = None] /\ Connect(p, event[p])
  /\ UNCHANGED <<name, timers, released, game, checked, toRelease, poolVars>>

-----------------------------------------------------------------------------
(* The end of a session                                                    *)

\* The protocol lets go of the Player whose client it is.
Detach(p) ==
  LET o == player[p]
  IN IF o # None /\ client[o] = p
     THEN /\ client' = [client EXCEPT ![o] = None]
          /\ refs' = [refs EXCEPT ![o] = @ - 1]
          /\ player' = [player EXCEPT ![p] = None]
     ELSE UNCHANGED <<client, refs, player>>

\* ProtocolGame::release
Release(p) ==
  /\ RunTask("release", p) /\ NoClose(Tail(tasks))
  /\ Detach(p)
  /\ released' = released \cup {p}
  /\ RemoveFromAutosend(p)
  /\ UNCHANGED <<name, event, timers, accept, connecting, game, checked, toRelease>>

\* ProtocolGame::logout asked for by the client: no Player, a refusal by the
\* tile, a fight or a script, or the end of the session.
Logout(p, allowed) ==
  /\ RunTask("logout", p)
  /\ IF player[p] = None \/ (player[p] \in game /\ ~allowed)
     THEN NoClose(Tail(tasks)) /\ UNCHANGED <<game, toRelease>>
     ELSE Close(p, Tail(tasks)) /\ RemoveCreature(player[p])
  /\ UNCHANGED <<name, protoVars, client, connecting, refs, checked, poolVars>>

\* Player::kickPlayer, from a game task, a house, the idle timer or a game
\* state: a forced logout of its client, if it has one.
KickPlayer(o) ==
  /\ o \in game
  /\ IF client[o] = None
     THEN NoClose(tasks) /\ RemoveCreature(o)
     ELSE IF player[client[o]] = None
     THEN NoClose(tasks) /\ UNCHANGED <<game, toRelease>>
     ELSE Close(client[o], tasks) /\ RemoveCreature(player[client[o]])
  /\ UNCHANGED <<name, protoVars, client, connecting, refs, checked, poolVars>>

\* Creature::onDeath: the creature goes, its client stays.
Die(o) ==
  /\ o \in game /\ RemoveCreature(o)
  /\ UNCHANGED <<netVars, protoVars, client, connecting, refs, checked, poolVars>>

\* The references Game::cleanup drops after checkCreatures has forgotten `gone`.
\* Mutant: the vector's own is not among them.
Dropped_Listed(o, gone) == toRelease[o]
Dropped(o, gone) == toRelease[o] + (IF o \in gone THEN 1 ELSE 0)

\* Game::checkCreatures of one vector, which forgets the removed ones, and
\* Game::cleanup.
CheckCreatures(bucket) ==
  /\ checked' = checked \ (bucket \ game)
  /\ refs' = [o \in Players |-> refs[o] - Dropped(o, bucket \ game)]
  /\ toRelease' = [o \in Players |-> 0]
  /\ UNCHANGED <<netVars, protoVars, client, connecting, game, poolVars>>

\* OutputMessagePool::sendAll schedules itself while there is a protocol.
SendAll ==
  /\ sendAlls > 0
  /\ sendAlls' = IF buffered = <<>> THEN sendAlls - 1 ELSE sendAlls
  /\ UNCHANGED <<netVars, protoVars, worldVars, buffered>>

-----------------------------------------------------------------------------
RunDispatcher(p) ==
  \/ LoginRefused(p) \/ (\E kicked \in BOOLEAN : LoginPlaced(p, kicked))
  \/ LoginAlready(p) \/ LoginReplaces(p) \/ LoginConnects(p)
  \/ RunConnect(p) \/ Release(p) \/ (\E allowed \in BOOLEAN : Logout(p, allowed))

Next ==
  \/ \E p \in Protocols :
       \/ RunDispatcher(p) \/ ConnectExpires(p)
       \/ (\E ok \in BOOLEAN : FirstMessage(p, ok))
       \/ ConnectionLost(p) \/ ConnectionGone(p) \/ ParseLogout(p)
  \/ \E o \in Players : KickPlayer(o) \/ Die(o)
  \/ \E bucket \in SUBSET checked : CheckCreatures(bucket)
  \/ SendAll

Spec == Init /\ [][Next]_vars

(* The dispatcher's thread runs its tasks and the scheduler's its events; the *)
(* vectors of checkCreatures take turns. Nothing is assumed of the clients.   *)
Fairness ==
  /\ WF_vars(\E p \in Protocols : RunDispatcher(p))
  /\ \A p \in Protocols : WF_vars(ConnectExpires(p))
  /\ WF_vars(CheckCreatures(checked)) /\ WF_vars(SendAll)

FairSpec == Spec /\ Fairness

-----------------------------------------------------------------------------
(* Properties                                                              *)

One(condition) == IF condition THEN 1 ELSE 0

\* Types; a connection that has not had its first message has posted nothing.
TypeOK ==
  /\ life \in [Protocols -> {"fresh", "open", "closed", "gone"}]
  /\ posted \in [Protocols -> Nat]
  /\ tasks \in Seq([op : Ops, of : Protocols])
  /\ name \in [Protocols -> Characters]
  /\ event \in [Protocols -> Players \cup {None}] /\ timers \subseteq Protocols
  /\ player \in [Protocols -> Players \cup {None}]
  /\ accept \subseteq Protocols /\ released \subseteq Protocols
  /\ client \in [Players -> Protocols \cup {None}] /\ connecting \subseteq Players
  /\ refs \in [Players -> Nat] /\ game \subseteq Players /\ checked \subseteq Players
  /\ toRelease \in [Players -> Nat]
  /\ buffered \in Seq(Protocols) /\ sendAlls \in Nat

\* A protocol and its Player name each other. This is what lets release() find
\* the reference it has to drop, and what makes the loop of setGameState that
\* kicks players.begin() until nobody is left come to its end: KickPlayer through
\* a client removes that very Player.
Attached ==
  \A p \in Protocols, o \in Players : player[p] = o <=> client[o] = p

\* Every reference has its owner: the client, the world, the check vector and
\* the entries waiting for cleanup. So a Player that is online, checked or held
\* by a protocol is never deleted, and one that nobody holds has been.
RefsBalanced ==
  \A o \in Players :
    refs[o] = One(client[o] # None) + One(o \in game) + One(o \in checked) + toRelease[o]

\* Characters have one Player in the game, and with ONE_PLAYER_ON_ACCOUNT the
\* account has, whatever clients log in, take over, or wait to connect.
OneOnline ==
  /\ \A o1, o2 \in game : name[o1] = name[o2] => o1 = o2
  /\ OnePlayerOnAccount => Cardinality(game) <= 1

\* Every protocol that accepts packets and is not released is listed for flushing,
\* once, and a sendAll is scheduled as long as any is: no client plays without
\* receiving what the game writes to it, and no released protocol is kept for ever.
PlayersFlushed ==
  /\ \A p \in accept \ released : \E i \in DOMAIN buffered : buffered[i] = p
  /\ buffered # <<>> => sendAlls > 0
  /\ \A i, j \in DOMAIN buffered : buffered[i] = buffered[j] => i = j
  /\ \A i \in DOMAIN buffered : buffered[i] \notin released

\* Whatever clients log in, take over and go: players are held by exactly those who
\* need them, and the clients that play are flushed.
PlayersHeld == Attached /\ RefsBalanced /\ PlayersFlushed

\* A Player's client leaves only by its own release: nobody who logs in takes a
\* Player from a client that is still attached.
ClientNotStolen ==
  [][\A o \in Players : client[o] # None /\ client'[o] # client[o] =>
        client'[o] = None /\ RunTask("release", client[o])]_vars

\* Every connection is to the game what ConnectionLife says; Connection
\* implements the same.
Life(p) == INSTANCE ConnectionLife WITH life <- life[p], posted <- posted[p]
ConnectionsLive ==
  /\ \A p \in Protocols : Life(p)!Init
  /\ [][\A p \in Protocols : UNCHANGED <<life[p], posted[p]>> \/ Life(p)!Next]_vars

\* A client that asked to log in gets an answer: it plays, or is disconnected. And
\* a Player without a client and out of the game is deleted in the end.
LoginsSettle ==
  /\ \A p \in Protocols : life[p] = "open" ~> (p \in accept \/ life[p] # "open")
  /\ \A o \in Players : (o \notin game /\ client[o] = None) ~> (refs[o] = 0 \/ client[o] # None)

\* ProtocolGame::connect: a protocol whose release() "has been called at this
\* point" is not attached, "to prevent leakage of the Player".
ReleasedHasNoPlayer == \A p \in released : player[p] = None
=============================================================================
