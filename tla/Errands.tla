------------------------------- MODULE Errands ------------------------------
(***************************************************************************)
(* Walking, and what a player does when he gets there (creature.cpp,       *)
(* player.cpp, game.cpp).                                                  *)
(*                                                                         *)
(* Who uses or moves a thing out of reach is sent to it; what he wants to  *)
(* do is kept as his walk task, which the end of the walk gives to the     *)
(* scheduler, and which is tried anew from the start when it is run.  Who  *)
(* has acted a moment ago keeps it as his action task until he may act     *)
(* again.  A task that the scheduler has taken from its list is on its way *)
(* to the dispatcher: it can no longer be stopped, and any other task may  *)
(* run before it.  The ground is a line; one thing lies on it.             *)
(***************************************************************************)
EXTENDS Integers, Sequences, SequencesExt

CONSTANTS
  Ground,        \* the positions, an interval
  Things,        \* where the thing may lie, how it is handled, and the positions whose
                 \* teleport takes a creature to Exit: [at, kind, portals]
  Exit,
  MaxCommands,   \* bound: what the player asks to be done with the thing
  MaxWalks      \* bound: walks that wait in the dispatcher

ASSUME ErrandsAssumption ==
  /\ Ground \subseteq Int /\ Exit \in Ground
  /\ \A t \in Things : t.at \in Ground /\ t.kind \in {"use", "move", "push", "rotate"} /\ t.portals \subseteq Ground \ {Exit}

VARIABLES
  walker,        \* the player and his timers
  thing,         \* the thing; it may be gone when he wants it
  asked          \* commands given

errandsVars == <<walker, thing, asked>>

\* A timer is set, or has fired: then eventWalk still holds its id.  `stray' counts walk
\* timers that eventWalk no longer names, `walks', `errands' and `deeds' what has fired.
\* `owed' counts commands that have not been carried out, `carried' is for NotStranded.
ErrandsInit ==
  /\ thing \in Things
  /\ asked = 0
  /\ walker = [at |-> Exit, list |-> <<>>, posted |-> <<>>, eventWalk |-> "none", stray |-> 0, walks |-> 0,
               walkTask |-> FALSE, walkTaskEvent |-> FALSE, errands |-> 0,
               actionTaskEvent |-> FALSE, deeds |-> 0, cancelNextWalk |-> FALSE,
               resting |-> FALSE, busy |-> FALSE, owed |-> 0, carried |-> FALSE]

InReach(W) == thing.at - W.at \in -1 .. 1
PathTo(W) ==
  LET far == thing.at - W.at
  IN  IF far > 0 THEN [i \in 1 .. far - 1 |-> 1] ELSE [i \in 1 .. -far - 1 |-> -1]

(***************************************************************************)
(* Walking.                                                                *)
(***************************************************************************)
\* Player::setNextWalkActionTask
SetNextWalkActionTask(W, task) == [W EXCEPT !.walkTaskEvent = FALSE, !.walkTask = task]

\* Creature::stopEventWalk: one that has fired comes nevertheless.
StopEventWalk(W) == [W EXCEPT !.eventWalk = "none"]

\* Creature::onCreatureMove of the player himself
Arrived(W, to, teleport) ==
  LET there == [W EXCEPT !.at = to, !.resting = TRUE]
  IN  IF teleport THEN [StopEventWalk(there) EXCEPT !.carried = W.walkTask] ELSE there

\* Game::internalMoveCreature; somebody may stand in the way.
Moves(W, dir, free) ==
  LET to == W.at + dir
  IN  IF ~free \/ to \notin Ground THEN W
      ELSE IF to \in thing.portals THEN Arrived(Arrived(W, to, FALSE), Exit, TRUE) ELSE Arrived(W, to, FALSE)

\* Player::onWalk, then the step
Steps(W, free) ==
  Moves([W EXCEPT !.list = Tail(@), !.actionTaskEvent = FALSE, !.busy = TRUE], Head(W.list), free)

\* Player::onWalkComplete
OnWalkComplete(W) == IF W.walkTask THEN [W EXCEPT !.walkTask = FALSE, !.walkTaskEvent = TRUE] ELSE W

\* Creature::onWalk, but for the next timer
Walked(W, free) ==
  LET stepped == IF W.resting THEN W
                 ELSE IF W.list # <<>> THEN Steps(W, free)
                 ELSE StopEventWalk(OnWalkComplete(W))
  IN  IF ~W.cancelNextWalk THEN stepped
      ELSE [SetNextWalkActionTask(stepped, FALSE) EXCEPT !.list = <<>>, !.cancelNextWalk = FALSE]

\* Creature::addEventWalk: the only step of a walk is taken at once.  A player's speed
\* is at least 40 (ConditionSpeed::startCondition), so that a step takes its time and
\* there is always a timer.
AddEventWalk(W, firstStep, free) ==
  LET going == [W EXCEPT !.cancelNextWalk = FALSE]
      first == IF firstStep /\ ~W.resting THEN Walked(going, free) ELSE going
  IN  IF W.eventWalk # "none" THEN going ELSE [first EXCEPT !.eventWalk = "set"]

\* Creature::startAutoWalk
StartAutoWalk(W, list, free) ==
  AddEventWalk([W EXCEPT !.list = list, !.carried = FALSE], Len(list) = 1, free)

\* Mutant: the timer is set again only while steps are left.
OnWalk_WhileStepsLeft(W, free) ==
  LET walked == Walked(W, free)
      done == [walked EXCEPT !.eventWalk = "none"]
  IN  IF walked.eventWalk = "none" \/ walked.list = <<>> THEN done ELSE AddEventWalk(done, FALSE, free)

\* Creature::onWalk: a timer that another task has set meanwhile goes on besides.
OnWalk(W, free) ==
  LET walked == Walked(W, free)
      again == [walked EXCEPT !.eventWalk = "none", !.stray = IF walked.eventWalk = "set" THEN @ + 1 ELSE @]
  IN  IF walked.eventWalk = "none" THEN walked ELSE AddEventWalk(again, FALSE, free)

(***************************************************************************)
(* What is done with the thing; way says that there is a way to it.        *)
(***************************************************************************)
WalkThere(W, way) ==
  IF ~way THEN W
  ELSE SetNextWalkActionTask([W EXCEPT !.posted = Append(@, PathTo(W))], TRUE)

\* Player::setNextActionTask
Later(W) == [W EXCEPT !.actionTaskEvent = TRUE]
NotLater(W) == [W EXCEPT !.actionTaskEvent = FALSE]

\* Game::playerUseItem, and Actions::useItem
UseItem(W, there, way) ==
  IF ~there THEN W
  ELSE IF ~InReach(W) THEN WalkThere(W, way)
  ELSE IF W.busy THEN Later(W)
  ELSE [NotLater(W) EXCEPT !.busy = TRUE, !.cancelNextWalk = TRUE, !.owed = @ - 1]

\* Game::playerMoveItem
MoveItem(W, there, way) ==
  IF W.busy THEN Later(W)
  ELSE IF ~there THEN NotLater(W)
  ELSE IF ~InReach(W) THEN WalkThere(NotLater(W), way)
  ELSE [NotLater(W) EXCEPT !.owed = @ - 1]

\* Game::playerMoveCreature: there says that the creature still exists.
PushCreature(W, there, way) == IF ~there THEN W ELSE MoveItem(W, TRUE, way)

\* Game::playerRotateItem: at any time
RotateItem(W, there, way) ==
  IF ~there THEN W
  ELSE IF ~InReach(W) THEN WalkThere(W, way)
  ELSE [W EXCEPT !.owed = @ - 1]

Handle(W, there, way) ==
  CASE thing.kind = "use"    -> UseItem(W, there, way)
    [] thing.kind = "move"   -> MoveItem(W, there, way)
    [] thing.kind = "push"   -> PushCreature(W, there, way)
    [] thing.kind = "rotate" -> RotateItem(W, there, way)

(***************************************************************************)
(* Actions.                                                                *)
(***************************************************************************)
Does(W) == walker' = W /\ UNCHANGED <<thing, asked>>

Room == Len(walker.posted) < MaxWalks

\* The client asks; a push of a creature beside the player waits a second.
AskToHandle(there, way) ==
  /\ asked < MaxCommands /\ Room
  /\ LET W == [walker EXCEPT !.owed = @ + 1]
     IN  walker' = IF thing.kind = "push" /\ InReach(W) THEN Later(W) ELSE Handle(W, there, way)
  /\ asked' = asked + 1 /\ UNCHANGED thing

\* Game::playerMove
Key(dir, free) == Does(StartAutoWalk(SetNextWalkActionTask(walker, FALSE), <<dir>>, free))

\* Game::playerAutoWalk, that the client or a task asked for
Click(dir, free) == Does(StartAutoWalk(walker, <<dir, dir>>, free))
RunPosted(free) ==
  /\ walker.posted # <<>>
  /\ Does(StartAutoWalk([walker EXCEPT !.posted = Tail(@)], Head(walker.posted), free))

\* Game::playerStopAutoWalk
StopAutoWalk == ~walker.cancelNextWalk /\ Does([walker EXCEPT !.cancelNextWalk = TRUE])

\* The scheduler takes a task off its list, and the dispatcher runs it.
FireWalk ==
  /\ walker.walks = 0
  /\ \/ walker.eventWalk = "set" /\ Does([walker EXCEPT !.eventWalk = "fired", !.walks = 1])
     \/ walker.stray > 0 /\ Does([walker EXCEPT !.stray = @ - 1, !.walks = 1])
FireErrand ==
  walker.walkTaskEvent /\ Does([walker EXCEPT !.walkTaskEvent = FALSE, !.errands = @ + 1])
FireDeed ==
  walker.actionTaskEvent /\ Does([walker EXCEPT !.actionTaskEvent = FALSE, !.deeds = @ + 1])
RunWalk(free) == walker.walks > 0 /\ Does(OnWalk([walker EXCEPT !.walks = @ - 1], free))
RunErrand(there, way) ==
  walker.errands > 0 /\ Room /\ Does(Handle([walker EXCEPT !.errands = @ - 1], there, way))
RunDeed(there, way) ==
  walker.deeds > 0 /\ Room /\ Does(Handle([walker EXCEPT !.deeds = @ - 1], there, way))

\* Time goes by.
Rested == walker.resting /\ Does([walker EXCEPT !.resting = FALSE])
MayActAgain == walker.busy /\ Does([walker EXCEPT !.busy = FALSE])

\* He is teleported, or pushed.
TeleportWalker(to) ==
  /\ to # walker.at /\ walker.stray = 0
  /\ Does(Arrived(walker, to, TRUE))

ErrandsNext ==
  \/ StopAutoWalk \/ FireWalk \/ FireErrand \/ FireDeed \/ Rested \/ MayActAgain
  \/ \E there, way \in BOOLEAN :
       AskToHandle(there, way) \/ RunErrand(there, way) \/ RunDeed(there, way)
  \/ \E free \in BOOLEAN :
       RunWalk(free) \/ RunPosted(free) \/ \E dir \in {-1, 1} : Key(dir, free) \/ Click(dir, free)
  \/ TeleportWalker(Exit) \/ TeleportWalker(thing.at)

ErrandsSpec == ErrandsInit /\ [][ErrandsNext]_errandsVars

-----------------------------------------------------------------------------
\* However walks, stops, teleports and timers that cannot be stopped any more come between,
\* no command is carried out twice, and a walk task is not left behind: a walk that will
\* end, or a timer that will begin the next step, is there for it, unless the player was
\* teleported away from his walk.
ErrandsKept ==
  LET W == walker
      one(b) == IF b THEN 1 ELSE 0
      copies == one(W.walkTask) + one(W.walkTaskEvent) + one(W.actionTaskEvent) + W.errands + W.deeds
  IN  /\ copies <= W.owed
      /\ W.walkTask /\ ~W.carried => W.eventWalk # "none" \/ W.posted # <<>>
=============================================================================
