-------------------------------- MODULE Raids --------------------------------
(***************************************************************************)
(* Raids (raids.cpp, and /raid and /reload of commands.cpp).  A raid is a  *)
(* list of events; one event of it waits in the scheduler, runs, and       *)
(* schedules the next.  Raids::running keeps a second raid from starting.  *)
(*                                                                         *)
(* Reloading deletes the raids of the list and reads them again, so a raid *)
(* object is a name and the generation it was read in.  stopEvent reaches  *)
(* an event that waits in the scheduler ("armed"), not one the scheduler   *)
(* has handed to the dispatcher ("queued").                                *)
(*                                                                         *)
(* The times (delays, margin, interval) are left out: an event that is     *)
(* armed may become due, and a raid may or may not be drawn by checkRaids. *)
(***************************************************************************)
EXTENDS Integers, Sequences, FiniteSets

CONSTANTS RaidName,
          OneTime,            \* the raids that are not repeated
          EventsOf,           \* name -> sequence of kinds of events
          Reloads             \* bound: /reload raids

EventKind == {"announce", "single", "area", "script"}

ASSUME RaidAssumption ==
  /\ OneTime \subseteq RaidName /\ Reloads \in Nat
  /\ EventsOf \in [RaidName -> Seq(EventKind)]

VARIABLES
  raidList,    \* Raids::raidList, a set of raid objects <<name, generation>>
  detached,    \* one-time raids that checkRaids took off the list (never deleted)
  running,     \* Raids::running
  nextEvent,   \* raid object -> Raid::nextEvent
  pending,     \* events: [raid, index, own, stage]; own = its id is in nextEventEvent
  checks,      \* [armed, queued]: checkRaids events in the scheduler and the dispatcher
  generation,
  raidsUp,     \* "down", "up", "ended", or "crashed" after the use of a deleted raid
  loose        \* a reload has left something running that it should have stopped

raidVars == <<raidList, detached, running, nextEvent, pending, checks, generation, raidsUp, loose>>

NoRaid == <<>>                                       \* running = nullptr
Object == RaidName \X (0..Reloads)
Length(raid) == Len(EventsOf[raid[1]])

Loaded(g) == {<<name, g>> : name \in RaidName}       \* Raids::loadFromXml

RaidsInit ==
  /\ raidList = Loaded(0) /\ detached = {}
  /\ running = NoRaid
  /\ nextEvent = [raid \in Object |-> 0]
  /\ pending = {}
  /\ checks = [armed |-> 0, queued |-> 0]
  /\ generation = 0
  /\ raidsUp = "down" /\ loose = FALSE

\* What RaidEvent::executeEvent may answer: an announcement always succeeds; an
\* area goes on without the monsters it has no room for and fails, as a single
\* spawn does, when there is no such monster; a script answers what it likes.
Outcomes(kind) ==
  CASE kind = "announce" -> {TRUE}
    [] kind \in {"single", "area", "script"} -> BOOLEAN

Event(raid, index, own) == [raid |-> raid, index |-> index, own |-> own, stage |-> "armed"]

\* Raids::startup
StartRaids ==
  /\ raidsUp = "down"
  /\ raidsUp' = "up"
  /\ checks' = [checks EXCEPT !.armed = @ + 1]
  /\ UNCHANGED <<raidList, detached, running, nextEvent, pending, generation, loose>>

\* The scheduler hands an event over.
EventDue(e) ==
  /\ e.stage = "armed"
  /\ pending' = (pending \ {e}) \cup {[e EXCEPT !.stage = "queued"]}
  /\ UNCHANGED <<raidList, detached, running, nextEvent, checks, generation, raidsUp, loose>>

CheckDue ==
  /\ checks.armed > 0
  /\ checks' = [armed |-> checks.armed - 1, queued |-> checks.queued + 1]
  /\ UNCHANGED <<raidList, detached, running, nextEvent, pending, generation, raidsUp, loose>>

\* Mutant: only the raid itself is asked whether it is running.
MayStart_PerRaid == running \notin raidList

\* checkRaids and forceRaid ask this before they start a raid.
MayStart == running = NoRaid

\* Raid::startRaid after Raids::setRunning: the event getNextRaidEvent answers
\* with; a raid without events schedules none and stays the running one.
Begin(raid, own) ==
  /\ running' = raid
  /\ pending' = IF nextEvent[raid] < Length(raid)
                THEN pending \cup {Event(raid, nextEvent[raid], own)} ELSE pending

\* Raids::checkRaids: at most one raid is drawn; it arms itself again.
CheckRaids ==
  /\ raidsUp = "up" /\ checks.queued > 0
  /\ checks' = [armed |-> checks.armed + 1, queued |-> checks.queued - 1]
  /\ \/ UNCHANGED <<raidList, detached, running, pending>>
     \/ /\ MayStart
        /\ \E raid \in raidList :
             /\ Begin(raid, TRUE)
             /\ raidList' = IF raid[1] \in OneTime THEN raidList \ {raid} ELSE raidList
             /\ detached' = IF raid[1] \in OneTime THEN detached \cup {raid} ELSE detached
  /\ UNCHANGED <<nextEvent, generation, raidsUp, loose>>

\* Commands::forceRaid: as startRaid, but nextEventEvent is not set.  A delay of
\* zero does not occur (configureRaidEvent makes it RAID_MINTICKS at least).
ForceRaid(raid) ==
  /\ raidsUp = "up" /\ raid \in raidList
  /\ MayStart
  /\ Begin(raid, FALSE)
  /\ UNCHANGED <<raidList, detached, nextEvent, checks, generation, raidsUp, loose>>

Deleted(raid) == raid \notin raidList /\ raid \notin detached

\* Raid::resetRaid
Reset(raid) ==
  /\ nextEvent' = [nextEvent EXCEPT ![raid] = 0]
  /\ running' = NoRaid

\* Raid::executeRaidEvent: on success the next event, if there is one.
Execute(e) ==
  /\ raidsUp = "up" /\ e.stage = "queued" /\ ~Deleted(e.raid)
  /\ \E ok \in Outcomes(EventsOf[e.raid[1]][e.index + 1]) :
       LET next == nextEvent[e.raid] + 1
       IN IF ok /\ next < Length(e.raid)
          THEN /\ nextEvent' = [nextEvent EXCEPT ![e.raid] = next]
               /\ pending' = (pending \ {e}) \cup {Event(e.raid, next, TRUE)}
               /\ UNCHANGED running
          ELSE /\ Reset(e.raid)
               /\ pending' = pending \ {e}
  /\ UNCHANGED <<raidList, detached, checks, generation, raidsUp, loose>>

\* The event of a deleted raid: undefined; here the server ends.
ExecuteDeleted(e) ==
  /\ raidsUp = "up" /\ e.stage = "queued" /\ Deleted(e.raid)
  /\ raidsUp' = "crashed"
  /\ UNCHANGED <<raidList, detached, running, nextEvent, pending, checks, generation, loose>>

\* The events Raid::stopEvents reaches: of the raids of the list, those whose
\* ids the raid kept, as long as they are in the scheduler.
Stopped == {e \in pending : e.raid \in raidList /\ e.own /\ e.stage = "armed"}

\* Raids::clear: the last check event armed is the one whose id is kept.
Cleared ==
  /\ pending' = pending \ Stopped
  /\ checks' = [checks EXCEPT !.armed = IF @ > 0 THEN @ - 1 ELSE 0]
  /\ running' = NoRaid

\* Commands::reloadInfo: Raids::reload and Raids::startup.
Reload ==
  /\ raidsUp = "up" /\ generation < Reloads
  /\ generation' = generation + 1
  /\ raidList' = Loaded(generation + 1)
  /\ pending' = pending \ Stopped
  /\ checks' = [checks EXCEPT !.armed = IF @ > 0 THEN @ ELSE 1]
  /\ running' = NoRaid
  /\ loose' = (loose \/ pending # Stopped \/ checks.armed = 0)
  /\ UNCHANGED <<detached, nextEvent, raidsUp>>

\* Game::shutdown
End ==
  /\ raidsUp = "up"
  /\ raidsUp' = "ended"
  /\ raidList' = {}
  /\ Cleared
  /\ UNCHANGED <<detached, nextEvent, generation, loose>>

RaidsNext ==
  \/ StartRaids \/ CheckDue \/ CheckRaids \/ Reload \/ End
  \/ \E raid \in raidList : ForceRaid(raid)
  \/ \E e \in pending : EventDue(e) \/ Execute(e) \/ ExecuteDeleted(e)

RaidsSpec == RaidsInit /\ [][RaidsNext]_raidVars

-----------------------------------------------------------------------------
(* "Another raid is already being executed" (commands.cpp:301): while no   *)
(* reload has left anything behind, exactly the running raid has an event  *)
(* waiting, it is its next one, and a raid that runs goes on - it cannot   *)
(* hang without an event unless it has none at all; and there is one chain *)
(* of checks.  A reload while a one-time or forced raid runs, or while an  *)
(* event is already at the dispatcher, breaks this (loose).                *)
OneRaidAtATime ==
  raidsUp = "up" /\ ~loose =>
    /\ checks.armed + checks.queued = 1
    /\ \A e \in pending : e.raid = running /\ e.index = nextEvent[running]
    /\ Cardinality(pending) <= 1
    /\ running # NoRaid => Length(running) = 0 \/ pending # {}

\* The server uses a deleted raid only after such a reload.
OnlyReloadsCrash == raidsUp = "crashed" => loose
=============================================================================
