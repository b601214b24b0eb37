---------------------------- MODULE WorldProofs ----------------------------
(***************************************************************************)
(* Proofs about what goes on in the world without anybody's doing: Raids,  *)
(* for any set of raids and any number of reloads, Houses, for any houses, *)
(* residents and access lists, Steps, for a map and a kept map of any      *)
(* size, and Paths, for any map, start, target and wishes.                 *)
(*                                                                         *)
(* That one raid runs at a time is not inductive: a raid may start only if *)
(* it would begin with its first event, and a raid is used only while it   *)
(* has not been deleted.  Both hold as long as no reload has left a raid   *)
(* running (loose), and only for the raids of this generation and those to *)
(* come: a raid stopped by a reload keeps the event it was at, and will    *)
(* never start again.                                                      *)
(*                                                                         *)
(* An operation on a house takes a world to a world, and the operations    *)
(* call each other: each has a lemma that says what it does beside its     *)
(* house (Beside) and that it leaves a sound world sound (Well).  Inside   *)
(* one of them the world is not sound - a list has changed and who lost    *)
(* his invitation is still in - so the parts of Well are named and carried *)
(* separately: everybody invited but in h (InvitedBut), the beds right but *)
(* for somebody who is up (BedsBut).                                       *)
(*                                                                         *)
(* That a search for a way misses nothing rests on what its nodes leave    *)
(* out being known by way of their parents (OmittedKnown): then, when a    *)
(* node is closed, all around it is (ClosedCover), and a way of closed     *)
(* nodes costs no less than they do (WaysAreClosed).                       *)
(***************************************************************************)
EXTENDS Raids, Houses, Steps, Paths, FiniteSetTheorems, WellFoundedInduction, TLAPS

Events == [raid : Object, index : Nat, own : BOOLEAN, stage : {"armed", "queued"}]

RaidsType ==
  /\ raidList \subseteq Object /\ detached \subseteq Object
  /\ running \in Object \cup {NoRaid}
  /\ nextEvent \in [Object -> Nat]
  /\ pending \subseteq Events
  /\ checks \in [armed : Nat, queued : Nat]
  /\ generation \in 0..Reloads
  /\ raidsUp \in {"down", "up", "ended", "crashed"} /\ loose \in BOOLEAN

\* Before Raids::startup.
NotStarted ==
  raidsUp = "down" => /\ running = NoRaid /\ pending = {} /\ ~loose
                      /\ checks = [armed |-> 0, queued |-> 0]

\* What waits is the next event of the running raid, and nothing else.
OneEvent ==
  /\ checks.armed + checks.queued = 1
  /\ \A e \in pending : e.raid = running /\ e.index = nextEvent[running]
  /\ \A e, f \in pending : e = f
  /\ running # NoRaid => Length(running) = 0 \/ pending # {}

\* A raid that may start, now or after a reload, is at its first event.
AtFirstEvent ==
  \A raid \in Object :
    raid \in raidList \ {running} \/ raid[2] > generation => nextEvent[raid] = 0

\* The running raid has not been deleted, and a raid of the list has been loaded.
NotDeleted ==
  /\ running # NoRaid => ~Deleted(running) /\ running[2] <= generation
  /\ \A raid \in raidList : raid[2] <= generation

RaidsInv ==
  /\ RaidsType /\ NotStarted
  /\ raidsUp = "crashed" => loose
  /\ raidsUp \in {"down", "up"} /\ ~loose => AtFirstEvent /\ NotDeleted
  /\ raidsUp = "up" /\ ~loose => OneEvent

-----------------------------------------------------------------------------
(* Facts about the values                                                  *)

\* No raid is NoRaid, and its length is a number.
LEMMA RaidValues ==
  /\ NoRaid \notin Object
  /\ \A raid \in Object : raid[1] \in RaidName /\ raid[2] \in 0..Reloads /\ Length(raid) \in Nat
<1>1. ASSUME NEW raid \in Object
      PROVE  raid # NoRaid /\ raid[1] \in RaidName /\ raid[2] \in 0..Reloads
  <2>1. PICK name \in RaidName, g \in 0..Reloads : raid = <<name, g>>
    BY DEF Object
  <2>2. QED BY <2>1 DEF NoRaid
<1>2. ASSUME NEW raid \in Object PROVE Length(raid) \in Nat
  <2>1. EventsOf[raid[1]] \in Seq(EventKind)
    BY <1>1, RaidAssumption
  <2>2. QED BY <2>1 DEF Length
<1>3. QED BY <1>1, <1>2

\* The raids a load brings are of its generation.
LEMMA LoadedValues ==
  ASSUME NEW g \in 0..Reloads
  PROVE  \A raid \in Loaded(g) : raid \in Object /\ raid[2] = g
BY DEF Loaded, Object

\* An event a raid schedules.
LEMMA EventValue ==
  ASSUME NEW raid \in Object, NEW index \in Nat, NEW own \in BOOLEAN
  PROVE  /\ Event(raid, index, own) \in Events
         /\ Event(raid, index, own).raid = raid /\ Event(raid, index, own).index = index
BY DEF Event, Events

-----------------------------------------------------------------------------
(* The steps                                                               *)

\* A raid list just loaded.
LEMMA RaidsInitInv == RaidsInit => RaidsInv
<1> SUFFICES ASSUME RaidsInit PROVE RaidsInv
  OBVIOUS
<1>1. 0 \in 0..Reloads
  BY RaidAssumption
<1>2. RaidsType
  BY <1>1, LoadedValues DEF RaidsInit, RaidsType
<1>3. AtFirstEvent /\ NotDeleted
  BY <1>1, LoadedValues DEF RaidsInit, AtFirstEvent, NotDeleted
<1>4. QED BY <1>2, <1>3 DEF RaidsInit, RaidsInv, NotStarted

\* Raids::startup.
LEMMA StartRaidsKept == ASSUME RaidsInv, StartRaids PROVE RaidsInv'
<1>1. /\ checks = [armed |-> 0, queued |-> 0] /\ checks' = [checks EXCEPT !.armed = @ + 1]
      /\ raidsUp' = "up" /\ running = NoRaid /\ pending = {} /\ ~loose
      /\ UNCHANGED <<raidList, detached, running, nextEvent, pending, generation, loose>>
  BY DEF RaidsInv, NotStarted, StartRaids
<1>2. checks' = [armed |-> 1, queued |-> 0]
  BY <1>1
<1>3. RaidsType'
  BY <1>1, <1>2 DEF RaidsInv, RaidsType
<1>4. OneEvent'
  BY <1>1, <1>2 DEF OneEvent
<1>5. AtFirstEvent' /\ NotDeleted'
  BY <1>1 DEF RaidsInv, StartRaids, AtFirstEvent, NotDeleted, Deleted
<1>6. QED BY <1>1, <1>3, <1>4, <1>5 DEF RaidsInv, NotStarted

\* An event is handed to the dispatcher.
LEMMA EventDueKept == ASSUME RaidsInv, NEW e \in pending, EventDue(e) PROVE RaidsInv'
<1> DEFINE f == [e EXCEPT !.stage = "queued"]
<1>1. /\ pending' = (pending \ {e}) \cup {f}
      /\ UNCHANGED <<raidList, detached, running, nextEvent, checks, generation, raidsUp, loose>>
  BY DEF EventDue
<1>2. e \in Events /\ f \in Events /\ f.raid = e.raid /\ f.index = e.index
  BY DEF RaidsInv, RaidsType, Events
<1> HIDE DEF f
<1>3. RaidsType'
  BY <1>1, <1>2 DEF RaidsInv, RaidsType
<1>4. ASSUME OneEvent PROVE OneEvent'
  BY <1>1, <1>2, <1>4 DEF OneEvent
<1>5. UNCHANGED <<AtFirstEvent, NotDeleted>>
  BY <1>1 DEF AtFirstEvent, NotDeleted, Deleted
<1>6. QED BY <1>1, <1>3, <1>4, <1>5 DEF RaidsInv, NotStarted

\* The check is handed to the dispatcher.
LEMMA CheckDueKept == ASSUME RaidsInv, CheckDue PROVE RaidsInv'
<1>1. /\ checks.armed > 0
      /\ checks' = [armed |-> checks.armed - 1, queued |-> checks.queued + 1]
      /\ UNCHANGED <<raidList, detached, running, nextEvent, pending, generation, raidsUp, loose>>
  BY DEF CheckDue
<1>2. checks.armed \in Nat /\ checks.queued \in Nat
  BY DEF RaidsInv, RaidsType
<1>3. /\ checks' \in [armed : Nat, queued : Nat]
      /\ checks'.armed + checks'.queued = checks.armed + checks.queued
  BY <1>1, <1>2
<1>4. RaidsType'
  BY <1>1, <1>3 DEF RaidsInv, RaidsType
<1>5. ASSUME OneEvent PROVE OneEvent'
  BY <1>1, <1>3, <1>5 DEF OneEvent
<1>6. UNCHANGED <<AtFirstEvent, NotDeleted>>
  BY <1>1 DEF AtFirstEvent, NotDeleted, Deleted
<1>7. raidsUp # "down"
  BY <1>1 DEF RaidsInv, NotStarted
<1>8. QED BY <1>1, <1>4, <1>5, <1>6, <1>7 DEF RaidsInv, NotStarted

\* Starting a raid of the list when none runs.
LEMMA BeginKept ==
  ASSUME RaidsInv, raidsUp = "up", MayStart, NEW raid \in raidList, NEW own \in BOOLEAN,
         Begin(raid, own), UNCHANGED <<nextEvent, generation, raidsUp, loose>>,
         checks' \in [armed : Nat, queued : Nat],
         checks'.armed + checks'.queued = checks.armed + checks.queued,
         \/ raidList' = raidList /\ detached' = detached
         \/ raidList' = raidList \ {raid} /\ detached' = detached \cup {raid}
  PROVE  RaidsInv'
<1> DEFINE e == Event(raid, nextEvent[raid], own)
<1>1. /\ running = NoRaid /\ running' = raid /\ raid \in Object /\ raid # NoRaid
      /\ nextEvent[raid] \in Nat /\ Length(raid) \in Nat
      /\ pending' = IF nextEvent[raid] < Length(raid) THEN pending \cup {e} ELSE pending
  BY RaidValues DEF RaidsInv, RaidsType, MayStart, Begin
<1>2. e \in Events /\ e.raid = raid /\ e.index = nextEvent[raid]
  BY <1>1, EventValue
<1> HIDE DEF e
<1>3. RaidsType'
  <2>1. raidList' \subseteq Object /\ detached' \subseteq Object
    BY DEF RaidsInv, RaidsType
  <2>2. pending' \subseteq Events
    BY <1>1, <1>2 DEF RaidsInv, RaidsType
  <2>3. QED BY <1>1, <2>1, <2>2 DEF RaidsInv, RaidsType
<1>4. ASSUME ~loose PROVE OneEvent' /\ AtFirstEvent' /\ NotDeleted'
  <2>1. OneEvent /\ AtFirstEvent /\ NotDeleted
    BY <1>4 DEF RaidsInv
  <2>2. pending = {}
    <3>1. \A e1 \in pending : e1.raid \in Object /\ e1.raid = NoRaid
      BY <1>1, <2>1 DEF OneEvent, RaidsInv, RaidsType, Events
    <3>2. QED BY <3>1, RaidValues
  <2>3. nextEvent[raid] = 0
    BY <1>1, <2>1, RaidValues DEF AtFirstEvent
  <2>4. pending' = IF 0 < Length(raid) THEN {e} ELSE {}
    BY <1>1, <2>2, <2>3
  <2>5. OneEvent'
    <3>1. Length(raid) = 0 \/ pending' # {}
      BY <1>1, <2>4
    <3>2. /\ \A a \in pending' : a.raid = running' /\ a.index = nextEvent'[running']
          /\ \A a, b \in pending' : a = b
      BY <1>1, <1>2, <2>4
    <3>3. checks'.armed + checks'.queued = 1
      BY <2>1 DEF OneEvent
    <3>4. QED BY <1>1, <3>1, <3>2, <3>3 DEF OneEvent, Length
  <2>6. AtFirstEvent'
    BY <1>1, <2>1, <2>3, RaidValues DEF AtFirstEvent
  <2>7. NotDeleted'
    BY <1>1, <2>1 DEF NotDeleted, Deleted
  <2>8. QED BY <2>5, <2>6, <2>7
<1>5. QED BY <1>3, <1>4 DEF RaidsInv, NotStarted

\* Raids::checkRaids.
LEMMA CheckRaidsKept == ASSUME RaidsInv, CheckRaids PROVE RaidsInv'
<1>1. /\ raidsUp = "up" /\ checks.queued > 0
      /\ checks' = [armed |-> checks.armed + 1, queued |-> checks.queued - 1]
      /\ UNCHANGED <<nextEvent, generation, raidsUp, loose>>
  BY DEF CheckRaids
<1>2. checks.armed \in Nat /\ checks.queued \in Nat
  BY DEF RaidsInv, RaidsType
<1>3. /\ checks' \in [armed : Nat, queued : Nat]
      /\ checks'.armed + checks'.queued = checks.armed + checks.queued
  BY <1>1, <1>2
<1>4. CASE UNCHANGED <<raidList, detached, running, pending>>
  <2>1. RaidsType'
    BY <1>1, <1>3, <1>4 DEF RaidsInv, RaidsType
  <2>2. ASSUME OneEvent PROVE OneEvent'
    BY <1>1, <1>3, <1>4, <2>2 DEF OneEvent
  <2>3. UNCHANGED <<AtFirstEvent, NotDeleted>>
    BY <1>1, <1>4 DEF AtFirstEvent, NotDeleted, Deleted
  <2>4. QED BY <1>1, <2>1, <2>2, <2>3 DEF RaidsInv, NotStarted
<1>5. CASE /\ MayStart
           /\ \E raid \in raidList :
                /\ Begin(raid, TRUE)
                /\ raidList' = IF raid[1] \in OneTime THEN raidList \ {raid} ELSE raidList
                /\ detached' = IF raid[1] \in OneTime THEN detached \cup {raid} ELSE detached
  <2>1. PICK raid \in raidList :
          /\ Begin(raid, TRUE)
          /\ \/ raidList' = raidList /\ detached' = detached
             \/ raidList' = raidList \ {raid} /\ detached' = detached \cup {raid}
    BY <1>5
  <2>2. QED BY <1>1, <1>3, <1>5, <2>1, BeginKept
<1>6. QED BY <1>4, <1>5 DEF CheckRaids

\* Commands::forceRaid.
LEMMA ForceRaidKept == ASSUME RaidsInv, NEW raid \in raidList, ForceRaid(raid) PROVE RaidsInv'
<1>1. checks' \in [armed : Nat, queued : Nat] /\ checks' = checks
  BY DEF ForceRaid, RaidsInv, RaidsType
<1>2. QED BY <1>1, BeginKept DEF ForceRaid

\* Raid::executeRaidEvent.
LEMMA ExecuteKept == ASSUME RaidsInv, NEW e \in pending, Execute(e) PROVE RaidsInv'
<1> DEFINE raid == e.raid
           next == nextEvent[raid] + 1
           f == Event(raid, next, TRUE)
<1>1. /\ raidsUp = "up" /\ ~Deleted(raid)
      /\ \/ /\ next < Length(raid)
            /\ nextEvent' = [nextEvent EXCEPT ![raid] = next]
            /\ pending' = (pending \ {e}) \cup {f} /\ running' = running
         \/ /\ nextEvent' = [nextEvent EXCEPT ![raid] = 0] /\ running' = NoRaid
            /\ pending' = pending \ {e}
      /\ UNCHANGED <<raidList, detached, checks, generation, raidsUp, loose>>
  <2>1. PICK ok \in Outcomes(EventsOf[e.raid[1]][e.index + 1]) :
          IF ok /\ next < Length(raid)
          THEN /\ nextEvent' = [nextEvent EXCEPT ![raid] = next]
               /\ pending' = (pending \ {e}) \cup {f} /\ running' = running
          ELSE Reset(raid) /\ pending' = pending \ {e}
    BY DEF Execute
  <2>2. QED BY <2>1 DEF Execute, Reset
<1>2. raid \in Object /\ next \in Nat /\ e \in Events
  BY DEF RaidsInv, RaidsType, Events
<1>3. f \in Events /\ f.raid = raid /\ f.index = next
  BY <1>2, EventValue
<1> HIDE DEF f
<1>4. RaidsType'
  BY <1>1, <1>2, <1>3 DEF RaidsInv, RaidsType
<1>5. ASSUME ~loose PROVE OneEvent' /\ AtFirstEvent' /\ NotDeleted'
  <2>1. OneEvent /\ AtFirstEvent /\ NotDeleted
    BY <1>1, <1>5 DEF RaidsInv
  <2>2. pending = {e} /\ running = raid
    BY <2>1 DEF OneEvent
  <2>3. running # NoRaid /\ raid[2] <= generation /\ raid[2] \in Int /\ generation \in Int
    BY <1>2, <2>1, <2>2, RaidValues DEF NotDeleted, RaidsInv, RaidsType
  <2>4. CASE /\ next < Length(raid)
             /\ nextEvent' = [nextEvent EXCEPT ![raid] = next]
             /\ pending' = (pending \ {e}) \cup {f} /\ running' = running
    <3>1. pending' = {f} /\ nextEvent'[raid] = next
      BY <1>2, <2>2, <2>4 DEF RaidsInv, RaidsType
    <3>2. OneEvent'
      BY <1>1, <1>3, <2>1, <2>2, <2>4, <3>1 DEF OneEvent
    <3>3. AtFirstEvent'
      BY <1>1, <1>2, <2>1, <2>2, <2>3, <2>4 DEF AtFirstEvent, RaidsInv, RaidsType
    <3>4. NotDeleted'
      BY <1>1, <2>1, <2>4 DEF NotDeleted, Deleted
    <3>5. QED BY <3>2, <3>3, <3>4
  <2>5. CASE /\ nextEvent' = [nextEvent EXCEPT ![raid] = 0] /\ running' = NoRaid
             /\ pending' = pending \ {e}
    <3>1. pending' = {}
      BY <2>2, <2>5
    <3>2. OneEvent'
      BY <1>1, <2>1, <2>5, <3>1 DEF OneEvent
    <3>3. AtFirstEvent'
      BY <1>1, <1>2, <2>1, <2>2, <2>5 DEF AtFirstEvent, RaidsInv, RaidsType
    <3>4. NotDeleted'
      BY <1>1, <2>1, <2>5 DEF NotDeleted
    <3>5. QED BY <3>2, <3>3, <3>4
  <2>6. QED BY <1>1, <2>4, <2>5
<1>6. QED BY <1>1, <1>4, <1>5 DEF RaidsInv, NotStarted

\* The event of a deleted raid, after a reload that left it running.
LEMMA ExecuteDeletedKept ==
  ASSUME RaidsInv, NEW e \in pending, ExecuteDeleted(e) PROVE RaidsInv'
<1>1. /\ raidsUp = "up" /\ Deleted(e.raid) /\ raidsUp' = "crashed"
      /\ UNCHANGED <<raidList, detached, running, nextEvent, pending, checks, generation, loose>>
  BY DEF ExecuteDeleted
<1>2. loose
  <2> SUFFICES ASSUME ~loose PROVE FALSE
    OBVIOUS
  <2>1. OneEvent /\ NotDeleted
    BY <1>1 DEF RaidsInv
  <2>2. e.raid = running /\ e.raid \in Object
    BY <2>1 DEF OneEvent, RaidsInv, RaidsType, Events
  <2>3. QED BY <1>1, <2>1, <2>2, RaidValues DEF NotDeleted
<1>3. RaidsType'
  BY <1>1 DEF RaidsInv, RaidsType
<1>4. QED BY <1>1, <1>2, <1>3 DEF RaidsInv, NotStarted, RaidsType

\* Raids::reload and Raids::startup.
LEMMA ReloadKept == ASSUME RaidsInv, Reload PROVE RaidsInv'
<1> DEFINE g == generation + 1
<1>1. /\ raidsUp = "up" /\ generation < Reloads /\ generation' = g
      /\ raidList' = Loaded(g) /\ pending' = pending \ Stopped /\ running' = NoRaid
      /\ checks' = [checks EXCEPT !.armed = IF @ > 0 THEN @ ELSE 1]
      /\ loose' = (loose \/ pending # Stopped \/ checks.armed = 0)
      /\ UNCHANGED <<detached, nextEvent, raidsUp>>
  BY DEF Reload
<1>2. g \in 0..Reloads /\ generation \in Nat
  BY <1>1, RaidAssumption DEF RaidsInv, RaidsType
<1>3. \A raid \in Loaded(g) : raid \in Object /\ raid[2] = g
  BY <1>2, LoadedValues
<1>4. checks' \in [armed : Nat, queued : Nat] /\ (checks.armed # 0 => checks' = checks)
  BY <1>1 DEF RaidsInv, RaidsType
<1>5. RaidsType'
  BY <1>1, <1>2, <1>3, <1>4 DEF RaidsInv, RaidsType
<1>6. ASSUME ~loose' PROVE OneEvent' /\ AtFirstEvent' /\ NotDeleted'
  <2>1. ~loose /\ pending' = {} /\ checks' = checks
    BY <1>1, <1>4, <1>6
  <2>2. OneEvent /\ AtFirstEvent /\ NotDeleted
    BY <1>1, <2>1 DEF RaidsInv
  <2>3. OneEvent'
    BY <1>1, <2>1, <2>2 DEF OneEvent
  <2>4. AtFirstEvent'
    <3>1. \A raid \in Object : raid \in Loaded(g) \/ raid[2] > g => raid[2] > generation
      BY <1>2, <1>3, RaidValues
    <3>2. QED BY <1>1, <2>2, <3>1 DEF AtFirstEvent
  <2>5. NotDeleted'
    BY <1>1, <1>2, <1>3 DEF NotDeleted
  <2>6. QED BY <2>3, <2>4, <2>5
<1>7. QED BY <1>1, <1>5, <1>6 DEF RaidsInv, NotStarted

\* Game::shutdown.
LEMMA EndKept == ASSUME RaidsInv, End PROVE RaidsInv'
<1>1. /\ raidsUp' = "ended" /\ raidList' = {} /\ pending' = pending \ Stopped
      /\ checks' = [checks EXCEPT !.armed = IF @ > 0 THEN @ - 1 ELSE 0]
      /\ running' = NoRaid
      /\ UNCHANGED <<detached, nextEvent, generation, loose>>
  BY DEF End, Cleared
<1>2. checks' \in [armed : Nat, queued : Nat]
  BY <1>1 DEF RaidsInv, RaidsType
<1>3. RaidsType'
  BY <1>1, <1>2 DEF RaidsInv, RaidsType
<1>4. QED BY <1>1, <1>3 DEF RaidsInv, NotStarted

\* Every step.
LEMMA RaidsStepKept == RaidsInv /\ [RaidsNext]_raidVars => RaidsInv'
<1> SUFFICES ASSUME RaidsInv, [RaidsNext]_raidVars PROVE RaidsInv'
  OBVIOUS
<1>1. CASE StartRaids \/ CheckDue \/ CheckRaids \/ Reload \/ End
  BY <1>1, StartRaidsKept, CheckDueKept, CheckRaidsKept, ReloadKept, EndKept
<1>2. CASE \E raid \in raidList : ForceRaid(raid)
  BY <1>2, ForceRaidKept
<1>3. CASE \E e \in pending : EventDue(e) \/ Execute(e) \/ ExecuteDeleted(e)
  BY <1>3, EventDueKept, ExecuteKept, ExecuteDeletedKept
<1>4. CASE UNCHANGED raidVars
  <2>1. UNCHANGED <<RaidsType, NotStarted, AtFirstEvent, NotDeleted, OneEvent, raidsUp, loose>>
    BY <1>4 DEF raidVars, RaidsType, NotStarted, AtFirstEvent, NotDeleted, Deleted, OneEvent
  <2>2. QED BY <2>1 DEF RaidsInv
<1>5. QED BY <1>1, <1>2, <1>3, <1>4 DEF RaidsNext

\* The invariant holds in every behaviour.
LEMMA RaidsInvariant == RaidsSpec => []RaidsInv
BY RaidsInitInv, RaidsStepKept, PTL DEF RaidsSpec

-----------------------------------------------------------------------------
\* Whatever is drawn, forced, due, failing or reloaded: unless a reload has left
\* a raid behind, one raid runs, with exactly one event waiting, its next.
THEOREM OneRaidRuns == RaidsSpec => []OneRaidAtATime
<1>1. RaidsInv => OneRaidAtATime
  <2> SUFFICES ASSUME RaidsInv, raidsUp = "up", ~loose
               PROVE  /\ checks.armed + checks.queued = 1
                      /\ \A e \in pending : e.raid = running /\ e.index = nextEvent[running]
                      /\ Cardinality(pending) <= 1
                      /\ running # NoRaid => Length(running) = 0 \/ pending # {}
    BY DEF OneRaidAtATime
  <2>1. OneEvent
    BY DEF RaidsInv
  <2>2. Cardinality(pending) <= 1
    <3>1. CASE pending = {}
      BY <3>1, FS_EmptySet
    <3>2. CASE pending # {}
      <4>1. PICK e \in pending : TRUE
        BY <3>2
      <4>2. pending = {e}
        BY <2>1 DEF OneEvent
      <4>3. QED BY <4>2, FS_Singleton, SMTT(30)
    <3>3. QED BY <3>1, <3>2
  <2>3. QED BY <2>1, <2>2 DEF OneEvent
<1>2. QED BY <1>1, RaidsInvariant, PTL

\* The event of a deleted raid runs only after a reload that left it waiting.
THEOREM DeletedRaidsRest == RaidsSpec => []OnlyReloadsCrash
<1>1. RaidsInv => OnlyReloadsCrash
  BY DEF RaidsInv, OnlyReloadsCrash
<1>2. QED BY <1>1, RaidsInvariant, PTL
-----------------------------------------------------------------------------
Texts == Text \cup {<<>>}
HouseRecord ==
  [owner : Resident \cup {Nobody}, guest : Texts, subowner : Texts, warnings : Nat,
   goods : Resident \cup {Nobody, Floor}, offered : Resident \cup {Nobody},
   bed : [Side -> Resident \cup {Nobody}]]
ResidentRecord ==
  [online : BOOLEAN, at : House \cup {Street}, edits : {Nobody} \cup (House \X Lists),
   kicked : BOOLEAN, sleepsIn : {NoBed} \cup (House \X Side)]

\* A state of the world.
Typed(W) ==
  /\ W.house \in [House -> HouseRecord] /\ W.resident \in [Resident -> ResidentRecord]
  /\ W = [house |-> W.house, resident |-> W.resident]

\* What an operation on house h may do to the rest of the world: nothing to another house, and
\* to a resident no more than put him out or wake him.
Beside(W, V, h) ==
  /\ Typed(V)
  /\ \A k \in House : k # h => V.house[k] = W.house[k]
  /\ \A p \in Resident :
       /\ V.resident[p].online = W.resident[p].online /\ V.resident[p].kicked = W.resident[p].kicked
       /\ V.resident[p].edits = W.resident[p].edits
       /\ V.resident[p].at \in {W.resident[p].at, Street}
       /\ V.resident[p].sleepsIn \in {W.resident[p].sleepsIn, NoBed}

\* Beds, sleepers and who is about to be logged out are as they were.
SameBeds(W, V) ==
  /\ \A h \in House : V.house[h].bed = W.house[h].bed
  /\ \A p \in Resident :
       /\ V.resident[p].online = W.resident[p].online /\ V.resident[p].kicked = W.resident[p].kicked
       /\ V.resident[p].sleepsIn = W.resident[p].sleepsIn

\* Whoever is in a house other than h is invited.
InvitedBut(W, h) ==
  \A p \in Resident :
    W.resident[p].online /\ ~W.resident[p].kicked /\ W.resident[p].at \in House /\ W.resident[p].at # h
      => IsInvited(W.house[W.resident[p].at], p)
Invited(W) == InvitedBut(W, Street)

\* A bed and its sleeper lead to each other; he is not awake unless he is `up`.
BedsBut(W, up) ==
  /\ \A h \in House : W.house[h].bed[1] = W.house[h].bed[2]
  /\ \A h \in House : W.house[h].bed[1] # Nobody =>
       W.resident[W.house[h].bed[1]].sleepsIn \in {h} \X Side
  /\ \A p \in Resident : W.resident[p].sleepsIn # NoBed =>
       /\ W.house[W.resident[p].sleepsIn[1]].bed[1] = p
       /\ p # up /\ W.resident[p].online => W.resident[p].kicked
Beds(W) == BedsBut(W, Nobody)

Well(W) == Typed(W) /\ Invited(W) /\ Beds(W)

\* Who is invited depends on the owner and the lists only, and a first owner takes it from nobody.
LEMMA SameInvited ==
  ASSUME NEW a, NEW b, a.guest = b.guest, a.subowner = b.subowner, NEW p \in Resident,
         a.owner = b.owner \/ a.owner = Nobody, IsInvited(a, p)
  PROVE  IsInvited(b, p)
BY HousesAssumption DEF IsInvited, Level, NotInvited, Guest, SubOwner, Owner

LEMMA BesideTwice ==
  ASSUME NEW W, NEW V, NEW X, NEW h \in House, Beside(W, V, h), Beside(V, X, h)
  PROVE  Beside(W, X, h)
BY DEF Beside

\* Nobody in another house is disturbed.
LEMMA OthersInvited ==
  ASSUME NEW W, NEW V, NEW h \in House, Typed(W), InvitedBut(W, h), Beside(W, V, h)
  PROVE  InvitedBut(V, h)
<1> SUFFICES ASSUME NEW p \in Resident, V.resident[p].online, ~V.resident[p].kicked,
                    V.resident[p].at \in House, V.resident[p].at # h
             PROVE  IsInvited(V.house[V.resident[p].at], p)
  BY DEF InvitedBut
<1>1. V.resident[p].at = W.resident[p].at /\ W.resident[p].online /\ ~W.resident[p].kicked
  BY HousesAssumption DEF Beside
<1> QED BY <1>1 DEF InvitedBut, Beside

LEMMA BedsStay ==
  ASSUME NEW W, NEW V, NEW up, SameBeds(W, V), Typed(W), BedsBut(W, up)
  PROVE  BedsBut(V, up)
<1>1. \A p \in Resident : W.resident[p].sleepsIn # NoBed => W.resident[p].sleepsIn[1] \in House
  BY DEF Typed, ResidentRecord, NoBed
<1>2. \A h \in House : W.house[h].bed[1] # Nobody => W.house[h].bed[1] \in Resident
  BY DEF Typed, HouseRecord, Side
<1>3. \A h \in House : V.house[h].bed[1] = V.house[h].bed[2]
  BY DEF BedsBut, SameBeds
<1>4. ASSUME NEW h \in House, V.house[h].bed[1] # Nobody
      PROVE  V.resident[V.house[h].bed[1]].sleepsIn \in {h} \X Side
  <2>1. V.house[h].bed[1] = W.house[h].bed[1]
    BY DEF SameBeds
  <2>2. W.house[h].bed[1] \in Resident /\ W.resident[W.house[h].bed[1]].sleepsIn \in {h} \X Side
    BY <1>2, <1>4, <2>1 DEF BedsBut
  <2> QED BY <2>1, <2>2 DEF SameBeds
<1>5. ASSUME NEW p \in Resident, V.resident[p].sleepsIn # NoBed
      PROVE  /\ V.house[V.resident[p].sleepsIn[1]].bed[1] = p
             /\ p # up /\ V.resident[p].online => V.resident[p].kicked
  <2>1. /\ V.resident[p].sleepsIn = W.resident[p].sleepsIn /\ V.resident[p].online = W.resident[p].online
        /\ V.resident[p].kicked = W.resident[p].kicked
    BY DEF SameBeds
  <2>2. /\ W.house[W.resident[p].sleepsIn[1]].bed[1] = p /\ W.resident[p].sleepsIn[1] \in House
        /\ p # up /\ W.resident[p].online => W.resident[p].kicked
    BY <1>1, <1>5, <2>1 DEF BedsBut
  <2> QED BY <2>1, <2>2 DEF SameBeds
<1> QED BY <1>3, <1>4, <1>5 DEF BedsBut

\* kickPlayer moves those inside, and nothing else.
LEMMA KickedOut ==
  ASSUME NEW W, NEW h \in House, NEW who, Typed(W)
  PROVE  /\ Beside(W, KickOut(W, h, who), h) /\ SameBeds(W, KickOut(W, h, who))
         /\ KickOut(W, h, who).house = W.house
         /\ \A p \in Resident : p \in who /\ p \notin Editor /\ W.resident[p].online
              => KickOut(W, h, who).resident[p].at # h
<1> DEFINE V == KickOut(W, h, who)
<1>1. /\ V.house = W.house /\ V = [house |-> V.house, resident |-> V.resident]
      /\ V.resident = [p \in Resident |->
            IF p \in who /\ W.resident[p].online /\ W.resident[p].at = h /\ p \notin Editor
            THEN [W.resident[p] EXCEPT !.at = Street] ELSE W.resident[p]]
  BY DEF Typed, KickOut
<1>2. \A p \in Resident : W.resident[p] \in ResidentRecord
  BY DEF Typed
<1> HIDE DEF V
<1>3. ASSUME NEW p \in Resident
      PROVE  /\ V.resident[p] \in ResidentRecord
             /\ V.resident[p].online = W.resident[p].online /\ V.resident[p].kicked = W.resident[p].kicked
             /\ V.resident[p].edits = W.resident[p].edits /\ V.resident[p].sleepsIn = W.resident[p].sleepsIn
             /\ V.resident[p].at \in {W.resident[p].at, Street}
             /\ p \in who /\ p \notin Editor /\ W.resident[p].online => V.resident[p].at # h
  BY <1>1, <1>2, HousesAssumption DEF ResidentRecord
<1>4. Typed(V)
  BY <1>1, <1>3 DEF Typed
<1> QED BY <1>1, <1>3, <1>4 DEF Beside, SameBeds, V

\* Another record for one house.
LEMMA Rebuilt ==
  ASSUME NEW W, NEW h \in House, NEW hs \in HouseRecord, Typed(W)
  PROVE  /\ Beside(W, [W EXCEPT !.house[h] = hs], h)
         /\ [W EXCEPT !.house[h] = hs].house[h] = hs
         /\ [W EXCEPT !.house[h] = hs].resident = W.resident
<1> DEFINE V == [W EXCEPT !.house[h] = hs]
<1>1. /\ V.house = [W.house EXCEPT ![h] = hs] /\ V.resident = W.resident
      /\ V = [house |-> V.house, resident |-> V.resident]
  BY DEF Typed
<1> HIDE DEF V
<1>2. V.house \in [House -> HouseRecord] /\ V.house[h] = hs
      /\ \A k \in House : k # h => V.house[k] = W.house[k]
  BY <1>1 DEF Typed
<1>3. Typed(V)
  BY <1>1, <1>2 DEF Typed
<1>4. Beside(W, V, h)
  BY <1>1, <1>2, <1>3 DEF Beside
<1> QED BY <1>1, <1>2, <1>4 DEF V

\* The kinds of change the operations make to a house.
LEMMA Fields ==
  ASSUME NEW hs \in HouseRecord
  PROVE  /\ \A guid \in Resident \cup {Nobody} : [hs EXCEPT !.owner = guid] \in HouseRecord
         /\ \A n \in Nat : [hs EXCEPT !.warnings = n] \in HouseRecord
         /\ \A g \in Resident \cup {Floor} : [hs EXCEPT !.goods = g] \in HouseRecord
         /\ \A p \in Resident \cup {Nobody} : [hs EXCEPT !.offered = p] \in HouseRecord
         /\ \A p \in Resident \cup {Nobody} : [hs EXCEPT !.bed = [j \in Side |-> p]] \in HouseRecord
         /\ \A list \in Lists, text \in Texts :
              LET new == [hs EXCEPT ![list] = text]
              IN  /\ new \in HouseRecord /\ new.owner = hs.owner /\ new.bed = hs.bed
                  /\ new.goods = hs.goods /\ new.warnings = hs.warnings /\ new.offered = hs.offered
<1>1. \A guid \in Resident \cup {Nobody} : [hs EXCEPT !.owner = guid] \in HouseRecord
  BY DEF HouseRecord
<1>2. \A n \in Nat : [hs EXCEPT !.warnings = n] \in HouseRecord
  BY DEF HouseRecord
<1>3. \A g \in Resident \cup {Floor} : [hs EXCEPT !.goods = g] \in HouseRecord
  BY DEF HouseRecord
<1>4. \A p \in Resident \cup {Nobody} : [hs EXCEPT !.offered = p] \in HouseRecord
  BY DEF HouseRecord
<1>5. \A p \in Resident \cup {Nobody} : [hs EXCEPT !.bed = [j \in Side |-> p]] \in HouseRecord
  BY DEF HouseRecord
<1>6. ASSUME NEW list \in Lists, NEW text \in Texts
      PROVE  LET new == [hs EXCEPT ![list] = text]
             IN  /\ new \in HouseRecord /\ new.owner = hs.owner /\ new.bed = hs.bed
                 /\ new.goods = hs.goods /\ new.warnings = hs.warnings /\ new.offered = hs.offered
  <2>1. CASE list = "guest"
    BY <2>1 DEF HouseRecord
  <2>2. CASE list = "subowner"
    BY <2>2 DEF HouseRecord
  <2> QED BY <2>1, <2>2 DEF Lists
<1> QED BY <1>1, <1>2, <1>3, <1>4, <1>5, <1>6

\* Owner, goods and beds of a house.
SameGoods(hs, new) ==
  new.owner = hs.owner /\ new.goods = hs.goods /\ new.bed = hs.bed

\* After a list has changed, whoever is not on it any more is outside.
LEMMA ListSet ==
  ASSUME NEW W, NEW h \in House, NEW list \in Lists, NEW text \in Texts, Typed(W), InvitedBut(W, h)
  PROVE  /\ Beside(W, SetAccessList(W, h, list, text), h) /\ SameBeds(W, SetAccessList(W, h, list, text))
         /\ SameGoods(W.house[h], SetAccessList(W, h, list, text).house[h])
         /\ Invited(SetAccessList(W, h, list, text))
<1> DEFINE new == [W.house[h] EXCEPT ![list] = text]
           S == [W EXCEPT !.house[h] = new]
           who == {p \in Resident : ~IsInvited(S.house[h], p)}
           V == SetAccessList(W, h, list, text)
<1>1. V = KickOut(S, h, who)
  BY DEF SetAccessList, KickUninvited
<1>2. W.house[h] \in HouseRecord
  BY DEF Typed
<1>3. new \in HouseRecord /\ SameGoods(W.house[h], new)
  BY <1>2, Fields DEF SameGoods
<1> HIDE DEF new
<1>4. Beside(W, S, h) /\ S.house[h] = new /\ S.resident = W.resident
  BY <1>3, Rebuilt
<1> HIDE DEF S
<1>5. Typed(S) /\ \A k \in House : k # h => S.house[k] = W.house[k]
  BY <1>4 DEF Beside
<1> HIDE DEF who, V
<1>6. /\ Beside(S, V, h) /\ SameBeds(S, V) /\ V.house = S.house
      /\ \A p \in Resident : p \in who /\ p \notin Editor /\ S.resident[p].online => V.resident[p].at # h
  BY <1>1, <1>5, KickedOut
<1>7. Beside(W, V, h)
  BY <1>4, <1>6, BesideTwice
<1>8. SameBeds(W, V)
  BY <1>3, <1>4, <1>5, <1>6 DEF SameBeds, SameGoods
<1>9. InvitedBut(V, h)
  BY <1>7, OthersInvited
<1>10. Invited(V)
  <2> SUFFICES ASSUME NEW p \in Resident, V.resident[p].online, ~V.resident[p].kicked,
                      V.resident[p].at \in House
               PROVE  IsInvited(V.house[V.resident[p].at], p)
    BY DEF Invited, InvitedBut
  <2>1. CASE V.resident[p].at # h
    BY <1>9, <2>1 DEF InvitedBut
  <2>2. CASE V.resident[p].at = h
    <3>1. S.resident[p].online
      BY <1>6 DEF Beside
    <3>2. p \notin who \/ p \in Editor
      BY <1>6, <2>2, <3>1
    <3>3. CASE p \in Editor
      BY <3>3 DEF IsInvited, Level, NotInvited, Owner
    <3>4. CASE p \notin who
      BY <1>6, <2>2, <3>4 DEF who
    <3> QED BY <3>2, <3>3, <3>4
  <2> QED BY <2>1, <2>2
<1> QED BY <1>3, <1>4, <1>6, <1>7, <1>8, <1>10 DEF V

\* The sleepers of h are woken: its bed is empty, and nobody has moved.
Woken(W, V, h) ==
  /\ Beside(W, V, h) /\ Beds(V)
  /\ V.house[h] = [W.house[h] EXCEPT !.bed = [j \in Side |-> Nobody]]
  /\ \A p \in Resident : V.resident[p].at = W.resident[p].at

\* Whoever is woken leaves the bed, both halves, and the map of sleepers.
LEMMA WokenUp ==
  ASSUME NEW W, NEW h \in House, NEW i \in Side, Typed(W), BedsBut(W, W.house[h].bed[i]),
         W.house[h].bed[i] # Nobody
  PROVE  Woken(W, WakeUp(W, h, i), h)
<1> DEFINE p == W.house[h].bed[i]
           new == [W.house[h] EXCEPT !.bed = [j \in Side |-> Nobody]]
           V == WakeUp(W, h, i)
<1>1. W.house[h] \in HouseRecord /\ p \in Resident
  BY DEF Typed, HouseRecord
<1>2. new \in HouseRecord
  BY <1>1, Fields
<1>3. /\ V.house = [W.house EXCEPT ![h] = new]
      /\ V.resident = [W.resident EXCEPT ![p].sleepsIn = NoBed]
      /\ V = [house |-> V.house, resident |-> V.resident]
  <2>1. W = [house |-> W.house, resident |-> W.resident]
    BY DEF Typed
  <2> QED BY <2>1 DEF WakeUp
<1>4. new.bed[1] = Nobody /\ new.bed[2] = Nobody
  BY <1>1 DEF HouseRecord, Side
<1>5. p = W.house[h].bed[1] /\ p # Nobody
  BY DEF BedsBut, Side
<1> HIDE DEF V, new, p
<1>6. /\ \A k \in House : V.house[k] = IF k = h THEN new ELSE W.house[k]
      /\ V.house \in [House -> HouseRecord]
  BY <1>2, <1>3 DEF Typed
<1>7. ASSUME NEW q \in Resident
      PROVE  /\ V.resident[q] \in ResidentRecord
             /\ V.resident[q].online = W.resident[q].online /\ V.resident[q].kicked = W.resident[q].kicked
             /\ V.resident[q].edits = W.resident[q].edits /\ V.resident[q].at = W.resident[q].at
             /\ V.resident[q].sleepsIn = IF q = p THEN NoBed ELSE W.resident[q].sleepsIn
  <2>1. W.resident \in [Resident -> ResidentRecord] /\ W.resident[q] \in ResidentRecord
    BY DEF Typed
  <2>2. V.resident[q] = IF q = p THEN [W.resident[q] EXCEPT !.sleepsIn = NoBed] ELSE W.resident[q]
    BY <1>1, <1>3, <2>1
  <2>3. [W.resident[q] EXCEPT !.sleepsIn = NoBed] \in ResidentRecord
    BY <2>1 DEF ResidentRecord
  <2> QED BY <2>1, <2>2, <2>3 DEF ResidentRecord
<1>8. Typed(V)
  <2>1. DOMAIN V.resident = Resident /\ V.resident = [q \in Resident |-> V.resident[q]]
    BY <1>3 DEF Typed
  <2>2. V.resident \in [Resident -> ResidentRecord]
    BY <1>7, <2>1
  <2> QED BY <1>3, <1>6, <2>2 DEF Typed
<1>9. Beside(W, V, h)
  BY <1>6, <1>7, <1>8 DEF Beside
<1>10. Beds(V)
  <2>1. ASSUME NEW k \in House  PROVE V.house[k].bed[1] = V.house[k].bed[2]
    BY <1>4, <1>6 DEF BedsBut
  <2>2. ASSUME NEW k \in House, V.house[k].bed[1] # Nobody
        PROVE  V.resident[V.house[k].bed[1]].sleepsIn \in {k} \X Side
    <3>1. k # h /\ V.house[k] = W.house[k]
      BY <1>4, <1>6, <2>2
    <3>2. W.house[k].bed[1] \in Resident
      BY <2>2, <3>1 DEF Typed, HouseRecord, Side
    <3>3. W.resident[W.house[k].bed[1]].sleepsIn \in {k} \X Side
      BY <2>2, <3>1 DEF BedsBut
    <3>4. W.resident[p].sleepsIn \in {h} \X Side
      BY <1>5 DEF BedsBut
    <3>5. W.house[k].bed[1] # p
      BY <3>1, <3>3, <3>4
    <3> QED BY <1>7, <3>1, <3>2, <3>3, <3>5
  <2>3. ASSUME NEW q \in Resident, V.resident[q].sleepsIn # NoBed
        PROVE  /\ V.house[V.resident[q].sleepsIn[1]].bed[1] = q
               /\ q # Nobody /\ V.resident[q].online => V.resident[q].kicked
    <3>1. q # p /\ V.resident[q].sleepsIn = W.resident[q].sleepsIn
          /\ V.resident[q].online = W.resident[q].online /\ V.resident[q].kicked = W.resident[q].kicked
      BY <1>7, <2>3
    <3>2. /\ W.house[W.resident[q].sleepsIn[1]].bed[1] = q
          /\ W.resident[q].online => W.resident[q].kicked
      BY <2>3, <3>1 DEF BedsBut, p
    <3>3. W.resident[q].sleepsIn[1] \in House /\ W.resident[q].sleepsIn[1] # h
      <4>1. W.resident[q].sleepsIn \in House \X Side
        BY <2>3, <3>1 DEF Typed, ResidentRecord
      <4>2. W.resident[q].sleepsIn[1] # h
        BY <1>5, <3>1, <3>2
      <4> QED BY <4>1, <4>2
    <3> QED BY <1>6, <3>1, <3>2, <3>3
  <2> QED BY <2>1, <2>2, <2>3 DEF Beds, BedsBut
<1> QED BY <1>3, <1>6, <1>7, <1>9, <1>10 DEF V, new, Woken

LEMMA AllInvited ==
  ASSUME NEW W, Invited(W), NEW h
  PROVE  InvitedBut(W, h)
BY HousesAssumption DEF Invited, InvitedBut

\* The goods go to the owner's depot.
Emptied(hs) == IF hs.owner \in Lost \cup {Nobody} \/ hs.goods # Floor THEN hs.goods ELSE hs.owner
LEMMA Transferred ==
  ASSUME NEW W, NEW h \in House, Typed(W)
  PROVE  /\ Beside(W, TransferToDepot(W, h), h) /\ SameBeds(W, TransferToDepot(W, h))
         /\ TransferToDepot(W, h).house[h].owner = W.house[h].owner
         /\ TransferToDepot(W, h).house[h].goods = Emptied(W.house[h])
<1> DEFINE o == W.house[h].owner
           new == [W.house[h] EXCEPT !.goods = o]
           V == TransferToDepot(W, h)
<1>1. W.house[h] \in HouseRecord /\ o \in Resident \cup {Nobody}
  BY DEF Typed, HouseRecord
<1>2. CASE o \in Lost \cup {Nobody} \/ W.house[h].goods # Floor
  <2>1. V = W
    BY <1>2 DEF TransferToDepot
  <2>2. Beside(W, W, h) /\ SameBeds(W, W)
    BY DEF Beside, SameBeds
  <2> QED BY <1>2, <2>1, <2>2 DEF Emptied
<1>3. CASE ~(o \in Lost \cup {Nobody} \/ W.house[h].goods # Floor)
  <2>1. V = [W EXCEPT !.house[h] = new]
    BY <1>3 DEF TransferToDepot
  <2>2. new \in HouseRecord /\ new.owner = o /\ new.goods = o /\ new.bed = W.house[h].bed
    BY <1>1, <1>3, Fields DEF HouseRecord
  <2> HIDE DEF new
  <2>3. Beside(W, V, h) /\ V.house[h] = new /\ V.resident = W.resident
    BY <2>1, <2>2, Rebuilt
  <2> HIDE DEF V
  <2>4. SameBeds(W, V)
    BY <2>2, <2>3 DEF SameBeds, Beside
  <2>5. V.house[h].owner = o /\ V.house[h].goods = Emptied(W.house[h])
    BY <1>3, <2>2, <2>3 DEF Emptied
  <2> QED BY <2>3, <2>4, <2>5 DEF V
<1> QED BY <1>2, <1>3

\* After an eviction nobody sleeps in the house.
LEMMA AllWoken ==
  ASSUME NEW W, NEW h \in House, Typed(W), Beds(W)
  PROVE  /\ Beside(W, WakeAll(W, h), h) /\ Beds(WakeAll(W, h))
         /\ WakeAll(W, h).house[h].owner = W.house[h].owner
         /\ WakeAll(W, h).house[h].goods = W.house[h].goods
<1>1. \A up : BedsBut(W, up)
  BY HousesAssumption DEF Beds, BedsBut
<1>2. W.house[h] \in HouseRecord
  BY DEF Typed
<1>3. CASE W.house[h].bed[1] # Nobody
  <2>1. 1 \in Side /\ WakeAll(W, h) = WakeUp(W, h, 1)
    BY <1>3 DEF WakeAll, Side
  <2>2. /\ Beside(W, WakeUp(W, h, 1), h) /\ Beds(WakeUp(W, h, 1))
        /\ WakeUp(W, h, 1).house[h] = [W.house[h] EXCEPT !.bed = [j \in Side |-> Nobody]]
    BY <1>1, <1>3, <2>1, WokenUp DEF Woken
  <2> QED BY <1>2, <2>1, <2>2 DEF HouseRecord
<1>4. CASE W.house[h].bed[1] = Nobody
  <2>1. W.house[h].bed[2] = Nobody
    BY <1>4 DEF Beds, BedsBut
  <2>2. WakeAll(W, h) = W
    BY <1>4, <2>1 DEF WakeAll
  <2> QED BY <2>2 DEF Beside
<1> QED BY <1>3, <1>4

\* Another owner, or other warnings: nobody's bed is touched.
LEMMA Reowned ==
  ASSUME NEW W, NEW h \in House, Typed(W), NEW guid \in Resident \cup {Nobody}
  PROVE  /\ Beside(W, [W EXCEPT !.house[h].owner = guid], h) /\ SameBeds(W, [W EXCEPT !.house[h].owner = guid])
         /\ [W EXCEPT !.house[h].owner = guid].house[h] = [W.house[h] EXCEPT !.owner = guid]
         /\ [W EXCEPT !.house[h].owner = guid].resident = W.resident
<1> DEFINE new == [W.house[h] EXCEPT !.owner = guid]
           V == [W EXCEPT !.house[h].owner = guid]
<1>1. W.house[h] \in HouseRecord
  BY DEF Typed
<1>2. new \in HouseRecord /\ new.bed = W.house[h].bed
  BY <1>1, Fields DEF HouseRecord
<1>3. V = [W EXCEPT !.house[h] = new]
  BY DEF Typed
<1> HIDE DEF new, V
<1>4. Beside(W, V, h) /\ V.house[h] = new /\ V.resident = W.resident
  BY <1>2, <1>3, Rebuilt
<1>5. SameBeds(W, V)
  BY <1>2, <1>4 DEF SameBeds, Beside
<1> QED BY <1>4, <1>5 DEF new, V

LEMMA Rewarned ==
  ASSUME NEW W, NEW h \in House, Typed(W), NEW n \in Nat
  PROVE  /\ Beside(W, [W EXCEPT !.house[h].warnings = n], h) /\ SameBeds(W, [W EXCEPT !.house[h].warnings = n])
         /\ [W EXCEPT !.house[h].warnings = n].house[h] = [W.house[h] EXCEPT !.warnings = n]
         /\ [W EXCEPT !.house[h].warnings = n].resident = W.resident
<1> DEFINE new == [W.house[h] EXCEPT !.warnings = n]
           V == [W EXCEPT !.house[h].warnings = n]
<1>1. W.house[h] \in HouseRecord
  BY DEF Typed
<1>2. new \in HouseRecord /\ new.bed = W.house[h].bed
  BY <1>1, Fields DEF HouseRecord
<1>3. V = [W EXCEPT !.house[h] = new]
  BY DEF Typed
<1> HIDE DEF new, V
<1>4. Beside(W, V, h) /\ V.house[h] = new /\ V.resident = W.resident
  BY <1>2, <1>3, Rebuilt
<1>5. SameBeds(W, V)
  BY <1>2, <1>4 DEF SameBeds, Beside
<1> QED BY <1>4, <1>5 DEF new, V

\* A house that loses its owner: everybody is outside, the lists are bare and the goods are gone.
LEMMA Vacated ==
  ASSUME NEW W, NEW h \in House, Well(W)
  PROVE  /\ Beside(W, Vacate(W, h), h) /\ Well(Vacate(W, h))
         /\ Vacate(W, h).house[h].owner = Nobody
         /\ Vacate(W, h).house[h].goods = Emptied(W.house[h])
<1> DEFINE A == TransferToDepot(W, h)
           B == KickOut(A, h, Resident)
           C == WakeAll(B, h)
           D == [C EXCEPT !.house[h].owner = Nobody]
           E == SetAccessList(D, h, "subowner", <<>>)
           F == SetAccessList(E, h, "guest", <<>>)
           V == Vacate(W, h)
<1>1. V = [F EXCEPT !.house[h].warnings = 0]
  BY DEF Vacate
<1>2. Typed(W) /\ Invited(W) /\ Beds(W) /\ <<>> \in Texts /\ {"guest", "subowner"} \subseteq Lists
  BY DEF Well, Texts, Lists
<1>3. /\ Beside(W, A, h) /\ SameBeds(W, A) /\ A.house[h].goods = Emptied(W.house[h])
  BY <1>2, Transferred
<1> HIDE DEF A
<1>4. Typed(A) /\ Beds(A)
  BY <1>2, <1>3, BedsStay DEF Beside, Beds
<1>5. Beside(A, B, h) /\ SameBeds(A, B) /\ B.house = A.house
  BY <1>4, KickedOut
<1> HIDE DEF B
<1>6. Typed(B) /\ Beds(B) /\ Beside(W, B, h)
  BY <1>3, <1>4, <1>5, BedsStay, BesideTwice DEF Beside, Beds
<1>7. Beside(B, C, h) /\ Beds(C) /\ C.house[h].goods = B.house[h].goods
  BY <1>6, AllWoken
<1> HIDE DEF C
<1>8. Typed(C) /\ Beside(W, C, h)
  BY <1>6, <1>7, BesideTwice DEF Beside
<1>9. /\ Beside(C, D, h) /\ SameBeds(C, D) /\ D.house[h] = [C.house[h] EXCEPT !.owner = Nobody]
  BY <1>8, Reowned
<1> HIDE DEF D
<1>10. Typed(D) /\ Beds(D) /\ Beside(W, D, h)
  BY <1>7, <1>8, <1>9, BedsStay, BesideTwice DEF Beside, Beds
<1>11. D.house[h].owner = Nobody /\ D.house[h].goods = C.house[h].goods
  BY <1>8, <1>9 DEF Typed, HouseRecord
<1>12. InvitedBut(D, h)
  <2>1. InvitedBut(W, h)
    BY <1>2, AllInvited
  <2> QED BY <1>2, <1>10, <2>1, OthersInvited
<1>13. /\ Beside(D, E, h) /\ SameBeds(D, E) /\ SameGoods(D.house[h], E.house[h]) /\ Invited(E)
  BY <1>2, <1>10, <1>12, ListSet
<1> HIDE DEF E
<1>14. Typed(E) /\ Beds(E) /\ Beside(W, E, h) /\ InvitedBut(E, h)
  BY <1>10, <1>13, BedsStay, BesideTwice, AllInvited DEF Beside, Beds
<1>15. /\ Beside(E, F, h) /\ SameBeds(E, F) /\ SameGoods(E.house[h], F.house[h]) /\ Invited(F)
  BY <1>2, <1>14, ListSet
<1> HIDE DEF F
<1>16. Typed(F) /\ Beds(F) /\ Beside(W, F, h)
  BY <1>14, <1>15, BedsStay, BesideTwice DEF Beside, Beds
<1> HIDE DEF V
<1>17. /\ Beside(F, V, h) /\ SameBeds(F, V) /\ V.house[h] = [F.house[h] EXCEPT !.warnings = 0]
       /\ V.resident = F.resident
  BY <1>1, <1>16, Rewarned
<1>18. Typed(V) /\ Beds(V) /\ Beside(W, V, h)
  BY <1>16, <1>17, BedsStay, BesideTwice DEF Beside, Beds
<1>19. /\ V.house[h].owner = F.house[h].owner /\ V.house[h].goods = F.house[h].goods
       /\ V.house[h].guest = F.house[h].guest /\ V.house[h].subowner = F.house[h].subowner
  BY <1>16, <1>17 DEF Typed, HouseRecord
<1>20. Invited(V)
  <2> SUFFICES ASSUME NEW p \in Resident, V.resident[p].online, ~V.resident[p].kicked,
                      V.resident[p].at \in House
               PROVE  IsInvited(V.house[V.resident[p].at], p)
    BY DEF Invited, InvitedBut
  <2>1. V.resident[p].at # Street /\ IsInvited(F.house[V.resident[p].at], p)
    BY <1>15, <1>17, HousesAssumption DEF Invited, InvitedBut
  <2>2. CASE V.resident[p].at = h
    BY <1>19, <2>1, <2>2, SameInvited
  <2>3. CASE V.resident[p].at # h
    BY <1>17, <2>1, <2>3 DEF Beside
  <2> QED BY <2>2, <2>3
<1>21. V.house[h].owner = Nobody /\ V.house[h].goods = Emptied(W.house[h])
  BY <1>3, <1>5, <1>7, <1>11, <1>13, <1>15, <1>19 DEF SameGoods
<1> QED BY <1>18, <1>20, <1>21 DEF Well, V

\* What an owner leaves when another comes.
LEMMA OwnerSet ==
  ASSUME NEW W, NEW h \in House, Well(W), NEW guid \in Resident \cup {Nobody}
  PROVE  /\ Beside(W, SetOwner(W, h, guid), h) /\ Well(SetOwner(W, h, guid))
         /\ SetOwner(W, h, guid).house[h].owner = guid
         /\ SetOwner(W, h, guid).house[h].goods =
              IF W.house[h].owner = guid THEN W.house[h].goods ELSE Emptied(W.house[h])
<1> DEFINE vacant == IF W.house[h].owner = Nobody THEN W ELSE Vacate(W, h)
           V == [vacant EXCEPT !.house[h].owner = guid]
<1>1. Typed(W) /\ Beside(W, W, h)
  BY DEF Well, Beside
<1>2. CASE W.house[h].owner = guid
  BY <1>1, <1>2 DEF SetOwner
<1>3. CASE W.house[h].owner # guid
  <2>1. SetOwner(W, h, guid) = V
    BY <1>3 DEF SetOwner
  <2>2. /\ Beside(W, vacant, h) /\ Well(vacant) /\ vacant.house[h].owner = Nobody
        /\ vacant.house[h].goods = Emptied(W.house[h])
    <3>1. CASE W.house[h].owner = Nobody
      BY <1>1, <3>1 DEF Emptied
    <3>2. CASE W.house[h].owner # Nobody
      BY <3>2, Vacated
    <3> QED BY <3>1, <3>2
  <2> HIDE DEF vacant
  <2>3. Typed(vacant) /\ Invited(vacant) /\ Beds(vacant)
    BY <2>2 DEF Well
  <2>4. /\ Beside(vacant, V, h) /\ SameBeds(vacant, V) /\ V.house[h] = [vacant.house[h] EXCEPT !.owner = guid]
        /\ V.resident = vacant.resident
    BY <2>3, Reowned
  <2> HIDE DEF V
  <2>5. Typed(V) /\ Beds(V) /\ Beside(W, V, h)
    BY <2>2, <2>3, <2>4, BedsStay, BesideTwice DEF Beside, Beds
  <2>6. /\ V.house[h].owner = guid /\ V.house[h].goods = vacant.house[h].goods
        /\ V.house[h].guest = vacant.house[h].guest /\ V.house[h].subowner = vacant.house[h].subowner
    BY <2>3, <2>4 DEF Typed, HouseRecord
  <2>7. Invited(V)
    <3> SUFFICES ASSUME NEW p \in Resident, V.resident[p].online, ~V.resident[p].kicked,
                        V.resident[p].at \in House
                 PROVE  IsInvited(V.house[V.resident[p].at], p)
      BY DEF Invited, InvitedBut
    <3>1. V.resident[p].at # Street /\ IsInvited(vacant.house[V.resident[p].at], p)
      BY <2>3, <2>4, HousesAssumption DEF Invited, InvitedBut
    <3>2. CASE V.resident[p].at = h
      BY <2>2, <2>6, <3>1, <3>2, SameInvited
    <3>3. CASE V.resident[p].at # h
      BY <2>4, <3>1, <3>3 DEF Beside
    <3> QED BY <3>2, <3>3
  <2> QED BY <1>3, <2>1, <2>2, <2>5, <2>6, <2>7 DEF Well
<1> QED BY <1>2, <1>3

\* The rent of one house.
LEMMA Paid ==
  ASSUME NEW W, NEW h \in House, Well(W), NEW unpaid
  PROVE  /\ Beside(W, PayHouse(W, h, unpaid), h) /\ Well(PayHouse(W, h, unpaid))
         /\ \/ PayHouse(W, h, unpaid).house[h].owner = W.house[h].owner
            \/ PayHouse(W, h, unpaid).house[h].goods = Emptied(W.house[h])
<1>1. Typed(W) /\ Invited(W) /\ Beds(W) /\ Beside(W, W, h) /\ W.house[h] \in HouseRecord
  BY DEF Well, Beside, Typed
<1>2. CASE W.house[h].owner = Nobody \/ h \notin unpaid
  BY <1>1, <1>2 DEF PayHouse
<1> DEFINE warned == W.house[h].owner \notin Lost /\ W.house[h].warnings < WarningLimit
<1>3. CASE ~(W.house[h].owner = Nobody \/ h \notin unpaid) /\ warned
  <2> DEFINE V == [W EXCEPT !.house[h].warnings = W.house[h].warnings + 1]
  <2>1. PayHouse(W, h, unpaid) = V /\ W.house[h].warnings + 1 \in Nat
    BY <1>1, <1>3 DEF PayHouse, HouseRecord
  <2>2. /\ Beside(W, V, h) /\ SameBeds(W, V) /\ V.resident = W.resident
        /\ V.house[h] = [W.house[h] EXCEPT !.warnings = W.house[h].warnings + 1]
    BY <1>1, <2>1, Rewarned
  <2> HIDE DEF V
  <2>3. /\ V.house[h].owner = W.house[h].owner
        /\ V.house[h].guest = W.house[h].guest /\ V.house[h].subowner = W.house[h].subowner
    BY <1>1, <2>2 DEF HouseRecord
  <2>4. Invited(V)
    <3> SUFFICES ASSUME NEW p \in Resident, V.resident[p].online, ~V.resident[p].kicked,
                        V.resident[p].at \in House
                 PROVE  IsInvited(V.house[V.resident[p].at], p)
      BY DEF Invited, InvitedBut
    <3>1. V.resident[p].at # Street /\ IsInvited(W.house[V.resident[p].at], p)
      BY <1>1, <2>2, HousesAssumption DEF Invited, InvitedBut
    <3>2. CASE V.resident[p].at = h
      BY <2>3, <3>1, <3>2, SameInvited
    <3>3. CASE V.resident[p].at # h
      BY <2>2, <3>1, <3>3 DEF Beside
    <3> QED BY <3>2, <3>3
  <2>5. Typed(V) /\ Beds(V)
    BY <1>1, <2>2, BedsStay DEF Beside, Beds
  <2> QED BY <2>1, <2>2, <2>3, <2>4, <2>5 DEF Well
<1>4. CASE ~(W.house[h].owner = Nobody \/ h \notin unpaid) /\ ~warned
  <2>1. PayHouse(W, h, unpaid) = SetOwner(W, h, Nobody)
    BY <1>4 DEF PayHouse
  <2>2. /\ Beside(W, SetOwner(W, h, Nobody), h) /\ Well(SetOwner(W, h, Nobody))
        /\ SetOwner(W, h, Nobody).house[h].goods =
              IF W.house[h].owner = Nobody THEN W.house[h].goods ELSE Emptied(W.house[h])
    BY OwnerSet
  <2> QED BY <1>4, <2>1, <2>2
<1> QED BY <1>2, <1>3, <1>4
-----------------------------------------------------------------------------
(* Houses: what a handler does                                             *)

\* Nobody's rights or bed are touched.
SameRights(hs, new) ==
  /\ new.owner = hs.owner /\ new.guest = hs.guest /\ new.subowner = hs.subowner /\ new.bed = hs.bed

LEMMA RightsStay ==
  ASSUME NEW W, Well(W), NEW V, V = [house |-> V.house, resident |-> V.resident],
         V.resident = W.resident, V.house \in [House -> HouseRecord],
         \A h \in House : SameRights(W.house[h], V.house[h])
  PROVE  Well(V)
<1>1. Typed(W) /\ Invited(W) /\ Beds(W)
  BY DEF Well
<1>2. Typed(V) /\ SameBeds(W, V)
  BY <1>1 DEF Typed, SameBeds, SameRights
<1>3. Invited(V)
  <2> SUFFICES ASSUME NEW p \in Resident, V.resident[p].online, ~V.resident[p].kicked,
                      V.resident[p].at \in House
               PROVE  IsInvited(V.house[V.resident[p].at], p)
    BY DEF Invited, InvitedBut
  <2>1. IsInvited(W.house[V.resident[p].at], p)
    BY <1>1, HousesAssumption DEF Invited, InvitedBut
  <2>2. SameRights(W.house[V.resident[p].at], V.house[V.resident[p].at])
    OBVIOUS
  <2> QED BY <2>1, <2>2, SameInvited DEF SameRights
<1> QED BY <1>1, <1>2, <1>3, BedsStay DEF Well, Beds

\* One resident comes, goes or moves; an invitation is all he needs to be in a house.
LEMMA ResidentMoved ==
  ASSUME NEW W, Well(W), NEW V, V = [house |-> V.house, resident |-> V.resident],
         V.house = W.house, NEW p \in Resident, NEW r \in ResidentRecord,
         V.resident = [W.resident EXCEPT ![p] = r], r.sleepsIn = W.resident[p].sleepsIn,
         r.online /\ ~r.kicked /\ r.at \in House => IsInvited(W.house[r.at], p)
  PROVE  /\ Typed(V) /\ Invited(V) /\ BedsBut(V, p)
         /\ (r.online /\ r.sleepsIn # NoBed => r.kicked) => Well(V)
<1>1. Typed(W) /\ Invited(W) /\ Beds(W)
  BY DEF Well
<1>2. /\ V.resident \in [Resident -> ResidentRecord]
      /\ \A q \in Resident : V.resident[q] = IF q = p THEN r ELSE W.resident[q]
  BY <1>1 DEF Typed
<1>3. Typed(V)
  BY <1>1, <1>2 DEF Typed
<1>4. Invited(V)
  <2> SUFFICES ASSUME NEW q \in Resident, V.resident[q].online, ~V.resident[q].kicked,
                      V.resident[q].at \in House
               PROVE  IsInvited(V.house[V.resident[q].at], q)
    BY DEF Invited, InvitedBut
  <2>1. CASE q = p
    BY <1>2, <2>1
  <2>2. CASE q # p
    BY <1>1, <1>2, <2>2, HousesAssumption DEF Invited, InvitedBut
  <2> QED BY <2>1, <2>2
<1>5. \A q \in Resident : V.resident[q].sleepsIn = W.resident[q].sleepsIn
  BY <1>2
<1>6. /\ \A h \in House : V.house[h].bed[1] = V.house[h].bed[2]
      /\ \A h \in House : V.house[h].bed[1] # Nobody =>
           V.resident[V.house[h].bed[1]].sleepsIn \in {h} \X Side
  <2>1. \A h \in House : W.house[h].bed[1] # Nobody => W.house[h].bed[1] \in Resident
    BY <1>1 DEF Typed, HouseRecord, Side
  <2> QED BY <1>1, <1>5, <2>1 DEF Beds, BedsBut
<1>7. ASSUME NEW q \in Resident, V.resident[q].sleepsIn # NoBed
      PROVE  /\ V.house[V.resident[q].sleepsIn[1]].bed[1] = q
             /\ q # p /\ V.resident[q].online => V.resident[q].kicked
  <2>1. /\ W.house[W.resident[q].sleepsIn[1]].bed[1] = q /\ W.resident[q].online => W.resident[q].kicked
    BY <1>1, <1>5, <1>7, HousesAssumption DEF Beds, BedsBut
  <2>2. W.house[W.resident[q].sleepsIn[1]].bed[1] = q
    BY <1>1, <1>5, <1>7 DEF Beds, BedsBut
  <2> QED BY <1>2, <1>5, <2>1, <2>2
<1>8. BedsBut(V, p)
  BY <1>6, <1>7 DEF BedsBut
<1>9. (r.online /\ r.sleepsIn # NoBed => r.kicked) => Beds(V)
  <2> SUFFICES ASSUME r.online /\ r.sleepsIn # NoBed => r.kicked  PROVE Beds(V)
    OBVIOUS
  <2>1. ASSUME NEW q \in Resident, V.resident[q].sleepsIn # NoBed, V.resident[q].online
        PROVE  V.resident[q].kicked
    BY <1>2, <1>7, <2>1
  <2> QED BY <1>6, <1>7, <2>1 DEF Beds, BedsBut
<1> QED BY <1>3, <1>4, <1>8, <1>9 DEF Well

\* Being woken puts nobody where he is not invited.
LEMMA WakeWell ==
  ASSUME NEW W, NEW h \in House, NEW i \in Side, Typed(W), Invited(W), BedsBut(W, W.house[h].bed[i]),
         W.house[h].bed[i] # Nobody
  PROVE  /\ Well(WakeUp(W, h, i))
         /\ \A k \in House : WakeUp(W, h, i).house[k].owner = W.house[k].owner
<1> DEFINE V == WakeUp(W, h, i)
<1>0. Woken(W, WakeUp(W, h, i), h)
  BY WokenUp
<1>1. /\ Beside(W, V, h) /\ Beds(V) /\ V.house[h] = [W.house[h] EXCEPT !.bed = [j \in Side |-> Nobody]]
      /\ \A p \in Resident : V.resident[p].at = W.resident[p].at
  BY <1>0 DEF Woken
<1> HIDE DEF V
<1>2. W.house[h] \in HouseRecord
  BY DEF Typed
<1>3. /\ V.house[h].owner = W.house[h].owner /\ V.house[h].guest = W.house[h].guest
      /\ V.house[h].subowner = W.house[h].subowner
  BY <1>1, <1>2 DEF HouseRecord
<1>4. Invited(V)
  <2> SUFFICES ASSUME NEW p \in Resident, V.resident[p].online, ~V.resident[p].kicked,
                      V.resident[p].at \in House
               PROVE  IsInvited(V.house[V.resident[p].at], p)
    BY DEF Invited, InvitedBut
  <2>1. V.resident[p].at # Street /\ IsInvited(W.house[V.resident[p].at], p)
    BY <1>1, HousesAssumption DEF Invited, InvitedBut, Beside
  <2>2. CASE V.resident[p].at = h
    BY <1>3, <2>1, <2>2, SameInvited
  <2>3. CASE V.resident[p].at # h
    BY <1>1, <2>1, <2>3 DEF Beside
  <2> QED BY <2>2, <2>3
<1>5. \A k \in House : V.house[k].owner = W.house[k].owner
  BY <1>1, <1>3 DEF Beside
<1> QED BY <1>1, <1>4, <1>5 DEF Well, Beside, V

\* Goods that lay on a floor are with him who had the house, and none are left for the next.
GoodsSent(W, V) ==
  \A h \in House : V.house[h].owner = W.house[h].owner \/ V.house[h].goods = Emptied(W.house[h])

\* The world is sound after a step, and the goods of a house that changes hands are sent on.
Follows == Well(World)' /\ GoodsSent(World, World')

LEMMA Becomes ==
  ASSUME NEW V, Well(V), GoodsSent(World, V), HousesBecome(V)
  PROVE  Follows
<1>1. V = [house |-> V.house, resident |-> V.resident]
  BY DEF Well, Typed
<1>2. World' = V
  BY <1>1 DEF World, HousesBecome
<1> QED BY <1>2 DEF Follows

LEMMA WorldFields ==
  ASSUME Well(World)
  PROVE  /\ house \in [House -> HouseRecord] /\ resident \in [Resident -> ResidentRecord]
         /\ World.house = house /\ World.resident = resident
         /\ \A p \in Resident : resident[p].online /\ resident[p].sleepsIn # NoBed => resident[p].kicked
<1>1. Typed(World) /\ Beds(World) /\ World.house = house /\ World.resident = resident
  BY DEF Well, World
<1>2. \A p \in Resident : resident[p].online /\ resident[p].sleepsIn # NoBed => resident[p].kicked
  BY <1>1, HousesAssumption DEF Beds, BedsBut
<1> QED BY <1>1, <1>2 DEF Typed

\* A resident's record changes and no house.
LEMMA MoveFollows ==
  ASSUME Well(World), NEW p \in Resident, NEW r \in ResidentRecord,
         UNCHANGED house, resident' = [resident EXCEPT ![p] = r],
         r.sleepsIn = resident[p].sleepsIn, r.online /\ r.sleepsIn # NoBed => r.kicked,
         r.online /\ ~r.kicked /\ r.at \in House => IsInvited(house[r.at], p)
  PROVE  Follows
<1> DEFINE V == [house |-> house', resident |-> resident']
<1>1. World.house = house /\ World.resident = resident
  BY DEF World
<1>2. /\ V = [house |-> V.house, resident |-> V.resident] /\ V.house = World.house
      /\ V.resident = [World.resident EXCEPT ![p] = r] /\ HousesBecome(V)
  BY <1>1 DEF HousesBecome
<1> HIDE DEF V
<1>3. Well(V)
  BY <1>1, <1>2, ResidentMoved
<1>4. GoodsSent(World, V)
  BY <1>2 DEF GoodsSent
<1> QED BY <1>2, <1>3, <1>4, Becomes

\* Houses change in what gives no rights, and no resident's record does.
LEMMA RightsFollow ==
  ASSUME Well(World), UNCHANGED resident, house' \in [House -> HouseRecord],
         \A h \in House : SameRights(house[h], house'[h])
  PROVE  Follows
<1> DEFINE V == [house |-> house', resident |-> resident']
<1>1. World.house = house /\ World.resident = resident
  BY DEF World
<1>2. /\ V = [house |-> V.house, resident |-> V.resident] /\ V.house \in [House -> HouseRecord]
      /\ V.resident = World.resident /\ HousesBecome(V) /\ V.house = house'
  BY <1>1 DEF HousesBecome
<1> HIDE DEF V
<1>3. Well(V)
  BY <1>1, <1>2, RightsStay
<1>4. GoodsSent(World, V)
  BY <1>1, <1>2 DEF GoodsSent, SameRights
<1> QED BY <1>2, <1>3, <1>4, Becomes

LEMMA EnterFollows ==
  ASSUME Well(World), NEW p \in Resident, NEW h \in House, Enter(p, h)
  PROVE  Follows
<1> DEFINE r == [resident[p] EXCEPT !.at = h]
<1>1. resident[p] \in ResidentRecord /\ (resident[p].online /\ resident[p].sleepsIn # NoBed => resident[p].kicked)
  BY WorldFields
<1>2. r \in ResidentRecord /\ r.sleepsIn = resident[p].sleepsIn /\ r.online = resident[p].online
      /\ r.kicked = resident[p].kicked /\ r.at = h
  BY <1>1 DEF ResidentRecord
<1>3. resident' = [resident EXCEPT ![p] = r] /\ UNCHANGED house /\ IsInvited(house[h], p)
  BY DEF Enter
<1> HIDE DEF r
<1> QED BY <1>1, <1>2, <1>3, MoveFollows

\* At the entry nobody needs an invitation.
LEMMA OutFollows ==
  ASSUME Well(World), NEW p \in Resident, UNCHANGED house, resident' = [resident EXCEPT ![p].at = Street]
  PROVE  Follows
<1> DEFINE r == [resident[p] EXCEPT !.at = Street]
<1>1. resident[p] \in ResidentRecord /\ (resident[p].online /\ resident[p].sleepsIn # NoBed => resident[p].kicked)
  BY WorldFields
<1>2. r \in ResidentRecord /\ r.sleepsIn = resident[p].sleepsIn /\ r.online = resident[p].online
      /\ r.kicked = resident[p].kicked /\ r.at \notin House
  BY <1>1, HousesAssumption DEF ResidentRecord
<1>3. resident' = [resident EXCEPT ![p] = r]
  OBVIOUS
<1> HIDE DEF r
<1> QED BY <1>1, <1>2, <1>3, MoveFollows

LEMMA WindowFollows ==
  ASSUME Well(World), NEW p \in Resident, NEW h \in House, NEW list \in Lists, OpenHouseWindow(p, h, list)
  PROVE  Follows
<1> DEFINE r == [resident[p] EXCEPT !.edits = <<h, list>>]
<1>1. /\ resident[p] \in ResidentRecord /\ Invited(World) /\ World.house = house /\ World.resident = resident
      /\ resident[p].online /\ resident[p].sleepsIn # NoBed => resident[p].kicked
  BY WorldFields DEF Well
<1>2. r \in ResidentRecord /\ r.sleepsIn = resident[p].sleepsIn /\ r.online = resident[p].online
      /\ r.kicked = resident[p].kicked /\ r.at = resident[p].at
  BY <1>1 DEF ResidentRecord
<1>3. resident' = [resident EXCEPT ![p] = r] /\ UNCHANGED house
  BY DEF OpenHouseWindow
<1>4. resident[p].online /\ ~resident[p].kicked /\ resident[p].at \in House => IsInvited(house[resident[p].at], p)
  BY <1>1, HousesAssumption DEF Invited, InvitedBut
<1> HIDE DEF r
<1> QED BY <1>1, <1>2, <1>3, <1>4, MoveFollows

LEMMA DropFollows ==
  ASSUME Well(World), NEW p \in Resident, NEW h \in House, DropGoods(p, h)
  PROVE  Follows
<1> DEFINE new == [house[h] EXCEPT !.goods = Floor]
<1>1. house \in [House -> HouseRecord] /\ house[h] \in HouseRecord
  BY WorldFields
<1>2. new \in HouseRecord /\ SameRights(house[h], new)
  BY <1>1, Fields DEF HouseRecord, SameRights
<1>3. house' = [house EXCEPT ![h] = new] /\ UNCHANGED resident
  BY DEF DropGoods
<1> HIDE DEF new
<1>4. house' \in [House -> HouseRecord] /\ \A k \in House : house'[k] = IF k = h THEN new ELSE house[k]
  BY <1>1, <1>2, <1>3
<1>5. \A k \in House : SameRights(house[k], house'[k])
  BY <1>2, <1>4 DEF SameRights
<1> QED BY <1>3, <1>4, <1>5, RightsFollow

LEMMA OfferFollows ==
  ASSUME Well(World), NEW q \in Resident \cup {Nobody}, NEW h \in House,
         house' = [house EXCEPT ![h].offered = q], UNCHANGED resident
  PROVE  Follows
<1> DEFINE new == [house[h] EXCEPT !.offered = q]
<1>1. house \in [House -> HouseRecord] /\ house[h] \in HouseRecord
  BY WorldFields
<1>2. new \in HouseRecord /\ SameRights(house[h], new)
  BY <1>1, Fields DEF HouseRecord, SameRights
<1>3. house' = [house EXCEPT ![h] = new]
  OBVIOUS
<1> HIDE DEF new
<1>4. house' \in [House -> HouseRecord] /\ \A k \in House : house'[k] = IF k = h THEN new ELSE house[k]
  BY <1>1, <1>2, <1>3
<1>5. \A k \in House : SameRights(house[k], house'[k])
  BY <1>2, <1>4 DEF SameRights
<1> QED BY <1>4, <1>5, RightsFollow

\* Whoever leaves the game takes back the offers he made and was made.
LEMMA GoneFollows ==
  ASSUME Well(World), NEW p \in Resident, HousesBecome(Gone(World, p))
  PROVE  Follows
<1> DEFINE hs == [h \in House |-> IF house[h].offered # Nobody /\ p \in {house[h].owner, house[h].offered}
                                  THEN [house[h] EXCEPT !.offered = Nobody] ELSE house[h]]
           r == [resident[p] EXCEPT !.online = FALSE, !.kicked = FALSE, !.edits = Nobody]
           S == [house |-> hs, resident |-> resident]
           V == Gone(World, p)
<1>1. /\ house \in [House -> HouseRecord] /\ World.house = house /\ World.resident = resident
      /\ resident[p] \in ResidentRecord
  BY WorldFields
<1>2. V = [house |-> hs, resident |-> [resident EXCEPT ![p] = r]]
  BY DEF Gone, World
<1>3. \A h \in House : hs[h] \in HouseRecord /\ SameRights(house[h], hs[h])
  <2> SUFFICES ASSUME NEW h \in House  PROVE hs[h] \in HouseRecord /\ SameRights(house[h], hs[h])
    OBVIOUS
  <2>1. house[h] \in HouseRecord
    BY <1>1
  <2>2. [house[h] EXCEPT !.offered = Nobody] \in HouseRecord
        /\ SameRights(house[h], [house[h] EXCEPT !.offered = Nobody])
    BY <2>1, Fields DEF HouseRecord, SameRights
  <2>3. SameRights(house[h], house[h])
    BY DEF SameRights
  <2> QED BY <2>1, <2>2, <2>3
<1>4. hs \in [House -> HouseRecord]
  BY <1>3
<1>5. /\ r \in ResidentRecord /\ ~r.online /\ r.sleepsIn = resident[p].sleepsIn
  BY <1>1 DEF ResidentRecord
<1> HIDE DEF hs, r, V
<1>6. Well(S)
  <2>1. S = [house |-> S.house, resident |-> S.resident] /\ S.house = hs /\ S.resident = resident
    OBVIOUS
  <2> HIDE DEF S
  <2> QED BY <1>1, <1>3, <1>4, <2>1, RightsStay
<1>7. Well(V)
  <2>1. /\ V = [house |-> V.house, resident |-> V.resident] /\ V.house = S.house
        /\ V.resident = [S.resident EXCEPT ![p] = r] /\ S.resident = resident
    BY <1>2
  <2> HIDE DEF S
  <2> QED BY <1>5, <1>6, <2>1, ResidentMoved
<1>8. GoodsSent(World, V)
  BY <1>1, <1>2, <1>3 DEF GoodsSent, SameRights
<1> QED BY <1>7, <1>8, Becomes DEF V

LEMMA LoginFollows ==
  ASSUME Well(World), NEW p \in Resident, ResidentLogin(p)
  PROVE  Follows
<1> DEFINE to == IF resident[p].at \in House /\ ~IsInvited(house[resident[p].at], p) THEN Street ELSE resident[p].at
           r == [resident[p] EXCEPT !.online = TRUE, !.kicked = FALSE, !.at = to]
           S == [house |-> house, resident |-> [resident EXCEPT ![p] = r]]
           bed == resident[p].sleepsIn
<1>1. HousesBecome(IF bed = NoBed THEN S ELSE WakeUp(S, bed[1], bed[2]))
  BY DEF ResidentLogin, World
<1>2. /\ resident[p] \in ResidentRecord /\ World.house = house /\ World.resident = resident
      /\ house \in [House -> HouseRecord] /\ Beds(World)
  BY WorldFields DEF Well
<1>3. /\ r \in ResidentRecord /\ r.sleepsIn = bed /\ r.at \in {Street, resident[p].at}
      /\ r.at \in House => IsInvited(house[r.at], p)
  BY <1>2, HousesAssumption DEF ResidentRecord
<1>4. S = [house |-> S.house, resident |-> S.resident] /\ S.house = house
      /\ S.resident = [resident EXCEPT ![p] = r]
  OBVIOUS
<1> HIDE DEF r, S
<1>5. /\ Typed(S) /\ Invited(S) /\ BedsBut(S, p)
      /\ (r.online /\ r.sleepsIn # NoBed => r.kicked) => Well(S)
  BY <1>2, <1>3, <1>4, ResidentMoved
<1>6. CASE bed = NoBed
  <2>1. Well(S)
    BY <1>3, <1>5, <1>6
  <2>2. GoodsSent(World, S)
    BY <1>2, <1>4 DEF GoodsSent
  <2> QED BY <1>1, <1>6, <2>1, <2>2, Becomes
<1>7. CASE bed # NoBed
  <2>1. bed \in House \X Side
    BY <1>2, <1>7 DEF ResidentRecord
  <2>2. S.house[bed[1]].bed[1] = p /\ S.house[bed[1]].bed[1] = S.house[bed[1]].bed[2]
    BY <1>2, <1>4, <1>7, <2>1 DEF Beds, BedsBut
  <2>3. S.house[bed[1]].bed[bed[2]] = p /\ p # Nobody
    BY <2>1, <2>2, HousesAssumption DEF Side
  <2>4. bed[1] \in House /\ bed[2] \in Side
    BY <2>1
  <2>5. /\ Well(WakeUp(S, bed[1], bed[2]))
        /\ \A k \in House : WakeUp(S, bed[1], bed[2]).house[k].owner = S.house[k].owner
    <3> HIDE DEF bed
    <3> QED BY <1>5, <2>3, <2>4, WakeWell
  <2>6. GoodsSent(World, WakeUp(S, bed[1], bed[2]))
    BY <1>2, <1>4, <2>5 DEF GoodsSent
  <2> QED BY <1>1, <1>7, <2>5, <2>6, Becomes
<1> QED BY <1>6, <1>7

\* A list is set by a window that may have been opened long before.
LEMMA UpdateFollows ==
  ASSUME Well(World), NEW p \in Resident, NEW text \in Text, UpdateHouseWindow(p, text)
  PROVE  Follows
<1> DEFINE r == [resident[p] EXCEPT !.edits = Nobody]
           S == [house |-> house, resident |-> [resident EXCEPT ![p] = r]]
           w == resident[p].edits
           V == IF CanEdit(house[w[1]], p, w[2]) THEN SetAccessList(S, w[1], w[2], text) ELSE S
<1>1. /\ w # Nobody /\ HousesBecome(V)
  BY DEF UpdateHouseWindow, World
<1>2. /\ resident[p] \in ResidentRecord /\ World.house = house /\ World.resident = resident
      /\ Invited(World) /\ (resident[p].online /\ resident[p].sleepsIn # NoBed => resident[p].kicked)
  BY WorldFields DEF Well
<1>3. /\ r \in ResidentRecord /\ r.sleepsIn = resident[p].sleepsIn /\ r.at = resident[p].at
      /\ r.online = resident[p].online /\ r.kicked = resident[p].kicked
  BY <1>2 DEF ResidentRecord
<1>4. w[1] \in House /\ w[2] \in Lists /\ text \in Texts
  BY <1>1, <1>2 DEF ResidentRecord, Texts
<1>5. S = [house |-> S.house, resident |-> S.resident] /\ S.house = house
      /\ S.resident = [resident EXCEPT ![p] = r]
  OBVIOUS
<1>6. r.online /\ ~r.kicked /\ r.at \in House => IsInvited(house[r.at], p)
  BY <1>2, <1>3, HousesAssumption DEF Invited, InvitedBut
<1> HIDE DEF r, S, w
<1>7. Well(S)
  BY <1>2, <1>3, <1>5, <1>6, ResidentMoved
<1>8. CASE ~CanEdit(house[w[1]], p, w[2])
  <2>1. GoodsSent(World, S)
    BY <1>2, <1>5 DEF GoodsSent
  <2> QED BY <1>1, <1>7, <1>8, <2>1, Becomes
<1>9. CASE CanEdit(house[w[1]], p, w[2])
  <2> DEFINE X == SetAccessList(S, w[1], w[2], text)
  <2>1. Typed(S) /\ Beds(S) /\ InvitedBut(S, w[1])
    BY <1>7, AllInvited DEF Well
  <2>2. /\ Beside(S, X, w[1]) /\ SameBeds(S, X) /\ SameGoods(S.house[w[1]], X.house[w[1]]) /\ Invited(X)
    BY <1>4, <2>1, ListSet
  <2> HIDE DEF X
  <2>3. Well(X)
    BY <2>1, <2>2, BedsStay DEF Well, Beds, Beside
  <2>4. GoodsSent(World, X)
    BY <1>2, <1>5, <2>2 DEF GoodsSent, Beside, SameGoods
  <2> QED BY <1>1, <1>9, <2>3, <2>4, Becomes DEF X
<1> QED BY <1>8, <1>9

LEMMA WakeFollows ==
  ASSUME Well(World), NEW p \in Resident, NEW h \in House, NEW i \in Side, WakeSleeper(p, h, i)
  PROVE  Follows
<1>1. house[h].bed[i] # Nobody /\ HousesBecome(WakeUp(World, h, i)) /\ World.house = house
  BY DEF WakeSleeper, World
<1>2. Typed(World) /\ Invited(World) /\ Beds(World)
  BY DEF Well
<1>3. BedsBut(World, World.house[h].bed[i])
  BY <1>2, HousesAssumption DEF Beds, BedsBut
<1>4. /\ Well(WakeUp(World, h, i))
      /\ \A k \in House : WakeUp(World, h, i).house[k].owner = World.house[k].owner
  BY <1>1, <1>2, <1>3, WakeWell
<1>5. GoodsSent(World, WakeUp(World, h, i))
  BY <1>4 DEF GoodsSent
<1> QED BY <1>1, <1>4, <1>5, Becomes

LEMMA NoBedIsNone == \A k : NoBed \notin {k} \X Side
<1> SUFFICES ASSUME NEW k, NoBed \in {k} \X Side  PROVE FALSE
  OBVIOUS
<1>1. PICK i \in Side : NoBed = <<k, i>>
  OBVIOUS
<1>2. Len(<<k, i>>) = 2 /\ Len(<<>>) = 0
  OBVIOUS
<1> QED BY <1>1, <1>2 DEF NoBed

\* Whoever lies down is in the house, invited or not, until the task that logs him out.
LEMMA SleepFollows ==
  ASSUME Well(World), NEW p \in Resident, NEW h \in House, NEW i \in Side, Sleep(p, h, i)
  PROVE  Follows
<1> DEFINE new == [house[h] EXCEPT !.bed = [j \in Side |-> p]]
           r == [resident[p] EXCEPT !.sleepsIn = <<h, i>>, !.at = h, !.kicked = TRUE]
           V == [house |-> [house EXCEPT ![h] = new], resident |-> [resident EXCEPT ![p] = r]]
<1>1. /\ house \in [House -> HouseRecord] /\ resident \in [Resident -> ResidentRecord]
      /\ World.house = house /\ World.resident = resident
      /\ resident[p].online /\ resident[p].sleepsIn # NoBed => resident[p].kicked
      /\ house[h] \in HouseRecord /\ resident[p] \in ResidentRecord
      /\ Invited(World) /\ Beds(World)
  BY WorldFields DEF Well
<1>2. /\ resident[p].online /\ ~resident[p].kicked /\ house[h].bed[i] = Nobody
      /\ house' = [house EXCEPT ![h] = new] /\ resident' = [resident EXCEPT ![p] = r]
  BY DEF Sleep
<1>3. HousesBecome(V)
  BY <1>2 DEF HousesBecome
<1>4. /\ new \in HouseRecord /\ new.owner = house[h].owner /\ new.guest = house[h].guest
      /\ new.subowner = house[h].subowner /\ new.bed[1] = p /\ new.bed[2] = p
  BY <1>1, Fields DEF HouseRecord, Side
<1>5. r \in ResidentRecord /\ r.kicked /\ r.sleepsIn = <<h, i>> /\ r.online
  BY <1>1, <1>2 DEF ResidentRecord
<1>6. house[h].bed[1] = Nobody /\ resident[p].sleepsIn = NoBed
  BY <1>1, <1>2 DEF Beds, BedsBut, Side
<1> HIDE DEF new, r
<1>7. /\ V = [house |-> V.house, resident |-> V.resident]
      /\ V.house \in [House -> HouseRecord] /\ V.resident \in [Resident -> ResidentRecord]
      /\ \A k \in House : V.house[k] = IF k = h THEN new ELSE house[k]
      /\ \A q \in Resident : V.resident[q] = IF q = p THEN r ELSE resident[q]
  BY <1>1, <1>4, <1>5
<1> HIDE DEF V
<1>8. Typed(V)
  BY <1>7 DEF Typed
<1>9. Invited(V)
  <2> SUFFICES ASSUME NEW q \in Resident, V.resident[q].online, ~V.resident[q].kicked,
                      V.resident[q].at \in House
               PROVE  IsInvited(V.house[V.resident[q].at], q)
    BY DEF Invited, InvitedBut
  <2>1. q # p /\ V.resident[q] = resident[q]
    BY <1>5, <1>7
  <2>2. resident[q].at # Street /\ IsInvited(house[resident[q].at], q)
    BY <1>1, <2>1, HousesAssumption DEF Invited, InvitedBut
  <2>3. CASE resident[q].at = h
    BY <1>4, <1>7, <2>1, <2>2, <2>3, SameInvited
  <2>4. CASE resident[q].at # h
    BY <1>7, <2>1, <2>2, <2>4
  <2> QED BY <2>3, <2>4
<1>10. Beds(V)
  <2>1. ASSUME NEW k \in House  PROVE V.house[k].bed[1] = V.house[k].bed[2]
    BY <1>1, <1>4, <1>7 DEF Beds, BedsBut
  <2>2. ASSUME NEW k \in House, V.house[k].bed[1] # Nobody
        PROVE  V.resident[V.house[k].bed[1]].sleepsIn \in {k} \X Side
    <3>1. CASE k = h
      <4>1. V.house[k].bed[1] = p /\ V.resident[p] = r
        BY <1>4, <1>7, <3>1
      <4>2. <<h, i>> \in {k} \X Side
        BY <3>1
      <4> QED BY <1>5, <4>1, <4>2
    <3>2. CASE k # h
      <4>1. V.house[k] = house[k] /\ house[k].bed[1] \in Resident
        BY <1>1, <1>7, <2>2, <3>2 DEF HouseRecord, Side
      <4>2. resident[house[k].bed[1]].sleepsIn \in {k} \X Side
        BY <1>1, <2>2, <4>1 DEF Beds, BedsBut
      <4>3. house[k].bed[1] # p
        BY <1>6, <4>2, NoBedIsNone
      <4> QED BY <1>7, <4>1, <4>2, <4>3
    <3> QED BY <3>1, <3>2
  <2>3. ASSUME NEW q \in Resident, V.resident[q].sleepsIn # NoBed
        PROVE  /\ V.house[V.resident[q].sleepsIn[1]].bed[1] = q
               /\ q # Nobody /\ V.resident[q].online => V.resident[q].kicked
    <3>1. CASE q = p
      BY <1>4, <1>5, <1>7, <3>1
    <3>2. CASE q # p
      <4>1. V.resident[q] = resident[q] /\ resident[q].sleepsIn \in House \X Side
        BY <1>1, <1>7, <2>3, <3>2 DEF ResidentRecord
      <4>2. /\ house[resident[q].sleepsIn[1]].bed[1] = q
            /\ q # Nobody /\ resident[q].online => resident[q].kicked
        BY <1>1, <2>3, <4>1 DEF Beds, BedsBut
      <4>3. resident[q].sleepsIn[1] \in House /\ resident[q].sleepsIn[1] # h
        BY <1>6, <4>1, <4>2, HousesAssumption
      <4> QED BY <1>7, <4>1, <4>2, <4>3
    <3> QED BY <3>1, <3>2
  <2> QED BY <2>1, <2>2, <2>3 DEF Beds, BedsBut
<1>11. GoodsSent(World, V)
  BY <1>1, <1>4, <1>7 DEF GoodsSent
<1> QED BY <1>3, <1>8, <1>9, <1>10, <1>11, Becomes DEF Well

LEMMA OwnerFollows ==
  ASSUME Well(World), NEW h \in House, NEW guid \in Resident \cup {Nobody}, SetOwnerGuid(h, guid)
  PROVE  Follows
<1> DEFINE V == SetOwner(World, h, guid)
<1>1. HousesBecome(V)
  BY DEF SetOwnerGuid
<1>2. /\ Beside(World, V, h) /\ Well(V) /\ V.house[h].owner = guid
      /\ V.house[h].goods = IF World.house[h].owner = guid THEN World.house[h].goods ELSE Emptied(World.house[h])
  BY OwnerSet
<1> HIDE DEF V
<1>3. GoodsSent(World, V)
  BY <1>2 DEF GoodsSent, Beside
<1> QED BY <1>1, <1>2, <1>3, Becomes

\* The partner of the trade gets the house, and the offer is over.
LEMMA TransferFollows ==
  ASSUME Well(World), NEW h \in House, ExecuteTransfer(h)
  PROVE  Follows
<1> DEFINE S == SetOwner(World, h, house[h].offered)
           new == [S.house[h] EXCEPT !.offered = Nobody]
           V == [S EXCEPT !.house[h] = new]
<1>1. HousesBecome(V)
  BY DEF ExecuteTransfer
<1>2. house[h] \in HouseRecord
  BY WorldFields
<1>3. house[h].offered \in Resident \cup {Nobody}
  BY <1>2 DEF HouseRecord
<1>4. /\ Beside(World, S, h) /\ Well(S) /\ S.house[h].owner = house[h].offered
      /\ S.house[h].goods = IF World.house[h].owner = house[h].offered THEN World.house[h].goods
                            ELSE Emptied(World.house[h])
  BY <1>3, OwnerSet
<1> HIDE DEF S
<1>5. Typed(S) /\ S.house \in [House -> HouseRecord] /\ S.house[h] \in HouseRecord
  BY <1>4 DEF Well, Typed
<1>6. new \in HouseRecord /\ SameRights(S.house[h], new) /\ new.goods = S.house[h].goods
  BY <1>5, Fields DEF HouseRecord, SameRights
<1> HIDE DEF new, V
<1>7. Beside(S, V, h) /\ V.house[h] = new /\ V.resident = S.resident
  BY <1>5, <1>6, Rebuilt DEF V
<1>8. /\ V = [house |-> V.house, resident |-> V.resident] /\ V.house \in [House -> HouseRecord]
      /\ \A k \in House : SameRights(S.house[k], V.house[k])
  BY <1>6, <1>7 DEF Beside, Typed, SameRights
<1>9. Well(V)
  BY <1>4, <1>7, <1>8, RightsStay
<1>10. GoodsSent(World, V)
  BY <1>4, <1>6, <1>7 DEF GoodsSent, Beside, SameRights
<1> QED BY <1>1, <1>9, <1>10, Becomes

\* The rents of all the houses, with everybody offline.
LEMMA RentsPaid ==
  ASSUME NEW W, Well(W), \A p \in Resident : ~W.resident[p].online, NEW unpaid
  PROVE  Well(PayHouses(W, unpaid)) /\ GoodsSent(W, PayHouses(W, unpaid))
<1> DEFINE bed(p) == W.resident[p].sleepsIn
           hs == [h \in House |-> PayHouse(W, h, unpaid).house[h]]
           rs == [p \in Resident |->
                    IF bed(p) = NoBed THEN W.resident[p] ELSE PayHouse(W, bed(p)[1], unpaid).resident[p]]
           V == PayHouses(W, unpaid)
<1>1. V = [house |-> hs, resident |-> rs]
  BY DEF PayHouses
<1>2. Typed(W) /\ Beds(W) /\ W.resident \in [Resident -> ResidentRecord] /\ W.house \in [House -> HouseRecord]
  BY DEF Well, Typed
<1>3. \A h \in House : Beside(W, PayHouse(W, h, unpaid), h) /\ Well(PayHouse(W, h, unpaid))
  BY Paid
<1>4. \A p \in Resident : bed(p) # NoBed => bed(p)[1] \in House
  BY <1>2 DEF ResidentRecord
<1>5. \A h \in House : hs[h] \in HouseRecord /\ hs[h] = PayHouse(W, h, unpaid).house[h]
  BY <1>3 DEF Well, Typed
<1>6. \A p \in Resident :
        /\ rs[p] \in ResidentRecord /\ ~rs[p].online
        /\ bed(p) = NoBed => rs[p] = W.resident[p]
        /\ bed(p) # NoBed => rs[p] = PayHouse(W, bed(p)[1], unpaid).resident[p]
  <2> SUFFICES ASSUME NEW p \in Resident
               PROVE  /\ rs[p] \in ResidentRecord /\ ~rs[p].online
                      /\ bed(p) = NoBed => rs[p] = W.resident[p]
                      /\ bed(p) # NoBed => rs[p] = PayHouse(W, bed(p)[1], unpaid).resident[p]
    OBVIOUS
  <2>1. CASE bed(p) = NoBed
    BY <1>2, <2>1
  <2>2. CASE bed(p) # NoBed
    <3>1. rs[p] = PayHouse(W, bed(p)[1], unpaid).resident[p] /\ bed(p)[1] \in House
      BY <1>4, <2>2
    <3> HIDE DEF rs
    <3>2. PayHouse(W, bed(p)[1], unpaid).resident[p] \in ResidentRecord
      BY <1>3, <3>1 DEF Well, Typed
    <3>3. ~PayHouse(W, bed(p)[1], unpaid).resident[p].online
      BY <1>3, <3>1 DEF Beside
    <3> QED BY <2>2, <3>1, <3>2, <3>3
  <2> QED BY <2>1, <2>2
<1>7. hs \in [House -> HouseRecord] /\ rs \in [Resident -> ResidentRecord]
  BY <1>5, <1>6
<1> HIDE DEF hs, rs, V
<1>8. V.house = hs /\ V.resident = rs /\ V = [house |-> V.house, resident |-> V.resident]
  BY <1>1
<1>9. Typed(V)
  BY <1>7, <1>8 DEF Typed
<1>10. Invited(V)
  <2> SUFFICES ASSUME NEW p \in Resident, V.resident[p].online  PROVE FALSE
    BY DEF Invited, InvitedBut
  <2> QED BY <1>6, <1>8
<1>11. \A h \in House : hs[h].bed[1] = hs[h].bed[2]
  <2> SUFFICES ASSUME NEW h \in House  PROVE hs[h].bed[1] = hs[h].bed[2]
    OBVIOUS
  <2>1. Beds(PayHouse(W, h, unpaid)) /\ hs[h] = PayHouse(W, h, unpaid).house[h]
    BY <1>3, <1>5 DEF Well
  <2>2. PayHouse(W, h, unpaid).house[h].bed[1] = PayHouse(W, h, unpaid).house[h].bed[2]
    BY <2>1 DEF Beds, BedsBut
  <2> QED BY <2>1, <2>2
<1>12. \A h \in House : hs[h].bed[1] # Nobody => rs[hs[h].bed[1]].sleepsIn \in {h} \X Side
  <2> SUFFICES ASSUME NEW h \in House, hs[h].bed[1] # Nobody
               PROVE  rs[hs[h].bed[1]].sleepsIn \in {h} \X Side
    OBVIOUS
  <2> DEFINE S == PayHouse(W, h, unpaid)
             p == S.house[h].bed[1]
  <2>1. hs[h].bed[1] = p /\ p # Nobody /\ Beside(W, S, h) /\ Well(S)
    BY <1>3, <1>5
  <2> HIDE DEF S
  <2>2. S.resident[p].sleepsIn \in {h} \X Side /\ S.house[h] \in HouseRecord
    BY <2>1 DEF Well, Beds, BedsBut, Typed
  <2>3. p \in Resident
    BY <2>1, <2>2 DEF HouseRecord, Side
  <2> HIDE DEF p
  <2>4. S.resident[p].sleepsIn # NoBed
    BY <2>2, NoBedIsNone
  <2>5. bed(p) = S.resident[p].sleepsIn
    BY <2>1, <2>3, <2>4 DEF Beside
  <2>6. bed(p) # NoBed /\ bed(p)[1] = h
    BY <2>2, <2>4, <2>5
  <2>7. rs[p] = S.resident[p]
    BY <1>6, <2>3, <2>6 DEF S
  <2> QED BY <2>1, <2>2, <2>7
<1>13. \A p \in Resident : rs[p].sleepsIn # NoBed => hs[rs[p].sleepsIn[1]].bed[1] = p
  <2> SUFFICES ASSUME NEW p \in Resident, rs[p].sleepsIn # NoBed
               PROVE  hs[rs[p].sleepsIn[1]].bed[1] = p
    OBVIOUS
  <2>1. bed(p) # NoBed /\ bed(p)[1] \in House
    BY <1>4, <1>6
  <2> DEFINE h == bed(p)[1]
             S == PayHouse(W, h, unpaid)
  <2>2. rs[p] = S.resident[p] /\ Beside(W, S, h) /\ Well(S) /\ hs[h] = S.house[h]
    BY <1>3, <1>5, <1>6, <2>1
  <2> HIDE DEF S
  <2>3. S.resident[p].sleepsIn = bed(p)
    BY <2>2 DEF Beside
  <2>4. S.house[S.resident[p].sleepsIn[1]].bed[1] = p
    BY <2>2, <2>3 DEF Well, Beds, BedsBut
  <2> QED BY <2>2, <2>3, <2>4
<1>14. Beds(V)
  BY <1>6, <1>8, <1>11, <1>12, <1>13 DEF Beds, BedsBut
<1>15. GoodsSent(W, V)
  BY <1>5, <1>8, Paid DEF GoodsSent
<1> QED BY <1>9, <1>10, <1>14, <1>15 DEF Well, V

\* What a shutdown leaves of a resident.
LEMMA Unloaded ==
  ASSUME NEW r \in ResidentRecord, NEW new,
         new = [r EXCEPT !.online = FALSE, !.kicked = FALSE, !.edits = Nobody,
                         !.sleepsIn = IF @ = NoBed THEN NoBed ELSE <<@[1], 2>>]
  PROVE  /\ new \in ResidentRecord /\ ~new.online
         /\ r.sleepsIn = NoBed <=> new.sleepsIn = NoBed
         /\ r.sleepsIn # NoBed => new.sleepsIn[1] = r.sleepsIn[1] /\ new.sleepsIn \in {r.sleepsIn[1]} \X Side
<1>1. PICK s : s = IF r.sleepsIn = NoBed THEN NoBed ELSE <<r.sleepsIn[1], 2>>
  OBVIOUS
<1>2. new = [online |-> FALSE, at |-> r.at, edits |-> Nobody, kicked |-> FALSE, sleepsIn |-> s]
  BY <1>1 DEF ResidentRecord
<1>3. r.sleepsIn \in {NoBed} \cup (House \X Side) /\ r.at \in House \cup {Street}
  BY DEF ResidentRecord
<1>4. /\ s \in {NoBed} \cup (House \X Side)
      /\ r.sleepsIn = NoBed <=> s = NoBed
      /\ r.sleepsIn # NoBed => s[1] = r.sleepsIn[1] /\ s \in {r.sleepsIn[1]} \X Side
  <2>1. CASE r.sleepsIn = NoBed
    BY <1>1, <2>1
  <2>2. CASE r.sleepsIn # NoBed
    <3>1. r.sleepsIn \in House \X Side /\ s = <<r.sleepsIn[1], 2>>
      BY <1>1, <1>3, <2>2
    <3>2. s \in House \X Side /\ s \in {r.sleepsIn[1]} \X Side /\ s[1] = r.sleepsIn[1]
      BY <3>1 DEF Side
    <3> QED BY <2>2, <3>2, NoBedIsNone
  <2> QED BY <2>1, <2>2
<1> DEFINE n == [online |-> FALSE, at |-> r.at, edits |-> Nobody, kicked |-> FALSE, sleepsIn |-> s]
<1>5. n \in ResidentRecord /\ ~n.online /\ n.sleepsIn = s
  BY <1>3, <1>4 DEF ResidentRecord
<1>6. new = n
  BY <1>2
<1> HIDE DEF n
<1> QED BY <1>4, <1>5, <1>6

\* A restart: everybody is offline, in bed or not, and every offer is gone; then the rents.
LEMMA RestartFollows ==
  ASSUME Well(World), NEW unpaid, Restart(unpaid)
  PROVE  Follows
<1> DEFINE rs == [p \in Resident |-> [resident[p] EXCEPT !.online = FALSE, !.kicked = FALSE, !.edits = Nobody,
                    !.sleepsIn = IF @ = NoBed THEN NoBed ELSE <<@[1], 2>>]]
           hs == [h \in House |-> [house[h] EXCEPT !.offered = Nobody]]
           S == [house |-> hs, resident |-> rs]
           V == PayHouses(S, unpaid)
<1>1. /\ house \in [House -> HouseRecord] /\ resident \in [Resident -> ResidentRecord]
      /\ World.house = house /\ World.resident = resident /\ Beds(World)
  BY WorldFields DEF Well
<1>2. HousesBecome(V)
  BY DEF Restart
<1>3. \A h \in House : hs[h] \in HouseRecord /\ SameRights(house[h], hs[h]) /\ hs[h].goods = house[h].goods
  <2> SUFFICES ASSUME NEW h \in House
               PROVE  hs[h] \in HouseRecord /\ SameRights(house[h], hs[h]) /\ hs[h].goods = house[h].goods
    OBVIOUS
  <2>1. house[h] \in HouseRecord
    BY <1>1
  <2>2. /\ [house[h] EXCEPT !.offered = Nobody] \in HouseRecord
        /\ SameRights(house[h], [house[h] EXCEPT !.offered = Nobody])
        /\ [house[h] EXCEPT !.offered = Nobody].goods = house[h].goods
    BY <2>1, Fields DEF HouseRecord, SameRights
  <2> QED BY <2>2
<1>4. \A p \in Resident :
        /\ rs[p] \in ResidentRecord /\ ~rs[p].online
        /\ resident[p].sleepsIn = NoBed <=> rs[p].sleepsIn = NoBed
        /\ resident[p].sleepsIn # NoBed =>
             rs[p].sleepsIn[1] = resident[p].sleepsIn[1] /\ rs[p].sleepsIn \in {resident[p].sleepsIn[1]} \X Side
  BY <1>1, Unloaded
<1>5. hs \in [House -> HouseRecord] /\ rs \in [Resident -> ResidentRecord]
  BY <1>3, <1>4
<1>6. S = [house |-> S.house, resident |-> S.resident] /\ S.house = hs /\ S.resident = rs
  OBVIOUS
<1> HIDE DEF hs, rs, S, V
<1>7. Typed(S)
  BY <1>5, <1>6 DEF Typed
<1>8. Invited(S)
  BY <1>4, <1>6 DEF Invited, InvitedBut
<1>9. Beds(S)
  <2>1. \A h \in House : hs[h].bed = house[h].bed
    BY <1>3 DEF SameRights
  <2>2. \A h \in House : hs[h].bed[1] = hs[h].bed[2]
    BY <1>1, <2>1 DEF Beds, BedsBut
  <2>3. \A h \in House : hs[h].bed[1] # Nobody => rs[hs[h].bed[1]].sleepsIn \in {h} \X Side
    <3> SUFFICES ASSUME NEW h \in House, hs[h].bed[1] # Nobody  PROVE rs[hs[h].bed[1]].sleepsIn \in {h} \X Side
      OBVIOUS
    <3> DEFINE p == house[h].bed[1]
    <3>1. hs[h].bed[1] = p /\ p # Nobody /\ resident[p].sleepsIn \in {h} \X Side /\ house[h] \in HouseRecord
      BY <1>1, <2>1 DEF Beds, BedsBut
    <3>2. p \in Resident
      BY <3>1 DEF HouseRecord, Side
    <3>3. resident[p].sleepsIn # NoBed /\ resident[p].sleepsIn[1] = h
      BY <3>1, NoBedIsNone
    <3> HIDE DEF p
    <3> QED BY <1>4, <3>1, <3>2, <3>3
  <2>4. \A p \in Resident : rs[p].sleepsIn # NoBed => hs[rs[p].sleepsIn[1]].bed[1] = p
    <3> SUFFICES ASSUME NEW p \in Resident, rs[p].sleepsIn # NoBed  PROVE hs[rs[p].sleepsIn[1]].bed[1] = p
      OBVIOUS
    <3>1. resident[p].sleepsIn # NoBed /\ rs[p].sleepsIn[1] = resident[p].sleepsIn[1]
      BY <1>4
    <3>2. house[resident[p].sleepsIn[1]].bed[1] = p /\ resident[p].sleepsIn[1] \in House
      BY <1>1, <3>1 DEF Beds, BedsBut, ResidentRecord
    <3> QED BY <2>1, <3>1, <3>2
  <2> QED BY <1>4, <1>6, <2>2, <2>3, <2>4 DEF Beds, BedsBut
<1>10. Well(V) /\ GoodsSent(S, V)
  BY <1>4, <1>6, <1>7, <1>8, <1>9, RentsPaid DEF Well, V
<1>11. GoodsSent(World, V)
  BY <1>1, <1>3, <1>6, <1>10 DEF GoodsSent, SameRights, Emptied
<1> QED BY <1>2, <1>10, <1>11, Becomes
-----------------------------------------------------------------------------

\* The new server is sound.
LEMMA HousesStart == HousesInit => Well(World)
<1> SUFFICES ASSUME HousesInit PROVE Well(World)
  OBVIOUS
<1>1. NewHouse \in HouseRecord /\ NewResident \in ResidentRecord
  BY DEF NewHouse, NewResident, HouseRecord, ResidentRecord, Texts, Lists
<1>2. /\ World.house = [h \in House |-> NewHouse] /\ World.resident = [p \in Resident |-> NewResident]
      /\ World = [house |-> World.house, resident |-> World.resident]
  BY DEF HousesInit, World
<1>3. NewHouse.bed[1] = Nobody /\ NewHouse.bed[2] = Nobody /\ ~NewResident.online /\ NewResident.sleepsIn = NoBed
  BY DEF NewHouse, NewResident, Side
<1>4. Typed(World)
  BY <1>1, <1>2 DEF Typed
<1>5. Invited(World)
  BY <1>2, <1>3 DEF Invited, InvitedBut
<1>6. Beds(World)
  BY <1>2, <1>3 DEF Beds, BedsBut
<1> QED BY <1>4, <1>5, <1>6 DEF Well

LEMMA HousesStep == Well(World) /\ [HousesNext]_houseVars => Follows
<1> SUFFICES ASSUME Well(World), [HousesNext]_houseVars  PROVE Follows
  OBVIOUS
<1>1. CASE UNCHANGED houseVars
  <2>1. World' = World
    BY <1>1 DEF houseVars, World
  <2> QED BY <2>1 DEF Follows, GoodsSent
<1>2. ASSUME NEW p \in Resident, ResidentLogin(p) \/ ResidentLogout(p) \/ LeaveHouse(p) \/ KickSleeper(p)
      PROVE  Follows
  <2>1. CASE ResidentLogin(p)
    BY <2>1, LoginFollows
  <2>2. CASE ResidentLogout(p) \/ KickSleeper(p)
    BY <2>2, GoneFollows DEF ResidentLogout, KickSleeper
  <2>3. CASE LeaveHouse(p)
    BY <2>3, OutFollows DEF LeaveHouse
  <2> QED BY <1>2, <2>1, <2>2, <2>3
<1>3. ASSUME NEW p \in Resident, NEW h \in House, Enter(p, h) \/ DropGoods(p, h)
      PROVE  Follows
  BY <1>3, EnterFollows, DropFollows
<1>4. ASSUME NEW p \in Resident, NEW q \in Resident, NEW h \in House, Kick(p, q, h) \/ SellHouse(p, q, h)
      PROVE  Follows
  <2>1. CASE Kick(p, q, h)
    BY <2>1, OutFollows DEF Kick
  <2>2. CASE SellHouse(p, q, h)
    BY <2>2, OfferFollows DEF SellHouse
  <2> QED BY <1>4, <2>1, <2>2
<1>5. ASSUME NEW p \in Resident, NEW h \in House, NEW list \in Lists, OpenHouseWindow(p, h, list)
      PROVE  Follows
  BY <1>5, WindowFollows
<1>6. ASSUME NEW p \in Resident, NEW text \in Text, UpdateHouseWindow(p, text)
      PROVE  Follows
  BY <1>6, UpdateFollows
<1>7. ASSUME NEW p \in Resident, NEW h \in House, NEW i \in Side, Sleep(p, h, i) \/ WakeSleeper(p, h, i)
      PROVE  Follows
  BY <1>7, SleepFollows, WakeFollows
<1>8. ASSUME NEW h \in House, NEW guid \in Resident \cup {Nobody}, SetOwnerGuid(h, guid)
      PROVE  Follows
  BY <1>8, OwnerFollows
<1>9. ASSUME NEW h \in House, ExecuteTransfer(h) \/ ResetTransferItem(h)
      PROVE  Follows
  <2>1. CASE ExecuteTransfer(h)
    BY <2>1, TransferFollows
  <2>2. CASE ResetTransferItem(h)
    BY <2>2, OfferFollows DEF ResetTransferItem
  <2> QED BY <1>9, <2>1, <2>2
<1>10. ASSUME NEW unpaid \in SUBSET House, Restart(unpaid)
       PROVE  Follows
  BY <1>10, RestartFollows
<1> QED BY <1>1, <1>2, <1>3, <1>4, <1>5, <1>6, <1>7, <1>8, <1>9, <1>10 DEF HousesNext

LEMMA AlwaysWell == HousesSpec => []Well(World)
<1>1. Well(World) /\ [HousesNext]_houseVars => Well(World)'
  BY HousesStep DEF Follows
<1> QED BY <1>1, HousesStart, PTL DEF HousesSpec

\* Whatever lists are written, houses sold, rents missed or owners set by a script, with every
\* login, logout and restart between: only the invited are in a house, and beds, sleepers and the
\* map of sleepers agree.
THEOREM InvitedAndAsleep == HousesSpec => []HousesKept
<1>1. Well(World) => HousesKept
  <2> SUFFICES ASSUME Well(World) PROVE HousesKept
    OBVIOUS
  <2>1. /\ house \in [House -> HouseRecord] /\ resident \in [Resident -> ResidentRecord]
        /\ World.house = house /\ World.resident = resident /\ Invited(World) /\ Beds(World)
    BY WorldFields DEF Well
  <2>2. OnlyTheInvited
    BY <2>1, HousesAssumption DEF OnlyTheInvited, Invited, InvitedBut
  <2>3. \A h \in House : house[h].bed[1] = house[h].bed[2]
    BY <2>1 DEF Beds, BedsBut
  <2>4. \A h \in House, i \in Side : house[h].bed[i] # Nobody => resident[house[h].bed[i]].sleepsIn # NoBed
    BY <2>1, <2>3, NoBedIsNone DEF Beds, BedsBut, Side
  <2>5. ASSUME NEW p \in Resident, resident[p].sleepsIn # NoBed
        PROVE  /\ house[resident[p].sleepsIn[1]].bed[resident[p].sleepsIn[2]] = p
               /\ resident[p].online => resident[p].kicked
    <3>1. resident[p].sleepsIn[1] \in House /\ resident[p].sleepsIn[2] \in {1, 2}
      BY <2>1, <2>5 DEF ResidentRecord, Side
    <3>2. house[resident[p].sleepsIn[1]].bed[1] = p /\ (resident[p].online => resident[p].kicked)
      BY <2>1, <2>5, HousesAssumption DEF Beds, BedsBut
    <3> QED BY <2>3, <3>1, <3>2
  <2> QED BY <2>2, <2>3, <2>4, <2>5 DEF HousesKept, BedsAgree
<1> QED BY <1>1, AlwaysWell, PTL

\* A house that changes hands has nothing on its floor, and what was there is in the depot of
\* whoever had it, unless he cannot be loaded.
THEOREM GoodsSentOn == HousesSpec => GoodsFollowOwner
<1> DEFINE Sent == \A h \in House : house[h].owner \notin Lost \cup {Nobody} /\ house'[h].owner # house[h].owner =>
                     /\ house'[h].goods # Floor
                     /\ house[h].goods = Floor => house'[h].goods = house[h].owner
<1>1. Well(World) /\ [HousesNext]_houseVars => [Sent]_houseVars
  <2> SUFFICES ASSUME Well(World), [HousesNext]_houseVars,
                      NEW h \in House, house[h].owner \notin Lost \cup {Nobody},
                      house'[h].owner # house[h].owner
               PROVE  /\ house'[h].goods # Floor
                      /\ house[h].goods = Floor => house'[h].goods = house[h].owner
    OBVIOUS
  <2>1. World.house = house /\ World'.house = house'
    BY DEF World
  <2>2. house'[h].goods = Emptied(house[h])
    BY <2>1, HousesStep DEF Follows, GoodsSent
  <2>3. house[h] \in HouseRecord
    BY WorldFields
  <2> QED BY <2>2, <2>3, HousesAssumption DEF Emptied, HouseRecord
<1> QED BY <1>1, AlwaysWell, PTL DEF HousesSpec, GoodsFollowOwner
-----------------------------------------------------------------------------
(* The steps of a monster.  Where a step may lead is a matter of cases;    *)
(* that the kept map is exact is one of following each offset through the  *)
(* lines and columns that move.                                            *)

\* The distance between two tiles in one number for each direction.
Size(n) == IF n < 0 THEN -n ELSE n
Reach(x, y) == IF Size(x) < Size(y) THEN Size(y) ELSE Size(x)

LEMMA ApartIs ==
  ASSUME NEW p \in Int \X Int, NEW q \in Int \X Int
  PROVE  Apart(p, q) = Reach(p[1] - q[1], p[2] - q[2])
<1>1. p[1] \in Int /\ p[2] \in Int /\ q[1] \in Int /\ q[2] \in Int
  OBVIOUS
<1> QED BY <1>1 DEF Apart, Reach, Size

\* The first open one of four directions is one of them.
LEMMA FirstOfFour ==
  ASSUME NEW a, NEW b, NEW c, NEW e, NEW d \in FirstOpen(<<a, b, c, e>>)
  PROVE  Open(d) /\ d \in {a, b, c, e}
<1> DEFINE s == <<a, b, c, e>>
           Is(k) == k \in 1 .. 4 /\ Open(s[k]) /\ \A j \in 1 .. k - 1 : ~Open(s[j])
           n == CHOOSE k \in DOMAIN s : Open(s[k]) /\ \A j \in 1 .. k - 1 : ~Open(s[j])
<1>1. DOMAIN s = 1 .. 4
  OBVIOUS
<1>2. (\E k \in DOMAIN s : Open(s[k])) /\ d = s[n]
  BY DEF FirstOpen
<1>3. Open(s[1]) \/ Open(s[2]) \/ Open(s[3]) \/ Open(s[4])
  BY <1>1, <1>2
<1>4. \E k \in 1 .. 4 : Open(s[k]) /\ \A j \in 1 .. k - 1 : ~Open(s[j])
  <2> HIDE DEF s
  <2>1. CASE Open(s[1])
    <3>1. 1 \in 1 .. 4 /\ \A j \in 1 .. 1 - 1 : ~Open(s[j])
      OBVIOUS
    <3> QED BY <2>1, <3>1
  <2>2. CASE ~Open(s[1]) /\ Open(s[2])
    <3>1. 2 \in 1 .. 4 /\ \A j \in 1 .. 2 - 1 : ~Open(s[j])
      BY <2>2
    <3> QED BY <2>2, <3>1
  <2>3. CASE ~Open(s[1]) /\ ~Open(s[2]) /\ Open(s[3])
    <3>1. 3 \in 1 .. 4 /\ \A j \in 1 .. 3 - 1 : ~Open(s[j])
      BY <2>3
    <3> QED BY <2>3, <3>1
  <2>4. CASE ~Open(s[1]) /\ ~Open(s[2]) /\ ~Open(s[3]) /\ Open(s[4])
    <3>1. 4 \in 1 .. 4 /\ \A j \in 1 .. 4 - 1 : ~Open(s[j])
      BY <2>4
    <3> QED BY <2>4, <3>1
  <2> QED BY <1>3, <2>1, <2>2, <2>3, <2>4
<1>5. n \in 1 .. 4 /\ Open(s[n])
  BY <1>1, <1>4
<1>6. n = 1 \/ n = 2 \/ n = 3 \/ n = 4
  <2> HIDE DEF n
  <2> QED BY <1>5
<1> HIDE DEF n
<1>7. s[n] \in {a, b, c, e}
  BY <1>6
<1> QED BY <1>2, <1>5, <1>7

\* A step from the diagonal: away, along the sides or, last, across.
LEMMA DiagonalSteps ==
  ASSUME NEW x \in {-1, 1}, NEW y \in {-1, 1}, NEW flee \in BOOLEAN, NEW d \in FromDiagonal(x, y, flee)
  PROVE  /\ d = Stay \/ (Open(d) /\ d \in {<<x, 0>>, <<0, y>>, <<x, y>>, <<-x, 0>>, <<0, -y>>})
         /\ flee /\ d = Stay => OpenOf(Straights) = {}
<1>1. /\ <<x, 0>> # Stay /\ <<0, y>> # Stay /\ <<x, y>> # Stay /\ <<-x, 0>> # Stay /\ <<0, -y>> # Stay
  BY DEF Stay
<1>2. Straights = {<<x, 0>>, <<0, y>>, <<-x, 0>>, <<0, -y>>}
  BY DEF Straights
<1>3. \A e \in Slip(x, y) : e = Stay \/ (Open(e) /\ e \in {<<-x, 0>>, <<0, -y>>})
  <2> DEFINE alongX == IF Open(<<-x, 0>>) /\ Open(<<-x, y>>) THEN {<<-x, 0>>} ELSE {}
             alongY == IF Open(<<0, -y>>) /\ Open(<<x, -y>>) THEN {<<0, -y>>} ELSE {}
  <2>1. /\ \A e \in alongX : Open(e) /\ e \in {<<-x, 0>>, <<0, -y>>}
        /\ \A e \in alongY : Open(e) /\ e \in {<<-x, 0>>, <<0, -y>>}
    OBVIOUS
  <2>2. Slip(x, y) = IF x < 0 /\ y < 0 THEN Else(alongY, Else(alongX, {Stay})) ELSE Else(alongX, Else(alongY, {Stay}))
    BY DEF Slip
  <2> HIDE DEF alongX, alongY
  <2>3. \A e \in Slip(x, y) : e \in alongX \/ e \in alongY \/ e = Stay
    BY <2>2 DEF Else
  <2> QED BY <2>1, <2>3
<1>4. CASE OpenOf({<<x, 0>>, <<0, y>>}) # {}
  BY <1>1, <1>4 DEF FromDiagonal, Else, OpenOf
<1>5. CASE OpenOf({<<x, 0>>, <<0, y>>}) = {} /\ OpenOf({<<x, y>>}) # {}
  BY <1>1, <1>5 DEF FromDiagonal, Else, OpenOf
<1>6. CASE OpenOf({<<x, 0>>, <<0, y>>}) = {} /\ OpenOf({<<x, y>>}) = {} /\ flee
  <2>1. CASE OpenOf({<<-x, 0>>, <<0, -y>>}) # {}
    BY <1>1, <1>6, <2>1 DEF FromDiagonal, Else, OpenOf
  <2>2. CASE OpenOf({<<-x, 0>>, <<0, -y>>}) = {}
    <3>1. OpenOf(Straights) = {}
      BY <1>2, <1>6, <2>2 DEF OpenOf
    <3>2. d \in Slip(x, y)
      BY <1>6, <2>2 DEF FromDiagonal, Else
    <3> QED BY <1>3, <3>1, <3>2
  <2> QED BY <2>1, <2>2
<1>7. CASE OpenOf({<<x, 0>>, <<0, y>>}) = {} /\ OpenOf({<<x, y>>}) = {} /\ ~flee
  <2>1. d \in Slip(x, y)
    BY <1>7 DEF FromDiagonal, Else
  <2> QED BY <1>3, <1>7, <2>1
<1> QED BY <1>4, <1>5, <1>6, <1>7

\* A step from a straight line: away, aside, aslant or, last, toward.
LEMMA StraightSteps ==
  ASSUME NEW away, NEW first, NEW second, NEW off \in Int, NEW flee \in BOOLEAN,
         NEW d \in FromStraight(away, first, second, off, flee),
         away[1] \in Int, away # Stay, first # Stay, second # Stay, <<-away[1], -away[2]>> # Stay,
         Ahead(away, first) # Stay, Ahead(away, second) # Stay,
         Straights = {away, first, second, <<-away[1], -away[2]>>}
  PROVE  /\ \/ d = Stay
            \/ Open(d) /\ d \in {away, first, second, Ahead(away, first), Ahead(away, second)}
            \/ flee /\ d = <<-away[1], -away[2]>> /\ OpenOf(Straights) = {d}
         /\ flee /\ d = Stay => OpenOf(Straights) = {}
<1> DEFINE toward == <<-away[1], -away[2]>>
           one == Ahead(away, first)
           other == Ahead(away, second)
           Near(e) == Open(e) /\ e \in {away, first, second, one, other}
           slanting == IF away[1] > 0 THEN Slanting(away, second, first) ELSE Slanting(away, first, second)
           last == Else(IF flee THEN OpenOf({toward}) ELSE {}, {Stay})
           aside == IF flee THEN OpenOf({first, second}) ELSE {}
<1>1. FromStraight(away, first, second, off, flee) =
        Else(OpenOf({away}), Else(Sideways(first, second, off), Else(aside, Else(slanting, last))))
  BY DEF FromStraight
<1>2. \A e \in Sideways(first, second, off) : Near(e)
  BY DEF Sideways, Else, OpenOf
<1>3. \A e \in slanting : Near(e)
  <2>1. \A e \in Slanting(away, first, second) : Near(e)
    <3> SUFFICES ASSUME NEW e \in Slanting(away, first, second)  PROVE Near(e)
      OBVIOUS
    <3>1. CASE Open(one) /\ Open(other)
      BY <3>1 DEF Slanting
    <3>2. CASE ~(Open(one) /\ Open(other)) /\ (Open(one) \/ Open(other))
      <4>1. e \in FirstOpen(<<first, one, second, other>>)
        BY <3>2 DEF Slanting
      <4> HIDE DEF one, other
      <4>2. Open(e) /\ e \in {first, one, second, other}
        BY <4>1, FirstOfFour
      <4> QED BY <4>2
    <3>3. CASE ~(Open(one) \/ Open(other))
      BY <3>3 DEF Slanting
    <3> QED BY <3>1, <3>2, <3>3
  <2>2. \A e \in Slanting(away, second, first) : Near(e)
    <3> SUFFICES ASSUME NEW e \in Slanting(away, second, first)  PROVE Near(e)
      OBVIOUS
    <3>1. CASE Open(one) /\ Open(other)
      BY <3>1 DEF Slanting
    <3>2. CASE ~(Open(one) /\ Open(other)) /\ (Open(one) \/ Open(other))
      <4>1. e \in FirstOpen(<<second, other, first, one>>)
        BY <3>2 DEF Slanting
      <4> HIDE DEF one, other
      <4>2. Open(e) /\ e \in {second, other, first, one}
        BY <4>1, FirstOfFour
      <4> QED BY <4>2
    <3>3. CASE ~(Open(one) \/ Open(other))
      BY <3>3 DEF Slanting
    <3> QED BY <3>1, <3>2, <3>3
  <2> HIDE DEF Near
  <2> QED BY <2>1, <2>2
<1> HIDE DEF slanting
<1>4. CASE OpenOf({away}) # {}
  BY <1>1, <1>4 DEF Else, OpenOf
<1>5. CASE OpenOf({away}) = {} /\ Sideways(first, second, off) # {}
  <2>1. Near(d)
    BY <1>1, <1>2, <1>5 DEF Else
  <2>2. d # Stay
    BY <2>1
  <2> QED BY <2>1, <2>2
<1>6. CASE OpenOf({away}) = {} /\ Sideways(first, second, off) = {} /\ aside # {}
  <2>1. d \in aside
    BY <1>1, <1>6 DEF Else
  <2>2. Near(d) /\ d # Stay
    BY <2>1 DEF OpenOf
  <2> QED BY <2>2
<1>7. CASE OpenOf({away}) = {} /\ Sideways(first, second, off) = {} /\ aside = {}
  <2>1. d \in Else(slanting, last)
    BY <1>1, <1>7 DEF Else
  <2>2. CASE slanting # {}
    <3>1. Near(d)
      BY <1>3, <2>1, <2>2 DEF Else
    <3>2. d # Stay
      BY <3>1
    <3> QED BY <3>1, <3>2
  <2>3. CASE slanting = {}
    <3>1. d \in last
      BY <2>1, <2>3 DEF Else
    <3>2. CASE ~flee
      BY <3>1, <3>2 DEF Else
    <3>3. CASE flee
      <4>1. OpenOf({first, second}) = {} /\ d \in Else(OpenOf({toward}), {Stay})
        BY <1>7, <3>1, <3>3
      <4> HIDE DEF toward
      <4>2. OpenOf(Straights) = OpenOf({toward})
        BY <1>7, <4>1 DEF OpenOf, toward
      <4>3. OpenOf({toward}) = {} \/ OpenOf({toward}) = {toward}
        BY DEF OpenOf
      <4>4. CASE OpenOf({toward}) = {}
        BY <4>1, <4>2, <4>4 DEF Else
      <4>5. CASE OpenOf({toward}) = {toward}
        <5>1. d = toward
          BY <4>1, <4>5 DEF Else
        <5> QED BY <3>3, <4>2, <4>5, <5>1 DEF toward
      <4> QED BY <4>3, <4>4, <4>5
    <3> QED BY <3>2, <3>3
  <2> QED BY <2>2, <2>3
<1> QED BY <1>4, <1>5, <1>6, <1>7

\* Whose square is greater is farther.
LEMMA SquareIsFarther ==
  ASSUME NEW x \in Int, NEW y \in Int
  PROVE  y * y > x * x <=> Size(y) > Size(x)
<1>1. Size(x) \in Nat /\ Size(y) \in Nat
  BY DEF Size
<1>2. Size(x) * Size(x) = x * x /\ Size(y) * Size(y) = y * y
  BY DEF Size
<1>3. \A m, n \in Nat : n * n > m * m <=> n > m
  <2> SUFFICES ASSUME NEW m \in Nat, NEW n \in Nat  PROVE n * n > m * m <=> n > m
    OBVIOUS
  <2>1. CASE n > m
    <3>1. n * n >= n * m /\ n * m >= m * m /\ (n - m) * n > 0 /\ n * n = n * m + (n - m) * n
      BY <2>1
    <3>2. m * m \in Nat /\ n * n \in Nat /\ n * m \in Nat /\ (n - m) * n \in Int
      OBVIOUS
    <3> QED BY <2>1, <3>1, <3>2
  <2>2. CASE n <= m
    <3>1. n * n <= n * m /\ n * m <= m * m
      BY <2>2
    <3>2. m * m \in Nat /\ n * n \in Nat /\ n * m \in Nat
      OBVIOUS
    <3> QED BY <2>2, <3>1, <3>2
  <2> QED BY <2>1, <2>2
<1> QED BY <1>1, <1>2, <1>3

\* No step away from the diagonal, and none aside, makes the distance less.
LEMMA NotNearerOnDiagonal ==
  ASSUME NEW x \in Int \ {0}, NEW y \in Int \ {0}, x = y \/ x = -y,
         NEW d \in {<<Heading(x), 0>>, <<0, Heading(y)>>, <<Heading(x), Heading(y)>>, <<-Heading(x), 0>>, <<0, -Heading(y)>>}
  PROVE  Reach(x + d[1], y + d[2]) >= Reach(x, y)
<1>1. Reach(x, y) = Size(x) /\ Size(x) = Size(y)
  BY DEF Reach, Size
<1>2. CASE d = <<Heading(x), 0>>
  BY <1>2 DEF Heading, Reach, Size
<1>3. CASE d = <<0, Heading(y)>>
  BY <1>3 DEF Heading, Reach, Size
<1>4. CASE d = <<Heading(x), Heading(y)>>
  BY <1>4 DEF Heading, Reach, Size
<1>5. CASE d = <<-Heading(x), 0>>
  BY <1>5 DEF Heading, Reach, Size
<1>6. CASE d = <<0, -Heading(y)>>
  BY <1>6 DEF Heading, Reach, Size
<1> QED BY <1>2, <1>3, <1>4, <1>5, <1>6

LEMMA NotNearerFromStraight ==
  ASSUME NEW x \in Int, NEW y \in Int, Size(y) > Size(x), NEW a \in -1 .. 1, NEW b \in {0, Heading(y)},
         ~(a = 0 /\ b = 0)
  PROVE  /\ Reach(x + a, y + b) >= Reach(x, y)
         /\ Reach(y + b, x + a) >= Reach(y, x)
BY DEF Heading, Reach, Size

\* The directions around one that runs straight.
LEMMA AroundStraight ==
  ASSUME NEW s \in {-1, 1}
  PROVE  /\ <<0, s>>[1] \in Int /\ <<s, 0>>[1] \in Int
         /\ <<0, s>> # Stay /\ <<0, -s>> # Stay /\ <<s, 0>> # Stay /\ <<-s, 0>> # Stay
         /\ <<0, -1>> # Stay /\ <<0, 1>> # Stay /\ <<-1, 0>> # Stay /\ <<1, 0>> # Stay
         /\ <<-1, s>> # Stay /\ <<1, s>> # Stay /\ <<s, -1>> # Stay /\ <<s, 1>> # Stay
         /\ <<-<<0, s>>[1], -<<0, s>>[2]>> = <<0, -s>> /\ <<-<<s, 0>>[1], -<<s, 0>>[2]>> = <<-s, 0>>
         /\ Ahead(<<0, s>>, <<-1, 0>>) = <<-1, s>> /\ Ahead(<<0, s>>, <<1, 0>>) = <<1, s>>
         /\ Ahead(<<s, 0>>, <<0, -1>>) = <<s, -1>> /\ Ahead(<<s, 0>>, <<0, 1>>) = <<s, 1>>
         /\ Straights = {<<0, s>>, <<-1, 0>>, <<1, 0>>, <<0, -s>>}
         /\ Straights = {<<s, 0>>, <<0, -1>>, <<0, 1>>, <<-s, 0>>}
<1>1. /\ <<0, s>> # Stay /\ <<0, -s>> # Stay /\ <<s, 0>> # Stay /\ <<-s, 0>> # Stay
      /\ <<0, -1>> # Stay /\ <<0, 1>> # Stay /\ <<-1, 0>> # Stay /\ <<1, 0>> # Stay
      /\ <<-1, s>> # Stay /\ <<1, s>> # Stay /\ <<s, -1>> # Stay /\ <<s, 1>> # Stay
  BY DEF Stay
<1>2. <<0, s>>[1] \in Int /\ <<s, 0>>[1] \in Int
  OBVIOUS
<1>3. <<-<<0, s>>[1], -<<0, s>>[2]>> = <<0, -s>> /\ <<-<<s, 0>>[1], -<<s, 0>>[2]>> = <<-s, 0>>
  <2> DEFINE v == <<0, s>>
             w == <<s, 0>>
  <2>1. v[1] = 0 /\ v[2] = s /\ w[1] = s /\ w[2] = 0
    OBVIOUS
  <2> HIDE DEF v, w
  <2>2. v[1] \in Int /\ w[2] \in Int
    BY <2>1
  <2> DEFINE m == -v[1]
             n == -w[2]
  <2>3. m \in Int /\ v[1] + m = 0 /\ n \in Int /\ w[2] + n = 0
    BY <2>2
  <2> HIDE DEF m, n
  <2>4. m = 0 /\ n = 0
    BY <2>1, <2>3
  <2>5. -v[2] = -s /\ -w[1] = -s
    BY <2>1
  <2>6. <<m, -v[2]>> = <<0, -s>> /\ <<-w[1], n>> = <<-s, 0>>
    BY <2>4, <2>5
  <2> QED BY <2>6 DEF v, w, m, n
<1>4. Ahead(<<0, s>>, <<-1, 0>>) = <<-1, s>> /\ Ahead(<<0, s>>, <<1, 0>>) = <<1, s>>
  BY DEF Ahead
<1>5. Ahead(<<s, 0>>, <<0, -1>>) = <<s, -1>> /\ Ahead(<<s, 0>>, <<0, 1>>) = <<s, 1>>
  BY DEF Ahead
<1>6. Straights = {<<0, s>>, <<-1, 0>>, <<1, 0>>, <<0, -s>>}
  BY DEF Straights
<1>7. Straights = {<<s, 0>>, <<0, -1>>, <<0, 1>>, <<-s, 0>>}
  BY DEF Straights
<1> QED BY <1>1, <1>2, <1>3, <1>4, <1>5, <1>6, <1>7

\* What a step away from the target may be.
GoodStep(flee, d) ==
  /\ d # AskSearch
  /\ d # Stay => d \in AllDirections /\ Open(d)
  /\ flee /\ d = Stay => OpenOf(Straights) = {}
  /\ d # Stay => Apart(Ahead(at, d), aim) >= Apart(at, aim) \/ (flee /\ OpenOf(Straights) = {d})

LEMMA EscapeIsGood ==
  ASSUME at \in Squares, aim \in Squares, NEW flee \in BOOLEAN,
         NEW d \in Escape(at[1] - aim[1], at[2] - aim[2], flee)
  PROVE  GoodStep(flee, d)
<1> DEFINE x == at[1] - aim[1]
           y == at[2] - aim[2]
           Kept(e) == Reach(x + e[1], y + e[2]) >= Reach(x, y)
<1>1. /\ at \in Int \X Int /\ aim \in Int \X Int /\ x \in Int /\ y \in Int
      /\ at[1] \in Int /\ at[2] \in Int /\ aim[1] \in Int /\ aim[2] \in Int
  BY StepsAssumption DEF Squares
<1>2. \A e \in AllDirections : Apart(Ahead(at, e), aim) = Reach(x + e[1], y + e[2])
  <2> SUFFICES ASSUME NEW e \in AllDirections  PROVE Apart(Ahead(at, e), aim) = Reach(x + e[1], y + e[2])
    OBVIOUS
  <2>1. e[1] \in Int /\ e[2] \in Int
    BY DEF AllDirections
  <2>2. /\ Ahead(at, e) \in Int \X Int
        /\ Ahead(at, e)[1] = at[1] + e[1] /\ Ahead(at, e)[2] = at[2] + e[2]
    BY <1>1, <2>1 DEF Ahead
  <2>3. Apart(Ahead(at, e), aim) = Reach(Ahead(at, e)[1] - aim[1], Ahead(at, e)[2] - aim[2])
    BY <1>1, <2>2, ApartIs
  <2>4. Ahead(at, e)[1] - aim[1] = x + e[1] /\ Ahead(at, e)[2] - aim[2] = y + e[2]
    BY <1>1, <2>1, <2>2
  <2> QED BY <2>3, <2>4
<1>3. Apart(at, aim) = Reach(x, y)
  BY <1>1, ApartIs
<1>4. AskSearch # Stay /\ AskSearch \notin AllDirections /\ Straights \subseteq AllDirections
  BY DEF AskSearch, Stay, AllDirections, Straights
<1>5. Heading(x) \in -1 .. 1 /\ Heading(y) \in -1 .. 1
  BY <1>1 DEF Heading
<1>6. ASSUME NEW e \in AllDirections, Open(e), Kept(e)  PROVE GoodStep(flee, e)
  <2>1. e # Stay /\ e # AskSearch
    BY <1>4 DEF AllDirections, Stay
  <2>2. Apart(Ahead(at, e), aim) >= Apart(at, aim)
    BY <1>2, <1>3, <1>6
  <2> QED BY <1>6, <2>1, <2>2 DEF GoodStep
<1>7. ASSUME flee => OpenOf(Straights) = {}  PROVE GoodStep(flee, Stay)
  BY <1>4, <1>7 DEF GoodStep
<1>8. ASSUME NEW e \in AllDirections, flee, OpenOf(Straights) = {e}  PROVE GoodStep(flee, e)
  <2>1. e # Stay /\ e # AskSearch
    BY <1>4 DEF AllDirections, Stay
  <2>2. Open(e)
    BY <1>8 DEF OpenOf
  <2> QED BY <1>8, <2>1, <2>2 DEF GoodStep
<1> HIDE DEF x, y
<1>9. CASE x = 0 /\ y = 0
  <2>1. d \in Else(OpenOf(Straights), {Stay})
    BY <1>9 DEF Escape, RandomStep, x, y
  <2>2. CASE d = Stay
    <3>1. OpenOf(Straights) = {}
      BY <2>1, <2>2, <1>4 DEF Else, OpenOf, Straights, Stay
    <3> QED BY <1>7, <2>2, <3>1
  <2>3. CASE d # Stay
    <3>1. d \in Straights /\ Open(d)
      BY <2>1, <2>3 DEF Else, OpenOf
    <3>2. Kept(d)
      BY <1>9, <3>1 DEF Reach, Size, Straights
    <3> QED BY <1>4, <1>6, <3>1, <3>2
  <2> QED BY <2>2, <2>3
<1>10. CASE ~(x = 0 /\ y = 0) /\ (x = y \/ x = -y)
  <2>1. x \in Int \ {0} /\ y \in Int \ {0}
    BY <1>1, <1>10
  <2> DEFINE sx == Heading(x)
             sy == Heading(y)
  <2>2. sx \in {-1, 1} /\ sy \in {-1, 1}
    BY <2>1 DEF Heading
  <2>3. d \in FromDiagonal(sx, sy, flee)
    BY <1>10 DEF Escape, x, y
  <2> HIDE DEF sx, sy
  <2>4. /\ d = Stay \/ (Open(d) /\ d \in {<<sx, 0>>, <<0, sy>>, <<sx, sy>>, <<-sx, 0>>, <<0, -sy>>})
        /\ flee /\ d = Stay => OpenOf(Straights) = {}
    BY <2>2, <2>3, DiagonalSteps
  <2>5. CASE d = Stay
    BY <1>7, <2>4, <2>5
  <2>6. CASE d # Stay
    <3>1. d \in AllDirections
      BY <2>2, <2>4, <2>6 DEF AllDirections
    <3>2. d \in {<<Heading(x), 0>>, <<0, Heading(y)>>, <<Heading(x), Heading(y)>>, <<-Heading(x), 0>>, <<0, -Heading(y)>>}
      BY <2>4, <2>6 DEF sx, sy
    <3>3. Kept(d)
      BY <1>10, <2>1, <3>2, NotNearerOnDiagonal
    <3> QED BY <1>6, <2>4, <2>6, <3>1, <3>3
  <2> QED BY <2>5, <2>6
<1>11. CASE ~(x = 0 /\ y = 0) /\ ~(x = y \/ x = -y) /\ y * y > x * x
  <2> DEFINE s == Heading(y)
  <2>1. Size(y) > Size(x) /\ y # 0
    <3>1. Size(y) > Size(x)
      BY <1>1, <1>11, SquareIsFarther
    <3> QED BY <1>1, <3>1 DEF Size
  <2>2. s \in {-1, 1}
    BY <1>1, <2>1 DEF Heading
  <2>3. d \in FromStraight(<<0, s>>, <<-1, 0>>, <<1, 0>>, x, flee)
    BY <1>11 DEF Escape, x, y
  <2>a. \A a \in -1 .. 1, b \in {0, s} : ~(a = 0 /\ b = 0) => Kept(<<a, b>>)
    BY <1>1, <2>1, NotNearerFromStraight
  <2> HIDE DEF s
  <2>4. /\ <<0, s>>[1] \in Int /\ <<0, s>> # Stay /\ <<-1, 0>> # Stay /\ <<1, 0>> # Stay
        /\ <<-<<0, s>>[1], -<<0, s>>[2]>> = <<0, -s>> /\ <<0, -s>> # Stay
        /\ Ahead(<<0, s>>, <<-1, 0>>) = <<-1, s>> /\ Ahead(<<0, s>>, <<1, 0>>) = <<1, s>>
        /\ <<-1, s>> # Stay /\ <<1, s>> # Stay
    BY <2>2, AroundStraight
  <2>5. Straights = {<<0, s>>, <<-1, 0>>, <<1, 0>>, <<0, -s>>}
    BY <2>2, AroundStraight
  <2>6. /\ \/ d = Stay
           \/ Open(d) /\ d \in {<<0, s>>, <<-1, 0>>, <<1, 0>>, <<-1, s>>, <<1, s>>}
           \/ flee /\ d = <<0, -s>> /\ OpenOf(Straights) = {d}
        /\ flee /\ d = Stay => OpenOf(Straights) = {}
    BY <1>1, <2>3, <2>4, <2>5, StraightSteps
  <2>7. CASE d = Stay
    BY <1>7, <2>6, <2>7
  <2>8. CASE Open(d) /\ d \in {<<0, s>>, <<-1, 0>>, <<1, 0>>, <<-1, s>>, <<1, s>>}
    <3>1. d \in AllDirections
      BY <2>2, <2>8 DEF AllDirections
    <3>2. Kept(d)
      BY <2>2, <2>8, <2>a
    <3> QED BY <1>6, <2>8, <3>1, <3>2
  <2>9. CASE flee /\ d = <<0, -s>> /\ OpenOf(Straights) = {d}
    <3>1. d \in AllDirections
      BY <2>2, <2>9 DEF AllDirections
    <3> QED BY <1>8, <2>9, <3>1
  <2> QED BY <2>6, <2>7, <2>8, <2>9
<1>12. CASE ~(x = 0 /\ y = 0) /\ ~(x = y \/ x = -y) /\ ~(y * y > x * x)
  <2> DEFINE s == Heading(x)
  <2>1. Size(x) > Size(y) /\ x # 0
    <3>1. ~(Size(y) > Size(x))
      BY <1>1, <1>12, SquareIsFarther
    <3> QED BY <1>1, <1>12, <3>1 DEF Size
  <2>2. s \in {-1, 1}
    BY <1>1, <2>1 DEF Heading
  <2>3. d \in FromStraight(<<s, 0>>, <<0, -1>>, <<0, 1>>, y, flee)
    BY <1>12 DEF Escape, x, y
  <2>a. \A a \in -1 .. 1, b \in {0, s} : ~(a = 0 /\ b = 0) => Kept(<<b, a>>)
    BY <1>1, <2>1, NotNearerFromStraight
  <2> HIDE DEF s
  <2>4. /\ <<s, 0>>[1] \in Int /\ <<s, 0>> # Stay /\ <<0, -1>> # Stay /\ <<0, 1>> # Stay
        /\ <<-<<s, 0>>[1], -<<s, 0>>[2]>> = <<-s, 0>> /\ <<-s, 0>> # Stay
        /\ Ahead(<<s, 0>>, <<0, -1>>) = <<s, -1>> /\ Ahead(<<s, 0>>, <<0, 1>>) = <<s, 1>>
        /\ <<s, -1>> # Stay /\ <<s, 1>> # Stay
    BY <2>2, AroundStraight
  <2>5. Straights = {<<s, 0>>, <<0, -1>>, <<0, 1>>, <<-s, 0>>}
    BY <2>2, AroundStraight
  <2>6. /\ \/ d = Stay
           \/ Open(d) /\ d \in {<<s, 0>>, <<0, -1>>, <<0, 1>>, <<s, -1>>, <<s, 1>>}
           \/ flee /\ d = <<-s, 0>> /\ OpenOf(Straights) = {d}
        /\ flee /\ d = Stay => OpenOf(Straights) = {}
    BY <1>1, <2>3, <2>4, <2>5, StraightSteps
  <2>7. CASE d = Stay
    BY <1>7, <2>6, <2>7
  <2>8. CASE Open(d) /\ d \in {<<s, 0>>, <<0, -1>>, <<0, 1>>, <<s, -1>>, <<s, 1>>}
    <3>1. d \in AllDirections
      BY <2>2, <2>8 DEF AllDirections
    <3>2. Kept(d)
      BY <2>2, <2>8, <2>a
    <3> QED BY <1>6, <2>8, <3>1, <3>2
  <2>9. CASE flee /\ d = <<-s, 0>> /\ OpenOf(Straights) = {d}
    <3>1. d \in AllDirections
      BY <2>2, <2>9 DEF AllDirections
    <3> QED BY <1>8, <2>9, <3>1
  <2> QED BY <2>6, <2>7, <2>8, <2>9
<1> QED BY <1>9, <1>10, <1>11, <1>12

\* The parts of an offset.
LEMMA OffsetParts ==
  ASSUME NEW e \in Offsets
  PROVE  e = <<e[1], e[2]>> /\ e[1] \in -Half .. Half /\ e[2] \in -Half .. Half /\ e[1] \in Int /\ e[2] \in Int
BY StepsAssumption DEF Offsets

LEMMA DirectionParts ==
  ASSUME NEW d \in AllDirections
  PROVE  /\ d = <<d[1], d[2]>> /\ d[1] \in {-1, 0, 1} /\ d[2] \in {-1, 0, 1} /\ ~(d[1] = 0 /\ d[2] = 0)
         /\ d[1] = 0 => d[1] * Half = 0
         /\ d[2] = 0 => d[2] * Half = 0
         /\ d[1] = 1 => d[1] * Half = Half
         /\ d[2] = 1 => d[2] * Half = Half
         /\ d[1] = -1 => d[1] * Half = -Half
         /\ d[2] = -1 => d[2] * Half = -Half
<1>1. d = <<d[1], d[2]>> /\ d[1] \in {-1, 0, 1} /\ d[2] \in {-1, 0, 1} /\ ~(d[1] = 0 /\ d[2] = 0)
  BY DEF AllDirections
<1>2. \A n \in {-1, 0, 1} : (n = 0 => n * Half = 0) /\ (n = 1 => n * Half = Half) /\ (n = -1 => n * Half = -Half)
  BY StepsAssumption
<1> QED BY <1>1, <1>2

\* The lines and columns move within the map.
LEMMA WithinMap ==
  ASSUME NEW d \in AllDirections, NEW e \in Offsets
  PROVE  /\ e[1] # d[1] * Half => <<e[1] + d[1], e[2]>> \in Offsets
         /\ e[2] # d[2] * Half => <<e[1], e[2] + d[2]>> \in Offsets
<1>1. ASSUME NEW n \in {-1, 0, 1}, NEW k \in -Half .. Half, n = 0 \/ (n = 1 /\ k # Half) \/ (n = -1 /\ k # -Half)
      PROVE  k + n \in -Half .. Half
  BY <1>1, StepsAssumption
<1>2. e[1] # d[1] * Half => e[1] + d[1] \in -Half .. Half
  BY <1>1, OffsetParts, DirectionParts
<1>3. e[2] # d[2] * Half => e[2] + d[2] \in -Half .. Half
  BY <1>1, OffsetParts, DirectionParts
<1> QED BY <1>2, <1>3, OffsetParts DEF Offsets

LEMMA RowsAreMap ==
  ASSUME NEW cache \in [Offsets -> BOOLEAN], NEW pos, NEW d \in AllDirections
  PROVE  RowsShifted(cache, pos, d[2]) \in [Offsets -> BOOLEAN]
<1>1. CASE d[2] = 0
  BY <1>1 DEF RowsShifted
<1>2. CASE d[2] # 0
  <2>1. RowsShifted(cache, pos, d[2]) =
          [e \in Offsets |-> IF e[2] = d[2] * Half THEN CanEnter(Ahead(pos, e)) ELSE cache[<<e[1], e[2] + d[2]>>]]
    BY <1>2 DEF RowsShifted
  <2>2. \A e \in Offsets : (IF e[2] = d[2] * Half THEN CanEnter(Ahead(pos, e)) ELSE cache[<<e[1], e[2] + d[2]>>]) \in BOOLEAN
    <3> SUFFICES ASSUME NEW e \in Offsets
                 PROVE  (IF e[2] = d[2] * Half THEN CanEnter(Ahead(pos, e)) ELSE cache[<<e[1], e[2] + d[2]>>]) \in BOOLEAN
      OBVIOUS
    <3>1. CanEnter(Ahead(pos, e)) \in BOOLEAN
      BY DEF CanEnter, Enters
    <3>2. e[2] # d[2] * Half => cache[<<e[1], e[2] + d[2]>>] \in BOOLEAN
      BY WithinMap
    <3> QED BY <3>1, <3>2
  <2> QED BY <2>1, <2>2
<1> QED BY <1>1, <1>2

LEMMA ColumnsAreMap ==
  ASSUME NEW cache \in [Offsets -> BOOLEAN], NEW pos, NEW d \in AllDirections
  PROVE  ColumnsShifted(cache, pos, d[1], d[2]) \in [Offsets -> BOOLEAN]
<1>1. CASE d[1] = 0
  BY <1>1 DEF ColumnsShifted
<1>2. CASE d[1] # 0
  <2> DEFINE Value(e) == IF e[1] = d[1] * Half THEN CanEnter(Ahead(pos, e))
                         ELSE IF d[2] # 0 /\ e[2] = -Half THEN cache[e] ELSE cache[<<e[1] + d[1], e[2]>>]
  <2>1. ColumnsShifted(cache, pos, d[1], d[2]) = [e \in Offsets |-> Value(e)]
    BY <1>2 DEF ColumnsShifted
  <2>2. \A e \in Offsets : Value(e) \in BOOLEAN
    <3> SUFFICES ASSUME NEW e \in Offsets  PROVE Value(e) \in BOOLEAN
      OBVIOUS
    <3>1. CanEnter(Ahead(pos, e)) \in BOOLEAN
      BY DEF CanEnter, Enters
    <3>2. e[1] # d[1] * Half => cache[<<e[1] + d[1], e[2]>>] \in BOOLEAN
      BY WithinMap
    <3> QED BY <3>1, <3>2
  <2> HIDE DEF Value
  <2> QED BY <2>1, <2>2
<1> QED BY <1>1, <1>2

\* After a step the kept map is still one, and is exact where it was, but for a diagonal step south.
LEMMA StepKeepsMap ==
  ASSUME localMapCache \in [Offsets -> BOOLEAN], NEW d \in AllDirections
  PROVE  CacheAfterStep(d) \in [Offsets -> BOOLEAN]
<1>1. Shifted(d) \in [Offsets -> BOOLEAN]
  BY RowsAreMap, ColumnsAreMap DEF Shifted
<1>2. CanEnter(at) \in BOOLEAN
  BY DEF CanEnter, Enters
<1> QED BY <1>1, <1>2 DEF CacheAfterStep

LEMMA StepKeepsExact ==
  ASSUME at \in Squares, localMapCache \in [Offsets -> BOOLEAN],
         NEW d \in AllDirections, ~(d[1] # 0 /\ d[2] > 0),
         \A f \in Offsets \ {<<0, 0>>} : localMapCache[f] = CanEnter(Ahead(at, f)),
         NEW e \in Offsets \ {<<0, 0>>}
  PROVE  CacheAfterStep(d)[e] = CanEnter(Ahead(Ahead(at, d), e))
<1> DEFINE p == Ahead(at, d)
           back == <<-d[1], -d[2]>>
           rows == RowsShifted(localMapCache, p, d[2])
<1>1. at = <<at[1], at[2]>> /\ at[1] \in Int /\ at[2] \in Int
  BY StepsAssumption DEF Squares
<1>2. /\ d = <<d[1], d[2]>> /\ d[1] \in {-1, 0, 1} /\ d[2] \in {-1, 0, 1} /\ ~(d[1] = 0 /\ d[2] = 0)
      /\ ~(d[1] # 0 /\ d[2] = 1)
      /\ d[2] = -1 => d[2] * Half = -Half
  BY DirectionParts
<1>3. /\ e = <<e[1], e[2]>> /\ e[1] \in -Half .. Half /\ e[2] \in -Half .. Half /\ e[1] \in Int /\ e[2] \in Int
  BY OffsetParts
<1>4. rows \in [Offsets -> BOOLEAN] /\ Shifted(d) \in [Offsets -> BOOLEAN]
  BY RowsAreMap, ColumnsAreMap DEF Shifted
<1>5. ASSUME NEW g \in Offsets, g = <<e[1] + d[1], e[2] + d[2]>>, e # back
      PROVE  localMapCache[g] = CanEnter(Ahead(p, e))
  <2>1. g # <<0, 0>>
    <3>1. ~(e[1] + d[1] = 0 /\ e[2] + d[2] = 0)
      <4>1. ~(e[1] = -d[1] /\ e[2] = -d[2])
        BY <1>3, <1>5
      <4> QED BY <1>2, <1>3, <4>1
    <3> QED BY <1>5, <3>1
  <2>2. Ahead(at, g) = Ahead(p, e)
    <3>1. /\ at[1] + (e[1] + d[1]) = (at[1] + d[1]) + e[1]
          /\ at[2] + (e[2] + d[2]) = (at[2] + d[2]) + e[2]
      BY <1>1, <1>2, <1>3
    <3>2. g[1] = e[1] + d[1] /\ g[2] = e[2] + d[2] /\ p[1] = at[1] + d[1] /\ p[2] = at[2] + d[2]
      BY <1>5 DEF Ahead
    <3> HIDE DEF p
    <3> QED BY <3>1, <3>2 DEF Ahead
  <2> QED BY <2>1, <2>2
<1>6. CASE e = back
  <2>1. CacheAfterStep(d)[e] = CanEnter(at)
    BY <1>4, <1>6 DEF CacheAfterStep
  <2>2. Ahead(p, e) = at
    <3>1. e[1] = -d[1] /\ e[2] = -d[2] /\ p[1] = at[1] + d[1] /\ p[2] = at[2] + d[2]
      BY <1>6 DEF Ahead
    <3>2. p[1] + e[1] = at[1] /\ p[2] + e[2] = at[2]
      BY <1>1, <1>2, <3>1
    <3> HIDE DEF p
    <3> QED BY <1>1, <3>2 DEF Ahead
  <2> QED BY <2>1, <2>2
<1>7. CASE e # back
  <2>1. CacheAfterStep(d)[e] = Shifted(d)[e]
    BY <1>4, <1>7 DEF CacheAfterStep
  <2>2. Shifted(d) = ColumnsShifted(rows, p, d[1], d[2])
    BY DEF Shifted
  <2>3. ASSUME NEW f \in Offsets, d[2] # 0, f[2] # d[2] * Half  PROVE rows[f] = localMapCache[<<f[1], f[2] + d[2]>>]
    BY <2>3 DEF RowsShifted
  <2>4. ASSUME d[2] # 0, e[2] = d[2] * Half  PROVE rows[e] = CanEnter(Ahead(p, e))
    BY <2>4 DEF RowsShifted
  <2>5. d[2] = 0 => rows = localMapCache
    BY DEF RowsShifted
  <2> HIDE DEF rows, p, back
  <2>6. CASE d[1] = 0
    <3>1. Shifted(d)[e] = rows[e] /\ d[2] # 0 /\ e[1] + d[1] = e[1]
      BY <1>2, <1>3, <2>2, <2>6 DEF ColumnsShifted
    <3>2. CASE e[2] = d[2] * Half
      BY <2>1, <2>4, <3>1, <3>2 DEF p
    <3>3. CASE e[2] # d[2] * Half
      <4>1. <<e[1] + d[1], e[2] + d[2]>> \in Offsets
        BY <3>1, <3>3, WithinMap
      <4> QED BY <1>5, <1>7, <2>1, <2>3, <3>1, <3>3, <4>1 DEF p
    <3> QED BY <3>2, <3>3
  <2>7. CASE d[1] # 0 /\ e[1] = d[1] * Half
    <3>1. Shifted(d)[e] = CanEnter(Ahead(p, e))
      BY <2>2, <2>7 DEF ColumnsShifted
    <3> QED BY <2>1, <3>1 DEF p
  <2>8. CASE d[1] # 0 /\ e[1] # d[1] * Half /\ d[2] = 0
    <3>1. <<e[1] + d[1], e[2]>> \in Offsets /\ e[2] + d[2] = e[2]
      BY <1>3, <2>8, WithinMap
    <3>2. Shifted(d)[e] = rows[<<e[1] + d[1], e[2]>>]
      BY <2>2, <2>8 DEF ColumnsShifted
    <3> QED BY <1>5, <1>7, <2>1, <2>5, <2>8, <3>1, <3>2 DEF p
  <2>9. CASE d[1] # 0 /\ e[1] # d[1] * Half /\ d[2] = -1 /\ e[2] = -Half
    <3>1. Shifted(d)[e] = rows[e]
      BY <2>2, <2>9 DEF ColumnsShifted
    <3> QED BY <1>2, <2>1, <2>4, <2>9, <3>1 DEF p
  <2>10. CASE d[1] # 0 /\ e[1] # d[1] * Half /\ d[2] = -1 /\ e[2] # -Half
    <3> DEFINE f == <<e[1] + d[1], e[2]>>
    <3>1. f \in Offsets /\ f[1] = e[1] + d[1] /\ f[2] = e[2]
      BY <2>10, WithinMap
    <3>2. Shifted(d)[e] = rows[f]
      BY <2>2, <2>10 DEF ColumnsShifted
    <3>3. f[2] # d[2] * Half
      BY <1>2, <2>10, <3>1
    <3> HIDE DEF f
    <3>4. <<f[1], f[2] + d[2]>> \in Offsets
      BY <3>1, <3>3, WithinMap
    <3>5. rows[f] = localMapCache[<<f[1], f[2] + d[2]>>]
      BY <2>3, <2>10, <3>1, <3>3
    <3>6. localMapCache[<<f[1], f[2] + d[2]>>] = CanEnter(Ahead(p, e))
      BY <1>5, <1>7, <3>1, <3>4
    <3> QED BY <2>1, <3>2, <3>5, <3>6 DEF p
  <2> QED BY <1>2, <2>6, <2>7, <2>8, <2>9, <2>10
<1> QED BY <1>6, <1>7

-----------------------------------------------------------------------------
(* The invariant.                                                          *)

StepsTyped ==
  /\ at \in Squares /\ aim \in Squares /\ fleeing \in BOOLEAN /\ skewed \in BOOLEAN
  /\ localMapCache \in [Offsets -> BOOLEAN]
  /\ listWalkDir = <<>> \/ \E d \in AllDirections : listWalkDir = <<d>>

StepsInv == StepsTyped /\ CacheExact

\* A map made anew is exact.
LEMMA FreshIsExact ==
  ASSUME NEW p, NEW fresh, fresh = MapCache(p)
  PROVE  /\ fresh \in [Offsets -> BOOLEAN]
         /\ \A e \in Offsets : fresh[e] = CanEnter(Ahead(p, e))
<1>1. \A e \in Offsets : CanEnter(Ahead(p, e)) \in BOOLEAN
  BY DEF CanEnter, Enters
<1> QED BY <1>1 DEF MapCache

\* And so is one that is told of the tiles that changed.
LEMMA ToldStaysExact ==
  ASSUME localMapCache \in [Offsets -> BOOLEAN], NEW ps, NEW blocked, NEW there,
         \A p : p \notin ps => Enters(p, blocked, there) = CanEnter(p)
  PROVE  /\ Refreshed(ps, blocked, there) \in [Offsets -> BOOLEAN]
         /\ \A e \in Offsets : localMapCache[e] = CanEnter(Ahead(at, e)) =>
              Refreshed(ps, blocked, there)[e] = Enters(Ahead(at, e), blocked, there)
<1>1. \A e \in Offsets : Enters(Ahead(at, e), blocked, there) \in BOOLEAN
  BY DEF Enters
<1> QED BY <1>1 DEF Refreshed

LEMMA StepsStart == StepsInit => StepsInv
<1> SUFFICES ASSUME StepsInit  PROVE StepsInv
  OBVIOUS
<1>1. localMapCache \in [Offsets -> BOOLEAN] /\ \A e \in Offsets : localMapCache[e] = CanEnter(Ahead(at, e))
  BY FreshIsExact DEF StepsInit
<1> QED BY <1>1 DEF StepsInit, StepsInv, StepsTyped, CacheExact

\* What is chosen is a direction, nothing, or the search.
LEMMA ChosenIsStep ==
  ASSUME StepsTyped, NEW flee \in BOOLEAN, NEW sight \in BOOLEAN, NEW d \in DistanceStep(flee, sight)
  PROVE  d \in {AskSearch, Stay} \/ GoodStep(flee, d)
<1>1. CASE ~flee /\ (Apart(at, aim) > targetDistance \/ ~sight)
  BY <1>1 DEF DistanceStep
<1>2. CASE ~(~flee /\ (Apart(at, aim) > targetDistance \/ ~sight)) /\ ~flee /\ Apart(at, aim) = targetDistance
  BY <1>2 DEF DistanceStep
<1>3. CASE ~(~flee /\ (Apart(at, aim) > targetDistance \/ ~sight)) /\ ~(~flee /\ Apart(at, aim) = targetDistance)
  BY <1>3, EscapeIsGood DEF DistanceStep, StepsTyped
<1> QED BY <1>1, <1>2, <1>3

\* A step that is taken, from any of the ways to choose one.
LEMMA MovesKeepInv ==
  ASSUME StepsInv, NEW d \in AllDirections, Moves(d), UNCHANGED <<solid, aim, fleeing>>
  PROVE  /\ at' \in Squares /\ skewed' \in BOOLEAN /\ localMapCache' \in [Offsets -> BOOLEAN]
         /\ CacheExact'
<1>1. CASE CanEnter(Ahead(at, d))
  <2>1. /\ at' = Ahead(at, d) /\ localMapCache' = CacheAfterStep(d)
        /\ skewed' = (skewed \/ (d[1] # 0 /\ d[2] > 0))
    BY <1>1 DEF Moves
  <2>2. at' \in Squares /\ skewed' \in BOOLEAN
    BY <1>1, <2>1 DEF CanEnter, Enters, StepsInv, StepsTyped
  <2>3. localMapCache' \in [Offsets -> BOOLEAN]
    BY <2>1, StepKeepsMap DEF StepsInv, StepsTyped
  <2>4. ASSUME ~skewed'  PROVE \A e \in Offsets \ {<<0, 0>>} : localMapCache'[e] = CanEnter(Ahead(at', e))
    <3>1. ~skewed /\ ~(d[1] # 0 /\ d[2] > 0)
      BY <2>1, <2>4
    <3>2. \A f \in Offsets \ {<<0, 0>>} : localMapCache[f] = CanEnter(Ahead(at, f))
      BY <3>1 DEF StepsInv, CacheExact
    <3>3. \A e \in Offsets \ {<<0, 0>>} : CacheAfterStep(d)[e] = CanEnter(Ahead(Ahead(at, d), e))
      BY <3>1, <3>2, StepKeepsExact DEF StepsInv, StepsTyped
    <3> QED BY <2>1, <3>3
  <2>5. \A q : CanEnter(q)' = CanEnter(q)
    BY DEF CanEnter, Enters
  <2>6. CacheExact'
    BY <2>2, <2>4 DEF CacheExact, CanEnter, Enters
  <2> QED BY <2>2, <2>3, <2>6
<1>2. CASE ~CanEnter(Ahead(at, d))
  BY <1>2 DEF Moves, StepsInv, StepsTyped, CacheExact, CanEnter, Enters
<1> QED BY <1>1, <1>2

LEMMA StepsStep == StepsInv /\ [StepsNext]_stepVars => StepsInv'
<1> SUFFICES ASSUME StepsInv, [StepsNext]_stepVars  PROVE StepsInv'
  OBVIOUS
<1> USE DEF StepsInv
<1>a. StepsTyped /\ CacheExact
  OBVIOUS
<1>1. CASE UNCHANGED stepVars
  BY <1>1, <1>a DEF stepVars, StepsTyped, CacheExact, CanEnter, Enters
<1>2. CASE GoToFollow
  <2>1. UNCHANGED <<solid, at, aim, targetDistance, fleeing, localMapCache, skewed>>
    BY <1>2 DEF GoToFollow
  <2>2. listWalkDir' = <<>> \/ \E d \in AllDirections : listWalkDir' = <<d>>
    <3>1. ASSUME SearchWay  PROVE listWalkDir' = <<>> \/ \E d \in AllDirections : listWalkDir' = <<d>>
      BY <3>1 DEF SearchWay, Ways
    <3>2. CASE ~(fleeing \/ targetDistance > 1)
      BY <1>2, <3>1, <3>2 DEF GoToFollow
    <3>3. CASE fleeing \/ targetDistance > 1
      <4>1. PICK sight \in BOOLEAN : \E d \in DistanceStep(fleeing, sight) :
              \/ d = AskSearch /\ SearchWay
              \/ d = Stay /\ UNCHANGED <<listWalkDir, hasFollowPath>>
              \/ d \notin {AskSearch, Stay} /\ listWalkDir' = <<d>> /\ hasFollowPath' = TRUE
        BY <1>2, <3>3 DEF GoToFollow
      <4>2. PICK d \in DistanceStep(fleeing, sight) :
              \/ d = AskSearch /\ SearchWay
              \/ d = Stay /\ UNCHANGED <<listWalkDir, hasFollowPath>>
              \/ d \notin {AskSearch, Stay} /\ listWalkDir' = <<d>> /\ hasFollowPath' = TRUE
        BY <4>1
      <4>3. d \notin {AskSearch, Stay} => d \in AllDirections
        BY <1>a, <4>2, ChosenIsStep DEF GoodStep, StepsTyped
      <4> QED BY <1>a, <3>1, <4>2, <4>3 DEF StepsTyped
    <3> QED BY <3>2, <3>3
  <2> QED BY <1>a, <2>1, <2>2 DEF StepsTyped, CacheExact, CanEnter, Enters
<1>3. CASE Walk
  <2>1. UNCHANGED <<solid, aim, targetDistance, fleeing, hasFollowPath>>
    BY <1>3 DEF Walk
  <2>2. Straights \subseteq AllDirections
    BY DEF Straights, AllDirections
  <2>3. \E d \in AllDirections : Moves(d)
    <3>1. CASE hasFollowPath /\ listWalkDir # <<>> /\ Moves(Head(listWalkDir))
      BY <1>a, <3>1 DEF StepsTyped
    <3>2. CASE \E d \in FleeingDance : Moves(d)
      BY <2>2, <3>2 DEF FleeingDance, OpenOf
    <3>3. CASE \E d \in Dance : Moves(d)
      BY <2>2, <3>3 DEF Dance, OpenOf
    <3>4. CASE \E d \in RandomStep \ {Stay} : Moves(d)
      BY <2>2, <3>4 DEF RandomStep, Else, OpenOf
    <3> QED BY <1>3, <3>1, <3>2, <3>3, <3>4 DEF Walk
  <2>4. listWalkDir' = <<>> \/ \E d \in AllDirections : listWalkDir' = <<d>>
    <3>1. CASE listWalkDir # <<>> /\ listWalkDir' = Tail(listWalkDir)
      <4>1. PICK d \in AllDirections : listWalkDir = <<d>>
        BY <1>a, <3>1 DEF StepsTyped
      <4>2. Tail(<<d>>) = <<>>
        OBVIOUS
      <4> QED BY <3>1, <4>1, <4>2
    <3>2. CASE listWalkDir' = listWalkDir
      BY <1>a, <3>2 DEF StepsTyped
    <3> QED BY <1>3, <3>1, <3>2 DEF Walk
  <2> QED BY <1>a, <2>1, <2>3, <2>4, MovesKeepInv DEF StepsTyped
<1>4. CASE Teleported
  <2>1. /\ at' \in Squares /\ skewed' = FALSE /\ localMapCache' = MapCache(at')
        /\ UNCHANGED <<solid, aim, targetDistance, fleeing, listWalkDir, hasFollowPath>>
    BY <1>4, StepsAssumption DEF Teleported
  <2>2. localMapCache' \in [Offsets -> BOOLEAN] /\ \A e \in Offsets : localMapCache'[e] = CanEnter(Ahead(at', e))
    BY <2>1, FreshIsExact
  <2> QED BY <1>a, <2>1, <2>2 DEF StepsTyped, CacheExact, CanEnter, Enters
<1>5. CASE AimMoves
  <2>1. /\ aim' \in Squares /\ localMapCache' = Refreshed({aim, aim'}, solid, aim')
        /\ UNCHANGED <<solid, at, targetDistance, fleeing, skewed, listWalkDir, hasFollowPath>>
    BY <1>5 DEF AimMoves
  <2>2. \A p : p \notin {aim, aim'} => Enters(p, solid, aim') = CanEnter(p)
    BY DEF CanEnter, Enters
  <2>3. /\ localMapCache' \in [Offsets -> BOOLEAN]
        /\ \A e \in Offsets : localMapCache[e] = CanEnter(Ahead(at, e)) => localMapCache'[e] = Enters(Ahead(at, e), solid, aim')
    BY <1>a, <2>1, <2>2, ToldStaysExact DEF StepsTyped
  <2>4. \A e \in Offsets : CanEnter(Ahead(at, e))' = Enters(Ahead(at, e), solid, aim')
    BY <2>1 DEF CanEnter
  <2> QED BY <1>a, <2>1, <2>3, <2>4 DEF StepsTyped, CacheExact
<1>6. CASE DoorMoves
  <2>1. PICK q \in Doors \ {at, aim} :
          /\ solid' = IF q \in solid THEN solid \ {q} ELSE solid \cup {q}
          /\ localMapCache' = Refreshed({q}, solid', aim)
    BY <1>6 DEF DoorMoves
  <2>2. UNCHANGED <<at, aim, targetDistance, fleeing, skewed, listWalkDir, hasFollowPath>>
    BY <1>6 DEF DoorMoves
  <2>3. \A p : p \notin {q} => Enters(p, solid', aim) = CanEnter(p)
    BY <2>1 DEF CanEnter, Enters
  <2>4. /\ localMapCache' \in [Offsets -> BOOLEAN]
        /\ \A e \in Offsets : localMapCache[e] = CanEnter(Ahead(at, e)) => localMapCache'[e] = Enters(Ahead(at, e), solid', aim)
    <3> DEFINE blocked == solid'
               told == Refreshed({q}, blocked, aim)
    <3>1. localMapCache' = told /\ localMapCache \in [Offsets -> BOOLEAN]
      BY <1>a, <2>1 DEF StepsTyped
    <3>2. \A p : p \notin {q} => Enters(p, blocked, aim) = CanEnter(p)
      BY <2>3
    <3> HIDE DEF blocked
    <3>3. /\ told \in [Offsets -> BOOLEAN]
          /\ \A e \in Offsets : localMapCache[e] = CanEnter(Ahead(at, e)) => told[e] = Enters(Ahead(at, e), blocked, aim)
      BY <3>1, <3>2, ToldStaysExact
    <3> QED BY <3>1, <3>3 DEF blocked
  <2>5. \A e \in Offsets : CanEnter(Ahead(at, e))' = Enters(Ahead(at, e), solid', aim)
    BY <2>2 DEF CanEnter
  <2> QED BY <1>a, <2>2, <2>4, <2>5 DEF StepsTyped, CacheExact
<1>7. CASE HealthTurns
  BY <1>7, <1>a DEF HealthTurns, StepsTyped, CacheExact, CanEnter, Enters
<1> QED BY <1>1, <1>2, <1>3, <1>4, <1>5, <1>6, <1>7 DEF StepsNext

LEMMA StepsInvIsRight == StepsInv => StepsRight
<1> SUFFICES ASSUME StepsInv  PROVE StepsRight
  OBVIOUS
<1>1. StepsTyped /\ CacheExact
  BY DEF StepsInv
<1>2. NeverNearer
  <2> SUFFICES ASSUME NEW sight \in BOOLEAN, NEW d \in DistanceStep(FALSE, sight) \ {Stay, AskSearch}
               PROVE  Open(d) /\ Apart(Ahead(at, d), aim) >= Apart(at, aim)
    BY DEF NeverNearer
  <2> QED BY <1>1, ChosenIsStep DEF GoodStep
<1>3. FleesIfItCan
  <2> SUFFICES ASSUME NEW d \in DistanceStep(TRUE, TRUE)
               PROVE  /\ d = Stay => OpenOf(Straights) = {}
                      /\ d # Stay => Open(d)
                      /\ d # Stay /\ Apart(Ahead(at, d), aim) < Apart(at, aim) =>
                           \A e \in OpenOf(Straights) : Apart(Ahead(at, e), aim) < Apart(at, aim)
    BY DEF FleesIfItCan
  <2>1. d \in Escape(at[1] - aim[1], at[2] - aim[2], TRUE)
    BY DEF DistanceStep
  <2>2. GoodStep(TRUE, d)
    BY <1>1, <2>1, EscapeIsGood DEF StepsTyped
  <2>3. d = Stay => OpenOf(Straights) = {}
    BY <2>2 DEF GoodStep
  <2>4. d # Stay => Open(d)
    BY <2>2 DEF GoodStep
  <2>5. ASSUME d # Stay, Apart(Ahead(at, d), aim) < Apart(at, aim), NEW e \in OpenOf(Straights)
        PROVE  Apart(Ahead(at, e), aim) < Apart(at, aim)
    <3>1. Apart(at, aim) \in Int /\ Apart(Ahead(at, d), aim) \in Int
      <4>1. d \in AllDirections
        BY <2>2, <2>5 DEF GoodStep
      <4>2. d[1] \in Int /\ d[2] \in Int
        BY <4>1, DirectionParts
      <4>3. at[1] \in Int /\ at[2] \in Int /\ aim[1] \in Int /\ aim[2] \in Int
        BY <1>1, StepsAssumption DEF StepsTyped, Squares
      <4> QED BY <4>2, <4>3 DEF Apart, Ahead
    <3>2. ~(Apart(Ahead(at, d), aim) >= Apart(at, aim))
      BY <2>5, <3>1
    <3>3. OpenOf(Straights) = {d}
      BY <2>2, <2>5, <3>2 DEF GoodStep
    <3> QED BY <2>5, <3>3
  <2> QED BY <2>3, <2>4, <2>5
<1> QED BY <1>1, <1>2, <1>3 DEF StepsRight

\* However the target moves, tiles open and close and the monster is carried off: the map it
\* keeps is what the tiles would answer (but after a diagonal step south), keeping its
\* distance it does not come nearer, and fleeing it is caught only where there is no other way.
THEOREM StepsAreRight == StepsSpec => []StepsRight
<1>1. StepsInv => StepsRight
  BY StepsInvIsRight
<1> QED BY <1>1, StepsStart, StepsStep, PTL DEF StepsSpec

-----------------------------------------------------------------------------
(* Directions.                                                             *)

\* The eight directions.
Around == ((-1 .. 1) \X (-1 .. 1)) \ {<<0, 0>>}

\* The elements of a sequence of five.
LEMMA FiveOf ==
  ASSUME NEW a, NEW b, NEW c, NEW d, NEW e
  PROVE  ToSet(<<a, b, c, d, e>>) = {a, b, c, d, e}
<1> DEFINE s == <<a, b, c, d, e>>
<1>1. DOMAIN s = 1 .. 5 /\ s[1] = a /\ s[2] = b /\ s[3] = c /\ s[4] = d /\ s[5] = e
  OBVIOUS
<1>2. ToSet(s) = {s[k] : k \in 1 .. 5}
  BY <1>1 DEF ToSet
<1> HIDE DEF s
<1>3. {s[k] : k \in 1 .. 5} = {s[1], s[2], s[3], s[4], s[5]}
  <2>1. \A k \in 1 .. 5 : k = 1 \/ k = 2 \/ k = 3 \/ k = 4 \/ k = 5
    OBVIOUS
  <2> QED BY <2>1
<1> QED BY <1>1, <1>2, <1>3 DEF s

\* A node without a parent looks all around.
LEMMA AllAround == ToSet(AllNeighbors) = Around
<1> DEFINE s == AllNeighbors
<1>1. /\ DOMAIN s = 1 .. 8 /\ s[1] = <<-1, 0>> /\ s[2] = <<0, 1>> /\ s[3] = <<1, 0>> /\ s[4] = <<0, -1>>
      /\ s[5] = <<-1, -1>> /\ s[6] = <<1, -1>> /\ s[7] = <<1, 1>> /\ s[8] = <<-1, 1>>
  BY DEF AllNeighbors
<1>2. ToSet(s) = {s[k] : k \in 1 .. 8}
  BY <1>1 DEF ToSet
<1> HIDE DEF s
<1>3. {s[k] : k \in 1 .. 8} = {s[1], s[2], s[3], s[4], s[5], s[6], s[7], s[8]}
  <2>1. \A k \in 1 .. 8 : k = 1 \/ k = 2 \/ k = 3 \/ k = 4 \/ k = 5 \/ k = 6 \/ k = 7 \/ k = 8
    OBVIOUS
  <2> QED BY <2>1
<1>4. Around = {<<-1, 0>>, <<0, 1>>, <<1, 0>>, <<0, -1>>, <<-1, -1>>, <<1, -1>>, <<1, 1>>, <<-1, 1>>}
  BY DEF Around
<1> QED BY <1>1, <1>2, <1>3, <1>4 DEF s

\* Every direction has a list of neighbours.
LEMMA DirectionsAre ==
  /\ \A k \in 1 .. 8 : DirNeighbors[k] \in Around
  /\ \A e \in Around : \E k \in 1 .. 8 : DirNeighbors[k] = e
<1> DEFINE s == DirNeighbors
<1>1. /\ s[1] = <<0, -1>> /\ s[2] = <<1, 0>> /\ s[3] = <<0, 1>> /\ s[4] = <<-1, 0>>
      /\ s[5] = <<-1, 1>> /\ s[6] = <<1, 1>> /\ s[7] = <<-1, -1>> /\ s[8] = <<1, -1>>
  BY DEF DirNeighbors
<1>2. \A k \in 1 .. 8 : k = 1 \/ k = 2 \/ k = 3 \/ k = 4 \/ k = 5 \/ k = 6 \/ k = 7 \/ k = 8
  OBVIOUS
<1>3. Around = {<<-1, 0>>, <<0, 1>>, <<1, 0>>, <<0, -1>>, <<-1, -1>>, <<1, -1>>, <<1, 1>>, <<-1, 1>>}
  BY DEF Around
<1> HIDE DEF s
<1>4. \A k \in 1 .. 8 : s[k] \in Around
  BY <1>1, <1>2, <1>3
<1>5. \A e \in Around : \E k \in 1 .. 8 : s[k] = e
  <2>1. {1, 2, 3, 4, 5, 6, 7, 8} \subseteq 1 .. 8
    OBVIOUS
  <2> QED BY <1>1, <1>3, <2>1
<1> QED BY <1>4, <1>5 DEF s

\* The neighbours that a node leaves out are the node it was reached from, and tiles
\* that lie straight beside that.
Omits(d, five) ==
  /\ five \subseteq Around
  /\ \A e \in Around \ five : e = d \/ <<e[1] - d[1], e[2] - d[2]>> \in {<<0, -1>>, <<1, 0>>, <<0, 1>>, <<-1, 0>>}

\* That is so for each of the eight lists.
LEMMA OmittedAre == \A k \in 1 .. 8 : Omits(DirNeighbors[k], ToSet(NeighborsOf[k]))
<1>1. /\ DirNeighbors[1] = <<0, -1>> /\ DirNeighbors[2] = <<1, 0>>
      /\ DirNeighbors[3] = <<0, 1>> /\ DirNeighbors[4] = <<-1, 0>>
      /\ DirNeighbors[5] = <<-1, 1>> /\ DirNeighbors[6] = <<1, 1>>
      /\ DirNeighbors[7] = <<-1, -1>> /\ DirNeighbors[8] = <<1, -1>>
  BY DEF DirNeighbors
<1>2. \A k \in 1 .. 8 : k = 1 \/ k = 2 \/ k = 3 \/ k = 4 \/ k = 5 \/ k = 6 \/ k = 7 \/ k = 8
  OBVIOUS
<1>a. /\ NeighborsOf[1] = <<<<-1, 0>>, <<0, 1>>, <<1, 0>>, <<1, 1>>, <<-1, 1>>>>
      /\ NeighborsOf[2] = <<<<-1, 0>>, <<0, 1>>, <<0, -1>>, <<-1, -1>>, <<-1, 1>>>>
      /\ NeighborsOf[3] = <<<<-1, 0>>, <<1, 0>>, <<0, -1>>, <<-1, -1>>, <<1, -1>>>>
      /\ NeighborsOf[4] = <<<<0, 1>>, <<1, 0>>, <<0, -1>>, <<1, -1>>, <<1, 1>>>>
      /\ NeighborsOf[5] = <<<<1, 0>>, <<0, -1>>, <<-1, -1>>, <<1, -1>>, <<1, 1>>>>
      /\ NeighborsOf[6] = <<<<-1, 0>>, <<0, -1>>, <<-1, -1>>, <<1, -1>>, <<-1, 1>>>>
      /\ NeighborsOf[7] = <<<<0, 1>>, <<1, 0>>, <<1, -1>>, <<1, 1>>, <<-1, 1>>>>
      /\ NeighborsOf[8] = <<<<-1, 0>>, <<0, 1>>, <<-1, -1>>, <<1, 1>>, <<-1, 1>>>>
  BY DEF NeighborsOf
<1>b1. ToSet(<<<<-1, 0>>, <<0, 1>>, <<1, 0>>, <<1, 1>>, <<-1, 1>>>>) = {<<-1, 0>>, <<0, 1>>, <<1, 0>>, <<1, 1>>, <<-1, 1>>}
  BY FiveOf
<1>b2. ToSet(<<<<-1, 0>>, <<0, 1>>, <<0, -1>>, <<-1, -1>>, <<-1, 1>>>>) = {<<-1, 0>>, <<0, 1>>, <<0, -1>>, <<-1, -1>>, <<-1, 1>>}
  BY FiveOf
<1>b3. ToSet(<<<<-1, 0>>, <<1, 0>>, <<0, -1>>, <<-1, -1>>, <<1, -1>>>>) = {<<-1, 0>>, <<1, 0>>, <<0, -1>>, <<-1, -1>>, <<1, -1>>}
  BY FiveOf
<1>b4. ToSet(<<<<0, 1>>, <<1, 0>>, <<0, -1>>, <<1, -1>>, <<1, 1>>>>) = {<<0, 1>>, <<1, 0>>, <<0, -1>>, <<1, -1>>, <<1, 1>>}
  BY FiveOf
<1>b5. ToSet(<<<<1, 0>>, <<0, -1>>, <<-1, -1>>, <<1, -1>>, <<1, 1>>>>) = {<<1, 0>>, <<0, -1>>, <<-1, -1>>, <<1, -1>>, <<1, 1>>}
  BY FiveOf
<1>b6. ToSet(<<<<-1, 0>>, <<0, -1>>, <<-1, -1>>, <<1, -1>>, <<-1, 1>>>>) = {<<-1, 0>>, <<0, -1>>, <<-1, -1>>, <<1, -1>>, <<-1, 1>>}
  BY FiveOf
<1>b7. ToSet(<<<<0, 1>>, <<1, 0>>, <<1, -1>>, <<1, 1>>, <<-1, 1>>>>) = {<<0, 1>>, <<1, 0>>, <<1, -1>>, <<1, 1>>, <<-1, 1>>}
  BY FiveOf
<1>b8. ToSet(<<<<-1, 0>>, <<0, 1>>, <<-1, -1>>, <<1, 1>>, <<-1, 1>>>>) = {<<-1, 0>>, <<0, 1>>, <<-1, -1>>, <<1, 1>>, <<-1, 1>>}
  BY FiveOf
<1>3. /\ ToSet(NeighborsOf[1]) = {<<-1, 0>>, <<0, 1>>, <<1, 0>>, <<1, 1>>, <<-1, 1>>}
      /\ ToSet(NeighborsOf[2]) = {<<-1, 0>>, <<0, 1>>, <<0, -1>>, <<-1, -1>>, <<-1, 1>>}
      /\ ToSet(NeighborsOf[3]) = {<<-1, 0>>, <<1, 0>>, <<0, -1>>, <<-1, -1>>, <<1, -1>>}
      /\ ToSet(NeighborsOf[4]) = {<<0, 1>>, <<1, 0>>, <<0, -1>>, <<1, -1>>, <<1, 1>>}
      /\ ToSet(NeighborsOf[5]) = {<<1, 0>>, <<0, -1>>, <<-1, -1>>, <<1, -1>>, <<1, 1>>}
      /\ ToSet(NeighborsOf[6]) = {<<-1, 0>>, <<0, -1>>, <<-1, -1>>, <<1, -1>>, <<-1, 1>>}
      /\ ToSet(NeighborsOf[7]) = {<<0, 1>>, <<1, 0>>, <<1, -1>>, <<1, 1>>, <<-1, 1>>}
      /\ ToSet(NeighborsOf[8]) = {<<-1, 0>>, <<0, 1>>, <<-1, -1>>, <<1, 1>>, <<-1, 1>>}
  BY <1>a, <1>b1, <1>b2, <1>b3, <1>b4, <1>b5, <1>b6, <1>b7, <1>b8
<1>4. Omits(<<0, -1>>, {<<-1, 0>>, <<0, 1>>, <<1, 0>>, <<1, 1>>, <<-1, 1>>})
  BY DEF Omits, Around
<1>5. Omits(<<1, 0>>, {<<-1, 0>>, <<0, 1>>, <<0, -1>>, <<-1, -1>>, <<-1, 1>>})
  BY DEF Omits, Around
<1>6. Omits(<<0, 1>>, {<<-1, 0>>, <<1, 0>>, <<0, -1>>, <<-1, -1>>, <<1, -1>>})
  BY DEF Omits, Around
<1>7. Omits(<<-1, 0>>, {<<0, 1>>, <<1, 0>>, <<0, -1>>, <<1, -1>>, <<1, 1>>})
  BY DEF Omits, Around
<1>8. Omits(<<-1, 1>>, {<<1, 0>>, <<0, -1>>, <<-1, -1>>, <<1, -1>>, <<1, 1>>})
  BY DEF Omits, Around
<1>9. Omits(<<1, 1>>, {<<-1, 0>>, <<0, -1>>, <<-1, -1>>, <<1, -1>>, <<-1, 1>>})
  BY DEF Omits, Around
<1>10. Omits(<<-1, -1>>, {<<0, 1>>, <<1, 0>>, <<1, -1>>, <<1, 1>>, <<-1, 1>>})
  BY DEF Omits, Around
<1>11. Omits(<<1, -1>>, {<<-1, 0>>, <<0, 1>>, <<-1, -1>>, <<1, 1>>, <<-1, 1>>})
  BY DEF Omits, Around
<1> QED BY <1>1, <1>2, <1>3, <1>4, <1>5, <1>6, <1>7, <1>8, <1>9, <1>10, <1>11

-----------------------------------------------------------------------------
(* Costs and distances.                                                    *)

\* Every step costs something.
LEMMA CostsArePositive ==
  /\ \A p, q : MapWalkCost(p, q) \in {10, 25}
  /\ \A p : TileWalkCost(p) \in Nat
  /\ \A p, q : StepCost(p, q) \in Nat /\ StepCost(p, q) >= 10
<1>1. \A p, q : MapWalkCost(p, q) \in {10, 25}
  BY DEF MapWalkCost, NormalWalkCost, DiagonalWalkCost
<1>2. \A p : TileWalkCost(p) \in Nat
  BY DEF TileWalkCost, NormalWalkCost
<1>3. \A p, q : StepCost(p, q) = MapWalkCost(p, q) + TileWalkCost(q)
  BY DEF StepCost
<1> QED BY <1>1, <1>2, <1>3

\* How far tiles are apart is a number, the same from both sides.
LEMMA DistanceIs ==
  ASSUME NEW p \in Int \X Int, NEW q \in Int \X Int
  PROVE  /\ TilesApart(p, q) \in Nat
         /\ TilesApart(p, q) = TilesApart(q, p)
         /\ TilesApart(p, q) <= 1 <=> p[1] - q[1] \in -1 .. 1 /\ p[2] - q[2] \in -1 .. 1
<1>1. p[1] \in Int /\ p[2] \in Int /\ q[1] \in Int /\ q[2] \in Int
  OBVIOUS
<1> QED BY <1>1 DEF TilesApart, DistanceX, DistanceY, OffsetX, OffsetY, Abs

\* Neighbours lie in a direction.
LEMMA AdjacentIs ==
  ASSUME NEW n \in Int \X Int
  PROVE  /\ \A d \in Around : Plus(n, d) \in Int \X Int /\ Adjacent(Plus(n, d), n) /\ Adjacent(n, Plus(n, d))
         /\ \A p \in Int \X Int : Adjacent(p, n) => \E d \in Around : p = Plus(n, d)
<1>1. n = <<n[1], n[2]>> /\ n[1] \in Int /\ n[2] \in Int
  OBVIOUS
<1>2. ASSUME NEW d \in Around
      PROVE  Plus(n, d) \in Int \X Int /\ Adjacent(Plus(n, d), n) /\ Adjacent(n, Plus(n, d))
  <2>1. d[1] \in -1 .. 1 /\ d[2] \in -1 .. 1 /\ ~(d[1] = 0 /\ d[2] = 0)
    BY DEF Around
  <2> DEFINE p == Plus(n, d)
  <2>2. p \in Int \X Int /\ p[1] = n[1] + d[1] /\ p[2] = n[2] + d[2]
    BY <1>1, <2>1 DEF Plus
  <2> HIDE DEF p
  <2>3. p # n /\ p[1] - n[1] \in -1 .. 1 /\ p[2] - n[2] \in -1 .. 1
    BY <1>1, <2>1, <2>2
  <2>4. TilesApart(p, n) <= 1 /\ TilesApart(n, p) = TilesApart(p, n)
    BY <2>2, <2>3, DistanceIs
  <2> QED BY <2>2, <2>3, <2>4 DEF Adjacent, p
<1>3. ASSUME NEW p \in Int \X Int, Adjacent(p, n)  PROVE \E d \in Around : p = Plus(n, d)
  <2>1. p # n /\ p[1] - n[1] \in -1 .. 1 /\ p[2] - n[2] \in -1 .. 1
    BY <1>3, DistanceIs DEF Adjacent
  <2> DEFINE d == <<p[1] - n[1], p[2] - n[2]>>
  <2>2. p = <<p[1], p[2]>> /\ p[1] \in Int /\ p[2] \in Int
    OBVIOUS
  <2>3. d \in Around
    BY <1>1, <2>1, <2>2 DEF Around
  <2>4. n[1] + (p[1] - n[1]) = p[1] /\ n[2] + (p[2] - n[2]) = p[2]
    BY <1>1, <2>2
  <2>5. Plus(n, d) = p
    BY <2>2, <2>4 DEF Plus
  <2> HIDE DEF d
  <2> QED BY <2>3, <2>5
<1> QED BY <1>2, <1>3

\* From the tile a node was reached from, what the node leaves out is one straight step.
LEMMA OmittedIsNear ==
  ASSUME NEW n \in Int \X Int, NEW k \in 1 .. 8, NEW p \in Int \X Int, Adjacent(p, n),
         p \notin {Plus(n, d) : d \in ToSet(NeighborsOf[k])}
  PROVE  LET m == Plus(n, DirNeighbors[k]) IN p = m \/ (Adjacent(p, m) /\ MapWalkCost(m, p) = 10)
<1> DEFINE d == DirNeighbors[k]
           m == Plus(n, d)
<1>1. PICK e \in Around : p = Plus(n, e)
  BY AdjacentIs
<1>2. e \notin ToSet(NeighborsOf[k])
  BY <1>1
<1>3. d \in Around
  BY DirectionsAre
<1>4. e = d \/ <<e[1] - d[1], e[2] - d[2]>> \in {<<0, -1>>, <<1, 0>>, <<0, 1>>, <<-1, 0>>}
  BY <1>2, OmittedAre DEF Omits
<1>5. n[1] \in Int /\ n[2] \in Int /\ e[1] \in Int /\ e[2] \in Int /\ d[1] \in Int /\ d[2] \in Int
  BY <1>3 DEF Around
<1>6. /\ p[1] = n[1] + e[1] /\ p[2] = n[2] + e[2] /\ m[1] = n[1] + d[1] /\ m[2] = n[2] + d[2]
      /\ m \in Int \X Int
  BY <1>1, <1>5 DEF Plus
<1> HIDE DEF d, m
<1>7. CASE e = d
  BY <1>1, <1>7 DEF m, d
<1>8. CASE e # d
  <2>1. /\ e[1] - d[1] \in -1 .. 1 /\ e[2] - d[2] \in -1 .. 1
        /\ (e[1] - d[1] = 0 /\ e[2] - d[2] \in {-1, 1}) \/ (e[2] - d[2] = 0 /\ e[1] - d[1] \in {-1, 1})
    BY <1>4, <1>8
  <2>2. /\ p[1] - m[1] = e[1] - d[1] /\ p[2] - m[2] = e[2] - d[2]
        /\ m[1] - p[1] = -(e[1] - d[1]) /\ m[2] - p[2] = -(e[2] - d[2])
    BY <1>5, <1>6
  <2>3. TilesApart(p, m) <= 1
    BY <1>6, <2>1, <2>2, DistanceIs
  <2>4. p # m
    BY <1>5, <1>6, <2>1
  <2>5. DistanceX(m, p) # DistanceY(m, p)
    BY <1>5, <2>1, <2>2 DEF DistanceX, DistanceY, OffsetX, OffsetY, Abs
  <2>6. MapWalkCost(m, p) = 10
    BY <2>5 DEF MapWalkCost, NormalWalkCost
  <2> QED BY <2>3, <2>4, <2>6 DEF Adjacent, m, d
<1> QED BY <1>7, <1>8

-----------------------------------------------------------------------------
(* The nodes.                                                              *)

Node == [parent : Tiles \cup {NoTile}, f : Nat, open : BOOLEAN, index : Nat]

\* Where the search is and what it looks for, as it may be.
Wanted ==
  /\ start \in Tiles /\ target \in Tiles
  /\ fpp \in Params /\ (fpp.minTargetDist > 0 \/ fpp.maxTargetDist <= 1)

\* The nodes are a tree of tiles that can be walked on.
Graph ==
  /\ nodes \in [Seen -> Node] /\ Seen \subseteq Passable /\ IsFiniteSet(Seen)
  /\ start \in Seen /\ nodes[start].parent = NoTile /\ nodes[start].f = 0
  /\ \A p \in Seen \ {start} : nodes[p].parent \in Seen /\ Adjacent(p, nodes[p].parent)

\* What it costs to go on from a node to a neighbour is known already.
Covers(p, q) == q \in Seen /\ nodes[q].f <= nodes[p].f + StepCost(p, q)

\* What a node leaves out is covered by the node it was reached from.
OmittedKnown == \A p \in Seen : \A q \in Passable : Adjacent(q, p) /\ q \notin Facing(p) => Covers(p, q)
ClosedCover == \A p \in Seen \ OpenNodes : \A q \in Passable : Adjacent(q, p) => Covers(p, q)

\* Tiles are pairs of numbers, and NoTile is none of them.
LEMMA TilesAre == Tiles \subseteq Int \X Int /\ NoTile \notin Tiles /\ Passable \subseteq Tiles
BY PathsAssumption DEF Tiles, NoTile, Passable

\* A set of numbers has a least one.
LEMMA LeastOne ==
  ASSUME NEW S \in SUBSET Nat, S # {}
  PROVE  \E least \in S : \A k \in S : least <= k
<1>1. \E least \in S : \A k \in S : ~(<<k, least>> \in OpToRel(<, Nat))
  BY NatLessThanWellFounded, WFMin
<1>2. OpToRel(<, Nat) = {ss \in Nat \X Nat : ss[1] < ss[2]}
  BY DEF OpToRel
<1>3. PICK least \in S : \A k \in S : <<k, least>> \notin {ss \in Nat \X Nat : ss[1] < ss[2]}
  BY <1>1, <1>2
<1>4. \A k \in S : least <= k
  <2> SUFFICES ASSUME NEW k \in S  PROVE least <= k
    OBVIOUS
  <2>1. ~(<<k, least>>[1] < <<k, least>>[2])
    BY <1>3
  <2> QED BY <2>1
<1> QED BY <1>4

\* The node that is taken next is open, and none that is open is cheaper.
LEMMA BestIsCheapest ==
  ASSUME Graph, OpenNodes # {}
  PROVE  BestNode \in OpenNodes /\ \A p \in OpenNodes : nodes[BestNode].f <= nodes[p].f
<1>1. \A p \in OpenNodes : p \in Seen /\ nodes[p].f \in Nat /\ nodes[p].index \in Nat
  BY DEF Graph, OpenNodes, Node
<1> DEFINE costs == {nodes[p].f : p \in OpenNodes}
<1>2. PICK low \in costs : \A k \in costs : low <= k
  <2>1. costs \in SUBSET Nat /\ costs # {}
    BY <1>1
  <2> HIDE DEF costs
  <2> QED BY <2>1, LeastOne
<1> DEFINE cheap == {p \in OpenNodes : nodes[p].f = low}
           ranks == {nodes[p].index : p \in cheap}
<1>3. PICK first \in ranks : \A k \in ranks : first <= k
  <2>1. ranks \in SUBSET Nat /\ ranks # {}
    BY <1>1
  <2> HIDE DEF ranks
  <2> QED BY <2>1, LeastOne
<1>4. PICK p \in OpenNodes : nodes[p].f = low /\ nodes[p].index = first
  BY <1>3
<1>5. \A q \in OpenNodes : Cheaper(p, q)
  <2> SUFFICES ASSUME NEW q \in OpenNodes  PROVE Cheaper(p, q)
    OBVIOUS
  <2>1. low <= nodes[q].f
    BY <1>2
  <2>2. CASE nodes[q].f = low
    BY <1>3, <1>4, <2>2 DEF Cheaper
  <2>3. CASE nodes[q].f # low
    BY <1>1, <1>4, <2>1, <2>3 DEF Cheaper
  <2> QED BY <2>2, <2>3
<1>6. BestNode \in OpenNodes /\ \A q \in OpenNodes : Cheaper(BestNode, q)
  BY <1>4, <1>5 DEF BestNode
<1>7. \A q \in OpenNodes : nodes[BestNode].f <= nodes[q].f
  <2> DEFINE b == BestNode
  <2> SUFFICES ASSUME NEW q \in OpenNodes  PROVE nodes[b].f <= nodes[q].f
    OBVIOUS
  <2>1. b \in OpenNodes /\ Cheaper(b, q)
    BY <1>6
  <2> HIDE DEF b
  <2>2. nodes[b].f \in Nat /\ nodes[q].f \in Nat
    BY <1>1, <2>1
  <2> QED BY <2>1, <2>2 DEF Cheaper
<1> QED BY <1>6, <1>7

\* The tiles around a tile are finitely many.
LEMMA FewAround ==
  ASSUME NEW n \in Int \X Int, NEW S, \A p \in S : p \in Int \X Int /\ Adjacent(p, n)
  PROVE  IsFiniteSet(S)
<1> DEFINE X == n[1] - 1 .. n[1] + 1
           Y == n[2] - 1 .. n[2] + 1
<1>1. n[1] - 1 \in Int /\ n[1] + 1 \in Int /\ n[2] - 1 \in Int /\ n[2] + 1 \in Int
  OBVIOUS
<1>2. IsFiniteSet(X) /\ IsFiniteSet(Y)
  BY <1>1, FS_Interval
<1>3. S \subseteq X \X Y
  <2> SUFFICES ASSUME NEW p \in S  PROVE p \in X \X Y
    OBVIOUS
  <2>1. p \in Int \X Int /\ p[1] - n[1] \in -1 .. 1 /\ p[2] - n[2] \in -1 .. 1
    BY DistanceIs DEF Adjacent
  <2> QED BY <2>1
<1> HIDE DEF X, Y
<1>4. IsFiniteSet(X \X Y)
  BY <1>2, FS_Product
<1> QED BY <1>3, <1>4, FS_Subset

\* What lies ahead of a node are neighbours; of the first node, all of them.
LEMMA FacingIs ==
  ASSUME Graph, NEW n \in Seen
  PROVE  /\ \A p \in Facing(n) : p \in Int \X Int /\ Adjacent(p, n) /\ Adjacent(n, p)
         /\ n \notin Facing(n)
         /\ IsFiniteSet(Facing(n))
         /\ n = start => \A p \in Int \X Int : Adjacent(p, n) => p \in Facing(n)
         /\ n # start => \A p \in Int \X Int : Adjacent(p, n) /\ p \notin Facing(n) =>
              p = nodes[n].parent \/ (Adjacent(p, nodes[n].parent) /\ MapWalkCost(nodes[n].parent, p) = 10)
<1>1. n \in Int \X Int
  BY TilesAre DEF Graph
<1>2. CASE n = start
  <2>1. Facing(n) = {Plus(n, d) : d \in Around}
    BY <1>2, AllAround DEF Facing, Neighbors, Graph
  <2>3. \A p \in Facing(n) : p \in Int \X Int /\ Adjacent(p, n) /\ Adjacent(n, p)
    BY <1>1, <2>1, AdjacentIs
  <2>2. IsFiniteSet(Facing(n))
    BY <1>1, <2>3, FewAround
  <2>4. \A p \in Int \X Int : Adjacent(p, n) => p \in Facing(n)
    BY <1>1, <2>1, AdjacentIs
  <2> QED BY <1>2, <2>2, <2>3, <2>4 DEF Adjacent
<1>3. CASE n # start
  <2> DEFINE m == nodes[n].parent
             k == Behind(n)
             ds == ToSet(NeighborsOf[k])
  <2>1. m \in Seen /\ Adjacent(n, m) /\ m \in Int \X Int /\ m # NoTile
    BY <1>3, TilesAre DEF Graph
  <2>2. k \in 1 .. 8 /\ Plus(n, DirNeighbors[k]) = m
    <3>1. Adjacent(m, n)
      BY <1>1, <2>1, DistanceIs DEF Adjacent
    <3>2. PICK d \in Around : m = Plus(n, d)
      BY <1>1, <2>1, <3>1, AdjacentIs
    <3>3. \E j \in 1 .. 8 : Plus(n, DirNeighbors[j]) = nodes[n].parent
      BY <3>2, DirectionsAre
    <3> QED BY <3>3 DEF Behind
  <2>3. Facing(n) = {Plus(n, d) : d \in ds}
    BY <2>1 DEF Facing, Neighbors
  <2> HIDE DEF k
  <2>4. ds \subseteq Around
    BY <2>2, OmittedAre DEF Omits
  <2>5. \A p \in Facing(n) : p \in Int \X Int /\ Adjacent(p, n) /\ Adjacent(n, p)
    BY <1>1, <2>3, <2>4, AdjacentIs
  <2>6. IsFiniteSet(Facing(n))
    BY <1>1, <2>5, FewAround
  <2>7. \A p \in Int \X Int : Adjacent(p, n) /\ p \notin Facing(n) => p = m \/ (Adjacent(p, m) /\ MapWalkCost(m, p) = 10)
    BY <1>1, <2>2, <2>3, OmittedIsNear
  <2> QED BY <1>3, <2>5, <2>6, <2>7 DEF Adjacent
<1> QED BY <1>2, <1>3

\* What is looked at can be walked on, and if there is room, all that can be is.
LEMMA LookedAtIs ==
  ASSUME Wanted, Graph, NEW n \in Seen
  PROVE  /\ LookedAt(n) \subseteq Passable \cap Facing(n)
         /\ \A p \in LookedAt(n) : Index(n, p) \in Nat
         /\ ~NoRoom(n) => Passable \cap Facing(n) \subseteq LookedAt(n)
<1>1. LookedAt(n) \subseteq Passable \cap Facing(n)
  BY DEF LookedAt, Passable, CanWalkTo, Graph
<1> DEFINE earlier(p) == {q \in NewNodes(n) : Nth(n, q) <= Nth(n, p)}
<1>2. IsFiniteSet(NewNodes(n))
  <2>1. NewNodes(n) \subseteq Facing(n)
    BY DEF NewNodes
  <2> QED BY <2>1, FacingIs, FS_Subset
<1>3. \A p : /\ IsFiniteSet(earlier(p)) /\ Cardinality(earlier(p)) \in Nat
             /\ Cardinality(earlier(p)) <= Cardinality(NewNodes(n))
  <2> SUFFICES ASSUME NEW p  PROVE /\ IsFiniteSet(earlier(p)) /\ Cardinality(earlier(p)) \in Nat
                                   /\ Cardinality(earlier(p)) <= Cardinality(NewNodes(n))
    OBVIOUS
  <2>1. earlier(p) \in SUBSET NewNodes(n)
    OBVIOUS
  <2> HIDE DEF earlier
  <2> QED BY <1>2, <2>1, FS_Subset, FS_CardinalityType
<1>4. Cardinality(Seen) \in Nat /\ Cardinality(NewNodes(n)) \in Nat
  BY <1>2, FS_CardinalityType DEF Graph
<1>5. \A p : Index(n, p) = Cardinality(Seen) + Cardinality(earlier(p))
  BY DEF Index
<1> HIDE DEF earlier
<1>6. \A p : Index(n, p) \in Nat
  BY <1>3, <1>4, <1>5
<1>7. ASSUME ~NoRoom(n), NEW p \in Passable \cap Facing(n)  PROVE p \in LookedAt(n)
  <2>1. ~OutOfReach(p)
    <3>1. CASE p = start
      <4>1. start \in Int \X Int /\ start[1] - start[1] = 0 /\ start[2] - start[2] = 0
        BY TilesAre DEF Wanted
      <4>2. TilesApart(start, start) = 0
        BY <4>1 DEF TilesApart, DistanceX, DistanceY, OffsetX, OffsetY, Abs
      <4> QED BY <3>1, <4>2 DEF OutOfReach, Wanted, Params
    <3>2. CASE p # start
      BY <1>7, <3>2 DEF Passable
    <3> QED BY <3>1, <3>2
  <2>2. p \in Seen \/ CanWalkTo(p)
    BY <1>7 DEF Passable, Graph
  <2>3. Index(n, p) <= MaxNodes
    <3>1. Cardinality(Seen) + Cardinality(NewNodes(n)) <= MaxNodes
      BY <1>4, <1>7, PathsAssumption DEF NoRoom
    <3> QED BY <1>3, <1>4, <1>5, <1>6, <3>1, PathsAssumption
  <2> QED BY <1>7, <2>1, <2>2, <2>3 DEF LookedAt
<1> QED BY <1>1, <1>6, <1>7

\* What an expansion does to the nodes.
Opened(n) ==
  /\ nodes' = [p \in DOMAIN nodes' |-> nodes'[p]]
  /\ DOMAIN nodes' = Seen \cup Reached(n)
  /\ Reached(n) \subseteq LookedAt(n)
  /\ n \notin Reached(n)
  /\ \A p \in Reached(n) :
       /\ nodes'[p] \in Node
       /\ nodes'[p].parent = n /\ nodes'[p].open = TRUE
       /\ nodes'[p].f = nodes[n].f + StepCost(n, p)
       /\ p \in Seen => nodes'[p].f < nodes[p].f
  /\ \A p \in Seen \ Reached(n) :
       /\ nodes'[p] \in Node
       /\ nodes'[p].parent = nodes[p].parent /\ nodes'[p].f = nodes[p].f
       /\ nodes'[p].open = (nodes[p].open /\ p # n)
  /\ \A p \in LookedAt(n) : p \in Seen \cup Reached(n) /\ nodes'[p].f <= nodes[n].f + StepCost(n, p)

\* The nodes after an expansion are so.
LEMMA LinkedIs ==
  ASSUME Wanted, Graph, NEW n \in Seen, nodes' = [Linked(n) EXCEPT ![n].open = FALSE]
  PROVE  Opened(n)
<1> DEFINE N == Linked(n)
           fresh(p) == [parent |-> n, f |-> nodes[n].f + StepCost(n, p), open |-> TRUE,
                        index |-> IF p \in Seen THEN nodes[p].index ELSE Index(n, p)]
<1>1. /\ N = [p \in Seen \cup Reached(n) |-> IF p \in Reached(n) THEN fresh(p) ELSE nodes[p]]
  BY DEF Linked
<1>2. Reached(n) \subseteq LookedAt(n) /\ n \notin Reached(n)
  BY LookedAtIs, FacingIs DEF Reached
<1>3. \A p \in Seen : nodes[p] \in Node
  BY DEF Graph
<1>4. \A p \in Seen : /\ nodes[p].f \in Nat /\ nodes[p].index \in Nat /\ nodes[p].open \in BOOLEAN
                      /\ nodes[p].parent \in Tiles \cup {NoTile}
  BY <1>3 DEF Node
<1>5. \A p \in Reached(n) :
        /\ fresh(p) \in Node /\ fresh(p).parent = n /\ fresh(p).open = TRUE
        /\ fresh(p).f = nodes[n].f + StepCost(n, p)
  <2> SUFFICES ASSUME NEW p \in Reached(n)
               PROVE  /\ fresh(p) \in Node /\ fresh(p).parent = n /\ fresh(p).open = TRUE
                      /\ fresh(p).f = nodes[n].f + StepCost(n, p)
    OBVIOUS
  <2>1. n \in Tiles
    BY TilesAre DEF Graph
  <2> DEFINE c == nodes[n].f + StepCost(n, p)
             i == IF p \in Seen THEN nodes[p].index ELSE Index(n, p)
  <2>2. c \in Nat
    BY <1>4, CostsArePositive
  <2>3. i \in Nat
    BY <1>2, <1>4, LookedAtIs
  <2> HIDE DEF c, i
  <2> DEFINE r == [parent |-> n, f |-> c, open |-> TRUE, index |-> i]
  <2>4. r \in Node /\ r.parent = n /\ r.open = TRUE /\ r.f = c
    BY <2>1, <2>2, <2>3 DEF Node
  <2>5. fresh(p) = r
    BY DEF c, i
  <2> HIDE DEF r, fresh
  <2> QED BY <2>4, <2>5 DEF c
<1>6. nodes' = [N EXCEPT ![n] = [nodes[n] EXCEPT !.open = FALSE]]
  BY <1>1, <1>2
<1>7. /\ nodes' = [p \in DOMAIN nodes' |-> nodes'[p]]
      /\ DOMAIN nodes' = Seen \cup Reached(n)
      /\ nodes'[n] = [nodes[n] EXCEPT !.open = FALSE]
      /\ \A p \in Reached(n) : nodes'[p] = fresh(p)
      /\ \A p \in Seen \ Reached(n) : p # n => nodes'[p] = nodes[p]
  BY <1>1, <1>2, <1>6
<1> HIDE DEF fresh, N
<1>8. \A p \in Reached(n) :
        /\ nodes'[p] \in Node
        /\ nodes'[p].parent = n /\ nodes'[p].open = TRUE
        /\ nodes'[p].f = nodes[n].f + StepCost(n, p)
        /\ p \in Seen => nodes'[p].f < nodes[p].f
  <2> SUFFICES ASSUME NEW p \in Reached(n)
               PROVE  /\ nodes'[p] \in Node
                      /\ nodes'[p].parent = n /\ nodes'[p].open = TRUE
                      /\ nodes'[p].f = nodes[n].f + StepCost(n, p)
                      /\ p \in Seen => nodes'[p].f < nodes[p].f
    OBVIOUS
  <2>a. nodes'[p] = fresh(p)
    BY <1>7
  <2>b. fresh(p).parent = n /\ fresh(p).open = TRUE /\ fresh(p).f = nodes[n].f + StepCost(n, p)
    BY <1>5
  <2>1. nodes'[p].f = nodes[n].f + StepCost(n, p) /\ nodes'[p].parent = n /\ nodes'[p].open = TRUE
    BY <2>a, <2>b
  <2>2. p \in Seen => nodes[p].f > nodes[n].f + StepCost(n, p)
    BY DEF Reached
  <2> DEFINE c == nodes[n].f + StepCost(n, p)
  <2>3. c \in Nat
    BY <1>4, CostsArePositive
  <2> HIDE DEF c
  <2>4. p \in Seen => c < nodes[p].f
    BY <1>4, <2>2, <2>3 DEF c
  <2>5. nodes'[p] \in Node
    BY <1>5, <1>7
  <2>6. nodes'[p].f = c
    BY <2>1 DEF c
  <2> QED BY <2>1, <2>4, <2>5, <2>6 DEF c
<1>9. \A p \in Seen \ Reached(n) :
        /\ nodes'[p] \in Node
        /\ nodes'[p].parent = nodes[p].parent /\ nodes'[p].f = nodes[p].f
        /\ nodes'[p].open = (nodes[p].open /\ p # n)
  <2>1. ASSUME NEW p \in Seen \ Reached(n), p # n
        PROVE  /\ nodes'[p] \in Node
               /\ nodes'[p].parent = nodes[p].parent /\ nodes'[p].f = nodes[p].f
               /\ nodes'[p].open = (nodes[p].open /\ p # n)
    <3>1. nodes'[p] = nodes[p] /\ nodes[p].open \in BOOLEAN
      BY <1>4, <1>7, <2>1
    <3> QED BY <1>3, <2>1, <3>1
  <2>2. /\ nodes'[n] \in Node
        /\ nodes'[n].parent = nodes[n].parent /\ nodes'[n].f = nodes[n].f
        /\ nodes'[n].open = FALSE
    BY <1>3, <1>7 DEF Node
  <2> QED BY <2>1, <2>2
<1>10. \A p \in LookedAt(n) : p \in Seen \cup Reached(n) /\ nodes'[p].f <= nodes[n].f + StepCost(n, p)
  <2> SUFFICES ASSUME NEW p \in LookedAt(n)
               PROVE  p \in Seen \cup Reached(n) /\ nodes'[p].f <= nodes[n].f + StepCost(n, p)
    OBVIOUS
  <2>1. nodes[n].f + StepCost(n, p) \in Nat
    BY <1>4, CostsArePositive
  <2>2. CASE p \in Reached(n)
    <3>1. nodes'[p].f = nodes[n].f + StepCost(n, p)
      BY <1>8, <2>2
    <3> QED BY <2>1, <2>2, <3>1
  <2>3. CASE p \notin Reached(n)
    <3>1. p \in Seen /\ ~(nodes[p].f > nodes[n].f + StepCost(n, p))
      BY <2>3 DEF Reached
    <3>2. nodes'[p].f = nodes[p].f
      BY <1>9, <2>3, <3>1
    <3> QED BY <1>4, <2>1, <3>1, <3>2
  <2> QED BY <2>2, <2>3
<1> QED BY <1>2, <1>7, <1>8, <1>9, <1>10 DEF Opened

\* The map and what is wanted stay as they are, and with them all that is judged by them.
Fixed == UNCHANGED <<ground, start, target, fpp>>

\* What is judged by them stays too.
LEMMA FixedIs ==
  ASSUME Fixed
  PROVE  /\ Wanted => Wanted'
         /\ Passable' = Passable
         /\ \A p, q : StepCost(p, q)' = StepCost(p, q)
         /\ \A p : Suits(p)' = Suits(p) /\ Exact(p)' = Exact(p)
<1> USE DEF Fixed
<1>1. Wanted => Wanted'
  BY DEF Wanted
<1>2. Passable' = Passable
  BY DEF Passable, CanWalkTo, OutOfReach
<1>3. \A p, q : StepCost(p, q)' = StepCost(p, q)
  BY DEF StepCost, TileWalkCost
<1>4. \A p : Suits(p)' = Suits(p)
  <2> SUFFICES ASSUME NEW p  PROVE Suits(p)' = Suits(p)
    OBVIOUS
  <2>1. IsInRange(p)' = IsInRange(p)
    BY DEF IsInRange
  <2>2. IsSightClear(p, target)' = IsSightClear(p, target)
    BY DEF IsSightClear, SightLine, Shut
  <2> QED BY <2>1, <2>2 DEF Suits
<1>5. \A p : Exact(p)' = Exact(p)
  BY <1>4 DEF Exact
<1> QED BY <1>1, <1>2, <1>3, <1>4, <1>5

\* The nodes stay a tree of tiles, and none becomes dearer.
LEMMA GraphGrows ==
  ASSUME Wanted, Graph, NoLoops, NEW n \in Seen, Opened(n), Fixed
  PROVE  /\ Graph' /\ NoLoops'
         /\ Seen \subseteq Seen' /\ n \in Seen' /\ nodes'[n].f = nodes[n].f
         /\ \A p \in Seen : nodes'[p].f <= nodes[p].f
<1>1. Seen' = Seen \cup Reached(n)
  BY DEF Opened, Seen
<1>2. /\ \A p \in Seen : nodes[p].f \in Nat
      /\ \A p \in Seen' : nodes'[p] \in Node /\ nodes'[p].f \in Nat
  <2>1. \A p \in Seen' : nodes'[p] \in Node
    BY <1>1 DEF Opened
  <2> QED BY <2>1 DEF Graph, Node
<1>3. \A p \in Seen : nodes'[p].f <= nodes[p].f
  <2> SUFFICES ASSUME NEW p \in Seen  PROVE nodes'[p].f <= nodes[p].f
    OBVIOUS
  <2>1. nodes'[p].f < nodes[p].f \/ nodes'[p].f = nodes[p].f
    BY DEF Opened
  <2> QED BY <1>1, <1>2, <2>1
<1>4. start \notin Reached(n)
  <2>1. nodes[start].f = 0 /\ start \in Seen
    BY DEF Graph
  <2>2. ~(nodes[start].f > nodes[n].f + StepCost(n, start))
    BY <1>2, <2>1, CostsArePositive
  <2> QED BY <2>1, <2>2 DEF Reached
<1>5. n \notin Reached(n) /\ nodes'[n].f = nodes[n].f
  BY DEF Opened
<1>6. Graph'
  <2>1. nodes' \in [Seen' -> Node]
    BY <1>1, <1>2 DEF Opened, Seen
  <2>2. Seen' \subseteq Passable'
    BY <1>1, FixedIs, LookedAtIs DEF Opened, Graph
  <2>3. IsFiniteSet(Seen')
    <3>1. Reached(n) \subseteq Facing(n)
      BY LookedAtIs DEF Opened
    <3>2. IsFiniteSet(Reached(n))
      BY <3>1, FacingIs, FS_Subset
    <3> QED BY <1>1, <3>2, FS_Union DEF Graph
  <2>4. start' \in Seen' /\ nodes'[start].parent = NoTile /\ nodes'[start].f = 0
    BY <1>1, <1>4 DEF Opened, Graph, Fixed
  <2>5. \A p \in Seen' \ {start'} : nodes'[p].parent \in Seen' /\ Adjacent(p, nodes'[p].parent)
    <3> SUFFICES ASSUME NEW p \in Seen' \ {start}
                 PROVE  nodes'[p].parent \in Seen' /\ Adjacent(p, nodes'[p].parent)
      BY DEF Fixed
    <3>1. CASE p \in Reached(n)
      <4>1. Adjacent(p, n)
        BY <3>1, LookedAtIs, FacingIs DEF Opened
      <4> QED BY <1>1, <3>1, <4>1 DEF Opened
    <3>2. CASE p \notin Reached(n)
      BY <1>1, <3>2 DEF Opened, Graph
    <3> QED BY <3>1, <3>2
  <2> QED BY <2>1, <2>2, <2>3, <2>4, <2>5 DEF Graph, Fixed
<1>7. NoLoops'
  <2> SUFFICES ASSUME NEW p \in Seen' \ {start}
               PROVE  nodes'[nodes'[p].parent].f + StepCost(nodes'[p].parent, p) <= nodes'[p].f
    BY FixedIs DEF NoLoops, Fixed
  <2>1. CASE p \in Reached(n)
    <3>1. nodes'[p].parent = n /\ nodes'[p].f = nodes[n].f + StepCost(n, p)
      BY <2>1 DEF Opened
    <3>2. nodes[n].f + StepCost(n, p) \in Nat
      BY <1>2, CostsArePositive
    <3> QED BY <1>5, <3>1, <3>2
  <2>2. CASE p \notin Reached(n)
    <3> DEFINE m == nodes[p].parent
    <3>1. p \in Seen \ {start} /\ nodes'[p].parent = m /\ nodes'[p].f = nodes[p].f
      BY <1>1, <2>2 DEF Opened
    <3>2. m \in Seen
      BY <3>1 DEF Graph
    <3>3. nodes[m].f + StepCost(m, p) <= nodes[p].f
      BY <3>1 DEF NoLoops
    <3> HIDE DEF m
    <3>4. nodes'[m].f <= nodes[m].f /\ nodes'[m].f \in Nat /\ nodes[m].f \in Nat /\ nodes[p].f \in Nat
      BY <1>1, <1>2, <1>3, <3>1, <3>2
    <3>5. nodes'[m].f + StepCost(m, p) <= nodes[p].f
      BY <3>3, <3>4, CostsArePositive
    <3> QED BY <3>1, <3>5
  <2> QED BY <2>1, <2>2
<1> QED BY <1>1, <1>3, <1>5, <1>6, <1>7

\* What is left out stays known, and when a node is closed, so is every neighbour.
LEMMA CoverGrows ==
  ASSUME Wanted, Graph, NoLoops, NEW n \in Seen, Opened(n), Fixed, ~NoRoom(n), OmittedKnown, ClosedCover
  PROVE  OmittedKnown' /\ ClosedCover'
<1>1. /\ Seen' = Seen \cup Reached(n) /\ Seen \subseteq Seen' /\ n \in Seen' /\ n \notin Reached(n)
      /\ nodes'[n].f = nodes[n].f
      /\ Graph'
      /\ \A p \in Seen : nodes'[p].f <= nodes[p].f
  <2>1. Seen' = Seen \cup Reached(n) /\ n \notin Reached(n)
    BY DEF Opened, Seen
  <2> QED BY <2>1, GraphGrows
<1>2. /\ \A p \in Seen : nodes[p].f \in Nat
      /\ \A p \in Seen' : nodes'[p].f \in Nat
      /\ Seen' \subseteq Int \X Int /\ Passable \subseteq Int \X Int
  <2>1. Seen' \subseteq Passable' /\ Passable' = Passable /\ Passable \subseteq Int \X Int
    BY <1>1, FixedIs, TilesAre DEF Graph
  <2> QED BY <1>1, <2>1 DEF Graph, Node
<1>3. Passable' = Passable /\ (\A p, q : StepCost(p, q)' = StepCost(p, q))
  BY FixedIs
<1>4. ASSUME NEW p \in Seen, p \notin Reached(n), NEW q, Covers(p, q)
      PROVE  q \in Seen' /\ nodes'[q].f <= nodes'[p].f + StepCost(p, q)
  <2>1. nodes'[p].f = nodes[p].f
    BY <1>4 DEF Opened
  <2>2. q \in Seen /\ nodes[q].f <= nodes[p].f + StepCost(p, q) /\ nodes'[q].f <= nodes[q].f
    BY <1>1, <1>4 DEF Covers
  <2> QED BY <1>1, <1>2, <2>1, <2>2, CostsArePositive
<1>5. ASSUME NEW q \in Passable, Adjacent(q, n)
      PROVE  q \in Seen' /\ nodes'[q].f <= nodes[n].f + StepCost(n, q)
  <2>1. CASE q \in Facing(n)
    <3>1. q \in LookedAt(n)
      BY <1>5, <2>1, LookedAtIs
    <3> QED BY <1>1, <3>1 DEF Opened
  <2>2. CASE q \notin Facing(n)
    <3>1. Covers(n, q)
      BY <1>5, <2>2 DEF OmittedKnown
    <3> QED BY <1>1, <1>4, <3>1
  <2> QED BY <2>1, <2>2
<1>6. ASSUME NEW p \in Seen', NEW q \in Passable, Adjacent(q, p), q \notin Facing(p)'
      PROVE  q \in Seen' /\ nodes'[q].f <= nodes'[p].f + StepCost(p, q)
  <2>1. CASE p \notin Reached(n)
    <3>1. p \in Seen /\ nodes'[p].parent = nodes[p].parent
      BY <1>1, <2>1 DEF Opened
    <3>2. Facing(p)' = Facing(p)
      BY <3>1 DEF Facing, Neighbors, Behind
    <3>3. Covers(p, q)
      BY <1>6, <3>1, <3>2 DEF OmittedKnown
    <3> QED BY <1>4, <2>1, <3>1, <3>3
  <2>2. CASE p \in Reached(n)
    <3>1. nodes'[p].parent = n /\ nodes'[p].f = nodes[n].f + StepCost(n, p) /\ n # NoTile
      BY <2>2, TilesAre DEF Opened, Graph
    <3>2. p \in Int \X Int /\ n \in Int \X Int /\ q \in Int \X Int
      BY <1>1, <1>2
    <3>3. Adjacent(n, p)
      BY <2>2, LookedAtIs, FacingIs DEF Opened
    <3> DEFINE k == Behind(p)'
    <3>4. k \in 1 .. 8 /\ Plus(p, DirNeighbors[k]) = n
      <4>1. PICK d \in Around : n = Plus(p, d)
        BY <3>2, <3>3, AdjacentIs
      <4>2. \E j \in 1 .. 8 : Plus(p, DirNeighbors[j]) = nodes'[p].parent
        BY <3>1, <4>1, DirectionsAre
      <4> QED BY <3>1, <4>2 DEF Behind
    <3>5. Facing(p)' = {Plus(p, d) : d \in ToSet(NeighborsOf[k])}
      BY <3>1 DEF Facing, Neighbors
    <3> HIDE DEF k
    <3>6. q = n \/ (Adjacent(q, n) /\ MapWalkCost(n, q) = 10)
      BY <1>6, <3>2, <3>4, <3>5, OmittedIsNear
    <3>7. /\ nodes[n].f \in Nat /\ StepCost(n, p) \in Nat /\ StepCost(n, p) >= 10
          /\ StepCost(p, q) \in Nat
          /\ nodes'[p].f + StepCost(p, q) >= nodes[n].f + StepCost(p, q)
      BY <1>2, <3>1, CostsArePositive
    <3>8. CASE q = n
      BY <1>1, <1>2, <3>7, <3>8
    <3>9. CASE Adjacent(q, n) /\ MapWalkCost(n, q) = 10
      <4>1. q \in Seen' /\ nodes'[q].f <= nodes[n].f + StepCost(n, q)
        BY <1>5, <3>9
      <4>2. StepCost(n, q) = 10 + TileWalkCost(q) /\ StepCost(p, q) >= TileWalkCost(q)
        <5>1. MapWalkCost(p, q) \in {10, 25} /\ TileWalkCost(q) \in Nat
          BY CostsArePositive
        <5> QED BY <3>9, <5>1 DEF StepCost
      <4>3. TileWalkCost(q) \in Nat /\ nodes'[q].f \in Nat /\ StepCost(n, q) \in Nat
        BY <1>2, <4>1, CostsArePositive
      <4> QED BY <3>1, <3>7, <4>1, <4>2, <4>3
    <3> QED BY <3>6, <3>8, <3>9
  <2> QED BY <2>1, <2>2
<1>7. OmittedKnown'
  BY <1>3, <1>6 DEF OmittedKnown, Covers
<1>8. ASSUME NEW p \in Seen' \ OpenNodes', NEW q \in Passable, Adjacent(q, p)
      PROVE  q \in Seen' /\ nodes'[q].f <= nodes'[p].f + StepCost(p, q)
  <2>1. p \in Seen /\ p \notin Reached(n) /\ (p = n \/ p \notin OpenNodes)
    <3>1. p \in Seen' /\ nodes'[p].open # TRUE
      BY <1>8 DEF OpenNodes
    <3>2. p \in Seen /\ p \notin Reached(n)
      BY <1>1, <3>1 DEF Opened
    <3>3. nodes'[p].open = (nodes[p].open /\ p # n)
      BY <3>2 DEF Opened
    <3> QED BY <3>1, <3>2, <3>3 DEF OpenNodes
  <2>2. CASE p = n
    BY <1>1, <1>5, <1>8, <2>2
  <2>3. CASE p \notin OpenNodes
    <3>1. Covers(p, q)
      BY <1>8, <2>1, <2>3 DEF ClosedCover
    <3> QED BY <1>4, <2>1, <3>1
  <2> QED BY <2>1, <2>2, <2>3
<1>9. ClosedCover'
  BY <1>3, <1>8 DEF ClosedCover, Covers
<1> QED BY <1>7, <1>9

-----------------------------------------------------------------------------
(* What is found.                                                          *)

\* The best is the farthest of the closed nodes that suit, or none does.
BestOfClosed == \A p \in Seen \ OpenNodes : Suits(p) => TilesApart(p, target) <= bestMatch

\* While nothing that is exactly right is found.
Searching ==
  /\ \A p \in Seen \ OpenNodes : ~Exact(p)
  /\ bestMatch \in Nat
  /\ found = NoTile <=> bestMatch = 0
  /\ bestMatch # 0 => found \in Seen /\ Suits(found)
  /\ BestOfClosed

\* What has been found so far, or in the end.
Judged ==
  /\ search \in {"on", "found", "failed"}
  /\ ~(search = "found" /\ bestMatch = 0) => Searching
  /\ search = "found" /\ bestMatch = 0 =>
       /\ \A p \in Seen \ OpenNodes : ~Exact(p)
       /\ found \in Seen /\ Suits(found)
       /\ \A p \in OpenNodes : nodes[found].f <= nodes[p].f
  /\ search # "on" /\ bestMatch # 0 /\ ~CutShort => OpenNodes = {}
  /\ search = "failed" => bestMatch = 0 /\ (~CutShort => OpenNodes = {})

\* The inductive invariant of a search.
PathsKept ==
  /\ Wanted /\ Graph /\ NoLoops
  /\ ~refused => OmittedKnown /\ ClosedCover
  /\ Judged

\* A tile that suits but is not exactly right is nearer than wanted, and not the target.
LEMMA SuitedAre ==
  ASSUME Wanted, NEW p \in Tiles, Suits(p), ~Exact(p)
  PROVE  fpp.maxTargetDist # 1 /\ TilesApart(p, target) \in 1 .. fpp.maxTargetDist - 1
<1>1. p[1] \in Int /\ p[2] \in Int /\ target[1] \in Int /\ target[2] \in Int /\ p \in Int \X Int /\ target \in Int \X Int
  BY TilesAre DEF Wanted
<1> DEFINE far == fpp.maxTargetDist
<1>2. far \in Nat /\ fpp.minTargetDist \in Nat /\ (fpp.minTargetDist > 0 \/ far <= 1)
  BY DEF Wanted, Params
<1>3. TilesApart(p, target) \in Nat /\ TilesApart(p, target) >= fpp.minTargetDist
  BY <1>1, DistanceIs DEF Suits
<1> HIDE DEF far
<1>4. \A offset, t, w \in Int : \A side \in BOOLEAN : Within(offset, t, w, side, far) => t <= w + far /\ t >= w - far
  BY <1>2 DEF Within
<1>5. OffsetX(start, target) \in Int /\ OffsetY(start, target) \in Int
  BY TilesAre DEF Wanted, OffsetX, OffsetY
<1>6. (~fpp.fullPathSearch) \in BOOLEAN
  OBVIOUS
<1>7. /\ Within(OffsetX(start, target), p[1], target[1], ~fpp.fullPathSearch, far)
      /\ Within(OffsetY(start, target), p[2], target[2], ~fpp.fullPathSearch, far)
  BY DEF Suits, IsInRange, far
<1> DEFINE side == ~fpp.fullPathSearch
           ox == OffsetX(start, target)
           oy == OffsetY(start, target)
<1>8. side \in BOOLEAN /\ ox \in Int /\ oy \in Int /\ Within(ox, p[1], target[1], side, far) /\ Within(oy, p[2], target[2], side, far)
  BY <1>5, <1>6, <1>7
<1> HIDE DEF side, ox, oy
<1>9. p[1] <= target[1] + far /\ p[1] >= target[1] - far /\ p[2] <= target[2] + far /\ p[2] >= target[2] - far
  BY <1>1, <1>4, <1>8
<1>10. TilesApart(p, target) <= far
  BY <1>1, <1>2, <1>9 DEF TilesApart, DistanceX, DistanceY, OffsetX, OffsetY, Abs
<1>11. far # 1 /\ TilesApart(p, target) # far
  BY DEF Exact, far
<1> QED BY <1>2, <1>3, <1>10, <1>11 DEF far

\* A search begins so.
LEMMA PathsInitKept == PathsInit => PathsKept
<1> SUFFICES ASSUME PathsInit  PROVE PathsKept
  OBVIOUS
<1> USE DEF PathsInit, IdleSearch
<1>1. Wanted
  BY PathsAssumption DEF Wanted
<1>2. Seen = {start} /\ nodes[start] = [parent |-> NoTile, f |-> 0, open |-> TRUE, index |-> 1]
  BY DEF Seen
<1>3. Graph
  <2>1. [parent |-> NoTile, f |-> 0, open |-> TRUE, index |-> 1] \in Node
    BY DEF Node
  <2>2. nodes \in [Seen -> Node]
    BY <1>2, <2>1
  <2>3. IsFiniteSet(Seen) /\ Seen \subseteq Passable
    BY <1>1, <1>2, FS_Singleton DEF Passable, Wanted
  <2> QED BY <1>2, <2>2, <2>3 DEF Graph
<1>4. NoLoops /\ OpenNodes = Seen
  BY <1>2 DEF NoLoops, OpenNodes
<1>5. OmittedKnown
  <2>1. \A p \in Seen : \A q \in Passable : Adjacent(q, p) => q \in Facing(p)
    BY <1>2, <1>3, TilesAre, FacingIs
  <2> QED BY <2>1 DEF OmittedKnown
<1>6. ClosedCover
  BY <1>4 DEF ClosedCover
<1>7. Judged
  BY <1>4 DEF Judged, Searching, BestOfClosed
<1> QED BY <1>1, <1>3, <1>4, <1>5, <1>6, <1>7 DEF PathsKept

\* A step that leaves the nodes alone.
TreeKept ==
  /\ Wanted' /\ Graph' /\ NoLoops' /\ (~refused' => OmittedKnown' /\ ClosedCover')
  /\ Seen' = Seen /\ OpenNodes' = OpenNodes /\ CutShort' = CutShort
  /\ \A p : Suits(p)' = Suits(p) /\ Exact(p)' = Exact(p)
  /\ found' = found => Suits(found)' = Suits(found)

\* The tree and what is judged by it stay.
LEMMA TreeIsKept ==
  ASSUME PathsKept, UNCHANGED <<ground, start, target, fpp, nodes, closedNodes, refused>>
  PROVE  TreeKept
<1>1. Fixed
  BY DEF Fixed
<1>2. /\ Passable' = Passable /\ (\A p, q : StepCost(p, q)' = StepCost(p, q)) /\ Seen' = Seen /\ OpenNodes' = OpenNodes
      /\ \A p : Suits(p)' = Suits(p) /\ Exact(p)' = Exact(p)
      /\ CutShort' = CutShort
  BY <1>1, FixedIs DEF Seen, OpenNodes, CutShort
<1>3. \A p : Facing(p)' = Facing(p)
  BY DEF Facing, Neighbors, Behind
<1>4. \A p, q : Covers(p, q)' = Covers(p, q)
  BY <1>2 DEF Covers
<1>5. Wanted' /\ Graph'
  BY <1>1, <1>2, FixedIs DEF PathsKept, Graph
<1>6. NoLoops'
  BY <1>2 DEF PathsKept, NoLoops
<1>7. ~refused' => OmittedKnown' /\ ClosedCover'
  BY <1>2, <1>3, <1>4 DEF PathsKept, OmittedKnown, ClosedCover
<1>8. found' = found => Suits(found)' = Suits(found)
  BY DEF Suits, IsInRange, IsSightClear, SightLine, Shut
<1> QED BY <1>2, <1>5, <1>6, <1>7, <1>8 DEF TreeKept

\* A search that gives up keeps the invariant.
LEMMA GiveUpKept == PathsKept /\ GiveUp => PathsKept'
<1> SUFFICES ASSUME PathsKept, GiveUp  PROVE PathsKept'
  OBVIOUS
<1>1. UNCHANGED <<ground, start, target, fpp, nodes, closedNodes, refused, bestMatch, found>>
  BY DEF GiveUp
<1>2. TreeKept
  BY <1>1, TreeIsKept
<1>3. search = "on" /\ Searching
  BY DEF GiveUp, PathsKept, Judged
<1>4. Searching'
  BY <1>1, <1>2, <1>3 DEF TreeKept, Searching, BestOfClosed
<1>5. ~CutShort => OpenNodes = {}
  BY DEF GiveUp, MaySearchOn, CutShort
<1>6. search' = "failed" \/ (search' = "found" /\ bestMatch' # 0)
  BY <1>1, <1>3 DEF GiveUp, Searching
<1>7. search' = "failed" => bestMatch' = 0
  BY <1>1, <1>3 DEF GiveUp, Searching
<1>8. Judged'
  BY <1>2, <1>4, <1>5, <1>6, <1>7 DEF Judged, TreeKept
<1> QED BY <1>2, <1>8 DEF PathsKept, TreeKept

\* A search that takes the cheapest open node keeps it.
LEMMA ReachedItKept == PathsKept /\ ReachedIt => PathsKept'
<1> SUFFICES ASSUME PathsKept, ReachedIt  PROVE PathsKept'
  OBVIOUS
<1>1. UNCHANGED <<ground, start, target, fpp, nodes, closedNodes, refused>>
  BY DEF ReachedIt
<1>2. TreeKept
  BY <1>1, TreeIsKept
<1>4. /\ OpenNodes # {} /\ Exact(BestNode) /\ found' = BestNode /\ bestMatch' = 0 /\ search' = "found" /\ search = "on"
  BY DEF ReachedIt, MaySearchOn
<1>5. Searching
  BY <1>4 DEF PathsKept, Judged
<1>6. \A p \in OpenNodes : nodes[BestNode].f <= nodes[p].f
  BY <1>4, BestIsCheapest DEF PathsKept
<1>7. Suits(BestNode)
  BY <1>4 DEF Exact
<1>8. found' \in Seen /\ Suits(found)' /\ \A p \in OpenNodes : nodes[found'].f <= nodes[p].f
  <2>1. Suits(found)'
    BY <1>1, <1>4, <1>7 DEF Suits, IsInRange, IsSightClear, SightLine, Shut
  <2>2. BestNode \in Seen
    BY <1>4, BestIsCheapest DEF PathsKept, OpenNodes
  <2> QED BY <1>4, <1>6, <2>1, <2>2
<1>9. Judged'
  BY <1>1, <1>2, <1>4, <1>5, <1>8 DEF Judged, Searching, TreeKept
<1> QED BY <1>2, <1>9 DEF PathsKept, TreeKept

\* A node is expanded: it was the cheapest, and is closed with all around it known.
LEMMA ExpandKept == PathsKept /\ Expand => PathsKept'
<1> SUFFICES ASSUME PathsKept, Expand  PROVE PathsKept'
  OBVIOUS
<1>0. PICK n \in Seen : n \in OpenNodes /\ n = BestNode
  BY BestIsCheapest DEF PathsKept, OpenNodes, Expand
<1>1. /\ OpenNodes # {} /\ search = "on" /\ ~Exact(n)
      /\ found' = IF Better(n, bestMatch) THEN n ELSE found
      /\ bestMatch' = IF Better(n, bestMatch) THEN TilesApart(n, target) ELSE bestMatch
      /\ search' = IF NoRoom(n) /\ found' = NoTile THEN "failed" ELSE "on"
      /\ nodes' = [Linked(n) EXCEPT ![n].open = FALSE]
      /\ refused' = (refused \/ NoRoom(n))
  BY <1>0 DEF Expand, MaySearchOn
<1>2. Fixed
  BY DEF Expand, Fixed
<1>3. n \in OpenNodes /\ n \in Seen
  BY <1>0
<1>4. Wanted /\ Graph /\ NoLoops /\ Searching /\ (~refused => OmittedKnown /\ ClosedCover)
  BY <1>1 DEF PathsKept, Judged
<1>5. Opened(n)
  BY <1>1, <1>3, <1>4, LinkedIs
<1>6. Wanted' /\ Graph' /\ NoLoops'
  BY <1>2, <1>3, <1>4, <1>5, FixedIs, GraphGrows
<1>7. ~refused' => OmittedKnown' /\ ClosedCover'
  BY <1>1, <1>2, <1>3, <1>4, <1>5, CoverGrows
<1>8. \A p \in Seen' \ OpenNodes' : p = n \/ p \in Seen \ OpenNodes
  <2> SUFFICES ASSUME NEW p \in Seen' \ OpenNodes'  PROVE p = n \/ p \in Seen \ OpenNodes
    OBVIOUS
  <2>1. p \in Seen \cup Reached(n) /\ nodes'[p].open # TRUE
    BY <1>5 DEF Opened, Seen, OpenNodes
  <2>2. p \in Seen /\ p \notin Reached(n)
    BY <1>5, <2>1 DEF Opened
  <2>3. nodes'[p].open = (nodes[p].open /\ p # n)
    BY <1>5, <2>2 DEF Opened
  <2> QED BY <2>1, <2>2, <2>3 DEF OpenNodes
<1>9. /\ target' = target /\ n \in Tiles /\ n # NoTile /\ target \in Tiles
      /\ \A p : Suits(p)' = Suits(p) /\ Exact(p)' = Exact(p)
  BY <1>2, <1>3, <1>4, FixedIs, TilesAre DEF Fixed, Graph, Wanted
<1>10. TilesApart(n, target) \in Nat /\ fpp.maxTargetDist \in Nat /\ bestMatch \in Nat
  BY <1>4, <1>9, TilesAre, DistanceIs DEF Searching, Wanted, Params
<1>11. Suits(n) => fpp.maxTargetDist # 1 /\ TilesApart(n, target) \in 1 .. fpp.maxTargetDist - 1
  BY <1>1, <1>4, <1>9, SuitedAre
<1>12. /\ \A p \in Seen \ OpenNodes : TilesApart(p, target) \in Nat
       /\ \A p \in Seen \ OpenNodes : Suits(p) => TilesApart(p, target) <= bestMatch
       /\ \A p \in Seen \ OpenNodes : ~Exact(p)
       /\ found = NoTile <=> bestMatch = 0
       /\ bestMatch # 0 => found \in Seen /\ Suits(found)
  <2>1. \A p \in Seen : p \in Int \X Int
    BY <1>4, TilesAre DEF Graph
  <2>2. \A p \in Seen : TilesApart(p, target) \in Nat
    BY <1>9, <2>1, TilesAre, DistanceIs
  <2> QED BY <1>4, <2>2 DEF Searching, BestOfClosed
<1> DEFINE t == TilesApart(n, target)
<1>b. Seen \subseteq Seen'
  BY <1>2, <1>4, <1>5, GraphGrows
<1>13. CASE Better(n, bestMatch)
  <2>1. Suits(n) /\ t > bestMatch /\ t \in Nat /\ bestMatch' = t /\ found' = n
    BY <1>1, <1>10, <1>13 DEF Better
  <2> HIDE DEF t
  <2>2. bestMatch' \in Nat /\ bestMatch' # 0 /\ found' # NoTile /\ Suits(found')
    BY <1>9, <1>10, <2>1
  <2>3. \A p \in Seen \ OpenNodes : Suits(p) => TilesApart(p, target) <= bestMatch'
    BY <1>10, <1>12, <2>1
  <2>4. Suits(n) => TilesApart(n, target) <= bestMatch'
    BY <2>1 DEF t
  <2>5. BestOfClosed'
    <3> SUFFICES ASSUME NEW p \in Seen' \ OpenNodes', Suits(p)  PROVE TilesApart(p, target) <= bestMatch'
      BY <1>9 DEF BestOfClosed
    <3> QED BY <1>8, <2>3, <2>4
  <2>6. \A p \in Seen' \ OpenNodes' : ~Exact(p)'
    BY <1>1, <1>8, <1>9, <1>12
  <2>8. found' \in Seen'
    BY <1>b, <2>1
  <2>7. Suits(found)'
    BY <1>2, <2>1 DEF Fixed, Suits, IsInRange, IsSightClear, SightLine, Shut
  <2> QED BY <1>1, <1>6, <1>7, <2>2, <2>5, <2>6, <2>7, <2>8 DEF PathsKept, Judged, Searching
<1>14. CASE ~Better(n, bestMatch)
  <2>1. bestMatch' = bestMatch /\ found' = found
    BY <1>1, <1>14
  <2>2. Suits(n) => t <= bestMatch
    BY <1>10, <1>11, <1>14 DEF Better
  <2> HIDE DEF t
  <2>3. BestOfClosed'
    <3> SUFFICES ASSUME NEW p \in Seen' \ OpenNodes', Suits(p)  PROVE TilesApart(p, target) <= bestMatch
      BY <1>9, <2>1 DEF BestOfClosed
    <3> QED BY <1>8, <1>12, <2>2 DEF t
  <2>4. \A p \in Seen' \ OpenNodes' : ~Exact(p)'
    BY <1>1, <1>8, <1>9, <1>12
  <2>5. bestMatch # 0 => found \in Seen' /\ Suits(found)'
    <3>1. Suits(found)' = Suits(found)
      BY <1>2, <2>1 DEF Fixed, Suits, IsInRange, IsSightClear, SightLine, Shut
    <3> QED BY <1>12, <1>b, <3>1
  <2>6. bestMatch \in Nat /\ (found = NoTile <=> bestMatch = 0)
    BY <1>10, <1>12
  <2>7. refused' => CutShort'
    BY DEF CutShort
  <2> QED BY <1>1, <1>6, <1>7, <2>1, <2>3, <2>4, <2>5, <2>6, <2>7 DEF PathsKept, Judged, Searching
<1> QED BY <1>13, <1>14

\* A step that changes nothing keeps it.
LEMMA StoppedKept == PathsKept /\ UNCHANGED pathVars => PathsKept'
<1> SUFFICES ASSUME PathsKept, UNCHANGED pathVars  PROVE PathsKept'
  OBVIOUS
<1>1. UNCHANGED <<ground, start, target, fpp, nodes, closedNodes, refused, bestMatch, found, search>> /\ Fixed
  BY DEF pathVars, Fixed
<1>2. TreeKept
  BY <1>1, TreeIsKept DEF PathsKept
<1>3. Searching => Searching'
  BY <1>1, <1>2 DEF TreeKept, Searching, BestOfClosed
<1>4. Judged'
  BY <1>1, <1>2, <1>3 DEF TreeKept, PathsKept, Judged
<1> QED BY <1>2, <1>4 DEF PathsKept, TreeKept

\* A way from the start, with what it costs up to each of its tiles.
Way(len, way, cost) ==
  /\ way \in [0 .. len -> Passable] /\ way[0] = start
  /\ cost \in [0 .. len -> Nat] /\ cost[0] = 0
  /\ \A k \in 1 .. len : Adjacent(way[k], way[k - 1]) /\ cost[k] = cost[k - 1] + StepCost(way[k - 1], way[k])

\* None that ends at a tile that suits is better than what is found.
NoBetterWay ==
  \A len \in Nat : \A way, cost : Way(len, way, cost) =>
    /\ search = "failed" => ~Suits(way[len])
    /\ search = "found" /\ bestMatch = 0 /\ Exact(way[len]) => nodes[found].f <= cost[len]
    /\ search = "found" /\ bestMatch # 0 /\ Suits(way[len]) => TilesApart(way[len], target) <= bestMatch

\* A way costs ever more.
LEMMA WaysGetDearer ==
  ASSUME NEW len \in Nat, NEW way, NEW cost, Way(len, way, cost)
  PROVE  \A k \in 0 .. len : cost[k] <= cost[len]
<1> DEFINE S == {j \in 0 .. len : \A k \in 0 .. len : k >= j => cost[k] <= cost[len]}
<1>1. S \in SUBSET Nat /\ len \in S
  <2>1. \A k \in 0 .. len : k >= len => k = len
    OBVIOUS
  <2> QED BY <2>1 DEF Way
<1> HIDE DEF S
<1>2. PICK j \in S : \A i \in S : j <= i
  BY <1>1, LeastOne
<1>3. j \in 0 .. len /\ \A k \in 0 .. len : k >= j => cost[k] <= cost[len]
  BY <1>2 DEF S
<1>4. j = 0
  <2> SUFFICES ASSUME j # 0  PROVE FALSE
    OBVIOUS
  <2>1. j \in 1 .. len /\ j - 1 \in 0 .. len
    BY <1>3
  <2>2. cost[j - 1] \in Nat /\ cost[j] \in Nat /\ cost[len] \in Nat /\ cost[j] = cost[j - 1] + StepCost(way[j - 1], way[j])
    BY <2>1 DEF Way
  <2>3. cost[j - 1] <= cost[len]
    BY <1>3, <2>1, <2>2, CostsArePositive
  <2>4. \A k \in 0 .. len : k >= j - 1 => k >= j \/ k = j - 1
    BY <2>1
  <2>5. j - 1 \in S
    BY <1>3, <2>1, <2>3, <2>4 DEF S
  <2> QED BY <1>2, <2>1, <2>5
<1> QED BY <1>3, <1>4

\* A way that meets no open node, or none as cheap as it is, leads from closed node to
\* closed node.
LEMMA WaysAreClosed ==
  ASSUME Graph, NoShortCut, NEW len \in Nat, NEW way, NEW cost, Way(len, way, cost),
         \A p \in OpenNodes : cost[len] < nodes[p].f
  PROVE  way[len] \in Seen \ OpenNodes
<1> DEFINE On(k) == way[k] \in Seen \ OpenNodes /\ nodes[way[k]].f <= cost[k]
           S == {k \in 0 .. len : ~On(k)}
<1>1. /\ \A p \in Seen : nodes[p].f \in Nat
      /\ \A k \in 0 .. len : way[k] \in Passable /\ cost[k] \in Nat
  BY DEF Graph, Node, Way
<1>2. ASSUME NEW k \in 0 .. len, way[k] \in Seen, nodes[way[k]].f <= cost[k]  PROVE On(k)
  <2>1. cost[k] <= cost[len]
    BY WaysGetDearer
  <2>2. ~(cost[len] < nodes[way[k]].f)
    BY <1>1, <1>2, <2>1
  <2> QED BY <1>2, <2>2
<1>3. On(0)
  <2>1. way[0] = start /\ cost[0] = 0 /\ start \in Seen /\ nodes[start].f = 0 /\ 0 \in 0 .. len
    BY DEF Way, Graph
  <2>2. way[0] \in Seen /\ nodes[way[0]].f <= cost[0]
    BY <2>1
  <2> QED BY <1>2, <2>1, <2>2
<1>4. ASSUME NEW k \in 1 .. len, On(k - 1)  PROVE On(k)
  <2>1. k - 1 \in 0 .. len /\ k \in 0 .. len
    OBVIOUS
  <2>2. Adjacent(way[k], way[k - 1]) /\ cost[k] = cost[k - 1] + StepCost(way[k - 1], way[k])
    BY DEF Way
  <2>3. way[k] \in Seen /\ nodes[way[k]].f <= nodes[way[k - 1]].f + StepCost(way[k - 1], way[k])
    BY <1>1, <1>4, <2>1, <2>2 DEF NoShortCut
  <2>4. nodes[way[k]].f <= cost[k]
    BY <1>1, <1>4, <2>1, <2>2, <2>3, CostsArePositive
  <2> QED BY <1>2, <2>1, <2>3, <2>4
<1> HIDE DEF On
<1>5. S = {}
  <2> SUFFICES ASSUME S # {}  PROVE FALSE
    OBVIOUS
  <2>1. S \in SUBSET Nat
    OBVIOUS
  <2> HIDE DEF S
  <2>2. PICK k \in S : \A i \in S : k <= i
    BY <2>1, LeastOne
  <2>3. k \in 0 .. len /\ ~On(k)
    BY <2>2 DEF S
  <2>4. k # 0
    BY <1>3, <2>3
  <2>5. k \in 1 .. len /\ k - 1 \in 0 .. len /\ ~(k <= k - 1)
    BY <2>3, <2>4
  <2>6. On(k - 1)
    BY <2>2, <2>5 DEF S
  <2> QED BY <1>4, <2>3, <2>5, <2>6
<1>6. On(len)
  BY <1>5
<1> QED BY <1>6 DEF On

\* So there is no better way.
LEMMA NoneIsBetter ==
  ASSUME Wanted, Graph, NoShortCut, FindsTheBest, Judged
  PROVE  NoBetterWay
<1> SUFFICES ASSUME NEW len \in Nat, NEW way, NEW cost, Way(len, way, cost)
             PROVE  /\ search = "failed" => ~Suits(way[len])
                    /\ search = "found" /\ bestMatch = 0 /\ Exact(way[len]) => nodes[found].f <= cost[len]
                    /\ search = "found" /\ bestMatch # 0 /\ Suits(way[len]) => TilesApart(way[len], target) <= bestMatch
  BY DEF NoBetterWay
<1>1. OpenNodes = {} => way[len] \in Seen \ OpenNodes
  BY WaysAreClosed
<1>2. search = "failed" => ~Suits(way[len])
  BY <1>1 DEF FindsTheBest
<1>3. search = "found" /\ bestMatch # 0 /\ Suits(way[len]) => TilesApart(way[len], target) <= bestMatch
  BY <1>1 DEF FindsTheBest
<1>4. ASSUME search = "found", bestMatch = 0, Exact(way[len])  PROVE nodes[found].f <= cost[len]
  <2> SUFFICES ASSUME ~(nodes[found].f <= cost[len])  PROVE FALSE
    OBVIOUS
  <2>1. found \in Seen /\ nodes[found].f \in Nat /\ cost[len] \in Nat /\ \A p \in OpenNodes : nodes[p].f \in Nat
    BY <1>4 DEF Judged, Graph, Node, Way, OpenNodes
  <2>2. \A p \in OpenNodes : cost[len] < nodes[p].f
    BY <1>4, <2>1 DEF FindsTheBest
  <2>3. way[len] \in Seen \ OpenNodes
    BY <2>2, WaysAreClosed
  <2> QED BY <1>4, <2>3 DEF FindsTheBest
<1> QED BY <1>2, <1>3, <1>4

\* Whoever goes from node to parent comes to the start, whatever is found: no set of nodes
\* that holds the parents of its nodes leaves it out.
LeadBack ==
  /\ Seen \subseteq Passable
  /\ \A p \in Seen \ {start} : nodes[p].parent \in Seen /\ Adjacent(p, nodes[p].parent)
  /\ \A S \in SUBSET Seen : S # {} /\ (\A p \in S \ {start} : nodes[p].parent \in S) => start \in S
  /\ search = "found" => found \in Seen /\ Suits(found)

\* The parents lead back because each is cheaper.
LEMMA AllLeadBack == PathsKept => LeadBack
<1> SUFFICES ASSUME PathsKept  PROVE LeadBack
  OBVIOUS
<1>1. search = "found" => found \in Seen /\ Suits(found)
  BY DEF PathsKept, Judged, Searching
<1>2. ASSUME NEW S \in SUBSET Seen, S # {}, \A p \in S \ {start} : nodes[p].parent \in S
      PROVE  start \in S
  <2>1. \A p \in S : nodes[p].f \in Nat
    BY DEF PathsKept, Graph, Node
  <2> DEFINE costs == {nodes[p].f : p \in S}
  <2>2. PICK low \in costs : \A k \in costs : low <= k
    <3>1. costs \in SUBSET Nat /\ costs # {}
      BY <1>2, <2>1
    <3> HIDE DEF costs
    <3> QED BY <3>1, LeastOne
  <2>3. PICK p \in S : nodes[p].f = low
    BY <2>2
  <2> SUFFICES ASSUME start \notin S  PROVE FALSE
    OBVIOUS
  <2> DEFINE m == nodes[p].parent
  <2>4. p \in Seen \ {start} /\ m \in S
    BY <1>2, <2>3
  <2>5. nodes[m].f + StepCost(m, p) <= nodes[p].f
    BY <2>4 DEF PathsKept, NoLoops
  <2>6. low <= nodes[m].f
    BY <2>2, <2>4
  <2> HIDE DEF m
  <2>7. nodes[m].f \in Nat /\ nodes[p].f \in Nat /\ StepCost(m, p) \in Nat /\ StepCost(m, p) >= 10
    BY <2>1, <2>3, <2>4, CostsArePositive
  <2> QED BY <2>3, <2>5, <2>6, <2>7
<1> QED BY <1>1, <1>2 DEF LeadBack, PathsKept, Graph

\* The invariant holds of every search.
LEMMA PathsAreKept == PathsSpec => []PathsKept
<1>1. PathsInit => PathsKept
  BY PathsInitKept
<1>2. PathsKept /\ [PathsNext]_pathVars => PathsKept'
  <2>1. PathsKept /\ PathsNext => PathsKept'
    BY GiveUpKept, ReachedItKept, ExpandKept DEF PathsNext
  <2>2. PathsKept /\ UNCHANGED pathVars => PathsKept'
    BY StoppedKept
  <2> QED BY <2>1, <2>2
<1> QED BY <1>1, <1>2, PTL DEF PathsSpec

\* A search that is not cut short misses no shorter way, and finds the best.
LEMMA BestIsFound == PathsKept /\ ~CutShort => NoShortCut /\ FindsTheBest
<1> SUFFICES ASSUME PathsKept, ~CutShort  PROVE NoShortCut /\ FindsTheBest
  OBVIOUS
<1>1. NoShortCut
  <2>1. ClosedCover
    BY DEF PathsKept, CutShort
  <2> QED BY <2>1 DEF ClosedCover, Covers, NoShortCut
<1>2. ASSUME search = "failed"  PROVE OpenNodes = {} /\ \A p \in Seen : ~Suits(p)
  <2>1. OpenNodes = {} /\ bestMatch = 0 /\ Searching
    BY <1>2 DEF PathsKept, Judged
  <2> SUFFICES ASSUME NEW p \in Seen, Suits(p)  PROVE FALSE
    BY <2>1
  <2>2. TilesApart(p, target) <= 0
    BY <2>1 DEF Searching, BestOfClosed
  <2>3. p \in Tiles
    BY TilesAre DEF PathsKept, Graph
  <2>4. TilesApart(p, target) \in 1 .. fpp.maxTargetDist - 1
    BY <2>1, <2>3, SuitedAre DEF PathsKept, Searching
  <2> QED BY <2>2, <2>4
<1>3. ASSUME search = "found", bestMatch = 0
      PROVE  (\A p \in OpenNodes : nodes[found].f <= nodes[p].f) /\ (\A p \in Seen \ OpenNodes : ~Exact(p))
  BY <1>3 DEF PathsKept, Judged
<1>4. ASSUME search = "found", bestMatch # 0
      PROVE  OpenNodes = {} /\ \A p \in Seen : Suits(p) => TilesApart(p, target) <= bestMatch
  <2>1. OpenNodes = {} /\ Searching
    BY <1>4 DEF PathsKept, Judged
  <2> QED BY <2>1 DEF Searching, BestOfClosed
<1>5. FindsTheBest
  BY <1>2, <1>3, <1>4 DEF FindsTheBest
<1> QED BY <1>1, <1>5

\* Theorem: the nodes of a search are tiles that can be walked on, each beside the one it
\* was reached from and reached at no less cost than by way of that, so that from each the
\* parents lead to the start; and what is found suits.
THEOREM WaysCanBeWalked == PathsSpec => [](NoLoops /\ LeadBack)
<1>1. PathsKept => NoLoops /\ LeadBack
  BY AllLeadBack DEF PathsKept
<1> QED BY <1>1, PathsAreKept, PTL

\* Theorem: though a node does not look at the neighbours that lie behind it, a search that
\* is not cut short misses none of them and no shorter way.  If it fails, no way leads to a
\* tile that suits; if it finds one that is exactly right, no way to another such tile is
\* cheaper; and if it takes the best there is, no way leads to one that is farther from the
\* target.
THEOREM WaysAreBest == PathsSpec => [](~CutShort => NoShortCut /\ FindsTheBest /\ NoBetterWay)
<1>1. PathsKept /\ ~CutShort => NoShortCut /\ FindsTheBest /\ NoBetterWay
  BY BestIsFound, NoneIsBetter DEF PathsKept
<1> QED BY <1>1, PathsAreKept, PTL

-----------------------------------------------------------------------------
(* The way that is found, node by node.                                    *)

\* What is true at first and stays true step by step is true throughout.
LEMMA Upwards ==
  ASSUME NEW N \in Nat, NEW P, 0 \in P, \A n \in 0..(N - 1) : n \in P => n + 1 \in P
  PROVE  \A n \in 0..N : n \in P
<1> DEFINE bad == {n \in 0..N : n \notin P}
<1>1. SUFFICES ASSUME bad # {}  PROVE FALSE
  OBVIOUS
<1>2. PICK least \in bad : \A k \in bad : least <= k
  <2>1. bad \in SUBSET Nat
    OBVIOUS
  <2> HIDE DEF bad
  <2> QED BY <1>1, <2>1, LeastOne
<1>3. least # 0 /\ least - 1 \in 0..(N - 1) /\ (least - 1) + 1 = least
  BY <1>2
<1>4. least - 1 \in P
  BY <1>2, <1>3
<1> QED BY <1>2, <1>3, <1>4

\* The last number of a set of numbers up to a bound is in it, and no other is greater.
LEMMA LastOne ==
  ASSUME NEW N \in Nat, NEW s \in SUBSET (1..N), s # {}
  PROVE  Max(s) \in s /\ \A k \in s : Max(s) >= k
<1> DEFINE under == {N - k : k \in s}
<1>1. under \in SUBSET Nat /\ under # {}
  <2>1. \A k \in s : N - k \in Nat
    OBVIOUS
  <2> QED BY <2>1
<1>2. PICK least \in under : \A d \in under : least <= d
  <2> HIDE DEF under
  <2> QED BY <1>1, LeastOne
<1>3. PICK k \in s : least = N - k
  BY <1>2
<1>4. \A j \in s : k >= j
  <2> SUFFICES ASSUME NEW j \in s  PROVE k >= j
    OBVIOUS
  <2>1. least <= N - j
    BY <1>2
  <2> QED BY <1>3, <2>1
<1> QED BY <1>3, <1>4 DEF Max

\* From a node to the one it was reached from.
Back(p) == IF p = start THEN p ELSE nodes[p].parent
Onward(way) == Append(way, Back(Last(way)))

\* A chain of nodes, as it grows.
IsChain(g, p) ==
  /\ g[0] = <<p>>
  /\ \A n \in 0..(Cardinality(Seen) - 1) : g[n + 1] = Onward(g[n])
  /\ Chain(p) = g[Cardinality(Seen)]

\* Every chain does so.
LEMMA ChainGrows ==
  ASSUME NEW p, IsFiniteSet(Seen)
  PROVE  \E g : IsChain(g, p)
<1> DEFINE N == Cardinality(Seen)
           T == 1..N
           base == <<p>>
           right(f, s) == f[s] = IF s = {} THEN base ELSE Onward(f[s \ {Max(s)}])
           upto(n) == \E f : f = [s \in SUBSET T |-> f[s]] /\ \A s \in SUBSET T : Cardinality(s) <= n => right(f, s)
           eq(f) == f = [s \in SUBSET T |-> IF s = {} THEN base ELSE Onward(f[s \ {Max(s)}])]
           all == CHOOSE f : eq(f)
<1>1. N \in Nat /\ IsFiniteSet(T) /\ Cardinality(T) = N
  <2>1. N \in Nat
    BY FS_CardinalityType
  <2> HIDE DEF N
  <2>2. 1 \in Int /\ N \in Int /\ (1 > N => N = 0) /\ N - 1 + 1 = N
    BY <2>1
  <2>3. IsFiniteSet(1..N) /\ Cardinality(1..N) = IF 1 > N THEN 0 ELSE N - 1 + 1
    BY <2>2, FS_Interval
  <2> QED BY <2>1, <2>2, <2>3
<1> HIDE DEF T, N, base
<1>2. \A s \in SUBSET T : IsFiniteSet(s) /\ Cardinality(s) \in Nat /\ Cardinality(s) <= N
  BY <1>1, FS_Subset, FS_CardinalityType
<1>3. \A s \in SUBSET T : s # {} => Max(s) \in s
  BY <1>1, LastOne DEF T
<1>4. \A s \in SUBSET T : s # {} => s \ {Max(s)} \in SUBSET T /\ Cardinality(s \ {Max(s)}) = Cardinality(s) - 1
  BY <1>2, <1>3, FS_RemoveElement
<1>5. \A s \in SUBSET T : Cardinality(s) = 0 <=> s = {}
  BY <1>2, FS_EmptySet
<1>6. upto(0)
  <2> DEFINE f == [s \in SUBSET T |-> base]
  <2>1. f = [s \in SUBSET T |-> f[s]]
    OBVIOUS
  <2>2. \A s \in SUBSET T : Cardinality(s) <= 0 => s = {}
    BY <1>2, <1>5
  <2>3. \A s \in SUBSET T : Cardinality(s) <= 0 => right(f, s)
    BY <2>2
  <2> HIDE DEF f, right
  <2> QED BY <2>1, <2>3
<1>7. ASSUME NEW n \in Nat, upto(n)  PROVE upto(n + 1)
  <2>1. PICK f : f = [s \in SUBSET T |-> f[s]] /\ \A s \in SUBSET T : Cardinality(s) <= n => right(f, s)
    BY <1>7
  <2> DEFINE g == [s \in SUBSET T |-> IF Cardinality(s) <= n THEN f[s] ELSE Onward(f[s \ {Max(s)}])]
  <2>2. g = [s \in SUBSET T |-> g[s]]
    OBVIOUS
  <2>3. ASSUME NEW s \in SUBSET T, Cardinality(s) <= n + 1  PROVE right(g, s)
    <3>1. s # {} => s \ {Max(s)} \in SUBSET T /\ Cardinality(s \ {Max(s)}) <= n
      BY <1>2, <1>4, <2>3
    <3>2. s # {} => g[s \ {Max(s)}] = f[s \ {Max(s)}]
      BY <3>1
    <3>3. CASE Cardinality(s) <= n
      <4>1. g[s] = f[s] /\ right(f, s)
        BY <2>1, <3>3
      <4> HIDE DEF g
      <4> QED BY <3>2, <4>1
    <3>4. CASE ~(Cardinality(s) <= n)
      <4>1. s # {}
        BY <1>2, <1>5, <3>4
      <4>2. g[s] = Onward(f[s \ {Max(s)}])
        BY <3>4
      <4> HIDE DEF g
      <4> QED BY <3>2, <4>1, <4>2
    <3> QED BY <3>3, <3>4
  <2> HIDE DEF g, right
  <2> QED BY <2>2, <2>3
<1>8. upto(N)
  <2> HIDE DEF upto
  <2> DEFINE P == {n \in Nat : upto(n)}
  <2>1. 0 \in P
    BY <1>6
  <2>2. \A n \in 0..(N - 1) : n \in P => n + 1 \in P
    BY <1>7
  <2>3. N \in 0..N
    BY <1>1
  <2> HIDE DEF P
  <2>4. \A n \in 0..N : n \in P
    BY <1>1, <2>1, <2>2, Upwards
  <2> QED BY <2>3, <2>4 DEF P
<1>9. PICK f : f = [s \in SUBSET T |-> f[s]] /\ \A s \in SUBSET T : right(f, s)
  <2>1. PICK f : f = [s \in SUBSET T |-> f[s]] /\ \A s \in SUBSET T : Cardinality(s) <= N => right(f, s)
    BY <1>8
  <2> QED BY <1>2, <2>1
<1>10. eq(f)
  BY <1>9
<1>11. eq(all)
  <2> HIDE DEF eq
  <2> QED BY <1>10
<1>12. Chain(p) = all[T]
  <2>1. DOMAIN [k \in 1..N |-> k] = T
    BY DEF T
  <2> QED BY <1>1, <2>1 DEF Chain, Repeated, Onward, Back, FoldLeft, MapThenFoldSet, base, T, N
<1> HIDE DEF all
<1>13. \A s \in SUBSET T : right(all, s)
  BY <1>11
<1> DEFINE g == [n \in 0..N |-> all[1..n]]
<1>14. g[0] = base
  <2>1. 1..0 = {}
    OBVIOUS
  <2>2. {} \in SUBSET T /\ 0 \in 0..N
    BY <1>1
  <2>3. all[{}] = base
    BY <1>13, <2>2
  <2> QED BY <2>1, <2>2, <2>3
<1>15. ASSUME NEW n \in 0..(N - 1)  PROVE g[n + 1] = Onward(g[n])
  <2>0. n \in Nat /\ n + 1 \in 1..N /\ N \in Nat
    BY <1>1
  <2>1. 1..(n + 1) \in SUBSET T /\ 1..(n + 1) # {} /\ n + 1 \in 0..N /\ n \in 0..N /\ n + 1 \in 1..(n + 1)
    <3>1. n + 1 \in 1..(n + 1) /\ n + 1 \in 0..N /\ n \in 0..N
      BY <2>0
    <3>2. \A k \in 1..(n + 1) : k \in 1..N
      BY <2>0
    <3> QED BY <3>1, <3>2 DEF T
  <2>2. (1..(n + 1)) \ {n + 1} = 1..n
    BY <2>0
  <2>3. Max(1..(n + 1)) = n + 1
    <3> DEFINE m == Max(1..(n + 1))
    <3>1. n + 1 \in Nat /\ 1..(n + 1) \in SUBSET (1..(n + 1))
      BY <2>0
    <3>2. m \in 1..(n + 1) /\ \A k \in 1..(n + 1) : m >= k
      BY <2>1, <3>1, LastOne
    <3> HIDE DEF m
    <3>3. m = n + 1
      BY <2>1, <3>1, <3>2
    <3> QED BY <3>3 DEF m
  <2>4. all[1..(n + 1)] = Onward(all[(1..(n + 1)) \ {Max(1..(n + 1))}])
    BY <1>13, <2>1
  <2>5. all[1..(n + 1)] = Onward(all[1..n])
    BY <2>2, <2>3, <2>4
  <2>6. g[n + 1] = all[1..(n + 1)] /\ g[n] = all[1..n]
    BY <2>1
  <2> HIDE DEF g
  <2> QED BY <2>5, <2>6
<1>16. g[N] = all[T]
  BY <1>1 DEF T
<1> HIDE DEF g
<1> QED BY <1>12, <1>14, <1>15, <1>16 DEF N, base, IsChain

\* The chain of a node is as long as there are nodes, and goes from node to parent.
LEMMA ChainIs ==
  ASSUME PathsKept, NEW p \in Seen
  PROVE  /\ Chain(p) \in Seq(Seen) /\ Len(Chain(p)) = Cardinality(Seen) + 1 /\ Chain(p)[1] = p
         /\ \A k \in 1..Cardinality(Seen) : Chain(p)[k + 1] = Back(Chain(p)[k])
<1> DEFINE N == Cardinality(Seen)
           good(xs, k) == /\ xs \in Seq(Seen) /\ Len(xs) = k + 1 /\ xs[1] = p
                          /\ \A j \in 1..k : xs[j + 1] = Back(xs[j])
<1>1. IsFiniteSet(Seen) /\ N \in Nat
  BY FS_CardinalityType DEF PathsKept, Graph
<1>2. PICK g : IsChain(g, p)
  BY <1>1, ChainGrows
<1>3. \A q \in Seen : Back(q) \in Seen
  BY DEF PathsKept, Graph, Back
<1> HIDE DEF N
<1>4. good(g[0], 0)
  <2>1. g[0] = <<p>>
    BY <1>2 DEF IsChain
  <2> QED BY <2>1
<1>5. ASSUME NEW k \in 0..(N - 1), good(g[k], k)  PROVE good(g[k + 1], k + 1)
  <2> DEFINE xs == g[k]
             y == Back(xs[k + 1])
             ys == Append(xs, y)
  <2>1. k \in Nat /\ xs \in Seq(Seen) /\ Len(xs) = k + 1 /\ xs[1] = p /\ \A j \in 1..k : xs[j + 1] = Back(xs[j])
    <3>1. k \in Nat
      BY <1>1
    <3>2. good(xs, k)
      BY <1>5
    <3> HIDE DEF xs, y, ys
    <3> QED BY <3>1, <3>2
  <2>2. g[k + 1] = Onward(xs)
    BY <1>2 DEF IsChain, N
  <2>3. g[k + 1] = ys
    BY <2>1, <2>2 DEF Onward, Last
  <2> HIDE DEF xs
  <2>4. k + 1 \in 1..Len(xs) /\ xs[k + 1] \in Seen
    BY <2>1
  <2>5. y \in Seen
    BY <1>3, <2>4
  <2>6. y = Back(xs[k + 1])
    OBVIOUS
  <2> HIDE DEF y
  <2>7. ys \in Seq(Seen) /\ Len(ys) = k + 2 /\ ys[k + 2] = y /\ \A j \in 1..(k + 1) : ys[j] = xs[j]
    BY <2>1, <2>5
  <2> HIDE DEF ys
  <2>8. ASSUME NEW j \in 1..(k + 1)  PROVE ys[j + 1] = Back(ys[j])
    <3>1. CASE j = k + 1
      BY <2>1, <2>6, <2>7, <3>1
    <3>2. CASE j \in 1..k
      <4>1. j \in 1..(k + 1) /\ j + 1 \in 1..(k + 1)
        BY <2>1, <3>2
      <4> QED BY <2>1, <2>7, <3>2, <4>1
    <3> QED BY <2>1, <3>1, <3>2
  <2>9. ys[1] = p /\ Len(ys) = (k + 1) + 1
    BY <2>1, <2>7
  <2> QED BY <2>3, <2>7, <2>8, <2>9
<1> HIDE DEF good
<1>6. good(g[N], N)
  <2> DEFINE P == {k \in Nat : good(g[k], k)}
  <2>1. 0 \in P
    BY <1>4
  <2>2. \A k \in 0..(N - 1) : k \in P => k + 1 \in P
    BY <1>5
  <2>3. N \in 0..N
    BY <1>1
  <2> HIDE DEF P
  <2>4. \A k \in 0..N : k \in P
    BY <1>1, <2>1, <2>2, Upwards
  <2> QED BY <2>3, <2>4 DEF P
<1>7. Chain(p) = g[N]
  BY <1>2 DEF IsChain, N
<1> QED BY <1>6, <1>7 DEF good, N

\* The chain of a node ends at the start: until it is there it becomes cheaper, and there
\* are not so many nodes.
LEMMA ChainEnds ==
  ASSUME PathsKept, NEW p \in Seen
  PROVE  Last(Chain(p)) = start
<1> DEFINE N == Cardinality(Seen)
           way == Chain(p)
<1>1. IsFiniteSet(Seen) /\ N \in Nat
  BY FS_CardinalityType DEF PathsKept, Graph
<1>2. way \in Seq(Seen) /\ Len(way) = N + 1 /\ \A k \in 1..N : way[k + 1] = Back(way[k])
  BY ChainIs
<1>3. Last(way) = way[N + 1]
  BY <1>2 DEF Last
<1> HIDE DEF way, N
<1>4. SUFFICES ASSUME way[N + 1] # start  PROVE FALSE
  BY <1>3 DEF way
<1>5. \A k \in 1..(N + 1) : way[k] \in Seen
  BY <1>1, <1>2
<1>6. \A k \in 1..(N + 1) : way[k] # start
  <2> DEFINE P == {d \in 0..N : way[N + 1 - d] # start}
  <2>1. 0 \in P
    BY <1>1, <1>4
  <2>2. ASSUME NEW d \in 0..(N - 1), d \in P  PROVE d + 1 \in P
    <3> DEFINE k == N - d
    <3>1. k \in 1..N /\ N + 1 - (d + 1) = k /\ N + 1 - d = k + 1 /\ d + 1 \in 0..N
      BY <1>1
    <3>2. way[k + 1] # start /\ way[k + 1] = Back(way[k])
      BY <1>2, <2>2, <3>1
    <3>3. way[k] # start
      BY <3>2 DEF Back
    <3> QED BY <3>1, <3>3
  <2> HIDE DEF P
  <2>3. \A d \in 0..N : d \in P
    BY <1>1, <2>1, <2>2, Upwards
  <2>4. ASSUME NEW k \in 1..(N + 1)  PROVE way[k] # start
    <3>1. N + 1 - k \in 0..N /\ N + 1 - (N + 1 - k) = k
      BY <1>1
    <3> QED BY <2>3, <3>1 DEF P
  <2> QED BY <2>4
<1> DEFINE cost(k) == nodes[way[k]].f
<1>7. \A k \in 1..(N + 1) : cost(k) \in Nat
  BY <1>5 DEF PathsKept, Graph, Node
<1>8. \A k \in 1..N : cost(k + 1) < cost(k)
  <2> SUFFICES ASSUME NEW k \in 1..N  PROVE cost(k + 1) < cost(k)
    OBVIOUS
  <2> DEFINE q == way[k]
             m == nodes[q].parent
  <2>1. k \in 1..(N + 1) /\ k + 1 \in 1..(N + 1)
    BY <1>1
  <2>2. q \in Seen \ {start} /\ way[k + 1] = m
    BY <1>2, <1>5, <1>6, <2>1 DEF Back
  <2>3. nodes[m].f + StepCost(m, q) <= nodes[q].f
    BY <2>2 DEF PathsKept, NoLoops
  <2>4. nodes[m].f \in Nat /\ nodes[q].f \in Nat
    BY <1>7, <2>1, <2>2
  <2> HIDE DEF m, q
  <2>5. StepCost(m, q) \in Nat /\ StepCost(m, q) >= 10
    BY CostsArePositive
  <2>6. nodes[m].f < nodes[q].f
    BY <2>3, <2>4, <2>5
  <2> QED BY <2>2, <2>6 DEF q
<1> HIDE DEF cost
<1>9. ASSUME NEW i \in 1..(N + 1), NEW j \in 1..(N + 1), i < j  PROVE cost(j) < cost(i)
  <2> DEFINE M == j - i - 1
             P == {d \in 0..M : cost(i + 1 + d) < cost(i)}
  <2>1. M \in Nat /\ i \in 1..N /\ i + 1 + M = j
    BY <1>1, <1>9
  <2>2. 0 \in P
    <3>1. i + 1 + 0 = i + 1 /\ 0 \in 0..M
      BY <2>1
    <3> QED BY <1>8, <2>1, <3>1
  <2>3. ASSUME NEW d \in 0..(M - 1), d \in P  PROVE d + 1 \in P
    <3> DEFINE k == i + 1 + d
    <3>1. k \in 1..N /\ k \in 1..(N + 1) /\ k + 1 \in 1..(N + 1) /\ i + 1 + (d + 1) = k + 1 /\ d + 1 \in 0..M
      BY <1>1, <1>9, <2>1
    <3>2. cost(k) < cost(i) /\ cost(k + 1) < cost(k)
      BY <1>8, <2>3, <3>1
    <3>3. cost(k) \in Nat /\ cost(k + 1) \in Nat /\ cost(i) \in Nat
      BY <1>7, <3>1
    <3>4. cost(k + 1) < cost(i)
      BY <3>2, <3>3
    <3> QED BY <3>1, <3>4
  <2>4. M \in 0..M
    BY <2>1
  <2> HIDE DEF P, M
  <2>5. \A d \in 0..M : d \in P
    BY <2>1, <2>2, <2>3, Upwards
  <2> QED BY <2>1, <2>4, <2>5 DEF P
<1>10. way \in [1..(N + 1) -> Seen]
  BY <1>1, <1>2
<1>11. IsFiniteSet(1..(N + 1)) /\ Cardinality(1..(N + 1)) = N + 1
  <2>1. 1 \in Int /\ N + 1 \in Int /\ ~(1 > N + 1) /\ (N + 1) - 1 + 1 = N + 1
    BY <1>1
  <2> QED BY <2>1, FS_Interval
<1>12. Cardinality(Seen) < Cardinality(1..(N + 1))
  BY <1>1, <1>11 DEF N
<1>13. PICK i \in 1..(N + 1), j \in 1..(N + 1) : i # j /\ way[i] = way[j]
  BY <1>1, <1>10, <1>11, <1>12, FS_PigeonHole
<1>14. cost(i) = cost(j)
  BY <1>13 DEF cost
<1>15. cost(i) \in Nat /\ cost(j) \in Nat /\ (i < j \/ j < i)
  BY <1>1, <1>7, <1>13
<1> QED BY <1>9, <1>14, <1>15

\* What is found is a way, from tile to neighbouring tile.
LEMMA FoundIsWalkable == PathsKept => Walkable
<1> SUFFICES ASSUME PathsKept, search = "found"
             PROVE  /\ Last(Chain(found)) = start
                    /\ \A k \in 1 .. Len(Chain(found)) - 1 :
                         /\ Chain(found)[k] \in Passable
                         /\ Chain(found)[k] = Chain(found)[k + 1] \/ Adjacent(Chain(found)[k], Chain(found)[k + 1])
                    /\ Suits(found)
  BY DEF Walkable
<1> DEFINE way == Chain(found)
           N == Cardinality(Seen)
<1>1. found \in Seen /\ Suits(found)
  BY DEF PathsKept, Judged, Searching
<1>2. N \in Nat /\ Seen \subseteq Passable
  BY FS_CardinalityType DEF PathsKept, Graph
<1>3. way \in Seq(Seen) /\ Len(way) = N + 1 /\ \A k \in 1..N : way[k + 1] = Back(way[k])
  BY <1>1, ChainIs
<1>4. Last(way) = start
  BY <1>1, ChainEnds
<1> HIDE DEF way, N
<1>5. ASSUME NEW k \in 1 .. Len(way) - 1
      PROVE  way[k] \in Passable /\ (way[k] = way[k + 1] \/ Adjacent(way[k], way[k + 1]))
  <2>1. k \in 1..N /\ k \in 1..Len(way)
    BY <1>2, <1>3
  <2>2. way[k] \in Seen /\ way[k + 1] = Back(way[k])
    BY <1>3, <2>1
  <2>3. \A q \in Seen \ {start} : Adjacent(q, nodes[q].parent)
    BY DEF PathsKept, Graph
  <2> QED BY <1>2, <2>2, <2>3 DEF Back
<1> QED BY <1>1, <1>4, <1>5 DEF way

\* Theorem: whatever a search finds is a way back to the start, over tiles that can be
\* walked on, and the best one unless the search was cut short (map.cpp getPathMatching).
THEOREM WaysAreRight == PathsSpec => []PathsRight
<1>1. PathsKept => PathsRight
  BY FoundIsWalkable, BestIsFound DEF PathsKept, PathsRight
<1> QED BY <1>1, PathsAreKept, PTL
=============================================================================
