------------------------------- MODULE Spawns -------------------------------
(***************************************************************************)
(* One spawn of the map (spawn.cpp): a set of places, each with the        *)
(* monster that stands for it, and one scheduler event that looks after    *)
(* them.  The event exists only while a place is empty: checkSpawn arms    *)
(* itself again as long as a monster is missing, and a monster that dies   *)
(* arms it when it is not armed.                                           *)
(*                                                                         *)
(* The time between two spawns of a place is abstracted: Ripen lets it     *)
(* pass.  The event has a stage because stopEvent reaches an event that    *)
(* waits in the scheduler and no longer one that waits in the dispatcher.  *)
(***************************************************************************)
EXTENDS Integers, FiniteSets

CONSTANTS Place,        \* the spawn ids of spawnMap
          Losses        \* bound: monsters that die or are convinced

ASSUME SpawnAssumption == Losses \in Nat

VARIABLES
  spawned,   \* spawnedMap: place -> "none", "alive" or "removed" (the entry of
             \* a monster that is gone from the map)
  ripe,      \* the places whose interval has passed since lastSpawn
  check,     \* checkSpawnEvent: "none", "armed" or "queued" at the dispatcher
  open,      \* places with room and no player who would see the monster appear
  refs,      \* place -> references the spawn holds on the monster it lists
  stray,     \* places without monster that nobody told the event about
  spawnsUp,  \* Spawns::started, "down" before and "ended" after Spawns::clear
  losses

spawnVars == <<spawned, ripe, check, open, refs, stray, spawnsUp, losses>>

SpawnsInit ==
  /\ spawned = [p \in Place |-> "none"]
  /\ ripe = Place
  /\ check = "none"
  /\ open \in SUBSET Place
  /\ refs = [p \in Place |-> 0]
  /\ stray = {}
  /\ spawnsUp = "down"
  /\ losses = 0

Listed == {p \in Place : spawned[p] # "none"}

\* Spawn::startup: a monster for every place that has room; findPlayer is not
\* asked.  A place where the monster could not be put stays empty, unannounced.
Startup ==
  /\ spawnsUp = "down"
  /\ \E room \in SUBSET Place :
       /\ open \subseteq room
       /\ spawned' = [p \in Place |-> IF p \in room THEN "alive" ELSE "none"]
       /\ refs' = [p \in Place |-> IF p \in room THEN 1 ELSE 0]
       /\ ripe' = Place \ room
       /\ stray' = Place \ room
  /\ spawnsUp' = "up"
  /\ UNCHANGED <<check, open, losses>>

\* Mutant: the event is only armed when the last monster of the spawn is gone.
StartSpawnCheck_WhenAllGone ==
  IF check = "none" /\ Cardinality({q \in Place : spawned[q] = "alive"}) <= 1
  THEN "armed" ELSE check

\* Spawn::startSpawnCheck
StartSpawnCheck == IF check = "none" THEN "armed" ELSE check

\* A monster leaves the map: Monster::onRemoveCreature of itself.
Dies(p) ==
  /\ losses < Losses /\ spawned[p] = "alive"
  /\ spawned' = [spawned EXCEPT ![p] = "removed"]
  /\ check' = StartSpawnCheck
  /\ losses' = losses + 1
  /\ UNCHANGED <<ripe, open, refs, stray, spawnsUp>>

\* Spawn::removeMonster, from Monster::convinceCreature: the place is free and
\* the event is not armed for it.
Convinced(p) ==
  /\ losses < Losses /\ spawned[p] = "alive"
  /\ spawned' = [spawned EXCEPT ![p] = "none"]
  /\ refs' = [refs EXCEPT ![p] = 0]
  /\ stray' = stray \cup {p}
  /\ losses' = losses + 1
  /\ UNCHANGED <<ripe, check, open, spawnsUp>>

\* The scheduler hands the event to the dispatcher.
Due ==
  /\ check = "armed"
  /\ check' = "queued"
  /\ UNCHANGED <<spawned, ripe, open, refs, stray, spawnsUp, losses>>

Swept == {p \in Place : spawned[p] = "removed"}      \* Spawn::cleanup erases these

\* The event is wanted while a place is empty.
Rearms(missing) == missing # {}

\* Spawn::checkSpawn: cleanup restarts the interval of the places it empties,
\* so only the others may be filled now; where a player would see it or there
\* is no room, the place stays empty.  It restarts the interval in the first
\* case; the model lets either happen.
CheckSpawn ==
  /\ check = "queued" /\ spawnsUp = "up"
  /\ LET missing == Place \ (Listed \ Swept)
         due     == (missing \ Swept) \cap ripe
         filled  == due \cap open
     IN /\ spawned' = [p \in Place |-> IF p \in filled THEN "alive"
                                       ELSE IF p \in Swept THEN "none" ELSE spawned[p]]
        /\ refs' = [p \in Place |-> IF p \in filled THEN 1
                                    ELSE IF p \in Swept THEN refs[p] - 1 ELSE refs[p]]
        /\ \E seen \in SUBSET (due \ open) : ripe' = ripe \ (Swept \cup filled \cup seen)
        /\ check' = IF Rearms(missing \ filled) THEN "armed" ELSE "none"
        /\ stray' = IF Rearms(missing \ filled) THEN {} ELSE stray \ filled
  /\ UNCHANGED <<open, spawnsUp, losses>>

Ripen(p) ==
  /\ p \notin ripe
  /\ ripe' = ripe \cup {p}
  /\ UNCHANGED <<spawned, check, open, refs, stray, spawnsUp, losses>>

\* Players come and go.
Move(p) ==
  /\ open' = (open \ {p}) \cup ({p} \ open)
  /\ UNCHANGED <<spawned, ripe, check, refs, stray, spawnsUp, losses>>

\* Spawns::clear when the server stops: Spawn::stopEvent, then the destructor
\* gives the references back.  The dispatcher has been told to stop and runs no
\* task after this one.
Clear ==
  /\ spawnsUp = "up"
  /\ spawnsUp' = "ended"
  /\ check' = IF check = "armed" THEN "none" ELSE check
  /\ spawned' = [p \in Place |-> "none"]
  /\ refs' = [p \in Place |-> IF p \in Listed THEN refs[p] - 1 ELSE refs[p]]
  /\ UNCHANGED <<ripe, open, stray, losses>>

SpawnsNext ==
  \/ Startup \/ Due \/ CheckSpawn \/ Clear
  \/ \E p \in Place : Dies(p) \/ Convinced(p) \/ Ripen(p) \/ Move(p)

\* The scheduler and the dispatcher run what is due, and time passes.
SpawnsFairness ==
  /\ WF_spawnVars(Due) /\ WF_spawnVars(CheckSpawn)
  /\ \A p \in Place : WF_spawnVars(Ripen(p))

SpawnsSpec == SpawnsInit /\ [][SpawnsNext]_spawnVars /\ SpawnsFairness

-----------------------------------------------------------------------------
(* A monster that died comes back, if from some time on the players leave  *)
(* its place alone and there is room (spawn.cpp checkSpawn, cleanup and    *)
(* startSpawnCheck: the event re-arms itself only while a place is empty,  *)
(* so a death just after its last turn must arm it again).  Places that a  *)
(* convinced monster left, or that were blocked at startup, are not        *)
(* announced to the event and may wait for the next death: see stray.      *)
DeadComeBack ==
  \A p \in Place :
    <>[](p \in open) => ((spawned[p] = "removed" /\ spawnsUp = "up")
                           ~> (spawned[p] = "alive" \/ spawnsUp = "ended"))

(* While the spawn is up, an empty or emptied place has the event armed or *)
(* queued unless it is stray, and the spawn holds one reference on each    *)
(* monster it lists and none on others (spawn.cpp spawnMonster, cleanup,   *)
(* removeMonster and the destructor each move one).                        *)
NoPlaceForgotten ==
  /\ \A p \in Place : refs[p] = IF p \in Listed THEN 1 ELSE 0
  /\ spawnsUp = "up" =>
       \A p \in Place \ stray : spawned[p] # "alive" => check # "none"
=============================================================================
