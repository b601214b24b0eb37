------------------------------ MODULE MCWorld ------------------------------
(***************************************************************************)
(* What the dispatcher keeps for longer than a task - raids, decaying      *)
(* items, monsters, their ways and steps, fights, and what is saved - for  *)
(* TLC.  The parts have no variable in common, so one run checks them next *)
(* to each other: Init chooses the part that runs and the others stay as   *)
(* they are.                                                               *)
(***************************************************************************)
EXTENDS Store, Records, Raids, Decay, Monsters, Fights, Paths, Steps, TLC

VARIABLE part

-----------------------------------------------------------------------------
ACoin == [item |-> "coin", inside |-> <<>>]
Rope  == [item |-> "rope", inside |-> <<>>]
Box(inside) == [item |-> "bag", inside |-> inside]

\* A bag in a bag beside loose items, then a rearrangement and a locker.
MCInventory ==
  0 :> <<>> @@
  1 :> (1 :> Rope) @@
  2 :> ((1 :> Rope) @@ (3 :> Box(<<ACoin, Box(<<Rope, ACoin>>), Rope>>))) @@
  3 :> ((0 :> Box(<<Rope>>)) @@ (3 :> Box(<<Box(<<Box(<<ACoin>>), ACoin>>), Box(<<ACoin>>)>>)))

MCEventsOf == [hunt |-> <<"announce", "area", "single">>, feast |-> <<"script", "area">>, void |-> <<>>]

\* A torch that can be put out and lit again, and a lamp that can be made one.
MCType == [torch  |-> [time |-> 2000, decayTo |-> "stub", stop |-> FALSE],
           stub   |-> [time |-> 1000, decayTo |-> "gone", stop |-> FALSE],
           unlit  |-> [time |-> 0, decayTo |-> "nokind", stop |-> TRUE],
           lamp   |-> [time |-> 3000, decayTo |-> "ash", stop |-> FALSE],
           ash    |-> [time |-> 1000, decayTo |-> "gone", stop |-> FALSE],
           nokind |-> [time |-> 0, decayTo |-> "nokind", stop |-> FALSE]]
MCUsesTo == [torch |-> "unlit", unlit |-> "torch", lamp |-> "torch",
             stub |-> "nokind", ash |-> "nokind", nokind |-> "nokind"]
MCReplaces == {<<k, "ash">> : k \in DOMAIN MCType}

\* A small field with up to two walls, a pool and a crowd.
Inner == Tiles \ {<<1, 1>>, <<1, 3>>, <<4, 1>>}
MCGrounds ==
  {[p \in Tiles |-> IF p \in walls THEN "wall" ELSE IF p \in wet THEN "water" ELSE IF p = full THEN "crowd" ELSE "free"] :
     walls \in {s \in SUBSET Inner : Cardinality(s) <= 2}, wet \in {{}, {<<2, 1>>, <<2, 2>>}}, full \in {<<2, 3>>, <<1, 2>>}}
MCStarts == {<<1, 1>>}
MCGoals == {<<4, 2>>, <<3, 3>>}
\* One that follows, with and without a way and with no or little reach, one that keeps
\* its distance, with and without an attack, a summon that follows its master, and a player
\* who walks to a thing.
MCWishes == {CreatureParams(TRUE, 12), CreatureParams(FALSE, 2), CreatureParams(FALSE, 0),
             MonsterParams(3, FALSE, TRUE, 12), MonsterParams(3, FALSE, FALSE, 12), MonsterParams(2, TRUE, TRUE, 12),
             PlayerParams(1)}

MCSolids == {{<<2, 2>>}}
MCDoors == {<<4, 2>>}
MCLandings == {<<1, 1>>}
MCSpawnRange == Squares \ {<<1, 3>>}

MCMaps == {{"normal", "protection", "nopvp"}, {"pvp"}}
MCOwner == [x \in {"wolf"} |-> "ulf"]

-----------------------------------------------------------------------------
\* The state in which a part stays when it is not the one that runs comes first.
MCInit ==
  /\ part \in {"raids", "decay", "monsters", "fights", "records", "saves", "paths", "steps"}
  /\ part # "paths" =>
       /\ ground = [p \in Tiles |-> "free"] /\ start = <<1, 1>> /\ target = <<3, 3>>
       /\ fpp = CreatureParams(TRUE, 12)
  /\ part # "steps" => solid = {<<2, 2>>} /\ at = <<1, 1>> /\ aim = <<3, 2>> /\ targetDistance = 2
  /\ RaidsInit /\ DecayInit /\ MonstersInit /\ FightsInit /\ RecordsInit /\ StoreInit
  /\ part = "paths" => PathsInit
  /\ part # "paths" => IdleSearch
  /\ StepsInit
  /\ part # "monsters" => w["elf"].cell = 1
  /\ part # "fights" => "pvp" \in zones
  /\ part # "records" => store = "tile"

RaidsStep    == part = "raids"    /\ RaidsNext    /\ UNCHANGED <<part, decayVars, monstersVars, fightVars, recordVars, storeVars, pathVars, stepVars>>
DecayStep    == part = "decay"    /\ DecayNext    /\ UNCHANGED <<part, raidVars, monstersVars, fightVars, recordVars, storeVars, pathVars, stepVars>>
MonstersStep == part = "monsters" /\ MonstersNext /\ UNCHANGED <<part, raidVars, decayVars, fightVars, recordVars, storeVars, pathVars, stepVars>>
FightsStep   == part = "fights"   /\ FightsNext   /\ UNCHANGED <<part, raidVars, decayVars, monstersVars, recordVars, storeVars, pathVars, stepVars>>
RecordsStep  == part = "records"  /\ RecordsNext  /\ UNCHANGED <<part, raidVars, decayVars, monstersVars, fightVars, storeVars, pathVars, stepVars>>
SavesStep    == part = "saves"    /\ StoreNext    /\ UNCHANGED <<part, raidVars, decayVars, monstersVars, fightVars, recordVars, pathVars, stepVars>>
WaysStep    == part = "paths"    /\ PathsNext    /\ UNCHANGED <<part, raidVars, decayVars, monstersVars, fightVars, recordVars, storeVars, stepVars>>
WalksStep    == part = "steps"    /\ StepsNext    /\ UNCHANGED <<part, raidVars, decayVars, monstersVars, fightVars, recordVars, storeVars, pathVars>>

MCNext == RaidsStep \/ DecayStep \/ MonstersStep \/ FightsStep \/ RecordsStep \/ SavesStep \/ WaysStep \/ WalksStep
MCSpec == MCInit /\ [][MCNext]_<<part, raidVars, decayVars, monstersVars, fightVars, recordVars, storeVars, pathVars, stepVars>>

-----------------------------------------------------------------------------
\* No creature holds a pointer to one that is gone, references are exact, and a
\* monster that must act is awake.
MonstersSound ==
  part = "monsters" => NoStalePointer /\ ReferencesExact /\ DyingIsChecked /\ AwakeInSight
\* What is on the disk is one save, whole, and loads as what was saved: the characters'
\* items as rows, and each item and condition as a stream.
SavesKept ==
  /\ part = "saves" => SavesAreWhole /\ LoadsWhatWasSaved
  /\ part = "records" => Restored
\* The kept map and the steps of a monster, and what a search finds.
WalksRight == (part = "steps" => StepsRight) /\ (part = "paths" => PathsRight)
\* No item decays too early, and nobody is a murderer without a blow.
InDueTime == NotTooEarly /\ KillsJudged
=============================================================================
