------------------------------ MODULE MCOnline ------------------------------
(***************************************************************************)
(* A character that is played - its session, what conditions and clothes   *)
(* do to it, its errands, and the NPC it talks to - for TLC.  The parts    *)
(* have no variable in common, so one run checks them next to each other:  *)
(* Init chooses the part that runs and the others stay as they are.        *)
(***************************************************************************)
EXTENDS MCSession, Effects, Business

CONSTANTS v1, v2, v3

VARIABLE part

-----------------------------------------------------------------------------
Cast(type, left, power) == [type |-> type, left |-> left, power |-> power]

\* A haste that is over soon, a longer one and a paralysis; then the rest, skills twice.
MCMagics ==
  {{Cast("haste", 1, 2), Cast("haste", 0, 1), Cast("paralyze", 1, -2)},
   {Cast("skill", 1, 1), Cast("skill", 0, 2), Cast("veil", 1, 0), Cast("guise", 1, 1)}}

\* A ring that hides its bearer and is another type while it is worn, a helmet that
\* wants a level and has a number of uses, and plain boots.
MCWearable == 9 :> {"ring", "ring_worn"} @@ 1 :> {"helmet"} @@ 8 :> {"boots"}
Cloth(on, off, speed, skill, veil, needs, uses) ==
  [on |-> on, off |-> off, event |-> TRUE, speed |-> speed, skill |-> skill,
   veil |-> veil, needs |-> needs, uses |-> uses]
MCWorn == [ring      |-> Cloth("ring_worn", "bare", 0, 0, FALSE, FALSE, FALSE),
           ring_worn |-> Cloth("bare", "ring", 0, 0, TRUE, FALSE, FALSE),
           helmet    |-> Cloth("bare", "bare", 0, 1, FALSE, TRUE, TRUE),
           boots     |-> Cloth("bare", "bare", 1, 0, FALSE, FALSE, FALSE)]

\* data/npc: a shopkeeper; a captain who also takes aboard whoever shouts his wish.
Rule(situation, word, topic, actions) ==
  [situation |-> situation, word |-> word, topic |-> topic, actions |-> actions]
Deals == <<Rule("none", "wish", AnyTopic, <<"say", "topic">>), Rule("none", "yes", 1, <<"say", "idle", "teleport">>),
           Rule("none", "bye", AnyTopic, <<"say", "idle">>), Rule("none", AnyWord, 1, <<"say">>),
           Rule("vanish", AnyWord, AnyTopic, <<"say">>), Rule("address", AnyWord, AnyTopic, <<"idle">>),
           Rule("busy", AnyWord, AnyTopic, <<>>)>>
Greetings == <<Rule("address", "hi", AnyTopic, <<"say">>), Rule("busy", "hi", AnyTopic, <<"say", "queue">>)>>
Shouts == [i \in 1 .. 2 |-> Rule(<<"address", "busy">>[i], "wish", AnyTopic, <<"say", "idle", "teleport">>)]
MCDatabases == {Greetings \o Deals, Greetings \o Shouts \o Deals}

MCGround == 0 .. 3
MCThings == [at : {3}, kind : {"move", "push"}, portals : {{}}] \cup
            [at : {3}, kind : {"use", "rotate"}, portals : {{1}}]

-----------------------------------------------------------------------------
MCInit ==
  /\ part \in {"sessions", "effects", "npc", "errands"}
  /\ Init /\ EffectsInit /\ NpcInit /\ ErrandsInit
  /\ part # "effects" => Cast("veil", 1, 0) \in magic
  /\ part # "npc" => LetsGo(rules)
  /\ part # "errands" => thing.kind = "use"

SessionsStep == part = "sessions" /\ Next        /\ UNCHANGED <<part, effectsVars, npcVars, errandsVars>>
EffectsStep  == part = "effects"  /\ EffectsNext /\ UNCHANGED <<part, vars, npcVars, errandsVars>>
NpcStep      == part = "npc"      /\ NpcNext     /\ UNCHANGED <<part, vars, effectsVars, errandsVars>>
ErrandsStep  == part = "errands"  /\ ErrandsNext /\ UNCHANGED <<part, vars, effectsVars, npcVars>>

MCNext == SessionsStep \/ EffectsStep \/ NpcStep \/ ErrandsStep
MCSpec == MCInit /\ [][MCNext]_<<part, vars, effectsVars, npcVars, errandsVars>>

Interchangeable == Clients
=============================================================================
