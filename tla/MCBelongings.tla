---------------------------- MODULE MCBelongings ----------------------------
(***************************************************************************)
(* What belongs to somebody - items, houses - for TLC.  The two have no    *)
(* variable in common, so one run checks them next to each other: Init     *)
(* chooses the part that runs and the other stays as it is.                *)
(***************************************************************************)
EXTENDS MCItems, Houses

CONSTANTS ann, bob, carl

VARIABLE part

\* bob is named and is in the guild, but an expression refuses him first.
MCText == {<<>>, <<[kind |-> "player", who |-> bob], [kind |-> "guild", who |-> 1],
                  [kind |-> "expression", who |-> {bob}, allow |-> FALSE]>>}
MCGuildMates == <<{ann, bob}>>

MCInit ==
  /\ part \in {"items", "houses"}
  /\ Init /\ HousesInit
  /\ part # "items" => IsContainer(world, i2)

ItemsStep   == part = "items"   /\ Next        /\ UNCHANGED <<part, houseVars>>
HousesStep  == part = "houses"  /\ HousesNext  /\ UNCHANGED <<part, vars>>

MCNext == ItemsStep \/ HousesStep
MCSpec == MCInit /\ [][MCNext]_<<part, vars, houseVars>>
=============================================================================
