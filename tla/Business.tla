------------------------------ MODULE Business ------------------------------
(***************************************************************************)
(* What a character that is played is busy with: the commands it walks to  *)
(* carry out, and the NPC it talks to.  Each goes on by itself, in any     *)
(* order, for the dispatcher runs one task at a time.                      *)
(***************************************************************************)
EXTENDS Errands, Npc

BusinessInit == ErrandsInit /\ NpcInit

BusinessNext ==
  \/ ErrandsNext /\ UNCHANGED npcVars
  \/ NpcNext /\ UNCHANGED errandsVars

BusinessSpec == BusinessInit /\ [][BusinessNext]_<<errandsVars, npcVars>>

-----------------------------------------------------------------------------
\* No command is carried out twice or left behind on the way, and the NPC is there for
\* one customer after the other.
ServedOnce == ErrandsKept /\ NpcServes
=============================================================================
