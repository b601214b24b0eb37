----------------------------- MODULE MCServices -----------------------------
(***************************************************************************)
(* The services that outlive a task - the waiting list, the queue of       *)
(* queries, the spawns, the view of a client - for TLC.  They share no     *)
(* variable, so one run checks them next to each other: Init chooses the   *)
(* part that runs and the others stay as they are.  The fairness of a part *)
(* is asked of the behaviours in which it runs.                            *)
(***************************************************************************)
EXTENDS WaitList, DatabaseTasks, Spawns, ClientView, TLC

CONSTANTS prem1, prem2, free1, free2,
          q1, q2, q3

VARIABLE part

MCInit ==
  /\ part \in {"waiting list", "queries", "spawns", "view"}
  /\ Init /\ DbInit /\ SpawnsInit /\ ViewInit
  /\ part # "spawns" => open = {}
  /\ part # "view" => On(pile, Me) = {1}

WaitListStep == part = "waiting list" /\ Next         /\ UNCHANGED <<part, dbVars, spawnVars, viewVars>>
DbStep       == part = "queries"      /\ DbNext     /\ UNCHANGED <<part, vars, spawnVars, viewVars>>
SpawnsStep   == part = "spawns"       /\ SpawnsNext /\ UNCHANGED <<part, vars, dbVars, viewVars>>
ViewStep     == part = "view"         /\ ViewNext   /\ UNCHANGED <<part, vars, dbVars, spawnVars>>

MCNext == WaitListStep \/ DbStep \/ SpawnsStep \/ ViewStep

MCSpec ==
  /\ MCInit /\ [][MCNext]_<<part, vars, dbVars, spawnVars, viewVars>>
  /\ part = "waiting list" => Fairness
  /\ part = "queries" => DbFairness
  /\ part = "spawns" => SpawnsFairness

\* A queued query is run and answered, and the shutdown ends.
QueriesServed == part = "queries" => DbServesAndEnds
\* A monster that died comes back.
MonstersReturn == part = "spawns" => DeadComeBack
=============================================================================
