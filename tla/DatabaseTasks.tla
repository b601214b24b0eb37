---------------------------- MODULE DatabaseTasks ----------------------------
(***************************************************************************)
(* The queue of queries that run beside the game (databasetasks.cpp): the     *)
(* dispatcher's thread adds queries and shuts the queue down, the database    *)
(* thread runs them on a connection of its own and sends the answers back as  *)
(* tasks for the dispatcher.                                                 *)
(***************************************************************************)
EXTENDS Integers, FiniteSets, Sequences, Functions

CONSTANTS
  Query,               \* the queries that are added
  Wanted,              \* those of them with a callback
  NoQuery, Dispatcher, Free

ASSUME DbAssumption == Wanted \subseteq Query /\ NoQuery \notin Query /\ Dispatcher # Free

VARIABLES
  dbState,             \* "running" or "terminated"
  dbQueue,             \* tasks
  dbLock,              \* taskLock: Dispatcher or Free; the worker holds it for no longer than a step
  workerPc, workerHolds,
  callerPc, callerAdds, callerSignals,
  asked,               \* the queries that addTask was called with: each once
  accepted, ran, answered,   \* histories: queries queued, run, answered
  late,                \* the shutdown found the worker between its test and its wait
  overtaken            \* the query the worker held when the rest was flushed
dbVars == <<dbState, dbQueue, dbLock, workerPc, workerHolds, callerPc, callerAdds, callerSignals,
            asked, accepted, ran, answered, late, overtaken>>
callerVars == <<callerPc, callerAdds, callerSignals, asked>>
history == <<accepted, late, overtaken>>

DbInit ==
  /\ dbState = "running" /\ dbQueue = <<>> /\ dbLock = Free
  /\ workerPc = "test" /\ workerHolds = NoQuery
  /\ callerPc = "idle" /\ callerAdds = NoQuery /\ callerSignals = FALSE /\ asked = {}
  /\ accepted = <<>> /\ ran = <<>> /\ answered = {}
  /\ late = FALSE /\ overtaken = NoQuery

\* runTask: the answer of a query with a callback becomes a task
RunTask(q) == ran' = Append(ran, q) /\ answered' = answered \cup ({q} \cap Wanted)

\* Mutant: one wake-up per query is thought to be too many
NotifyOne_Never == UNCHANGED workerPc

\* notify_one: a worker that waits has to take the lock again
NotifyOne == workerPc' = IF workerPc = "waiting" THEN "woken" ELSE workerPc

(***************************************************************************)
(* The database thread.                                                    *)
(***************************************************************************)
WorkerTests ==
  /\ workerPc = "test"
  /\ workerPc' = IF dbState = "terminated" THEN "done" ELSE "lock"
  /\ UNCHANGED <<dbState, dbQueue, dbLock, workerHolds, callerVars, history, ran, answered>>

\* with the lock: wait if there is nothing, else take the first and let go.  The
\* queue is looked at again after the wait
WorkerLocks ==
  /\ workerPc \in {"lock", "woken"} /\ dbLock = Free
  /\ IF dbQueue # <<>>
     THEN workerHolds' = Head(dbQueue) /\ dbQueue' = Tail(dbQueue) /\ workerPc' = "run"
     ELSE /\ workerPc' = IF workerPc = "lock" THEN "waiting" ELSE "test"
          /\ UNCHANGED <<workerHolds, dbQueue>>
  /\ UNCHANGED <<dbState, dbLock, callerVars, history, ran, answered>>

WorkerRuns ==
  /\ workerPc = "run"
  /\ RunTask(workerHolds)
  /\ workerHolds' = NoQuery /\ workerPc' = "test"
  /\ UNCHANGED <<dbState, dbQueue, dbLock, callerVars, history>>

(***************************************************************************)
(* The dispatcher's thread: addTask.                                        *)
(***************************************************************************)
AddTask(q) ==
  /\ callerPc = "idle" /\ dbLock = Free
  /\ q \notin asked /\ asked' = asked \cup {q}
  /\ dbLock' = Dispatcher /\ callerPc' = "adding" /\ callerAdds' = q
  /\ UNCHANGED <<dbState, dbQueue, workerPc, workerHolds, callerSignals, history, ran, answered>>

Queue ==
  /\ callerPc = "adding"
  /\ IF dbState = "running"
     THEN /\ callerSignals' = (dbQueue = <<>>)
          /\ dbQueue' = Append(dbQueue, callerAdds)
          /\ accepted' = Append(accepted, callerAdds)
     ELSE callerSignals' = FALSE /\ UNCHANGED <<dbQueue, accepted>>
  /\ dbLock' = Free /\ callerPc' = "signal"
  /\ UNCHANGED <<asked, dbState, workerPc, workerHolds, callerAdds, ran, answered, late, overtaken>>

Signal ==
  /\ callerPc = "signal"
  /\ IF callerSignals THEN NotifyOne ELSE UNCHANGED workerPc
  /\ callerPc' = "idle" /\ callerAdds' = NoQuery /\ callerSignals' = FALSE
  /\ UNCHANGED <<asked, dbState, dbQueue, dbLock, workerHolds, history, ran, answered>>

(***************************************************************************)
(* shutdown: the state is set and what is queued is run under the lock, one    *)
(* query at a time, while the worker may still be running the one it took.    *)
(***************************************************************************)
Shutdown ==
  /\ callerPc = "idle" /\ dbLock = Free /\ dbState = "running"
  /\ dbState' = "terminated" /\ dbLock' = Dispatcher /\ callerPc' = "flush"
  /\ late' = (workerPc = "lock")
  /\ overtaken' = workerHolds
  /\ UNCHANGED <<asked, dbQueue, workerPc, workerHolds, callerAdds, callerSignals, accepted, ran, answered>>

\* Mutant: the query is run and stays at the head of the queue for the worker
Flush_KeepsLast ==
  /\ callerPc = "flush" /\ dbQueue # <<>>
  /\ RunTask(Head(dbQueue))
  /\ IF Len(dbQueue) = 1 THEN dbLock' = Free /\ callerPc' = "shut" /\ UNCHANGED dbQueue
     ELSE dbQueue' = Tail(dbQueue) /\ UNCHANGED <<dbLock, callerPc>>
  /\ UNCHANGED <<asked, dbState, workerPc, workerHolds, callerAdds, callerSignals, history>>

Flush ==
  /\ callerPc = "flush" /\ dbQueue # <<>>
  /\ RunTask(Head(dbQueue))
  /\ dbQueue' = Tail(dbQueue)
  /\ UNCHANGED <<dbState, dbLock, workerPc, workerHolds, callerVars, history>>

Flushed ==
  /\ callerPc = "flush" /\ dbQueue = <<>>
  /\ dbLock' = Free /\ callerPc' = "shut"
  /\ UNCHANGED <<asked, dbState, dbQueue, workerPc, workerHolds, callerAdds, callerSignals, history, ran, answered>>

ShutdownSignals ==
  /\ callerPc = "shut"
  /\ NotifyOne
  /\ callerPc' = "idle"
  /\ UNCHANGED <<asked, dbState, dbQueue, dbLock, workerHolds, callerAdds, callerSignals, history, ran, answered>>

WorkerNext == WorkerTests \/ WorkerLocks \/ WorkerRuns
CallerStep == Queue \/ Signal \/ Flush \/ Flushed \/ ShutdownSignals

DbNext == WorkerNext \/ CallerStep \/ Shutdown \/ \E q \in Query : AddTask(q)

\* both threads run on; nothing obliges the game to add a query or to shut down
DbFairness == WF_dbVars(WorkerNext) /\ WF_dbVars(CallerStep)
DbSpec == DbInit /\ [][DbNext]_dbVars /\ DbFairness

(***************************************************************************)
(* Properties.                                                             *)
(***************************************************************************)
\* No query is run twice or without having been queued, and queries are run in the
\* order they were queued in, but for the one the worker held when a shutdown ran
\* the others under its eyes.
QueriesInOrder ==
  /\ IsInjective(ran) /\ Range(ran) \subseteq Range(accepted)
  /\ \A i, j \in DOMAIN ran : i < j /\ overtaken \notin {ran[i], ran[j]} =>
       \E a, b \in DOMAIN accepted : accepted[a] = ran[i] /\ accepted[b] = ran[j] /\ a < b

\* Every query that was queued is run, across a shutdown too, and the database
\* thread ends after one; unless the shutdown found it between its test of the
\* state and its wait, for then nobody wakes it again and the join waits forever.
DbServesAndEnds ==
  /\ \A q \in Query : q \in Range(accepted) ~> q \in Range(ran)
  /\ dbState = "terminated" ~> (late \/ workerPc = "done")
=============================================================================
