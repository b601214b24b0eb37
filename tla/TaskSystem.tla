----------------------------- MODULE TaskSystem -----------------------------
(***************************************************************************)
(* The server's two work queues and the threads that serve them:           *)
(*   - Dispatcher (tasks.h, tasks.cpp): a FIFO of tasks, with a push_front *)
(*     for expired events, executed one at a time by the game thread;      *)
(*   - Scheduler (scheduler.h, scheduler.cpp): a heap of delayed tasks and *)
(*     the set of ids of the events that have not been stopped; its thread *)
(*     hands each event that falls due to the dispatcher;                  *)
(*   - the shutdown sequence of Game::setGameState and Game::shutdown that *)
(*     stops both (game.cpp).                                              *)
(*                                                                         *)
(* A critical section is one step; what a thread does outside its mutex    *)
(* (the state test of the loop, the notify after the unlock, the expiry    *)
(* test, the execution of a task) is a step of its own, so every           *)
(* interleaving of the critical sections is covered.                       *)
(***************************************************************************)
EXTENDS Integers, Sequences, FiniteSets

CONSTANTS
  Tasks,          \* task objects the program allocates (each allocated once)
  Producers,      \* threads other than the two below that add tasks or events
  Disp,           \* the dispatcher thread
  Sched,          \* the scheduler thread
  ShutdownTask,   \* the task that runs Game::shutdown
  TerminateTask,  \* the task that Dispatcher::shutdown appends
  NoTask,         \* a null Task*
  TaskExpiration, \* DISPATCHER_TASK_EXPIRATION, in clock units
  IdSpace,        \* number of values of the event-id counter (2^32)
  MaxTime,        \* bound: the clock stops here
  MaxDelay        \* bound on the delay of an event

AllTasks == Tasks \cup {ShutdownTask, TerminateTask}
Callers  == Producers \cup {Disp}

ASSUME TaskAssumption ==
  /\ ShutdownTask # TerminateTask
  /\ ShutdownTask \notin Tasks /\ TerminateTask \notin Tasks
  /\ NoTask \notin AllTasks

ASSUME ThreadAssumption ==
  /\ Disp # Sched /\ Disp \notin Producers /\ Sched \notin Producers

ASSUME BoundAssumption ==
  /\ TaskExpiration \in Nat /\ MaxTime \in Nat /\ MaxDelay \in Nat
  /\ IdSpace \in Nat \ {0, 1}

VARIABLES
  now,          \* std::chrono::system_clock
  dState,       \* Dispatcher::threadState
  taskList,     \* Dispatcher::taskList
  dPc,          \* where Dispatcher::threadMain is
  dTask,        \* its local `task`
  dOwed,        \* threads that still have to notify taskSignal
  sState,       \* Scheduler::threadState
  eventList,    \* Scheduler::eventList, ordered by `cycle`
  eventIds,     \* Scheduler::eventIds
  lastEventId,  \* Scheduler::lastEventId
  sPc,          \* where Scheduler::threadMain is
  sDeadline,    \* the time its wait_until waits for
  sTask,        \* its local `task`
  sOwed,        \* threads that still have to notify eventSignal
  shutStage,    \* how far the shutdown sequence has come
  fresh,        \* task objects not allocated yet
  expiration,   \* Task::expiration; 0 is SYSTEM_TIME_ZERO
  cycle,        \* the time an event was scheduled for
  eventId,      \* SchedulerTask::eventId
  ran,          \* history: tasks executed
  deleted,      \* history: tasks deleted without being executed
  stopped       \* history: events for which stopEvent answered true

clockVars == <<now>>
dVars     == <<dState, taskList, dPc, dTask, dOwed>>
sVars     == <<sState, eventList, eventIds, lastEventId, sPc, sDeadline,
               sTask, sOwed>>
objVars   == <<fresh, expiration, cycle, eventId>>
histVars  == <<ran, deleted, stopped>>
vars      == <<clockVars, dVars, sVars, shutStage, objVars, histVars>>

ThreadState == {"RUNNING", "CLOSING", "TERMINATED"}

\* The stages of a shutdown, in the order the code reaches them.
ShutStage == {"none", "posted", "schedStopped", "allStopped",
              "schedTerminated", "cleared", "notified", "terminatePushed"}

-----------------------------------------------------------------------------
Init ==
  /\ now = 1
  /\ dState = "RUNNING" /\ taskList = <<>> /\ dPc = "check"
  /\ dTask = NoTask /\ dOwed = {}
  /\ sState = "RUNNING" /\ eventList = {} /\ eventIds = {}
  /\ lastEventId = 0 /\ sPc = "check" /\ sDeadline = 0
  /\ sTask = NoTask /\ sOwed = {}
  /\ shutStage = "none"
  /\ fresh = Tasks
  /\ expiration = [t \in AllTasks |-> 0]
  /\ cycle = [t \in AllTasks |-> 0]
  /\ eventId = [t \in AllTasks |-> 0]
  /\ ran = {} /\ deleted = {} /\ stopped = {}

-----------------------------------------------------------------------------
(* Helpers                                                                 *)

\* A thread runs code of its own only when it owes no notification: the
\* notify_one of addTask / addEvent is the last thing those calls do. The
\* dispatcher's code that adds work is the body of the task it is running,
\* outside the shutdown sequence of setGameState.
CanCall(p) ==
  /\ p \notin dOwed /\ p \notin sOwed
  /\ p = Disp => /\ dPc = "running" /\ dTask \in Tasks
                 /\ shutStage \notin {"posted", "schedStopped"}

\* `do_signal = taskList.empty()`, evaluated before the push.
DispatcherSignals == taskList = <<>>

Pushed(t, front) ==
  IF front THEN <<t>> \o taskList ELSE Append(taskList, t)

\* Dispatcher::addTask. The dispatcher is the only thread that waits on
\* taskSignal, so a notification it sends itself has no effect.
DispatcherAdd(p, t, front) ==
  IF dState = "RUNNING"
  THEN /\ taskList' = Pushed(t, front)
       /\ dOwed' = IF DispatcherSignals /\ p # Disp THEN dOwed \cup {p} ELSE dOwed
       /\ UNCHANGED deleted
  ELSE /\ deleted' = deleted \cup {t}
       /\ UNCHANGED <<taskList, dOwed>>

\* eventList.top(): an event with the least cycle (ties in any order).
IsTop(t, events) ==
  /\ t \in events
  /\ \A e \in events : cycle[t] <= cycle[e]

\* `if (++lastEventId == 0) lastEventId = 1`, on a counter that wraps.
NextEventId ==
  IF (lastEventId + 1) % IdSpace = 0 THEN 1 ELSE (lastEventId + 1) % IdSpace

\* Mutant: the scheduler is signalled as the dispatcher is, only when its list was
\* empty.
SchedulerSignals_WasEmpty(c, signal) == signal <=> eventList = {}

\* `do_signal = (task == eventList.top())`, evaluated after the push. Among
\* equal cycles the heap may or may not have put the new event on top.
SchedulerSignals(c, signal) ==
  /\ (\A e \in eventList : c < cycle[e]) => signal
  /\ (\E e \in eventList : cycle[e] < c) => ~signal

\* Task::hasExpired
HasExpired(t) == expiration[t] # 0 /\ expiration[t] < now

-----------------------------------------------------------------------------
(* The clock                                                               *)

Tick ==
  /\ now < MaxTime
  /\ now' = now + 1
  /\ UNCHANGED <<dVars, sVars, shutStage, objVars, histVars>>

-----------------------------------------------------------------------------
(* Calls made by the other threads and by the tasks the dispatcher runs     *)

\* createTask followed by Dispatcher::addTask: with no expiration (game
\* tasks) or DISPATCHER_TASK_EXPIRATION from now (addGameTaskTimed).
AddTask(p, t) ==
  /\ CanCall(p) /\ t \in fresh
  /\ fresh' = fresh \ {t}
  /\ \E x \in {0, now + TaskExpiration} :
        expiration' = [expiration EXCEPT ![t] = x]
  /\ DispatcherAdd(p, t, FALSE)
  /\ UNCHANGED <<clockVars, dState, dPc, dTask, sVars, shutStage, cycle,
                 eventId, ran, stopped>>

\* createSchedulerTask followed by Scheduler::addEvent (bound: no event is
\* scheduled for a time the clock does not reach).
AddEvent(p, t) ==
  /\ CanCall(p) /\ t \in fresh
  /\ fresh' = fresh \ {t}
  /\ \E d \in 0..MaxDelay, signal \in BOOLEAN :
        /\ now + d <= MaxTime
        /\ expiration' = [expiration EXCEPT ![t] = now + d]
        /\ cycle' = [cycle EXCEPT ![t] = now + d]
        /\ IF sState = "RUNNING"
           THEN /\ lastEventId' = NextEventId
                /\ eventId' = [eventId EXCEPT ![t] = NextEventId]
                /\ eventIds' = eventIds \cup {NextEventId}
                /\ SchedulerSignals(now + d, signal)
                /\ eventList' = eventList \cup {t}
                /\ sOwed' = IF signal THEN sOwed \cup {p} ELSE sOwed
                /\ UNCHANGED deleted
           ELSE /\ signal = FALSE
                /\ deleted' = deleted \cup {t}
                /\ UNCHANGED <<lastEventId, eventId, eventIds, eventList, sOwed>>
  /\ UNCHANGED <<clockVars, dVars, sState, sPc, sDeadline, sTask, shutStage,
                 ran, stopped>>

\* Scheduler::stopEvent with the id addEvent returned for t, whatever has
\* become of t since (callers keep the id after the event has run).
StopEvent(p, t) ==
  /\ CanCall(p)
  /\ eventId[t] \in eventIds
  /\ eventIds' = eventIds \ {eventId[t]}
  /\ stopped' = stopped \cup {t}
  /\ UNCHANGED <<clockVars, dVars, sState, eventList, lastEventId, sPc,
                 sDeadline, sTask, sOwed, shutStage, objVars, ran, deleted>>

\* taskSignal.notify_one() after the unlock of addTask.
NotifyDispatcher(p) ==
  /\ p \in dOwed
  /\ dOwed' = dOwed \ {p}
  /\ dPc' = IF dPc = "waiting" THEN "woken" ELSE dPc
  /\ UNCHANGED <<clockVars, dState, taskList, dTask, sVars, shutStage,
                 objVars, histVars>>

\* What a notification of eventSignal does to the scheduler's thread.
SchedulerAfterNotify ==
  IF sPc \in {"waiting", "timed"} THEN "woken" ELSE sPc

\* eventSignal.notify_one() after the unlock of addEvent.
NotifyScheduler(p) ==
  /\ p \in sOwed
  /\ sOwed' = sOwed \ {p}
  /\ sPc' = SchedulerAfterNotify
  /\ UNCHANGED <<clockVars, dVars, sState, eventList, eventIds, lastEventId,
                 sDeadline, sTask, shutStage, objVars, histVars>>

-----------------------------------------------------------------------------
(* Dispatcher::threadMain                                                  *)

\* `while (getState() != THREAD_STATE_TERMINATED)`, outside the mutex.
DispatcherCheck ==
  /\ dPc = "check"
  /\ dPc' = IF dState = "TERMINATED" THEN "done" ELSE "lock"
  /\ UNCHANGED <<clockVars, dState, taskList, dTask, dOwed, sVars, shutStage,
                 objVars, histVars>>

\* Lock; if the list is empty, wait: the mutex is released in the same step.
DispatcherWait ==
  /\ dPc = "lock" /\ taskList = <<>>
  /\ dPc' = "waiting"
  /\ UNCHANGED <<clockVars, dState, taskList, dTask, dOwed, sVars, shutStage,
                 objVars, histVars>>

\* The list has a task: pop it and unlock.
DispatcherTake ==
  /\ dPc \in {"lock", "woken"} /\ taskList # <<>>
  /\ dTask' = Head(taskList)
  /\ taskList' = Tail(taskList)
  /\ dPc' = "taken"
  /\ UNCHANGED <<clockVars, dState, dOwed, sVars, shutStage, objVars, histVars>>

\* Woken with nothing to do: unlock and test the state again.
DispatcherIdle ==
  /\ dPc = "woken" /\ taskList = <<>>
  /\ dPc' = "check"
  /\ UNCHANGED <<clockVars, dState, taskList, dTask, dOwed, sVars, shutStage,
                 objVars, histVars>>

\* A condition variable may wake with no notification.
DispatcherSpurious ==
  /\ dPc = "waiting"
  /\ dPc' = "woken"
  /\ UNCHANGED <<clockVars, dState, taskList, dTask, dOwed, sVars, shutStage,
                 objVars, histVars>>

\* `if (!task->hasExpired())` execute it, else only delete it.
DispatcherExecute ==
  /\ dPc = "taken"
  /\ IF HasExpired(dTask)
     THEN /\ dPc' = "check" /\ dTask' = NoTask
          /\ deleted' = deleted \cup {dTask}
          /\ UNCHANGED ran
     ELSE /\ dPc' = "running"
          /\ ran' = ran \cup {dTask}
          /\ UNCHANGED <<dTask, deleted>>
  /\ UNCHANGED <<clockVars, dState, taskList, dOwed, sVars, shutStage, objVars,
                 stopped>>

\* The body of an ordinary task returns (between the steps of the shutdown
\* sequence it is still inside setGameState) and the task is deleted.
DispatcherFinish ==
  /\ dPc = "running" /\ dTask \in Tasks
  /\ Disp \notin sOwed
  /\ shutStage \notin {"posted", "schedStopped"}
  /\ dPc' = "check" /\ dTask' = NoTask
  /\ UNCHANGED <<clockVars, dState, taskList, dOwed, sVars, shutStage, objVars,
                 histVars>>

-----------------------------------------------------------------------------
(* Scheduler::threadMain                                                   *)

\* `while (getState() != THREAD_STATE_TERMINATED)`, outside the mutex and
\* after the addTask of the previous iteration has returned.
SchedulerCheck ==
  /\ sPc = "check" /\ Sched \notin dOwed
  /\ sPc' = IF sState = "TERMINATED" THEN "done" ELSE "lock"
  /\ UNCHANGED <<clockVars, dVars, sState, eventList, eventIds, lastEventId,
                 sDeadline, sTask, sOwed, shutStage, objVars, histVars>>

\* Lock; wait for a signal, or until the top event falls due.
SchedulerWait ==
  /\ sPc = "lock"
  /\ \/ eventList = {} /\ sPc' = "waiting" /\ UNCHANGED sDeadline
     \/ \E t \in eventList :
           IsTop(t, eventList) /\ sPc' = "timed" /\ sDeadline' = cycle[t]
  /\ UNCHANGED <<clockVars, dVars, sState, eventList, eventIds, lastEventId,
                 sTask, sOwed, shutStage, objVars, histVars>>

\* wait_until times out; the mutex still has to be taken again.
SchedulerTimeout ==
  /\ sPc = "timed" /\ sDeadline <= now
  /\ sPc' = "timedout"
  /\ UNCHANGED <<clockVars, dVars, sState, eventList, eventIds, lastEventId,
                 sDeadline, sTask, sOwed, shutStage, objVars, histVars>>

SchedulerSpurious ==
  /\ sPc \in {"waiting", "timed"}
  /\ sPc' = "woken"
  /\ UNCHANGED <<clockVars, dVars, sState, eventList, eventIds, lastEventId,
                 sDeadline, sTask, sOwed, shutStage, objVars, histVars>>

\* Mutant: `ret` is not looked at, every wake-up counts as a timeout.
SchedulerWoken_AsTimeout ==
  /\ sPc = "woken"
  /\ sPc' = IF eventList = {} THEN "check" ELSE "timedout"
  /\ UNCHANGED <<clockVars, dVars, sState, eventList, eventIds, lastEventId,
                 sDeadline, sTask, sOwed, shutStage, objVars, histVars>>

\* Not a timeout: unlock and start over.
SchedulerWoken ==
  /\ sPc = "woken"
  /\ sPc' = "check"
  /\ UNCHANGED <<clockVars, dVars, sState, eventList, eventIds, lastEventId,
                 sDeadline, sTask, sOwed, shutStage, objVars, histVars>>

\* Mutant: the event is handed over without looking its id up.
SchedulerPop_NoLookup ==
  /\ sPc = "timedout"
  /\ \E t \in eventList :
        /\ IsTop(t, eventList)
        /\ eventList' = eventList \ {t}
        /\ eventIds' = eventIds \ {eventId[t]}
        /\ sPc' = "handoff" /\ sTask' = t
  /\ UNCHANGED <<clockVars, dVars, sState, lastEventId, sDeadline, sOwed,
                 shutStage, objVars, histVars>>

\* Timed out, with the mutex again: pop the top event; delete it if it was
\* stopped, else take its id out and keep it to hand over.
SchedulerPop ==
  /\ sPc = "timedout"
  /\ \E t \in eventList :
        /\ IsTop(t, eventList)
        /\ eventList' = eventList \ {t}
        /\ IF eventId[t] \in eventIds
           THEN /\ eventIds' = eventIds \ {eventId[t]}
                /\ sPc' = "handoff" /\ sTask' = t
                /\ UNCHANGED deleted
           ELSE /\ deleted' = deleted \cup {t}
                /\ sPc' = "check"
                /\ UNCHANGED <<eventIds, sTask>>
  /\ UNCHANGED <<clockVars, dVars, sState, lastEventId, sDeadline, sOwed,
                 shutStage, objVars, ran, stopped>>

\* Timed out on a list that has been emptied meanwhile: top() and pop() of an
\* empty priority_queue are undefined; nothing is assumed of what follows.
SchedulerPopEmpty ==
  /\ sPc = "timedout" /\ eventList = {}
  /\ sPc' = "undefined"
  /\ UNCHANGED <<clockVars, dVars, sState, eventList, eventIds, lastEventId,
                 sDeadline, sTask, sOwed, shutStage, objVars, histVars>>

\* Mutant: setDontExpire is forgotten.
SchedulerHandoff_Expiring ==
  /\ sPc = "handoff"
  /\ DispatcherAdd(Sched, sTask, TRUE)
  /\ sPc' = "check" /\ sTask' = NoTask
  /\ UNCHANGED <<clockVars, dState, dPc, dTask, sState, eventList, eventIds,
                 lastEventId, sDeadline, sOwed, shutStage, objVars, ran,
                 stopped>>

\* task->setDontExpire(); g_dispatcher.addTask(task, true)
SchedulerHandoff ==
  /\ sPc = "handoff"
  /\ expiration' = [expiration EXCEPT ![sTask] = 0]
  /\ DispatcherAdd(Sched, sTask, TRUE)
  /\ sPc' = "check" /\ sTask' = NoTask
  /\ UNCHANGED <<clockVars, dState, dPc, dTask, sState, eventList, eventIds,
                 lastEventId, sDeadline, sOwed, shutStage, fresh, cycle,
                 eventId, ran, stopped>>

-----------------------------------------------------------------------------
(* Shutdown: Game::setGameState(GAME_STATE_SHUTDOWN), run inside a task,    *)
(* then Game::shutdown as a task of its own, then the terminate task.       *)

\* g_dispatcher.addTask(createTask(Game::shutdown))
ShutdownPost ==
  /\ CanCall(Disp) /\ shutStage = "none"
  /\ shutStage' = "posted"
  /\ DispatcherAdd(Disp, ShutdownTask, FALSE)
  /\ UNCHANGED <<clockVars, dState, dPc, dTask, sVars, objVars, ran, stopped>>

\* g_scheduler.stop()
ShutdownStopScheduler ==
  /\ shutStage = "posted"
  /\ shutStage' = "schedStopped"
  /\ sState' = "CLOSING"
  /\ UNCHANGED <<clockVars, dVars, eventList, eventIds, lastEventId, sPc,
                 sDeadline, sTask, sOwed, objVars, histVars>>

\* g_dispatcher.stop()
ShutdownStopDispatcher ==
  /\ shutStage = "schedStopped"
  /\ shutStage' = "allStopped"
  /\ dState' = "CLOSING"
  /\ UNCHANGED <<clockVars, taskList, dPc, dTask, dOwed, sVars, objVars,
                 histVars>>

\* Scheduler::shutdown, before it takes the mutex.
SchedulerSetTerminated ==
  /\ dPc = "running" /\ dTask = ShutdownTask /\ shutStage = "allStopped"
  /\ shutStage' = "schedTerminated"
  /\ sState' = "TERMINATED"
  /\ UNCHANGED <<clockVars, dVars, eventList, eventIds, lastEventId, sPc,
                 sDeadline, sTask, sOwed, objVars, histVars>>

\* Mutant: the events are deleted but stay in the heap.
SchedulerClear_NoPop ==
  /\ shutStage = "schedTerminated"
  /\ shutStage' = "cleared"
  /\ deleted' = deleted \cup eventList
  /\ eventIds' = {}
  /\ UNCHANGED <<clockVars, dVars, sState, eventList, lastEventId, sPc,
                 sDeadline, sTask, sOwed, objVars, ran, stopped>>

\* Scheduler::shutdown, its critical section.
SchedulerClear ==
  /\ shutStage = "schedTerminated"
  /\ shutStage' = "cleared"
  /\ deleted' = deleted \cup eventList
  /\ eventList' = {} /\ eventIds' = {}
  /\ UNCHANGED <<clockVars, dVars, sState, lastEventId, sPc, sDeadline, sTask,
                 sOwed, objVars, ran, stopped>>

\* Scheduler::shutdown, eventSignal.notify_one() after the unlock.
SchedulerShutdownNotify ==
  /\ shutStage = "cleared"
  /\ shutStage' = "notified"
  /\ sPc' = SchedulerAfterNotify
  /\ UNCHANGED <<clockVars, dVars, sState, eventList, eventIds, lastEventId,
                 sDeadline, sTask, sOwed, objVars, histVars>>

\* Mutant: the terminate task goes through addTask, which refuses it.
DispatcherShutdown_ViaAddTask ==
  /\ shutStage = "notified"
  /\ shutStage' = "terminatePushed"
  /\ DispatcherAdd(Disp, TerminateTask, FALSE)
  /\ dPc' = "check" /\ dTask' = NoTask
  /\ UNCHANGED <<clockVars, dState, sVars, objVars, ran, stopped>>

\* Dispatcher::shutdown appends the terminate task whatever the state is,
\* and Game::shutdown returns. (Its notify reaches no one: see DispatcherAdd.)
DispatcherShutdown ==
  /\ shutStage = "notified"
  /\ shutStage' = "terminatePushed"
  /\ taskList' = Append(taskList, TerminateTask)
  /\ dPc' = "check" /\ dTask' = NoTask
  /\ UNCHANGED <<clockVars, dState, dOwed, sVars, objVars, histVars>>

\* The terminate task's body.
DispatcherTerminate ==
  /\ dPc = "running" /\ dTask = TerminateTask
  /\ dState' = "TERMINATED"
  /\ dPc' = "check" /\ dTask' = NoTask
  /\ UNCHANGED <<clockVars, taskList, dOwed, sVars, shutStage, objVars,
                 histVars>>

-----------------------------------------------------------------------------
DispatcherThread ==
  \/ DispatcherCheck \/ DispatcherWait \/ DispatcherTake \/ DispatcherIdle
  \/ DispatcherExecute \/ DispatcherFinish

SchedulerThread ==
  \/ SchedulerCheck \/ SchedulerWait \/ SchedulerTimeout \/ SchedulerWoken
  \/ SchedulerPop \/ SchedulerPopEmpty \/ SchedulerHandoff

Shutdown ==
  \/ ShutdownPost \/ ShutdownStopScheduler \/ ShutdownStopDispatcher
  \/ SchedulerSetTerminated \/ SchedulerClear \/ SchedulerShutdownNotify
  \/ DispatcherShutdown \/ DispatcherTerminate

Call ==
  \E p \in Callers, t \in Tasks :
    AddTask(p, t) \/ AddEvent(p, t) \/ StopEvent(p, t)

Notify ==
  \/ \E p \in Producers \cup {Sched} : NotifyDispatcher(p)
  \/ \E p \in Callers : NotifyScheduler(p)

Next ==
  \/ Tick \/ Call \/ Notify
  \/ DispatcherThread \/ DispatcherSpurious
  \/ SchedulerThread \/ SchedulerSpurious
  \/ Shutdown

Spec == Init /\ [][Next]_vars

(* The operating system runs every runnable thread, time passes, and a      *)
(* shutdown that has been ordered goes through its sequence. Nobody has to  *)
(* call anything, and a spurious wake-up never has to happen; but a wait    *)
(* that is past its deadline does not wake spuriously each time instead of  *)
(* timing out, hence the strong fairness of the timeout.                    *)
Fairness ==
  /\ WF_vars(Tick)
  /\ WF_vars(DispatcherThread)
  /\ WF_vars(SchedulerThread)
  /\ SF_vars(SchedulerTimeout)
  /\ WF_vars(Shutdown /\ shutStage # "none")
  /\ \A p \in Producers \cup {Sched} : WF_vars(NotifyDispatcher(p))
  /\ \A p \in Callers : WF_vars(NotifyScheduler(p))

FairSpec == Spec /\ Fairness
-----------------------------------------------------------------------------
(* Properties                                                              *)

Queued == {taskList[i] : i \in DOMAIN taskList}

\* Every variable has its type; in particular no event ever gets the id 0,
\* which stopEvent and the holders of an id take for "no event".
TypeOK ==
  /\ now \in Nat \ {0}
  /\ dState \in ThreadState /\ sState \in ThreadState
  /\ taskList \in Seq(AllTasks)
  /\ dPc \in {"check", "lock", "waiting", "woken", "taken", "running", "done"}
  /\ dTask \in AllTasks \cup {NoTask}
  /\ dOwed \subseteq Producers \cup {Sched}
  /\ eventList \subseteq Tasks /\ eventIds \subseteq 1..(IdSpace - 1)
  /\ lastEventId \in 0..(IdSpace - 1)
  /\ sPc \in {"check", "lock", "waiting", "timed", "woken", "timedout",
               "handoff", "undefined", "done"}
  /\ sDeadline \in Nat /\ sTask \in Tasks \cup {NoTask}
  /\ sOwed \subseteq Callers
  /\ shutStage \in ShutStage
  /\ fresh \subseteq Tasks
  /\ expiration \in [AllTasks -> Nat] /\ cycle \in [AllTasks -> Nat]
  /\ eventId \in [AllTasks -> 0..(IdSpace - 1)]
  /\ ran \subseteq AllTasks /\ deleted \subseteq AllTasks
  /\ stopped \subseteq Tasks

\* The game thread never sleeps on a non-empty taskList unless the thread
\* that made the list non-empty is about to notify it: `do_signal`, computed
\* under the mutex and acted on after it, loses no wake-up.
NoLostDispatcherWakeup ==
  dPc = "waiting" /\ taskList # <<>> => dOwed # {}

\* The scheduler's thread never sleeps past an event: while it waits, no
\* event of the heap falls due before the time it waits for, unless the
\* thread that added such an event is about to notify it.
NoLostSchedulerWakeup ==
  /\ sPc = "waiting" /\ eventList # {} => sOwed # {}
  /\ sPc = "timed" => \/ sOwed # {}
                      \/ \A t \in eventList : sDeadline <= cycle[t]

\* Neither thread sleeps on work that no other thread is about to notify it of.
NoLostWakeup == NoLostDispatcherWakeup /\ NoLostSchedulerWakeup

\* A task object has one owner at a time - the producer, taskList, the heap,
\* one of the two threads - and none once it has been executed or deleted:
\* it is never executed twice, nor deleted twice.
OneOwner ==
  /\ \A i, j \in DOMAIN taskList : taskList[i] = taskList[j] => i = j
  /\ \A t \in AllTasks :
        /\ t \in Queued => t \notin fresh \cup eventList \cup {sTask, dTask} \cup deleted
        /\ t \in eventList => t \notin fresh \cup {sTask, dTask} \cup deleted
        /\ t \in fresh \cup deleted => t \notin {sTask, dTask}
        /\ t = sTask => t # dTask
        /\ t \in deleted => t \notin fresh
        /\ t \in ran => /\ t \notin fresh \cup Queued \cup eventList \cup deleted
                        /\ t # sTask
                        /\ t = dTask => dPc = "running"

\* No event reaches the dispatcher before the time it was scheduled for: the
\* task popped after a timeout is due, although other events may have been
\* added or stopped since the thread chose its deadline.
NeverEarly ==
  \A t \in Queued \cup {sTask, dTask} \cup ran :
    t \in AllTasks => cycle[t] <= now

\* Once stopEvent has answered true the event never reaches the dispatcher,
\* whatever the scheduler's thread was doing at that moment.
StoppedNeverRuns ==
  \A t \in stopped : t \notin Queued \cup {sTask, dTask} \cup ran

\* While no shutdown has been ordered an event is lost only by stopEvent: the
\* dispatcher's expiry test never drops an event the scheduler handed over.
NoEventLost ==
  shutStage = "none" => \A t \in deleted : cycle[t] # 0 => t \in stopped

\* The dispatcher's thread ends with an empty list: nothing is accepted
\* behind the terminate task, so no accepted task is left unserved.
AcceptedTasksServed == dPc = "done" => taskList = <<>>

\* A task in the dispatcher's list is eventually taken out of it, and an event in
\* the scheduler's heap leaves it: handed over, deleted because it was stopped, or
\* cleared by the shutdown. Once a shutdown is posted the dispatcher's thread ends,
\* as main's g_dispatcher.join() needs.
EverythingServed ==
  /\ \A t \in AllTasks : t \in Queued ~> t \notin Queued
  /\ \A t \in Tasks : t \in eventList ~> t \notin eventList
  /\ shutStage = "posted" ~> dPc = "done"
=============================================================================
