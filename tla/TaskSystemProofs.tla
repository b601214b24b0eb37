-------------------------- MODULE TaskSystemProofs --------------------------
(***************************************************************************)
(* Proofs about TaskSystem for any number of tasks, producers and delays:  *)
(* type correctness, the two wake-up invariants, and that no event reaches *)
(* the dispatcher early.                                                   *)
(***************************************************************************)
EXTENDS TaskSystem, SequenceTheorems, FiniteSetTheorems, TLAPS

\* A thread that is about to hand over, test or run a task holds one.
HeldTasks ==
  /\ sPc = "handoff" => sTask \in Tasks
  /\ dPc \in {"taken", "running"} => dTask \in AllTasks

TypeInv == TypeOK /\ HeldTasks

\* The tasks that have left the heap or never were in it, and all those that
\* some thread or container holds or that have been executed.
Out  == Queued \cup {sTask, dTask} \cup ran
Held == Out \cup eventList

\* The tasks of the shutdown that have been created, and no task.
Born == {NoTask} \cup {t \in {ShutdownTask, TerminateTask} :
          IF t = ShutdownTask THEN shutStage # "none" ELSE shutStage = "terminatePushed"}

\* A task object nobody has allocated yet is nowhere and has no due time.
FreshUntouched == \A t \in fresh : t \notin Held /\ cycle[t] = 0

\* The two tasks of the shutdown are not events.
NotEvents == cycle[ShutdownTask] = 0 /\ cycle[TerminateTask] = 0

\* Scheduler::shutdown clears the heap only after it has closed it.
ClearedClosed ==
  shutStage \in {"schedTerminated", "cleared", "notified", "terminatePushed"}
    => sState # "RUNNING"

\* While the scheduler's thread waits for a deadline, and until it has the
\* mutex again, the heap keeps an event that is due then, or it was cleared.
DeadlineHasEvent ==
  sPc \in {"timed", "timedout"} =>
     \/ \E t \in eventList : cycle[t] <= sDeadline
     \/ eventList = {} /\ sState # "RUNNING"

TimedOutIsDue == sPc = "timedout" => sDeadline <= now

\* The terminate task is the last one ever queued.
TerminateLast ==
  /\ \A i \in DOMAIN taskList : taskList[i] = TerminateTask => i = Len(taskList)
  /\ dTask = TerminateTask => taskList = <<>>

\* The terminate task exists only at the end of the shutdown sequence, when
\* the dispatcher refuses every other task.
TerminateClosed ==
  /\ TerminateTask \in Queued \cup {dTask} => shutStage = "terminatePushed"
  /\ shutStage \in {"none", "posted", "schedStopped"} => dState = "RUNNING"
  /\ shutStage \notin {"none", "posted", "schedStopped"} => dState # "RUNNING"
  /\ dState = "TERMINATED" => taskList = <<>> /\ shutStage = "terminatePushed"
  /\ dPc = "done" => dState = "TERMINATED"

\* The inductive invariant behind AcceptedTasksServed.
ServedInv == TerminateLast /\ TerminateClosed

\* The two tasks of the shutdown do not exist before they are queued.
ShutdownUnborn ==
  /\ shutStage = "none" => ShutdownTask \notin Held \cup deleted
  /\ shutStage # "terminatePushed" => TerminateTask \notin Held \cup deleted

\* The two halves of OneOwner.
NoDuplicates == \A i, j \in DOMAIN taskList : taskList[i] = taskList[j] => i = j
Disjoint ==
  \A t \in AllTasks :
    /\ t \in Queued => t \notin fresh \cup eventList \cup {sTask, dTask} \cup deleted
    /\ t \in eventList => t \notin fresh \cup {sTask, dTask} \cup deleted
    /\ t \in fresh \cup deleted => t \notin {sTask, dTask}
    /\ t = sTask => t # dTask
    /\ t \in deleted => t \notin fresh
    /\ t \in ran => /\ t \notin fresh \cup Queued \cup eventList \cup deleted
                    /\ t # sTask
                    /\ t = dTask => dPc = "running"

\* While the counter does not wrap, an id belongs to one event, and an id of
\* eventIds to an event that is still in the heap.
IdsUnique ==
  /\ \A t \in AllTasks : eventId[t] <= lastEventId
  /\ \A t, u \in AllTasks : eventId[t] = eventId[u] /\ eventId[t] # 0 => t = u
  /\ \A t \in fresh : eventId[t] = 0
  /\ \A i \in eventIds : \E t \in eventList : eventId[t] = i

\* There are enough ids for the tasks that can still ask for one.
IdsLeft == lastEventId + Cardinality(fresh) <= Cardinality(Tasks)

\* The id of a stopped event is gone for good.
StoppedIdGone == \A t \in stopped : eventId[t] # 0 /\ eventId[t] \notin eventIds

-----------------------------------------------------------------------------
USE DEF AllTasks, Callers

\* The counter of event ids skips 0 when it wraps.
LEMMA NextEventIdType ==
  ASSUME IdSpace \in Nat \ {0, 1}, lastEventId \in 0..(IdSpace - 1)
  PROVE  NextEventId \in 1..(IdSpace - 1)
<1>1. CASE lastEventId + 1 = IdSpace
  BY <1>1, SMT DEF NextEventId
<1>2. CASE lastEventId + 1 < IdSpace
  BY <1>2, SMT DEF NextEventId
<1>3. QED BY <1>1, <1>2, SMT

\* What queueing a task at either end does to the sequence.
LEMMA PushedProperties ==
  ASSUME taskList \in Seq(AllTasks), NEW t \in AllTasks, NEW front \in BOOLEAN
  PROVE  /\ Pushed(t, front) \in Seq(AllTasks)
         /\ Len(taskList) \in Nat /\ DOMAIN taskList = 1..Len(taskList)
         /\ Len(Pushed(t, front)) = Len(taskList) + 1
         /\ DOMAIN Pushed(t, front) = 1..(Len(taskList) + 1)
         /\ \A i \in DOMAIN Pushed(t, front) :
               Pushed(t, front)[i] =
                 IF front THEN IF i = 1 THEN t ELSE taskList[i - 1]
                 ELSE IF i = Len(taskList) + 1 THEN t ELSE taskList[i]
<1>1. <<t>> \in Seq(AllTasks) /\ Len(<<t>>) = 1 /\ <<t>>[1] = t
  BY SMT
<1>2. CASE front
  BY <1>1, <1>2, ConcatProperties, LenProperties, SMTT(30) DEF Pushed
<1>3. CASE ~front
  BY <1>3, AppendProperties, LenProperties, SMTT(30) DEF Pushed
<1>4. QED BY <1>2, <1>3

\* The elements of a queue after a push.
LEMMA PushedElements ==
  ASSUME taskList \in Seq(AllTasks), NEW t \in AllTasks, NEW front \in BOOLEAN
  PROVE  {Pushed(t, front)[i] : i \in DOMAIN Pushed(t, front)} \subseteq Queued \cup {t}
<1>1. /\ Len(taskList) \in Nat /\ DOMAIN taskList = 1..Len(taskList)
      /\ DOMAIN Pushed(t, front) = 1..(Len(taskList) + 1)
      /\ \A i \in DOMAIN Pushed(t, front) :
           Pushed(t, front)[i] =
             IF front THEN IF i = 1 THEN t ELSE taskList[i - 1]
             ELSE IF i = Len(taskList) + 1 THEN t ELSE taskList[i]
  BY PushedProperties, Zenon
<1>2. QED BY <1>1 DEF Queued

\* Dispatcher::addTask keeps the types of what it writes and queues at most
\* its argument.
LEMMA DispatcherAddProperties ==
  ASSUME TypeOK, NEW p \in Callers \cup {Sched}, NEW t \in AllTasks,
         NEW front \in BOOLEAN, DispatcherAdd(p, t, front)
  PROVE  /\ taskList' \in Seq(AllTasks)
         /\ Queued' \subseteq Queued \cup {t}
         /\ dOwed' \subseteq Producers \cup {Sched}
         /\ deleted' \subseteq AllTasks /\ deleted' \subseteq deleted \cup {t}
<1>1. CASE dState = "RUNNING"
  <2>1. taskList' = Pushed(t, front) /\ deleted' = deleted
    BY <1>1 DEF DispatcherAdd
  <2>2. Queued' \subseteq Queued \cup {t}
    <3>1. taskList \in Seq(AllTasks)
      BY DEF TypeOK
    <3>2. {Pushed(t, front)[i] : i \in DOMAIN Pushed(t, front)} \subseteq Queued \cup {t}
      BY <3>1, PushedElements, Zenon
    <3>3. QED BY <2>1, <3>2 DEF Queued
  <2>3. dOwed' \subseteq Producers \cup {Sched}
    BY <1>1 DEF DispatcherAdd, TypeOK
  <2>4. QED BY <2>1, <2>2, <2>3, PushedProperties DEF TypeOK
<1>2. CASE dState # "RUNNING"
  BY <1>2 DEF DispatcherAdd, TypeOK, Queued
<1>3. QED BY <1>1, <1>2

\* Taking the first task out of the list.
LEMMA TakeProperties ==
  ASSUME TypeOK, taskList # <<>>
  PROVE  /\ Head(taskList) \in Queued /\ Head(taskList) \in AllTasks
         /\ Tail(taskList) \in Seq(AllTasks)
         /\ {Tail(taskList)[i] : i \in DOMAIN Tail(taskList)} \subseteq Queued
<1>1. taskList \in Seq(AllTasks) BY DEF TypeOK
<1>2. Head(taskList) = taskList[1] /\ 1 \in DOMAIN taskList
  BY <1>1, LenProperties, EmptySeq, SMT
<1>3. QED BY <1>1, <1>2, HeadTailProperties, LenProperties, SMTT(30) DEF Queued

\* Scheduling an event keeps every type.
LEMMA AddEventType ==
  ASSUME TypeOK, NEW p \in Callers, NEW t \in Tasks, AddEvent(p, t)
  PROVE  TypeOK'
<1>1. PICK d \in 0..MaxDelay :
        /\ expiration' = [expiration EXCEPT ![t] = now + d]
        /\ cycle' = [cycle EXCEPT ![t] = now + d]
  BY DEF AddEvent
<1>2. now + d \in Nat
  BY BoundAssumption DEF TypeOK
<1>3. expiration' \in [AllTasks -> Nat] /\ cycle' \in [AllTasks -> Nat]
  BY <1>1, <1>2, Zenon DEF TypeOK
<1>4. NextEventId \in 1..(IdSpace - 1) /\ NextEventId \in 0..(IdSpace - 1)
  <2>1. NextEventId \in 1..(IdSpace - 1)
    BY NextEventIdType, BoundAssumption DEF TypeOK
  <2>2. QED BY <2>1, BoundAssumption
<1>5. fresh' \subseteq Tasks BY DEF AddEvent, TypeOK
<1>6. /\ now' = now /\ dState' = dState /\ taskList' = taskList /\ dPc' = dPc
      /\ dTask' = dTask /\ dOwed' = dOwed /\ sState' = sState /\ sPc' = sPc
      /\ sDeadline' = sDeadline /\ sTask' = sTask /\ shutStage' = shutStage
      /\ ran' = ran /\ stopped' = stopped
  BY DEF AddEvent, clockVars, dVars
<1>7. CASE sState = "RUNNING"
  <2>1. /\ lastEventId' = NextEventId
        /\ eventId' = [eventId EXCEPT ![t] = NextEventId]
        /\ eventIds' = eventIds \cup {NextEventId}
        /\ eventList' = eventList \cup {t}
        /\ sOwed' \in {sOwed, sOwed \cup {p}}
        /\ deleted' = deleted
    BY <1>7 DEF AddEvent
  <2>2. eventId' \in [AllTasks -> 0..(IdSpace - 1)]
    BY <2>1, <1>4, Zenon DEF TypeOK
  <2>3. eventIds' \subseteq 1..(IdSpace - 1)
    BY <2>1, <1>4, Zenon DEF TypeOK
  <2>4. lastEventId' \in 0..(IdSpace - 1) /\ sOwed' \subseteq Callers
        /\ eventList' \subseteq Tasks /\ deleted' \subseteq AllTasks
    BY <1>4, <2>1 DEF TypeOK
  <2>5. QED BY <1>3, <1>5, <1>6, <2>2, <2>3, <2>4, ZenonT(40) DEF TypeOK
<1>8. CASE sState # "RUNNING"
  <2>1. /\ UNCHANGED <<lastEventId, eventId, eventIds, eventList, sOwed>>
        /\ deleted' = deleted \cup {t}
    BY <1>8 DEF AddEvent
  <2>2. deleted' \subseteq AllTasks
    BY <2>1 DEF TypeOK
  <2>3. QED BY <1>3, <1>5, <1>6, <2>1, <2>2, SMTT(30) DEF TypeOK
<1>9. QED BY <1>7, <1>8

-----------------------------------------------------------------------------
\* TypeInv is inductive: each step keeps every type.
LEMMA TypeInvariant == Spec => []TypeInv
<1>1. Init => TypeInv
  BY TaskAssumption, BoundAssumption
  DEF Init, TypeInv, TypeOK, HeldTasks, ThreadState, ShutStage
<1>2. TypeInv /\ [Next]_vars => TypeInv'
  <2> SUFFICES ASSUME TypeInv, [Next]_vars PROVE TypeInv'
    OBVIOUS
  <2> USE TaskAssumption, ThreadAssumption, BoundAssumption
          DEF TypeInv, TypeOK, HeldTasks, ThreadState, ShutStage,
              clockVars, dVars, sVars, objVars, histVars
  <2>1. CASE Tick
    BY <2>1, SMTT(30) DEF Tick
  <2>2. ASSUME NEW p \in Callers, NEW t \in Tasks, AddTask(p, t) PROVE TypeInv'
    <3>1. taskList' \in Seq(AllTasks) /\ dOwed' \subseteq Producers \cup {Sched}
          /\ deleted' \subseteq AllTasks
      BY <2>2, DispatcherAddProperties DEF AddTask
    <3>2. QED BY <2>2, <3>1, SMTT(90) DEF AddTask
  <2>3. ASSUME NEW p \in Callers, NEW t \in Tasks, AddEvent(p, t) PROVE TypeInv'
    <3>1. TypeOK'
      BY <2>3, AddEventType, Zenon
    <3>2. HeldTasks'
      BY <2>3, SMTT(30) DEF AddEvent
    <3>3. QED BY <3>1, <3>2, Zenon
  <2>4. ASSUME NEW p \in Callers, NEW t \in Tasks, StopEvent(p, t) PROVE TypeInv'
    <3>1. eventIds' \subseteq 1..(IdSpace - 1) /\ stopped' \subseteq Tasks
      BY <2>4 DEF StopEvent
    <3>2. QED BY <2>4, <3>1, SMTT(30) DEF StopEvent
  <2>5. ASSUME NEW p \in Producers \cup {Sched}, NotifyDispatcher(p) PROVE TypeInv'
    BY <2>5, SMTT(30) DEF NotifyDispatcher
  <2>6. ASSUME NEW p \in Callers, NotifyScheduler(p) PROVE TypeInv'
    BY <2>6, SMTT(30) DEF NotifyScheduler, SchedulerAfterNotify
  <2>7. CASE DispatcherCheck
    BY <2>7, SMTT(30) DEF DispatcherCheck
  <2>8. CASE DispatcherWait
    BY <2>8, SMTT(30) DEF DispatcherWait
  <2>9. CASE DispatcherTake
    BY <2>9, TakeProperties, SMTT(30) DEF DispatcherTake
  <2>10. CASE DispatcherIdle
    BY <2>10, SMTT(30) DEF DispatcherIdle
  <2>11. CASE DispatcherSpurious
    BY <2>11, SMTT(30) DEF DispatcherSpurious
  <2>12. CASE DispatcherExecute
    BY <2>12, SMTT(30) DEF DispatcherExecute
  <2>13. CASE DispatcherFinish
    BY <2>13, SMTT(30) DEF DispatcherFinish
  <2>14. CASE SchedulerCheck
    BY <2>14, SMTT(30) DEF SchedulerCheck
  <2>15. CASE SchedulerWait
    BY <2>15, SMTT(90) DEF SchedulerWait
  <2>16. CASE SchedulerTimeout
    BY <2>16, SMTT(30) DEF SchedulerTimeout
  <2>17. CASE SchedulerSpurious
    BY <2>17, SMTT(30) DEF SchedulerSpurious
  <2>18. CASE SchedulerWoken
    BY <2>18, SMTT(30) DEF SchedulerWoken
  <2>19. CASE SchedulerPopEmpty
    BY <2>19, SMTT(30) DEF SchedulerPopEmpty
  <2>20. CASE SchedulerPop
    <3>1. PICK t \in eventList :
            /\ eventList' = eventList \ {t}
            /\ \/ /\ eventIds' = eventIds \ {eventId[t]} /\ deleted' = deleted
                  /\ sPc' = "handoff" /\ sTask' = t
               \/ /\ eventIds' = eventIds /\ deleted' = deleted \cup {t}
                  /\ sPc' = "check" /\ sTask' = sTask
      BY <2>20 DEF SchedulerPop
    <3>2. /\ eventList' \subseteq Tasks /\ eventIds' \subseteq 1..(IdSpace - 1)
          /\ sTask' \in Tasks \cup {NoTask} /\ (sPc' = "handoff" => sTask' \in Tasks)
          /\ deleted' \subseteq AllTasks /\ sPc' \in {"handoff", "check"}
      BY <3>1
    <3>3. UNCHANGED <<clockVars, dVars, sState, lastEventId, sDeadline, sOwed,
                      shutStage, objVars, ran, stopped>>
      BY <2>20 DEF SchedulerPop
    <3>4. QED BY <3>2, <3>3, SMTT(90)
  <2>21. CASE SchedulerHandoff
    <3>1. taskList' \in Seq(AllTasks) /\ dOwed' \subseteq Producers \cup {Sched}
          /\ deleted' \subseteq AllTasks
      BY <2>21, DispatcherAddProperties DEF SchedulerHandoff
    <3>2. QED BY <2>21, <3>1, SMTT(30) DEF SchedulerHandoff
  <2>22. CASE ShutdownPost
    <3>1. taskList' \in Seq(AllTasks) /\ dOwed' \subseteq Producers \cup {Sched}
          /\ deleted' \subseteq AllTasks
      BY <2>22, DispatcherAddProperties DEF ShutdownPost
    <3>2. QED BY <2>22, <3>1, SMTT(30) DEF ShutdownPost
  <2>23. CASE ShutdownStopScheduler
    BY <2>23, SMTT(30) DEF ShutdownStopScheduler
  <2>24. CASE ShutdownStopDispatcher
    BY <2>24, SMTT(30) DEF ShutdownStopDispatcher
  <2>25. CASE SchedulerSetTerminated
    BY <2>25, SMTT(30) DEF SchedulerSetTerminated
  <2>26. CASE SchedulerClear
    BY <2>26, SMTT(30) DEF SchedulerClear
  <2>27. CASE SchedulerShutdownNotify
    BY <2>27, SMTT(30) DEF SchedulerShutdownNotify, SchedulerAfterNotify
  <2>28. CASE DispatcherShutdown
    BY <2>28, AppendProperties, SMTT(30) DEF DispatcherShutdown
  <2>29. CASE DispatcherTerminate
    BY <2>29, SMTT(30) DEF DispatcherTerminate
  <2>30. CASE UNCHANGED vars
    BY <2>30, SMTT(30) DEF vars
  <2>31. QED
    BY <2>1, <2>2, <2>3, <2>4, <2>5, <2>6, <2>7, <2>8, <2>9, <2>10, <2>11, <2>12, <2>13, <2>14, <2>15, <2>16, <2>17, <2>18, <2>19, <2>20, <2>21, <2>22, <2>23, <2>24, <2>25, <2>26, <2>27, <2>28, <2>29, <2>30
    DEF Next, Call, Notify, DispatcherThread, SchedulerThread, Shutdown
<1>3. QED BY <1>1, <1>2, PTL DEF Spec

\* Every variable keeps its type, whatever the number of tasks and threads:
\* in particular an event id is never 0, even after the counter has wrapped.
THEOREM TypeCorrect == Spec => []TypeOK
BY TypeInvariant, PTL DEF TypeInv

-----------------------------------------------------------------------------
\* The thread that makes taskList non-empty owes the notification.
LEMMA DispatcherAddWakes ==
  ASSUME NoLostDispatcherWakeup, NEW p, NEW t, NEW front,
         DispatcherAdd(p, t, front), p # Disp, dPc = "waiting", taskList' # <<>>
  PROVE  dOwed' # {}
BY DEF NoLostDispatcherWakeup, DispatcherAdd, DispatcherSignals

\* The game thread never sleeps on a non-empty list that nobody is about to
\* notify it of (addTask computes do_signal in the mutex and notifies after).
THEOREM DispatcherWakeup == Spec => []NoLostDispatcherWakeup
<1>1. Init => NoLostDispatcherWakeup
  BY DEF Init, NoLostDispatcherWakeup
<1>2. TypeInv /\ NoLostDispatcherWakeup /\ [Next]_vars => NoLostDispatcherWakeup'
  <2> SUFFICES ASSUME NoLostDispatcherWakeup, [Next]_vars,
                      dPc' = "waiting", taskList' # <<>>
               PROVE  dOwed' # {}
    BY DEF NoLostDispatcherWakeup
  <2>1. ASSUME NEW p \in Callers, NEW t \in Tasks, AddTask(p, t) PROVE dOwed' # {}
    <3>1. DispatcherAdd(p, t, FALSE) /\ dPc = "waiting" /\ p # Disp
      BY <2>1 DEF AddTask, CanCall, dVars
    <3>2. QED BY <3>1, DispatcherAddWakes
  <2>2. CASE SchedulerHandoff
    <3>1. DispatcherAdd(Sched, sTask, TRUE) /\ dPc = "waiting" /\ Sched # Disp
      BY <2>2, ThreadAssumption DEF SchedulerHandoff
    <3>2. QED BY <3>1, DispatcherAddWakes
  <2>3. CASE ShutdownPost
    BY <2>3 DEF ShutdownPost, CanCall
  <2>4. ASSUME NEW p, NotifyDispatcher(p) PROVE dOwed' # {}
    BY <2>4 DEF NotifyDispatcher
  <2>5. CASE DispatcherThread \/ DispatcherSpurious
    BY <2>5 DEF DispatcherThread, DispatcherSpurious, DispatcherCheck,
       DispatcherWait, DispatcherTake, DispatcherIdle, DispatcherExecute,
       DispatcherFinish
  <2>6. CASE DispatcherShutdown \/ DispatcherTerminate
    BY <2>6 DEF DispatcherShutdown, DispatcherTerminate
  <2>7. CASE UNCHANGED <<taskList, dPc, dOwed>>
    BY <2>7 DEF NoLostDispatcherWakeup
  <2>8. CASE \/ Tick
             \/ \E p \in Callers, t \in Tasks : AddEvent(p, t) \/ StopEvent(p, t)
             \/ \E p \in Callers : NotifyScheduler(p)
    BY <2>7, <2>8 DEF Tick, AddEvent, StopEvent, NotifyScheduler, dVars
  <2>9. CASE \/ SchedulerCheck \/ SchedulerWait \/ SchedulerTimeout
             \/ SchedulerWoken \/ SchedulerPop \/ SchedulerPopEmpty
             \/ SchedulerSpurious
    BY <2>7, <2>9 DEF SchedulerCheck, SchedulerWait, SchedulerTimeout,
       SchedulerWoken, SchedulerPop, SchedulerPopEmpty, SchedulerSpurious, dVars
  <2>10. CASE \/ ShutdownStopScheduler \/ ShutdownStopDispatcher
              \/ SchedulerSetTerminated \/ SchedulerClear
              \/ SchedulerShutdownNotify
    BY <2>7, <2>10 DEF ShutdownStopScheduler, ShutdownStopDispatcher,
       SchedulerSetTerminated, SchedulerClear, SchedulerShutdownNotify, dVars
  <2>11. CASE UNCHANGED vars
    BY <2>7, <2>11 DEF vars, dVars
  <2>12. QED
    BY <2>1, <2>2, <2>3, <2>4, <2>5, <2>6, <2>8, <2>9, <2>10, <2>11
    DEF Next, Call, Notify, SchedulerThread, Shutdown
<1>3. QED BY <1>1, <1>2, TypeInvariant, PTL DEF Spec

-----------------------------------------------------------------------------
\* A step takes a task out of `fresh` and schedules it, or moves tasks that
\* are held already, or brings in one of the two tasks of the shutdown.
LEMMA HeldStep ==
  ASSUME TypeInv, [Next]_vars
  PROVE  /\ fresh' \subseteq fresh
         /\ Held' \subseteq Held \cup (fresh \ fresh') \cup Born'
         /\ deleted' \subseteq deleted \cup Held \cup (fresh \ fresh') \cup Born'
         /\ \A t \in AllTasks : cycle'[t] # cycle[t] => t \in fresh \ fresh'
         /\ \/ SchedulerPop
            \/ Out' \subseteq Out \cup {t \in fresh : cycle'[t] = cycle[t]} \cup Born'
<1> DEFINE Goal ==
      /\ fresh' \subseteq fresh
      /\ Held' \subseteq Held \cup (fresh \ fresh') \cup Born'
      /\ deleted' \subseteq deleted \cup Held \cup (fresh \ fresh') \cup Born'
      /\ \A t \in AllTasks : cycle'[t] # cycle[t] => t \in fresh \ fresh'
      /\ \/ SchedulerPop
         \/ Out' \subseteq Out \cup {t \in fresh : cycle'[t] = cycle[t]} \cup Born'
<1>1. TypeOK /\ HeldTasks /\ NoTask \in Born'
  BY DEF TypeInv, Born
<1>2. ASSUME NEW p \in Callers, NEW t \in Tasks, AddTask(p, t) PROVE Goal
  <2>1. Queued' \subseteq Queued \cup {t} /\ deleted' \subseteq deleted \cup {t}
    BY <1>1, <1>2, DispatcherAddProperties DEF AddTask
  <2>2. /\ UNCHANGED <<eventList, sTask, dTask, ran, cycle>>
        /\ t \in fresh /\ fresh' = fresh \ {t}
    BY <1>2 DEF AddTask, sVars
  <2>3. QED BY <1>1, <2>1, <2>2 DEF Held, Out
<1>3. ASSUME NEW p \in Callers, NEW t \in Tasks, AddEvent(p, t) PROVE Goal
  <2>1. PICK d : cycle' = [cycle EXCEPT ![t] = now + d]
    BY <1>3 DEF AddEvent
  <2>2. /\ UNCHANGED <<taskList, sTask, dTask, ran>>
        /\ t \in fresh /\ fresh' = fresh \ {t}
        /\ eventList' \subseteq eventList \cup {t}
        /\ deleted' \subseteq deleted \cup {t}
    BY <1>3 DEF AddEvent, dVars
  <2>3. QED BY <1>1, <2>1, <2>2 DEF Held, Out, Queued, TypeOK
<1>4. CASE DispatcherTake
  <2>1. Queued' \subseteq Queued /\ dTask' \in Queued
    BY <1>1, <1>4, TakeProperties DEF DispatcherTake, Queued
  <2>2. UNCHANGED <<eventList, sTask, ran, cycle, fresh, deleted>>
    BY <1>4 DEF DispatcherTake, sVars, objVars, histVars
  <2>3. QED BY <1>1, <2>1, <2>2 DEF Held, Out
<1>5. CASE DispatcherExecute
  BY <1>1, <1>5 DEF DispatcherExecute, Held, Out, Queued, sVars, objVars
<1>6. CASE DispatcherFinish \/ DispatcherTerminate
  BY <1>1, <1>6 DEF DispatcherFinish, DispatcherTerminate, Held, Out, Queued, sVars,
     objVars, histVars
<1>7. CASE SchedulerPop
  BY <1>7 DEF SchedulerPop, Held, Out, Queued, dVars, objVars
<1>8. CASE SchedulerHandoff
  <2>1. Queued' \subseteq Queued \cup {sTask} /\ deleted' \subseteq deleted \cup {sTask}
    BY <1>1, <1>8, DispatcherAddProperties DEF SchedulerHandoff, HeldTasks
  <2>2. UNCHANGED <<eventList, dTask, ran, cycle, fresh>> /\ sTask' = NoTask
    BY <1>8 DEF SchedulerHandoff
  <2>3. QED BY <1>1, <2>1, <2>2 DEF Held, Out
<1>9. CASE ShutdownPost
  <2>1. /\ Queued' \subseteq Queued \cup {ShutdownTask}
        /\ deleted' \subseteq deleted \cup {ShutdownTask}
    BY <1>1, <1>9, DispatcherAddProperties DEF ShutdownPost
  <2>2. UNCHANGED <<eventList, sTask, dTask, ran, cycle, fresh>>
        /\ ShutdownTask \in Born'
    BY <1>9 DEF ShutdownPost, Born, sVars, objVars
  <2>3. QED BY <1>1, <2>1, <2>2 DEF Held, Out
<1>10. CASE SchedulerClear
  BY <1>10 DEF SchedulerClear, Held, Out, Queued, dVars, objVars
<1>11. CASE DispatcherShutdown
  <2>1. Queued' \subseteq Queued \cup {TerminateTask}
    <3>1. taskList \in Seq(AllTasks) /\ taskList' = Pushed(TerminateTask, FALSE)
      BY <1>1, <1>11 DEF TypeOK, DispatcherShutdown, Pushed
    <3>2. {Pushed(TerminateTask, FALSE)[i] : i \in DOMAIN Pushed(TerminateTask, FALSE)}
            \subseteq Queued \cup {TerminateTask}
      BY <3>1, PushedElements
    <3>3. QED BY <3>1, <3>2 DEF Queued
  <2>2. UNCHANGED <<eventList, sTask, ran, cycle, fresh, deleted>>
        /\ dTask' = NoTask /\ TerminateTask \in Born'
    BY <1>11, TaskAssumption DEF DispatcherShutdown, Born, sVars, objVars, histVars
  <2>3. QED BY <1>1, <2>1, <2>2 DEF Held, Out
<1>12. CASE UNCHANGED <<taskList, eventList, sTask, dTask, ran, cycle, fresh, deleted>>
  BY <1>12 DEF Held, Out, Queued
<1>13. CASE \/ Tick
            \/ \E p \in Callers, t \in Tasks : StopEvent(p, t)
            \/ \E p \in Producers \cup {Sched} : NotifyDispatcher(p)
            \/ \E p \in Callers : NotifyScheduler(p)
  BY <1>12, <1>13 DEF Tick, StopEvent, NotifyDispatcher, NotifyScheduler,
     dVars, sVars, objVars, histVars
<1>14. CASE \/ DispatcherCheck \/ DispatcherWait \/ DispatcherIdle
            \/ DispatcherSpurious
  BY <1>12, <1>14 DEF DispatcherCheck, DispatcherWait, DispatcherIdle,
     DispatcherSpurious, sVars, objVars, histVars
<1>15. CASE \/ SchedulerCheck \/ SchedulerWait \/ SchedulerTimeout
            \/ SchedulerWoken \/ SchedulerPopEmpty \/ SchedulerSpurious
  BY <1>12, <1>15 DEF SchedulerCheck, SchedulerWait, SchedulerTimeout,
     SchedulerWoken, SchedulerPopEmpty, SchedulerSpurious, dVars, objVars,
     histVars
<1>16. CASE \/ ShutdownStopScheduler \/ ShutdownStopDispatcher
            \/ SchedulerSetTerminated \/ SchedulerShutdownNotify
  BY <1>12, <1>16 DEF ShutdownStopScheduler, ShutdownStopDispatcher,
     SchedulerSetTerminated, SchedulerShutdownNotify, dVars, sVars, objVars,
     histVars
<1>17. CASE UNCHANGED vars
  BY <1>12, <1>17 DEF vars, dVars, sVars, objVars, histVars
<1>18. QED
  <2>1. Goal
    BY <1>2, <1>3, <1>4, <1>5, <1>6, <1>7, <1>8, <1>9, <1>10, <1>11, <1>13,
       <1>14, <1>15, <1>16, <1>17
    DEF Next, Call, Notify, DispatcherThread, SchedulerThread, Shutdown
  <2>2. QED BY <2>1

\* A task that is still fresh is nowhere else, and its due time is not set.
LEMMA FreshInvariant == Spec => [](TypeInv /\ FreshUntouched /\ NotEvents)
<1>1. Init => FreshUntouched /\ NotEvents
  BY TaskAssumption DEF Init, FreshUntouched, NotEvents, Held, Out, Queued
<1>2. TypeInv /\ FreshUntouched /\ [Next]_vars => FreshUntouched'
  <2> SUFFICES ASSUME TypeInv, FreshUntouched, [Next]_vars, NEW t \in fresh'
               PROVE  t \notin Held' /\ cycle'[t] = 0
    BY DEF FreshUntouched
  <2>1. fresh \subseteq Tasks
    BY DEF TypeInv, TypeOK
  <2>2. QED BY <2>1, HeldStep, TaskAssumption DEF FreshUntouched, Born
<1>3. TypeInv /\ NotEvents /\ [Next]_vars => NotEvents'
  BY HeldStep, TaskAssumption DEF NotEvents, Born, TypeInv, TypeOK
<1>4. QED BY <1>1, <1>2, <1>3, TypeInvariant, PTL DEF Spec
-----------------------------------------------------------------------------
\* The scheduler's thread never sleeps past an event that nobody is about to
\* notify it of, whatever events are added, stopped or cleared meanwhile.
THEOREM SchedulerWakeup == Spec => []NoLostSchedulerWakeup
<1>1. Init => NoLostSchedulerWakeup
  BY DEF Init, NoLostSchedulerWakeup
<1>2. TypeInv /\ FreshUntouched /\ NoLostSchedulerWakeup /\ [Next]_vars
        => NoLostSchedulerWakeup'
  <2> SUFFICES ASSUME TypeOK, FreshUntouched, NoLostSchedulerWakeup, [Next]_vars
               PROVE  NoLostSchedulerWakeup'
    BY DEF TypeInv
  <2>1. ASSUME NEW p \in Callers, NEW t \in Tasks, AddEvent(p, t)
        PROVE  NoLostSchedulerWakeup'
    <3>1. PICK d \in 0..MaxDelay, signal \in BOOLEAN :
            /\ cycle' = [cycle EXCEPT ![t] = now + d]
            /\ IF sState = "RUNNING"
               THEN /\ SchedulerSignals(now + d, signal)
                    /\ eventList' = eventList \cup {t}
                    /\ sOwed' = IF signal THEN sOwed \cup {p} ELSE sOwed
               ELSE UNCHANGED <<eventList, sOwed>>
      BY <2>1, Zenon DEF AddEvent
    <3>2. t \notin eventList /\ UNCHANGED <<sPc, sDeadline>>
      BY <2>1 DEF AddEvent, FreshUntouched, Held, Out
    <3>3. \A e \in eventList : cycle'[e] = cycle[e]
      BY <3>1, <3>2 DEF TypeOK
    <3>4. CASE sState = "RUNNING" /\ ~signal
      <4>1. PICK e \in eventList : ~(now + d < cycle[e])
        BY <3>1, <3>4 DEF SchedulerSignals
      <4>2. now \in Nat /\ d \in Nat /\ sDeadline \in Nat /\ cycle[e] \in Nat
        BY BoundAssumption DEF TypeOK
      <4>3. eventList' = eventList \cup {t} /\ sOwed' = sOwed
        BY <3>1, <3>4
      <4>4. cycle'[t] = now + d
        BY <3>1 DEF TypeOK
      <4>5. sDeadline <= cycle[e] => sDeadline <= cycle'[t]
        BY <4>1, <4>2, <4>4
      <4>6. QED BY <3>2, <3>3, <4>3, <4>5 DEF NoLostSchedulerWakeup
    <3>5. CASE sState = "RUNNING" /\ signal
      <4>1. sOwed' # {}
        BY <3>1, <3>5
      <4>2. QED BY <4>1 DEF NoLostSchedulerWakeup
    <3>6. CASE sState # "RUNNING"
      BY <3>1, <3>2, <3>3, <3>6 DEF NoLostSchedulerWakeup
    <3>7. QED BY <3>4, <3>5, <3>6
  <2>2. CASE SchedulerWait
    <3>1. eventList' = eventList /\ cycle' = cycle
      BY <2>2 DEF SchedulerWait, objVars
    <3>2. QED BY <2>2, <3>1 DEF SchedulerWait, IsTop, NoLostSchedulerWakeup
  <2>3. CASE SchedulerClear
    BY <2>3 DEF SchedulerClear, NoLostSchedulerWakeup
  <2>4. CASE sPc' \notin {"waiting", "timed"}
    BY <2>4 DEF NoLostSchedulerWakeup
  <2>5. CASE UNCHANGED <<eventList, sOwed, sPc, sDeadline, cycle>>
    BY <2>5 DEF NoLostSchedulerWakeup
  <2>6. CASE \/ SchedulerCheck \/ SchedulerTimeout \/ SchedulerWoken
             \/ SchedulerPop \/ SchedulerPopEmpty \/ SchedulerHandoff
             \/ SchedulerSpurious \/ SchedulerShutdownNotify
             \/ \E p \in Callers : NotifyScheduler(p)
    BY <2>4, <2>5, <2>6 DEF SchedulerCheck, SchedulerTimeout, SchedulerWoken,
       SchedulerPop, SchedulerPopEmpty, SchedulerHandoff, SchedulerSpurious,
       SchedulerShutdownNotify, NotifyScheduler, SchedulerAfterNotify, TypeOK,
       objVars
  <2>7. CASE \/ Tick
             \/ \E p \in Callers, t \in Tasks : AddTask(p, t) \/ StopEvent(p, t)
             \/ \E p \in Producers \cup {Sched} : NotifyDispatcher(p)
    BY <2>5, <2>7 DEF Tick, AddTask, StopEvent, NotifyDispatcher, sVars, objVars
  <2>8. CASE DispatcherThread \/ DispatcherSpurious
    BY <2>5, <2>8 DEF DispatcherThread, DispatcherSpurious, DispatcherCheck,
       DispatcherWait, DispatcherTake, DispatcherIdle, DispatcherExecute,
       DispatcherFinish, sVars, objVars
  <2>9. CASE \/ ShutdownPost \/ ShutdownStopScheduler \/ ShutdownStopDispatcher
             \/ SchedulerSetTerminated \/ DispatcherShutdown
             \/ DispatcherTerminate
    BY <2>5, <2>9 DEF ShutdownPost, ShutdownStopScheduler, objVars, sVars,
       ShutdownStopDispatcher, SchedulerSetTerminated, DispatcherShutdown,
       DispatcherTerminate
  <2>10. CASE UNCHANGED vars
    BY <2>5, <2>10 DEF vars, sVars, objVars
  <2>11. QED
    BY <2>1, <2>2, <2>3, <2>6, <2>7, <2>8, <2>9, <2>10
    DEF Next, Call, Notify, SchedulerThread, Shutdown
<1>3. QED BY <1>1, <1>2, FreshInvariant, PTL DEF Spec

\* Both together: the two condition variables lose no wake-up.
THEOREM WakeupsKept == Spec => []NoLostWakeup
BY DispatcherWakeup, SchedulerWakeup, PTL DEF NoLostWakeup

-----------------------------------------------------------------------------
\* The state of the scheduler's queue in the shutdown sequence.
LEMMA ClearedInvariant == Spec => []ClearedClosed
<1>1. Init => ClearedClosed
  BY DEF Init, ClearedClosed
<1>2. ClearedClosed /\ [Next]_vars => ClearedClosed'
  <2> SUFFICES ASSUME ClearedClosed, [Next]_vars PROVE ClearedClosed'
    OBVIOUS
  <2>1. CASE Shutdown
    BY <2>1 DEF Shutdown, ShutdownPost, ShutdownStopScheduler,
       ShutdownStopDispatcher, SchedulerSetTerminated, SchedulerClear,
       SchedulerShutdownNotify, DispatcherShutdown, DispatcherTerminate,
       ClearedClosed, sVars
  <2>2. CASE UNCHANGED <<shutStage, sState>>
    BY <2>2 DEF ClearedClosed
  <2>3. CASE Tick \/ Call \/ Notify
    BY <2>2, <2>3 DEF Tick, Call, Notify, AddTask, AddEvent, StopEvent,
       NotifyDispatcher, NotifyScheduler, sVars
  <2>4. CASE DispatcherThread \/ DispatcherSpurious
    BY <2>2, <2>4 DEF DispatcherThread, DispatcherSpurious, DispatcherCheck,
       DispatcherWait, DispatcherTake, DispatcherIdle, DispatcherExecute,
       DispatcherFinish, sVars
  <2>5. CASE SchedulerThread \/ SchedulerSpurious
    BY <2>2, <2>5 DEF SchedulerThread, SchedulerSpurious, SchedulerCheck,
       SchedulerWait, SchedulerTimeout, SchedulerWoken, SchedulerPop,
       SchedulerPopEmpty, SchedulerHandoff
  <2>6. CASE UNCHANGED vars
    BY <2>2, <2>6 DEF vars, sVars
  <2>7. QED BY <2>1, <2>3, <2>4, <2>5, <2>6 DEF Next
<1>3. QED BY <1>1, <1>2, PTL DEF Spec

-----------------------------------------------------------------------------
\* The deadline the scheduler's thread waits for stays that of an event of
\* the heap, or the heap has been cleared for good; the deadline has passed
\* once the wait has timed out.
LEMMA DeadlineInvariant == Spec => [](DeadlineHasEvent /\ TimedOutIsDue)
<1>1. Init => DeadlineHasEvent /\ TimedOutIsDue
  BY DEF Init, DeadlineHasEvent, TimedOutIsDue
<1>2. TypeInv /\ FreshUntouched /\ ClearedClosed /\ DeadlineHasEvent
        /\ TimedOutIsDue /\ [Next]_vars => DeadlineHasEvent' /\ TimedOutIsDue'
  <2> SUFFICES ASSUME TypeOK, FreshUntouched, ClearedClosed, DeadlineHasEvent,
                      TimedOutIsDue, [Next]_vars
               PROVE  DeadlineHasEvent' /\ TimedOutIsDue'
    BY DEF TypeInv
  <2>1. CASE Tick
    <3>1. now' = now + 1 /\ UNCHANGED <<eventList, cycle, sPc, sDeadline, sState>>
      BY <2>1 DEF Tick, sVars, objVars
    <3>2. now \in Nat /\ sDeadline \in Nat
      BY DEF TypeOK
    <3>3. QED BY <3>1, <3>2 DEF DeadlineHasEvent, TimedOutIsDue
  <2>2. ASSUME NEW p \in Callers, NEW t \in Tasks, AddEvent(p, t)
        PROVE  DeadlineHasEvent' /\ TimedOutIsDue'
    <3>1. PICK d : cycle' = [cycle EXCEPT ![t] = now + d]
      BY <2>2 DEF AddEvent
    <3>2. /\ t \in fresh /\ UNCHANGED <<now, sPc, sDeadline, sState>>
          /\ eventList' = IF sState = "RUNNING" THEN eventList \cup {t} ELSE eventList
      BY <2>2 DEF AddEvent, clockVars
    <3>3. \A e \in eventList : cycle'[e] = cycle[e]
      BY <3>1, <3>2 DEF FreshUntouched, Held, TypeOK
    <3>4. QED BY <3>2, <3>3 DEF DeadlineHasEvent, TimedOutIsDue
  <2>3. CASE SchedulerWait
    <3>1. UNCHANGED <<eventList, cycle>>
      BY <2>3 DEF SchedulerWait, objVars
    <3>2. \A t \in eventList : cycle[t] <= cycle[t]
      BY DEF TypeOK
    <3>3. QED
      BY <2>3, <3>1, <3>2 DEF SchedulerWait, IsTop, DeadlineHasEvent,
         TimedOutIsDue
  <2>4. CASE SchedulerTimeout
    BY <2>4 DEF SchedulerTimeout, DeadlineHasEvent, TimedOutIsDue, clockVars,
       objVars
  <2>5. CASE SchedulerClear
    BY <2>5 DEF SchedulerClear, ClearedClosed, DeadlineHasEvent, TimedOutIsDue,
       clockVars
  <2>6. CASE sPc' \notin {"timed", "timedout"}
    BY <2>6 DEF DeadlineHasEvent, TimedOutIsDue
  <2>7. CASE UNCHANGED <<now, eventList, sPc, sDeadline, cycle>>
             /\ (sState' = sState \/ sState' # "RUNNING")
    BY <2>7 DEF DeadlineHasEvent, TimedOutIsDue
  <2>8. CASE \/ SchedulerCheck \/ SchedulerWoken
             \/ SchedulerPop \/ SchedulerPopEmpty \/ SchedulerHandoff
             \/ SchedulerSpurious \/ SchedulerShutdownNotify
             \/ \E p \in Callers : NotifyScheduler(p)
    BY <2>6, <2>7, <2>8 DEF SchedulerCheck, SchedulerWoken,
       SchedulerPop, SchedulerPopEmpty, SchedulerHandoff, SchedulerSpurious,
       SchedulerShutdownNotify, NotifyScheduler, SchedulerAfterNotify, TypeOK,
       objVars, clockVars
  <2>9. CASE \/ \E p \in Callers, t \in Tasks : AddTask(p, t) \/ StopEvent(p, t)
             \/ \E p \in Producers \cup {Sched} : NotifyDispatcher(p)
    BY <2>7, <2>9 DEF AddTask, StopEvent, NotifyDispatcher, sVars, objVars,
       clockVars
  <2>10. CASE DispatcherThread \/ DispatcherSpurious
    BY <2>7, <2>10 DEF DispatcherThread, DispatcherSpurious, DispatcherCheck,
       DispatcherWait, DispatcherTake, DispatcherIdle, DispatcherExecute,
       DispatcherFinish, sVars, objVars, clockVars
  <2>11. CASE \/ ShutdownPost \/ ShutdownStopScheduler \/ ShutdownStopDispatcher
              \/ SchedulerSetTerminated \/ DispatcherShutdown
              \/ DispatcherTerminate
    BY <2>7, <2>11 DEF ShutdownPost, ShutdownStopScheduler, objVars, sVars,
       ShutdownStopDispatcher, SchedulerSetTerminated, DispatcherShutdown,
       DispatcherTerminate, clockVars
  <2>12. CASE UNCHANGED vars
    BY <2>7, <2>12 DEF vars, sVars, objVars, clockVars
  <2>13. QED
    BY <2>1, <2>2, <2>3, <2>4, <2>5, <2>8, <2>9, <2>10, <2>11, <2>12
    DEF Next, Call, Notify, SchedulerThread, Shutdown
<1>3. QED BY <1>1, <1>2, FreshInvariant, ClearedInvariant, PTL DEF Spec

\* Time does not go back.
LEMMA ClockStep == ASSUME TypeOK, [Next]_vars PROVE now' \in Nat /\ now <= now'
<1>1. now \in Nat BY DEF TypeOK
<1>2. now' = now \/ now' = now + 1
  BY DEF Next, vars, clockVars, Tick, Call, Notify, DispatcherThread,
     SchedulerThread, Shutdown, AddTask, AddEvent, StopEvent, NotifyDispatcher,
     NotifyScheduler, DispatcherSpurious, DispatcherCheck, DispatcherWait,
     DispatcherTake, DispatcherIdle, DispatcherExecute, DispatcherFinish,
     SchedulerSpurious, SchedulerCheck, SchedulerWait, SchedulerTimeout,
     SchedulerWoken, SchedulerPop, SchedulerPopEmpty, SchedulerHandoff,
     ShutdownPost, ShutdownStopScheduler, ShutdownStopDispatcher,
     SchedulerSetTerminated, SchedulerClear, SchedulerShutdownNotify,
     DispatcherShutdown, DispatcherTerminate
<1>3. QED BY <1>1, <1>2

\* No event reaches the dispatcher before the time it was scheduled for.
THEOREM EventsNotEarly == Spec => []NeverEarly
<1>1. Init => NeverEarly
  BY TaskAssumption DEF Init, NeverEarly, Queued
<1>2. TypeInv /\ FreshUntouched /\ NotEvents /\ DeadlineHasEvent /\ TimedOutIsDue
        /\ NeverEarly /\ [Next]_vars => NeverEarly'
  <2> SUFFICES ASSUME TypeInv, FreshUntouched, NotEvents, DeadlineHasEvent,
                      TimedOutIsDue, NeverEarly, [Next]_vars,
                      NEW t \in AllTasks, t \in Out'
               PROVE  cycle'[t] <= now'
    BY DEF NeverEarly, Out
  <2>1. /\ now \in Nat /\ cycle \in [AllTasks -> Nat] /\ sDeadline \in Nat
        /\ fresh \subseteq Tasks /\ eventList \subseteq Tasks
    BY DEF TypeInv, TypeOK
  <2>2. now' \in Nat /\ now <= now'
    BY ClockStep DEF TypeInv
  <2>3. \A u \in Out : u \in AllTasks => cycle'[u] = cycle[u] /\ cycle[u] <= now
    <3>1. \A u \in Out : u \in AllTasks => cycle[u] <= now
      BY DEF NeverEarly, Out
    <3>2. \A u \in AllTasks : cycle'[u] # cycle[u] => u \notin Out
      BY HeldStep DEF FreshUntouched, Held
    <3>3. QED BY <3>1, <3>2
  <2>4. CASE SchedulerPop
    <3>1. PICK u \in eventList : IsTop(u, eventList) /\ Out' \subseteq Out \cup {u}
      BY <2>4 DEF SchedulerPop, Out, Queued, dVars
    <3>2. cycle' = cycle /\ now' = now
      BY <2>4 DEF SchedulerPop, objVars, clockVars
    <3>3. sPc = "timedout" /\ eventList # {}
      BY <2>4 DEF SchedulerPop
    <3>4. PICK e \in eventList : cycle[e] <= sDeadline
      BY <3>3 DEF DeadlineHasEvent
    <3>5. cycle[u] <= cycle[e] /\ sDeadline <= now
      BY <3>1, <3>3 DEF IsTop, TimedOutIsDue
    <3>6. cycle[u] <= now
      BY <2>1, <3>4, <3>5
    <3>7. QED BY <2>3, <3>1, <3>2, <3>6
  <2>5. CASE t \in Out
    BY <2>1, <2>2, <2>3, <2>5
  <2>6. CASE t \notin Out /\ ~SchedulerPop
    <3>1. cycle'[t] = cycle[t] /\ cycle[t] = 0
      <4>1. CASE t \in fresh /\ cycle'[t] = cycle[t]
        BY <4>1 DEF FreshUntouched
      <4>2. CASE t \in {ShutdownTask, TerminateTask}
        BY <2>1, <4>2, HeldStep, TaskAssumption DEF NotEvents
      <4>3. QED BY <2>6, <4>1, <4>2, HeldStep, TaskAssumption DEF Born
    <3>2. QED BY <2>2, <3>1
  <2>7. QED BY <2>4, <2>5, <2>6
<1>3. QED BY <1>1, <1>2, FreshInvariant, DeadlineInvariant, PTL DEF Spec

-----------------------------------------------------------------------------
\* Queueing a task that is not the terminate task leaves it where it is, and
\* is refused once the dispatcher has been stopped.
LEMMA DispatcherAddServed ==
  ASSUME TypeOK, ServedInv, NEW p \in Callers \cup {Sched}, NEW t \in AllTasks,
         NEW front \in BOOLEAN, DispatcherAdd(p, t, front), t # TerminateTask
  PROVE  \/ taskList' = taskList
         \/ /\ dState = "RUNNING" /\ taskList' \in Seq(AllTasks)
            /\ TerminateTask \notin Queued' \cup {dTask}
<1>1. CASE dState = "RUNNING"
  <2>1. shutStage # "terminatePushed" /\ TerminateTask \notin Queued \cup {dTask}
    BY <1>1 DEF ServedInv, TerminateClosed
  <2>2. Queued' \subseteq Queued \cup {t} /\ taskList' \in Seq(AllTasks)
    BY DispatcherAddProperties
  <2>3. QED BY <1>1, <2>1, <2>2
<1>2. CASE dState # "RUNNING"
  BY <1>2 DEF DispatcherAdd
<1>3. QED BY <1>1, <1>2

\* No accepted task is left behind: when the dispatcher's thread ends the
\* list is empty, because stop() is called before the terminate task is
\* appended and addTask refuses whatever comes later.
THEOREM AcceptedServed == Spec => []AcceptedTasksServed
<1>1. Init => ServedInv
  BY TaskAssumption DEF Init, ServedInv, TerminateLast, TerminateClosed, Queued
<1>2. TypeInv /\ ServedInv /\ [Next]_vars => ServedInv'
  <2> SUFFICES ASSUME TypeInv, ServedInv, [Next]_vars PROVE ServedInv'
    OBVIOUS
  <2>0. TypeOK /\ HeldTasks /\ taskList \in Seq(AllTasks)
        /\ dTask \in AllTasks \cup {NoTask}
    BY DEF TypeInv, TypeOK
  <2>1. ASSUME UNCHANGED <<dPc, dTask, shutStage, dState>>,
               \/ taskList' = taskList
               \/ /\ dState = "RUNNING" /\ taskList' \in Seq(AllTasks)
                  /\ TerminateTask \notin Queued' \cup {dTask}
        PROVE  ServedInv'
    BY <2>1 DEF ServedInv, TerminateLast, TerminateClosed, Queued
  <2>2. ASSUME NEW p \in Callers, NEW t \in Tasks, AddTask(p, t) PROVE ServedInv'
    <3>1. DispatcherAdd(p, t, FALSE) /\ UNCHANGED <<dPc, dTask, shutStage, dState>>
      BY <2>2 DEF AddTask
    <3>2. QED BY <2>0, <2>1, <3>1, DispatcherAddServed, TaskAssumption
  <2>3. CASE SchedulerHandoff
    <3>1. DispatcherAdd(Sched, sTask, TRUE) /\ sTask \in Tasks
          /\ UNCHANGED <<dPc, dTask, shutStage, dState>>
      BY <2>0, <2>3 DEF SchedulerHandoff, HeldTasks
    <3>2. QED BY <2>0, <2>1, <3>1, DispatcherAddServed, TaskAssumption
  <2>4. CASE ShutdownPost
    <3>1. DispatcherAdd(Disp, ShutdownTask, FALSE) /\ shutStage = "none"
          /\ shutStage' = "posted" /\ UNCHANGED <<dPc, dTask, dState>>
      BY <2>4 DEF ShutdownPost
    <3>2. TerminateTask \notin Queued' \cup {dTask} /\ taskList' \in Seq(AllTasks)
      <4>1. TerminateTask \notin Queued \cup {dTask}
        BY <3>1 DEF ServedInv, TerminateClosed
      <4>2. QED BY <2>0, <3>1, <4>1, DispatcherAddProperties, TaskAssumption
    <3>3. QED
      BY <3>1, <3>2 DEF ServedInv, TerminateLast, TerminateClosed, Queued
  <2>5. CASE DispatcherTake
    <3>1. taskList # <<>> /\ taskList' = Tail(taskList) /\ dTask' = Head(taskList)
          /\ dPc' = "taken" /\ UNCHANGED <<shutStage, dState>>
      BY <2>5 DEF DispatcherTake
    <3>2. Queued' \subseteq Queued /\ dTask' \in Queued
      BY <2>0, <3>1, TakeProperties DEF Queued
    <3>3. /\ Len(taskList) \in Nat \ {0} /\ DOMAIN taskList = 1..Len(taskList)
          /\ Len(taskList') = Len(taskList) - 1
          /\ DOMAIN taskList' = 1..Len(taskList')
          /\ \A i \in DOMAIN taskList' : taskList'[i] = taskList[i + 1]
          /\ dTask' = taskList[1]
      <4>1. /\ Len(taskList) \in Nat \ {0} /\ DOMAIN taskList = 1..Len(taskList)
            /\ taskList' \in Seq(AllTasks) /\ Len(taskList') = Len(taskList) - 1
            /\ \A i \in 1..Len(taskList') : taskList'[i] = taskList[i + 1]
        BY <2>0, <3>1, HeadTailProperties, LenProperties, EmptySeq
      <4>2. DOMAIN taskList' = 1..Len(taskList')
        BY <4>1, LenProperties
      <4>3. QED BY <2>0, <3>1, <4>1, <4>2
    <3>4. \A i \in DOMAIN taskList' : taskList'[i] = TerminateTask => i = Len(taskList')
      BY <3>3 DEF ServedInv, TerminateLast
    <3>5. dTask' = TerminateTask => taskList' = <<>>
      <4>1. ASSUME dTask' = TerminateTask PROVE Len(taskList) = 1
        <5>1. 1 \in DOMAIN taskList /\ taskList[1] = TerminateTask
          BY <3>3, <4>1
        <5>2. QED BY <3>3, <5>1 DEF ServedInv, TerminateLast
      <4>2. taskList' \in Seq(AllTasks)
        BY <2>0, <3>1, HeadTailProperties
      <4>3. taskList' # <<>> => Len(taskList') # 0
        BY <4>2, EmptySeq
      <4>4. Len(taskList') = Len(taskList) - 1
        BY <3>3
      <4>5. QED BY <4>1, <4>3, <4>4
    <3>6. QED
      BY <3>1, <3>2, <3>4, <3>5 DEF ServedInv, TerminateLast, TerminateClosed
  <2>6. CASE DispatcherShutdown
    <3>1. /\ shutStage = "notified" /\ shutStage' = "terminatePushed"
          /\ taskList' = Append(taskList, TerminateTask)
          /\ dPc' = "check" /\ dTask' = NoTask /\ UNCHANGED dState
      BY <2>6 DEF DispatcherShutdown
    <3>2. TerminateTask \notin Queued /\ dState \notin {"RUNNING", "TERMINATED"}
      BY <3>1 DEF ServedInv, TerminateClosed
    <3>3. /\ Len(taskList) \in Nat /\ DOMAIN taskList = 1..Len(taskList)
          /\ DOMAIN taskList' = 1..Len(taskList')
          /\ Len(taskList') = Len(taskList) + 1
          /\ \A i \in 1..Len(taskList) : taskList'[i] = taskList[i]
      BY <2>0, <3>1, AppendProperties, LenProperties
    <3>4. \A i \in DOMAIN taskList' : taskList'[i] = TerminateTask => i = Len(taskList')
      BY <3>2, <3>3 DEF Queued
    <3>5. QED
      BY <3>1, <3>2, <3>4, TaskAssumption
      DEF ServedInv, TerminateLast, TerminateClosed
  <2>7. CASE DispatcherTerminate
    <3>1. dTask = TerminateTask /\ dState' = "TERMINATED" /\ dTask' = NoTask
          /\ dPc' = "check" /\ UNCHANGED <<taskList, shutStage>>
      BY <2>7 DEF DispatcherTerminate
    <3>2. QED
      BY <3>1, TaskAssumption
      DEF ServedInv, TerminateLast, TerminateClosed, Queued
  <2>8. CASE DispatcherExecute \/ DispatcherFinish \/ DispatcherCheck
             \/ DispatcherWait \/ DispatcherIdle \/ DispatcherSpurious
    <3>1. /\ UNCHANGED <<taskList, shutStage, dState>> /\ dTask' \in {dTask, NoTask}
          /\ dPc' = "done" => dState = "TERMINATED"
      BY <2>8 DEF DispatcherExecute, DispatcherFinish, DispatcherCheck,
         DispatcherWait, DispatcherIdle, DispatcherSpurious
    <3>2. QED
      BY <3>1, TaskAssumption
      DEF ServedInv, TerminateLast, TerminateClosed, Queued
  <2>9. ASSUME NEW p, NotifyDispatcher(p) PROVE ServedInv'
    <3>1. UNCHANGED <<taskList, shutStage, dState, dTask>>
          /\ (dPc' = "done" => dPc = "done")
      BY <2>9 DEF NotifyDispatcher
    <3>2. QED BY <3>1 DEF ServedInv, TerminateLast, TerminateClosed, Queued
  <2>10. CASE ShutdownStopScheduler \/ ShutdownStopDispatcher
              \/ SchedulerSetTerminated \/ SchedulerClear
              \/ SchedulerShutdownNotify
    BY <2>10 DEF ShutdownStopScheduler, ShutdownStopDispatcher,
       SchedulerSetTerminated, SchedulerClear, SchedulerShutdownNotify, dVars,
       ServedInv, TerminateLast, TerminateClosed, Queued
  <2>11. CASE \/ Tick
              \/ \E p \in Callers, t \in Tasks : AddEvent(p, t) \/ StopEvent(p, t)
              \/ \E p \in Callers : NotifyScheduler(p)
    <3>1. UNCHANGED <<dPc, dTask, shutStage, dState>> /\ taskList' = taskList
      BY <2>11 DEF Tick, AddEvent, StopEvent, NotifyScheduler, dVars
    <3>2. QED BY <2>1, <3>1
  <2>12. CASE \/ SchedulerCheck \/ SchedulerWait \/ SchedulerTimeout
              \/ SchedulerWoken \/ SchedulerPop \/ SchedulerPopEmpty
              \/ SchedulerSpurious \/ UNCHANGED vars
    <3>1. UNCHANGED <<dPc, dTask, shutStage, dState>> /\ taskList' = taskList
      BY <2>12 DEF SchedulerCheck, SchedulerWait, SchedulerTimeout,
         SchedulerWoken, SchedulerPop, SchedulerPopEmpty, SchedulerSpurious,
         vars, dVars
    <3>2. QED BY <2>1, <3>1
  <2>13. QED
    BY <2>2, <2>3, <2>4, <2>5, <2>6, <2>7, <2>8, <2>9, <2>10, <2>11, <2>12
    DEF Next, Call, Notify, DispatcherThread, SchedulerThread, Shutdown
<1>3. ServedInv => AcceptedTasksServed
  BY DEF ServedInv, TerminateClosed, AcceptedTasksServed
<1>4. QED BY <1>1, <1>2, <1>3, TypeInvariant, PTL DEF Spec

-----------------------------------------------------------------------------
\* The stages of a shutdown are not undone.
LEMMA StageStep ==
  ASSUME [Next]_vars
  PROVE  /\ shutStage' = "none" => shutStage = "none"
         /\ shutStage = "terminatePushed" => shutStage' = "terminatePushed"
<1>1. CASE Shutdown
  BY <1>1 DEF Shutdown, ShutdownPost, ShutdownStopScheduler,
     ShutdownStopDispatcher, SchedulerSetTerminated, SchedulerClear,
     SchedulerShutdownNotify, DispatcherShutdown, DispatcherTerminate
<1>2. CASE ~Shutdown
  <2>1. shutStage' = shutStage
    BY <1>2 DEF Next, vars, Tick, Call, Notify, DispatcherThread,
       SchedulerThread, AddTask, AddEvent, StopEvent, NotifyDispatcher,
       NotifyScheduler, DispatcherSpurious, DispatcherCheck, DispatcherWait,
       DispatcherTake, DispatcherIdle, DispatcherExecute, DispatcherFinish,
       SchedulerSpurious, SchedulerCheck, SchedulerWait, SchedulerTimeout,
       SchedulerWoken, SchedulerPop, SchedulerPopEmpty, SchedulerHandoff
  <2>2. QED BY <2>1
<1>3. QED BY <1>1, <1>2

\* The two tasks of the shutdown are nowhere until they are queued.
LEMMA UnbornInvariant == Spec => []ShutdownUnborn
<1>1. Init => ShutdownUnborn
  BY TaskAssumption DEF Init, ShutdownUnborn, Held, Out, Queued
<1>2. TypeInv /\ ShutdownUnborn /\ [Next]_vars => ShutdownUnborn'
  <2> SUFFICES ASSUME TypeInv, ShutdownUnborn, [Next]_vars PROVE ShutdownUnborn'
    OBVIOUS
  <2>1. fresh \subseteq Tasks
    BY DEF TypeInv, TypeOK
  <2>2. /\ Held' \subseteq Held \cup fresh \cup Born'
        /\ deleted' \subseteq deleted \cup Held \cup fresh \cup Born'
    BY HeldStep
  <2>3. CASE shutStage' = "none"
    <3>1. shutStage = "none"
      BY <2>3, StageStep
    <3>2. QED BY <2>1, <2>2, <2>3, <3>1, TaskAssumption DEF ShutdownUnborn, Born
  <2>4. CASE shutStage' # "terminatePushed" /\ shutStage' # "none"
    <3>1. shutStage # "terminatePushed"
      BY <2>4, StageStep
    <3>2. QED BY <2>1, <2>2, <2>4, <3>1, TaskAssumption DEF ShutdownUnborn, Born
  <2>5. CASE shutStage' = "terminatePushed"
    BY <2>5 DEF ShutdownUnborn
  <2>6. QED BY <2>3, <2>4, <2>5
<1>3. QED BY <1>1, <1>2, TypeInvariant, PTL DEF Spec

\* Queueing a task that is not in the list keeps the list free of duplicates.
LEMMA PushedNoDuplicates ==
  ASSUME TypeOK, NoDuplicates, NEW t \in AllTasks, t \notin Queued,
         NEW front \in BOOLEAN, taskList' = Pushed(t, front)
  PROVE  NoDuplicates'
<1>1. taskList \in Seq(AllTasks) BY DEF TypeOK
<1>2. /\ Len(taskList) \in Nat /\ DOMAIN taskList = 1..Len(taskList)
      /\ DOMAIN taskList' = 1..(Len(taskList) + 1)
      /\ \A i \in DOMAIN taskList' :
           taskList'[i] = IF front THEN IF i = 1 THEN t ELSE taskList[i - 1]
                          ELSE IF i = Len(taskList) + 1 THEN t ELSE taskList[i]
  <2>1. /\ Len(taskList) \in Nat /\ DOMAIN taskList = 1..Len(taskList)
        /\ DOMAIN Pushed(t, front) = 1..(Len(taskList) + 1)
        /\ \A i \in DOMAIN Pushed(t, front) :
             Pushed(t, front)[i] =
               IF front THEN IF i = 1 THEN t ELSE taskList[i - 1]
               ELSE IF i = Len(taskList) + 1 THEN t ELSE taskList[i]
    BY <1>1, PushedProperties, Zenon
  <2>2. QED BY <2>1
<1>3. \A i \in 1..Len(taskList) : taskList[i] # t
  BY <1>2 DEF Queued
<1>4. CASE front
  <2> DEFINE n == Len(taskList)
  <2>1. n \in Nat /\ DOMAIN taskList = 1..n /\ DOMAIN taskList' = 1..(n + 1)
    BY <1>2
  <2>2. \A i \in 1..(n + 1) : taskList'[i] = IF i = 1 THEN t ELSE taskList[i - 1]
    BY <1>2, <1>4
  <2>3. \A i \in 1..n : taskList[i] # t
    BY <1>3
  <2> HIDE DEF n
  <2>4. ASSUME NEW i \in 1..(n + 1), NEW j \in 1..(n + 1), taskList'[i] = taskList'[j]
        PROVE  i = j
    <3>1. i # 1 => i - 1 \in 1..n
      BY <2>1
    <3>2. j # 1 => j - 1 \in 1..n
      BY <2>1
    <3>3. \A x, y \in 1..n : taskList[x] = taskList[y] => x = y
      BY <2>1 DEF NoDuplicates
    <3>4. CASE i # 1 /\ j # 1
      <4>1. taskList[i - 1] = taskList[j - 1]
        BY <2>2, <2>4, <3>4
      <4>2. i - 1 = j - 1
        BY <3>1, <3>2, <3>3, <3>4, <4>1
      <4>3. QED BY <2>1, <4>2
    <3>5. CASE i = 1 \/ j = 1
      BY <2>1, <2>2, <2>3, <2>4, <3>1, <3>2, <3>5
    <3>6. QED BY <3>4, <3>5
  <2>5. QED BY <2>1, <2>4 DEF NoDuplicates
<1>5. CASE ~front
  BY <1>2, <1>3, <1>5 DEF NoDuplicates
<1>6. QED BY <1>4, <1>5

\* The dispatcher's addTask puts no task in the queue twice.
LEMMA DispatcherAddOwner ==
  ASSUME TypeOK, NoDuplicates, NEW p \in Callers \cup {Sched}, NEW t \in AllTasks,
         NEW front \in BOOLEAN, DispatcherAdd(p, t, front), t \notin Queued
  PROVE  /\ NoDuplicates'
         /\ \/ Queued' \subseteq Queued \cup {t} /\ deleted' = deleted
            \/ Queued' = Queued /\ deleted' = deleted \cup {t}
<1>1. CASE dState = "RUNNING"
  <2>1. taskList' = Pushed(t, front) /\ deleted' = deleted
    BY <1>1 DEF DispatcherAdd
  <2>2. Queued' \subseteq Queued \cup {t}
    BY DispatcherAddProperties
  <2>3. NoDuplicates'
    BY <2>1, PushedNoDuplicates, Zenon
  <2>4. QED BY <2>1, <2>2, <2>3
<1>2. CASE dState # "RUNNING"
  BY <1>2 DEF DispatcherAdd, NoDuplicates, Queued
<1>3. QED BY <1>1, <1>2

\* A task object has one owner at a time and is never executed twice, nor
\* deleted twice, nor executed after it was deleted.
THEOREM SingleOwner == Spec => []OneOwner
<1>1. Init => NoDuplicates /\ Disjoint
  BY TaskAssumption DEF Init, NoDuplicates, Disjoint, Queued
<1>2. TypeInv /\ ShutdownUnborn /\ NoDuplicates /\ Disjoint /\ [Next]_vars
        => NoDuplicates' /\ Disjoint'
  <2> SUFFICES ASSUME TypeInv, ShutdownUnborn, NoDuplicates, Disjoint, [Next]_vars
               PROVE  NoDuplicates' /\ Disjoint'
    OBVIOUS
  <2>0. TypeOK /\ HeldTasks /\ taskList \in Seq(AllTasks)
        /\ fresh \subseteq Tasks /\ eventList \subseteq Tasks
    BY DEF TypeInv, TypeOK
  <2>1. ASSUME NEW p \in Callers, NEW t \in Tasks, AddTask(p, t)
        PROVE  NoDuplicates' /\ Disjoint'
    <3>1. /\ DispatcherAdd(p, t, FALSE) /\ t \in fresh /\ fresh' = fresh \ {t}
          /\ UNCHANGED <<eventList, sTask, dTask, dPc, ran>>
      BY <2>1 DEF AddTask, sVars
    <3>2. t \notin Queued
      BY <3>1 DEF Disjoint
    <3>3. /\ NoDuplicates'
          /\ \/ Queued' \subseteq Queued \cup {t} /\ deleted' = deleted
             \/ Queued' = Queued /\ deleted' = deleted \cup {t}
      BY <2>0, <3>1, <3>2, DispatcherAddOwner
    <3>4. QED BY <3>1, <3>3 DEF Disjoint
  <2>2. ASSUME NEW p \in Callers, NEW t \in Tasks, AddEvent(p, t)
        PROVE  NoDuplicates' /\ Disjoint'
    <3>1. /\ t \in fresh /\ fresh' = fresh \ {t}
          /\ UNCHANGED <<taskList, sTask, dTask, dPc, ran>>
          /\ \/ eventList' = eventList \cup {t} /\ deleted' = deleted
             \/ eventList' = eventList /\ deleted' = deleted \cup {t}
      BY <2>2 DEF AddEvent, dVars
    <3>2. QED BY <3>1 DEF Disjoint, NoDuplicates, Queued
  <2>3. CASE SchedulerHandoff
    <3>1. /\ DispatcherAdd(Sched, sTask, TRUE) /\ sTask \in Tasks /\ sTask' = NoTask
          /\ UNCHANGED <<eventList, fresh, dTask, dPc, ran>>
      BY <2>0, <2>3 DEF SchedulerHandoff, HeldTasks
    <3>2. sTask \notin Queued
      BY <3>1 DEF Disjoint
    <3>3. /\ NoDuplicates'
          /\ \/ Queued' \subseteq Queued \cup {sTask} /\ deleted' = deleted
             \/ Queued' = Queued /\ deleted' = deleted \cup {sTask}
      BY <2>0, <3>1, <3>2, DispatcherAddOwner
    <3>4. QED BY <3>1, <3>3, TaskAssumption DEF Disjoint
  <2>4. CASE ShutdownPost
    <3>1. /\ DispatcherAdd(Disp, ShutdownTask, FALSE)
          /\ UNCHANGED <<eventList, sTask, fresh, dTask, dPc, ran>>
          /\ ShutdownTask \notin Held \cup deleted
      BY <2>4 DEF ShutdownPost, ShutdownUnborn, sVars, objVars
    <3>2. /\ NoDuplicates'
          /\ \/ Queued' \subseteq Queued \cup {ShutdownTask} /\ deleted' = deleted
             \/ Queued' = Queued /\ deleted' = deleted \cup {ShutdownTask}
      BY <2>0, <3>1, DispatcherAddOwner DEF Held, Out
    <3>3. ShutdownTask \notin fresh
      BY <2>0, TaskAssumption
    <3>4. QED BY <3>1, <3>2, <3>3 DEF Disjoint, Held, Out
  <2>5. CASE DispatcherShutdown
    <3>1. /\ taskList' = Pushed(TerminateTask, FALSE) /\ dTask' = NoTask
          /\ UNCHANGED <<eventList, sTask, fresh, deleted, ran>>
          /\ TerminateTask \notin Held \cup deleted
      BY <2>5 DEF DispatcherShutdown, Pushed, ShutdownUnborn, sVars, objVars,
         histVars
    <3>2. TerminateTask \notin Queued /\ TerminateTask \notin fresh
      BY <2>0, <3>1, TaskAssumption DEF Held, Out
    <3>3. NoDuplicates'
      BY <2>0, <3>1, <3>2, PushedNoDuplicates
    <3>4. {Pushed(TerminateTask, FALSE)[i] : i \in DOMAIN Pushed(TerminateTask, FALSE)}
            \subseteq Queued \cup {TerminateTask}
      BY <2>0, PushedElements
    <3>5. Queued' \subseteq Queued \cup {TerminateTask}
      BY <3>1, <3>4 DEF Queued
    <3>6. QED
      BY <3>1, <3>2, <3>3, <3>5, TaskAssumption DEF Disjoint, Held, Out
  <2>6. CASE DispatcherTake
    <3>1. /\ taskList # <<>> /\ taskList' = Tail(taskList)
          /\ dTask' = Head(taskList) /\ dPc' = "taken"
          /\ UNCHANGED <<eventList, sTask, fresh, deleted, ran>>
      BY <2>6 DEF DispatcherTake, sVars, objVars, histVars
    <3>2. Queued' \subseteq Queued /\ dTask' \in Queued
      BY <2>0, <3>1, TakeProperties DEF Queued
    <3>3. /\ Len(taskList) \in Nat \ {0} /\ DOMAIN taskList = 1..Len(taskList)
          /\ DOMAIN taskList' = 1..(Len(taskList) - 1)
          /\ \A i \in DOMAIN taskList' : taskList'[i] = taskList[i + 1]
          /\ dTask' = taskList[1]
      <4>1. /\ Len(taskList) \in Nat \ {0} /\ DOMAIN taskList = 1..Len(taskList)
            /\ taskList' \in Seq(AllTasks) /\ Len(taskList') = Len(taskList) - 1
            /\ \A i \in 1..Len(taskList') : taskList'[i] = taskList[i + 1]
        BY <2>0, <3>1, HeadTailProperties, LenProperties, EmptySeq
      <4>2. DOMAIN taskList' = 1..Len(taskList')
        BY <4>1, LenProperties
      <4>3. QED BY <2>0, <3>1, <4>1, <4>2
    <3>4. NoDuplicates'
      BY <3>3 DEF NoDuplicates
    <3>5. dTask' \notin Queued'
      BY <3>3 DEF NoDuplicates, Queued
    <3>6. QED BY <3>1, <3>2, <3>4, <3>5 DEF Disjoint
  <2>7. CASE DispatcherExecute
    <3>1. /\ dPc = "taken" /\ dTask \in AllTasks
          /\ UNCHANGED <<taskList, eventList, sTask, fresh>>
          /\ \/ dPc' = "check" /\ dTask' = NoTask /\ ran' = ran
                /\ deleted' = deleted \cup {dTask}
             \/ dPc' = "running" /\ ran' = ran \cup {dTask} /\ dTask' = dTask
                /\ deleted' = deleted
      BY <2>0, <2>7 DEF DispatcherExecute, HeldTasks, sVars, objVars
    <3>2. NoDuplicates'
      BY <3>1 DEF NoDuplicates
    <3>3. QED BY <3>1, <3>2, TaskAssumption DEF Disjoint, Queued
  <2>8. CASE DispatcherFinish \/ DispatcherTerminate
    <3>1. /\ UNCHANGED <<taskList, eventList, sTask, fresh, ran, deleted>>
          /\ dTask' = NoTask
      BY <2>8 DEF DispatcherFinish, DispatcherTerminate, sVars, objVars, histVars
    <3>2. QED BY <3>1, TaskAssumption DEF Disjoint, NoDuplicates, Queued
  <2>9. CASE SchedulerPop
    <3>1. PICK t \in eventList :
            /\ eventList' = eventList \ {t}
            /\ \/ sTask' = t /\ deleted' = deleted
               \/ sTask' = sTask /\ deleted' = deleted \cup {t}
      BY <2>9 DEF SchedulerPop, histVars
    <3>2. UNCHANGED <<taskList, dTask, dPc, fresh, ran>>
      BY <2>9 DEF SchedulerPop, dVars, objVars
    <3>3. QED BY <2>0, <3>1, <3>2 DEF Disjoint, NoDuplicates, Queued
  <2>10. CASE SchedulerClear
    <3>1. /\ eventList' = {} /\ deleted' = deleted \cup eventList
          /\ UNCHANGED <<taskList, dTask, dPc, sTask, fresh, ran>>
      BY <2>10 DEF SchedulerClear, dVars, objVars
    <3>2. QED BY <3>1 DEF Disjoint, NoDuplicates, Queued
  <2>11. ASSUME UNCHANGED <<taskList, eventList, dTask, sTask, fresh, ran, deleted>>,
                dPc' = dPc \/ dPc # "running"
         PROVE  NoDuplicates' /\ Disjoint'
    BY <2>11 DEF Disjoint, NoDuplicates, Queued
  <2>12. CASE \/ Tick
              \/ \E p \in Callers, t \in Tasks : StopEvent(p, t)
              \/ \E p \in Producers \cup {Sched} : NotifyDispatcher(p)
              \/ \E p \in Callers : NotifyScheduler(p)
    BY <2>11, <2>12 DEF Tick, StopEvent, NotifyDispatcher, NotifyScheduler,
       dVars, sVars, objVars, histVars
  <2>13. CASE \/ DispatcherCheck \/ DispatcherWait \/ DispatcherIdle
              \/ DispatcherSpurious
    BY <2>11, <2>13 DEF DispatcherCheck, DispatcherWait, DispatcherIdle,
       DispatcherSpurious, sVars, objVars, histVars
  <2>14. CASE \/ SchedulerCheck \/ SchedulerWait \/ SchedulerTimeout
              \/ SchedulerWoken \/ SchedulerPopEmpty \/ SchedulerSpurious
    BY <2>11, <2>14 DEF SchedulerCheck, SchedulerWait, SchedulerTimeout,
       SchedulerWoken, SchedulerPopEmpty, SchedulerSpurious, dVars, objVars,
       histVars
  <2>15. CASE \/ ShutdownStopScheduler \/ ShutdownStopDispatcher
              \/ SchedulerSetTerminated \/ SchedulerShutdownNotify
    BY <2>11, <2>15 DEF ShutdownStopScheduler, ShutdownStopDispatcher,
       SchedulerSetTerminated, SchedulerShutdownNotify, dVars, sVars, objVars,
       histVars
  <2>16. CASE UNCHANGED vars
    BY <2>11, <2>16 DEF vars, dVars, sVars, objVars, histVars
  <2>17. QED
    BY <2>1, <2>2, <2>3, <2>4, <2>5, <2>6, <2>7, <2>8, <2>9, <2>10, <2>12,
       <2>13, <2>14, <2>15, <2>16
    DEF Next, Call, Notify, DispatcherThread, SchedulerThread, Shutdown
<1>3. NoDuplicates /\ Disjoint <=> OneOwner
  BY Zenon DEF NoDuplicates, Disjoint, OneOwner
<1>4. QED BY <1>1, <1>2, <1>3, TypeInvariant, UnbornInvariant, PTL DEF Spec

-----------------------------------------------------------------------------
\* Each task that asks for an id leaves one task fewer that can.
LEMMA FreshDecreases ==
  ASSUME IsFiniteSet(Tasks), fresh \subseteq Tasks, NEW t \in fresh
  PROVE  /\ Cardinality(fresh) \in Nat \ {0}
         /\ Cardinality(fresh \ {t}) = Cardinality(fresh) - 1
<1>1. IsFiniteSet(fresh) BY FS_Subset
<1>2. Cardinality(fresh) \in Nat BY <1>1, FS_CardinalityType
<1>3. Cardinality(fresh) # 0 BY <1>1, FS_EmptySet
<1>4. Cardinality(fresh \ {t}) = Cardinality(fresh) - 1
  BY <1>1, FS_RemoveElement
<1>5. QED BY <1>2, <1>3, <1>4

\* Provided there are more ids than tasks no id is used twice, and the id of a
\* stopped event stays out of eventIds. (With fewer ids a new event can revive a
\* stopped one: the code counts on 2^32 being enough.)
IdInv == IdsUnique /\ IdsLeft /\ StoppedIdGone /\ StoppedNeverRuns

\* The invariant on event ids holds in every reachable state.
LEMMA IdInvariant ==
  ASSUME IsFiniteSet(Tasks), IdSpace > Cardinality(Tasks) + 1
  PROVE  Spec => []IdInv
<1> USE DEF IdInv
<1>0. Cardinality(Tasks) \in Nat /\ IdSpace \in Nat
  BY FS_CardinalityType, BoundAssumption
<1>1. Init => IdInv
  BY <1>0 DEF Init, IdsUnique, IdsLeft, StoppedIdGone, StoppedNeverRuns
<1>2. TypeInv /\ FreshUntouched /\ OneOwner /\ IdInv /\ [Next]_vars => IdInv'
  <2> SUFFICES ASSUME TypeInv, FreshUntouched, OneOwner, IdInv, [Next]_vars
               PROVE  IdInv'
    OBVIOUS
  <2>0. /\ fresh \subseteq Tasks /\ eventList \subseteq Tasks /\ stopped \subseteq Tasks
        /\ lastEventId \in Nat /\ eventId \in [AllTasks -> Nat]
        /\ eventIds \subseteq Nat \ {0} /\ Tasks \subseteq AllTasks
    BY BoundAssumption DEF TypeInv, TypeOK
  <2>1. \/ SchedulerPop
        \/ Out' \subseteq Out \cup fresh \cup Born'
    BY HeldStep
  <2>2. \A t \in stopped : t \notin Out \cup fresh \cup Born'
    BY <2>0, TaskAssumption
    DEF StoppedNeverRuns, StoppedIdGone, IdsUnique, Out, Born
  <2>3. ASSUME stopped' = stopped, ~SchedulerPop PROVE StoppedNeverRuns'
    BY <2>1, <2>2, <2>3 DEF StoppedNeverRuns, Out
  <2>4. ASSUME UNCHANGED <<eventId, lastEventId, eventIds, eventList, stopped, fresh>>,
               ~SchedulerPop
        PROVE  IdInv'
    BY <2>3, <2>4 DEF IdsUnique, IdsLeft, StoppedIdGone
  <2>5. ASSUME NEW p \in Callers, NEW t \in Tasks, AddTask(p, t) PROVE IdInv'
    <3>1. /\ UNCHANGED <<eventId, lastEventId, eventIds, eventList, stopped>>
          /\ t \in fresh /\ fresh' = fresh \ {t} /\ ~SchedulerPop
      BY <2>5, TaskAssumption DEF AddTask, sVars, SchedulerPop, objVars
    <3>2. IdsLeft'
      BY <1>0, <2>0, <3>1, FreshDecreases DEF IdsLeft
    <3>3. QED BY <2>3, <3>1, <3>2 DEF IdsUnique, StoppedIdGone
  <2>6. ASSUME NEW p \in Callers, NEW t \in Tasks, AddEvent(p, t) PROVE IdInv'
    <3>1. /\ t \in fresh /\ fresh' = fresh \ {t} /\ stopped' = stopped
          /\ ~SchedulerPop
      BY <2>6, <2>0 DEF AddEvent, SchedulerPop, objVars
    <3>2. /\ Cardinality(fresh) \in Nat \ {0}
          /\ Cardinality(fresh') = Cardinality(fresh) - 1
      BY <2>0, <3>1, FreshDecreases
    <3>3. CASE sState # "RUNNING"
      <4>1. UNCHANGED <<eventId, lastEventId, eventIds, eventList>>
        BY <2>6, <3>3 DEF AddEvent
      <4>2. IdsLeft'
        BY <1>0, <2>0, <3>2, <4>1 DEF IdsLeft
      <4>3. QED BY <2>3, <3>1, <4>1, <4>2 DEF IdsUnique, StoppedIdGone
    <3>4. CASE sState = "RUNNING"
      <4>1. NextEventId = lastEventId + 1
        <5>1. lastEventId + 1 < IdSpace
          BY <1>0, <2>0, <3>2 DEF IdsLeft
        <5>2. QED BY <1>0, <2>0, <5>1 DEF NextEventId
      <4>2. /\ lastEventId' = lastEventId + 1
            /\ eventId' = [eventId EXCEPT ![t] = lastEventId + 1]
            /\ eventIds' = eventIds \cup {lastEventId + 1}
            /\ eventList' = eventList \cup {t}
        BY <2>6, <3>4, <4>1 DEF AddEvent
      <4>3. IdsLeft'
        BY <1>0, <2>0, <3>2, <4>2 DEF IdsLeft
      <4>4. IdsUnique'
        <5>1. /\ eventId'[t] = lastEventId + 1
              /\ \A u \in AllTasks : u # t => eventId'[u] = eventId[u]
              /\ t \notin eventList
          BY <2>0, <3>1, <4>2 DEF FreshUntouched, Held
        <5>2. \A u \in AllTasks : eventId[u] \in Nat /\ eventId[u] <= lastEventId
          BY <2>0 DEF IdsUnique
        <5>3. \A u, v \in AllTasks :
                eventId'[u] = eventId'[v] /\ eventId'[u] # 0 => u = v
          BY <2>0, <5>1, <5>2 DEF IdsUnique
        <5>4. \A u \in AllTasks : eventId'[u] <= lastEventId'
          BY <2>0, <4>2, <5>1, <5>2
        <5>5. \A u \in fresh' : eventId'[u] = 0
          BY <2>0, <3>1, <5>1 DEF IdsUnique
        <5>6. \A i \in eventIds' : \E u \in eventList' : eventId'[u] = i
          BY <2>0, <4>2, <5>1 DEF IdsUnique
        <5>7. QED BY <5>3, <5>4, <5>5, <5>6 DEF IdsUnique
      <4>5. StoppedIdGone'
        <5>1. \A u \in stopped : u # t /\ eventId'[u] = eventId[u]
          BY <2>0, <3>1, <4>2 DEF StoppedIdGone, IdsUnique
        <5>2. \A u \in stopped : eventId[u] # lastEventId + 1
          BY <2>0 DEF IdsUnique
        <5>3. QED BY <3>1, <4>2, <5>1, <5>2 DEF StoppedIdGone
      <4>6. QED BY <2>3, <3>1, <4>3, <4>4, <4>5
    <3>5. QED BY <3>3, <3>4
  <2>7. ASSUME NEW p \in Callers, NEW t \in Tasks, StopEvent(p, t) PROVE IdInv'
    <3>1. /\ UNCHANGED <<eventId, lastEventId, eventList, fresh, taskList, sTask, dTask, ran>>
          /\ eventId[t] \in eventIds /\ eventIds' = eventIds \ {eventId[t]}
          /\ stopped' = stopped \cup {t}
      BY <2>7 DEF StopEvent, dVars, objVars
    <3>2. t \in eventList
      <4>1. PICK u \in eventList : eventId[u] = eventId[t]
        BY <3>1 DEF IdsUnique
      <4>2. eventId[t] # 0 /\ u \in AllTasks /\ t \in AllTasks
        BY <2>0, <3>1
      <4>3. QED BY <4>1, <4>2 DEF IdsUnique
    <3>3. t \notin Queued \cup {sTask, dTask} \cup ran
      BY <2>0, <3>2 DEF OneOwner
    <3>4. StoppedNeverRuns' /\ StoppedIdGone'
      BY <2>0, <3>1, <3>3 DEF StoppedNeverRuns, StoppedIdGone, Queued
    <3>5. QED BY <3>1, <3>4 DEF IdsUnique, IdsLeft
  <2>8. CASE SchedulerPop
    <3>1. PICK t \in eventList :
            /\ eventList' = eventList \ {t}
            /\ IF eventId[t] \in eventIds
               THEN eventIds' = eventIds \ {eventId[t]} /\ sTask' = t
               ELSE eventIds' = eventIds /\ sTask' = sTask
      BY <2>8 DEF SchedulerPop
    <3>2. UNCHANGED <<eventId, lastEventId, fresh, taskList, dTask, ran, stopped>>
      BY <2>8 DEF SchedulerPop, dVars, objVars
    <3>3. StoppedNeverRuns' /\ StoppedIdGone'
      <4>1. \A u \in stopped : eventId[u] \notin eventIds /\ eventId[u] # 0
        BY DEF StoppedIdGone
      <4>2. ASSUME NEW u \in stopped PROVE u # sTask' /\ eventId'[u] \notin eventIds'
        BY <3>1, <3>2, <4>1 DEF StoppedNeverRuns
      <4>3. QED
        BY <2>0, <3>1, <3>2, <4>1, <4>2 DEF StoppedNeverRuns, StoppedIdGone, Queued
    <3>4. ASSUME NEW i \in eventIds' PROVE \E u \in eventList' : eventId'[u] = i
      <4>1. PICK u \in eventList : eventId[u] = i
        BY <3>1, <3>4 DEF IdsUnique
      <4>2. i # eventId[t]
        BY <3>1, <3>4
      <4>3. QED BY <3>1, <3>2, <4>1, <4>2
    <3>5. QED BY <3>2, <3>3, <3>4 DEF IdsUnique, IdsLeft
  <2>9. CASE SchedulerClear
    <3>1. /\ eventList' = {} /\ eventIds' = {} /\ ~SchedulerPop
          /\ UNCHANGED <<eventId, lastEventId, fresh, stopped>>
      BY <2>9 DEF SchedulerClear, SchedulerPop, objVars
    <3>2. QED BY <2>3, <3>1 DEF IdsUnique, IdsLeft, StoppedIdGone
  <2>10. CASE Tick \/ Notify \/ DispatcherThread \/ DispatcherSpurious
              \/ SchedulerSpurious
    <3>1. UNCHANGED <<eventId, lastEventId, eventIds, eventList, stopped, fresh>>
      BY <2>10 DEF Tick, Notify, NotifyDispatcher, NotifyScheduler,
         DispatcherThread, DispatcherCheck, DispatcherWait, DispatcherTake,
         DispatcherIdle, DispatcherExecute, DispatcherFinish,
         DispatcherSpurious, SchedulerSpurious, sVars, objVars, histVars
    <3>2. QED BY <2>4, <2>8, <3>1
  <2>11. CASE SchedulerCheck \/ SchedulerWait \/ SchedulerTimeout
              \/ SchedulerWoken \/ SchedulerPopEmpty \/ SchedulerHandoff
    <3>1. UNCHANGED <<eventId, lastEventId, eventIds, eventList, stopped, fresh>>
      BY <2>11 DEF SchedulerCheck, SchedulerWait, SchedulerTimeout,
         SchedulerWoken, SchedulerPopEmpty, SchedulerHandoff, objVars, histVars
    <3>2. QED BY <2>4, <2>8, <3>1
  <2>12. CASE \/ ShutdownPost \/ ShutdownStopScheduler \/ ShutdownStopDispatcher
              \/ SchedulerSetTerminated \/ SchedulerShutdownNotify
              \/ DispatcherShutdown \/ DispatcherTerminate \/ UNCHANGED vars
    <3>1. UNCHANGED <<eventId, lastEventId, eventIds, eventList, stopped, fresh>>
      BY <2>12 DEF ShutdownPost, ShutdownStopScheduler, ShutdownStopDispatcher,
         SchedulerSetTerminated, SchedulerShutdownNotify, DispatcherShutdown,
         DispatcherTerminate, vars, sVars, objVars, histVars
    <3>2. QED BY <2>4, <2>8, <3>1
  <2>13. QED
    BY <2>5, <2>6, <2>7, <2>8, <2>9, <2>10, <2>11, <2>12
    DEF Next, Call, SchedulerThread, Shutdown
<1>3. QED BY <1>1, <1>2, FreshInvariant, SingleOwner, PTL DEF Spec

\* Once stopEvent has answered true the event is never handed over, popped or
\* executed.
THEOREM StoppedStaysStopped ==
  ASSUME IsFiniteSet(Tasks), IdSpace > Cardinality(Tasks) + 1
  PROVE  Spec => []StoppedNeverRuns
<1>1. IdInv => StoppedNeverRuns
  BY DEF IdInv
<1>2. QED BY <1>1, IdInvariant, PTL

-----------------------------------------------------------------------------
(* Until a shutdown is ordered events are lost only by stopEvent.          *)

\* Before a shutdown is ordered both threads take what they are given.
RunningInv == shutStage = "none" => sState = "RUNNING" /\ dState = "RUNNING"

\* An event that has been handed over does not expire.
HandedOverLasts ==
  \A t \in Queued \cup {dTask} : t \in AllTasks /\ cycle[t] # 0 => expiration[t] = 0

\* An event of the heap keeps its id until it is stopped.
WaitingHasId ==
  shutStage = "none" => \A t \in eventList : eventId[t] \in eventIds \/ t \in stopped

LostInv == RunningInv /\ HandedOverLasts /\ WaitingHasId /\ NoEventLost

\* Every step keeps what is said of the running task.
LEMMA RunningKept == RunningInv /\ ShutdownUnborn /\ [Next]_vars => RunningInv'
<1> SUFFICES ASSUME RunningInv, ShutdownUnborn, [Next]_vars PROVE RunningInv'
  OBVIOUS
<1>1. CASE Shutdown
  <2>1. CASE ShutdownPost \/ ShutdownStopScheduler \/ ShutdownStopDispatcher
    BY <2>1 DEF RunningInv, ShutdownPost, ShutdownStopScheduler, ShutdownStopDispatcher
  <2>2. CASE SchedulerSetTerminated \/ SchedulerClear \/ SchedulerShutdownNotify
    BY <2>2 DEF RunningInv, SchedulerSetTerminated, SchedulerClear, SchedulerShutdownNotify
  <2>3. CASE DispatcherShutdown
    BY <2>3 DEF RunningInv, DispatcherShutdown
  <2>4. CASE DispatcherTerminate
    BY <2>4, TaskAssumption DEF RunningInv, DispatcherTerminate, ShutdownUnborn, Held, Out
  <2>5. QED BY <1>1, <2>1, <2>2, <2>3, <2>4 DEF Shutdown
<1>2. CASE ~Shutdown
  <2>1. UNCHANGED <<shutStage, sState, dState>>
    BY <1>2 DEF Next, vars, dVars, sVars, Tick, Call, Notify, DispatcherThread,
       SchedulerThread, AddTask, AddEvent, StopEvent, NotifyDispatcher,
       NotifyScheduler, DispatcherSpurious, DispatcherCheck, DispatcherWait,
       DispatcherTake, DispatcherIdle, DispatcherExecute, DispatcherFinish,
       SchedulerSpurious, SchedulerCheck, SchedulerWait, SchedulerTimeout,
       SchedulerWoken, SchedulerPop, SchedulerPopEmpty, SchedulerHandoff
  <2>2. QED BY <2>1 DEF RunningInv
<1>3. QED BY <1>1, <1>2

\* While no shutdown is ordered the dispatcher deletes no task it is handed.
LEMMA AddDeletesNothing ==
  ASSUME RunningInv, NEW p, NEW t, NEW front, DispatcherAdd(p, t, front), shutStage = "none"
  PROVE  deleted' = deleted
BY DEF RunningInv, DispatcherAdd

\* Until a shutdown is ordered an event is lost only by stopEvent, if the counter
\* of ids does not come round.
THEOREM EventsLostByStopOnly ==
  ASSUME IsFiniteSet(Tasks), IdSpace > Cardinality(Tasks) + 1
  PROVE  Spec => []NoEventLost
<1>1. Init => LostInv
  BY TaskAssumption DEF Init, LostInv, RunningInv, HandedOverLasts, WaitingHasId, NoEventLost, Queued
<1>2. TypeInv /\ FreshUntouched /\ NotEvents /\ OneOwner /\ ShutdownUnborn
      /\ IdInv /\ LostInv /\ [Next]_vars => LostInv'
  <2> SUFFICES ASSUME TypeInv, FreshUntouched, NotEvents, OneOwner, ShutdownUnborn,
                      IdInv, LostInv, [Next]_vars
               PROVE  LostInv'
    OBVIOUS
  <2> DEFINE Rest == HandedOverLasts' /\ WaitingHasId' /\ NoEventLost'
  <2>0. /\ fresh \subseteq Tasks /\ eventList \subseteq Tasks /\ stopped \subseteq Tasks
        /\ expiration \in [AllTasks -> Nat] /\ cycle \in [AllTasks -> Nat]
        /\ eventId \in [AllTasks -> Nat] /\ 0 \notin eventIds /\ Tasks \subseteq AllTasks
    BY BoundAssumption DEF TypeInv, TypeOK
  <2>1. /\ shutStage' = "none" => shutStage = "none"
        /\ RunningInv'
    BY StageStep, RunningKept DEF LostInv
  <2>2. ASSUME UNCHANGED <<expiration, cycle, eventId, eventIds, eventList, stopped, deleted>>,
               Queued' \cup {dTask'} \subseteq Queued \cup {dTask, NoTask}
        PROVE  Rest
    BY <2>1, <2>2, TaskAssumption DEF LostInv, HandedOverLasts, WaitingHasId, NoEventLost
  <2>3. ASSUME UNCHANGED <<taskList, dTask>> PROVE Queued' \cup {dTask'} = Queued \cup {dTask}
    BY <2>3 DEF Queued
  <2>4. ASSUME \/ Tick \/ Notify \/ DispatcherSpurious \/ SchedulerSpurious
               \/ SchedulerCheck \/ SchedulerWait \/ SchedulerTimeout
               \/ SchedulerWoken \/ SchedulerPopEmpty \/ UNCHANGED vars
        PROVE  Rest
    <3>1. UNCHANGED <<taskList, dTask, expiration, cycle, eventId, eventIds, eventList, stopped, deleted>>
      BY <2>4 DEF Tick, Notify, NotifyDispatcher, NotifyScheduler, DispatcherSpurious,
         SchedulerSpurious, SchedulerCheck, SchedulerWait, SchedulerTimeout, SchedulerWoken,
         SchedulerPopEmpty, vars, dVars, sVars, objVars, histVars
    <3>2. QED BY <2>2, <2>3, <3>1
  <2>5. ASSUME \/ DispatcherCheck \/ DispatcherWait \/ DispatcherIdle
               \/ DispatcherFinish \/ ShutdownStopScheduler
               \/ ShutdownStopDispatcher \/ SchedulerSetTerminated
               \/ SchedulerShutdownNotify \/ DispatcherTerminate
        PROVE  Rest
    <3>1. /\ UNCHANGED <<taskList, expiration, cycle, eventId, eventIds, eventList, stopped, deleted>>
          /\ dTask' \in {dTask, NoTask}
      BY <2>5 DEF DispatcherCheck, DispatcherWait, DispatcherIdle, DispatcherFinish,
         ShutdownStopScheduler, ShutdownStopDispatcher, SchedulerSetTerminated,
         SchedulerShutdownNotify, DispatcherTerminate, dVars, sVars, objVars, histVars
    <3>2. Queued' = Queued
      BY <3>1 DEF Queued
    <3>3. QED BY <2>2, <3>1, <3>2
  <2>6. ASSUME DispatcherTake PROVE Rest
    <3>1. /\ taskList # <<>> /\ dTask' = Head(taskList) /\ taskList' = Tail(taskList)
          /\ UNCHANGED <<expiration, cycle, eventId, eventIds, eventList, stopped, deleted>>
      BY <2>6 DEF DispatcherTake, sVars, objVars, histVars
    <3>2. Queued' \cup {dTask'} \subseteq Queued
      BY <3>1, TakeProperties DEF TypeInv, Queued
    <3>3. QED BY <2>2, <3>1, <3>2
  <2>7. ASSUME DispatcherExecute PROVE Rest
    <3>1. /\ dPc = "taken" /\ dTask \in AllTasks
          /\ UNCHANGED <<taskList, expiration, cycle, eventId, eventIds, eventList, stopped>>
      BY <2>7 DEF DispatcherExecute, TypeInv, HeldTasks, sVars, objVars
    <3>2. Queued' = Queued
      BY <3>1 DEF Queued
    <3>3. CASE HasExpired(dTask)
      <4>1. cycle[dTask] = 0
        BY <3>1, <3>3 DEF HasExpired, LostInv, HandedOverLasts
      <4>2. deleted' = deleted \cup {dTask} /\ dTask' = NoTask
        BY <2>7, <3>3 DEF DispatcherExecute
      <4>3. QED BY <2>1, <3>1, <3>2, <4>1, <4>2, TaskAssumption
                DEF LostInv, HandedOverLasts, WaitingHasId, NoEventLost
    <3>4. CASE ~HasExpired(dTask)
      BY <2>2, <2>7, <3>1, <3>2, <3>4 DEF DispatcherExecute
    <3>5. QED BY <3>3, <3>4
  <2>8. ASSUME NEW p \in Callers, NEW t \in Tasks, AddTask(p, t) PROVE Rest
    <3>1. /\ t \in fresh /\ DispatcherAdd(p, t, FALSE) /\ cycle[t] = 0 /\ t \notin eventList
          /\ UNCHANGED <<cycle, eventId, eventIds, eventList, stopped, dTask>>
          /\ \A u \in AllTasks \ {t} : expiration'[u] = expiration[u]
      BY <2>0, <2>8 DEF AddTask, sVars, FreshUntouched, Held
    <3>2. Queued' \subseteq Queued \cup {t}
      BY <3>1, DispatcherAddProperties DEF TypeInv
    <3>3. HandedOverLasts'
      BY <3>1, <3>2 DEF LostInv, HandedOverLasts
    <3>4. shutStage = "none" => deleted' = deleted
      BY <3>1, AddDeletesNothing DEF LostInv
    <3>5. QED BY <2>1, <3>1, <3>3, <3>4 DEF LostInv, WaitingHasId, NoEventLost
  <2>9. ASSUME NEW p \in Callers, NEW t \in Tasks, AddEvent(p, t) PROVE Rest
    <3>1. /\ t \in fresh /\ t \notin Queued \cup {dTask} /\ t \notin eventList
          /\ UNCHANGED <<taskList, dTask, stopped, shutStage>>
          /\ \A u \in AllTasks \ {t} : expiration'[u] = expiration[u] /\ cycle'[u] = cycle[u]
      BY <2>0, <2>9 DEF AddEvent, dVars, FreshUntouched, Held, Out
    <3>2. HandedOverLasts'
      BY <2>3, <3>1 DEF LostInv, HandedOverLasts
    <3>3. ASSUME shutStage = "none"
          PROVE  /\ deleted' = deleted /\ eventList' = eventList \cup {t}
                 /\ eventIds \subseteq eventIds' /\ eventId'[t] \in eventIds'
                 /\ \A u \in eventList : eventId'[u] = eventId[u]
      BY <2>0, <2>9, <3>1, <3>3 DEF AddEvent, LostInv, RunningInv
    <3>4. WaitingHasId'
      BY <3>1, <3>3 DEF LostInv, WaitingHasId
    <3>5. t \notin deleted
      BY <3>1, <2>0 DEF OneOwner
    <3>6. NoEventLost'
      <4> SUFFICES ASSUME shutStage = "none", NEW u \in deleted, cycle'[u] # 0 PROVE u \in stopped
        BY <3>1, <3>3 DEF NoEventLost
      <4>1. u # t /\ u \in AllTasks
        BY <3>5 DEF TypeInv, TypeOK
      <4>2. QED BY <3>1, <4>1 DEF LostInv, NoEventLost
    <3>7. QED BY <3>2, <3>4, <3>6
  <2>10. ASSUME NEW p \in Callers, NEW t \in Tasks, StopEvent(p, t) PROVE Rest
    <3>1. /\ eventId[t] \in eventIds /\ eventIds' = eventIds \ {eventId[t]}
          /\ stopped' = stopped \cup {t}
          /\ UNCHANGED <<taskList, dTask, expiration, cycle, eventId, eventList, deleted, shutStage>>
      BY <2>10 DEF StopEvent, dVars, objVars
    <3>2. HandedOverLasts' /\ NoEventLost'
      BY <2>3, <3>1 DEF LostInv, HandedOverLasts, NoEventLost
    <3>3. \A u \in eventList : eventId[u] = eventId[t] => u = t
      BY <2>0, <3>1 DEF IdInv, IdsUnique
    <3>4. WaitingHasId'
      BY <3>1, <3>3 DEF LostInv, WaitingHasId
    <3>5. QED BY <3>2, <3>4
  <2>11. ASSUME SchedulerPop PROVE Rest
    <3>1. PICK t \in eventList :
            /\ eventList' = eventList \ {t}
            /\ IF eventId[t] \in eventIds
               THEN eventIds' = eventIds \ {eventId[t]} /\ deleted' = deleted
               ELSE eventIds' = eventIds /\ deleted' = deleted \cup {t}
      BY <2>11 DEF SchedulerPop
    <3>2. UNCHANGED <<taskList, dTask, expiration, cycle, eventId, stopped, shutStage>>
      BY <2>11 DEF SchedulerPop, dVars, objVars
    <3>3. HandedOverLasts'
      BY <2>3, <3>2 DEF LostInv, HandedOverLasts
    <3>4. WaitingHasId'
      <4>1. \A u \in eventList : eventId[u] = eventId[t] /\ eventId[t] \in eventIds => u = t
        BY <2>0 DEF IdInv, IdsUnique
      <4>2. QED BY <3>1, <3>2, <4>1 DEF LostInv, WaitingHasId
    <3>5. NoEventLost'
      BY <3>1, <3>2 DEF LostInv, WaitingHasId, NoEventLost
    <3>6. QED BY <3>3, <3>4, <3>5
  <2>12. ASSUME SchedulerHandoff PROVE Rest
    <3>1. /\ sTask \in Tasks /\ DispatcherAdd(Sched, sTask, TRUE)
          /\ expiration' = [expiration EXCEPT ![sTask] = 0]
          /\ UNCHANGED <<cycle, eventId, eventIds, eventList, stopped, dTask, shutStage>>
      BY <2>12 DEF SchedulerHandoff, TypeInv, HeldTasks
    <3>2. Queued' \subseteq Queued \cup {sTask}
      BY <2>0, <3>1, DispatcherAddProperties DEF TypeInv
    <3>3. HandedOverLasts'
      BY <2>0, <3>1, <3>2 DEF LostInv, HandedOverLasts
    <3>4. shutStage = "none" => deleted' = deleted
      BY <3>1, AddDeletesNothing DEF LostInv
    <3>5. QED BY <3>1, <3>3, <3>4 DEF LostInv, WaitingHasId, NoEventLost
  <2>13. ASSUME ShutdownPost \/ SchedulerClear \/ DispatcherShutdown PROVE Rest
    <3>1. shutStage' # "none" /\ UNCHANGED <<expiration, cycle>>
      BY <2>13 DEF ShutdownPost, SchedulerClear, DispatcherShutdown, objVars
    <3>2. Queued' \cup {dTask'} \subseteq Queued \cup {dTask, NoTask, ShutdownTask, TerminateTask}
      <4>1. CASE ShutdownPost
        <5>1. DispatcherAdd(Disp, ShutdownTask, FALSE) /\ dTask' = dTask
          BY <4>1 DEF ShutdownPost
        <5>2. QED BY <5>1, DispatcherAddProperties DEF TypeInv
      <4>2. CASE SchedulerClear
        BY <2>3, <4>2 DEF SchedulerClear, dVars
      <4>3. CASE DispatcherShutdown
        <5>1. taskList' = Pushed(TerminateTask, FALSE) /\ dTask' = NoTask
          BY <4>3 DEF DispatcherShutdown, Pushed
        <5>2. taskList \in Seq(AllTasks)
          BY DEF TypeInv, TypeOK
        <5>3. Queued' = {Pushed(TerminateTask, FALSE)[i] : i \in DOMAIN Pushed(TerminateTask, FALSE)}
          BY <5>1, Zenon DEF Queued
        <5>4. Queued' \subseteq Queued \cup {TerminateTask}
          BY <5>2, <5>3, PushedElements
        <5>5. QED BY <5>1, <5>4
      <4>4. QED BY <2>13, <4>1, <4>2, <4>3
    <3>3. HandedOverLasts'
      BY <3>1, <3>2, TaskAssumption DEF LostInv, HandedOverLasts, NotEvents
    <3>4. QED BY <3>1, <3>3 DEF WaitingHasId, NoEventLost
  <2>14. Rest
    BY <2>4, <2>5, <2>6, <2>7, <2>8, <2>9, <2>10, <2>11, <2>12, <2>13
    DEF Next, Call, DispatcherThread, SchedulerThread, Shutdown
  <2>15. QED BY <2>1, <2>14 DEF LostInv
<1>3. LostInv => NoEventLost
  BY DEF LostInv
<1>4. QED BY <1>1, <1>2, <1>3, FreshInvariant, UnbornInvariant, SingleOwner, IdInvariant, PTL DEF Spec
=============================================================================
