CONSTANTS
  Tasks = {t1, t2}
  Producers = {io}
  Disp = disp
  Sched = sched
  ShutdownTask = shutdownTask
  TerminateTask = terminateTask
  NoTask = noTask
  TaskExpiration = 1
  IdSpace = 8
  MaxTime = 2
  MaxDelay = 1
SPECIFICATION FairSpec
CHECK_DEADLOCK FALSE
INVARIANTS
  NoLostWakeup
  OneOwner
  NeverEarly
  StoppedNeverRuns
  NoEventLost
PROPERTIES
  EverythingServed
