--------------------------- MODULE ServicesProofs ---------------------------
(***************************************************************************)
(* Proofs about three services that outlive a task.                        *)
(*                                                                         *)
(* DatabaseTasks, for any set of queries: they are run once, in order, and *)
(* none is lost between the queue and the thread.  The queue is always the *)
(* end of the sequence of accepted queries, so how many have left it is a  *)
(* number, Taken; those have been run, but for the one the worker holds,   *)
(* which is the last of them unless a shutdown has begun to run the rest.  *)
(*                                                                         *)
(* WaitList, for any clients, privileges and limits: the line holds nobody *)
(* twice and nobody who is online, keeps the place of whoever comes back   *)
(* in time, and lets nobody be overtaken.  What a list keeps of another is *)
(* described by the rank of the places kept (Ranks, Keeps): the order      *)
(* stays, without gaps.  That the place the code answers is the number of  *)
(* clients ahead is then a matter of counting (CountsAhead).               *)
(*                                                                         *)
(* ClientView, for any line of tiles, sight, things and limits: the client *)
(* shows what the player sees.  A message names a place, and it is right   *)
(* because the list before and the list after split around one thing       *)
(* (Inserted), also once the things the player does not see are stripped   *)
(* and the rest is cut to what the client keeps.  Stripping and meeting    *)
(* are folds, followed thing by thing; a cell is Fine or behind; then one  *)
(* lemma per message, and one per action, of what it makes of the cells    *)
(* it touches and of what it leaves alone.                                 *)
(***************************************************************************)
EXTENDS WaitList, DatabaseTasks, ClientView, SequenceTheorems, FiniteSetTheorems, WellFoundedInduction, TLAPS

-----------------------------------------------------------------------------
(* Queries of the database thread                                          *)

DbTypeOK ==
  /\ dbState \in {"running", "terminated"} /\ dbLock \in {Dispatcher, Free}
  /\ dbQueue \in Seq(Query) /\ accepted \in Seq(Query) /\ ran \in Seq(Query)
  /\ workerPc \in {"test", "lock", "waiting", "woken", "run", "done"}
  /\ callerPc \in {"idle", "adding", "signal", "flush", "shut"}
  /\ workerHolds \in Query \cup {NoQuery} /\ callerAdds \in Query \cup {NoQuery}
  /\ asked \subseteq Query /\ overtaken \in Query \cup {NoQuery}

\* The lock is held by the dispatcher from one of its steps to a later one.
LockInv == (dbLock = Dispatcher <=> callerPc \in {"adding", "flush"})

HoldInv == (workerPc = "run" <=> workerHolds # NoQuery)

\* A query is asked for once, so it is accepted once.
AskedInv ==
  /\ \A i \in DOMAIN accepted : accepted[i] \in asked
  /\ callerPc = "adding" => /\ callerAdds \in asked
                            /\ \A i \in DOMAIN accepted : accepted[i] # callerAdds
  /\ IsInjective(accepted)

Taken == Len(accepted) - Len(dbQueue)

QueueIsTheEnd ==
  /\ Taken \in Nat
  /\ \A i \in 1..Len(dbQueue) : dbQueue[i] = accepted[Taken + i]

\* What has been taken has been run or is held, and nothing else has been run.
TakenRan ==
  /\ IsInjective(ran)
  /\ \A i \in DOMAIN ran : \E a \in 1..Taken : ran[i] = accepted[a]
  /\ \A a \in 1..Taken : accepted[a] = workerHolds \/ \E i \in DOMAIN ran : ran[i] = accepted[a]
  /\ workerHolds # NoQuery => /\ \A i \in DOMAIN ran : ran[i] # workerHolds
                              /\ \E a \in 1..Taken : accepted[a] = workerHolds

\* The query the worker holds is the last one taken, or was overtaken.
HeldIsLast ==
  /\ workerHolds \in {NoQuery, overtaken} \/ (Taken > 0 /\ accepted[Taken] = workerHolds)
  /\ callerPc = "flush" => workerHolds \in {NoQuery, overtaken}

InOrder ==
  \A i, j \in DOMAIN ran : i < j /\ overtaken \notin {ran[i], ran[j]} =>
    \E a, b \in DOMAIN accepted : accepted[a] = ran[i] /\ accepted[b] = ran[j] /\ a < b

DbInv == DbTypeOK /\ LockInv /\ HoldInv /\ AskedInv /\ QueueIsTheEnd /\ TakenRan /\ HeldIsLast /\ InOrder

USE DbAssumption

-----------------------------------------------------------------------------
(* Sequences                                                               *)

\* The invariant speaks of positions only, so it says of sequences this.
LEMMA Ends ==
  ASSUME NEW s \in Seq(Query), NEW q \in Query
  PROVE  /\ Append(s, q) \in Seq(Query) /\ Len(s) \in Nat /\ DOMAIN s = 1..Len(s)
         /\ Len(Append(s, q)) = Len(s) + 1 /\ DOMAIN Append(s, q) = 1..(Len(s) + 1)
         /\ \A i \in 1..Len(s) : Append(s, q)[i] = s[i] /\ s[i] \in Query
         /\ Append(s, q)[Len(s) + 1] = q
BY AppendProperties, LenProperties, ElementOfSeq, SMTT(30)

\* The first state satisfies the invariants.
LEMMA Begins ==
  ASSUME NEW s \in Seq(Query), s # <<>>
  PROVE  /\ Tail(s) \in Seq(Query) /\ Head(s) \in Query /\ Head(s) = s[1]
         /\ Len(s) \in Nat /\ Len(s) > 0 /\ Len(Tail(s)) = Len(s) - 1
         /\ \A i \in 1..(Len(s) - 1) : Tail(s)[i] = s[i + 1]
BY EmptySeq, LenProperties, HeadTailProperties, SMTT(30)

\* A query that leaves the queue is the next one of the accepted.
LEMMA TakeHead ==
  ASSUME DbTypeOK, QueueIsTheEnd, dbQueue # <<>>, dbQueue' = Tail(dbQueue), accepted' = accepted
  PROVE  /\ QueueIsTheEnd' /\ Taken' = Taken + 1 /\ Taken \in Nat
         /\ Head(dbQueue) \in Query /\ Head(dbQueue) = accepted[Taken + 1]
         /\ Taken + 1 \in DOMAIN accepted /\ dbQueue' \in Seq(Query)
         /\ DOMAIN accepted = 1..Len(accepted)
<1>1. dbQueue \in Seq(Query) /\ accepted \in Seq(Query) /\ Len(accepted) \in Nat /\ DOMAIN accepted = 1..Len(accepted)
  BY LenProperties DEF DbTypeOK
<1>2. /\ Tail(dbQueue) \in Seq(Query) /\ Head(dbQueue) \in Query /\ Head(dbQueue) = dbQueue[1]
      /\ Len(dbQueue) \in Nat /\ Len(dbQueue) > 0 /\ Len(Tail(dbQueue)) = Len(dbQueue) - 1
      /\ \A i \in 1..(Len(dbQueue) - 1) : Tail(dbQueue)[i] = dbQueue[i + 1]
  BY <1>1, Begins
<1>3. Taken \in Nat /\ Taken' = Taken + 1 /\ Taken + Len(dbQueue) = Len(accepted)
  BY <1>1, <1>2 DEF QueueIsTheEnd, Taken
<1>4. Head(dbQueue) = accepted[Taken + 1]
  BY <1>2 DEF QueueIsTheEnd
<1>5. Taken + 1 \in DOMAIN accepted
  BY <1>1, <1>2, <1>3
<1>6. QueueIsTheEnd'
  <2> SUFFICES ASSUME NEW i \in 1..(Len(dbQueue) - 1) PROVE dbQueue'[i] = accepted[Taken + 1 + i]
    <3>1. Taken' \in Nat /\ Len(dbQueue') = Len(dbQueue) - 1
      BY <1>2, <1>3
    <3> HIDE DEF Taken
    <3> QED BY <1>3, <3>1 DEF QueueIsTheEnd
  <2>1. i + 1 \in 1..Len(dbQueue) /\ Taken + (i + 1) = Taken + 1 + i
    BY <1>2, <1>3
  <2>2. dbQueue'[i] = dbQueue[i + 1]
    BY <1>2
  <2>3. dbQueue[i + 1] = accepted[Taken + (i + 1)]
    BY <2>1 DEF QueueIsTheEnd
  <2> QED BY <2>1, <2>2, <2>3
<1> QED BY <1>1, <1>2, <1>3, <1>4, <1>5, <1>6

\* A query that is run keeps the order if every other one that has been run, but
\* for the overtaken one, was accepted before it.
LEMMA RunInOrder ==
  ASSUME DbTypeOK, InOrder, IsInjective(ran), NEW q \in Query, ran' = Append(ran, q),
         UNCHANGED <<accepted, overtaken>>, \A i \in DOMAIN ran : ran[i] # q,
         NEW b \in DOMAIN accepted, accepted[b] = q,
         q # overtaken =>
           \A i \in DOMAIN ran : \E a \in DOMAIN accepted : accepted[a] = ran[i] /\ a < b
  PROVE  InOrder' /\ IsInjective(ran')
<1>1. /\ Len(ran) \in Nat /\ DOMAIN ran = 1..Len(ran) /\ DOMAIN ran' = 1..(Len(ran) + 1)
      /\ \A i \in DOMAIN ran : ran'[i] = ran[i]
      /\ ran'[Len(ran) + 1] = q
  BY Ends DEF DbTypeOK
<1>2. DOMAIN ran' = DOMAIN ran \cup {Len(ran) + 1} /\ \A i \in DOMAIN ran : i < Len(ran) + 1
  BY <1>1
<1>3. IsInjective(ran')
  BY <1>1, <1>2 DEF IsInjective
<1>4. InOrder'
  <2> SUFFICES ASSUME NEW i \in DOMAIN ran', NEW j \in DOMAIN ran', i < j, overtaken \notin {ran'[i], ran'[j]}
               PROVE  \E a, c \in DOMAIN accepted : accepted[a] = ran'[i] /\ accepted[c] = ran'[j] /\ a < c
    BY DEF InOrder
  <2>1. i \in DOMAIN ran
    BY <1>1, <1>2
  <2>2. CASE j \in DOMAIN ran
    BY <1>1, <2>1, <2>2 DEF InOrder
  <2>3. CASE j = Len(ran) + 1
    <3>1. ran'[j] = q /\ q # overtaken /\ ran'[i] = ran[i]
      BY <1>1, <2>1, <2>3
    <3> QED BY <2>1, <3>1
  <2> QED BY <1>2, <2>2, <2>3
<1> QED BY <1>3, <1>4

-----------------------------------------------------------------------------
(* The steps                                                               *)

\* What the pcs and the lock need, of every step.
LEMMA ThreadsKept ==
  ASSUME DbInv, [DbNext]_dbVars
  PROVE  LockInv' /\ HoldInv'
<1> USE DEF callerVars, history, dbVars
<1>1. CASE WorkerTests
  BY <1>1 DEF WorkerTests, DbInv, LockInv, HoldInv
<1>2. CASE WorkerLocks
  <2>1. dbQueue # <<>> => Head(dbQueue) \in Query
    BY Begins DEF DbInv, DbTypeOK
  <2> QED BY <1>2, <2>1 DEF WorkerLocks, DbInv, LockInv, HoldInv
<1>3. CASE WorkerRuns
  BY <1>3 DEF WorkerRuns, DbInv, LockInv, HoldInv
<1>4. CASE \E q \in Query : AddTask(q)
  BY <1>4 DEF AddTask, DbInv, LockInv, HoldInv
<1>5. CASE Queue \/ Flush \/ Flushed \/ Shutdown
  BY <1>5 DEF Queue, Flush, Flushed, Shutdown, DbInv, LockInv, HoldInv
<1>6. CASE Signal \/ ShutdownSignals
  BY <1>6 DEF Signal, ShutdownSignals, NotifyOne, DbInv, LockInv, HoldInv
<1>7. CASE UNCHANGED dbVars
  BY <1>7 DEF DbInv, LockInv, HoldInv
<1> QED BY <1>1, <1>2, <1>3, <1>4, <1>5, <1>6, <1>7 DEF DbNext, WorkerNext, CallerStep

\* Every step keeps the types.
LEMMA TypesKept ==
  ASSUME DbTypeOK, HoldInv, LockInv, callerPc = "adding" => callerAdds \in Query, [DbNext]_dbVars
  PROVE  DbTypeOK'
<1> USE DEF callerVars, history, dbVars
<1>1. CASE WorkerTests \/ (\E q \in Query : AddTask(q)) \/ Flushed \/ Shutdown
  BY <1>1 DEF WorkerTests, AddTask, Flushed, Shutdown, DbTypeOK
<1>2. CASE WorkerLocks
  BY <1>2, Begins DEF WorkerLocks, DbTypeOK
<1>3. CASE WorkerRuns
  <2>1. workerHolds \in Query
    BY <1>3 DEF WorkerRuns, HoldInv, DbTypeOK
  <2>2. ran' = Append(ran, workerHolds) /\ ran' \in Seq(Query)
    BY <1>3, <2>1, Ends DEF WorkerRuns, RunTask, DbTypeOK
  <2> QED BY <1>3, <2>2 DEF WorkerRuns, DbTypeOK
<1>4. CASE Queue
  <2>1. dbQueue' \in Seq(Query) /\ accepted' \in Seq(Query)
    <3>1. callerAdds \in Query
      BY <1>4 DEF Queue
    <3>2. Append(dbQueue, callerAdds) \in Seq(Query) /\ Append(accepted, callerAdds) \in Seq(Query)
      BY <3>1, Ends DEF DbTypeOK
    <3> QED BY <1>4, <3>2 DEF Queue, DbTypeOK
  <2> QED BY <1>4, <2>1 DEF Queue, DbTypeOK
<1>5. CASE Flush
  BY <1>5, Ends, Begins DEF Flush, RunTask, DbTypeOK
<1>6. CASE Signal \/ ShutdownSignals
  BY <1>6 DEF Signal, ShutdownSignals, NotifyOne, DbTypeOK
<1>7. CASE UNCHANGED dbVars
  BY <1>7 DEF DbTypeOK
<1> QED BY <1>1, <1>2, <1>3, <1>4, <1>5, <1>6, <1>7 DEF DbNext, WorkerNext, CallerStep

\* A step that takes, queues and runs nothing.
LEMMA NothingMoves ==
  ASSUME DbInv, UNCHANGED <<dbQueue, accepted, ran, workerHolds, overtaken>>,
         callerPc' = "flush" => callerPc = "flush",
         (UNCHANGED <<asked, callerPc, callerAdds>>) \/ (asked \subseteq asked' /\ callerPc' # "adding")
  PROVE  AskedInv' /\ QueueIsTheEnd' /\ TakenRan' /\ HeldIsLast' /\ InOrder'
<1>1. Taken' = Taken
  BY DEF Taken
<1>2. AskedInv'
  BY DEF DbInv, AskedInv, IsInjective
<1> QED BY <1>1, <1>2 DEF DbInv, QueueIsTheEnd, TakenRan, HeldIsLast, InOrder, IsInjective

\* The worker takes the head of the queue.
LEMMA TakeKept ==
  ASSUME DbInv, WorkerLocks
  PROVE  AskedInv' /\ QueueIsTheEnd' /\ TakenRan' /\ HeldIsLast' /\ InOrder'
<1> USE DEF callerVars, history
<1>1. CASE dbQueue = <<>>
  BY <1>1, NothingMoves DEF WorkerLocks
<1>2. CASE dbQueue # <<>>
  <2>1. /\ workerHolds' = Head(dbQueue) /\ dbQueue' = Tail(dbQueue) /\ workerHolds = NoQuery
        /\ callerPc # "flush"
        /\ UNCHANGED <<accepted, ran, overtaken, asked, callerPc, callerAdds>>
    BY <1>2 DEF WorkerLocks, DbInv, HoldInv, LockInv
  <2>2. /\ QueueIsTheEnd' /\ Taken' = Taken + 1 /\ Taken \in Nat
        /\ Head(dbQueue) \in Query /\ Head(dbQueue) = accepted[Taken + 1]
        /\ Taken + 1 \in DOMAIN accepted /\ DOMAIN accepted = 1..Len(accepted)
    BY <1>2, <2>1, TakeHead DEF DbInv
  <2>3. Len(accepted) \in Nat
    BY LenProperties DEF DbInv, DbTypeOK
  <2>4. \A a \in 1..Taken' : a = Taken + 1 \/ (a \in 1..Taken /\ a \in DOMAIN accepted /\ a # Taken + 1)
    BY <2>2, <2>3
  <2>5. \A a \in 1..Taken : a \in 1..Taken' /\ a \in DOMAIN accepted /\ a # Taken + 1
    BY <2>2, <2>3
  <2>6. Taken + 1 \in 1..Taken' /\ Taken' > 0
    BY <2>2
  <2>7. AskedInv' /\ InOrder'
    BY <2>1 DEF DbInv, AskedInv, InOrder, IsInjective
  <2>8. \A i \in DOMAIN ran : ran[i] # Head(dbQueue)
    BY <2>2, <2>5 DEF DbInv, TakenRan, AskedInv, IsInjective
  <2>9. \A a \in 1..Taken : \E i \in DOMAIN ran : ran[i] = accepted[a]
    <3> SUFFICES ASSUME NEW a \in 1..Taken, accepted[a] = NoQuery PROVE FALSE
      BY <2>1 DEF DbInv, TakenRan
    <3>1. accepted[a] \in Query
      BY <2>5, ElementOfSeq DEF DbInv, DbTypeOK
    <3> QED BY <3>1
  <2>10. TakenRan'
    <3>1. IsInjective(ran') /\ \A i \in DOMAIN ran' : \E a \in 1..Taken' : ran'[i] = accepted'[a]
      BY <2>1, <2>5 DEF DbInv, TakenRan
    <3>2. \A a \in 1..Taken' : accepted'[a] = workerHolds' \/ \E i \in DOMAIN ran' : ran'[i] = accepted'[a]
      BY <2>1, <2>2, <2>4, <2>9
    <3>3. (\A i \in DOMAIN ran' : ran'[i] # workerHolds') /\ \E a \in 1..Taken' : accepted'[a] = workerHolds'
      BY <2>1, <2>2, <2>6, <2>8
    <3> QED BY <3>1, <3>2, <3>3 DEF TakenRan
  <2>11. HeldIsLast'
    BY <2>1, <2>2, <2>6 DEF HeldIsLast
  <2> QED BY <2>2, <2>7, <2>10, <2>11
<1> QED BY <1>1, <1>2

\* The worker runs the query it holds.
LEMMA WorkerRunsKept ==
  ASSUME DbInv, WorkerRuns
  PROVE  AskedInv' /\ QueueIsTheEnd' /\ TakenRan' /\ HeldIsLast' /\ InOrder'
<1> USE DEF callerVars, history
<1> DEFINE h == workerHolds
<1>1. /\ ran' = Append(ran, h) /\ workerHolds' = NoQuery /\ h \in Query /\ h # NoQuery
      /\ UNCHANGED <<dbQueue, accepted, overtaken, asked, callerPc, callerAdds>>
  BY DEF WorkerRuns, RunTask, DbInv, HoldInv, DbTypeOK
<1>2. /\ Len(ran) \in Nat /\ DOMAIN ran = 1..Len(ran) /\ DOMAIN ran' = 1..(Len(ran) + 1)
      /\ \A i \in DOMAIN ran : ran'[i] = ran[i]
      /\ ran'[Len(ran) + 1] = h
  BY <1>1, Ends DEF DbInv, DbTypeOK
<1>3. DOMAIN ran' = DOMAIN ran \cup {Len(ran) + 1}
  BY <1>2
<1>4. Taken' = Taken /\ AskedInv' /\ QueueIsTheEnd' /\ HeldIsLast'
  <2>1. Taken' = Taken
    BY <1>1 DEF Taken
  <2> QED BY <1>1, <2>1 DEF DbInv, AskedInv, QueueIsTheEnd, HeldIsLast, IsInjective
<1>5. Taken \in Nat /\ (\A a \in 1..Taken : a \in DOMAIN accepted) /\ DOMAIN accepted = 1..Len(accepted)
  <2>1. Len(accepted) \in Nat /\ Len(dbQueue) \in Nat /\ DOMAIN accepted = 1..Len(accepted)
    BY LenProperties DEF DbInv, DbTypeOK
  <2>2. Taken \in Nat
    BY DEF DbInv, QueueIsTheEnd
  <2> QED BY <2>1, <2>2 DEF Taken
<1>6. PICK b \in 1..Taken : accepted[b] = h
  BY <1>1 DEF DbInv, TakenRan
<1>7. \A i \in DOMAIN ran : ran[i] # h /\ \E a \in 1..Taken : ran[i] = accepted[a]
  BY <1>1 DEF DbInv, TakenRan
<1>8. h # overtaken => \A i \in DOMAIN ran : \E a \in DOMAIN accepted : accepted[a] = ran[i] /\ a < b
  <2> SUFFICES ASSUME h # overtaken, NEW i \in DOMAIN ran
               PROVE  \E a \in DOMAIN accepted : accepted[a] = ran[i] /\ a < b
    OBVIOUS
  <2>1. Taken > 0 /\ accepted[Taken] = h /\ Taken \in DOMAIN accepted
    BY <1>1, <1>5 DEF DbInv, HeldIsLast
  <2>2. b = Taken
    BY <1>5, <1>6, <2>1 DEF DbInv, AskedInv, IsInjective
  <2>3. PICK a \in 1..Taken : ran[i] = accepted[a]
    BY <1>7
  <2>4. a # b
    BY <1>6, <1>7, <2>3
  <2> QED BY <1>5, <2>2, <2>3, <2>4
<1>9. InOrder' /\ IsInjective(ran')
  BY <1>1, <1>5, <1>6, <1>7, <1>8, RunInOrder DEF DbInv, TakenRan
<1>10. TakenRan'
  <2>1. \A i \in DOMAIN ran' : \E a \in 1..Taken' : ran'[i] = accepted'[a]
    BY <1>1, <1>2, <1>3, <1>4, <1>6, <1>7
  <2>2. \A a \in 1..Taken' : accepted'[a] = workerHolds' \/ \E i \in DOMAIN ran' : ran'[i] = accepted'[a]
    BY <1>1, <1>2, <1>3, <1>4 DEF DbInv, TakenRan
  <2> QED BY <1>1, <1>9, <2>1, <2>2 DEF TakenRan
<1> QED BY <1>4, <1>9, <1>10

\* The shutdown runs the head of the queue.
LEMMA FlushKept ==
  ASSUME DbInv, Flush
  PROVE  AskedInv' /\ QueueIsTheEnd' /\ TakenRan' /\ HeldIsLast' /\ InOrder'
<1> USE DEF callerVars, history
<1> DEFINE q == Head(dbQueue)
<1>1. /\ dbQueue # <<>> /\ ran' = Append(ran, q) /\ dbQueue' = Tail(dbQueue) /\ callerPc = "flush"
      /\ UNCHANGED <<accepted, overtaken, asked, callerPc, callerAdds, workerHolds>>
  BY DEF Flush, RunTask
<1>2. /\ QueueIsTheEnd' /\ Taken' = Taken + 1 /\ Taken \in Nat
      /\ q \in Query /\ q = accepted[Taken + 1]
      /\ Taken + 1 \in DOMAIN accepted /\ DOMAIN accepted = 1..Len(accepted)
  BY <1>1, TakeHead DEF DbInv
<1> HIDE DEF q
<1>3. /\ Len(ran) \in Nat /\ DOMAIN ran = 1..Len(ran) /\ DOMAIN ran' = 1..(Len(ran) + 1)
      /\ \A i \in DOMAIN ran : ran'[i] = ran[i]
      /\ ran'[Len(ran) + 1] = q
  BY <1>1, <1>2, Ends DEF DbInv, DbTypeOK
<1>4. DOMAIN ran' = DOMAIN ran \cup {Len(ran) + 1}
  BY <1>3
<1>5. Len(accepted) \in Nat
  BY LenProperties DEF DbInv, DbTypeOK
<1>6. \A a \in 1..Taken : a \in 1..Taken' /\ a \in DOMAIN accepted /\ a < Taken + 1 /\ a # Taken + 1
  BY <1>2, <1>5
<1>7. \A a \in 1..Taken' : a = Taken + 1 \/ a \in 1..Taken
  BY <1>2
<1>8. \A i \in DOMAIN ran : \E a \in 1..Taken : ran[i] = accepted[a]
  BY DEF DbInv, TakenRan
<1>9. \A a \in 1..Taken : accepted[a] # q
  BY <1>2, <1>6 DEF DbInv, AskedInv, IsInjective
<1>10. InOrder' /\ IsInjective(ran')
  <2>1. \A i \in DOMAIN ran : ran[i] # q
    BY <1>8, <1>9
  <2>2. \A i \in DOMAIN ran : \E a \in DOMAIN accepted : accepted[a] = ran[i] /\ a < Taken + 1
    BY <1>6, <1>8
  <2> QED BY <1>1, <1>2, <2>1, <2>2, RunInOrder DEF DbInv, TakenRan
<1>11. TakenRan'
  <2>1. \A i \in DOMAIN ran' : \E a \in 1..Taken' : ran'[i] = accepted'[a]
    <3>1. Taken + 1 \in 1..Taken'
      BY <1>2
    <3> QED BY <1>1, <1>2, <1>3, <1>4, <1>6, <1>8, <3>1
  <2>2. \A a \in 1..Taken' : accepted'[a] = workerHolds' \/ \E i \in DOMAIN ran' : ran'[i] = accepted'[a]
    <3>1. \A a \in 1..Taken : accepted[a] = workerHolds \/ \E i \in DOMAIN ran : ran[i] = accepted[a]
      BY DEF DbInv, TakenRan
    <3>2. \E i \in DOMAIN ran' : ran'[i] = accepted[Taken + 1]
      BY <1>2, <1>3, <1>4
    <3> QED BY <1>1, <1>3, <1>4, <1>7, <3>1, <3>2
  <2>3. workerHolds' # NoQuery => /\ \A i \in DOMAIN ran' : ran'[i] # workerHolds'
                                  /\ \E a \in 1..Taken' : accepted'[a] = workerHolds'
    <3>1. workerHolds # NoQuery => /\ \A i \in DOMAIN ran : ran[i] # workerHolds
                                   /\ \E a \in 1..Taken : accepted[a] = workerHolds
      BY DEF DbInv, TakenRan
    <3> QED BY <1>1, <1>3, <1>4, <1>6, <1>9, <3>1
  <2> QED BY <1>10, <2>1, <2>2, <2>3 DEF TakenRan
<1>12. AskedInv' /\ HeldIsLast'
  BY <1>1 DEF DbInv, AskedInv, HeldIsLast, IsInjective
<1> QED BY <1>2, <1>10, <1>11, <1>12

\* A query is accepted at the end of both sequences.
LEMMA QueueKept ==
  ASSUME DbInv, Queue
  PROVE  AskedInv' /\ QueueIsTheEnd' /\ TakenRan' /\ HeldIsLast' /\ InOrder'
<1> USE DEF callerVars, history
<1>1. CASE dbState # "running"
  BY <1>1, NothingMoves DEF Queue, DbInv, DbTypeOK
<1>2. CASE dbState = "running"
  <2> DEFINE q == callerAdds
  <2>1. /\ dbQueue' = Append(dbQueue, q) /\ accepted' = Append(accepted, q) /\ callerPc' = "signal"
        /\ UNCHANGED <<ran, overtaken, asked, callerAdds, workerHolds>>
    BY <1>2 DEF Queue
  <2>2. q \in asked /\ q \in Query /\ (\A i \in DOMAIN accepted : accepted[i] # q) /\ callerPc = "adding"
    BY DEF Queue, DbInv, AskedInv, DbTypeOK
  <2> HIDE DEF q
  <2>3. /\ Len(dbQueue) \in Nat /\ Len(dbQueue') = Len(dbQueue) + 1
        /\ \A i \in 1..Len(dbQueue) : dbQueue'[i] = dbQueue[i]
        /\ dbQueue'[Len(dbQueue) + 1] = q
    BY <2>1, <2>2, Ends DEF DbInv, DbTypeOK
  <2>4. /\ Len(accepted) \in Nat /\ Len(accepted') = Len(accepted) + 1
        /\ DOMAIN accepted = 1..Len(accepted) /\ DOMAIN accepted' = 1..(Len(accepted) + 1)
        /\ \A i \in 1..Len(accepted) : accepted'[i] = accepted[i]
        /\ accepted'[Len(accepted) + 1] = q
    BY <2>1, <2>2, Ends DEF DbInv, DbTypeOK
  <2>5. Taken \in Nat /\ Taken' = Taken /\ Taken + Len(dbQueue) = Len(accepted) /\ Taken <= Len(accepted)
    BY <2>3, <2>4 DEF DbInv, QueueIsTheEnd, Taken
  <2>6. DOMAIN accepted' = DOMAIN accepted \cup {Len(accepted) + 1} /\ \A i \in DOMAIN accepted : accepted'[i] = accepted[i]
    BY <2>4
  <2>7. \A a \in 1..Taken : accepted'[a] = accepted[a] /\ a \in DOMAIN accepted
    BY <2>4, <2>5
  <2>8. AskedInv'
    <3>1. IsInjective(accepted')
      BY <2>2, <2>4, <2>6 DEF DbInv, AskedInv, IsInjective
    <3> QED BY <2>1, <2>2, <2>4, <2>6, <3>1 DEF DbInv, AskedInv
  <2>9. QueueIsTheEnd'
    <3> SUFFICES ASSUME NEW i \in 1..(Len(dbQueue) + 1) PROVE dbQueue'[i] = accepted'[Taken + i]
      BY <2>3, <2>5 DEF QueueIsTheEnd
    <3>1. CASE i = Len(dbQueue) + 1
      <4>1. Taken + i = Len(accepted) + 1
        BY <2>3, <2>4, <2>5, <3>1
      <4> QED BY <2>3, <2>4, <3>1, <4>1
    <3>2. CASE i # Len(dbQueue) + 1
      <4>1. i \in 1..Len(dbQueue) /\ Taken + i \in 1..Len(accepted)
        BY <2>3, <2>4, <2>5, <3>2
      <4>2. dbQueue[i] = accepted[Taken + i]
        BY <4>1 DEF DbInv, QueueIsTheEnd
      <4>3. dbQueue'[i] = dbQueue[i]
        BY <2>3, <4>1
      <4>4. accepted'[Taken + i] = accepted[Taken + i]
        BY <2>4, <4>1
      <4> QED BY <4>2, <4>3, <4>4
    <3> QED BY <3>1, <3>2
  <2>10. TakenRan'
    <3>1. \A i \in DOMAIN ran : \E a \in 1..Taken : ran[i] = accepted'[a]
      BY <2>7 DEF DbInv, TakenRan
    <3>2. \A a \in 1..Taken : accepted'[a] = workerHolds \/ \E i \in DOMAIN ran : ran[i] = accepted'[a]
      BY <2>7 DEF DbInv, TakenRan
    <3>3. workerHolds # NoQuery => /\ \A i \in DOMAIN ran : ran[i] # workerHolds
                                  /\ \E a \in 1..Taken : accepted'[a] = workerHolds
      BY <2>7 DEF DbInv, TakenRan
    <3>4. IsInjective(ran)
      BY DEF DbInv, TakenRan
    <3> QED BY <2>1, <2>5, <3>1, <3>2, <3>3, <3>4 DEF TakenRan
  <2>11. HeldIsLast'
    <3>1. Taken > 0 => Taken \in 1..Taken
      BY <2>5
    <3> QED BY <2>1, <2>5, <2>7, <3>1 DEF DbInv, HeldIsLast
  <2>12. InOrder'
    BY <2>1, <2>6 DEF DbInv, InOrder
  <2> QED BY <2>8, <2>9, <2>10, <2>11, <2>12
<1> QED BY <1>1, <1>2

\* The query the worker holds when the shutdown begins is the overtaken one; until
\* then there is none.
LEMMA ShutdownKept ==
  ASSUME DbInv, overtaken = NoQuery, Shutdown
  PROVE  AskedInv' /\ QueueIsTheEnd' /\ TakenRan' /\ HeldIsLast' /\ InOrder'
<1>1. /\ overtaken' = workerHolds /\ callerPc' = "flush"
      /\ UNCHANGED <<asked, dbQueue, workerHolds, callerAdds, accepted, ran>>
  BY DEF Shutdown
<1>2. Taken' = Taken
  BY <1>1 DEF Taken
<1>3. AskedInv' /\ QueueIsTheEnd' /\ TakenRan' /\ HeldIsLast'
  BY <1>1, <1>2 DEF DbInv, AskedInv, QueueIsTheEnd, TakenRan, HeldIsLast, IsInjective
<1>4. \A i \in DOMAIN ran : ran[i] # NoQuery
  <2>1. \A i \in DOMAIN ran : ran[i] \in Query
    BY ElementOfSeq, LenProperties DEF DbInv, DbTypeOK
  <2> QED BY <2>1
<1>5. InOrder'
  BY <1>1, <1>4 DEF DbInv, InOrder
<1> QED BY <1>3, <1>5

\* Before the shutdown nothing has been overtaken.
OvertakenInv == dbState = "running" => overtaken = NoQuery

\* Every step keeps what is said of overtaken queries.
LEMMA OvertakenKept == DbTypeOK /\ OvertakenInv /\ [DbNext]_dbVars => OvertakenInv'
<1> USE DEF callerVars, history, dbVars, OvertakenInv
<1> SUFFICES ASSUME DbTypeOK, OvertakenInv, [DbNext]_dbVars PROVE OvertakenInv'
  OBVIOUS
<1>1. CASE Shutdown
  BY <1>1 DEF Shutdown
<1>2. CASE WorkerNext \/ (\E q \in Query : AddTask(q))
  BY <1>2 DEF WorkerNext, WorkerTests, WorkerLocks, WorkerRuns, AddTask
<1>3. CASE CallerStep
  BY <1>3 DEF CallerStep, Queue, Signal, Flush, Flushed, ShutdownSignals
<1> QED BY <1>1, <1>2, <1>3 DEF DbNext

\* The inductive invariant.
LEMMA DbInvariant == DbSpec => [](DbInv /\ OvertakenInv)
<1> USE DEF callerVars, history, dbVars
<1>1. DbInit => DbInv /\ OvertakenInv
  <2> SUFFICES ASSUME DbInit PROVE DbInv /\ OvertakenInv
    OBVIOUS
  <2>1. /\ dbQueue = <<>> /\ accepted = <<>> /\ ran = <<>> /\ <<>> \in Seq(Query) /\ Len(<<>>) = 0
        /\ DOMAIN accepted = {} /\ DOMAIN ran = {} /\ workerHolds = NoQuery /\ callerPc = "idle"
    BY EmptySeq DEF DbInit
  <2>2. DbTypeOK
    BY <2>1 DEF DbInit, DbTypeOK
  <2>3. LockInv /\ HoldInv /\ OvertakenInv
    BY DEF DbInit, LockInv, HoldInv, OvertakenInv
  <2>4. AskedInv /\ InOrder
    BY <2>1 DEF AskedInv, InOrder, IsInjective
  <2>5. Taken = 0 /\ 1..Taken = {} /\ 1..Len(dbQueue) = {}
    BY <2>1 DEF Taken
  <2>6. QueueIsTheEnd /\ TakenRan /\ HeldIsLast
    BY <2>1, <2>5 DEF QueueIsTheEnd, TakenRan, HeldIsLast, IsInjective
  <2> QED BY <2>2, <2>3, <2>4, <2>6 DEF DbInv
<1>2. DbInv /\ OvertakenInv /\ [DbNext]_dbVars => DbInv' /\ OvertakenInv'
  <2> SUFFICES ASSUME DbInv, OvertakenInv, [DbNext]_dbVars PROVE DbInv' /\ OvertakenInv'
    OBVIOUS
  <2>1. LockInv' /\ HoldInv' /\ OvertakenInv'
    BY ThreadsKept, OvertakenKept DEF DbInv
  <2>2. DbTypeOK'
    <3>1. callerPc = "adding" => callerAdds \in Query
      BY DEF DbInv, AskedInv, DbTypeOK
    <3> QED BY <3>1, TypesKept DEF DbInv
  <2>3. AskedInv' /\ QueueIsTheEnd' /\ TakenRan' /\ HeldIsLast' /\ InOrder'
    <3>1. CASE WorkerTests \/ Signal \/ Flushed \/ ShutdownSignals \/ UNCHANGED dbVars
      BY <3>1, NothingMoves DEF WorkerTests, Signal, Flushed, ShutdownSignals
    <3>2. CASE \E q \in Query : AddTask(q)
      <4>1. PICK q \in Query : AddTask(q)
        BY <3>2
      <4>2. /\ asked' = asked \cup {q} /\ q \notin asked /\ callerAdds' = q /\ callerPc' = "adding"
            /\ UNCHANGED <<dbQueue, accepted, ran, workerHolds, overtaken>>
        BY <4>1 DEF AddTask
      <4>3. AskedInv' /\ Taken' = Taken
        BY <4>2 DEF DbInv, AskedInv, IsInjective, Taken
      <4> QED BY <4>2, <4>3 DEF DbInv, QueueIsTheEnd, TakenRan, HeldIsLast, InOrder, IsInjective
    <3>3. CASE Shutdown
      BY <3>3, ShutdownKept DEF OvertakenInv, Shutdown
    <3> QED BY <3>1, <3>2, <3>3, TakeKept, WorkerRunsKept, FlushKept, QueueKept
            DEF DbNext, WorkerNext, CallerStep
  <2> QED BY <2>1, <2>2, <2>3 DEF DbInv
<1> QED BY <1>1, <1>2, PTL DEF DbSpec

-----------------------------------------------------------------------------
(* What they show                                                          *)

\* The accepted queries that have left the queue are among the accepted ones.
LEMMA TakenAccepted ==
  ASSUME DbInv
  PROVE  /\ DOMAIN accepted = 1..Taken \cup {Taken + i : i \in 1..Len(dbQueue)}
         /\ DOMAIN dbQueue = 1..Len(dbQueue)
<1>1. /\ Len(accepted) \in Nat /\ Len(dbQueue) \in Nat /\ Taken \in Nat
      /\ DOMAIN accepted = 1..Len(accepted) /\ DOMAIN dbQueue = 1..Len(dbQueue)
  BY LenProperties DEF DbInv, DbTypeOK, QueueIsTheEnd
<1>2. Taken + Len(dbQueue) = Len(accepted)
  BY <1>1 DEF Taken
<1> HIDE DEF Taken
<1>3. \A a \in 1..Len(accepted) : a \in 1..Taken \/ (a - Taken \in 1..Len(dbQueue) /\ a = Taken + (a - Taken))
  BY <1>1, <1>2
<1>4. \A i \in 1..Len(dbQueue) : Taken + i \in 1..Len(accepted)
  BY <1>1, <1>2
<1>5. \A a \in 1..Taken : a \in 1..Len(accepted)
  BY <1>1, <1>2
<1> QED BY <1>1, <1>3, <1>4, <1>5

\* Queries are run once and in the order they were queued in, but for the one the
\* worker held when a shutdown ran the others.
THEOREM RunOnceInOrder == DbSpec => []QueriesInOrder
<1>1. ASSUME DbInv PROVE QueriesInOrder
  <2>1. Range(ran) \subseteq Range(accepted)
    BY <1>1, TakenAccepted DEF DbInv, TakenRan, Range
  <2> QED BY <1>1, <2>1 DEF DbInv, TakenRan, InOrder, QueriesInOrder
<1> QED BY <1>1, DbInvariant, PTL

\* What has been accepted has been run, is held by the worker or waits in the queue.
NoneLost == Range(accepted) = Range(ran) \cup Range(dbQueue) \cup ({workerHolds} \ {NoQuery})

\* No query that addTask has accepted is ever lost, a shutdown included.
THEOREM NoQueryLost == DbSpec => []NoneLost
<1>1. ASSUME DbInv PROVE NoneLost
  <2>1. \A i \in DOMAIN dbQueue : dbQueue[i] = accepted[Taken + i]
    BY <1>1, TakenAccepted DEF DbInv, QueueIsTheEnd
  <2>2. Range(accepted) \subseteq Range(ran) \cup Range(dbQueue) \cup ({workerHolds} \ {NoQuery})
    <3> SUFFICES ASSUME NEW a \in DOMAIN accepted
                 PROVE  accepted[a] \in Range(ran) \cup Range(dbQueue) \cup ({workerHolds} \ {NoQuery})
      BY DEF Range
    <3>1. CASE a \in 1..Taken
      <4>1. accepted[a] \in Query
        BY <1>1, ElementOfSeq, LenProperties DEF DbInv, DbTypeOK
      <4> QED BY <1>1, <3>1, <4>1 DEF DbInv, TakenRan, Range
    <3>2. CASE \E i \in 1..Len(dbQueue) : a = Taken + i
      BY <1>1, <2>1, <3>2, TakenAccepted DEF Range
    <3> QED BY <1>1, <3>1, <3>2, TakenAccepted
  <2>3. Range(ran) \cup ({workerHolds} \ {NoQuery}) \subseteq Range(accepted)
    BY <1>1, TakenAccepted DEF DbInv, TakenRan, Range
  <2>4. Range(dbQueue) \subseteq Range(accepted)
    BY <1>1, <2>1, TakenAccepted DEF Range
  <2> QED BY <2>2, <2>3, <2>4 DEF NoneLost
<1> QED BY <1>1, DbInvariant, PTL

-----------------------------------------------------------------------------
(* The waiting list: what is kept of a list                                *)

Waiter == [guid : Players, left : Nat]

\* The place that place i has when only the places K are kept.
Rank(K, i) == Cardinality({j \in K : j <= i})

\* A function on 1..n is a sequence.
LEMMA Listing ==
  ASSUME NEW S, NEW n \in Nat, NEW s \in [1..n -> S]
  PROVE  s \in Seq(S) /\ Len(s) = n /\ DOMAIN s = 1..n
<1>1. s = [i \in 1..n |-> s[i]]
  OBVIOUS
<1>2. s \in Seq(S)
  BY <1>1
<1>3. DOMAIN s = 1..n
  OBVIOUS
<1>4. Len(s) \in Nat /\ DOMAIN s = 1..Len(s)
  BY <1>2, LenProperties
<1>5. Len(s) = n
  <2>1. ASSUME Len(s) < n  PROVE FALSE
    <3>1. n \in 1..n /\ n \notin 1..Len(s)
      BY <1>4, <2>1
    <3> QED BY <1>3, <1>4, <3>1
  <2>2. ASSUME n < Len(s)  PROVE FALSE
    <3>1. Len(s) \in 1..Len(s) /\ Len(s) \notin 1..n
      BY <1>4, <2>2
    <3> QED BY <1>3, <1>4, <3>1
  <2> QED BY <1>4, <2>1, <2>2
<1> QED BY <1>2, <1>3, <1>5

\* Places keep their order, without gaps.
LEMMA Ranks ==
  ASSUME NEW m \in Nat, NEW K \in SUBSET (1..m)
  PROVE  /\ IsFiniteSet(K) /\ Cardinality(K) \in Nat
         /\ \A i \in K : Rank(K, i) \in 1..Cardinality(K)
         /\ \A i, j \in K : i < j => Rank(K, i) < Rank(K, j)
         /\ \A n \in 1..Cardinality(K) : \E i \in K : Rank(K, i) = n
<1>1. IsFiniteSet(K) /\ Cardinality(K) \in Nat
  <2>1. IsFiniteSet(1..m)
    BY FS_Interval
  <2> QED BY <2>1, FS_Subset, FS_CardinalityType
<1>2. ASSUME NEW i \in K  PROVE Rank(K, i) \in 1..Cardinality(K)
  <2> DEFINE S == {j \in K : j <= i}
  <2>1. S \in SUBSET K /\ i \in S
    OBVIOUS
  <2>2. IsFiniteSet(S) /\ Cardinality(S) <= Cardinality(K)
    BY <1>1, <2>1, FS_Subset
  <2>3. Cardinality(S) \in Nat /\ Cardinality(S) # 0
    BY <2>1, <2>2, FS_EmptySet, FS_CardinalityType
  <2> QED BY <1>1, <2>2, <2>3 DEF Rank
<1>3. ASSUME NEW i \in K, NEW j \in K, i < j  PROVE Rank(K, i) < Rank(K, j)
  <2> DEFINE S == {k \in K : k <= i}
             T == {k \in K : k <= j}
  <2>1. S \in SUBSET K /\ T \in SUBSET K /\ j \notin S /\ S \cup {j} \subseteq T
    <3>1. \A k \in K : k \in Int
      OBVIOUS
    <3>2. j \notin S /\ j \in T
      BY <1>3, <3>1
    <3>3. \A k \in S : k \in T
      BY <1>3, <3>1
    <3> QED BY <3>2, <3>3
  <2>2. IsFiniteSet(S) /\ IsFiniteSet(T)
    BY <1>1, <2>1, FS_Subset
  <2>3. Cardinality(S \cup {j}) = Cardinality(S) + 1
    BY <2>1, <2>2, FS_AddElement
  <2>4. Cardinality(S \cup {j}) <= Cardinality(T)
    BY <2>1, <2>2, FS_Subset
  <2>5. Cardinality(S) \in Nat /\ Cardinality(T) \in Nat
    BY <2>2, FS_CardinalityType
  <2> HIDE DEF S, T
  <2>6. Cardinality(S) < Cardinality(T)
    BY <2>3, <2>4, <2>5
  <2> QED BY <2>6 DEF Rank, S, T
<1>4. ASSUME NEW n \in 1..Cardinality(K)  PROVE \E i \in K : Rank(K, i) = n
  <2> DEFINE f == [i \in K |-> Rank(K, i)]
             T == 1..Cardinality(K)
  <2>1. f \in [K -> T]
    BY <1>2
  <2>2. \A i, j \in K : f[i] = f[j] => i = j
    <3> SUFFICES ASSUME NEW i \in K, NEW j \in K, Rank(K, i) = Rank(K, j), i # j  PROVE FALSE
      OBVIOUS
    <3>1. i < j \/ j < i
      OBVIOUS
    <3>2. Rank(K, i) \in Nat /\ Rank(K, j) \in Nat
      BY <1>2
    <3>3. CASE i < j
      BY <1>3, <3>2, <3>3
    <3>4. CASE j < i
      BY <1>3, <3>2, <3>4
    <3> QED BY <3>1, <3>3, <3>4
  <2>3. f \in Injection(K, T)
    <3> HIDE DEF f, T
    <3> QED BY <2>1, <2>2 DEF Injection, IsInjective
  <2>4. IsFiniteSet(T) /\ Cardinality(T) = Cardinality(K)
    BY <1>1, FS_Interval
  <2>5. f \in Surjection(K, T)
    <3> HIDE DEF f, T
    <3>1. Cardinality(K) = Cardinality(T) <=> f \in Surjection(K, T)
      BY <2>3, <2>4, FS_Injection
    <3> QED BY <2>4, <3>1
  <2>6. \E i \in K : f[i] = n
    BY <2>5 DEF Surjection
  <2> QED BY <2>6
<1> QED BY <1>1, <1>2, <1>3, <1>4

\* What is kept of a list.
LEMMA Keeps ==
  ASSUME NEW list \in Seq(Waiter), NEW K \in SUBSET DOMAIN list
  PROVE  /\ Only(list, K) \in Seq(Waiter) /\ Len(Only(list, K)) = Cardinality(K)
         /\ DOMAIN Only(list, K) = 1..Cardinality(K) /\ Cardinality(K) \in Nat
         /\ \A i \in K : Rank(K, i) \in DOMAIN Only(list, K) /\ Only(list, K)[Rank(K, i)] = list[i]
         /\ \A n \in DOMAIN Only(list, K) : \E i \in K : Rank(K, i) = n /\ Only(list, K)[n] = list[i]
         /\ \A i, j \in K : i < j => Rank(K, i) < Rank(K, j)
<1>1. Len(list) \in Nat /\ DOMAIN list = 1..Len(list) /\ \A i \in DOMAIN list : list[i] \in Waiter
  BY LenProperties, ElementOfSeq
<1>2. /\ Cardinality(K) \in Nat
      /\ \A i \in K : Rank(K, i) \in 1..Cardinality(K)
      /\ \A i, j \in K : i < j => Rank(K, i) < Rank(K, j)
      /\ \A n \in 1..Cardinality(K) : \E i \in K : Rank(K, i) = n
  BY <1>1, Ranks
<1>3. ASSUME NEW i \in K  PROVE Only(list, K)[Rank(K, i)] = list[i]
  <2> DEFINE k == CHOOSE j \in K : Rank(K, j) = Rank(K, i)
  <2>1. k \in K /\ Rank(K, k) = Rank(K, i)
    OBVIOUS
  <2>2. Only(list, K)[Rank(K, i)] = list[k]
    BY <1>2 DEF Only, Rank
  <2>3. k = i
    <3> HIDE DEF k
    <3>1. k \in Int /\ i \in Int /\ Rank(K, i) \in Int
      BY <1>1, <1>2, <2>1
    <3>2. ~(k < i) /\ ~(i < k)
      BY <1>2, <2>1, <3>1
    <3> QED BY <3>1, <3>2
  <2> QED BY <2>2, <2>3
<1>4. ASSUME NEW n \in 1..Cardinality(K)
      PROVE  Only(list, K)[n] \in Waiter /\ \E i \in K : Rank(K, i) = n /\ Only(list, K)[n] = list[i]
  <2>1. PICK i \in K : Rank(K, i) = n
    BY <1>2
  <2> QED BY <1>1, <1>3, <2>1
<1>5. Only(list, K) \in [1..Cardinality(K) -> Waiter]
  BY <1>4 DEF Only
<1>6. Only(list, K) \in Seq(Waiter) /\ Len(Only(list, K)) = Cardinality(K)
      /\ DOMAIN Only(list, K) = 1..Cardinality(K)
  BY <1>2, <1>5, Listing
<1> QED BY <1>2, <1>3, <1>4, <1>6

\* Nobody is in the list twice.
Distinct(list) == \A i, j \in DOMAIN list : list[i].guid = list[j].guid => i = j

\* A client has so much time left in the list.
Holds(list, g, t) == \E i \in DOMAIN list : list[i].guid = g /\ list[i].left >= t

\* Who is kept is in the list once, if each was.
LEMMA KeepsWhom ==
  ASSUME NEW list \in Seq(Waiter), Distinct(list), NEW K \in SUBSET DOMAIN list
  PROVE  /\ Only(list, K) \in Seq(Waiter) /\ Distinct(Only(list, K))
         /\ Guids(Only(list, K)) = {list[i].guid : i \in K}
         /\ \A i \in K : \A t : list[i].left >= t => Holds(Only(list, K), list[i].guid, t)
<1>1. /\ Only(list, K) \in Seq(Waiter)
      /\ \A i \in K : Rank(K, i) \in DOMAIN Only(list, K) /\ Only(list, K)[Rank(K, i)] = list[i]
      /\ \A n \in DOMAIN Only(list, K) : \E i \in K : Rank(K, i) = n /\ Only(list, K)[n] = list[i]
  BY Keeps
<1>2. Distinct(Only(list, K))
  <2> SUFFICES ASSUME NEW m \in DOMAIN Only(list, K), NEW n \in DOMAIN Only(list, K),
                      Only(list, K)[m].guid = Only(list, K)[n].guid
               PROVE  m = n
    BY DEF Distinct
  <2>1. PICK i \in K : Rank(K, i) = m /\ Only(list, K)[m] = list[i]
    BY <1>1
  <2>2. PICK j \in K : Rank(K, j) = n /\ Only(list, K)[n] = list[j]
    BY <1>1
  <2>3. i = j
    BY <2>1, <2>2 DEF Distinct
  <2> QED BY <2>1, <2>2, <2>3
<1>3. \A g : g \in Guids(Only(list, K)) <=> g \in {list[i].guid : i \in K}
  BY <1>1 DEF Guids
<1>4. Guids(Only(list, K)) = {list[i].guid : i \in K}
  BY <1>3
<1>5. ASSUME NEW i \in K, NEW t, list[i].left >= t  PROVE Holds(Only(list, K), list[i].guid, t)
  BY <1>1, <1>5 DEF Holds
<1> QED BY <1>1, <1>2, <1>4, <1>5

\* cleanupList erases nobody who has time left.
LEMMA Cleaned ==
  ASSUME NEW list \in Seq(Waiter), Distinct(list)
  PROVE  /\ CleanupList(list) \in Seq(Waiter) /\ Distinct(CleanupList(list))
         /\ Guids(CleanupList(list)) \subseteq Guids(list)
         /\ \A g \in Players, t \in Nat \ {0} : Holds(list, g, t) => Holds(CleanupList(list), g, t)
<1> DEFINE K == {i \in DOMAIN list : list[i].left > 0}
<1>1. CleanupList(list) = Only(list, K) /\ K \in SUBSET DOMAIN list
  BY DEF CleanupList
<1>2. \A i \in DOMAIN list : list[i].left \in Nat
  <2>1. \A i \in DOMAIN list : list[i] \in Waiter
    BY LenProperties, ElementOfSeq
  <2> QED BY <2>1 DEF Waiter
<1>3. \A i \in DOMAIN list : \A t \in Nat \ {0} : list[i].left >= t => i \in K
  BY <1>2
<1> HIDE DEF K
<1>4. /\ Only(list, K) \in Seq(Waiter) /\ Distinct(Only(list, K))
      /\ Guids(Only(list, K)) = {list[i].guid : i \in K}
      /\ \A i \in K : \A t : list[i].left >= t => Holds(Only(list, K), list[i].guid, t)
  BY <1>1, KeepsWhom
<1>5. Guids(Only(list, K)) \subseteq Guids(list)
  BY <1>1, <1>4 DEF Guids
<1>6. ASSUME NEW g \in Players, NEW t \in Nat \ {0}, Holds(list, g, t)
      PROVE  Holds(Only(list, K), g, t)
  <2>1. PICK i \in DOMAIN list : list[i].guid = g /\ list[i].left >= t
    BY <1>6 DEF Holds
  <2> QED BY <1>3, <1>4, <2>1
<1> QED BY <1>1, <1>4, <1>5, <1>6

\* Nor does erasing one client the others.
LEMMA Erased ==
  ASSUME NEW list \in Seq(Waiter), Distinct(list), NEW g
  PROVE  /\ Without(list, g) \in Seq(Waiter) /\ Distinct(Without(list, g))
         /\ Guids(Without(list, g)) = Guids(list) \ {g}
         /\ \A h, t : h # g /\ Holds(list, h, t) => Holds(Without(list, g), h, t)
<1> DEFINE K == {i \in DOMAIN list : list[i].guid # g}
<1>1. Without(list, g) = Only(list, K) /\ K \in SUBSET DOMAIN list
  BY DEF Without
<1>2. \A i \in DOMAIN list : i \in K <=> list[i].guid # g
  OBVIOUS
<1> HIDE DEF K
<1>4. /\ Only(list, K) \in Seq(Waiter) /\ Distinct(Only(list, K))
      /\ Guids(Only(list, K)) = {list[i].guid : i \in K}
      /\ \A i \in K : \A t : list[i].left >= t => Holds(Only(list, K), list[i].guid, t)
  BY <1>1, KeepsWhom
<1>5. Guids(Only(list, K)) = Guids(list) \ {g}
  BY <1>1, <1>2, <1>4 DEF Guids
<1>6. ASSUME NEW h, NEW t, h # g, Holds(list, h, t)
      PROVE  Holds(Only(list, K), h, t)
  <2>1. PICK i \in DOMAIN list : list[i].guid = h /\ list[i].left >= t
    BY <1>6 DEF Holds
  <2> QED BY <1>2, <1>4, <1>6, <2>1
<1> QED BY <1>1, <1>4, <1>5, <1>6

\* A retry prolongs one entry.
LEMMA Refreshed ==
  ASSUME NEW list \in Seq(Waiter), Distinct(list), NEW g \in Players, NEW left \in Nat
  PROVE  /\ Refresh(list, g, left) \in Seq(Waiter) /\ Distinct(Refresh(list, g, left))
         /\ Len(Refresh(list, g, left)) = Len(list) /\ DOMAIN Refresh(list, g, left) = DOMAIN list
         /\ \A i \in DOMAIN list : Refresh(list, g, left)[i].guid = list[i].guid
         /\ Guids(Refresh(list, g, left)) = Guids(list)
         /\ \A h, t : h # g /\ Holds(list, h, t) => Holds(Refresh(list, g, left), h, t)
         /\ g \in Guids(list) => Holds(Refresh(list, g, left), g, left)
<1> DEFINE new == Refresh(list, g, left)
<1>1. Len(list) \in Nat /\ DOMAIN list = 1..Len(list) /\ \A i \in DOMAIN list : list[i] \in Waiter
  BY LenProperties, ElementOfSeq
<1>2. /\ \A i \in DOMAIN list : new[i] = IF list[i].guid = g THEN Entry(g, left) ELSE list[i]
      /\ DOMAIN new = DOMAIN list
  BY DEF Refresh
<1>3. new \in [1..Len(list) -> Waiter]
  BY <1>1 DEF Refresh, Entry, Waiter
<1>4. new \in Seq(Waiter) /\ Len(new) = Len(list)
  BY <1>1, <1>3, Listing
<1> HIDE DEF new
<1>5. \A i \in DOMAIN list : new[i].guid = list[i].guid
  BY <1>2 DEF Entry
<1>6. Distinct(new)
  BY <1>2, <1>5 DEF Distinct
<1>7. Guids(new) = Guids(list)
  BY <1>2, <1>5 DEF Guids
<1>8. \A h, t : h # g /\ Holds(list, h, t) => Holds(new, h, t)
  BY <1>2 DEF Holds
<1>9. ASSUME g \in Guids(list)  PROVE Holds(new, g, left)
  <2>1. PICK i \in DOMAIN list : list[i].guid = g
    BY <1>9 DEF Guids
  <2>2. new[i].left = left /\ new[i].guid = g /\ left >= left
    BY <1>2, <2>1 DEF Entry
  <2> QED BY <1>2, <2>1, <2>2 DEF Holds
<1> QED BY <1>2, <1>4, <1>5, <1>6, <1>7, <1>8, <1>9 DEF new

\* A client joins at the end.
LEMMA Joined ==
  ASSUME NEW list \in Seq(Waiter), Distinct(list), NEW g \in Players, NEW left \in Nat, g \notin Guids(list)
  PROVE  /\ Append(list, Entry(g, left)) \in Seq(Waiter) /\ Distinct(Append(list, Entry(g, left)))
         /\ Len(Append(list, Entry(g, left))) = Len(list) + 1
         /\ \A i \in 1..Len(list) : Append(list, Entry(g, left))[i] = list[i]
         /\ Append(list, Entry(g, left))[Len(list) + 1] = Entry(g, left)
         /\ Guids(Append(list, Entry(g, left))) = Guids(list) \cup {g}
         /\ \A h, t : Holds(list, h, t) => Holds(Append(list, Entry(g, left)), h, t)
         /\ \A t \in Nat : left >= t => Holds(Append(list, Entry(g, left)), g, t)
<1> DEFINE e == Entry(g, left)
           new == Append(list, e)
<1>1. Len(list) \in Nat /\ DOMAIN list = 1..Len(list)
  BY LenProperties
<1>2. e \in Waiter /\ e.guid = g /\ e.left = left
  BY DEF Entry, Waiter
<1> HIDE DEF e
<1>3. new \in Seq(Waiter) /\ Len(new) = Len(list) + 1
  BY <1>2
<1>4. (\A i \in 1..Len(list) : new[i] = list[i]) /\ new[Len(list) + 1] = e
  BY <1>2
<1>5. DOMAIN new = 1..(Len(list) + 1)
  BY <1>3, LenProperties
<1> HIDE DEF new
<1>6. \A i \in DOMAIN new : i \in 1..Len(list) \/ i = Len(list) + 1
  BY <1>1, <1>5
<1>7. \A i \in 1..Len(list) : list[i].guid # g /\ i \in DOMAIN new
  BY <1>1, <1>5 DEF Guids
<1>8. Distinct(new)
  BY <1>1, <1>2, <1>4, <1>6, <1>7 DEF Distinct
<1>9. Len(list) + 1 \in DOMAIN new
  BY <1>1, <1>5
<1>10. \A h : h \in Guids(new) <=> h \in Guids(list) \/ h = g
  BY <1>1, <1>2, <1>4, <1>6, <1>7, <1>9 DEF Guids
<1>11. Guids(new) = Guids(list) \cup {g}
  BY <1>10
<1>12. \A h, t : Holds(list, h, t) => Holds(new, h, t)
  BY <1>1, <1>4, <1>7 DEF Holds
<1>13. \A t \in Nat : left >= t => Holds(new, g, t)
  BY <1>2, <1>4, <1>9 DEF Holds
<1> QED BY <1>3, <1>4, <1>8, <1>11, <1>12, <1>13 DEF e, new

\* Five seconds later everybody has one less.
LEMMA Aged ==
  ASSUME NEW list \in Seq(Waiter), Distinct(list)
  PROVE  /\ Older(list) \in Seq(Waiter) /\ Distinct(Older(list)) /\ Guids(Older(list)) = Guids(list)
         /\ Len(Older(list)) = Len(list)
         /\ \A h : \A t \in Nat \ {0} : Holds(list, h, t) => Holds(Older(list), h, t - 1)
<1> DEFINE new == Older(list)
<1>1. Len(list) \in Nat /\ DOMAIN list = 1..Len(list) /\ \A i \in DOMAIN list : list[i] \in Waiter
  BY LenProperties, ElementOfSeq
<1>2. /\ \A i \in DOMAIN list :
           new[i].guid = list[i].guid /\ new[i].left = IF list[i].left > 0 THEN list[i].left - 1 ELSE 0
      /\ DOMAIN new = DOMAIN list
  BY DEF Older, Entry
<1>3. new \in [1..Len(list) -> Waiter]
  BY <1>1 DEF Older, Entry, Waiter
<1>4. new \in Seq(Waiter) /\ Len(new) = Len(list)
  BY <1>1, <1>3, Listing
<1> HIDE DEF new
<1>5. Distinct(new) /\ Guids(new) = Guids(list)
  BY <1>2 DEF Distinct, Guids
<1>6. ASSUME NEW h, NEW t \in Nat \ {0}, Holds(list, h, t)  PROVE Holds(new, h, t - 1)
  <2>1. PICK i \in DOMAIN list : list[i].guid = h /\ list[i].left >= t
    BY <1>6 DEF Holds
  <2>2. list[i].left \in Nat
    BY <1>1 DEF Waiter
  <2>3. new[i].left >= t - 1
    BY <1>2, <2>1, <2>2
  <2> QED BY <1>2, <2>1, <2>3 DEF Holds
<1> QED BY <1>4, <1>5, <1>6 DEF new

\* Where a client is found that is in one of two lists at most.
LEMMA Found ==
  ASSUME NEW p \in Seq(Waiter), NEW w \in Seq(Waiter), Distinct(p), Distinct(w),
         Guids(p) \cap Guids(w) = {}, NEW g
  PROVE  /\ FindClient(p, w, g) # 0 <=> g \in Guids(p) \cup Guids(w)
         /\ \A i \in DOMAIN p : p[i].guid = g => FindClient(p, w, g) = i
         /\ \A i \in DOMAIN w : w[i].guid = g => FindClient(p, w, g) = Len(p) + i
<1> DEFINE all == p \o w
           ats == {i \in DOMAIN all : all[i].guid = g}
<1>1. /\ Len(p) \in Nat /\ Len(w) \in Nat /\ DOMAIN p = 1..Len(p) /\ DOMAIN w = 1..Len(w)
  BY LenProperties
<1>2. /\ all \in Seq(Waiter) /\ Len(all) = Len(p) + Len(w)
      /\ \A i \in 1..(Len(p) + Len(w)) : all[i] = IF i <= Len(p) THEN p[i] ELSE w[i - Len(p)]
  BY ConcatProperties
<1>3. DOMAIN all = 1..(Len(p) + Len(w))
  <2> HIDE DEF all
  <2> QED BY <1>2, LenProperties
<1>4. FindClient(p, w, g) = IF ats = {} THEN 0 ELSE CHOOSE i \in ats : \A j \in ats : i <= j
  BY DEF FindClient
<1> HIDE DEF all
<1>5. \A i \in ats : (i \in DOMAIN p /\ p[i].guid = g) \/ (i - Len(p) \in DOMAIN w /\ w[i - Len(p)].guid = g)
  <2> SUFFICES ASSUME NEW i \in ats
               PROVE  (i \in DOMAIN p /\ p[i].guid = g) \/ (i - Len(p) \in DOMAIN w /\ w[i - Len(p)].guid = g)
    OBVIOUS
  <2>1. i \in 1..(Len(p) + Len(w)) /\ all[i].guid = g
    BY <1>3
  <2>2. CASE i <= Len(p)
    BY <1>1, <1>2, <2>1, <2>2
  <2>3. CASE ~(i <= Len(p))
    <3>1. i - Len(p) \in 1..Len(w)
      BY <1>1, <2>1, <2>3
    <3> QED BY <1>1, <1>2, <2>1, <2>3, <3>1
  <2> QED BY <2>2, <2>3
<1>6. \A i, j \in ats : i = j
  <2> SUFFICES ASSUME NEW i \in ats, NEW j \in ats  PROVE i = j
    OBVIOUS
  <2>1. i \in Int /\ j \in Int /\ Len(p) \in Int
    BY <1>1, <1>3
  <2> HIDE DEF ats
  <2>2. CASE i \in DOMAIN p /\ p[i].guid = g
    <3>1. g \in Guids(p)
      BY <2>2 DEF Guids
    <3>2. j \in DOMAIN p /\ p[j].guid = g
      BY <1>5, <3>1 DEF Guids
    <3> QED BY <2>2, <3>2 DEF Distinct
  <2>3. CASE i - Len(p) \in DOMAIN w /\ w[i - Len(p)].guid = g
    <3>1. g \in Guids(w)
      BY <2>3 DEF Guids
    <3>2. j - Len(p) \in DOMAIN w /\ w[j - Len(p)].guid = g
      BY <1>5, <3>1 DEF Guids
    <3>3. i - Len(p) = j - Len(p)
      BY <2>3, <3>2 DEF Distinct
    <3> QED BY <2>1, <3>3
  <2> QED BY <1>5, <2>2, <2>3
<1>7. ASSUME NEW n \in ats  PROVE FindClient(p, w, g) = n
  <2>1. n \in Int /\ n <= n
    BY <1>3
  <2>2. \A j \in ats : n <= j
    BY <1>6, <2>1
  <2>3. (CHOOSE i \in ats : \A j \in ats : i <= j) \in ats
    BY <2>2
  <2> HIDE DEF ats
  <2> QED BY <1>4, <1>6, <2>3
<1>8. ASSUME NEW i \in DOMAIN p, p[i].guid = g  PROVE FindClient(p, w, g) = i
  <2>1. i \in 1..(Len(p) + Len(w)) /\ i <= Len(p)
    BY <1>1
  <2>2. i \in ats
    BY <1>2, <1>3, <1>8, <2>1
  <2> QED BY <1>7, <2>2
<1>9. ASSUME NEW i \in DOMAIN w, w[i].guid = g  PROVE FindClient(p, w, g) = Len(p) + i
  <2>1. Len(p) + i \in 1..(Len(p) + Len(w)) /\ ~(Len(p) + i <= Len(p)) /\ (Len(p) + i) - Len(p) = i
    BY <1>1
  <2>2. Len(p) + i \in ats
    BY <1>2, <1>3, <1>9, <2>1
  <2> QED BY <1>7, <2>2
<1>10. FindClient(p, w, g) # 0 <=> g \in Guids(p) \cup Guids(w)
  <2>1. ASSUME g \in Guids(p) \cup Guids(w)  PROVE FindClient(p, w, g) # 0
    <3>1. CASE g \in Guids(p)
      <4>1. PICK i \in DOMAIN p : p[i].guid = g
        BY <3>1 DEF Guids
      <4> QED BY <1>1, <1>8, <4>1
    <3>2. CASE g \in Guids(w)
      <4>1. PICK i \in DOMAIN w : w[i].guid = g
        BY <3>2 DEF Guids
      <4>2. Len(p) + i # 0
        BY <1>1
      <4> QED BY <1>9, <4>1, <4>2
    <3> QED BY <2>1, <3>1, <3>2
  <2>2. ASSUME g \notin Guids(p) \cup Guids(w)  PROVE FindClient(p, w, g) = 0
    <3>1. ats = {}
      <4>1. ASSUME NEW i \in ats  PROVE FALSE
        BY <1>5, <2>2 DEF Guids
      <4> QED BY <4>1
    <3> QED BY <1>4, <3>1
  <2> QED BY <2>1, <2>2
<1> QED BY <1>8, <1>9, <1>10

\* Who is further back is given more time.
LEMMA Timeouts ==
  /\ \A n \in Nat : GetTimeout(n) \in Nat
  /\ \A m, n \in Nat : m <= n => GetTimeout(m) <= GetTimeout(n)
BY DEF GetTimeout, GetTime

-----------------------------------------------------------------------------
(* The waiting list: the line                                              *)

\* Nobody is in the line twice, nor in the line and in the game, and who was told of some
\* time has that in the line.  Those with privileges are never in it.
WaitInv ==
  /\ online \subseteq Players /\ misplaced \in Nat /\ told \in [Players -> Nat]
  /\ priority \in Seq(Waiter) /\ waiting \in Seq(Waiter)
  /\ Distinct(priority) /\ Distinct(waiting) /\ Guids(priority) \cap Guids(waiting) = {}
  /\ (Guids(priority) \cup Guids(waiting)) \cap (online \cup Privileged) = {}
  /\ MaxPlayers = 0 => priority = <<>> /\ waiting = <<>>
  /\ \A g \in Players : told[g] > 0 => Holds(priority, g, told[g]) \/ Holds(waiting, g, told[g])

\* What is left of the lines once the expired are erased.
LEMMA LinesCleaned ==
  ASSUME WaitInv, NEW p, NEW w, p = CleanupList(priority), w = CleanupList(waiting)
  PROVE  /\ p \in Seq(Waiter) /\ w \in Seq(Waiter) /\ Distinct(p) /\ Distinct(w)
         /\ Guids(p) \subseteq Guids(priority) /\ Guids(w) \subseteq Guids(waiting)
         /\ Guids(p) \cap Guids(w) = {} /\ (Guids(p) \cup Guids(w)) \cap (online \cup Privileged) = {}
         /\ \A g \in Players : told[g] > 0 => Holds(p, g, told[g]) \/ Holds(w, g, told[g])
<1>1. /\ priority \in Seq(Waiter) /\ waiting \in Seq(Waiter) /\ Distinct(priority) /\ Distinct(waiting)
      /\ Guids(priority) \cap Guids(waiting) = {}
      /\ (Guids(priority) \cup Guids(waiting)) \cap (online \cup Privileged) = {}
      /\ \A g \in Players : told[g] \in Nat
      /\ \A g \in Players : told[g] > 0 => Holds(priority, g, told[g]) \/ Holds(waiting, g, told[g])
  BY DEF WaitInv
<1>2. /\ p \in Seq(Waiter) /\ Distinct(p) /\ Guids(p) \subseteq Guids(priority)
      /\ \A g \in Players, t \in Nat \ {0} : Holds(priority, g, t) => Holds(p, g, t)
  BY <1>1, Cleaned
<1>3. /\ w \in Seq(Waiter) /\ Distinct(w) /\ Guids(w) \subseteq Guids(waiting)
      /\ \A g \in Players, t \in Nat \ {0} : Holds(waiting, g, t) => Holds(w, g, t)
  BY <1>1, Cleaned
<1>4. \A g \in Players : told[g] > 0 => told[g] \in Nat \ {0}
  BY <1>1
<1>5. \A g \in Players : told[g] > 0 => Holds(p, g, told[g]) \/ Holds(w, g, told[g])
  BY <1>1, <1>2, <1>3, <1>4
<1> QED BY <1>1, <1>2, <1>3, <1>5

\* The list is empty or the client is not in it.
LEMMA AtOnceKept ==
  ASSUME WaitListAssumption, WaitInv, NEW g \in Players, NEW placed \in BOOLEAN, LoginAtOnce(g, placed)
  PROVE  WaitInv'
<1>1. /\ PassesAtOnce(g) /\ UNCHANGED <<priority, waiting, misplaced>>
      /\ online' \in {online, online \cup {g}} /\ told' = [told EXCEPT ![g] = 0]
  BY DEF LoginAtOnce, Admit
<1>2. Guids(<<>>) = {}
  BY DEF Guids
<1>3. g \notin Guids(priority) \cup Guids(waiting)
  <2>1. CASE g \in Privileged
    BY <2>1 DEF WaitInv
  <2>2. CASE priority = <<>> /\ waiting = <<>>
    BY <1>2, <2>2
  <2> QED BY <1>1, <2>1, <2>2 DEF PassesAtOnce, WaitInv
<1>4. online' \subseteq Players /\ (Guids(priority) \cup Guids(waiting)) \cap (online' \cup Privileged) = {}
  BY <1>1, <1>3 DEF WaitInv
<1>5. told' \in [Players -> Nat] /\ \A h \in Players : told'[h] > 0 => told'[h] = told[h]
  <2>1. told \in [Players -> Nat]
    BY DEF WaitInv
  <2>2. \A h \in Players : told'[h] = IF h = g THEN 0 ELSE told[h]
    BY <1>1, <2>1
  <2> QED BY <1>1, <2>1, <2>2
<1>6. \A h \in Players : told'[h] > 0 => Holds(priority, h, told'[h]) \/ Holds(waiting, h, told'[h])
  BY <1>5 DEF WaitInv
<1>7. WaitInv => priority \in Seq(Waiter) /\ waiting \in Seq(Waiter) /\ misplaced \in Nat /\ Distinct(priority)
        /\ Distinct(waiting) /\ Guids(priority) \cap Guids(waiting) = {}
        /\ (MaxPlayers = 0 => priority = <<>> /\ waiting = <<>>)
  BY DEF WaitInv
<1>8. priority' = priority /\ waiting' = waiting /\ misplaced' = misplaced
  BY <1>1
<1> QED BY <1>4, <1>5, <1>6, <1>7, <1>8 DEF WaitInv
\* A client with a place comes in.
LEMMA FoundInKept ==
  ASSUME WaitInv, NEW g \in Players, NEW placed \in BOOLEAN, MaxPlayers # 0,
         NEW p, NEW w, p = CleanupList(priority), w = CleanupList(waiting),
         priority' = Without(p, g), waiting' = Without(w, g),
         misplaced' \in {misplaced, misplaced + 1}, Admit(g, placed)
  PROVE  WaitInv'
<1>1. /\ p \in Seq(Waiter) /\ w \in Seq(Waiter) /\ Distinct(p) /\ Distinct(w)
      /\ Guids(p) \cap Guids(w) = {} /\ (Guids(p) \cup Guids(w)) \cap (online \cup Privileged) = {}
      /\ \A h \in Players : told[h] > 0 => Holds(p, h, told[h]) \/ Holds(w, h, told[h])
  BY LinesCleaned
<1>2. /\ priority' \in Seq(Waiter) /\ Distinct(priority)' /\ Guids(priority)' = Guids(p) \ {g}
      /\ \A h, t : h # g /\ Holds(p, h, t) => Holds(priority', h, t)
  <2>1. /\ Without(p, g) \in Seq(Waiter) /\ Distinct(Without(p, g))
        /\ Guids(Without(p, g)) = Guids(p) \ {g}
        /\ \A h, t : h # g /\ Holds(p, h, t) => Holds(Without(p, g), h, t)
    BY <1>1, Erased
  <2>2. Distinct(priority)' <=> Distinct(priority')
    BY DEF Distinct
  <2>3. Guids(priority)' = Guids(priority')
    BY DEF Guids
  <2> QED BY <2>1, <2>2, <2>3
<1>3. /\ waiting' \in Seq(Waiter) /\ Distinct(waiting)' /\ Guids(waiting)' = Guids(w) \ {g}
      /\ \A h, t : h # g /\ Holds(w, h, t) => Holds(waiting', h, t)
  <2>1. /\ Without(w, g) \in Seq(Waiter) /\ Distinct(Without(w, g))
        /\ Guids(Without(w, g)) = Guids(w) \ {g}
        /\ \A h, t : h # g /\ Holds(w, h, t) => Holds(Without(w, g), h, t)
    BY <1>1, Erased
  <2>2. Distinct(waiting)' <=> Distinct(waiting')
    BY DEF Distinct
  <2>3. Guids(waiting)' = Guids(waiting')
    BY DEF Guids
  <2> QED BY <2>1, <2>2, <2>3
<1>4. online' \subseteq online \cup {g} /\ online \subseteq Players
  BY DEF Admit, WaitInv
<1>5. /\ (Guids(priority)' \cup Guids(waiting)') \cap (online' \cup Privileged) = {}
      /\ Guids(priority)' \cap Guids(waiting)' = {}
  BY <1>1, <1>2, <1>3, <1>4
<1>6. told' \in [Players -> Nat] /\ \A h \in Players : told'[h] = IF h = g THEN 0 ELSE told[h]
  BY DEF WaitInv, Admit
<1>7. \A h \in Players : told'[h] > 0 => Holds(priority', h, told'[h]) \/ Holds(waiting', h, told'[h])
  BY <1>1, <1>2, <1>3, <1>6
<1>8. misplaced' \in Nat
  BY DEF WaitInv
<1>9. online' \subseteq Players
  BY <1>4
<1>10. \A h \in Players : told'[h] > 0 => Holds(priority, h, told[h])' \/ Holds(waiting, h, told[h])'
  BY <1>7 DEF Holds
<1> QED BY <1>2, <1>3, <1>5, <1>6, <1>8, <1>9, <1>10 DEF WaitInv

\* A client with a place has to wait on.
LEMMA FoundOutKept ==
  ASSUME WaitInv, NEW g \in Players, MaxPlayers # 0,
         NEW p, NEW w, p = CleanupList(priority), w = CleanupList(waiting),
         NEW left, left = GetTimeout(FindClient(p, w, g)), FindClient(p, w, g) # 0,
         priority' = Refresh(p, g, left), waiting' = Refresh(w, g, left),
         UNCHANGED misplaced, Answer(g)
  PROVE  WaitInv'
<1>1. /\ p \in Seq(Waiter) /\ w \in Seq(Waiter) /\ Distinct(p) /\ Distinct(w)
      /\ Guids(p) \cap Guids(w) = {} /\ (Guids(p) \cup Guids(w)) \cap (online \cup Privileged) = {}
      /\ \A h \in Players : told[h] > 0 => Holds(p, h, told[h]) \/ Holds(w, h, told[h])
  BY LinesCleaned
<1>2. /\ g \in Guids(p) \cup Guids(w)
      /\ \A i \in DOMAIN p : p[i].guid = g => FindClient(p, w, g) = i
      /\ \A i \in DOMAIN w : w[i].guid = g => FindClient(p, w, g) = Len(p) + i
  BY <1>1, Found
<1>3. Len(p) \in Nat /\ Len(w) \in Nat /\ DOMAIN p = 1..Len(p) /\ DOMAIN w = 1..Len(w)
  BY <1>1, LenProperties
<1>4. FindClient(p, w, g) \in Nat
  <2>1. CASE g \in Guids(p)
    <3>1. PICK i \in DOMAIN p : p[i].guid = g
      BY <2>1 DEF Guids
    <3> QED BY <1>2, <1>3, <3>1
  <2>2. CASE g \in Guids(w)
    <3>1. PICK i \in DOMAIN w : w[i].guid = g
      BY <2>2 DEF Guids
    <3> QED BY <1>2, <1>3, <3>1
  <2> QED BY <1>2, <2>1, <2>2
<1>5. left \in Nat
  BY <1>4, Timeouts
<1>6. /\ priority' \in Seq(Waiter) /\ Distinct(priority') /\ Len(priority') = Len(p)
      /\ DOMAIN priority' = DOMAIN p
      /\ (\A i \in DOMAIN p : priority'[i].guid = p[i].guid) /\ Guids(priority') = Guids(p)
      /\ \A h, t : h # g /\ Holds(p, h, t) => Holds(priority', h, t)
      /\ g \in Guids(p) => Holds(priority', g, left)
  <2>1. /\ Refresh(p, g, left) \in Seq(Waiter) /\ Distinct(Refresh(p, g, left))
        /\ Len(Refresh(p, g, left)) = Len(p) /\ DOMAIN Refresh(p, g, left) = DOMAIN p
        /\ \A i \in DOMAIN p : Refresh(p, g, left)[i].guid = p[i].guid
        /\ Guids(Refresh(p, g, left)) = Guids(p)
        /\ \A h, t : h # g /\ Holds(p, h, t) => Holds(Refresh(p, g, left), h, t)
        /\ g \in Guids(p) => Holds(Refresh(p, g, left), g, left)
    BY <1>1, <1>5, Refreshed
  <2> QED BY <2>1
<1>7. /\ waiting' \in Seq(Waiter) /\ Distinct(waiting') /\ DOMAIN waiting' = DOMAIN w
      /\ (\A i \in DOMAIN w : waiting'[i].guid = w[i].guid) /\ Guids(waiting') = Guids(w)
      /\ \A h, t : h # g /\ Holds(w, h, t) => Holds(waiting', h, t)
      /\ g \in Guids(w) => Holds(waiting', g, left)
  <2>1. /\ Refresh(w, g, left) \in Seq(Waiter) /\ Distinct(Refresh(w, g, left))
        /\ Len(Refresh(w, g, left)) = Len(w) /\ DOMAIN Refresh(w, g, left) = DOMAIN w
        /\ \A i \in DOMAIN w : Refresh(w, g, left)[i].guid = w[i].guid
        /\ Guids(Refresh(w, g, left)) = Guids(w)
        /\ \A h, t : h # g /\ Holds(w, h, t) => Holds(Refresh(w, g, left), h, t)
        /\ g \in Guids(w) => Holds(Refresh(w, g, left), g, left)
    BY <1>1, <1>5, Refreshed
  <2> QED BY <2>1
<1>8. FindClient(priority', waiting', g) = FindClient(p, w, g)
  <2>1. /\ \A i \in DOMAIN priority' : priority'[i].guid = g => FindClient(priority', waiting', g) = i
        /\ \A i \in DOMAIN waiting' : waiting'[i].guid = g
             => FindClient(priority', waiting', g) = Len(priority') + i
    <3>1. /\ priority' \in Seq(Waiter) /\ waiting' \in Seq(Waiter)
          /\ Distinct(priority') /\ Distinct(waiting')
      BY <1>6, <1>7
    <3>2. Guids(priority') \cap Guids(waiting') = {}
      BY <1>1, <1>6, <1>7
    <3> QED BY <3>1, <3>2, Found
  <2>2. CASE g \in Guids(p)
    <3>1. PICK i \in DOMAIN p : p[i].guid = g
      BY <2>2 DEF Guids
    <3> QED BY <1>2, <1>6, <2>1, <3>1
  <2>3. CASE g \in Guids(w)
    <3>1. PICK i \in DOMAIN w : w[i].guid = g
      BY <2>3 DEF Guids
    <3> QED BY <1>2, <1>6, <1>7, <2>1, <3>1
  <2> QED BY <1>2, <2>2, <2>3
<1>9. online' = online /\ told' \in [Players -> Nat]
      /\ \A h \in Players : told'[h] = IF h = g THEN left ELSE told[h]
  BY <1>5, <1>8 DEF WaitInv, Answer
<1>10. \A h \in Players : told'[h] > 0 => Holds(priority', h, told'[h]) \/ Holds(waiting', h, told'[h])
  BY <1>1, <1>2, <1>6, <1>7, <1>9
<1>11. /\ Distinct(priority)' /\ Distinct(waiting)' /\ Guids(priority)' = Guids(p)
       /\ Guids(waiting)' = Guids(w)
       /\ \A h \in Players : told'[h] > 0 => Holds(priority, h, told[h])' \/ Holds(waiting, h, told[h])'
  BY <1>6, <1>7, <1>10 DEF Distinct, Guids, Holds
<1>12. online' \subseteq Players /\ misplaced' \in Nat
  BY <1>9 DEF WaitInv
<1> QED BY <1>1, <1>6, <1>7, <1>9, <1>11, <1>12 DEF WaitInv

LEMMA FoundKept ==
  ASSUME WaitInv, NEW g \in Players, NEW placed \in BOOLEAN, LoginFound(g, placed)
  PROVE  WaitInv'
<1> DEFINE p == CleanupList(priority)
           w == CleanupList(waiting)
<1>1. MaxPlayers # 0 /\ FindClient(p, w, g) # 0
  BY DEF LoginFound, PassesAtOnce
<1>2. CASE HasRoom(FindClient(p, w, g))
  <2>1. /\ priority' = Without(p, g) /\ waiting' = Without(w, g)
        /\ misplaced' \in {misplaced, misplaced + 1} /\ Admit(g, placed)
    BY <1>2 DEF LoginFound
  <2> HIDE DEF p, w
  <2> QED BY <1>1, <2>1, FoundInKept DEF p, w
<1>3. CASE ~HasRoom(FindClient(p, w, g))
  <2>1. /\ priority' = Refresh(p, g, GetTimeout(FindClient(p, w, g)))
        /\ waiting' = Refresh(w, g, GetTimeout(FindClient(p, w, g)))
        /\ UNCHANGED misplaced /\ Answer(g)
    BY <1>3 DEF LoginFound
  <2> QED BY <1>1, <2>1, FoundOutKept
<1> QED BY <1>2, <1>3
\* A client without a place gets one, at the end of either list.
LEMMA QueuedKept ==
  ASSUME WaitInv, NEW g \in Players, LoginQueued(g)
  PROVE  WaitInv'
<1> DEFINE p == CleanupList(priority)
           w == CleanupList(waiting)
           inFront == GetTimeout(Len(p) + misplaced + 1)
           atEnd == GetTimeout(Len(p) + Len(w) + 1)
<1>1. /\ g \notin online \cup Privileged /\ MaxPlayers # 0 /\ FindClient(p, w, g) = 0
      /\ misplaced' = misplaced /\ online' = online
      /\ told' = [told EXCEPT ![g] = GetTimeout(FindClient(priority', waiting', g))]
  BY DEF LoginQueued, PassesAtOnce, Answer
<1>2. \/ priority' = Append(p, Entry(g, inFront)) /\ waiting' = w
      \/ priority' = p /\ waiting' = Append(w, Entry(g, atEnd))
  BY DEF LoginQueued
<1>3. /\ p \in Seq(Waiter) /\ w \in Seq(Waiter) /\ Distinct(p) /\ Distinct(w)
      /\ Guids(p) \cap Guids(w) = {} /\ (Guids(p) \cup Guids(w)) \cap (online \cup Privileged) = {}
      /\ \A h \in Players : told[h] > 0 => Holds(p, h, told[h]) \/ Holds(w, h, told[h])
  BY LinesCleaned
<1>4. Len(p) \in Nat /\ Len(w) \in Nat /\ misplaced \in Nat /\ online \subseteq Players
      /\ told \in [Players -> Nat]
  BY <1>3, LenProperties DEF WaitInv
<1>5. inFront \in Nat /\ GetTimeout(Len(p) + 1) <= inFront /\ atEnd \in Nat
      /\ GetTimeout(Len(p) + 1) \in Nat
  <2>1. /\ Len(p) + misplaced + 1 \in Nat /\ Len(p) + 1 \in Nat /\ Len(p) + Len(w) + 1 \in Nat
        /\ Len(p) + 1 <= Len(p) + misplaced + 1
    BY <1>4
  <2> QED BY <2>1, Timeouts
<1> HIDE DEF p, w, inFront, atEnd
<1>6. g \notin Guids(p) \cup Guids(w)
  BY <1>1, <1>3, Found
<1>7. CASE priority' = Append(p, Entry(g, inFront)) /\ waiting' = w
  <2>1. /\ Append(p, Entry(g, inFront)) \in Seq(Waiter) /\ Distinct(Append(p, Entry(g, inFront)))
        /\ Len(Append(p, Entry(g, inFront))) = Len(p) + 1
        /\ Append(p, Entry(g, inFront))[Len(p) + 1] = Entry(g, inFront)
        /\ Guids(Append(p, Entry(g, inFront))) = Guids(p) \cup {g}
        /\ \A h, t : Holds(p, h, t) => Holds(Append(p, Entry(g, inFront)), h, t)
        /\ \A t \in Nat : inFront >= t => Holds(Append(p, Entry(g, inFront)), g, t)
    BY <1>3, <1>5, <1>6, Joined
  <2>2. /\ priority' \in Seq(Waiter) /\ Distinct(priority') /\ Len(priority') = Len(p) + 1
        /\ priority'[Len(p) + 1].guid = g /\ Guids(priority') = Guids(p) \cup {g}
        /\ \A h, t : Holds(p, h, t) => Holds(priority', h, t)
        /\ \A t \in Nat : inFront >= t => Holds(priority', g, t)
    BY <1>7, <2>1 DEF Entry
  <2>3. Guids(priority') \cap Guids(w) = {}
    BY <1>3, <1>6, <2>2
  <2>4. Len(p) + 1 \in DOMAIN priority'
    BY <1>4, <2>2, LenProperties
  <2>5. FindClient(priority', w, g) = Len(p) + 1
    <3>1. \A i \in DOMAIN priority' : priority'[i].guid = g => FindClient(priority', w, g) = i
      BY <1>3, <2>2, <2>3, Found
    <3> QED BY <2>2, <2>4, <3>1
  <2>6. told' \in [Players -> Nat]
        /\ \A h \in Players : told'[h] = IF h = g THEN GetTimeout(Len(p) + 1) ELSE told[h]
    BY <1>1, <1>4, <1>5, <1>7, <2>5
  <2>7. \A h \in Players : told'[h] > 0 => Holds(priority', h, told'[h]) \/ Holds(waiting', h, told'[h])
    <3>1. Holds(priority', g, GetTimeout(Len(p) + 1))
      BY <1>5, <2>2
    <3> QED BY <1>3, <1>7, <2>2, <2>6, <3>1
  <2>8. (Guids(priority') \cup Guids(w)) \cap (online \cup Privileged) = {}
    BY <1>1, <1>3, <2>2
  <2>9. /\ Distinct(priority)' /\ Distinct(waiting)' /\ Guids(priority)' = Guids(priority')
        /\ Guids(waiting)' = Guids(w)
        /\ \A h \in Players : told'[h] > 0 => Holds(priority, h, told[h])' \/ Holds(waiting, h, told[h])'
    BY <1>3, <1>7, <2>2, <2>7 DEF Distinct, Guids, Holds
  <2> QED BY <1>1, <1>3, <1>4, <1>7, <2>2, <2>3, <2>6, <2>8, <2>9 DEF WaitInv
<1>8. CASE priority' = p /\ waiting' = Append(w, Entry(g, atEnd))
  <2>1. /\ Append(w, Entry(g, atEnd)) \in Seq(Waiter) /\ Distinct(Append(w, Entry(g, atEnd)))
        /\ Len(Append(w, Entry(g, atEnd))) = Len(w) + 1
        /\ Append(w, Entry(g, atEnd))[Len(w) + 1] = Entry(g, atEnd)
        /\ Guids(Append(w, Entry(g, atEnd))) = Guids(w) \cup {g}
        /\ \A h, t : Holds(w, h, t) => Holds(Append(w, Entry(g, atEnd)), h, t)
        /\ \A t \in Nat : atEnd >= t => Holds(Append(w, Entry(g, atEnd)), g, t)
    BY <1>3, <1>5, <1>6, Joined
  <2>2. /\ waiting' \in Seq(Waiter) /\ Distinct(waiting') /\ Len(waiting') = Len(w) + 1
        /\ waiting'[Len(w) + 1].guid = g /\ Guids(waiting') = Guids(w) \cup {g}
        /\ \A h, t : Holds(w, h, t) => Holds(waiting', h, t)
        /\ \A t \in Nat : atEnd >= t => Holds(waiting', g, t)
    BY <1>8, <2>1 DEF Entry
  <2>3. Guids(p) \cap Guids(waiting') = {}
    BY <1>3, <1>6, <2>2
  <2>4. Len(w) + 1 \in DOMAIN waiting'
    BY <1>4, <2>2, LenProperties
  <2>5. FindClient(p, waiting', g) = Len(p) + Len(w) + 1
    <3>1. \A i \in DOMAIN waiting' : waiting'[i].guid = g => FindClient(p, waiting', g) = Len(p) + i
      BY <1>3, <2>2, <2>3, Found
    <3>2. FindClient(p, waiting', g) = Len(p) + (Len(w) + 1)
      BY <2>2, <2>4, <3>1
    <3> QED BY <1>4, <3>2
  <2>6. told' \in [Players -> Nat]
        /\ \A h \in Players : told'[h] = IF h = g THEN atEnd ELSE told[h]
    BY <1>1, <1>4, <1>5, <1>8, <2>5 DEF atEnd
  <2>7. \A h \in Players : told'[h] > 0 => Holds(priority', h, told'[h]) \/ Holds(waiting', h, told'[h])
    <3>1. atEnd >= atEnd
      BY <1>5
    <3>2. Holds(waiting', g, atEnd)
      BY <1>5, <2>2, <3>1
    <3> QED BY <1>3, <1>8, <2>2, <2>6, <3>2
  <2>8. (Guids(p) \cup Guids(waiting')) \cap (online \cup Privileged) = {}
    BY <1>1, <1>3, <2>2
  <2>9. /\ Distinct(priority)' /\ Distinct(waiting)' /\ Guids(priority)' = Guids(p)
        /\ Guids(waiting)' = Guids(waiting')
        /\ \A h \in Players : told'[h] > 0 => Holds(priority, h, told[h])' \/ Holds(waiting, h, told[h])'
    BY <1>3, <1>8, <2>2, <2>7 DEF Distinct, Guids, Holds
  <2> QED BY <1>1, <1>3, <1>4, <1>8, <2>2, <2>3, <2>6, <2>8, <2>9 DEF WaitInv
<1> QED BY <1>2, <1>7, <1>8

\* Somebody leaves, or nobody.
LEMMA LeaveKept ==
  ASSUME WaitInv, UNCHANGED <<priority, waiting, misplaced, told>>, online' \subseteq online
  PROVE  WaitInv'
<1>1. (Guids(priority) \cup Guids(waiting)) \cap (online' \cup Privileged) = {} /\ online' \subseteq Players
  BY DEF WaitInv
<1>2. /\ Distinct(priority)' = Distinct(priority) /\ Distinct(waiting)' = Distinct(waiting)
      /\ Guids(priority)' = Guids(priority) /\ Guids(waiting)' = Guids(waiting)
  BY DEF Distinct, Guids
<1>3. \A g \in Players : told'[g] > 0 => Holds(priority, g, told[g])' \/ Holds(waiting, g, told[g])'
  <2>1. \A g \in Players : told[g] > 0 => Holds(priority, g, told[g]) \/ Holds(waiting, g, told[g])
    BY DEF WaitInv
  <2> QED BY <2>1 DEF Holds
<1> QED BY <1>1, <1>2, <1>3 DEF WaitInv

\* What a client was told and what it has left age alike.
LEMMA TickKept ==
  ASSUME WaitInv, Tick
  PROVE  WaitInv'
<1>1. /\ priority \in Seq(Waiter) /\ waiting \in Seq(Waiter) /\ Distinct(priority) /\ Distinct(waiting)
      /\ told \in [Players -> Nat]
      /\ \A g \in Players : told[g] > 0 => Holds(priority, g, told[g]) \/ Holds(waiting, g, told[g])
  BY DEF WaitInv
<1>2. /\ priority' \in Seq(Waiter) /\ Distinct(priority') /\ Guids(priority') = Guids(priority)
      /\ Len(priority') = Len(priority)
      /\ \A h : \A t \in Nat \ {0} : Holds(priority, h, t) => Holds(priority', h, t - 1)
  <2>1. priority' = Older(priority)
    BY DEF Tick
  <2>2. /\ Older(priority) \in Seq(Waiter) /\ Distinct(Older(priority))
        /\ Guids(Older(priority)) = Guids(priority) /\ Len(Older(priority)) = Len(priority)
        /\ \A h : \A t \in Nat \ {0} : Holds(priority, h, t) => Holds(Older(priority), h, t - 1)
    BY <1>1, Aged
  <2> QED BY <2>1, <2>2
<1>3. /\ waiting' \in Seq(Waiter) /\ Distinct(waiting') /\ Guids(waiting') = Guids(waiting)
      /\ Len(waiting') = Len(waiting)
      /\ \A h : \A t \in Nat \ {0} : Holds(waiting, h, t) => Holds(waiting', h, t - 1)
  <2>1. waiting' = Older(waiting)
    BY DEF Tick
  <2>2. /\ Older(waiting) \in Seq(Waiter) /\ Distinct(Older(waiting))
        /\ Guids(Older(waiting)) = Guids(waiting) /\ Len(Older(waiting)) = Len(waiting)
        /\ \A h : \A t \in Nat \ {0} : Holds(waiting, h, t) => Holds(Older(waiting), h, t - 1)
    BY <1>1, Aged
  <2> QED BY <2>1, <2>2
<1>4. /\ told' \in [Players -> Nat] /\ UNCHANGED <<online, misplaced>>
      /\ \A g \in Players : told'[g] = IF told[g] > 0 THEN told[g] - 1 ELSE 0
  BY <1>1 DEF Tick
<1>5. \A g \in Players : told'[g] > 0 => Holds(priority', g, told'[g]) \/ Holds(waiting', g, told'[g])
  <2> SUFFICES ASSUME NEW g \in Players, told'[g] > 0
               PROVE  Holds(priority', g, told'[g]) \/ Holds(waiting', g, told'[g])
    OBVIOUS
  <2>1. told[g] \in Nat \ {0} /\ told[g] > 0 /\ told'[g] = told[g] - 1
    BY <1>1, <1>4
  <2> QED BY <1>1, <1>2, <1>3, <2>1
<1>6. MaxPlayers = 0 => priority' = <<>> /\ waiting' = <<>>
  <2> SUFFICES ASSUME MaxPlayers = 0  PROVE priority' = <<>> /\ waiting' = <<>>
    OBVIOUS
  <2>1. Len(priority) = 0 /\ Len(waiting) = 0
    BY DEF WaitInv
  <2> QED BY <1>2, <1>3, <2>1, EmptySeq
<1>7. /\ Guids(priority') \cap Guids(waiting') = {}
      /\ (Guids(priority') \cup Guids(waiting')) \cap (online' \cup Privileged) = {}
      /\ online' \subseteq Players /\ misplaced' \in Nat
  BY <1>2, <1>3, <1>4 DEF WaitInv
<1>8. /\ Distinct(priority)' /\ Distinct(waiting)' /\ Guids(priority)' = Guids(priority')
      /\ Guids(waiting)' = Guids(waiting')
      /\ \A h \in Players : told'[h] > 0 => Holds(priority, h, told[h])' \/ Holds(waiting, h, told[h])'
  BY <1>2, <1>3, <1>5 DEF Distinct, Guids, Holds
<1> QED BY <1>2, <1>3, <1>4, <1>6, <1>7, <1>8 DEF WaitInv

-----------------------------------------------------------------------------
\* For any number of clients, whatever premium time and privileges they have and however
\* often they retry: nobody is in the lines twice, nobody who is online is in them
\* (WaitingList::clientLogin), and those told to come back in time still have their place.
LEMMA WaitInvariant == Spec => []WaitInv
<1>1. Init => WaitInv
  <2> SUFFICES ASSUME Init  PROVE WaitInv
    OBVIOUS
  <2>1. Guids(<<>>) = {} /\ Distinct(<<>>) /\ <<>> \in Seq(Waiter)
    BY DEF Guids, Distinct
  <2> QED BY <2>1 DEF Init, WaitInv
<1>2. WaitInv /\ [Next]_vars => WaitInv'
  <2> SUFFICES ASSUME WaitInv, [Next]_vars  PROVE WaitInv'
    OBVIOUS
  <2>1. ASSUME NEW g \in Players, NEW placed \in BOOLEAN, LoginAtOnce(g, placed)  PROVE WaitInv'
    BY <2>1, AtOnceKept, WaitListAssumption
  <2>2. ASSUME NEW g \in Players, NEW placed \in BOOLEAN, LoginFound(g, placed)  PROVE WaitInv'
    BY <2>2, FoundKept
  <2>3. ASSUME NEW g \in Players, LoginQueued(g)  PROVE WaitInv'
    BY <2>3, QueuedKept
  <2>4. ASSUME NEW g \in Players, Logout(g)  PROVE WaitInv'
    <3>1. UNCHANGED <<priority, waiting, misplaced, told>> /\ online' \subseteq online
      BY <2>4 DEF Logout
    <3> QED BY <3>1, LeaveKept
  <2>5. CASE Tick
    BY <2>5, TickKept
  <2>6. CASE UNCHANGED vars
    <3>1. UNCHANGED <<priority, waiting, misplaced, told>> /\ online' \subseteq online
      BY <2>6 DEF vars
    <3> QED BY <3>1, LeaveKept
  <2> QED BY <2>1, <2>2, <2>3, <2>4, <2>5, <2>6 DEF Next, Login
<1> QED BY <1>1, <1>2, PTL DEF Spec

\* The two lists, one behind the other.
LEMMA BothLines ==
  ASSUME WaitInv
  PROVE  /\ Len(priority) \in Nat /\ Len(waiting) \in Nat
         /\ DOMAIN priority = 1..Len(priority) /\ DOMAIN waiting = 1..Len(waiting)
         /\ DOMAIN Line = 1..(Len(priority) + Len(waiting))
         /\ \A i \in DOMAIN priority : i \in DOMAIN Line /\ Line[i] = priority[i]
         /\ \A i \in DOMAIN waiting : Len(priority) + i \in DOMAIN Line /\ Line[Len(priority) + i] = waiting[i]
         /\ \A i \in DOMAIN Line : \/ i \in DOMAIN priority /\ Line[i] = priority[i]
                                   \/ i - Len(priority) \in DOMAIN waiting /\ Line[i] = waiting[i - Len(priority)]
<1>1. priority \in Seq(Waiter) /\ waiting \in Seq(Waiter)
  BY DEF WaitInv
<1>2. /\ Len(priority) \in Nat /\ Len(waiting) \in Nat
      /\ DOMAIN priority = 1..Len(priority) /\ DOMAIN waiting = 1..Len(waiting)
  BY <1>1, LenProperties
<1>3. /\ Line \in Seq(Waiter) /\ Len(Line) = Len(priority) + Len(waiting)
      /\ \A i \in 1..(Len(priority) + Len(waiting)) :
           Line[i] = IF i <= Len(priority) THEN priority[i] ELSE waiting[i - Len(priority)]
  BY <1>1, ConcatProperties DEF Line
<1>4. DOMAIN Line = 1..(Len(priority) + Len(waiting))
  BY <1>3, LenProperties
<1>5. \A i \in DOMAIN priority : i \in DOMAIN Line /\ Line[i] = priority[i]
  BY <1>2, <1>3, <1>4
<1>6. ASSUME NEW i \in DOMAIN waiting
      PROVE  Len(priority) + i \in DOMAIN Line /\ Line[Len(priority) + i] = waiting[i]
  <2>1. /\ Len(priority) + i \in 1..(Len(priority) + Len(waiting)) /\ ~(Len(priority) + i <= Len(priority))
        /\ (Len(priority) + i) - Len(priority) = i
    BY <1>2
  <2> QED BY <1>3, <1>4, <2>1
<1>7. ASSUME NEW i \in DOMAIN Line
      PROVE  \/ i \in DOMAIN priority /\ Line[i] = priority[i]
             \/ i - Len(priority) \in DOMAIN waiting /\ Line[i] = waiting[i - Len(priority)]
  <2>1. CASE i <= Len(priority)
    BY <1>2, <1>3, <1>4, <2>1
  <2>2. CASE ~(i <= Len(priority))
    <3>1. i - Len(priority) \in 1..Len(waiting)
      BY <1>2, <1>4, <2>2
    <3> QED BY <1>2, <1>3, <1>4, <2>2, <3>1
  <2> QED BY <2>1, <2>2
<1> QED BY <1>2, <1>4, <1>5, <1>6, <1>7

\* For any number of clients, limits and privileges: nobody is in line twice or in line and in
\* the game, and nobody loses its place before the time it was told, and 15 seconds more, is over.
THEOREM LineStays == Spec => []LineKept
<1>1. WaitInv => LineKept
  <2> SUFFICES ASSUME WaitInv  PROVE LineKept
    OBVIOUS
  <2>1. /\ Len(priority) \in Nat /\ DOMAIN Line = 1..(Len(priority) + Len(waiting)) /\ Len(waiting) \in Nat
        /\ \A i \in DOMAIN priority : i \in DOMAIN Line /\ Line[i] = priority[i]
        /\ \A i \in DOMAIN waiting : Len(priority) + i \in DOMAIN Line /\ Line[Len(priority) + i] = waiting[i]
        /\ \A i \in DOMAIN Line : \/ i \in DOMAIN priority /\ Line[i] = priority[i]
                                  \/ i - Len(priority) \in DOMAIN waiting /\ Line[i] = waiting[i - Len(priority)]
    BY BothLines
  <2>2. /\ Distinct(priority) /\ Distinct(waiting) /\ Guids(priority) \cap Guids(waiting) = {}
        /\ (Guids(priority) \cup Guids(waiting)) \cap online = {}
        /\ \A g \in Players : told[g] > 0 => Holds(priority, g, told[g]) \/ Holds(waiting, g, told[g])
    BY DEF WaitInv
  <2> HIDE DEF Line
  <2>3. \A i \in DOMAIN priority : priority[i].guid \in Guids(priority)
    BY DEF Guids
  <2>4. \A i \in DOMAIN waiting : waiting[i].guid \in Guids(waiting)
    BY DEF Guids
  <2>5. ASSUME NEW i \in DOMAIN Line, NEW j \in DOMAIN Line, Line[i].guid = Line[j].guid  PROVE i = j
    <3>1. i \in Int /\ j \in Int
      BY <2>1
    <3>2. CASE i \in DOMAIN priority /\ Line[i] = priority[i]
      <4>1. j \in DOMAIN priority /\ Line[j] = priority[j]
        BY <2>1, <2>2, <2>3, <2>4, <2>5, <3>2
      <4> QED BY <2>2, <2>5, <3>2, <4>1 DEF Distinct
    <3>3. CASE i - Len(priority) \in DOMAIN waiting /\ Line[i] = waiting[i - Len(priority)]
      <4>1. j - Len(priority) \in DOMAIN waiting /\ Line[j] = waiting[j - Len(priority)]
        BY <2>1, <2>2, <2>3, <2>4, <2>5, <3>3
      <4>2. i - Len(priority) = j - Len(priority)
        BY <2>2, <2>5, <3>3, <4>1 DEF Distinct
      <4> QED BY <2>1, <3>1, <4>2
    <3> QED BY <2>1, <3>2, <3>3
  <2>6. \A i \in DOMAIN Line : Line[i].guid \in Guids(priority) \cup Guids(waiting)
    BY <2>1, <2>3, <2>4
  <2>7. \A i \in DOMAIN Line : Line[i].guid \notin online
    BY <2>2, <2>6
  <2>8. ASSUME NEW g \in Players, told[g] > 0  PROVE g \in Guids(Line)
    <3>1. CASE Holds(priority, g, told[g])
      <4>1. PICK i \in DOMAIN priority : priority[i].guid = g
        BY <3>1 DEF Holds
      <4> QED BY <2>1, <4>1 DEF Guids
    <3>2. CASE Holds(waiting, g, told[g])
      <4>1. PICK i \in DOMAIN waiting : waiting[i].guid = g
        BY <3>2 DEF Holds
      <4> QED BY <2>1, <4>1 DEF Guids
    <3> QED BY <2>2, <2>8, <3>1, <3>2
  <2> QED BY <2>5, <2>7, <2>8 DEF LineKept, InLineOnce, PlaceKept
<1> QED BY <1>1, WaitInvariant, PTL
-----------------------------------------------------------------------------
(* The waiting list: nobody is overtaken                                   *)

\* The places of those whose time is not over, and what cleanupList makes of one.
AliveIn(list) == {i \in DOMAIN list : list[i].left > 0}
CleanedPlace(i) ==
  IF i \in DOMAIN priority THEN Rank(AliveIn(priority), i)
  ELSE Len(CleanupList(priority)) + Rank(AliveIn(waiting), i - Len(priority))

\* cleanupList leaves a client that is not expired behind the same clients, and findClient
\* finds it there.
LEMMA PlacesCleaned ==
  ASSUME WaitInv
  PROVE  /\ \A i \in AliveIn(Line) :
              /\ CleanedPlace(i) \in Nat \ {0}
              /\ FindClient(CleanupList(priority), CleanupList(waiting), Line[i].guid) = CleanedPlace(i)
         /\ \A i, j \in AliveIn(Line) : i < j => CleanedPlace(i) < CleanedPlace(j)
         /\ \A g : FindClient(CleanupList(priority), CleanupList(waiting), g) # 0
              => \E i \in AliveIn(Line) : Line[i].guid = g
<1> DEFINE p == CleanupList(priority)
           w == CleanupList(waiting)
           Kp == AliveIn(priority)
           Kw == AliveIn(waiting)
<1>1. priority \in Seq(Waiter) /\ waiting \in Seq(Waiter)
  BY DEF WaitInv
<1>2. /\ Len(priority) \in Nat /\ Len(waiting) \in Nat
      /\ DOMAIN priority = 1..Len(priority) /\ DOMAIN waiting = 1..Len(waiting)
      /\ DOMAIN Line = 1..(Len(priority) + Len(waiting))
      /\ \A i \in DOMAIN priority : i \in DOMAIN Line /\ Line[i] = priority[i]
      /\ \A i \in DOMAIN waiting : Len(priority) + i \in DOMAIN Line /\ Line[Len(priority) + i] = waiting[i]
      /\ \A i \in DOMAIN Line : \/ i \in DOMAIN priority /\ Line[i] = priority[i]
                                \/ i - Len(priority) \in DOMAIN waiting /\ Line[i] = waiting[i - Len(priority)]
  BY BothLines
<1>3. /\ p = Only(priority, Kp) /\ Kp \in SUBSET DOMAIN priority
      /\ w = Only(waiting, Kw) /\ Kw \in SUBSET DOMAIN waiting
  BY DEF CleanupList, AliveIn
<1>4. /\ p \in Seq(Waiter) /\ w \in Seq(Waiter) /\ Distinct(p) /\ Distinct(w) /\ Guids(p) \cap Guids(w) = {}
  BY LinesCleaned
<1>5. /\ Len(p) = Cardinality(Kp) /\ DOMAIN p = 1..Cardinality(Kp) /\ Cardinality(Kp) \in Nat
      /\ \A i \in Kp : Rank(Kp, i) \in DOMAIN p /\ p[Rank(Kp, i)] = priority[i]
      /\ \A n \in DOMAIN p : \E i \in Kp : Rank(Kp, i) = n /\ p[n] = priority[i]
      /\ \A i, j \in Kp : i < j => Rank(Kp, i) < Rank(Kp, j)
  <2> HIDE DEF p, w, Kp, Kw
  <2>1. /\ Len(Only(priority, Kp)) = Cardinality(Kp)
        /\ DOMAIN Only(priority, Kp) = 1..Cardinality(Kp) /\ Cardinality(Kp) \in Nat
        /\ \A i \in Kp : Rank(Kp, i) \in DOMAIN Only(priority, Kp)
                         /\ Only(priority, Kp)[Rank(Kp, i)] = priority[i]
        /\ \A n \in DOMAIN Only(priority, Kp) : \E i \in Kp : Rank(Kp, i) = n /\ Only(priority, Kp)[n] = priority[i]
        /\ \A i, j \in Kp : i < j => Rank(Kp, i) < Rank(Kp, j)
    BY <1>1, <1>3, Keeps
  <2> QED BY <1>3, <2>1
<1>6. /\ Len(w) = Cardinality(Kw) /\ DOMAIN w = 1..Cardinality(Kw) /\ Cardinality(Kw) \in Nat
      /\ \A i \in Kw : Rank(Kw, i) \in DOMAIN w /\ w[Rank(Kw, i)] = waiting[i]
      /\ \A n \in DOMAIN w : \E i \in Kw : Rank(Kw, i) = n /\ w[n] = waiting[i]
      /\ \A i, j \in Kw : i < j => Rank(Kw, i) < Rank(Kw, j)
  <2> HIDE DEF p, w, Kp, Kw
  <2>1. /\ Len(Only(waiting, Kw)) = Cardinality(Kw)
        /\ DOMAIN Only(waiting, Kw) = 1..Cardinality(Kw) /\ Cardinality(Kw) \in Nat
        /\ \A i \in Kw : Rank(Kw, i) \in DOMAIN Only(waiting, Kw)
                         /\ Only(waiting, Kw)[Rank(Kw, i)] = waiting[i]
        /\ \A n \in DOMAIN Only(waiting, Kw) : \E i \in Kw : Rank(Kw, i) = n /\ Only(waiting, Kw)[n] = waiting[i]
        /\ \A i, j \in Kw : i < j => Rank(Kw, i) < Rank(Kw, j)
    BY <1>1, <1>3, Keeps
  <2> QED BY <1>3, <2>1
<1>7. /\ \A i \in DOMAIN priority : i \in Kp <=> priority[i].left > 0
      /\ \A i \in DOMAIN waiting : i \in Kw <=> waiting[i].left > 0
      /\ \A i \in DOMAIN Line : i \in AliveIn(Line) <=> Line[i].left > 0
      /\ AliveIn(Line) \subseteq DOMAIN Line
  BY DEF AliveIn
<1>8. \A i : CleanedPlace(i) = IF i \in DOMAIN priority THEN Rank(Kp, i) ELSE Len(p) + Rank(Kw, i - Len(priority))
  BY DEF CleanedPlace
<1> HIDE DEF p, w, Kp, Kw, Line
<1>9. ASSUME NEW i \in AliveIn(Line)
      PROVE  /\ \/ i \in Kp /\ i \in DOMAIN priority /\ Line[i] = priority[i] /\ CleanedPlace(i) = Rank(Kp, i)
                \/ /\ i - Len(priority) \in Kw /\ i > Len(priority) /\ Line[i] = waiting[i - Len(priority)]
                   /\ CleanedPlace(i) = Len(p) + Rank(Kw, i - Len(priority))
             /\ i \in Int
  <2>1. i \in DOMAIN Line /\ Line[i].left > 0 /\ i \in Int
    BY <1>2, <1>7
  <2>2. CASE i \in DOMAIN priority /\ Line[i] = priority[i]
    BY <1>7, <1>8, <2>1, <2>2
  <2>3. CASE i - Len(priority) \in DOMAIN waiting /\ Line[i] = waiting[i - Len(priority)]
    <3>1. i > Len(priority) /\ i \notin DOMAIN priority
      BY <1>2, <2>1, <2>3
    <3> QED BY <1>7, <1>8, <2>1, <2>3, <3>1
  <2> QED BY <1>2, <2>1, <2>2, <2>3
<1>10. /\ \A i \in Kp : Rank(Kp, i) \in 1..Len(p)
       /\ \A i \in Kw : Rank(Kw, i) \in 1..Len(w)
       /\ Len(p) \in Nat /\ Len(w) \in Nat
  BY <1>5, <1>6
<1>11. ASSUME NEW i \in AliveIn(Line)
       PROVE  CleanedPlace(i) \in Nat \ {0} /\ FindClient(p, w, Line[i].guid) = CleanedPlace(i)
  <2>1. /\ \A n \in DOMAIN p : p[n].guid = Line[i].guid => FindClient(p, w, Line[i].guid) = n
        /\ \A n \in DOMAIN w : w[n].guid = Line[i].guid => FindClient(p, w, Line[i].guid) = Len(p) + n
    BY <1>4, Found
  <2>2. CASE i \in Kp /\ Line[i] = priority[i] /\ CleanedPlace(i) = Rank(Kp, i)
    BY <1>5, <1>10, <2>1, <2>2
  <2>3. CASE /\ i - Len(priority) \in Kw /\ Line[i] = waiting[i - Len(priority)]
             /\ CleanedPlace(i) = Len(p) + Rank(Kw, i - Len(priority))
    <3>1. Rank(Kw, i - Len(priority)) \in 1..Len(w)
      BY <1>10, <2>3
    <3>2. CleanedPlace(i) \in Nat \ {0}
      BY <1>10, <2>3, <3>1
    <3> QED BY <1>6, <2>1, <2>3, <3>2
  <2> QED BY <1>9, <2>2, <2>3
<1>12. ASSUME NEW i \in AliveIn(Line), NEW j \in AliveIn(Line), i < j
       PROVE  CleanedPlace(i) < CleanedPlace(j)
  <2>1. i \in Int /\ j \in Int
    BY <1>9
  <2>2. CASE i \in Kp /\ CleanedPlace(i) = Rank(Kp, i)
    <3>1. CASE j \in Kp /\ CleanedPlace(j) = Rank(Kp, j)
      BY <1>5, <1>12, <2>2, <3>1
    <3>2. CASE j - Len(priority) \in Kw /\ CleanedPlace(j) = Len(p) + Rank(Kw, j - Len(priority))
      <4>1. Rank(Kw, j - Len(priority)) \in 1..Len(w) /\ Rank(Kp, i) \in 1..Len(p)
        BY <1>10, <2>2, <3>2
      <4> QED BY <1>10, <2>2, <3>2, <4>1
    <3> QED BY <1>9, <3>1, <3>2
  <2>3. CASE /\ i - Len(priority) \in Kw /\ i > Len(priority)
             /\ CleanedPlace(i) = Len(p) + Rank(Kw, i - Len(priority))
    <3>1. j \notin DOMAIN priority
      BY <1>2, <1>12, <2>1, <2>3
    <3>2. j - Len(priority) \in Kw /\ CleanedPlace(j) = Len(p) + Rank(Kw, j - Len(priority))
      BY <1>9, <3>1
    <3>3. i - Len(priority) < j - Len(priority)
      BY <1>2, <1>12, <2>1
    <3>4. Rank(Kw, i - Len(priority)) < Rank(Kw, j - Len(priority))
      BY <1>6, <2>3, <3>2, <3>3
    <3>5. Rank(Kw, i - Len(priority)) \in Nat /\ Rank(Kw, j - Len(priority)) \in Nat
      BY <1>10, <2>3, <3>2
    <3> QED BY <1>10, <2>3, <3>2, <3>4, <3>5
  <2> QED BY <1>9, <2>2, <2>3
<1>13. ASSUME NEW g, FindClient(p, w, g) # 0  PROVE \E i \in AliveIn(Line) : Line[i].guid = g
  <2>1. g \in Guids(p) \cup Guids(w)
    BY <1>4, <1>13, Found
  <2>2. CASE g \in Guids(p)
    <3>1. PICK n \in DOMAIN p : p[n].guid = g
      BY <2>2 DEF Guids
    <3>2. PICK i \in Kp : p[n] = priority[i]
      BY <1>5
    <3> QED BY <1>2, <1>3, <1>7, <3>1, <3>2
  <2>3. CASE g \in Guids(w)
    <3>1. PICK n \in DOMAIN w : w[n].guid = g
      BY <2>3 DEF Guids
    <3>2. PICK i \in Kw : w[n] = waiting[i]
      BY <1>6
    <3>3. Len(priority) + i \in DOMAIN Line /\ Line[Len(priority) + i] = waiting[i] /\ waiting[i].left > 0
      BY <1>2, <1>3, <1>7, <3>2
    <3> QED BY <1>7, <3>1, <3>2, <3>3
  <2> QED BY <2>1, <2>2, <2>3
<1> QED BY <1>11, <1>12, <1>13 DEF p, w

\* Those ahead of a client in line, and not expired.
Ahead(g) == {i \in DOMAIN Line : Line[i].left > 0 /\ \A j \in 1..i : Line[j].guid # g}

\* findClient counts them all.
LEMMA CountsAhead ==
  ASSUME WaitInv, NEW g, NEW slot, slot = FindClient(CleanupList(priority), CleanupList(waiting), g), slot # 0
  PROVE  IsFiniteSet(Ahead(g)) /\ Cardinality(Ahead(g)) + 1 <= slot /\ slot \in Nat
<1>1. /\ \A i \in AliveIn(Line) :
           /\ CleanedPlace(i) \in Nat \ {0}
           /\ FindClient(CleanupList(priority), CleanupList(waiting), Line[i].guid) = CleanedPlace(i)
      /\ \A i, j \in AliveIn(Line) : i < j => CleanedPlace(i) < CleanedPlace(j)
  BY PlacesCleaned
<1>2. PICK m \in AliveIn(Line) : Line[m].guid = g
  BY PlacesCleaned
<1>3. CleanedPlace(m) = slot /\ slot \in Nat
  BY <1>1, <1>2
<1>4. \E n \in Nat : DOMAIN Line = 1..n
  <2>1. Len(priority) \in Nat /\ Len(waiting) \in Nat /\ DOMAIN Line = 1..(Len(priority) + Len(waiting))
    BY BothLines
  <2> QED BY <2>1
<1>5. m \in DOMAIN Line /\ AliveIn(Line) \subseteq DOMAIN Line /\ \A i \in AliveIn(Line) : i \in Int
  BY <1>4 DEF AliveIn
<1>6. Ahead(g) \subseteq AliveIn(Line) /\ \A i \in Ahead(g) : i < m
  <2>1. Ahead(g) \subseteq AliveIn(Line)
    BY DEF Ahead, AliveIn
  <2>2. ASSUME NEW i \in Ahead(g)  PROVE i < m
    <3>1. i \in Int /\ m \in Int /\ m >= 1
      BY <1>4, <1>5, <2>1
    <3>2. m \notin 1..i
      BY <1>2 DEF Ahead
    <3> QED BY <3>1, <3>2
  <2> QED BY <2>1, <2>2
<1> DEFINE S == Ahead(g) \cup {m}
           f == [i \in S |-> CleanedPlace(i)]
<1>7. S \subseteq AliveIn(Line) /\ m \notin Ahead(g)
  BY <1>5, <1>6
<1>8. f \in [S -> 1..slot]
  <2> SUFFICES ASSUME NEW i \in S  PROVE CleanedPlace(i) \in 1..slot
    OBVIOUS
  <2>1. CleanedPlace(i) \in Nat \ {0}
    BY <1>1, <1>7
  <2>2. CASE i = m
    BY <1>3, <2>1, <2>2
  <2>3. CASE i \in Ahead(g)
    <3>1. CleanedPlace(i) < CleanedPlace(m)
      BY <1>1, <1>6, <2>3
    <3> QED BY <1>3, <2>1, <3>1
  <2> QED BY <2>2, <2>3
<1>9. \A i, j \in S : f[i] = f[j] => i = j
  <2> SUFFICES ASSUME NEW i \in S, NEW j \in S, CleanedPlace(i) = CleanedPlace(j), i # j  PROVE FALSE
    OBVIOUS
  <2>1. i \in AliveIn(Line) /\ j \in AliveIn(Line) /\ i \in Int /\ j \in Int
    BY <1>5, <1>7
  <2>2. CleanedPlace(i) \in Nat /\ CleanedPlace(j) \in Nat
    BY <1>1, <2>1
  <2>3. CASE i < j
    BY <1>1, <2>1, <2>2, <2>3
  <2>4. CASE j < i
    BY <1>1, <2>1, <2>2, <2>4
  <2> QED BY <2>1, <2>3, <2>4
<1> HIDE DEF S, f
<1>10. IsFiniteSet(S) /\ Cardinality(S) <= slot
  <2>1. IsFiniteSet(1..slot) /\ Cardinality(1..slot) = slot
    BY <1>3, FS_Interval
  <2>2. f \in Injection(S, 1..slot)
    BY <1>8, <1>9 DEF Injection, IsInjective
  <2>3. IsFiniteSet(S) /\ Cardinality(S) <= Cardinality(1..slot)
    BY <2>1, <2>2, FS_Injection
  <2> QED BY <2>1, <2>3
<1>11. IsFiniteSet(Ahead(g)) /\ Cardinality(S) = Cardinality(Ahead(g)) + 1
  <2>1. Ahead(g) \in SUBSET S
    BY DEF S
  <2>2. IsFiniteSet(Ahead(g))
    BY <1>10, <2>1, FS_Subset
  <2> QED BY <1>7, <2>2, FS_AddElement DEF S
<1> QED BY <1>3, <1>10, <1>11

\* For any number of clients and any limit: whoever comes in from a full server has left a
\* place for everybody ahead of it in line, however the lists are emptied and expire
\* (WaitingList::clientLogin, getClientSlot).
THEOREM InTurn == Spec => NotOvertaken
<1>1. ASSUME WaitInv, [Next]_vars, NEW g \in Players \ Privileged, g \in online' \ online, MaxPlayers # 0
      PROVE  Cardinality(online') + Cardinality(Ahead(g)) <= MaxPlayers
  <2>1. MaxPlayers \in Nat /\ IsFiniteSet(online) /\ Cardinality(online) \in Nat
    <3>1. MaxPlayers \in Nat /\ IsFiniteSet(Players) /\ online \in SUBSET Players
      BY <1>1, WaitListAssumption DEF WaitInv
    <3> QED BY <3>1, FS_Subset, FS_CardinalityType
  <2>2. ASSUME NEW h \in Players, NEW placed \in BOOLEAN, Admit(h, placed)
        PROVE  g = h /\ Cardinality(online') = Cardinality(online) + 1
    <3>1. online' = online \cup {h} /\ h = g
      BY <1>1, <2>2 DEF Admit
    <3> QED BY <1>1, <2>1, <3>1, FS_AddElement
  <2>3. ASSUME NEW h \in Players, NEW placed \in BOOLEAN, LoginAtOnce(h, placed)
        PROVE  Cardinality(online') + Cardinality(Ahead(g)) <= MaxPlayers
    <3>1. g = h /\ Cardinality(online') = Cardinality(online) + 1
      BY <2>2, <2>3 DEF LoginAtOnce
    <3>2. priority = <<>> /\ waiting = <<>> /\ Cardinality(online) < MaxPlayers
      BY <1>1, <2>3, <3>1 DEF LoginAtOnce, PassesAtOnce
    <3>3. DOMAIN Line = {}
      BY <3>2 DEF Line
    <3>4. Ahead(g) = {}
      BY <3>3 DEF Ahead
    <3>5. Cardinality(Ahead(g)) = 0
      BY <3>4, FS_EmptySet
    <3> QED BY <2>1, <3>1, <3>2, <3>5
  <2>4. ASSUME NEW h \in Players, NEW placed \in BOOLEAN, LoginFound(h, placed)
        PROVE  Cardinality(online') + Cardinality(Ahead(g)) <= MaxPlayers
    <3> DEFINE slot == FindClient(CleanupList(priority), CleanupList(waiting), h)
    <3>1. slot # 0
      BY <2>4 DEF LoginFound
    <3>2. HasRoom(slot) /\ Admit(h, placed)
      <4>1. CASE HasRoom(slot)
        BY <2>4, <4>1 DEF LoginFound
      <4>2. CASE ~HasRoom(slot)
        <5>1. online' = online
          BY <2>4, <4>2 DEF LoginFound, Answer
        <5> QED BY <1>1, <5>1
      <4> QED BY <4>1, <4>2
    <3>3. g = h /\ Cardinality(online') = Cardinality(online) + 1
      BY <2>2, <3>2
    <3> HIDE DEF slot
    <3>4. Cardinality(online) + slot <= MaxPlayers
      BY <3>2 DEF HasRoom
    <3>5. IsFiniteSet(Ahead(h)) /\ Cardinality(Ahead(h)) + 1 <= slot /\ slot \in Nat
      BY <1>1, <3>1, CountsAhead DEF slot
    <3>6. Cardinality(Ahead(h)) \in Nat
      BY <3>5, FS_CardinalityType
    <3> QED BY <2>1, <3>3, <3>4, <3>5, <3>6
  <2>5. ASSUME online' \subseteq online  PROVE FALSE
    BY <1>1, <2>5
  <2>6. ASSUME NEW h \in Players, LoginQueued(h)  PROVE FALSE
    BY <2>5, <2>6 DEF LoginQueued, Answer
  <2>7. ASSUME NEW h \in Players, Logout(h)  PROVE FALSE
    BY <2>5, <2>7 DEF Logout
  <2>8. CASE Tick \/ UNCHANGED vars
    BY <2>5, <2>8 DEF Tick, vars
  <2> QED BY <1>1, <2>3, <2>4, <2>6, <2>7, <2>8 DEF Next, Login
<1>2. WaitInv /\ [Next]_vars =>
        [\A g \in Players \ Privileged : g \in online' \ online =>
           LET ahead == {i \in DOMAIN Line : Line[i].left > 0 /\ \A j \in 1..i : Line[j].guid # g}
           IN MaxPlayers # 0 => Cardinality(online') + Cardinality(ahead) <= MaxPlayers]_vars
  BY <1>1 DEF Ahead
<1> QED BY <1>2, WaitInvariant, PTL DEF Spec, NotOvertaken

-----------------------------------------------------------------------------
(* The view of a client: a section of its own, without the queries.        *)

HIDE DbAssumption

\* A set of numbers has a least one.
LEMMA LeastOne ==
  ASSUME NEW S \in SUBSET Nat, S # {}
  PROVE  \E least \in S : \A k \in S : least <= k
<1>1. \E least \in S : \A k \in S : ~(<<k, least>> \in OpToRel(<, Nat))
  BY NatLessThanWellFounded, WFMin
<1>2. OpToRel(<, Nat) = {ss \in Nat \X Nat : ss[1] < ss[2]}
  BY DEF OpToRel
<1>3. PICK least \in S : \A k \in S : <<k, least>> \notin {ss \in Nat \X Nat : ss[1] < ss[2]}
  BY <1>1, <1>2
<1>4. \A k \in S : least <= k
  <2> SUFFICES ASSUME NEW k \in S  PROVE least <= k
    OBVIOUS
  <2>1. ~(<<k, least>>[1] < <<k, least>>[2])
    BY <1>3
  <2> QED BY <2>1
<1> QED BY <1>4

\* What is true at first and stays true step by step is true throughout.
LEMMA Upwards ==
  ASSUME NEW N \in Nat, NEW P, 0 \in P, \A n \in 0..(N - 1) : n \in P => n + 1 \in P
  PROVE  \A n \in 0..N : n \in P
<1> DEFINE bad == {n \in 0..N : n \notin P}
<1>1. SUFFICES ASSUME bad # {}  PROVE FALSE
  OBVIOUS
<1>2. PICK least \in bad : \A k \in bad : least <= k
  <2>1. bad \in SUBSET Nat
    OBVIOUS
  <2> HIDE DEF bad
  <2> QED BY <1>1, <2>1, LeastOne
<1>3. least # 0 /\ least - 1 \in 0..(N - 1) /\ (least - 1) + 1 = least
  BY <1>2
<1>4. least - 1 \in P
  BY <1>2, <1>3
<1> QED BY <1>2, <1>3, <1>4

\* The last number of a set of numbers up to a bound is in it, and no other is greater.
LEMMA LastOne ==
  ASSUME NEW N \in Nat, NEW s \in SUBSET (1..N), s # {}
  PROVE  Max(s) \in s /\ \A k \in s : Max(s) >= k
<1> DEFINE under == {N - k : k \in s}
<1>1. under \in SUBSET Nat /\ under # {}
  <2>1. \A k \in s : N - k \in Nat
    OBVIOUS
  <2> QED BY <2>1
<1>2. PICK least \in under : \A d \in under : least <= d
  <2> HIDE DEF under
  <2> QED BY <1>1, LeastOne
<1>3. PICK k \in s : least = N - k
  BY <1>2
<1>4. \A j \in s : k >= j
  <2> SUFFICES ASSUME NEW j \in s  PROVE k >= j
    OBVIOUS
  <2>1. least <= N - j
    BY <1>2
  <2> QED BY <1>3, <2>1
<1> QED BY <1>3, <1>4 DEF Max

-----------------------------------------------------------------------------
(* Lists.                                                                  *)

\* A thing is kept, or not.
Sieve(rest, x, out) == IF x \in out THEN rest ELSE Append(rest, x)

\* A list as it is stripped, thing by thing.
IsStripping(g, list, out) ==
  /\ g[0] = <<>>
  /\ \A n \in 0..(Len(list) - 1) : g[n + 1] = Sieve(g[n], list[n + 1], out)
  /\ Stripped(list, out) = g[Len(list)]

\* Every list is stripped so.
LEMMA StrippingIs ==
  ASSUME NEW out, NEW list \in Seq(Thing)
  PROVE  \E g : IsStripping(g, list, out)
<1> DEFINE N == Len(list)
           T == 1..N
           base == <<>>
           right(f, s) == f[s] = IF s = {} THEN base ELSE Sieve(f[s \ {Max(s)}], list[Max(s)], out)
           upto(n) == \E f : f = [s \in SUBSET T |-> f[s]] /\ \A s \in SUBSET T : Cardinality(s) <= n => right(f, s)
           eq(f) == f = [s \in SUBSET T |-> IF s = {} THEN base ELSE Sieve(f[s \ {Max(s)}], list[Max(s)], out)]
           all == CHOOSE f : eq(f)
<1>1. N \in Nat /\ DOMAIN list = T /\ IsFiniteSet(T) /\ Cardinality(T) = N
  <2>1. N \in Nat /\ DOMAIN list = T
    OBVIOUS
  <2> HIDE DEF N
  <2>2. 1 \in Int /\ N \in Int /\ (1 > N => N = 0) /\ N - 1 + 1 = N
    BY <2>1
  <2>3. IsFiniteSet(1..N) /\ Cardinality(1..N) = IF 1 > N THEN 0 ELSE N - 1 + 1
    BY <2>2, FS_Interval
  <2> QED BY <2>1, <2>2, <2>3
<1> HIDE DEF T, N, base
<1>2. \A s \in SUBSET T : IsFiniteSet(s) /\ Cardinality(s) \in Nat /\ Cardinality(s) <= N
  BY <1>1, FS_Subset, FS_CardinalityType
<1>3. \A s \in SUBSET T : s # {} => Max(s) \in s
  BY <1>1, LastOne DEF T
<1>4. \A s \in SUBSET T : s # {} => s \ {Max(s)} \in SUBSET T /\ Cardinality(s \ {Max(s)}) = Cardinality(s) - 1
  BY <1>2, <1>3, FS_RemoveElement
<1>5. \A s \in SUBSET T : Cardinality(s) = 0 <=> s = {}
  BY <1>2, FS_EmptySet
<1>6. upto(0)
  <2> DEFINE f == [s \in SUBSET T |-> base]
  <2>1. f = [s \in SUBSET T |-> f[s]]
    OBVIOUS
  <2>2. \A s \in SUBSET T : Cardinality(s) <= 0 => s = {}
    BY <1>2, <1>5
  <2>3. \A s \in SUBSET T : Cardinality(s) <= 0 => right(f, s)
    BY <2>2
  <2> HIDE DEF f, right
  <2> QED BY <2>1, <2>3
<1>7. ASSUME NEW n \in Nat, upto(n)  PROVE upto(n + 1)
  <2>1. PICK f : f = [s \in SUBSET T |-> f[s]] /\ \A s \in SUBSET T : Cardinality(s) <= n => right(f, s)
    BY <1>7
  <2> DEFINE g == [s \in SUBSET T |-> IF Cardinality(s) <= n THEN f[s] ELSE Sieve(f[s \ {Max(s)}], list[Max(s)], out)]
  <2>2. g = [s \in SUBSET T |-> g[s]]
    OBVIOUS
  <2>3. ASSUME NEW s \in SUBSET T, Cardinality(s) <= n + 1  PROVE right(g, s)
    <3>1. s # {} => s \ {Max(s)} \in SUBSET T /\ Cardinality(s \ {Max(s)}) <= n
      BY <1>2, <1>4, <2>3
    <3>2. s # {} => g[s \ {Max(s)}] = f[s \ {Max(s)}]
      BY <3>1
    <3>3. CASE Cardinality(s) <= n
      <4>1. g[s] = f[s] /\ right(f, s)
        BY <2>1, <3>3
      <4> HIDE DEF g
      <4> QED BY <3>2, <4>1
    <3>4. CASE ~(Cardinality(s) <= n)
      <4>1. s # {}
        BY <1>2, <1>5, <3>4
      <4>2. g[s] = Sieve(f[s \ {Max(s)}], list[Max(s)], out)
        BY <3>4
      <4> HIDE DEF g
      <4> QED BY <3>2, <4>1, <4>2
    <3> QED BY <3>3, <3>4
  <2> HIDE DEF g, right
  <2> QED BY <2>2, <2>3
<1>8. upto(N)
  <2> HIDE DEF upto
  <2> DEFINE P == {n \in Nat : upto(n)}
  <2>1. 0 \in P
    BY <1>6
  <2>2. \A n \in 0..(N - 1) : n \in P => n + 1 \in P
    BY <1>7
  <2>3. N \in 0..N
    BY <1>1
  <2> HIDE DEF P
  <2>4. \A n \in 0..N : n \in P
    BY <1>1, <2>1, <2>2, Upwards
  <2> QED BY <2>3, <2>4 DEF P
<1>9. PICK f : f = [s \in SUBSET T |-> f[s]] /\ \A s \in SUBSET T : right(f, s)
  <2>1. PICK f : f = [s \in SUBSET T |-> f[s]] /\ \A s \in SUBSET T : Cardinality(s) <= N => right(f, s)
    BY <1>8
  <2> QED BY <1>2, <2>1
<1>10. eq(f)
  BY <1>9
<1>11. eq(all)
  <2> HIDE DEF eq
  <2> QED BY <1>10
<1>12. Stripped(list, out) = all[T]
  BY <1>1 DEF Stripped, Sieve, FoldLeft, MapThenFoldSet, base
<1> HIDE DEF all
<1>13. \A s \in SUBSET T : right(all, s)
  BY <1>11
<1> DEFINE g == [n \in 0..N |-> all[1..n]]
<1>14. g[0] = base
  <2>1. 1..0 = {}
    OBVIOUS
  <2>2. {} \in SUBSET T /\ 0 \in 0..N
    BY <1>1
  <2>3. all[{}] = base
    BY <1>13, <2>2
  <2> QED BY <2>1, <2>2, <2>3
<1>15. ASSUME NEW n \in 0..(N - 1)  PROVE g[n + 1] = Sieve(g[n], list[n + 1], out)
  <2>0. n \in Nat /\ n + 1 \in 1..N /\ N \in Nat
    BY <1>1
  <2>1. 1..(n + 1) \in SUBSET T /\ 1..(n + 1) # {} /\ n + 1 \in 0..N /\ n \in 0..N /\ n + 1 \in 1..(n + 1)
    <3>1. n + 1 \in 1..(n + 1) /\ n + 1 \in 0..N /\ n \in 0..N
      BY <2>0
    <3>2. \A k \in 1..(n + 1) : k \in 1..N
      BY <2>0
    <3> QED BY <3>1, <3>2 DEF T
  <2>2. (1..(n + 1)) \ {n + 1} = 1..n
    BY <2>0
  <2>3. Max(1..(n + 1)) = n + 1
    <3> DEFINE m == Max(1..(n + 1))
    <3>1. n + 1 \in Nat /\ 1..(n + 1) \in SUBSET (1..(n + 1))
      BY <2>0
    <3>2. m \in 1..(n + 1) /\ \A k \in 1..(n + 1) : m >= k
      BY <2>1, <3>1, LastOne
    <3> HIDE DEF m
    <3>3. m = n + 1
      BY <2>1, <3>1, <3>2
    <3> QED BY <3>3 DEF m
  <2>4. all[1..(n + 1)] = Sieve(all[(1..(n + 1)) \ {Max(1..(n + 1))}], list[Max(1..(n + 1))], out)
    BY <1>13, <2>1
  <2>5. all[1..(n + 1)] = Sieve(all[1..n], list[n + 1], out)
    BY <2>2, <2>3, <2>4
  <2>6. g[n + 1] = all[1..(n + 1)] /\ g[n] = all[1..n]
    BY <2>1
  <2> HIDE DEF g
  <2> QED BY <2>5, <2>6
<1>16. g[N] = all[T]
  BY <1>1 DEF T
<1> HIDE DEF g
<1> QED BY <1>12, <1>14, <1>15, <1>16 DEF N, base, IsStripping

\* What is left is a list, of things of the list that are to stay.
LEMMA StrippedIs ==
  ASSUME NEW out, NEW list \in Seq(Thing)
  PROVE  /\ Stripped(list, out) \in Seq(Thing)
         /\ \A k \in DOMAIN Stripped(list, out) :
              Stripped(list, out)[k] \notin out /\ \E j \in DOMAIN list : list[j] = Stripped(list, out)[k]
<1> DEFINE N == Len(list)
           from(x) == x \in Thing /\ x \notin out /\ \E j \in DOMAIN list : list[j] = x
           good(xs) == xs \in Seq(Thing) /\ \A k \in DOMAIN xs : from(xs[k])
<1>1. PICK g : IsStripping(g, list, out)
  BY StrippingIs
<1>2. N \in Nat /\ DOMAIN list = 1..N /\ \A k \in 1..N : list[k] \in Thing
  OBVIOUS
<1>3. good(g[0])
  <2>1. g[0] = <<>>
    BY <1>1 DEF IsStripping
  <2> QED BY <2>1
<1>4. ASSUME NEW n \in 0..(N - 1), good(g[n])  PROVE good(g[n + 1])
  <2> DEFINE xs == g[n]
             x == list[n + 1]
  <2>1. n + 1 \in 1..N
    BY <1>2
  <2>2. g[n + 1] = Sieve(xs, x, out)
    BY <1>1 DEF IsStripping
  <2>3. x \in Thing /\ (x \in out \/ from(x))
    BY <1>2, <2>1
  <2>4. good(xs)
    BY <1>4
  <2> HIDE DEF xs, x, from
  <2>5. xs \in Seq(Thing) /\ Len(xs) \in Nat /\ DOMAIN xs = 1..Len(xs) /\ \A k \in 1..Len(xs) : from(xs[k])
    BY <2>4
  <2>6. CASE x \in out
    BY <2>2, <2>4, <2>6 DEF Sieve
  <2>7. CASE x \notin out
    <3> DEFINE ys == Append(xs, x)
    <3>1. ys \in Seq(Thing) /\ DOMAIN ys = 1..(Len(xs) + 1)
      BY <2>3, <2>5
    <3>2. \A k \in 1..(Len(xs) + 1) : ys[k] = IF k = Len(xs) + 1 THEN x ELSE xs[k]
      BY <2>3, <2>5
    <3>3. g[n + 1] = ys
      BY <2>2, <2>7 DEF Sieve
    <3> HIDE DEF ys
    <3>4. \A k \in 1..(Len(xs) + 1) : from(ys[k])
      <4> SUFFICES ASSUME NEW k \in 1..(Len(xs) + 1)  PROVE from(ys[k])
        OBVIOUS
      <4>1. CASE k = Len(xs) + 1
        BY <2>3, <2>7, <3>2, <4>1
      <4>2. CASE k # Len(xs) + 1
        <5>1. k \in 1..Len(xs) /\ ys[k] = xs[k]
          BY <2>5, <3>2, <4>2
        <5> QED BY <2>5, <5>1
      <4> QED BY <4>1, <4>2
    <3> QED BY <3>1, <3>3, <3>4
  <2> QED BY <2>6, <2>7
<1> HIDE DEF good
<1>5. good(g[N])
  <2> DEFINE P == {n \in Nat : good(g[n])}
  <2>1. 0 \in P
    BY <1>3
  <2>2. \A n \in 0..(N - 1) : n \in P => n + 1 \in P
    BY <1>2, <1>4
  <2>3. N \in 0..N
    BY <1>2
  <2> HIDE DEF P
  <2>4. \A n \in 0..N : n \in P
    BY <1>2, <2>1, <2>2, Upwards
  <2> QED BY <2>3, <2>4 DEF P
<1>6. Stripped(list, out) = g[N]
  BY <1>1 DEF IsStripping
<1> QED BY <1>5, <1>6 DEF good

\* One thing more.
LEMMA StrippedAppend ==
  ASSUME NEW out, NEW list \in Seq(Thing), NEW x \in Thing
  PROVE  Stripped(Append(list, x), out) = Sieve(Stripped(list, out), x, out)
<1> DEFINE N == Len(list)
           more == Append(list, x)
<1>1. PICK g : IsStripping(g, list, out)
  BY StrippingIs
<1>2. N \in Nat /\ more \in Seq(Thing) /\ Len(more) = N + 1 /\ more[N + 1] = x /\ \A k \in 1..N : more[k] = list[k]
  OBVIOUS
<1> HIDE DEF more
<1>3. PICK h : IsStripping(h, more, out)
  BY <1>2, StrippingIs
<1>4. g[N] = h[N]
  <2> DEFINE P == {n \in Nat : g[n] = h[n]}
  <2>1. 0 \in P
    BY <1>1, <1>3 DEF IsStripping
  <2>2. ASSUME NEW n \in 0..(N - 1), n \in P  PROVE n + 1 \in P
    <3>1. n + 1 \in 1..N /\ n \in 0..(Len(more) - 1) /\ n + 1 \in Nat
      BY <1>2
    <3>2. g[n + 1] = Sieve(g[n], list[n + 1], out)
      BY <1>1 DEF IsStripping
    <3>3. h[n + 1] = Sieve(h[n], more[n + 1], out)
      BY <1>3, <3>1 DEF IsStripping
    <3> QED BY <1>2, <2>2, <3>1, <3>2, <3>3
  <2>3. N \in 0..N
    BY <1>2
  <2> HIDE DEF P
  <2>4. \A n \in 0..N : n \in P
    BY <1>2, <2>1, <2>2, Upwards
  <2> QED BY <2>3, <2>4 DEF P
<1>5. Stripped(list, out) = g[N]
  BY <1>1 DEF IsStripping
<1>6. Stripped(more, out) = h[N + 1]
  BY <1>2, <1>3 DEF IsStripping
<1>7. h[N + 1] = Sieve(h[N], more[N + 1], out)
  <2>1. N \in 0..(Len(more) - 1)
    BY <1>2
  <2> QED BY <1>3, <2>1 DEF IsStripping
<1> QED BY <1>2, <1>4, <1>5, <1>6, <1>7 DEF more

\* The first n things of a list.
Prefix(list, n) == [k \in 1..n |-> list[k]]

\* A list grows by one thing at a time.
LEMMA PrefixIs ==
  ASSUME NEW list \in Seq(Thing)
  PROVE  /\ Prefix(list, 0) = <<>> /\ Prefix(list, Len(list)) = list
         /\ \A n \in 0..Len(list) : Prefix(list, n) \in Seq(Thing) /\ Len(Prefix(list, n)) = n
         /\ \A n \in 0..(Len(list) - 1) : Prefix(list, n + 1) = Append(Prefix(list, n), list[n + 1])
<1>1. Len(list) \in Nat /\ \A k \in 1..Len(list) : list[k] \in Thing
  OBVIOUS
<1>2. \A n \in 0..Len(list) : Prefix(list, n) \in Seq(Thing) /\ Len(Prefix(list, n)) = n
  BY <1>1 DEF Prefix
<1>3. Prefix(list, 0) = <<>>
  BY DEF Prefix
<1>4. Prefix(list, Len(list)) = list
  BY DEF Prefix
<1>5. ASSUME NEW n \in 0..(Len(list) - 1)  PROVE Prefix(list, n + 1) = Append(Prefix(list, n), list[n + 1])
  <2> DEFINE a == Prefix(list, n)
             b == Append(a, list[n + 1])
             c == Prefix(list, n + 1)
  <2>1. n \in 0..Len(list) /\ n + 1 \in 0..Len(list) /\ n + 1 \in 1..Len(list) /\ n \in Nat
    BY <1>1
  <2>2. a \in Seq(Thing) /\ Len(a) = n /\ c \in Seq(Thing) /\ Len(c) = n + 1 /\ list[n + 1] \in Thing
    BY <1>1, <1>2, <2>1
  <2>3. (\A k \in 1..n : a[k] = list[k]) /\ (\A k \in 1..(n + 1) : c[k] = list[k])
    BY DEF Prefix
  <2> HIDE DEF a, c
  <2>4. b \in Seq(Thing) /\ Len(b) = n + 1 /\ \A k \in 1..(n + 1) : b[k] = IF k = n + 1 THEN list[n + 1] ELSE a[k]
    BY <2>1, <2>2
  <2> HIDE DEF b
  <2>5. \A k \in 1..(n + 1) : b[k] = c[k]
    BY <2>1, <2>3, <2>4
  <2>6. b = c
    BY <2>2, <2>4, <2>5, SeqEqual
  <2> QED BY <2>6 DEF a, b, c
<1> QED BY <1>2, <1>3, <1>4, <1>5

\* Adding to the second of two lists.
LEMMA AppendConcat ==
  ASSUME NEW a \in Seq(Thing), NEW b \in Seq(Thing), NEW x \in Thing
  PROVE  a \o Append(b, x) = Append(a \o b, x) /\ a \o b \in Seq(Thing)
<1> DEFINE bx == Append(b, x)
           l == a \o bx
           m == a \o b
           r == Append(m, x)
<1>1. Len(a) \in Nat /\ Len(b) \in Nat /\ m \in Seq(Thing) /\ Len(m) = Len(a) + Len(b)
  BY ConcatProperties
<1>2. bx \in Seq(Thing) /\ Len(bx) = Len(b) + 1 /\ bx[Len(b) + 1] = x /\ \A k \in 1..Len(b) : bx[k] = b[k]
  OBVIOUS
<1>3. \A k \in 1..(Len(a) + Len(b)) : m[k] = IF k <= Len(a) THEN a[k] ELSE b[k - Len(a)]
  BY ConcatProperties
<1> HIDE DEF m, bx
<1>4. /\ l \in Seq(Thing) /\ Len(l) = Len(a) + Len(b) + 1
      /\ \A k \in 1..(Len(a) + Len(b) + 1) : l[k] = IF k <= Len(a) THEN a[k] ELSE bx[k - Len(a)]
  <2>1. /\ l \in Seq(Thing) /\ Len(l) = Len(a) + Len(bx)
        /\ \A k \in 1..(Len(a) + Len(bx)) : l[k] = IF k <= Len(a) THEN a[k] ELSE bx[k - Len(a)]
    BY <1>2, ConcatProperties
  <2>2. Len(a) + Len(bx) = Len(a) + Len(b) + 1
    BY <1>1, <1>2
  <2> QED BY <2>1, <2>2
<1>5. r \in Seq(Thing) /\ Len(r) = Len(a) + Len(b) + 1 /\ r[Len(a) + Len(b) + 1] = x /\ \A k \in 1..(Len(a) + Len(b)) : r[k] = m[k]
  BY <1>1
<1> HIDE DEF l, r
<1>6. ASSUME NEW k \in 1..(Len(a) + Len(b) + 1)  PROVE l[k] = r[k]
  <2>1. CASE k <= Len(a)
    <3>1. k \in 1..(Len(a) + Len(b))
      BY <1>1, <2>1
    <3>2. l[k] = a[k]
      BY <1>4, <2>1
    <3>3. m[k] = a[k]
      BY <1>3, <2>1, <3>1
    <3> QED BY <1>5, <3>1, <3>2, <3>3
  <2>2. CASE k = Len(a) + Len(b) + 1
    <3>1. k - Len(a) = Len(b) + 1 /\ ~(k <= Len(a))
      BY <1>1, <2>2
    <3> QED BY <1>2, <1>4, <1>5, <2>2, <3>1
  <2>3. CASE k > Len(a) /\ k # Len(a) + Len(b) + 1
    <3>1. k - Len(a) \in 1..Len(b) /\ k \in 1..(Len(a) + Len(b)) /\ ~(k <= Len(a))
      BY <1>1, <2>3
    <3> QED BY <1>2, <1>3, <1>4, <1>5, <3>1
  <2> QED BY <1>1, <2>1, <2>2, <2>3
<1>7. l = r
  BY <1>4, <1>5, <1>6, SeqEqual
<1> QED BY <1>1, <1>7 DEF l, r, m, bx

\* Two lists in a row are stripped one by one.
LEMMA StrippedConcat ==
  ASSUME NEW out, NEW a \in Seq(Thing), NEW b \in Seq(Thing)
  PROVE  Stripped(a \o b, out) = Stripped(a, out) \o Stripped(b, out)
<1> DEFINE N == Len(b)
           upto(n) == Stripped(a \o Prefix(b, n), out) = Stripped(a, out) \o Stripped(Prefix(b, n), out)
           P == {n \in Nat : upto(n)}
<1>1. N \in Nat /\ \A k \in 1..N : b[k] \in Thing
  OBVIOUS
<1>2. Stripped(a, out) \in Seq(Thing)
  BY StrippedIs
<1>3. upto(0)
  <2> DEFINE none == <<>>
  <2>1. none \in Seq(Thing)
    OBVIOUS
  <2>2. Stripped(none, out) = none
    <3>1. PICK g : IsStripping(g, none, out)
      BY <2>1, StrippingIs
    <3> QED BY <3>1 DEF IsStripping
  <2>3. a \o none = a /\ Stripped(a, out) \o none = Stripped(a, out)
    BY <1>2, ConcatEmptySeq
  <2>4. Prefix(b, 0) = none
    BY PrefixIs
  <2> HIDE DEF none
  <2> QED BY <2>2, <2>3, <2>4
<1>4. ASSUME NEW n \in 0..(N - 1), upto(n)  PROVE upto(n + 1)
  <2> DEFINE p == Prefix(b, n)
             q == Prefix(b, n + 1)
             x == b[n + 1]
             sa == Stripped(a, out)
             sp == Stripped(p, out)
  <2>1. n \in 0..N /\ n + 1 \in 1..N
    BY <1>1
  <2>2. p \in Seq(Thing) /\ q = Append(p, x) /\ x \in Thing
    BY <1>1, <2>1, PrefixIs
  <2>3. Stripped(a \o p, out) = sa \o sp
    BY <1>4
  <2> HIDE DEF p, q, x, sa, sp
  <2>4. a \o q = Append(a \o p, x) /\ a \o p \in Seq(Thing)
    BY <2>2, AppendConcat
  <2>5. Stripped(a \o q, out) = Sieve(Stripped(a \o p, out), x, out)
    BY <2>2, <2>4, StrippedAppend
  <2>6. Stripped(q, out) = Sieve(sp, x, out)
    BY <2>2, StrippedAppend DEF sp
  <2>7. sa \in Seq(Thing) /\ sp \in Seq(Thing)
    BY <1>2, <2>2, StrippedIs DEF sa, sp
  <2>8. sa \o Append(sp, x) = Append(sa \o sp, x)
    BY <2>2, <2>7, AppendConcat
  <2>9. Sieve(sa \o sp, x, out) = sa \o Sieve(sp, x, out)
    BY <2>8 DEF Sieve
  <2> QED BY <2>3, <2>5, <2>6, <2>9 DEF q, sa
<1> HIDE DEF upto
<1>5. 0 \in P
  BY <1>3
<1>6. \A n \in 0..(N - 1) : n \in P => n + 1 \in P
  BY <1>1, <1>4
<1>7. N \in 0..N
  BY <1>1
<1> HIDE DEF P
<1>8. \A n \in 0..N : n \in P
  BY <1>1, <1>5, <1>6, Upwards
<1>9. upto(N) /\ Prefix(b, N) = b
  BY <1>7, <1>8, PrefixIs DEF P
<1> QED BY <1>9 DEF upto

\* A list of which nothing is to go stays as it is.
LEMMA StrippedSame ==
  ASSUME NEW out, NEW list \in Seq(Thing), \A k \in DOMAIN list : list[k] \notin out
  PROVE  Stripped(list, out) = list
<1> DEFINE N == Len(list)
           P == {n \in Nat : Stripped(Prefix(list, n), out) = Prefix(list, n)}
<1>1. N \in Nat /\ \A k \in 1..N : list[k] \in Thing /\ list[k] \notin out
  OBVIOUS
<1>2. 0 \in P
  <2> DEFINE none == <<>>
  <2>1. none \in Seq(Thing)
    OBVIOUS
  <2>2. Stripped(none, out) = none
    <3>1. PICK g : IsStripping(g, none, out)
      BY <2>1, StrippingIs
    <3> QED BY <3>1 DEF IsStripping
  <2>3. Prefix(list, 0) = none
    BY PrefixIs
  <2> HIDE DEF none
  <2> QED BY <2>2, <2>3
<1>3. ASSUME NEW n \in 0..(N - 1), n \in P  PROVE n + 1 \in P
  <2>1. n \in 0..N /\ n + 1 \in 1..N /\ n + 1 \in Nat
    BY <1>1
  <2>2. Prefix(list, n) \in Seq(Thing) /\ Prefix(list, n + 1) = Append(Prefix(list, n), list[n + 1])
    BY <2>1, PrefixIs
  <2>3. list[n + 1] \in Thing /\ list[n + 1] \notin out
    BY <1>1, <2>1
  <2>4. Stripped(Prefix(list, n + 1), out) = Sieve(Stripped(Prefix(list, n), out), list[n + 1], out)
    BY <2>2, <2>3, StrippedAppend
  <2> QED BY <1>3, <2>1, <2>2, <2>3, <2>4 DEF Sieve
<1>4. N \in 0..N
  BY <1>1
<1> HIDE DEF P
<1>5. \A n \in 0..N : n \in P
  BY <1>1, <1>2, <1>3, Upwards
<1> QED BY <1>4, <1>5, PrefixIs DEF P

\* One thing.
LEMMA StrippedOne ==
  ASSUME NEW out, NEW x \in Thing
  PROVE  Stripped(<<x>>, out) = IF x \in out THEN <<>> ELSE <<x>>
<1> DEFINE one == <<x>>
<1>1. one \in Seq(Thing) /\ Len(one) = 1 /\ one[1] = x
  OBVIOUS
<1>2. PICK g : IsStripping(g, one, out)
  BY <1>1, StrippingIs
<1>3. g[0] = <<>> /\ g[1] = Sieve(g[0], one[1], out) /\ Stripped(one, out) = g[1]
  <2>1. 0 \in 0..(Len(one) - 1) /\ 0 + 1 = 1
    BY <1>1
  <2> HIDE DEF one
  <2> QED BY <1>1, <1>2, <2>1 DEF IsStripping
<1>4. Append(<<>>, x) = one
  OBVIOUS
<1> QED BY <1>1, <1>3, <1>4 DEF Sieve

-----------------------------------------------------------------------------
(* A thing and what lies before and behind it.                             *)

\* The things of a list; and a list in which none is twice.
Elements(list) == {list[k] : k \in DOMAIN list}
Once(list) == \A i, j \in DOMAIN list : list[i] = list[j] => i = j

\* x in the middle of two lists.
Row(a, x, b) == (a \o <<x>>) \o b

\* x lies between a and b, and only there.
Around(list, x, a, b) ==
  /\ x \in Thing /\ a \in Seq(Thing) /\ b \in Seq(Thing) /\ list = Row(a, x, b)
  /\ x \notin Elements(a) /\ x \notin Elements(b)

\* A row, thing by thing.
LEMMA RowIs ==
  ASSUME NEW a \in Seq(Thing), NEW b \in Seq(Thing), NEW x \in Thing
  PROVE  /\ Row(a, x, b) \in Seq(Thing) /\ Len(Row(a, x, b)) = Len(a) + Len(b) + 1
         /\ Len(a) \in Nat /\ Len(b) \in Nat
         /\ \A k \in 1..(Len(a) + Len(b) + 1) :
              Row(a, x, b)[k] = IF k <= Len(a) THEN a[k] ELSE IF k = Len(a) + 1 THEN x ELSE b[k - Len(a) - 1]
<1> DEFINE one == <<x>>
           m == a \o one
           r == m \o b
           la == Len(a)
           lb == Len(b)
<1>1. one \in Seq(Thing) /\ Len(one) = 1 /\ one[1] = x /\ la \in Nat /\ lb \in Nat
  OBVIOUS
<1>2. Row(a, x, b) = r
  BY DEF Row
<1> HIDE DEF one
<1>3. /\ m \in Seq(Thing) /\ Len(m) = la + 1
      /\ \A k \in 1..(la + 1) : m[k] = IF k <= la THEN a[k] ELSE one[k - la]
  <2>1. /\ m \in Seq(Thing) /\ Len(m) = Len(a) + Len(one)
        /\ \A k \in 1..(Len(a) + Len(one)) : m[k] = IF k <= Len(a) THEN a[k] ELSE one[k - Len(a)]
    BY <1>1, ConcatProperties
  <2>2. Len(a) + Len(one) = la + 1
    BY <1>1
  <2> QED BY <2>1, <2>2
<1> HIDE DEF m
<1>4. /\ r \in Seq(Thing) /\ Len(r) = (la + 1) + lb
      /\ \A k \in 1..((la + 1) + lb) : r[k] = IF k <= la + 1 THEN m[k] ELSE b[k - (la + 1)]
  <2>1. /\ r \in Seq(Thing) /\ Len(r) = Len(m) + Len(b)
        /\ \A k \in 1..(Len(m) + Len(b)) : r[k] = IF k <= Len(m) THEN m[k] ELSE b[k - Len(m)]
    <3>1. m \in Seq(Thing) /\ b \in Seq(Thing)
      BY <1>3
    <3> QED BY <3>1, ConcatProperties
  <2>2. Len(m) = la + 1 /\ Len(b) = lb
    BY <1>3
  <2> QED BY <2>1, <2>2
<1> HIDE DEF r, la, lb
<1>5. ASSUME NEW k \in 1..(la + lb + 1)
      PROVE  r[k] = IF k <= la THEN a[k] ELSE IF k = la + 1 THEN x ELSE b[k - la - 1]
  <2>1. k \in 1..((la + 1) + lb) /\ k - (la + 1) = k - la - 1
    BY <1>1
  <2>2. CASE k <= la
    BY <1>1, <1>3, <1>4, <2>1, <2>2
  <2>3. CASE k = la + 1
    <3>1. k - la = 1 /\ ~(k <= la) /\ k \in 1..(la + 1)
      BY <1>1, <2>3
    <3> QED BY <1>1, <1>3, <1>4, <2>1, <2>3, <3>1
  <2>4. CASE ~(k <= la) /\ k # la + 1
    <3>1. ~(k <= la + 1)
      BY <1>1, <2>4
    <3> QED BY <1>4, <2>1, <2>4, <3>1
  <2> QED BY <2>2, <2>3, <2>4
<1>6. (la + 1) + lb = la + lb + 1
  BY <1>1
<1> QED BY <1>1, <1>2, <1>4, <1>5, <1>6 DEF la, lb

\* Two lists in a row, thing by thing.
LEMMA PairIs ==
  ASSUME NEW a \in Seq(Thing), NEW b \in Seq(Thing)
  PROVE  /\ a \o b \in Seq(Thing) /\ Len(a \o b) = Len(a) + Len(b)
         /\ Len(a) \in Nat /\ Len(b) \in Nat
         /\ \A k \in 1..(Len(a) + Len(b)) : (a \o b)[k] = IF k <= Len(a) THEN a[k] ELSE b[k - Len(a)]
BY ConcatProperties, LenProperties

\* Where a thing lies in a list without doubles, it lies between two others.
LEMMA SplitOnce ==
  ASSUME NEW list \in Seq(Thing), Once(list), NEW x \in Elements(list)
  PROVE  \E a, b : Around(list, x, a, b)
<1>1. PICK k \in DOMAIN list : list[k] = x
  BY DEF Elements
<1> DEFINE N == Len(list)
           a == Prefix(list, k - 1)
           b == [i \in 1..(N - k) |-> list[k + i]]
<1>2. N \in Nat /\ DOMAIN list = 1..N /\ k \in 1..N /\ x \in Thing /\ \A i \in 1..N : list[i] \in Thing
  BY <1>1
<1>3. a \in Seq(Thing) /\ Len(a) = k - 1
  <2>1. k - 1 \in 0..Len(list)
    BY <1>2
  <2> QED BY <2>1, PrefixIs
<1>4. b \in Seq(Thing) /\ Len(b) = N - k
  <2>1. \A i \in 1..(N - k) : k + i \in 1..N
    BY <1>2
  <2>2. N - k \in Nat
    BY <1>2
  <2> QED BY <1>2, <2>1, <2>2
<1>5. (\A i \in 1..(k - 1) : a[i] = list[i]) /\ (\A i \in 1..(N - k) : b[i] = list[k + i])
  BY DEF Prefix
<1> HIDE DEF a, b, N
<1>6. list = Row(a, x, b)
  <2> DEFINE r == Row(a, x, b)
  <2>1. /\ r \in Seq(Thing) /\ Len(r) = (k - 1) + (N - k) + 1
        /\ \A i \in 1..((k - 1) + (N - k) + 1) :
             r[i] = IF i <= k - 1 THEN a[i] ELSE IF i = (k - 1) + 1 THEN x ELSE b[i - (k - 1) - 1]
    <3>1. /\ r \in Seq(Thing) /\ Len(r) = Len(a) + Len(b) + 1
          /\ \A i \in 1..(Len(a) + Len(b) + 1) :
               r[i] = IF i <= Len(a) THEN a[i] ELSE IF i = Len(a) + 1 THEN x ELSE b[i - Len(a) - 1]
      <4>1. a \in Seq(Thing) /\ b \in Seq(Thing) /\ x \in Thing
        BY <1>2, <1>3, <1>4
      <4> QED BY <4>1, RowIs
    <3> QED BY <1>3, <1>4, <3>1
  <2> HIDE DEF r
  <2>2. Len(r) = N /\ Len(list) = N
    BY <1>2, <2>1 DEF N
  <2>3. ASSUME NEW i \in 1..N  PROVE r[i] = list[i]
    <3>1. i \in 1..((k - 1) + (N - k) + 1)
      BY <1>2
    <3>2. CASE i <= k - 1
      <4>1. i \in 1..(k - 1)
        BY <1>2, <3>2
      <4>2. r[i] = a[i]
        BY <2>1, <3>1, <3>2
      <4> QED BY <1>5, <4>1, <4>2
    <3>3. CASE i = k
      BY <1>1, <1>2, <2>1, <3>1, <3>3
    <3>4. CASE i > k
      <4>1. i - (k - 1) - 1 = i - k /\ i - k \in 1..(N - k) /\ k + (i - k) = i /\ ~(i <= k - 1) /\ i # (k - 1) + 1
        BY <1>2, <3>4
      <4> QED BY <1>5, <2>1, <3>1, <4>1
    <3> QED BY <1>2, <3>2, <3>3, <3>4
  <2>4. r = list
    BY <2>1, <2>2, <2>3, SeqEqual
  <2> QED BY <2>4 DEF r
<1>7. x \notin Elements(a)
  <2> SUFFICES ASSUME NEW i \in DOMAIN a, a[i] = x  PROVE FALSE
    BY DEF Elements
  <2>1. i \in 1..(k - 1)
    BY <1>3
  <2>2. list[i] = list[k] /\ i \in DOMAIN list /\ i # k
    BY <1>1, <1>2, <1>5, <2>1
  <2> QED BY <1>1, <2>2 DEF Once
<1>8. x \notin Elements(b)
  <2> SUFFICES ASSUME NEW i \in DOMAIN b, b[i] = x  PROVE FALSE
    BY DEF Elements
  <2>1. i \in 1..(N - k)
    BY <1>4
  <2>2. list[k + i] = list[k] /\ k + i \in DOMAIN list /\ k + i # k
    BY <1>1, <1>2, <1>5, <2>1
  <2> QED BY <1>1, <2>2 DEF Once
<1> QED BY <1>2, <1>3, <1>4, <1>6, <1>7, <1>8 DEF Around

\* Of a and b is left what is left of a list.
Parted(list, out, a, b) == Stripped(list, out) = Stripped(a, out) \o Stripped(b, out)

\* Stripping a row.
LEMMA StrippedAround ==
  ASSUME NEW out, NEW list, NEW x, NEW a, NEW b, Around(list, x, a, b)
  PROVE  /\ x \notin out => Around(Stripped(list, out), x, Stripped(a, out), Stripped(b, out))
         /\ x \in out => Parted(list, out, a, b)
<1> DEFINE u == Stripped(a, out)
           w == Stripped(b, out)
           one == <<x>>
           m == a \o one
           none == <<>>
<1>1. x \in Thing /\ a \in Seq(Thing) /\ b \in Seq(Thing) /\ list = m \o b /\ x \notin Elements(a) /\ x \notin Elements(b)
  BY DEF Around, Row
<1>2. one \in Seq(Thing) /\ none \in Seq(Thing)
  BY <1>1
<1>3. Stripped(one, out) = IF x \in out THEN none ELSE one
  BY <1>1, StrippedOne
<1> HIDE DEF one, none
<1>4. m \in Seq(Thing)
  BY <1>1, <1>2, ConcatProperties
<1>5. Stripped(m, out) = u \o Stripped(one, out)
  BY <1>1, <1>2, StrippedConcat
<1>6. Stripped(list, out) = Stripped(m, out) \o w
  BY <1>1, <1>4, StrippedConcat
<1>7. u \in Seq(Thing) /\ \A k \in DOMAIN u : \E j \in DOMAIN a : a[j] = u[k]
  BY <1>1, StrippedIs
<1>8. w \in Seq(Thing) /\ \A k \in DOMAIN w : \E j \in DOMAIN b : b[j] = w[k]
  BY <1>1, StrippedIs
<1> HIDE DEF u, w, m
<1>9. x \notin Elements(u) /\ x \notin Elements(w)
  BY <1>1, <1>7, <1>8 DEF Elements
<1>10. x \notin out => Around(Stripped(list, out), x, u, w)
  <2> SUFFICES ASSUME x \notin out  PROVE Around(Stripped(list, out), x, u, w)
    OBVIOUS
  <2>1. Stripped(list, out) = (u \o one) \o w
    BY <1>3, <1>5, <1>6
  <2>2. Stripped(list, out) = Row(u, x, w)
    BY <2>1 DEF Row, one
  <2> QED BY <1>1, <1>7, <1>8, <1>9, <2>2 DEF Around
<1>11. x \in out => Stripped(list, out) = u \o w
  <2>1. u \o none = u
    BY <1>7, ConcatEmptySeq DEF none
  <2> QED BY <1>3, <1>5, <1>6, <2>1
<1> QED BY <1>10, <1>11 DEF u, w, Parted

\* Stripping a row of what is in its middle.
LEMMA StrippedMiddle ==
  ASSUME NEW list, NEW x, NEW a, NEW b, Around(list, x, a, b)
  PROVE  Stripped(list, {x}) = a \o b
<1> DEFINE out == {x}
<1>1. a \in Seq(Thing) /\ b \in Seq(Thing) /\ x \notin Elements(a) /\ x \notin Elements(b)
  BY DEF Around
<1>2. Stripped(a, out) = a
  <2>1. \A k \in DOMAIN a : a[k] \notin out
    BY <1>1 DEF Elements
  <2> QED BY <1>1, <2>1, StrippedSame
<1>3. Stripped(b, out) = b
  <2>1. \A k \in DOMAIN b : b[k] \notin out
    BY <1>1 DEF Elements
  <2> QED BY <1>1, <2>1, StrippedSame
<1>4. x \in out
  OBVIOUS
<1> HIDE DEF out
<1>5. Stripped(list, out) = Stripped(a, out) \o Stripped(b, out)
  <2>1. Around(list, x, a, b)
    OBVIOUS
  <2>2. Parted(list, out, a, b)
    BY <1>4, <2>1, StrippedAround
  <2> QED BY <2>2 DEF Parted
<1> QED BY <1>2, <1>3, <1>5 DEF out

\* The place of the thing in the middle.
LEMMA IndexIs ==
  ASSUME NEW list, NEW x, NEW a, NEW b, Around(list, x, a, b)
  PROVE  PlaceOf(list, x) = Len(a) + 1
<1> DEFINE I == {i \in 1..Len(list) : list[i] = x}
           n == Len(a) + 1
<1>1. x \in Thing /\ a \in Seq(Thing) /\ b \in Seq(Thing) /\ list = Row(a, x, b) /\ x \notin Elements(a) /\ x \notin Elements(b)
  BY DEF Around
<1>2. /\ list \in Seq(Thing) /\ Len(list) = Len(a) + Len(b) + 1
      /\ Len(a) \in Nat /\ Len(b) \in Nat
      /\ \A k \in 1..(Len(a) + Len(b) + 1) :
           list[k] = IF k <= Len(a) THEN a[k] ELSE IF k = Len(a) + 1 THEN x ELSE b[k - Len(a) - 1]
  <2> DEFINE r == Row(a, x, b)
  <2>1. /\ r \in Seq(Thing) /\ Len(r) = Len(a) + Len(b) + 1
        /\ Len(a) \in Nat /\ Len(b) \in Nat
        /\ \A k \in 1..(Len(a) + Len(b) + 1) :
             r[k] = IF k <= Len(a) THEN a[k] ELSE IF k = Len(a) + 1 THEN x ELSE b[k - Len(a) - 1]
    BY <1>1, RowIs
  <2>2. list = r
    BY <1>1
  <2> HIDE DEF r
  <2> QED BY <2>1, <2>2
<1>3. n \in I
  BY <1>2
<1>4. \A i \in I : i = n
  <2> SUFFICES ASSUME NEW i \in I, i # n  PROVE FALSE
    OBVIOUS
  <2>1. i \in 1..(Len(a) + Len(b) + 1) /\ list[i] = x
    BY <1>2
  <2>2. CASE i <= Len(a)
    <3>1. i \in DOMAIN a /\ a[i] = x
      BY <1>1, <1>2, <2>1, <2>2
    <3> QED BY <1>1, <3>1 DEF Elements
  <2>3. CASE ~(i <= Len(a))
    <3>1. i - Len(a) - 1 \in 1..Len(b)
      BY <1>2, <2>1, <2>3
    <3>2. i - Len(a) - 1 \in DOMAIN b /\ b[i - Len(a) - 1] = x
      BY <1>1, <1>2, <2>1, <2>3, <3>1
    <3> QED BY <1>1, <3>2 DEF Elements
  <2> QED BY <2>2, <2>3
<1>5. I = {n}
  BY <1>3, <1>4
<1>6. PlaceOf(list, x) = Min(I)
  <2>1. I # {}
    BY <1>3
  <2> QED BY <2>1 DEF SelectInSeq, PlaceOf
<1> HIDE DEF I
<1>7. Min({n}) = n
  BY <1>2 DEF Min
<1> QED BY <1>5, <1>6, <1>7

-----------------------------------------------------------------------------
(* What the client keeps of a list.                                        *)

\* What is cut off.
LEMMA CutIs ==
  ASSUME NEW list \in Seq(Thing)
  PROVE  /\ Cut(list) \in Seq(Thing)
         /\ Len(Cut(list)) = IF Len(list) > Shown THEN Shown ELSE Len(list)
         /\ Len(list) \in Nat /\ Shown \in Nat
         /\ \A k \in 1..Len(Cut(list)) : Cut(list)[k] = list[k]
<1>1. Shown \in Nat /\ Len(list) \in Nat /\ \A k \in 1..Len(list) : list[k] \in Thing
  BY ViewAssumption
<1>2. CASE Len(list) > Shown
  <2> DEFINE c == SubSeq(list, 1, Shown)
  <2>1. 1 \in Int /\ Shown \in Int /\ \A k \in 1..Shown : list[k] \in Thing
    BY <1>1, <1>2
  <2>2. /\ c \in Seq(Thing) /\ Len(c) = IF 1 <= Shown THEN Shown - 1 + 1 ELSE 0
        /\ \A k \in 1..(Shown - 1 + 1) : c[k] = list[1 + k - 1]
    BY <2>1, SubSeqProperties
  <2> HIDE DEF c
  <2>3. Len(c) = Shown
    BY <1>1, <2>2
  <2>4. \A k \in 1..Shown : c[k] = list[k]
    BY <1>1, <2>2
  <2>5. Cut(list) = c
    BY <1>2 DEF Cut, c
  <2> QED BY <1>1, <1>2, <2>2, <2>3, <2>4, <2>5
<1>3. CASE ~(Len(list) > Shown)
  BY <1>1, <1>3 DEF Cut
<1> QED BY <1>2, <1>3

\* A thing put into a list.
LEMMA InsertIs ==
  ASSUME NEW list \in Seq(Thing), NEW x \in Thing, NEW n \in 1..(Len(list) + 1)
  PROVE  /\ InsertAt(list, n, x) \in Seq(Thing) /\ Len(InsertAt(list, n, x)) = Len(list) + 1
         /\ \A k \in 1..(Len(list) + 1) :
              InsertAt(list, n, x)[k] = IF k < n THEN list[k] ELSE IF k = n THEN x ELSE list[k - 1]
<1> DEFINE N == Len(list)
           a == SubSeq(list, 1, n - 1)
           b == SubSeq(list, n, N)
           r == Row(a, x, b)
<1>1. N \in Nat /\ n \in Int /\ 1 <= n /\ n <= N + 1 /\ \A k \in 1..N : list[k] \in Thing
  OBVIOUS
<1>2. a \in Seq(Thing) /\ Len(a) = n - 1 /\ \A k \in 1..(n - 1) : a[k] = list[k]
  <2>1. 1 \in Int /\ n - 1 \in Int /\ \A k \in 1..(n - 1) : list[k] \in Thing
    BY <1>1
  <2>2. /\ a \in Seq(Thing) /\ Len(a) = IF 1 <= n - 1 THEN (n - 1) - 1 + 1 ELSE 0
        /\ \A k \in 1..((n - 1) - 1 + 1) : a[k] = list[1 + k - 1]
    BY <2>1, SubSeqProperties
  <2> HIDE DEF a
  <2>3. \A k \in 1..(n - 1) : k \in 1..((n - 1) - 1 + 1) /\ 1 + k - 1 = k
    BY <1>1
  <2>4. Len(a) = n - 1
    BY <1>1, <2>2
  <2> QED BY <2>2, <2>3, <2>4
<1>3. b \in Seq(Thing) /\ Len(b) = N - n + 1 /\ \A k \in 1..(N - n + 1) : b[k] = list[n + k - 1]
  <2>1. n \in Int /\ N \in Int /\ \A k \in n..N : list[k] \in Thing
    BY <1>1
  <2>2. /\ b \in Seq(Thing) /\ Len(b) = IF n <= N THEN N - n + 1 ELSE 0
        /\ \A k \in 1..(N - n + 1) : b[k] = list[n + k - 1]
    <3> HIDE DEF N
    <3> QED BY <2>1, SubSeqProperties
  <2> HIDE DEF b
  <2>3. Len(b) = N - n + 1
    BY <1>1, <2>2
  <2> QED BY <2>2, <2>3
<1>4. InsertAt(list, n, x) = r
  BY DEF InsertAt, Row
<1> HIDE DEF a, b, N
<1>5. /\ r \in Seq(Thing) /\ Len(r) = (n - 1) + (N - n + 1) + 1
      /\ \A k \in 1..((n - 1) + (N - n + 1) + 1) :
           r[k] = IF k <= n - 1 THEN a[k] ELSE IF k = (n - 1) + 1 THEN x ELSE b[k - (n - 1) - 1]
  <2>1. /\ r \in Seq(Thing) /\ Len(r) = Len(a) + Len(b) + 1
        /\ \A k \in 1..(Len(a) + Len(b) + 1) :
             r[k] = IF k <= Len(a) THEN a[k] ELSE IF k = Len(a) + 1 THEN x ELSE b[k - Len(a) - 1]
    BY <1>2, <1>3, RowIs
  <2> HIDE DEF r
  <2> QED BY <1>2, <1>3, <2>1
<1> HIDE DEF r
<1>6. (n - 1) + (N - n + 1) + 1 = N + 1
  BY <1>1
<1>7. ASSUME NEW k \in 1..(N + 1)
      PROVE  r[k] = IF k < n THEN list[k] ELSE IF k = n THEN x ELSE list[k - 1]
  <2>1. k \in 1..((n - 1) + (N - n + 1) + 1)
    BY <1>6
  <2>2. CASE k < n
    <3>1. k <= n - 1 /\ k \in 1..(n - 1)
      BY <1>1, <2>2
    <3> QED BY <1>2, <1>5, <2>1, <2>2, <3>1
  <2>3. CASE k = n
    <3>1. ~(k <= n - 1) /\ k = (n - 1) + 1 /\ ~(k < n)
      BY <1>1, <2>3
    <3> QED BY <1>5, <2>1, <2>3, <3>1
  <2>4. CASE k > n
    <3>1. ~(k <= n - 1) /\ k # (n - 1) + 1 /\ ~(k < n) /\ k # n /\ k - (n - 1) - 1 = k - n
      BY <1>1, <2>4
    <3>2. k - n \in 1..(N - n + 1) /\ n + (k - n) - 1 = k - 1
      BY <1>1, <2>4
    <3>3. r[k] = b[k - n]
      BY <1>5, <2>1, <3>1
    <3>4. b[k - n] = list[k - 1]
      BY <1>3, <3>2
    <3> QED BY <3>1, <3>3, <3>4
  <2> QED BY <1>1, <2>2, <2>3, <2>4
<1>8. Len(r) = N + 1
  BY <1>5, <1>6
<1> QED BY <1>4, <1>5, <1>7, <1>8 DEF N

\* A thing taken out of a list.
LEMMA RemoveIs ==
  ASSUME NEW list \in Seq(Thing), NEW n \in 1..Len(list)
  PROVE  /\ RemoveAt(list, n) \in Seq(Thing) /\ Len(RemoveAt(list, n)) = Len(list) - 1
         /\ \A k \in 1..(Len(list) - 1) : RemoveAt(list, n)[k] = IF k < n THEN list[k] ELSE list[k + 1]
<1> DEFINE N == Len(list)
           a == SubSeq(list, 1, n - 1)
           b == SubSeq(list, n + 1, N)
           r == a \o b
<1>1. N \in Nat /\ n \in Int /\ 1 <= n /\ n <= N /\ \A k \in 1..N : list[k] \in Thing
  OBVIOUS
<1>2. a \in Seq(Thing) /\ Len(a) = n - 1 /\ \A k \in 1..(n - 1) : a[k] = list[k]
  <2>1. 1 \in Int /\ n - 1 \in Int /\ \A k \in 1..(n - 1) : list[k] \in Thing
    BY <1>1
  <2>2. /\ a \in Seq(Thing) /\ Len(a) = IF 1 <= n - 1 THEN (n - 1) - 1 + 1 ELSE 0
        /\ \A k \in 1..((n - 1) - 1 + 1) : a[k] = list[1 + k - 1]
    BY <2>1, SubSeqProperties
  <2> HIDE DEF a
  <2>3. \A k \in 1..(n - 1) : k \in 1..((n - 1) - 1 + 1) /\ 1 + k - 1 = k
    BY <1>1
  <2>4. Len(a) = n - 1
    BY <1>1, <2>2
  <2> QED BY <2>2, <2>3, <2>4
<1>3. b \in Seq(Thing) /\ Len(b) = N - n /\ \A k \in 1..(N - n) : b[k] = list[n + k]
  <2>1. n + 1 \in Int /\ N \in Int /\ \A k \in (n + 1)..N : list[k] \in Thing
    BY <1>1
  <2>2. /\ b \in Seq(Thing) /\ Len(b) = IF n + 1 <= N THEN N - (n + 1) + 1 ELSE 0
        /\ \A k \in 1..(N - (n + 1) + 1) : b[k] = list[(n + 1) + k - 1]
    <3> HIDE DEF N
    <3> QED BY <2>1, SubSeqProperties
  <2> HIDE DEF b
  <2>3. Len(b) = N - n
    BY <1>1, <2>2
  <2>4. \A k \in 1..(N - n) : k \in 1..(N - (n + 1) + 1) /\ (n + 1) + k - 1 = n + k
    BY <1>1
  <2> QED BY <2>2, <2>3, <2>4
<1>4. RemoveAt(list, n) = r
  BY DEF RemoveAt
<1> HIDE DEF a, b, N
<1>5. /\ r \in Seq(Thing) /\ Len(r) = (n - 1) + (N - n)
      /\ \A k \in 1..((n - 1) + (N - n)) : r[k] = IF k <= n - 1 THEN a[k] ELSE b[k - (n - 1)]
  <2>1. /\ r \in Seq(Thing) /\ Len(r) = Len(a) + Len(b)
        /\ \A k \in 1..(Len(a) + Len(b)) : r[k] = IF k <= Len(a) THEN a[k] ELSE b[k - Len(a)]
    BY <1>2, <1>3, PairIs
  <2> HIDE DEF r
  <2> QED BY <1>2, <1>3, <2>1
<1> HIDE DEF r
<1>6. (n - 1) + (N - n) = N - 1
  BY <1>1
<1>7. ASSUME NEW k \in 1..(N - 1)  PROVE r[k] = IF k < n THEN list[k] ELSE list[k + 1]
  <2>1. k \in 1..((n - 1) + (N - n))
    BY <1>6
  <2>2. CASE k < n
    <3>1. k <= n - 1 /\ k \in 1..(n - 1)
      BY <1>1, <2>2
    <3> QED BY <1>2, <1>5, <2>1, <2>2, <3>1
  <2>3. CASE k >= n
    <3>1. ~(k <= n - 1) /\ ~(k < n) /\ k - (n - 1) \in 1..(N - n) /\ n + (k - (n - 1)) = k + 1
      BY <1>1, <2>3
    <3>2. r[k] = b[k - (n - 1)]
      BY <1>5, <2>1, <3>1
    <3>3. b[k - (n - 1)] = list[k + 1]
      BY <1>3, <3>1
    <3> QED BY <3>1, <3>2, <3>3
  <2> QED BY <1>1, <2>2, <2>3
<1>8. Len(r) = N - 1
  BY <1>5, <1>6
<1> QED BY <1>4, <1>5, <1>7, <1>8 DEF N

\* more is list with x in place n, and x in no other.
Inserted(list, n, x, more) == \E a, b : Around(more, x, a, b) /\ list = a \o b /\ n = Len(a) + 1

\* The two lists, place by place.
LEMMA InsertedIs ==
  ASSUME NEW list, NEW n, NEW x, NEW more, Inserted(list, n, x, more)
  PROVE  /\ list \in Seq(Thing) /\ more \in Seq(Thing) /\ x \in Thing /\ Len(list) \in Nat
         /\ Len(more) = Len(list) + 1 /\ n \in 1..(Len(list) + 1)
         /\ \A k \in 1..(Len(list) + 1) : more[k] = IF k < n THEN list[k] ELSE IF k = n THEN x ELSE list[k - 1]
         /\ Elements(more) = Elements(list) \cup {x} /\ x \notin Elements(list)
<1>1. PICK a, b : Around(more, x, a, b) /\ list = a \o b /\ n = Len(a) + 1
  BY DEF Inserted
<1>2. x \in Thing /\ a \in Seq(Thing) /\ b \in Seq(Thing) /\ more = Row(a, x, b) /\ x \notin Elements(a) /\ x \notin Elements(b)
  BY <1>1 DEF Around
<1>3. /\ more \in Seq(Thing) /\ Len(more) = Len(a) + Len(b) + 1
      /\ Len(a) \in Nat /\ Len(b) \in Nat
      /\ \A k \in 1..(Len(a) + Len(b) + 1) :
           more[k] = IF k <= Len(a) THEN a[k] ELSE IF k = Len(a) + 1 THEN x ELSE b[k - Len(a) - 1]
  <2> DEFINE r == Row(a, x, b)
  <2>1. /\ r \in Seq(Thing) /\ Len(r) = Len(a) + Len(b) + 1
        /\ Len(a) \in Nat /\ Len(b) \in Nat
        /\ \A k \in 1..(Len(a) + Len(b) + 1) :
             r[k] = IF k <= Len(a) THEN a[k] ELSE IF k = Len(a) + 1 THEN x ELSE b[k - Len(a) - 1]
    BY <1>2, RowIs
  <2>2. more = r
    BY <1>2
  <2> HIDE DEF r
  <2> QED BY <2>1, <2>2
<1>4. /\ list \in Seq(Thing) /\ Len(list) = Len(a) + Len(b)
      /\ \A k \in 1..(Len(a) + Len(b)) : list[k] = IF k <= Len(a) THEN a[k] ELSE b[k - Len(a)]
  BY <1>1, <1>2, PairIs
<1> DEFINE la == Len(a)
           lb == Len(b)
<1>5. ASSUME NEW k \in 1..(la + lb + 1)
      PROVE  more[k] = IF k < n THEN list[k] ELSE IF k = n THEN x ELSE list[k - 1]
  <2>1. CASE k < n
    <3>1. k <= la /\ k \in 1..(la + lb)
      BY <1>1, <1>3, <2>1
    <3> QED BY <1>3, <1>4, <2>1, <3>1
  <2>2. CASE k = n
    <3>1. k = la + 1 /\ ~(k <= la)
      BY <1>1, <1>3, <2>2
    <3> QED BY <1>1, <1>3, <2>2, <3>1
  <2>3. CASE k > n
    <3>1. ~(k <= la) /\ k # la + 1 /\ ~(k - 1 <= la) /\ k - 1 \in 1..(la + lb) /\ k - la - 1 = k - 1 - la /\ ~(k < n) /\ k # n
      BY <1>1, <1>3, <2>3
    <3>2. more[k] = b[k - la - 1] /\ list[k - 1] = b[k - 1 - la]
      BY <1>3, <1>4, <3>1
    <3> QED BY <3>1, <3>2
  <2> QED BY <1>1, <1>3, <2>1, <2>2, <2>3
<1>6. Len(more) = Len(list) + 1 /\ n \in 1..(Len(list) + 1) /\ Len(list) \in Nat /\ la + lb = Len(list)
  BY <1>1, <1>3, <1>4
<1>7. x \notin Elements(list)
  <2> SUFFICES ASSUME NEW k \in 1..(la + lb), list[k] = x  PROVE FALSE
    BY <1>4, <1>6 DEF Elements
  <2>1. CASE k <= la
    <3>1. k \in DOMAIN a /\ a[k] = x
      <4>1. list[k] = a[k]
        BY <1>4, <2>1
      <4>2. k \in 1..Len(a)
        BY <1>3, <2>1
      <4> QED BY <1>2, <4>1, <4>2
    <3> QED BY <1>2, <3>1 DEF Elements
  <2>2. CASE ~(k <= la)
    <3>1. k - la \in 1..lb
      BY <1>3, <2>2
    <3>2. k - la \in DOMAIN b /\ b[k - la] = x
      BY <1>2, <1>4, <2>2, <3>1
    <3> QED BY <1>2, <3>2 DEF Elements
  <2> QED BY <2>1, <2>2
<1> HIDE DEF la, lb
<1>8. DOMAIN more = 1..(Len(list) + 1) /\ DOMAIN list = 1..Len(list)
  BY <1>3, <1>4, <1>6
<1>9. ASSUME NEW k \in 1..Len(list)  PROVE \E j \in DOMAIN more : more[j] = list[k]
  <2>1. CASE k < n
    <3>1. k \in DOMAIN more /\ k \in 1..(la + lb + 1)
      BY <1>6, <1>8
    <3>2. more[k] = list[k]
      BY <1>5, <2>1, <3>1
    <3> QED BY <3>1, <3>2
  <2>2. CASE ~(k < n)
    <3>1. k + 1 \in DOMAIN more /\ k + 1 \in 1..(la + lb + 1) /\ ~(k + 1 < n) /\ k + 1 # n /\ (k + 1) - 1 = k
      BY <1>6, <1>8, <2>2
    <3>2. more[k + 1] = list[(k + 1) - 1]
      BY <1>5, <3>1
    <3> QED BY <3>1, <3>2
  <2> QED BY <2>1, <2>2
<1>10. ASSUME NEW k \in 1..(Len(list) + 1)  PROVE more[k] = x \/ \E j \in DOMAIN list : list[j] = more[k]
  <2>1. k \in 1..(la + lb + 1)
    BY <1>6
  <2>2. CASE k < n
    <3>1. k \in DOMAIN list
      BY <1>6, <1>8, <2>2
    <3> QED BY <1>5, <2>1, <2>2, <3>1
  <2>3. CASE k = n
    <3>1. ~(k < n)
      BY <1>6, <2>3
    <3> QED BY <1>5, <2>1, <2>3, <3>1
  <2>4. CASE k > n
    <3>1. ~(k < n) /\ k # n /\ k - 1 \in DOMAIN list
      BY <1>6, <1>8, <2>4
    <3> QED BY <1>5, <2>1, <3>1
  <2> QED BY <1>6, <2>2, <2>3, <2>4
<1>11. \E j \in DOMAIN more : more[j] = x
  <2>1. n \in DOMAIN more /\ n \in 1..(la + lb + 1) /\ ~(n < n)
    BY <1>6, <1>8
  <2> QED BY <1>5, <2>1
<1>12. Elements(more) = Elements(list) \cup {x}
  BY <1>8, <1>9, <1>10, <1>11 DEF Elements
<1> QED BY <1>2, <1>3, <1>4, <1>5, <1>6, <1>7, <1>12

\* A client that has room for a new thing, and is told its place, shows it where it lies; a
\* thing that lies past what the client keeps changes nothing.
LEMMA PutRight ==
  ASSUME NEW list, NEW n, NEW x, NEW more, Inserted(list, n, x, more)
  PROVE  /\ n <= Shown => Put(Cut(list), n, x) = Cut(more)
         /\ n > Shown => Cut(list) = Cut(more)
<1> DEFINE L == Len(list)
           S == Shown
           c == Cut(list)
           m == Cut(more)
<1>1. /\ list \in Seq(Thing) /\ more \in Seq(Thing) /\ x \in Thing /\ L \in Nat
      /\ Len(more) = L + 1 /\ n \in 1..(L + 1)
      /\ \A k \in 1..(L + 1) : more[k] = IF k < n THEN list[k] ELSE IF k = n THEN x ELSE list[k - 1]
  BY InsertedIs
<1>2. /\ c \in Seq(Thing) /\ Len(c) = (IF L > S THEN S ELSE L) /\ S \in Nat
      /\ \A k \in 1..Len(c) : c[k] = list[k]
  BY <1>1, CutIs
<1>3. /\ m \in Seq(Thing) /\ Len(m) = (IF L + 1 > S THEN S ELSE L + 1)
      /\ \A k \in 1..Len(m) : m[k] = more[k]
  BY <1>1, CutIs
<1> HIDE DEF L, S, c, m
<1>4. ASSUME n <= S  PROVE Put(c, n, x) = m
  <2> DEFINE i == InsertAt(c, n, x)
             p == Cut(i)
  <2>1. n \in 1..(Len(c) + 1) /\ Len(c) \in Nat
    BY <1>1, <1>2, <1>4
  <2>2. /\ i \in Seq(Thing) /\ Len(i) = Len(c) + 1
        /\ \A k \in 1..(Len(c) + 1) : i[k] = IF k < n THEN c[k] ELSE IF k = n THEN x ELSE c[k - 1]
    BY <1>1, <1>2, <2>1, InsertIs
  <2> HIDE DEF i
  <2>3. /\ p \in Seq(Thing) /\ Len(p) = (IF Len(i) > S THEN S ELSE Len(i))
        /\ \A k \in 1..Len(p) : p[k] = i[k]
    BY <2>2, CutIs DEF S
  <2> HIDE DEF p
  <2>4. Len(p) = Len(m)
    BY <1>1, <1>2, <1>3, <2>2, <2>3
  <2>5. ASSUME NEW k \in 1..Len(p)  PROVE p[k] = m[k]
    <3>1. k \in 1..(Len(c) + 1) /\ k \in 1..(L + 1) /\ k \in 1..Len(m)
      BY <1>1, <1>2, <1>3, <2>2, <2>3, <2>4
    <3>2. p[k] = (IF k < n THEN c[k] ELSE IF k = n THEN x ELSE c[k - 1])
      BY <2>2, <2>3, <3>1
    <3>3. m[k] = (IF k < n THEN list[k] ELSE IF k = n THEN x ELSE list[k - 1])
      BY <1>1, <1>3, <3>1
    <3>4. (k < n => c[k] = list[k]) /\ (k > n => c[k - 1] = list[k - 1])
      <4>1. k < n => k \in 1..Len(c)
        BY <2>1, <3>1
      <4>2. k > n => k - 1 \in 1..Len(c)
        BY <2>1, <3>1
      <4> QED BY <1>2, <4>1, <4>2
    <3>5. k < n \/ k = n \/ k > n
      BY <1>1, <3>1
    <3> QED BY <3>2, <3>3, <3>4, <3>5
  <2>6. p = m
    BY <1>3, <2>3, <2>4, <2>5, SeqEqual
  <2>7. ~(n > Len(c) + 1)
    BY <2>1
  <2> QED BY <2>6, <2>7 DEF Put, i, p
<1>5. ASSUME n > S  PROVE c = m
  <2>1. Len(c) = S /\ Len(m) = S
    BY <1>1, <1>2, <1>3, <1>5
  <2>2. ASSUME NEW k \in 1..S  PROVE c[k] = m[k]
    <3>1. k \in 1..(L + 1) /\ k < n
      BY <1>1, <1>2, <1>5
    <3> QED BY <1>1, <1>2, <1>3, <2>1, <3>1
  <2> QED BY <1>2, <1>3, <2>1, <2>2, SeqEqual
<1> QED BY <1>4, <1>5 DEF S, c, m

\* A place past what the client keeps: nothing is put there.
LEMMA PutBeyond ==
  ASSUME NEW list \in Seq(Thing), NEW x \in Thing, Len(list) = Shown, NEW n \in Nat, n > Shown
  PROVE  Put(list, n, x) = list
<1> DEFINE S == Shown
           j == IF n > Len(list) + 1 THEN Len(list) + 1 ELSE n
           i == InsertAt(list, j, x)
           p == Cut(i)
<1>1. S \in Nat /\ Len(list) = S /\ j = S + 1 /\ j \in 1..(Len(list) + 1)
  BY ViewAssumption
<1> HIDE DEF j
<1>2. /\ i \in Seq(Thing) /\ Len(i) = Len(list) + 1
      /\ \A k \in 1..(Len(list) + 1) : i[k] = IF k < j THEN list[k] ELSE IF k = j THEN x ELSE list[k - 1]
  BY <1>1, InsertIs
<1>3. Put(list, n, x) = p
  BY DEF Put, j
<1> HIDE DEF i
<1>4. /\ p \in Seq(Thing) /\ Len(p) = (IF Len(i) > S THEN S ELSE Len(i))
      /\ \A k \in 1..Len(p) : p[k] = i[k]
  BY <1>2, CutIs
<1> HIDE DEF S, p
<1>5. Len(p) = S
  BY <1>1, <1>2, <1>4
<1>6. ASSUME NEW k \in 1..S  PROVE p[k] = list[k]
  <2>1. k < j /\ k \in 1..(Len(list) + 1)
    BY <1>1
  <2> QED BY <1>2, <1>4, <1>5, <2>1
<1> QED BY <1>1, <1>3, <1>4, <1>5, <1>6, SeqEqual

\* A thing is taken from where the client shows it; what it had no room for is missing then,
\* unless all of the list was shown.
LEMMA DropRight ==
  ASSUME NEW list, NEW n, NEW x, NEW more, Inserted(list, n, x, more)
  PROVE  /\ n <= Shown => n \in DOMAIN Cut(more) /\ Cut(more)[n] = x
         /\ n <= Shown /\ Len(more) <= Shown => Drop(Cut(more), n) = Cut(list)
         /\ n <= Shown => Drop(Cut(more), n) \in Seq(Thing)
<1> DEFINE L == Len(list)
           S == Shown
           c == Cut(list)
           m == Cut(more)
           d == RemoveAt(m, n)
<1>1. /\ list \in Seq(Thing) /\ more \in Seq(Thing) /\ x \in Thing /\ L \in Nat
      /\ Len(more) = L + 1 /\ n \in 1..(L + 1)
      /\ \A k \in 1..(L + 1) : more[k] = IF k < n THEN list[k] ELSE IF k = n THEN x ELSE list[k - 1]
  BY InsertedIs
<1>2. /\ c \in Seq(Thing) /\ Len(c) = (IF L > S THEN S ELSE L) /\ S \in Nat
      /\ \A k \in 1..Len(c) : c[k] = list[k]
  BY <1>1, CutIs
<1>3. /\ m \in Seq(Thing) /\ Len(m) = (IF L + 1 > S THEN S ELSE L + 1)
      /\ \A k \in 1..Len(m) : m[k] = more[k]
  BY <1>1, CutIs
<1> HIDE DEF L, S, c, m
<1>4. ASSUME n <= S  PROVE n \in 1..Len(m) /\ n \in DOMAIN m /\ m[n] = x
  <2>1. n \in 1..Len(m)
    BY <1>1, <1>2, <1>3, <1>4
  <2>2. ~(n < n)
    BY <1>1
  <2> QED BY <1>1, <1>3, <2>1, <2>2
<1>5. ASSUME n <= S
      PROVE  /\ Drop(m, n) = d /\ d \in Seq(Thing) /\ Len(d) = Len(m) - 1
             /\ \A k \in 1..(Len(m) - 1) : d[k] = IF k < n THEN m[k] ELSE m[k + 1]
  BY <1>3, <1>4, <1>5, RemoveIs DEF Drop
<1> HIDE DEF d
<1>6. ASSUME n <= S, Len(more) <= S  PROVE d = c
  <2>1. Len(m) = L + 1 /\ Len(c) = L /\ Len(d) = L
    BY <1>1, <1>2, <1>3, <1>5, <1>6
  <2>2. ASSUME NEW k \in 1..L  PROVE d[k] = c[k]
    <3>1. k \in 1..(Len(m) - 1) /\ k \in 1..(L + 1) /\ k + 1 \in 1..(L + 1) /\ (k + 1) - 1 = k
      BY <1>1, <2>1
    <3>2. CASE k < n
      BY <1>1, <1>2, <1>3, <1>5, <1>6, <2>1, <3>1, <3>2
    <3>3. CASE ~(k < n)
      <4>1. ~(k + 1 < n) /\ k + 1 # n
        BY <1>1, <3>3
      <4>2. d[k] = m[k + 1]
        BY <1>5, <1>6, <3>1, <3>3
      <4>3. m[k + 1] = more[k + 1]
        BY <1>3, <2>1, <3>1
      <4>4. more[k + 1] = list[(k + 1) - 1]
        BY <1>1, <3>1, <4>1
      <4>5. list[k] = c[k]
        BY <1>2, <2>1
      <4> QED BY <3>1, <4>2, <4>3, <4>4, <4>5
    <3> QED BY <3>2, <3>3
  <2> QED BY <1>2, <1>5, <1>6, <2>1, <2>2, SeqEqual
<1> QED BY <1>4, <1>5, <1>6 DEF S, c, m

\* What is not in a list can be left out or not.
LEMMA StrippedAlike ==
  ASSUME NEW list \in Seq(Thing), NEW x, x \notin Elements(list), NEW veiled
  PROVE  Stripped(list, veiled \cup {x}) = Stripped(list, veiled \ {x})
<1> DEFINE N == Len(list)
           full == veiled \cup {x}
           less == veiled \ {x}
           P == {n \in Nat : Stripped(Prefix(list, n), full) = Stripped(Prefix(list, n), less)}
<1>1. N \in Nat /\ \A k \in 1..N : list[k] \in Thing /\ list[k] # x
  BY DEF Elements
<1>2. \A y : y # x => (y \in full <=> y \in less)
  OBVIOUS
<1> HIDE DEF full, less
<1>3. 0 \in P
  <2> DEFINE none == <<>>
  <2>1. none \in Seq(Thing)
    OBVIOUS
  <2>2. \A out : Stripped(none, out) = none
    <3> SUFFICES ASSUME NEW out  PROVE Stripped(none, out) = none
      OBVIOUS
    <3>1. PICK g : IsStripping(g, none, out)
      BY <2>1, StrippingIs
    <3> QED BY <3>1 DEF IsStripping
  <2>3. Prefix(list, 0) = none
    BY PrefixIs
  <2> HIDE DEF none
  <2> QED BY <2>2, <2>3
<1>4. ASSUME NEW n \in 0..(N - 1), n \in P  PROVE n + 1 \in P
  <2>1. n \in 0..N /\ n + 1 \in 1..N /\ n + 1 \in Nat
    BY <1>1
  <2>2. Prefix(list, n) \in Seq(Thing) /\ Prefix(list, n + 1) = Append(Prefix(list, n), list[n + 1])
    BY <2>1, PrefixIs
  <2>3. list[n + 1] \in Thing /\ (list[n + 1] \in full <=> list[n + 1] \in less)
    BY <1>1, <1>2, <2>1
  <2>4. \A out : Stripped(Prefix(list, n + 1), out) = Sieve(Stripped(Prefix(list, n), out), list[n + 1], out)
    BY <2>2, <2>3, StrippedAppend
  <2> QED BY <1>4, <2>1, <2>3, <2>4 DEF Sieve
<1>5. N \in 0..N
  BY <1>1
<1> HIDE DEF P
<1>6. \A n \in 0..N : n \in P
  BY <1>1, <1>3, <1>4, Upwards
<1>7. N \in P /\ Prefix(list, N) = list
  BY <1>5, <1>6, PrefixIs
<1> QED BY <1>7 DEF P, full, less

\* With one thing more or less, a list without doubles still has none.
LEMMA OnceInserted ==
  ASSUME NEW list, NEW n, NEW x, NEW more, Inserted(list, n, x, more)
  PROVE  Once(list) <=> Once(more)
<1> DEFINE L == Len(list)
<1>1. /\ list \in Seq(Thing) /\ more \in Seq(Thing) /\ L \in Nat
      /\ Len(more) = L + 1 /\ n \in 1..(L + 1)
      /\ \A k \in 1..(L + 1) : more[k] = IF k < n THEN list[k] ELSE IF k = n THEN x ELSE list[k - 1]
      /\ x \notin Elements(list)
  BY InsertedIs
<1>2. DOMAIN list = 1..L /\ DOMAIN more = 1..(L + 1)
  BY <1>1
<1>3. \A k \in 1..L : list[k] # x
  BY <1>1, <1>2 DEF Elements
<1> HIDE DEF L
<1>4. ASSUME Once(list)  PROVE Once(more)
  <2> SUFFICES ASSUME NEW i \in 1..(L + 1), NEW j \in 1..(L + 1), more[i] = more[j], i < j  PROVE FALSE
    <3>1. ASSUME NEW i \in 1..(L + 1), NEW j \in 1..(L + 1), more[i] = more[j], i # j  PROVE FALSE
      <4>1. i < j \/ j < i
        BY <1>1, <3>1
      <4> QED BY <3>1, <4>1
    <3> QED BY <1>2, <3>1 DEF Once
  <2> DEFINE at(k) == IF k < n THEN k ELSE k - 1
  <2>1. \A k \in 1..(L + 1) : k # n => at(k) \in 1..L /\ more[k] = list[at(k)]
    <3> SUFFICES ASSUME NEW k \in 1..(L + 1), k # n  PROVE at(k) \in 1..L /\ more[k] = list[at(k)]
      OBVIOUS
    <3>1. CASE k < n
      BY <1>1, <3>1
    <3>2. CASE ~(k < n)
      <4>1. k - 1 \in 1..L
        BY <1>1, <3>2
      <4> QED BY <1>1, <3>2, <4>1
    <3> QED BY <3>1, <3>2
  <2>2. more[n] = x
    <3>1. ~(n < n)
      BY <1>1
    <3> QED BY <1>1, <3>1
  <2>3. i # n /\ j # n
    <3>1. i = n => more[j] = x /\ j # n
      BY <2>2
    <3>2. j = n => more[i] = x /\ i # n
      BY <2>2
    <3> HIDE DEF at
    <3> QED BY <1>3, <2>1, <3>1, <3>2
  <2>4. at(i) # at(j)
    BY <1>1, <2>3
  <2>5. at(i) \in DOMAIN list /\ at(j) \in DOMAIN list /\ list[at(i)] = list[at(j)]
    <3> HIDE DEF at
    <3> QED BY <1>2, <2>1, <2>3
  <2> HIDE DEF at
  <2> QED BY <1>4, <2>4, <2>5 DEF Once
<1>5. ASSUME Once(more)  PROVE Once(list)
  <2> SUFFICES ASSUME NEW i \in 1..L, NEW j \in 1..L, list[i] = list[j]  PROVE i = j
    BY <1>2 DEF Once
  <2> DEFINE at(k) == IF k < n THEN k ELSE k + 1
  <2>1. \A k \in 1..L : at(k) \in 1..(L + 1) /\ more[at(k)] = list[k]
    <3> SUFFICES ASSUME NEW k \in 1..L  PROVE at(k) \in 1..(L + 1) /\ more[at(k)] = list[k]
      OBVIOUS
    <3>1. CASE k < n
      BY <1>1, <3>1
    <3>2. CASE ~(k < n)
      <4>1. k + 1 \in 1..(L + 1) /\ ~(k + 1 < n) /\ k + 1 # n /\ (k + 1) - 1 = k
        BY <1>1, <3>2
      <4>2. more[k + 1] = list[(k + 1) - 1]
        BY <1>1, <4>1
      <4> QED BY <3>2, <4>1, <4>2
    <3> QED BY <3>1, <3>2
  <2>2. at(i) = at(j)
    <3>1. at(i) \in DOMAIN more /\ at(j) \in DOMAIN more /\ more[at(i)] = more[at(j)]
      <4> HIDE DEF at
      <4> QED BY <1>2, <2>1
    <3> HIDE DEF at
    <3> QED BY <1>5, <3>1 DEF Once
  <2>3. i \in Int /\ j \in Int /\ n \in Int
    BY <1>1
  <2>4. CASE i < n /\ j < n
    BY <2>2, <2>4
  <2>5. CASE ~(i < n) /\ ~(j < n)
    BY <2>2, <2>3, <2>5
  <2>6. CASE i < n /\ ~(j < n)
    BY <2>2, <2>3, <2>6
  <2>7. CASE ~(i < n) /\ j < n
    BY <2>2, <2>3, <2>7
  <2> QED BY <2>4, <2>5, <2>6, <2>7
<1> QED BY <1>4, <1>5

\* Of a list without doubles any of its things can be taken out.
LEMMA TakeOut ==
  ASSUME NEW list \in Seq(Thing), Once(list), NEW x \in Elements(list)
  PROVE  \E n : Inserted(Stripped(list, {x}), n, x, list)
<1>1. PICK a, b : Around(list, x, a, b)
  BY SplitOnce
<1>2. Stripped(list, {x}) = a \o b
  BY <1>1, StrippedMiddle
<1> QED BY <1>1, <1>2 DEF Inserted

\* What the player can see of two lists, one with a thing more: as much, or a thing more, in
\* the place where it is found.
LEMMA SeenInserted ==
  ASSUME NEW list, NEW n, NEW x, NEW more, Inserted(list, n, x, more), NEW veiled
  PROVE  /\ x \notin veiled =>
              Inserted(Stripped(list, veiled), PlaceOf(Stripped(more, veiled \ {x}), x),
                       x, Stripped(more, veiled))
         /\ x \in veiled => Stripped(list, veiled) = Stripped(more, veiled)
         /\ Inserted(Stripped(more, veiled \cup {x}), PlaceOf(Stripped(more, veiled \ {x}), x),
                     x, Stripped(more, veiled \ {x}))
<1>1. PICK a, b : Around(more, x, a, b) /\ list = a \o b
  BY DEF Inserted
<1>2. a \in Seq(Thing) /\ b \in Seq(Thing) /\ x \notin Elements(a) /\ x \notin Elements(b)
  BY <1>1 DEF Around
<1>3. \A out : Stripped(list, out) = Stripped(a, out) \o Stripped(b, out)
  BY <1>1, <1>2, StrippedConcat
<1>4. \A out : x \in out => Stripped(list, out) = Stripped(more, out)
  <2> SUFFICES ASSUME NEW out, x \in out  PROVE Stripped(list, out) = Stripped(more, out)
    OBVIOUS
  <2>0. x \in out
    OBVIOUS
  <2>1. Stripped(more, out) = Stripped(a, out) \o Stripped(b, out)
    <3>1. Around(more, x, a, b)
      BY <1>1
    <3>2. Parted(more, out, a, b)
      BY <2>0, <3>1, StrippedAround
    <3> QED BY <3>2 DEF Parted
  <2> QED BY <1>3, <2>1
<1>5. ASSUME NEW out, x \notin out
      PROVE  Inserted(Stripped(list, out), PlaceOf(Stripped(more, out), x), x, Stripped(more, out))
  <2> DEFINE u == Stripped(a, out)
             w == Stripped(b, out)
             l == Stripped(more, out)
             i == PlaceOf(l, x)
  <2>1. Around(l, x, u, w)
    BY <1>1, <1>5, StrippedAround
  <2>2. Stripped(list, out) = u \o w
    BY <1>3
  <2> HIDE DEF u, w, l
  <2>3. i = Len(u) + 1
    BY <2>1, IndexIs
  <2> HIDE DEF i
  <2>4. Inserted(Stripped(list, out), i, x, l)
    BY <2>1, <2>2, <2>3 DEF Inserted
  <2> QED BY <2>4 DEF i, l
<1> DEFINE less == veiled \ {x}
           full == veiled \cup {x}
<1>6. Inserted(Stripped(list, less), PlaceOf(Stripped(more, less), x), x, Stripped(more, less))
  <2>1. x \notin less
    OBVIOUS
  <2> HIDE DEF less
  <2> QED BY <1>5, <2>1
<1>7. x \notin veiled => veiled = less
  OBVIOUS
<1>8. Stripped(list, full) = Stripped(more, full)
  <2>1. x \in full
    OBVIOUS
  <2> HIDE DEF full
  <2> QED BY <1>4, <2>1
<1>9. Stripped(list, full) = Stripped(list, less)
  <2>1. ASSUME NEW c \in Seq(Thing), x \notin Elements(c)  PROVE Stripped(c, full) = Stripped(c, less)
    BY <2>1, StrippedAlike
  <2> HIDE DEF less, full
  <2> QED BY <1>2, <1>3, <2>1
<1> HIDE DEF less, full
<1>10. x \notin veiled => Inserted(Stripped(list, veiled), PlaceOf(Stripped(more, less), x), x, Stripped(more, veiled))
  BY <1>6, <1>7
<1>11. Inserted(Stripped(more, full), PlaceOf(Stripped(more, less), x), x, Stripped(more, less))
  BY <1>6, <1>8, <1>9
<1> QED BY <1>4, <1>10, <1>11 DEF less, full

\* One that is hidden is not seen.
Alike(list, more, veiled) == Stripped(list, veiled) = Stripped(more, veiled)

\* A list looks the same with a hidden thing put in.
LEMMA UnseenInserted ==
  ASSUME NEW list, NEW n, NEW x, NEW more, Inserted(list, n, x, more), NEW veiled, x \in veiled
  PROVE  Alike(list, more, veiled)
<1>1. PICK a, b : Around(more, x, a, b) /\ list = a \o b
  BY DEF Inserted
<1>2. a \in Seq(Thing) /\ b \in Seq(Thing)
  BY <1>1 DEF Around
<1>3. Stripped(list, veiled) = Stripped(a, veiled) \o Stripped(b, veiled)
  BY <1>1, <1>2, StrippedConcat
<1>4. Around(more, x, a, b)
  BY <1>1
<1>5. Parted(more, veiled, a, b)
  BY <1>4, StrippedAround
<1> QED BY <1>3, <1>5 DEF Parted, Alike

-----------------------------------------------------------------------------
(* Tiles.                                                                  *)

Tile == [ground : Seq(GroundItem), top : Seq(TopItem), creatures : Seq(Being), down : Seq(DownItem)]

\* A list of some things is a list of things.
LEMMA Wider ==
  ASSUME NEW S, NEW T, S \subseteq T, NEW s \in Seq(S)
  PROVE  s \in Seq(T)
<1>1. Len(s) \in Nat /\ s = [k \in 1..Len(s) |-> s[k]] /\ \A k \in 1..Len(s) : s[k] \in T
  OBVIOUS
<1> DEFINE N == Len(s)
<1> HIDE DEF N
<1>2. N \in Nat /\ s = [k \in 1..N |-> s[k]] /\ \A k \in 1..N : s[k] \in T
  BY <1>1 DEF N
<1>3. [k \in 1..N |-> s[k]] \in Seq(T)
  BY <1>2
<1> QED BY <1>2, <1>3

\* The four parts of a tile, in a row.
LEMMA ThingsIs ==
  ASSUME NEW t \in Tile
  PROVE  /\ t.ground \in Seq(GroundItem) /\ t.top \in Seq(TopItem) /\ t.creatures \in Seq(Being) /\ t.down \in Seq(DownItem)
         /\ t.ground \in Seq(Thing) /\ t.top \in Seq(Thing) /\ t.creatures \in Seq(Thing) /\ t.down \in Seq(Thing)
         /\ t.ground \o t.top \in Seq(Thing)
         /\ t.creatures \o t.down \in Seq(Thing)
         /\ Things(t) = (t.ground \o t.top) \o (t.creatures \o t.down)
         /\ Things(t) = t.ground \o (t.top \o (t.creatures \o t.down))
         /\ Things(t) = ((t.ground \o t.top) \o t.creatures) \o t.down
         /\ Things(t) \in Seq(Thing)
<1> DEFINE g == t.ground
           o == t.top
           c == t.creatures
           d == t.down
<1>1. g \in Seq(GroundItem) /\ o \in Seq(TopItem) /\ c \in Seq(Being) /\ d \in Seq(DownItem)
  BY DEF Tile
<1>2. GroundItem \subseteq Thing /\ TopItem \subseteq Thing /\ Being \subseteq Thing /\ DownItem \subseteq Thing
  BY DEF Thing, Item
<1>3. Things(t) = ((g \o o) \o c) \o d
  BY DEF Things
<1> HIDE DEF g, o, c, d
<1>4. g \in Seq(Thing) /\ o \in Seq(Thing) /\ c \in Seq(Thing) /\ d \in Seq(Thing)
  BY <1>1, <1>2, Wider
<1>5. g \o o \in Seq(Thing) /\ c \o d \in Seq(Thing)
  BY <1>4, ConcatProperties
<1>6. ((g \o o) \o c) \o d = (g \o o) \o (c \o d)
  BY <1>4, <1>5, ConcatAssociative
<1>7. (g \o o) \o (c \o d) = g \o (o \o (c \o d))
  <2> DEFINE e == c \o d
  <2>1. e \in Seq(Thing)
    BY <1>5
  <2> HIDE DEF e
  <2>2. (g \o o) \o e = g \o (o \o e)
    BY <1>4, <2>1, ConcatAssociative
  <2> QED BY <2>2 DEF e
<1>8. (g \o o) \o (c \o d) \in Seq(Thing)
  BY <1>5, ConcatProperties
<1> QED BY <1>1, <1>3, <1>4, <1>5, <1>6, <1>7, <1>8 DEF g, o, c, d

\* A thing in front of the second of two lists.
LEMMA Squeezed ==
  ASSUME NEW a \in Seq(Thing), NEW b \in Seq(Thing), NEW x \in Thing, x \notin Elements(a \o b),
         NEW list, list = a \o b, NEW more, more = a \o (<<x>> \o b)
  PROVE  Inserted(list, Len(a) + 1, x, more)
<1> DEFINE one == <<x>>
           m == a \o b
<1>1. one \in Seq(Thing)
  OBVIOUS
<1> HIDE DEF one
<1>2. a \o (one \o b) = (a \o one) \o b
  BY <1>1, ConcatAssociative
<1>3. /\ m \in Seq(Thing) /\ Len(m) = Len(a) + Len(b) /\ Len(a) \in Nat /\ Len(b) \in Nat
      /\ \A k \in 1..(Len(a) + Len(b)) : m[k] = IF k <= Len(a) THEN a[k] ELSE b[k - Len(a)]
  BY PairIs
<1>4. x \notin Elements(m)
  OBVIOUS
<1> HIDE DEF m
<1>5. \A k \in 1..(Len(a) + Len(b)) : m[k] # x
  <2>1. DOMAIN m = 1..(Len(a) + Len(b))
    BY <1>3
  <2> QED BY <1>4, <2>1 DEF Elements
<1>6. x \notin Elements(a)
  <2> SUFFICES ASSUME NEW k \in 1..Len(a), a[k] = x  PROVE FALSE
    <3>1. DOMAIN a = 1..Len(a)
      OBVIOUS
    <3> QED BY <3>1 DEF Elements
  <2>1. k \in 1..(Len(a) + Len(b)) /\ k <= Len(a)
    BY <1>3
  <2> QED BY <1>3, <1>5, <2>1
<1>7. x \notin Elements(b)
  <2> SUFFICES ASSUME NEW k \in 1..Len(b), b[k] = x  PROVE FALSE
    BY DEF Elements
  <2>1. k + Len(a) \in 1..(Len(a) + Len(b)) /\ ~(k + Len(a) <= Len(a)) /\ (k + Len(a)) - Len(a) = k
    BY <1>3
  <2> QED BY <1>3, <1>5, <2>1
<1>8. more = Row(a, x, b)
  BY <1>2 DEF Row, one
<1> QED BY <1>6, <1>7, <1>8 DEF Around, Inserted

\* A thing in front of another list.
LEMMA InFront ==
  ASSUME NEW S, NEW x \in S, NEW s \in Seq(S)
  PROVE  <<x>> \o s \in Seq(S)
<1> DEFINE one == <<x>>
<1>1. one \in Seq(S)
  OBVIOUS
<1> HIDE DEF one
<1>2. one \o s \in Seq(S)
  BY <1>1, ConcatProperties
<1> QED BY <1>2 DEF one

\* Where a new thing is put on a tile.
Above(t, x) ==
  IF x \in GroundItem THEN <<>> ELSE IF x \in TopItem THEN t.ground
  ELSE IF x \in DownItem THEN (t.ground \o t.top) \o t.creatures ELSE t.ground \o t.top

\* A thing put on a tile is a thing more in its list, below those that come first.
LEMMA PutOnIs ==
  ASSUME NEW t \in Tile, NEW x \in Thing, x \notin Elements(Things(t))
  PROVE  /\ PutOn(t, x) \in Tile /\ Above(t, x) \in Seq(Thing)
         /\ Inserted(Things(t), Len(Above(t, x)) + 1, x, Things(PutOn(t, x)))
<1> DEFINE g == t.ground
           o == t.top
           c == t.creatures
           d == t.down
           one == <<x>>
           u == PutOn(t, x)
<1>1. /\ g \in Seq(GroundItem) /\ o \in Seq(TopItem) /\ c \in Seq(Being) /\ d \in Seq(DownItem)
      /\ g \in Seq(Thing) /\ o \in Seq(Thing) /\ c \in Seq(Thing) /\ d \in Seq(Thing)
      /\ g \o o \in Seq(Thing) /\ c \o d \in Seq(Thing)
      /\ Things(t) = (g \o o) \o (c \o d) /\ Things(t) = g \o (o \o (c \o d)) /\ Things(t) = ((g \o o) \o c) \o d
      /\ Things(t) \in Seq(Thing)
  BY ThingsIs
<1>2. t = [ground |-> g, top |-> o, creatures |-> c, down |-> d]
  BY DEF Tile
<1>3. one \in Seq(Thing)
  OBVIOUS
<1>4. /\ x \in GroundItem => u = [ground |-> one \o g, top |-> o, creatures |-> c, down |-> d]
      /\ x \notin GroundItem /\ x \in TopItem => u = [ground |-> g, top |-> one \o o, creatures |-> c, down |-> d]
      /\ x \notin GroundItem /\ x \notin TopItem /\ x \in DownItem => u = [ground |-> g, top |-> o, creatures |-> c, down |-> one \o d]
      /\ x \notin GroundItem /\ x \notin TopItem /\ x \notin DownItem => u = [ground |-> g, top |-> o, creatures |-> one \o c, down |-> d]
  <2> DEFINE k == PartOf(x)
             v == [t EXCEPT ![k] = one \o @]
  <2>1. u = v
    BY DEF PutOn
  <2>2. /\ x \in GroundItem => k = "ground"
        /\ x \notin GroundItem /\ x \in TopItem => k = "top"
        /\ x \notin GroundItem /\ x \notin TopItem /\ x \in DownItem => k = "down"
        /\ x \notin GroundItem /\ x \notin TopItem /\ x \notin DownItem => k = "creatures"
    BY DEF PartOf
  <2> HIDE DEF k, u, one
  <2>3. t \in Tile /\ DOMAIN t = {"ground", "top", "creatures", "down"}
    BY DEF Tile
  <2>4. \A j \in DOMAIN t : v[j] = IF j = k THEN one \o t[j] ELSE t[j]
    OBVIOUS
  <2>5. v = [j \in DOMAIN t |-> v[j]]
    OBVIOUS
  <2> HIDE DEF v
  <2>6. v = [ground |-> v.ground, top |-> v.top, creatures |-> v.creatures, down |-> v.down]
    BY <2>3, <2>5
  <2>7. k = "ground" => v.ground = one \o g /\ v.top = o /\ v.creatures = c /\ v.down = d
    BY <2>3, <2>4
  <2>8. k = "top" => v.ground = g /\ v.top = one \o o /\ v.creatures = c /\ v.down = d
    BY <2>3, <2>4
  <2>9. k = "creatures" => v.ground = g /\ v.top = o /\ v.creatures = one \o c /\ v.down = d
    BY <2>3, <2>4
  <2>10. k = "down" => v.ground = g /\ v.top = o /\ v.creatures = c /\ v.down = one \o d
    BY <2>3, <2>4
  <2> HIDE DEF g, o, c, d
  <2> QED BY <2>1, <2>2, <2>6, <2>7, <2>8, <2>9, <2>10
<1>5. x \notin Elements((g \o o) \o (c \o d)) /\ x \notin Elements(g \o (o \o (c \o d))) /\ x \notin Elements(((g \o o) \o c) \o d)
  BY <1>1
<1> HIDE DEF g, o, c, d, u
<1>6. o \o (c \o d) \in Seq(Thing) /\ (g \o o) \o c \in Seq(Thing)
  BY <1>1, ConcatProperties
<1>7. CASE x \in GroundItem
  <2> DEFINE none == <<>>
             r == g \o (o \o (c \o d))
             h == one \o g
  <2>1. h \in Seq(GroundItem)
    BY <1>1, <1>7, InFront
  <2>2. u \in Tile /\ u.ground = h /\ u.top = o /\ u.creatures = c /\ u.down = d
    <3>1. u = [ground |-> h, top |-> o, creatures |-> c, down |-> d]
      BY <1>4, <1>7
    <3> HIDE DEF h
    <3> QED BY <1>1, <2>1, <3>1 DEF Tile
  <2>3. Things(u) = h \o (o \o (c \o d))
    BY <2>2, ThingsIs
  <2>4. h \o (o \o (c \o d)) = one \o r
    <3> DEFINE z == o \o (c \o d)
    <3>1. z \in Seq(Thing) /\ g \in Seq(Thing) /\ one \in Seq(Thing)
      BY <1>1, <1>3, <1>6
    <3> HIDE DEF z, one
    <3>2. (one \o g) \o z = one \o (g \o z)
      BY <3>1, ConcatAssociative
    <3> QED BY <3>2 DEF z
  <2>5. r \in Seq(Thing) /\ none \in Seq(Thing)
    BY <1>1
  <2> HIDE DEF h, r, none, one
  <2>6. one \o r \in Seq(Thing)
    BY <1>3, <2>5, ConcatProperties
  <2>7. none \o r = r /\ none \o (one \o r) = one \o r
    BY <2>5, <2>6, ConcatEmptySeq DEF none
  <2>8. x \notin Elements(none \o r)
    BY <1>5, <2>7 DEF r
  <2>9. Things(t) = none \o r /\ Things(u) = none \o (one \o r)
    BY <1>1, <2>3, <2>4, <2>7 DEF r
  <2>10. Inserted(Things(t), Len(none) + 1, x, Things(u))
    BY <2>5, <2>8, <2>9, Squeezed DEF one
  <2>11. Above(t, x) = none
    BY <1>7 DEF Above, none
  <2> QED BY <2>2, <2>5, <2>10, <2>11 DEF u
<1>8. CASE x \notin GroundItem /\ x \in TopItem
  <2> DEFINE r == o \o (c \o d)
             h == one \o o
  <2>1. h \in Seq(TopItem)
    BY <1>1, <1>8, InFront
  <2>2. u \in Tile /\ u.ground = g /\ u.top = h /\ u.creatures = c /\ u.down = d
    <3>1. u = [ground |-> g, top |-> h, creatures |-> c, down |-> d]
      BY <1>4, <1>8
    <3> HIDE DEF h
    <3> QED BY <1>1, <2>1, <3>1 DEF Tile
  <2>3. Things(u) = g \o (h \o (c \o d))
    BY <2>2, ThingsIs
  <2>4. h \o (c \o d) = one \o r
    BY <1>1, <1>3, ConcatAssociative
  <2> HIDE DEF h, r, one
  <2>5. Things(t) = g \o r /\ Things(u) = g \o (one \o r) /\ x \notin Elements(g \o r) /\ r \in Seq(Thing)
    BY <1>1, <1>5, <1>6, <2>3, <2>4 DEF r
  <2>6. Inserted(Things(t), Len(g) + 1, x, Things(u))
    BY <1>1, <2>5, Squeezed DEF one
  <2>7. Above(t, x) = g
    BY <1>8 DEF Above, g
  <2> QED BY <1>1, <2>2, <2>6, <2>7 DEF u
<1>9. CASE x \notin GroundItem /\ x \notin TopItem /\ x \in DownItem
  <2> DEFINE a == (g \o o) \o c
             h == one \o d
  <2>1. h \in Seq(DownItem)
    BY <1>1, <1>9, InFront
  <2>2. u \in Tile /\ u.ground = g /\ u.top = o /\ u.creatures = c /\ u.down = h
    <3>1. u = [ground |-> g, top |-> o, creatures |-> c, down |-> h]
      BY <1>4, <1>9
    <3> HIDE DEF h
    <3> QED BY <1>1, <2>1, <3>1 DEF Tile
  <2>3. Things(u) = a \o (one \o d)
    BY <2>2, ThingsIs
  <2> HIDE DEF h, one
  <2>4. Things(t) = a \o d /\ x \notin Elements(a \o d) /\ a \in Seq(Thing)
    BY <1>1, <1>5, <1>6
  <2>5. Above(t, x) = a
    BY <1>9 DEF Above, g, o, c
  <2> HIDE DEF a
  <2>6. Inserted(Things(t), Len(a) + 1, x, Things(u))
    BY <1>1, <2>3, <2>4, Squeezed DEF one
  <2> QED BY <2>2, <2>4, <2>5, <2>6 DEF u
<1>10. CASE x \notin GroundItem /\ x \notin TopItem /\ x \notin DownItem
  <2> DEFINE a == g \o o
             r == c \o d
             h == one \o c
  <2>0. x \in Being
    BY <1>10 DEF Thing, Item
  <2>1. h \in Seq(Being)
    BY <1>1, <2>0, InFront
  <2>2. u \in Tile /\ u.ground = g /\ u.top = o /\ u.creatures = h /\ u.down = d
    <3>1. u = [ground |-> g, top |-> o, creatures |-> h, down |-> d]
      BY <1>4, <1>10
    <3> HIDE DEF h
    <3> QED BY <1>1, <2>1, <3>1 DEF Tile
  <2>3. Things(u) = a \o (h \o d)
    BY <2>2, ThingsIs
  <2>4. h \o d = one \o r
    BY <1>1, <1>3, ConcatAssociative
  <2> HIDE DEF h, one
  <2>5. Things(t) = a \o r /\ Things(u) = a \o (one \o r) /\ x \notin Elements(a \o r) /\ r \in Seq(Thing) /\ a \in Seq(Thing)
    BY <1>1, <1>5, <2>3, <2>4
  <2>6. Above(t, x) = a
    BY <1>10 DEF Above, g, o
  <2> HIDE DEF a, r
  <2>7. Inserted(Things(t), Len(a) + 1, x, Things(u))
    BY <1>1, <2>5, Squeezed DEF one
  <2> QED BY <2>2, <2>5, <2>6, <2>7 DEF u
<1> QED BY <1>7, <1>8, <1>9, <1>10

\* A list of some things, stripped.
LEMMA StrippedPart ==
  ASSUME NEW S, S \subseteq Thing, NEW s \in Seq(S), NEW out
  PROVE  Stripped(s, out) \in Seq(S)
<1> DEFINE r == Stripped(s, out)
<1>1. s \in Seq(Thing)
  BY Wider
<1>2. r \in Seq(Thing) /\ \A k \in DOMAIN r : \E j \in DOMAIN s : s[j] = r[k]
  BY <1>1, StrippedIs
<1> HIDE DEF r
<1>3. \A k \in DOMAIN r : r[k] \in S
  BY <1>2
<1> DEFINE N == Len(r)
<1>4. N \in Nat /\ DOMAIN r = 1..N /\ r = [k \in 1..N |-> r[k]]
  BY <1>2
<1> HIDE DEF N
<1>5. [k \in 1..N |-> r[k]] \in Seq(S)
  BY <1>3, <1>4
<1> QED BY <1>4, <1>5 DEF r

\* A thing taken off a tile is taken out of its list.
LEMMA TakenOffIs ==
  ASSUME NEW t \in Tile, NEW x
  PROVE  TakenOff(t, x) \in Tile /\ Things(TakenOff(t, x)) = Stripped(Things(t), {x})
<1> DEFINE g == t.ground
           o == t.top
           c == t.creatures
           d == t.down
           out == {x}
           u == TakenOff(t, x)
<1>1. /\ g \in Seq(GroundItem) /\ o \in Seq(TopItem) /\ c \in Seq(Being) /\ d \in Seq(DownItem)
      /\ g \in Seq(Thing) /\ o \in Seq(Thing) /\ c \in Seq(Thing) /\ d \in Seq(Thing)
      /\ g \o o \in Seq(Thing)
      /\ Things(t) = ((g \o o) \o c) \o d
  BY ThingsIs
<1>2. t = [ground |-> g, top |-> o, creatures |-> c, down |-> d] /\ DOMAIN t = {"ground", "top", "creatures", "down"}
  BY DEF Tile
<1>3. /\ u = [k \in {"ground", "top", "creatures", "down"} |-> Stripped(t[k], out)]
  BY <1>2 DEF TakenOff
<1> HIDE DEF out
<1>4. u = [ground |-> Stripped(g, out), top |-> Stripped(o, out), creatures |-> Stripped(c, out), down |-> Stripped(d, out)]
  BY <1>3
<1> HIDE DEF g, o, c, d, u
<1>5. GroundItem \subseteq Thing /\ TopItem \subseteq Thing /\ Being \subseteq Thing /\ DownItem \subseteq Thing
  BY DEF Thing, Item
<1>6. Stripped(g, out) \in Seq(GroundItem) /\ Stripped(o, out) \in Seq(TopItem)
  BY <1>1, <1>5, StrippedPart
<1>7. Stripped(c, out) \in Seq(Being) /\ Stripped(d, out) \in Seq(DownItem)
  BY <1>1, <1>5, StrippedPart
<1>8. u \in Tile
  BY <1>4, <1>6, <1>7 DEF Tile
<1>9. Things(u) = ((Stripped(g, out) \o Stripped(o, out)) \o Stripped(c, out)) \o Stripped(d, out)
  BY <1>4 DEF Things
<1>10. (g \o o) \o c \in Seq(Thing)
  BY <1>1, ConcatProperties
<1>11. Stripped(g \o o, out) = Stripped(g, out) \o Stripped(o, out)
  BY <1>1, StrippedConcat
<1>12. Stripped((g \o o) \o c, out) = Stripped(g \o o, out) \o Stripped(c, out)
  BY <1>1, StrippedConcat
<1>13. Stripped(((g \o o) \o c) \o d, out) = Stripped((g \o o) \o c, out) \o Stripped(d, out)
  BY <1>1, <1>10, StrippedConcat
<1> QED BY <1>1, <1>8, <1>9, <1>11, <1>12, <1>13 DEF u, out

-----------------------------------------------------------------------------
(* What the client learns.                                                 *)

Pile == [Square -> Tile]
Views == [client : [Square -> Seq(Thing)], known : SUBSET Being, flooded : BOOLEAN, behind : SUBSET Square]

\* Those the client does not see.
Away(p, veiled) == {x \in Being : On(p, x) = {} \/ x \in veiled \/ ~CanSee(p, Cell(p, x))}

\* From v to w the client was told of the creatures in S, and has forgotten none but those it
\* does not see, as long as it can remember them all.
Learned(v, w, S, A) ==
  /\ w \in Views /\ w.client = v.client /\ w.behind = v.behind
  /\ w.flooded \/ (~v.flooded /\ v.known \cup S \subseteq w.known \cup A)

\* One creature.
LEMMA LearnIs ==
  ASSUME NEW p, NEW veiled, NEW v \in Views, NEW c \in Being, NEW first
  PROVE  Learned(v, Learn(p, veiled, v, c, first), {c}, Away(p, veiled))
<1> DEFINE met == v.known \cup {c}
           full == Cardinality(met) > Memory
           u == [v EXCEPT !.known = met]
           away == Forgettable(p, veiled, u)
           pool == IF away # {} THEN away ELSE v.known \ {c}
           lost == IF first \in pool THEN first ELSE CHOOSE x \in pool : TRUE
           flood == v.flooded \/ away = {}
           w == [v EXCEPT !.known = met \ {lost}, !.flooded = flood]
           A == Away(p, veiled)
<1>1. /\ v.client \in [Square -> Seq(Thing)] /\ v.known \in SUBSET Being /\ v.flooded \in BOOLEAN /\ v.behind \in SUBSET Square
      /\ v = [client |-> v.client, known |-> v.known, flooded |-> v.flooded, behind |-> v.behind]
  BY DEF Views
<1>2. met \in SUBSET Being
  BY <1>1
<1>3. u = [client |-> v.client, known |-> met, flooded |-> v.flooded, behind |-> v.behind] /\ u.known = met
  <2> HIDE DEF met
  <2> QED BY <1>1
<1>4. away = {x \in met : x \in A}
  <2> HIDE DEF met, u
  <2>1. away = {x \in met : On(p, x) = {} \/ x \in veiled \/ ~CanSee(p, Cell(p, x))}
    BY <1>3 DEF Forgettable
  <2> HIDE DEF away
  <2> QED BY <1>2, <2>1 DEF Away
<1>5. Learn(p, veiled, v, c, first) = IF c \in v.known THEN v ELSE IF ~full THEN u ELSE w
  BY DEF Learn
<1>6. away # {} => lost \in away
  <2>1. away # {} => pool = away
    OBVIOUS
  <2> HIDE DEF away, pool
  <2>2. pool # {} => lost \in pool
    OBVIOUS
  <2> HIDE DEF lost
  <2> QED BY <2>1, <2>2
<1> HIDE DEF met, full, away, pool, lost
<1>7. w = [client |-> v.client, known |-> met \ {lost}, flooded |-> flood, behind |-> v.behind]
  <2> DEFINE rest == met \ {lost}
             r == [v EXCEPT !.known = rest]
             q == [r EXCEPT !.flooded = flood]
  <2>1. w = q
    BY <1>1
  <2> HIDE DEF rest, flood, w
  <2>2. r = [client |-> v.client, known |-> rest, flooded |-> v.flooded, behind |-> v.behind]
    BY <1>1
  <2> HIDE DEF r
  <2>3. q = [client |-> v.client, known |-> rest, flooded |-> flood, behind |-> v.behind]
    BY <2>2
  <2> HIDE DEF q
  <2> QED BY <2>1, <2>3 DEF rest
<1> HIDE DEF u, w, A
<1>8. CASE c \in v.known
  <2>1. Learn(p, veiled, v, c, first) = v
    BY <1>5, <1>8
  <2>2. v.flooded \/ (~v.flooded /\ v.known \cup {c} \subseteq v.known \cup A)
    BY <1>8
  <2> QED BY <2>1, <2>2 DEF Learned, A
<1>9. CASE c \notin v.known /\ ~full
  <2>1. Learn(p, veiled, v, c, first) = u
    BY <1>5, <1>9
  <2>2. u \in Views
    BY <1>1, <1>2, <1>3 DEF Views
  <2>3. u.client = v.client /\ u.behind = v.behind /\ u.flooded = v.flooded
    BY <1>3
  <2>4. v.known \cup {c} \subseteq u.known \cup A
    BY <1>3 DEF met
  <2> QED BY <1>1, <2>1, <2>2, <2>3, <2>4 DEF Learned, A
<1>10. CASE c \notin v.known /\ full
  <2>1. Learn(p, veiled, v, c, first) = w
    BY <1>5, <1>10
  <2>2. w \in Views
    <3>1. met \ {lost} \in SUBSET Being
      BY <1>2
    <3>2. flood \in BOOLEAN
      OBVIOUS
    <3> HIDE DEF flood
    <3> QED BY <1>1, <1>7, <3>1, <3>2 DEF Views
  <2>3. w.client = v.client /\ w.behind = v.behind /\ w.flooded = flood /\ w.known = met \ {lost}
    <3> HIDE DEF flood
    <3> QED BY <1>7
  <2>4. w.flooded \/ (~v.flooded /\ v.known \cup {c} \subseteq w.known \cup A)
    <3> SUFFICES ASSUME ~w.flooded  PROVE ~v.flooded /\ v.known \cup {c} \subseteq w.known \cup A
      OBVIOUS
    <3>1. ~v.flooded /\ away # {}
      BY <2>3
    <3>2. lost \in A
      BY <1>4, <1>6, <3>1
    <3>3. v.known \cup {c} \subseteq w.known \cup A
      BY <2>3, <3>2 DEF met
    <3> QED BY <3>1, <3>3
  <2> QED BY <2>1, <2>2, <2>3, <2>4 DEF Learned, A
<1> QED BY <1>8, <1>9, <1>10

\* Nobody, and some after some others.
LEMMA LearnedNone ==
  ASSUME NEW v \in Views, NEW A  PROVE Learned(v, v, {}, A)
BY DEF Learned, Views

\* What is learned of some and then of others is learned of all.
LEMMA LearnedAlso ==
  ASSUME NEW u, NEW v, NEW w, NEW S, NEW T, NEW A, Learned(u, v, S, A), Learned(v, w, T, A)
  PROVE  Learned(u, w, S \cup T, A)
<1>1. w \in Views /\ w.client = u.client /\ w.behind = u.behind
  BY DEF Learned
<1>2. v.flooded \/ (~u.flooded /\ u.known \cup S \subseteq v.known \cup A)
  BY DEF Learned
<1>3. w.flooded \/ (~v.flooded /\ v.known \cup T \subseteq w.known \cup A)
  BY DEF Learned
<1>4. w.flooded \/ (~u.flooded /\ u.known \cup (S \cup T) \subseteq w.known \cup A)
  BY <1>2, <1>3
<1> QED BY <1>1, <1>4 DEF Learned

\* A thing of a description.
Greet(p, veiled, u, x, first) == IF x \in Being THEN Learn(p, veiled, u, x, first) ELSE u

\* A description is read, thing by thing.
IsMeeting(g, p, veiled, v, list, first) ==
  /\ g[0] = v
  /\ \A n \in 0..(Len(list) - 1) : g[n + 1] = Greet(p, veiled, g[n], list[n + 1], first)
  /\ Meet(p, veiled, v, list, first) = g[Len(list)]

\* Every description is read so.
LEMMA MeetingIs ==
  ASSUME NEW p, NEW veiled, NEW v, NEW list \in Seq(Thing), NEW first
  PROVE  \E g : IsMeeting(g, p, veiled, v, list, first)
<1> DEFINE N == Len(list)
           T == 1..N
           base == v
           right(f, s) == f[s] = IF s = {} THEN base ELSE Greet(p, veiled, f[s \ {Max(s)}], list[Max(s)], first)
           upto(n) == \E f : f = [s \in SUBSET T |-> f[s]] /\ \A s \in SUBSET T : Cardinality(s) <= n => right(f, s)
           eq(f) == f = [s \in SUBSET T |-> IF s = {} THEN base ELSE Greet(p, veiled, f[s \ {Max(s)}], list[Max(s)], first)]
           all == CHOOSE f : eq(f)
<1>1. N \in Nat /\ DOMAIN list = T /\ IsFiniteSet(T) /\ Cardinality(T) = N
  <2>1. N \in Nat /\ DOMAIN list = T
    OBVIOUS
  <2> HIDE DEF N
  <2>2. 1 \in Int /\ N \in Int /\ (1 > N => N = 0) /\ N - 1 + 1 = N
    BY <2>1
  <2>3. IsFiniteSet(1..N) /\ Cardinality(1..N) = IF 1 > N THEN 0 ELSE N - 1 + 1
    BY <2>2, FS_Interval
  <2> QED BY <2>1, <2>2, <2>3
<1> HIDE DEF T, N, base
<1>2. \A s \in SUBSET T : IsFiniteSet(s) /\ Cardinality(s) \in Nat /\ Cardinality(s) <= N
  BY <1>1, FS_Subset, FS_CardinalityType
<1>3. \A s \in SUBSET T : s # {} => Max(s) \in s
  BY <1>1, LastOne DEF T
<1>4. \A s \in SUBSET T : s # {} => s \ {Max(s)} \in SUBSET T /\ Cardinality(s \ {Max(s)}) = Cardinality(s) - 1
  BY <1>2, <1>3, FS_RemoveElement
<1>5. \A s \in SUBSET T : Cardinality(s) = 0 <=> s = {}
  BY <1>2, FS_EmptySet
<1>6. upto(0)
  <2> DEFINE f == [s \in SUBSET T |-> base]
  <2>1. f = [s \in SUBSET T |-> f[s]]
    OBVIOUS
  <2>2. \A s \in SUBSET T : Cardinality(s) <= 0 => s = {}
    BY <1>2, <1>5
  <2>3. \A s \in SUBSET T : Cardinality(s) <= 0 => right(f, s)
    BY <2>2
  <2> HIDE DEF f, right
  <2> QED BY <2>1, <2>3
<1>7. ASSUME NEW n \in Nat, upto(n)  PROVE upto(n + 1)
  <2>1. PICK f : f = [s \in SUBSET T |-> f[s]] /\ \A s \in SUBSET T : Cardinality(s) <= n => right(f, s)
    BY <1>7
  <2> DEFINE g == [s \in SUBSET T |-> IF Cardinality(s) <= n THEN f[s] ELSE Greet(p, veiled, f[s \ {Max(s)}], list[Max(s)], first)]
  <2>2. g = [s \in SUBSET T |-> g[s]]
    OBVIOUS
  <2>3. ASSUME NEW s \in SUBSET T, Cardinality(s) <= n + 1  PROVE right(g, s)
    <3>1. s # {} => s \ {Max(s)} \in SUBSET T /\ Cardinality(s \ {Max(s)}) <= n
      BY <1>2, <1>4, <2>3
    <3>2. s # {} => g[s \ {Max(s)}] = f[s \ {Max(s)}]
      BY <3>1
    <3>3. CASE Cardinality(s) <= n
      <4>1. g[s] = f[s] /\ right(f, s)
        BY <2>1, <3>3
      <4> HIDE DEF g
      <4> QED BY <3>2, <4>1
    <3>4. CASE ~(Cardinality(s) <= n)
      <4>1. s # {}
        BY <1>2, <1>5, <3>4
      <4>2. g[s] = Greet(p, veiled, f[s \ {Max(s)}], list[Max(s)], first)
        BY <3>4
      <4> HIDE DEF g
      <4> QED BY <3>2, <4>1, <4>2
    <3> QED BY <3>3, <3>4
  <2> HIDE DEF g, right
  <2> QED BY <2>2, <2>3
<1>8. upto(N)
  <2> HIDE DEF upto
  <2> DEFINE P == {n \in Nat : upto(n)}
  <2>1. 0 \in P
    BY <1>6
  <2>2. \A n \in 0..(N - 1) : n \in P => n + 1 \in P
    BY <1>7
  <2>3. N \in 0..N
    BY <1>1
  <2> HIDE DEF P
  <2>4. \A n \in 0..N : n \in P
    BY <1>1, <2>1, <2>2, Upwards
  <2> QED BY <2>3, <2>4 DEF P
<1>9. PICK f : f = [s \in SUBSET T |-> f[s]] /\ \A s \in SUBSET T : right(f, s)
  <2>1. PICK f : f = [s \in SUBSET T |-> f[s]] /\ \A s \in SUBSET T : Cardinality(s) <= N => right(f, s)
    BY <1>8
  <2> QED BY <1>2, <2>1
<1>10. eq(f)
  BY <1>9
<1>11. eq(all)
  <2> HIDE DEF eq
  <2> QED BY <1>10
<1>12. Meet(p, veiled, v, list, first) = all[T]
  BY <1>1 DEF Meet, Greet, FoldLeft, MapThenFoldSet, base
<1> HIDE DEF all
<1>13. \A s \in SUBSET T : right(all, s)
  BY <1>11
<1> DEFINE g == [n \in 0..N |-> all[1..n]]
<1>14. g[0] = base
  <2>1. 1..0 = {}
    OBVIOUS
  <2>2. {} \in SUBSET T /\ 0 \in 0..N
    BY <1>1
  <2>3. all[{}] = base
    BY <1>13, <2>2
  <2> QED BY <2>1, <2>2, <2>3
<1>15. ASSUME NEW n \in 0..(N - 1)  PROVE g[n + 1] = Greet(p, veiled, g[n], list[n + 1], first)
  <2>0. n \in Nat /\ n + 1 \in 1..N /\ N \in Nat
    BY <1>1
  <2>1. 1..(n + 1) \in SUBSET T /\ 1..(n + 1) # {} /\ n + 1 \in 0..N /\ n \in 0..N /\ n + 1 \in 1..(n + 1)
    <3>1. n + 1 \in 1..(n + 1) /\ n + 1 \in 0..N /\ n \in 0..N
      BY <2>0
    <3>2. \A k \in 1..(n + 1) : k \in 1..N
      BY <2>0
    <3> QED BY <3>1, <3>2 DEF T
  <2>2. (1..(n + 1)) \ {n + 1} = 1..n
    BY <2>0
  <2>3. Max(1..(n + 1)) = n + 1
    <3> DEFINE m == Max(1..(n + 1))
    <3>1. n + 1 \in Nat /\ 1..(n + 1) \in SUBSET (1..(n + 1))
      BY <2>0
    <3>2. m \in 1..(n + 1) /\ \A k \in 1..(n + 1) : m >= k
      BY <2>1, <3>1, LastOne
    <3> HIDE DEF m
    <3>3. m = n + 1
      BY <2>1, <3>1, <3>2
    <3> QED BY <3>3 DEF m
  <2>4. all[1..(n + 1)] = Greet(p, veiled, all[(1..(n + 1)) \ {Max(1..(n + 1))}], list[Max(1..(n + 1))], first)
    BY <1>13, <2>1
  <2>5. all[1..(n + 1)] = Greet(p, veiled, all[1..n], list[n + 1], first)
    BY <2>2, <2>3, <2>4
  <2>6. g[n + 1] = all[1..(n + 1)] /\ g[n] = all[1..n]
    BY <2>1
  <2> HIDE DEF g
  <2> QED BY <2>5, <2>6
<1>16. g[N] = all[T]
  BY <1>1 DEF T
<1> HIDE DEF g
<1> QED BY <1>12, <1>14, <1>15, <1>16 DEF N, base, IsMeeting
\* All creatures of a description.
LEMMA MeetIs ==
  ASSUME NEW p, NEW veiled, NEW v \in Views, NEW list \in Seq(Thing), NEW first
  PROVE  Learned(v, Meet(p, veiled, v, list, first), Elements(list) \cap Being, Away(p, veiled))
<1> DEFINE N == Len(list)
           A == Away(p, veiled)
           some(n) == {x \in Being : \E k \in 1..n : list[k] = x}
<1>1. PICK g : IsMeeting(g, p, veiled, v, list, first)
  BY MeetingIs
<1>2. N \in Nat /\ DOMAIN list = 1..N
  OBVIOUS
<1>3. Learned(v, g[0], some(0), A)
  <2>1. some(0) = {}
    OBVIOUS
  <2>2. g[0] = v
    BY <1>1 DEF IsMeeting
  <2> HIDE DEF some, A
  <2> QED BY <2>1, <2>2, LearnedNone
<1>4. ASSUME NEW n \in 0..(N - 1), Learned(v, g[n], some(n), A)  PROVE Learned(v, g[n + 1], some(n + 1), A)
  <2> DEFINE u == g[n]
             x == list[n + 1]
             more == {x} \cap Being
             w == Greet(p, veiled, u, x, first)
  <2>1. g[n + 1] = w
    BY <1>1 DEF IsMeeting
  <2>2. u \in Views
    BY <1>4 DEF Learned
  <2>3. Learned(u, w, more, A)
    <3>1. CASE x \in Being
      <4>1. w = Learn(p, veiled, u, x, first) /\ more = {x}
        BY <3>1 DEF Greet
      <4> HIDE DEF u, x, w, more
      <4>2. Learned(u, Learn(p, veiled, u, x, first), {x}, A)
        BY <2>2, <3>1, LearnIs
      <4> QED BY <4>1, <4>2
    <3>2. CASE x \notin Being
      <4>1. w = u /\ more = {}
        BY <3>2 DEF Greet
      <4> HIDE DEF u, x, w, more, A
      <4> QED BY <2>2, <4>1, LearnedNone
    <3> QED BY <3>1, <3>2
  <2>4. some(n + 1) = some(n) \cup more
    <3>1. n \in Nat /\ \A k \in Int : k \in 1..(n + 1) <=> (k \in 1..n \/ k = n + 1)
      BY <1>2
    <3> QED BY <3>1
  <2>5. Learned(v, u, some(n), A)
    BY <1>4
  <2> HIDE DEF u, x, w, more, A, some
  <2>6. Learned(v, w, some(n) \cup more, A)
    BY <2>3, <2>5, LearnedAlso
  <2> QED BY <2>1, <2>4, <2>6
<1>5. Learned(v, g[N], some(N), A)
  <2> DEFINE P == {n \in Nat : Learned(v, g[n], some(n), A)}
  <2> HIDE DEF some, A
  <2>1. 0 \in P
    BY <1>3
  <2>2. \A n \in 0..(N - 1) : n \in P => n + 1 \in P
    BY <1>2, <1>4
  <2>3. N \in 0..N
    BY <1>2
  <2> HIDE DEF P
  <2>4. \A n \in 0..N : n \in P
    BY <1>2, <2>1, <2>2, Upwards
  <2> QED BY <2>3, <2>4 DEF P
<1>6. some(N) = Elements(list) \cap Being
  BY <1>2 DEF Elements
<1>7. g[N] = Meet(p, veiled, v, list, first)
  BY <1>1 DEF IsMeeting
<1> HIDE DEF some, N
<1> QED BY <1>5, <1>6, <1>7

\* A cell that is described, or not.
Look(p, veiled, u, c, cells, first) ==
  IF c \in cells THEN Meet(p, veiled, u, Description(p[c], veiled), first) ELSE u

\* The map is described, cell by cell.
IsLooking(g, p, veiled, v, cells, first) ==
  /\ g[0] = Shows(p, veiled, v, cells)
  /\ \A n \in 0..(Cells - 1) : g[n + 1] = Look(p, veiled, g[n], n + 1, cells, first)
  /\ Describe(p, veiled, v, cells, first) = g[Cells]

\* It is always described so.
LEMMA LookingIs ==
  ASSUME NEW p, NEW veiled, NEW v, NEW cells, NEW first
  PROVE  \E g : IsLooking(g, p, veiled, v, cells, first)
<1> DEFINE N == Cells
           lane == [c \in 1..Cells |-> c]
           T == 1..N
           base == Shows(p, veiled, v, cells)
           right(f, s) == f[s] = IF s = {} THEN base ELSE Look(p, veiled, f[s \ {Max(s)}], lane[Max(s)], cells, first)
           upto(n) == \E f : f = [s \in SUBSET T |-> f[s]] /\ \A s \in SUBSET T : Cardinality(s) <= n => right(f, s)
           eq(f) == f = [s \in SUBSET T |-> IF s = {} THEN base ELSE Look(p, veiled, f[s \ {Max(s)}], lane[Max(s)], cells, first)]
           all == CHOOSE f : eq(f)
<1>1. N \in Nat /\ DOMAIN lane = T /\ IsFiniteSet(T) /\ Cardinality(T) = N
  <2>1. N \in Nat /\ DOMAIN lane = T
    BY ViewAssumption
  <2> HIDE DEF N
  <2>2. 1 \in Int /\ N \in Int /\ (1 > N => N = 0) /\ N - 1 + 1 = N
    BY <2>1
  <2>3. IsFiniteSet(1..N) /\ Cardinality(1..N) = IF 1 > N THEN 0 ELSE N - 1 + 1
    BY <2>2, FS_Interval
  <2> QED BY <2>1, <2>2, <2>3
<1> HIDE DEF T, N, base, lane
<1>2. \A s \in SUBSET T : IsFiniteSet(s) /\ Cardinality(s) \in Nat /\ Cardinality(s) <= N
  BY <1>1, FS_Subset, FS_CardinalityType
<1>3. \A s \in SUBSET T : s # {} => Max(s) \in s
  BY <1>1, LastOne DEF T
<1>4. \A s \in SUBSET T : s # {} => s \ {Max(s)} \in SUBSET T /\ Cardinality(s \ {Max(s)}) = Cardinality(s) - 1
  BY <1>2, <1>3, FS_RemoveElement
<1>5. \A s \in SUBSET T : Cardinality(s) = 0 <=> s = {}
  BY <1>2, FS_EmptySet
<1>6. upto(0)
  <2> DEFINE f == [s \in SUBSET T |-> base]
  <2>1. f = [s \in SUBSET T |-> f[s]]
    OBVIOUS
  <2>2. \A s \in SUBSET T : Cardinality(s) <= 0 => s = {}
    BY <1>2, <1>5
  <2>3. \A s \in SUBSET T : Cardinality(s) <= 0 => right(f, s)
    BY <2>2
  <2> HIDE DEF f, right
  <2> QED BY <2>1, <2>3
<1>7. ASSUME NEW n \in Nat, upto(n)  PROVE upto(n + 1)
  <2>1. PICK f : f = [s \in SUBSET T |-> f[s]] /\ \A s \in SUBSET T : Cardinality(s) <= n => right(f, s)
    BY <1>7
  <2> DEFINE g == [s \in SUBSET T |-> IF Cardinality(s) <= n THEN f[s] ELSE Look(p, veiled, f[s \ {Max(s)}], lane[Max(s)], cells, first)]
  <2>2. g = [s \in SUBSET T |-> g[s]]
    OBVIOUS
  <2>3. ASSUME NEW s \in SUBSET T, Cardinality(s) <= n + 1  PROVE right(g, s)
    <3>1. s # {} => s \ {Max(s)} \in SUBSET T /\ Cardinality(s \ {Max(s)}) <= n
      <4>1. s # {} => s \ {Max(s)} \in SUBSET T /\ Cardinality(s \ {Max(s)}) = Cardinality(s) - 1
        BY <1>4
      <4>2. Cardinality(s) \in Nat
        BY <1>2
      <4> HIDE DEF right, upto
      <4> QED BY <2>3, <4>1, <4>2
    <3>2. s # {} => g[s \ {Max(s)}] = f[s \ {Max(s)}]
      BY <3>1
    <3>3. CASE Cardinality(s) <= n
      <4>1. g[s] = f[s] /\ right(f, s)
        BY <2>1, <3>3
      <4> HIDE DEF g
      <4> QED BY <3>2, <4>1
    <3>4. CASE ~(Cardinality(s) <= n)
      <4>1. s # {}
        BY <1>2, <1>5, <3>4
      <4>2. g[s] = Look(p, veiled, f[s \ {Max(s)}], lane[Max(s)], cells, first)
        BY <3>4
      <4> HIDE DEF g
      <4> QED BY <3>2, <4>1, <4>2
    <3> QED BY <3>3, <3>4
  <2> HIDE DEF g, right
  <2> QED BY <2>2, <2>3
<1>8. upto(N)
  <2> HIDE DEF upto
  <2> DEFINE P == {n \in Nat : upto(n)}
  <2>1. 0 \in P
    BY <1>6
  <2>2. \A n \in 0..(N - 1) : n \in P => n + 1 \in P
    BY <1>7
  <2>3. N \in 0..N
    BY <1>1
  <2> HIDE DEF P
  <2>4. \A n \in 0..N : n \in P
    BY <1>1, <2>1, <2>2, Upwards
  <2> QED BY <2>3, <2>4 DEF P
<1>9. PICK f : f = [s \in SUBSET T |-> f[s]] /\ \A s \in SUBSET T : right(f, s)
  <2>1. PICK f : f = [s \in SUBSET T |-> f[s]] /\ \A s \in SUBSET T : Cardinality(s) <= N => right(f, s)
    BY <1>8
  <2> QED BY <1>2, <2>1
<1>10. eq(f)
  BY <1>9
<1>11. eq(all)
  <2> HIDE DEF eq
  <2> QED BY <1>10
<1>12. Describe(p, veiled, v, cells, first) = all[T]
  BY <1>1 DEF Describe, Look, FoldLeft, MapThenFoldSet, base, lane
<1> HIDE DEF all
<1>13. \A s \in SUBSET T : right(all, s)
  BY <1>11
<1> DEFINE g == [n \in 0..N |-> all[1..n]]
<1>14. g[0] = base
  <2>1. 1..0 = {}
    OBVIOUS
  <2>2. {} \in SUBSET T /\ 0 \in 0..N
    BY <1>1
  <2>3. all[{}] = base
    BY <1>13, <2>2
  <2> QED BY <2>1, <2>2, <2>3
<1>15. ASSUME NEW n \in 0..(N - 1)  PROVE g[n + 1] = Look(p, veiled, g[n], lane[n + 1], cells, first)
  <2>0. n \in Nat /\ n + 1 \in 1..N /\ N \in Nat
    BY <1>1
  <2>1. 1..(n + 1) \in SUBSET T /\ 1..(n + 1) # {} /\ n + 1 \in 0..N /\ n \in 0..N /\ n + 1 \in 1..(n + 1)
    <3>1. n + 1 \in 1..(n + 1) /\ n + 1 \in 0..N /\ n \in 0..N
      BY <2>0
    <3>2. \A k \in 1..(n + 1) : k \in 1..N
      BY <2>0
    <3> QED BY <3>1, <3>2 DEF T
  <2>2. (1..(n + 1)) \ {n + 1} = 1..n
    BY <2>0
  <2>3. Max(1..(n + 1)) = n + 1
    <3> DEFINE m == Max(1..(n + 1))
    <3>1. n + 1 \in Nat /\ 1..(n + 1) \in SUBSET (1..(n + 1))
      BY <2>0
    <3>2. m \in 1..(n + 1) /\ \A k \in 1..(n + 1) : m >= k
      BY <2>1, <3>1, LastOne
    <3> HIDE DEF m
    <3>3. m = n + 1
      BY <2>1, <3>1, <3>2
    <3> QED BY <3>3 DEF m
  <2>4. all[1..(n + 1)] = Look(p, veiled, all[(1..(n + 1)) \ {Max(1..(n + 1))}], lane[Max(1..(n + 1))], cells, first)
    BY <1>13, <2>1
  <2>5. all[1..(n + 1)] = Look(p, veiled, all[1..n], lane[n + 1], cells, first)
    BY <2>2, <2>3, <2>4
  <2>6. g[n + 1] = all[1..(n + 1)] /\ g[n] = all[1..n]
    BY <2>1
  <2> HIDE DEF g
  <2> QED BY <2>5, <2>6
<1>16. \A n \in 0..(N - 1) : lane[n + 1] = n + 1
  BY ViewAssumption DEF N, lane
<1>17. g[N] = all[T]
  BY <1>1 DEF T
<1> HIDE DEF g
<1> QED BY <1>12, <1>14, <1>15, <1>16, <1>17 DEF N, base, IsLooking
\* What the player can see of a tile, and what the client shows of it, are things of it.
LEMMA DescriptionIs ==
  ASSUME NEW t \in Tile, NEW veiled
  PROVE  /\ Visible(t, veiled) \in Seq(Thing) /\ Description(t, veiled) \in Seq(Thing)
         /\ \A x \in Elements(Visible(t, veiled)) : x \in Elements(Things(t)) /\ x \notin veiled
         /\ Elements(Description(t, veiled)) \subseteq Elements(Visible(t, veiled))
<1> DEFINE l == Things(t)
           v == Visible(t, veiled)
           d == Description(t, veiled)
<1>1. l \in Seq(Thing)
  BY ThingsIs
<1>2. v \in Seq(Thing) /\ \A k \in DOMAIN v : v[k] \notin veiled /\ \E j \in DOMAIN l : l[j] = v[k]
  BY <1>1, StrippedIs DEF Visible
<1> HIDE DEF v
<1>3. d = Cut(v)
  BY DEF Description, v
<1> HIDE DEF d
<1>4. /\ d \in Seq(Thing) /\ Len(d) = (IF Len(v) > Shown THEN Shown ELSE Len(v)) /\ Len(v) \in Nat /\ Shown \in Nat
      /\ \A k \in 1..Len(d) : d[k] = v[k]
  BY <1>2, <1>3, CutIs
<1>5. DOMAIN d = 1..Len(d) /\ DOMAIN v = 1..Len(v) /\ 1..Len(d) \subseteq 1..Len(v)
  BY <1>2, <1>4
<1>6. Elements(d) \subseteq Elements(v)
  BY <1>4, <1>5 DEF Elements
<1>7. \A x \in Elements(v) : x \in Elements(l) /\ x \notin veiled
  BY <1>2 DEF Elements
<1> QED BY <1>2, <1>4, <1>6, <1>7 DEF v, d

\* The creatures of the cells that are described.
Met(p, veiled, cells) == {x \in Being : \E c \in cells : x \in Elements(Description(p[c], veiled))}

\* What is described is shown as it is, and the client is told of all creatures it shows there.
LEMMA DescribeIs ==
  ASSUME NEW p \in Pile, NEW veiled, NEW v \in Views, NEW cells \in SUBSET Square, NEW first
  PROVE  /\ Shows(p, veiled, v, cells) \in Views
         /\ Shows(p, veiled, v, cells).known = v.known /\ Shows(p, veiled, v, cells).flooded = v.flooded
         /\ Shows(p, veiled, v, cells).behind = {c \in v.behind \ cells : CanSee(p, c)}
         /\ \A c \in Square : Shows(p, veiled, v, cells).client[c] =
              IF c \in cells THEN Description(p[c], veiled) ELSE IF CanSee(p, c) THEN v.client[c] ELSE <<>>
         /\ Learned(Shows(p, veiled, v, cells), Describe(p, veiled, v, cells, first), Met(p, veiled, cells), Away(p, veiled))
<1> DEFINE N == Cells
           A == Away(p, veiled)
           s == Shows(p, veiled, v, cells)
           f == [c \in Square |-> IF c \in cells THEN Description(p[c], veiled) ELSE IF CanSee(p, c) THEN v.client[c] ELSE <<>>]
           b == {c \in v.behind \ cells : CanSee(p, c)}
           some(n) == Met(p, veiled, {c \in cells : c <= n})
<1>1. /\ v.client \in [Square -> Seq(Thing)] /\ v.known \in SUBSET Being /\ v.flooded \in BOOLEAN /\ v.behind \in SUBSET Square
      /\ v = [client |-> v.client, known |-> v.known, flooded |-> v.flooded, behind |-> v.behind]
  BY DEF Views
<1>2. \A c \in Square : p[c] \in Tile /\ Description(p[c], veiled) \in Seq(Thing)
  <2> SUFFICES ASSUME NEW c \in Square  PROVE p[c] \in Tile /\ Description(p[c], veiled) \in Seq(Thing)
    OBVIOUS
  <2>1. p[c] \in Tile
    BY DEF Pile
  <2> QED BY <2>1, DescriptionIs
<1>3. s = [client |-> f, known |-> v.known, flooded |-> v.flooded, behind |-> b]
  <2>1. s = [v EXCEPT !.client = f, !.behind = b]
    BY DEF Shows
  <2> HIDE DEF s, f, b
  <2> QED BY <1>1, <2>1
<1>4. f \in [Square -> Seq(Thing)]
  <2>1. \A c \in Square : (IF c \in cells THEN Description(p[c], veiled) ELSE IF CanSee(p, c) THEN v.client[c] ELSE <<>>) \in Seq(Thing)
    <3> SUFFICES ASSUME NEW c \in Square
                 PROVE  (IF c \in cells THEN Description(p[c], veiled) ELSE IF CanSee(p, c) THEN v.client[c] ELSE <<>>) \in Seq(Thing)
      OBVIOUS
    <3>1. v.client[c] \in Seq(Thing)
      BY <1>1
    <3>2. <<>> \in Seq(Thing)
      OBVIOUS
    <3> QED BY <1>2, <3>1, <3>2
  <2> QED BY <2>1
<1>5. b \in SUBSET Square
  BY <1>1
<1>6. s \in Views
  <2> HIDE DEF f, b, s
  <2> QED BY <1>1, <1>3, <1>4, <1>5 DEF Views
<1>7. s.known = v.known /\ s.flooded = v.flooded /\ s.behind = b /\ s.client = f
  <2> HIDE DEF f, b, s
  <2> QED BY <1>3
<1>8. PICK g : IsLooking(g, p, veiled, v, cells, first)
  BY LookingIs
<1>9. N \in Nat /\ Square = 1..N
  BY ViewAssumption DEF Square
<1>10. Learned(s, g[0], some(0), A)
  <2>1. {c \in cells : c <= 0} = {}
    <3>1. \A c \in cells : c \in 1..N
      BY <1>9
    <3>2. \A c \in cells : ~(c <= 0)
      BY <3>1
    <3> QED BY <3>2
  <2>2. some(0) = {}
    BY <2>1 DEF Met
  <2>3. g[0] = s
    BY <1>8 DEF IsLooking
  <2> HIDE DEF some, A, s
  <2> QED BY <1>6, <2>2, <2>3, LearnedNone
<1>11. ASSUME NEW n \in 0..(N - 1), Learned(s, g[n], some(n), A)  PROVE Learned(s, g[n + 1], some(n + 1), A)
  <2> DEFINE u == g[n]
             d == Description(p[n + 1], veiled)
             here == Elements(d) \cap Being
             w == Look(p, veiled, u, n + 1, cells, first)
  <2>0. n + 1 \in Square /\ n \in Nat /\ n + 1 \in Nat
    BY <1>9
  <2>1. g[n + 1] = w
    BY <1>8 DEF IsLooking
  <2>2. u \in Views /\ Learned(s, u, some(n), A)
    BY <1>11 DEF Learned
  <2>3. CASE n + 1 \in cells
    <3>1. {c \in cells : c <= n + 1} = {c \in cells : c <= n} \cup {n + 1}
      <4>1. \A c \in cells : c \in Nat
        BY <1>9
      <4> QED BY <2>0, <2>3, <4>1
    <3>2. some(n + 1) = some(n) \cup here
      <4> HIDE DEF d
      <4> QED BY <3>1 DEF Met, d
    <3>3. w = Meet(p, veiled, u, d, first)
      BY <2>3 DEF Look
    <3>4. d \in Seq(Thing)
      BY <1>2, <2>0
    <3> HIDE DEF u, d, w, A, some, here
    <3>5. Learned(u, Meet(p, veiled, u, d, first), here, A)
      BY <2>2, <3>4, MeetIs DEF A, here
    <3>6. Learned(s, w, some(n) \cup here, A)
      BY <2>2, <3>3, <3>5, LearnedAlso
    <3> QED BY <2>1, <3>2, <3>6
  <2>4. CASE n + 1 \notin cells
    <3>1. {c \in cells : c <= n + 1} = {c \in cells : c <= n}
      <4>1. \A c \in cells : c \in Nat
        BY <1>9
      <4> QED BY <2>0, <2>4, <4>1
    <3>2. some(n + 1) = some(n)
      BY <3>1
    <3>3. w = u
      BY <2>4 DEF Look
    <3> HIDE DEF u, d, w, A, some, here
    <3> QED BY <2>1, <2>2, <3>2, <3>3
  <2> QED BY <2>3, <2>4
<1>12. Learned(s, g[N], some(N), A)
  <2> DEFINE P == {n \in Nat : Learned(s, g[n], some(n), A)}
  <2> HIDE DEF some, A, s
  <2>1. 0 \in P
    BY <1>10
  <2>2. \A n \in 0..(N - 1) : n \in P => n + 1 \in P
    BY <1>9, <1>11
  <2>3. N \in 0..N
    BY <1>9
  <2> HIDE DEF P
  <2>4. \A n \in 0..N : n \in P
    BY <1>9, <2>1, <2>2, Upwards
  <2> QED BY <2>3, <2>4 DEF P
<1>13. some(N) = Met(p, veiled, cells)
  <2>1. {c \in cells : c <= N} = cells
    <3>1. \A c \in cells : c \in 1..N
      BY <1>9
    <3>2. \A c \in cells : c <= N
      BY <1>9, <3>1
    <3> QED BY <3>2
  <2> QED BY <2>1
<1>14. g[N] = Describe(p, veiled, v, cells, first)
  BY <1>8 DEF IsLooking
<1>15. Learned(s, Describe(p, veiled, v, cells, first), Met(p, veiled, cells), A)
  <2> HIDE DEF some, s, A, N
  <2> QED BY <1>12, <1>13, <1>14
<1> HIDE DEF some, A
<1>16. \A c \in Square : s.client[c] = IF c \in cells THEN Description(p[c], veiled) ELSE IF CanSee(p, c) THEN v.client[c] ELSE <<>>
  <2> HIDE DEF s
  <2> QED BY <1>7
<1> HIDE DEF s
<1> QED BY <1>6, <1>7, <1>15, <1>16 DEF s, A

-----------------------------------------------------------------------------
(* Where things are.                                                       *)

Has(p, c, x) == x \in Elements(Things(p[c]))

\* Nothing is in two places.
Tidy(p) ==
  /\ p \in Pile
  /\ \A c \in Square : Once(Things(p[c]))
  /\ \A c, d \in Square : \A x : Has(p, c, x) /\ Has(p, d, x) => c = d

\* Nor is the player nowhere, or a hidden creature.
World(p, veiled) ==
  /\ Tidy(p) /\ veiled \subseteq Other
  /\ \E c \in Square : Has(p, c, Me)
  /\ \A x \in veiled : \E c \in Square : Has(p, c, x)

\* To contain a thing is to have it among the elements.
LEMMA HasIs ==
  ASSUME NEW p \in Pile, NEW c \in Square, NEW x
  PROVE  Contains(Things(p[c]), x) <=> Has(p, c, x)
<1>1. p[c] \in Tile
  BY DEF Pile
<1>2. Things(p[c]) \in Seq(Thing)
  BY <1>1, ThingsIs
<1> DEFINE l == Things(p[c])
<1>3. Contains(l, x) <=> x \in Elements(l)
  <2>1. l \in Seq(Thing) /\ DOMAIN l = 1..Len(l)
    BY <1>2
  <2> HIDE DEF l
  <2> QED BY <2>1 DEF Contains, Elements
<1> QED BY <1>3 DEF Has

\* A thing is found where it is.
LEMMA Located ==
  ASSUME NEW p, Tidy(p), NEW x
  PROVE  /\ On(p, x) = {} <=> \A c \in Square : ~Has(p, c, x)
         /\ On(p, x) # {} => Cell(p, x) \in Square /\ Has(p, Cell(p, x), x)
         /\ \A c \in Square : Has(p, c, x) => On(p, x) = {c} /\ Cell(p, x) = c
<1>1. p \in Pile /\ \A c, d \in Square : Has(p, c, x) /\ Has(p, d, x) => c = d
  BY DEF Tidy
<1>2. \A c \in Square : Contains(Things(p[c]), x) <=> Has(p, c, x)
  BY <1>1, HasIs
<1>3. On(p, x) = {c \in Square : Has(p, c, x)}
  BY <1>2 DEF On
<1>4. On(p, x) # {} => Cell(p, x) \in Square /\ Has(p, Cell(p, x), x)
  <2> SUFFICES ASSUME On(p, x) # {}  PROVE Cell(p, x) \in Square /\ Has(p, Cell(p, x), x)
    OBVIOUS
  <2>1. \E c \in Square : Contains(Things(p[c]), x)
    BY <1>2, <1>3
  <2>2. Cell(p, x) \in Square /\ Contains(Things(p[Cell(p, x)]), x)
    BY <2>1 DEF Cell
  <2> QED BY <1>2, <2>2
<1>5. \A c \in Square : Has(p, c, x) => On(p, x) = {c}
  BY <1>1, <1>3
<1>6. \A c \in Square : Has(p, c, x) => Cell(p, x) = c
  <2> SUFFICES ASSUME NEW c \in Square, Has(p, c, x)  PROVE Cell(p, x) = c
    OBVIOUS
  <2>1. On(p, x) # {}
    BY <1>5
  <2> QED BY <1>1, <1>4, <2>1
<1> QED BY <1>3, <1>4, <1>5, <1>6

\* What the player sees does not depend on anything but where he is.
LEMMA SameSight ==
  ASSUME NEW p, NEW q, Tidy(p), Tidy(q), NEW c \in Square, Has(p, c, Me), Has(q, c, Me)
  PROVE  \A d : CanSee(p, d) <=> CanSee(q, d)
<1>1. Cell(p, Me) = c /\ Cell(q, Me) = c
  BY Located
<1> QED BY <1>1 DEF CanSee

PutAt(p, cell, x) == [p EXCEPT ![cell] = PutOn(p[cell], x)]
TakenAt(p, cell, x) == [p EXCEPT ![cell] = TakenOff(p[cell], x)]

\* A thing that was nowhere is put on a tile.
LEMMA TidyPut ==
  ASSUME NEW p, Tidy(p), NEW cell \in Square, NEW x \in Thing, \A c \in Square : ~Has(p, c, x),
         NEW q, q = PutAt(p, cell, x)
  PROVE  /\ Tidy(q) /\ q[cell] = PutOn(p[cell], x) /\ \A d \in Square : d # cell => q[d] = p[d]
         /\ \A d \in Square : \A y : Has(q, d, y) <=> Has(p, d, y) \/ (d = cell /\ y = x)
         /\ Above(p[cell], x) \in Seq(Thing)
         /\ Inserted(Things(p[cell]), Len(Above(p[cell], x)) + 1, x, Things(q[cell]))
<1> DEFINE t == p[cell]
           u == PutOn(t, x)
           n == Len(Above(t, x)) + 1
<1>1. p \in Pile /\ t \in Tile /\ Once(Things(t))
  BY DEF Tidy, Pile
<1>2. x \notin Elements(Things(t))
  BY DEF Has
<1>3. u \in Tile /\ Above(t, x) \in Seq(Thing) /\ Inserted(Things(t), n, x, Things(u))
  <2> HIDE DEF t
  <2> QED BY <1>1, <1>2, PutOnIs
<1> HIDE DEF u, n
<1>4. q \in Pile /\ q[cell] = u /\ \A d \in Square : d # cell => q[d] = p[d]
  BY <1>1, <1>3 DEF Pile, u, PutAt
<1>5. Once(Things(u)) /\ Elements(Things(u)) = Elements(Things(t)) \cup {x}
  <2>1. Once(Things(t)) <=> Once(Things(u))
    BY <1>3, OnceInserted
  <2>2. Elements(Things(u)) = Elements(Things(t)) \cup {x}
    BY <1>3, InsertedIs
  <2> QED BY <1>1, <2>1, <2>2
<1>6. \A d \in Square : \A y : Has(q, d, y) <=> Has(p, d, y) \/ (d = cell /\ y = x)
  <2> SUFFICES ASSUME NEW d \in Square, NEW y  PROVE Has(q, d, y) <=> Has(p, d, y) \/ (d = cell /\ y = x)
    OBVIOUS
  <2>1. CASE d = cell
    BY <1>4, <1>5, <2>1 DEF Has
  <2>2. CASE d # cell
    BY <1>4, <2>2 DEF Has
  <2> QED BY <2>1, <2>2
<1>7. \A c \in Square : Once(Things(q[c]))
  BY <1>4, <1>5 DEF Tidy
<1>8. \A c, d \in Square : \A y : Has(q, c, y) /\ Has(q, d, y) => c = d
  <2> SUFFICES ASSUME NEW c \in Square, NEW d \in Square, NEW y, Has(q, c, y), Has(q, d, y)  PROVE c = d
    OBVIOUS
  <2>1. Has(p, c, y) \/ (c = cell /\ y = x)
    BY <1>6
  <2>2. Has(p, d, y) \/ (d = cell /\ y = x)
    BY <1>6
  <2>3. Has(p, c, y) /\ Has(p, d, y) => c = d
    BY DEF Tidy
  <2> QED BY <2>1, <2>2, <2>3
<1> QED BY <1>3, <1>4, <1>6, <1>7, <1>8 DEF Tidy, u, n

\* A thing is taken off its tile.
LEMMA TidyTaken ==
  ASSUME NEW p, Tidy(p), NEW cell \in Square, NEW x, Has(p, cell, x),
         NEW q, q = TakenAt(p, cell, x)
  PROVE  /\ Tidy(q) /\ q[cell] = TakenOff(p[cell], x) /\ \A d \in Square : d # cell => q[d] = p[d]
         /\ \A d \in Square : \A y : Has(q, d, y) <=> Has(p, d, y) /\ y # x
         /\ \E n : Inserted(Things(q[cell]), n, x, Things(p[cell]))
<1> DEFINE t == p[cell]
           u == TakenOff(t, x)
<1>1. p \in Pile /\ t \in Tile /\ Once(Things(t))
  BY DEF Tidy, Pile
<1>2. u \in Tile /\ Things(u) = Stripped(Things(t), {x})
  <2> HIDE DEF t
  <2> QED BY <1>1, TakenOffIs
<1>3. PICK n : Inserted(Things(u), n, x, Things(t))
  <2>1. Things(t) \in Seq(Thing)
    BY <1>1, ThingsIs
  <2>2. x \in Elements(Things(t))
    BY DEF Has
  <2> DEFINE l == Things(t)
  <2>3. l \in Seq(Thing) /\ Once(l) /\ x \in Elements(l)
    BY <1>1, <2>1, <2>2
  <2> HIDE DEF l, u
  <2>4. \E n : Inserted(Stripped(l, {x}), n, x, l)
    BY <2>3, TakeOut
  <2> QED BY <1>2, <2>4 DEF l
<1> HIDE DEF u
<1>4. q \in Pile /\ q[cell] = u /\ \A d \in Square : d # cell => q[d] = p[d]
  BY <1>1, <1>2 DEF Pile, u, TakenAt
<1>5. Once(Things(u)) /\ Elements(Things(t)) = Elements(Things(u)) \cup {x} /\ x \notin Elements(Things(u))
  <2>1. Once(Things(u)) <=> Once(Things(t))
    BY <1>3, OnceInserted
  <2>2. Elements(Things(t)) = Elements(Things(u)) \cup {x} /\ x \notin Elements(Things(u))
    BY <1>3, InsertedIs
  <2> QED BY <1>1, <2>1, <2>2
<1>6. \A d \in Square : \A y : Has(q, d, y) <=> Has(p, d, y) /\ y # x
  <2> SUFFICES ASSUME NEW d \in Square, NEW y  PROVE Has(q, d, y) <=> Has(p, d, y) /\ y # x
    OBVIOUS
  <2>1. CASE d = cell
    BY <1>4, <1>5, <2>1 DEF Has
  <2>2. CASE d # cell
    <3>1. Has(q, d, y) <=> Has(p, d, y)
      BY <1>4, <2>2 DEF Has
    <3>2. Has(p, d, x) => d = cell
      BY DEF Tidy
    <3> QED BY <2>2, <3>1, <3>2
  <2> QED BY <2>1, <2>2
<1>7. \A c \in Square : Once(Things(q[c]))
  BY <1>4, <1>5 DEF Tidy
<1>8. \A c, d \in Square : \A y : Has(q, c, y) /\ Has(q, d, y) => c = d
  BY <1>6 DEF Tidy
<1>9. \E k : Inserted(Things(u), k, x, Things(t))
  BY <1>3
<1> QED BY <1>4, <1>6, <1>7, <1>8, <1>9 DEF Tidy, u

-----------------------------------------------------------------------------
(* What the messages do to a client.                                       *)

\* The client shows a cell as it is, and knows whom it shows there.
Fine(v, c, list) ==
  c \notin v.behind =>
    /\ v.client[c] = Cut(list)
    /\ v.flooded \/ Elements(Cut(list)) \cap Being \subseteq v.known

\* So it is with all cells in sight, but for some.
AllFine(p, veiled, v, but) ==
  \A c \in Square \ but : CanSee(p, c) => Fine(v, c, Visible(p[c], veiled))

\* No other creature is shown than those of before and the new one, and none but those of before
\* after one is gone.
LEMMA ElementsInserted ==
  ASSUME NEW list, NEW n, NEW x, NEW more, Inserted(list, n, x, more)
  PROVE  /\ n <= Shown => Elements(Cut(more)) \subseteq Elements(Cut(list)) \cup {x}
         /\ Len(more) <= Shown => Elements(Cut(list)) \subseteq Elements(Cut(more))
<1> DEFINE L == Len(list)
           S == Shown
           c == Cut(list)
           m == Cut(more)
<1>1. /\ list \in Seq(Thing) /\ more \in Seq(Thing) /\ x \in Thing /\ L \in Nat
      /\ Len(more) = L + 1 /\ n \in 1..(L + 1)
      /\ \A k \in 1..(L + 1) : more[k] = IF k < n THEN list[k] ELSE IF k = n THEN x ELSE list[k - 1]
      /\ Elements(more) = Elements(list) \cup {x}
  BY InsertedIs
<1>2. /\ c \in Seq(Thing) /\ Len(c) = (IF L > S THEN S ELSE L) /\ S \in Nat
      /\ \A k \in 1..Len(c) : c[k] = list[k]
  BY <1>1, CutIs
<1>3. /\ m \in Seq(Thing) /\ Len(m) = (IF L + 1 > S THEN S ELSE L + 1)
      /\ \A k \in 1..Len(m) : m[k] = more[k]
  BY <1>1, CutIs
<1>4. Len(more) <= S => c = list /\ m = more
  <2>1. Len(more) <= S => ~(Len(list) > S) /\ ~(Len(more) > S)
    <3>1. Len(more) = Len(list) + 1 /\ Len(list) \in Nat /\ S \in Nat
      BY <1>1, <1>2
    <3> HIDE DEF S
    <3> QED BY <3>1
  <2> QED BY <2>1 DEF Cut
<1> HIDE DEF L, S, c, m
<1>5. ASSUME n <= S  PROVE Elements(m) \subseteq Elements(c) \cup {x}
  <2> SUFFICES ASSUME NEW k \in 1..Len(m), m[k] # x  PROVE m[k] \in Elements(c)
    <3>1. DOMAIN m = 1..Len(m)
      BY <1>3
    <3> QED BY <3>1 DEF Elements
  <2>1. k \in 1..(L + 1) /\ m[k] = more[k]
    BY <1>1, <1>2, <1>3
  <2>2. CASE k < n
    <3>1. k \in 1..Len(c)
      BY <1>1, <1>2, <1>5, <2>1, <2>2
    <3>2. m[k] = c[k]
      BY <1>1, <1>2, <2>1, <2>2, <3>1
    <3>3. k \in DOMAIN c
      BY <1>2, <3>1
    <3> QED BY <3>2, <3>3 DEF Elements
  <2>3. CASE k = n
    <3>1. ~(k < n)
      BY <1>1, <2>3
    <3> QED BY <1>1, <2>1, <2>3, <3>1
  <2>4. CASE k > n
    <3>1. k - 1 \in 1..Len(c)
      BY <1>1, <1>2, <1>3, <2>1, <2>4
    <3>2. ~(k < n) /\ k # n
      BY <1>1, <2>4
    <3>3. m[k] = list[k - 1]
      BY <1>1, <2>1, <3>2
    <3>4. m[k] = c[k - 1]
      BY <1>2, <3>1, <3>3
    <3>5. k - 1 \in DOMAIN c
      <4>1. DOMAIN c = 1..Len(c)
        BY <1>2
      <4> QED BY <3>1, <4>1
    <3> QED BY <3>4, <3>5 DEF Elements
  <2> QED BY <1>1, <2>1, <2>2, <2>3, <2>4
<1> QED BY <1>1, <1>4, <1>5 DEF S, c, m

\* Whatever the client has, a thing put there or taken out leaves a list of things.
LEMMA PutType ==
  ASSUME NEW list \in Seq(Thing), NEW x \in Thing, NEW n \in Nat \ {0}
  PROVE  Put(list, n, x) \in Seq(Thing)
<1> DEFINE j == IF n > Len(list) + 1 THEN Len(list) + 1 ELSE n
           i == InsertAt(list, j, x)
<1>1. j \in 1..(Len(list) + 1)
  OBVIOUS
<1> HIDE DEF j
<1>2. i \in Seq(Thing)
  BY <1>1, InsertIs
<1>3. Put(list, n, x) = Cut(i)
  BY DEF Put, j
<1> HIDE DEF i
<1> QED BY <1>2, <1>3, CutIs

\* A thing taken out leaves a list.
LEMMA DropType ==
  ASSUME NEW list \in Seq(Thing), NEW n
  PROVE  Drop(list, n) \in Seq(Thing)
<1>1. CASE n \in DOMAIN list
  <2>1. n \in 1..Len(list)
    BY <1>1
  <2>2. RemoveAt(list, n) \in Seq(Thing)
    BY <2>1, RemoveIs
  <2> QED BY <1>1, <2>2 DEF Drop
<1>2. CASE n \notin DOMAIN list
  BY <1>2 DEF Drop
<1> QED BY <1>1, <1>2

\* A view of which one cell is shown anew.
Painted(v, cell, list) == [v EXCEPT !.client[cell] = list]

\* Nothing but that cell is shown anew.
LEMMA Repainted ==
  ASSUME NEW v \in Views, NEW cell \in Square, NEW list \in Seq(Thing),
         NEW w, w = Painted(v, cell, list)
  PROVE  /\ w \in Views /\ w.known = v.known /\ w.flooded = v.flooded /\ w.behind = v.behind
         /\ w.client[cell] = list /\ \A d \in Square : d # cell => w.client[d] = v.client[d]
<1> DEFINE f == [v.client EXCEPT ![cell] = list]
<1>1. /\ v.client \in [Square -> Seq(Thing)] /\ v.known \in SUBSET Being /\ v.flooded \in BOOLEAN /\ v.behind \in SUBSET Square
      /\ v = [client |-> v.client, known |-> v.known, flooded |-> v.flooded, behind |-> v.behind]
  BY DEF Views
<1>2. f \in [Square -> Seq(Thing)] /\ f[cell] = list /\ \A d \in Square : d # cell => f[d] = v.client[d]
  BY <1>1
<1>3. w = [v EXCEPT !.client = f]
  BY DEF Painted
<1> HIDE DEF f
<1>4. w = [client |-> f, known |-> v.known, flooded |-> v.flooded, behind |-> v.behind]
  BY <1>1, <1>3
<1>5. w \in Views
  BY <1>1, <1>2, <1>4 DEF Views
<1> QED BY <1>2, <1>4, <1>5

\* Cells that are not touched stay as they are.
LEMMA Untouched ==
  ASSUME NEW v, NEW w, NEW c, NEW list, Fine(v, c, list),
         w.known = v.known, w.flooded = v.flooded, w.behind = v.behind, w.client[c] = v.client[c]
  PROVE  Fine(w, c, list)
BY DEF Fine

\* Those the player sees cannot be forgotten.
LEMMA NotAway ==
  ASSUME NEW p, Tidy(p), NEW veiled, NEW c \in Square, CanSee(p, c)
  PROVE  Elements(Description(p[c], veiled)) \cap Away(p, veiled) = {}
<1> SUFFICES ASSUME NEW x \in Elements(Description(p[c], veiled))  PROVE x \notin Away(p, veiled)
  OBVIOUS
<1>1. p[c] \in Tile
  BY DEF Tidy, Pile
<1>2. x \in Elements(Things(p[c])) /\ x \notin veiled
  BY <1>1, DescriptionIs
<1>3. Has(p, c, x)
  BY <1>2 DEF Has
<1>4. On(p, x) = {c} /\ Cell(p, x) = c
  BY <1>3, Located
<1>5. On(p, x) # {}
  BY <1>4
<1> QED BY <1>2, <1>4, <1>5 DEF Away

\* Nothing in sight gets wrong by what the client learns; and it knows whom it was told of.
LEMMA LearnedFine ==
  ASSUME NEW p, Tidy(p), NEW veiled, NEW v, NEW w, NEW S, Learned(v, w, S, Away(p, veiled)),
         NEW c \in Square, CanSee(p, c)
  PROVE  /\ Fine(v, c, Visible(p[c], veiled)) => Fine(w, c, Visible(p[c], veiled))
         /\ w.flooded \/ S \cap Elements(Description(p[c], veiled)) \subseteq w.known
         /\ /\ c \notin v.behind => v.client[c] = Description(p[c], veiled)
            /\ Elements(Description(p[c], veiled)) \cap Being \subseteq S
            => Fine(w, c, Visible(p[c], veiled))
<1> DEFINE d == Description(p[c], veiled)
           A == Away(p, veiled)
           E == Elements(d)
<1>1. w.client = v.client /\ w.behind = v.behind /\ (w.flooded \/ (~v.flooded /\ v.known \cup S \subseteq w.known \cup A))
  BY DEF Learned
<1>2. E \cap A = {}
  BY NotAway
<1>3. d = Cut(Visible(p[c], veiled))
  BY DEF Description
<1> HIDE DEF d, A, E
<1>4. Fine(v, c, Visible(p[c], veiled)) <=> (c \notin v.behind => v.client[c] = d /\ (v.flooded \/ E \cap Being \subseteq v.known))
  BY <1>3 DEF Fine, E
<1>5. Fine(w, c, Visible(p[c], veiled)) <=> (c \notin w.behind => w.client[c] = d /\ (w.flooded \/ E \cap Being \subseteq w.known))
  BY <1>3 DEF Fine, E
<1>6. Fine(v, c, Visible(p[c], veiled)) => Fine(w, c, Visible(p[c], veiled))
  BY <1>1, <1>2, <1>4, <1>5
<1>7. w.flooded \/ S \cap E \subseteq w.known
  BY <1>1, <1>2
<1>8. ASSUME c \notin v.behind => v.client[c] = d, E \cap Being \subseteq S  PROVE Fine(w, c, Visible(p[c], veiled))
  BY <1>1, <1>2, <1>5, <1>8
<1> QED BY <1>6, <1>7, <1>8 DEF d, E

\* Out of sight the client shows nothing.
Clear(p, v) == \A c \in Square : ~CanSee(p, c) => v.client[c] = <<>>

\* What is described is right, and the rest in sight as right as it was.
LEMMA DescribeFine ==
  ASSUME NEW p, Tidy(p), NEW veiled, NEW v \in Views, NEW cells \in SUBSET Square, NEW first,
         NEW but, AllFine(p, veiled, v, cells \cup but)
  PROVE  /\ Describe(p, veiled, v, cells, first) \in Views
         /\ AllFine(p, veiled, Describe(p, veiled, v, cells, first), but)
         /\ (\A c \in cells : CanSee(p, c)) => Clear(p, Describe(p, veiled, v, cells, first))
<1> DEFINE s == Shows(p, veiled, v, cells)
           w == Describe(p, veiled, v, cells, first)
           M == Met(p, veiled, cells)
<1>1. p \in Pile
  BY DEF Tidy
<1>2. /\ s \in Views /\ s.known = v.known /\ s.flooded = v.flooded
      /\ s.behind = {c \in v.behind \ cells : CanSee(p, c)}
      /\ \A c \in Square : s.client[c] =
              IF c \in cells THEN Description(p[c], veiled) ELSE IF CanSee(p, c) THEN v.client[c] ELSE <<>>
      /\ Learned(s, w, M, Away(p, veiled))
  BY <1>1, DescribeIs
<1> HIDE DEF s, w
<1>3. w \in Views /\ w.client = s.client
  BY <1>2 DEF Learned
<1>4. ASSUME NEW c \in Square, CanSee(p, c), c \in cells \/ c \notin but  PROVE Fine(w, c, Visible(p[c], veiled))
  <2>1. CASE c \in cells
    <3>1. s.client[c] = Description(p[c], veiled)
      BY <1>2, <2>1
    <3>2. Elements(Description(p[c], veiled)) \cap Being \subseteq M
      BY <2>1 DEF Met
    <3> HIDE DEF M
    <3> QED BY <1>2, <1>4, <3>1, <3>2, LearnedFine
  <2>2. CASE c \notin cells
    <3>1. Fine(v, c, Visible(p[c], veiled))
      BY <1>4, <2>2 DEF AllFine
    <3>2. s.client[c] = v.client[c] /\ (c \notin s.behind => c \notin v.behind)
      <4>1. v.behind \in SUBSET Square
        BY DEF Views
      <4> QED BY <1>2, <1>4, <2>2, <4>1
    <3>3. Fine(s, c, Visible(p[c], veiled))
      BY <1>2, <3>1, <3>2 DEF Fine
    <3> HIDE DEF M
    <3> QED BY <1>2, <1>4, <3>3, LearnedFine
  <2> QED BY <2>1, <2>2
<1>5. (\A c \in cells : CanSee(p, c)) => Clear(p, w)
  BY <1>2, <1>3 DEF Clear
<1>6. AllFine(p, veiled, w, but)
  BY <1>4 DEF AllFine
<1> QED BY <1>3, <1>5, <1>6 DEF w

\* A crowded tile is sent again.
LEMMA RepaintFine ==
  ASSUME NEW p, Tidy(p), NEW veiled, NEW v \in Views, NEW cell \in Square, NEW first,
         AllFine(p, veiled, v, {cell}), Clear(p, v),
         CanSee(p, cell) => Fine(v, cell, Visible(p[cell], veiled)) \/ Crowded(p[cell])
  PROVE  /\ Repaint(p, veiled, v, cell, first) \in Views
         /\ AllFine(p, veiled, Repaint(p, veiled, v, cell, first), {})
         /\ Clear(p, Repaint(p, veiled, v, cell, first))
<1> DEFINE w == Describe(p, veiled, v, {cell}, first)
           one == {cell}
           none == {}
<1>1. CASE Crowded(p[cell]) /\ CanSee(p, cell)
  <2>1. one \in SUBSET Square /\ \A c \in one : CanSee(p, c)
    BY <1>1
  <2>2. AllFine(p, veiled, v, one \cup none)
    <3>1. one \cup none = {cell}
      OBVIOUS
    <3> QED BY <3>1
  <2> HIDE DEF one, none
  <2>3. /\ Describe(p, veiled, v, one, first) \in Views /\ AllFine(p, veiled, Describe(p, veiled, v, one, first), none)
        /\ Clear(p, Describe(p, veiled, v, one, first))
    BY <2>1, <2>2, DescribeFine
  <2> QED BY <1>1, <2>3 DEF Repaint, one, none
<1>2. CASE ~(Crowded(p[cell]) /\ CanSee(p, cell))
  <2>1. Repaint(p, veiled, v, cell, first) = v
    BY <1>2 DEF Repaint
  <2>2. AllFine(p, veiled, v, {})
    BY <1>2 DEF AllFine
  <2> QED BY <2>1, <2>2
<1> QED BY <1>1, <1>2


\* Nothing is stripped that was not there.
LEMMA StrippedShorter ==
  ASSUME NEW out, NEW list \in Seq(Thing)
  PROVE  Len(Stripped(list, out)) <= Len(list)
<1> DEFINE N == Len(list)
           good(r, n) == r \in Seq(Thing) /\ Len(r) <= n
<1>1. PICK g : IsStripping(g, list, out)
  BY StrippingIs
<1>2. N \in Nat /\ \A k \in 1..N : list[k] \in Thing
  OBVIOUS
<1>3. good(g[0], 0)
  <2>1. g[0] = <<>>
    BY <1>1 DEF IsStripping
  <2> QED BY <2>1
<1>4. ASSUME NEW n \in 0..(N - 1), good(g[n], n)  PROVE good(g[n + 1], n + 1)
  <2> DEFINE r == g[n]
             x == list[n + 1]
  <2>1. g[n + 1] = Sieve(r, x, out)
    BY <1>1 DEF IsStripping
  <2>2. n \in Nat /\ n + 1 \in 1..N
    BY <1>2
  <2>3. x \in Thing
    BY <1>2, <2>2
  <2>4. r \in Seq(Thing) /\ Len(r) <= n
    BY <1>4
  <2> HIDE DEF r, x
  <2>5. Append(r, x) \in Seq(Thing) /\ Len(Append(r, x)) = Len(r) + 1 /\ Len(r) \in Nat
    BY <2>3, <2>4
  <2>6. good(r, n + 1) /\ good(Append(r, x), n + 1)
    BY <2>2, <2>4, <2>5
  <2> HIDE DEF good
  <2> QED BY <2>1, <2>6 DEF Sieve
<1>5. good(g[N], N)
  <2> DEFINE P == {n \in Nat : good(g[n], n)}
  <2> HIDE DEF good
  <2>1. 0 \in P
    BY <1>3
  <2>2. \A n \in 0..(N - 1) : n \in P => n + 1 \in P
    BY <1>2, <1>4
  <2>3. N \in 0..N
    BY <1>2
  <2> HIDE DEF P
  <2>4. \A n \in 0..N : n \in P
    BY <1>2, <2>1, <2>2, Upwards
  <2> QED BY <2>3, <2>4 DEF P
<1>6. Stripped(list, out) = g[N]
  BY <1>1 DEF IsStripping
<1> QED BY <1>5, <1>6

\* Where the client had no room for all, a tile is still crowded when one thing is gone.
LEMMA StillCrowded ==
  ASSUME NEW t \in Tile, NEW veiled, NEW n, NEW x, NEW more, Inserted(Visible(t, veiled), n, x, more), Len(more) > Shown
  PROVE  Crowded(t)
<1> DEFINE l == Things(t)
           v == Visible(t, veiled)
<1>1. Len(more) = Len(v) + 1 /\ Len(v) \in Nat
  BY InsertedIs
<1>2. l \in Seq(Thing)
  BY ThingsIs
<1>3. Len(v) <= Len(l) /\ Len(l) \in Nat
  <2> HIDE DEF l
  <2>1. Len(Stripped(l, veiled)) <= Len(l)
    BY <1>2, StrippedShorter
  <2> QED BY <1>2, <2>1 DEF Visible, l
<1> HIDE DEF v, l
<1>4. Shown \in Nat /\ Crowd \in Nat /\ Crowd < Shown
  BY ViewAssumption
<1>5. Len(l) > Crowd
  BY <1>1, <1>3, <1>4
<1> QED BY <1>5 DEF Crowded, l

\* What is right of a cell in sight; and what the server says of a place the client has no room for.
InSight(p, v, cell, list) == CanSee(p, cell) => Fine(v, cell, list)
Named(n, k) == n = k \/ (n = 0 /\ k > Shown)

\* One cell has lost a thing, the others are as before.
Removed(p, v, cell, list, more, n, w) ==
  /\ w \in Views /\ w.known = v.known /\ w.flooded = v.flooded /\ w.behind = v.behind
  /\ \A d \in Square : d # cell => w.client[d] = v.client[d]
  /\ ~CanSee(p, cell) => w = v
  /\ CanSee(p, cell) => Fine(w, cell, list) \/ (Len(more) > Shown /\ n # 0)

\* A thing is removed: what it had no room for the client does not show, and the tile is sent again.
LEMMA RemovedFine ==
  ASSUME NEW p, NEW v \in Views, NEW cell \in Square, NEW list, NEW k, NEW x, NEW more, Inserted(list, k, x, more),
         InSight(p, v, cell, more), NEW n, Named(n, k), NEW w, w = SendRemove(p, v, cell, n)
  PROVE  Removed(p, v, cell, list, more, n, w)
<1> DEFINE c == v.client[cell]
<1>1. /\ list \in Seq(Thing) /\ more \in Seq(Thing) /\ Len(list) \in Nat /\ Len(more) = Len(list) + 1
      /\ k \in 1..(Len(list) + 1) /\ Shown \in Nat
  BY InsertedIs, ViewAssumption
<1>2. c \in Seq(Thing)
  BY DEF Views
<1>0. (CanSee(p, cell) => Fine(v, cell, more)) /\ (n = k \/ (n = 0 /\ k > Shown))
  BY DEF InSight, Named
<1>3. CASE n = 0 \/ n > Shown \/ ~CanSee(p, cell)
  <2>1. w = v
    BY <1>3 DEF SendRemove
  <2>2. CanSee(p, cell) => k > Shown
    BY <1>0, <1>1, <1>3
  <2>3. k > Shown => Cut(list) = Cut(more)
    BY PutRight
  <2>4. CanSee(p, cell) => Fine(w, cell, list)
    BY <1>0, <2>1, <2>2, <2>3 DEF Fine
  <2> QED BY <2>1, <2>4 DEF Removed
<1>4. CASE ~(n = 0 \/ n > Shown \/ ~CanSee(p, cell))
  <2> DEFINE r == Drop(c, n)
  <2>1. n = k /\ ~(k > Shown) /\ k <= Shown
    BY <1>0, <1>1, <1>4
  <2>2. r \in Seq(Thing)
    <3> HIDE DEF c
    <3> QED BY <1>2, DropType
  <2>3. w = Painted(v, cell, r)
    BY <1>4 DEF SendRemove, Painted
  <2>4. Fine(v, cell, more)
    BY <1>0, <1>4
  <2> HIDE DEF r
  <2>5. /\ w \in Views /\ w.known = v.known /\ w.flooded = v.flooded /\ w.behind = v.behind
        /\ w.client[cell] = r /\ \A d \in Square : d # cell => w.client[d] = v.client[d]
    <3> HIDE DEF c
    <3>1. v \in Views /\ cell \in Square
      OBVIOUS
    <3> QED BY <2>2, <2>3, <3>1, Repainted
  <2>6. ASSUME Len(more) <= Shown  PROVE Fine(w, cell, list)
    <3>1. Drop(Cut(more), k) = Cut(list)
      BY <2>1, <2>6, DropRight
    <3>2. Elements(Cut(list)) \subseteq Elements(Cut(more))
      BY <2>6, ElementsInserted
    <3>3. cell \notin v.behind => c = Cut(more)
      BY <2>4 DEF Fine
    <3>4. cell \notin v.behind => r = Cut(list)
      BY <2>1, <3>1, <3>3 DEF r
    <3> QED BY <2>4, <2>5, <3>2, <3>4 DEF Fine
  <2>7. Fine(w, cell, list) \/ (Len(more) > Shown /\ n # 0)
    <3>1. Len(more) <= Shown \/ Len(more) > Shown
      BY <1>1
    <3> QED BY <1>4, <2>6, <3>1
  <2> QED BY <1>4, <2>5, <2>7 DEF Removed
<1> QED BY <1>3, <1>4

\* One cell has a creature more, the others are right as before.
Added(p, veiled, v, cell, w) ==
  /\ w \in Views /\ w.behind = v.behind
  /\ InSight(p, w, cell, Visible(p[cell], veiled))
  /\ \A d \in Square : d # cell /\ CanSee(p, d) /\ Fine(v, d, Visible(p[d], veiled)) => Fine(w, d, Visible(p[d], veiled))
  /\ \A d \in Square : d # cell \/ ~CanSee(p, cell) => w.client[d] = v.client[d]

\* A creature is added.
LEMMA AddedFine ==
  ASSUME NEW p, Tidy(p), NEW veiled, NEW v \in Views, NEW cell \in Square, NEW c \in Being, NEW first,
         NEW list, NEW k, Inserted(list, k, c, Visible(p[cell], veiled)),
         InSight(p, v, cell, list), NEW n, n = IF k > Shown THEN 0 ELSE k,
         NEW w, w = SendAdd(p, veiled, v, cell, n, c, first)
  PROVE  Added(p, veiled, v, cell, w)
<1> DEFINE more == Visible(p[cell], veiled)
           u == Learn(p, veiled, v, c, first)
           A == Away(p, veiled)
           r == Put(u.client[cell], n, c)
<1>1. /\ list \in Seq(Thing) /\ more \in Seq(Thing) /\ Len(list) \in Nat /\ Len(more) = Len(list) + 1
      /\ k \in 1..(Len(list) + 1) /\ Shown \in Nat
  BY InsertedIs, ViewAssumption
<1>0. CanSee(p, cell) => Fine(v, cell, list)
  BY DEF InSight
<1>2. k > Shown => Cut(list) = Cut(more)
  BY PutRight
<1>3. k <= Shown => Put(Cut(list), k, c) = Cut(more)
  BY PutRight
<1>4. k <= Shown => Elements(Cut(more)) \subseteq Elements(Cut(list)) \cup {c}
  BY ElementsInserted
<1>5. CASE n = 0 \/ ~CanSee(p, cell)
  <2>1. w = v
    BY <1>5 DEF SendAdd
  <2>2. CanSee(p, cell) => k > Shown
    BY <1>1, <1>5
  <2>3. CanSee(p, cell) => Fine(w, cell, more)
    BY <1>0, <1>2, <2>1, <2>2 DEF Fine
  <2> QED BY <2>1, <2>3 DEF Added, InSight
<1>6. CASE ~(n = 0 \/ ~CanSee(p, cell))
  <2>1. n = k /\ k <= Shown
    BY <1>1, <1>6
  <2>2. Learned(v, u, {c}, A)
    BY LearnIs
  <2>3. w = Painted(u, cell, r)
    BY <1>6 DEF SendAdd, Painted
  <2>4. /\ u \in Views /\ u.client = v.client /\ u.behind = v.behind
        /\ (u.flooded \/ (~v.flooded /\ v.known \cup {c} \subseteq u.known \cup A))
    BY <2>2 DEF Learned
  <2>5. r \in Seq(Thing)
    <3>1. u.client[cell] \in Seq(Thing)
      BY <2>4 DEF Views
    <3>2. n \in Nat \ {0} /\ c \in Thing
      BY <1>1, <2>1 DEF Thing
    <3> HIDE DEF u
    <3> QED BY <3>1, <3>2, PutType
  <2>6. Elements(Cut(more)) \cap A = {}
    <3>1. Elements(Description(p[cell], veiled)) \cap Away(p, veiled) = {}
      BY <1>6, NotAway
    <3> QED BY <3>1 DEF Description
  <2> HIDE DEF u, r, A, more
  <2>7. /\ w \in Views /\ w.known = u.known /\ w.flooded = u.flooded /\ w.behind = u.behind
        /\ w.client[cell] = r /\ \A d \in Square : d # cell => w.client[d] = u.client[d]
    BY <2>3, <2>4, <2>5, Repainted
  <2>8. Fine(w, cell, more)
    <3> SUFFICES ASSUME cell \notin v.behind
                 PROVE  w.client[cell] = Cut(more) /\ (w.flooded \/ Elements(Cut(more)) \cap Being \subseteq w.known)
      BY <2>4, <2>7 DEF Fine
    <3>1. v.client[cell] = Cut(list) /\ (v.flooded \/ Elements(Cut(list)) \cap Being \subseteq v.known)
      BY <1>0, <1>6 DEF Fine
    <3>2. r = Cut(more)
      BY <1>3, <2>1, <2>4, <3>1 DEF r
    <3>3. u.flooded \/ Elements(Cut(more)) \cap Being \subseteq u.known
      BY <1>4, <2>1, <2>4, <2>6, <3>1
    <3> QED BY <2>7, <3>2, <3>3
  <2>9. ASSUME NEW d \in Square, d # cell, CanSee(p, d), Fine(v, d, Visible(p[d], veiled))
        PROVE  Fine(w, d, Visible(p[d], veiled))
    <3> DEFINE one == {c}
               l == Visible(p[d], veiled)
    <3>1. Learned(v, u, one, Away(p, veiled))
      BY <2>2 DEF A
    <3> HIDE DEF one
    <3>2. Fine(v, d, Visible(p[d], veiled)) => Fine(u, d, Visible(p[d], veiled))
      BY <2>9, <3>1, LearnedFine
    <3>3. Fine(u, d, l)
      BY <2>9, <3>2
    <3>4. w.client[d] = u.client[d]
      BY <2>7, <2>9
    <3> HIDE DEF l
    <3>5. Fine(w, d, l)
      BY <2>7, <3>3, <3>4, Untouched
    <3> QED BY <3>5 DEF l
  <2> QED BY <1>6, <2>4, <2>7, <2>8, <2>9 DEF more, Added, InSight
<1> QED BY <1>5, <1>6

\* Put above those the client knows to be ground and top items, a creature lies where it does.
Atop(list, more, x) ==
  /\ Put(Cut(list), Among(Cut(list)), x) = Cut(more)
  /\ Elements(Cut(more)) \subseteq Elements(Cut(list)) \cup {x}

\* Only two cells are touched; the one has lost the creature, the other got it.
Stepped(v, from, to, lf, mf, lt, mt, w) ==
  /\ w \in Views
  /\ \A d \in Square \ {from, to} : w.client[d] = v.client[d] /\ \A list : Fine(v, d, list) => Fine(w, d, list)
  /\ Fine(w, from, lf) \/ Len(mf) > Shown
  /\ Fine(v, to, lt) => Fine(w, to, mt)

\* A creature moves from a place to the top of the creatures of another tile.
LEMMA SteppedFine ==
  ASSUME NEW v \in Views, NEW from \in Square, NEW to \in Square, from # to, NEW x \in Being,
         NEW lf, NEW n, NEW mf, Inserted(lf, n, x, mf), n <= Shown, Fine(v, from, mf),
         NEW lt, NEW mt, Atop(lt, mt, x), NEW w, w = SendStep(v, from, n, to)
  PROVE  Stepped(v, from, to, lf, mf, lt, mt, w)
<1> DEFINE a == Drop(v.client[from], n)
           y == v.client[from][n]
           b == Put(v.client[to], Among(v.client[to]), y)
           f == [v.client EXCEPT ![from] = a, ![to] = b]
           g == IF n \in DOMAIN v.client[from] THEN f ELSE v.client
           h == IF from \in v.behind THEN v.behind \cup {to} ELSE v.behind
<1>0. Put(Cut(lt), Among(Cut(lt)), x) = Cut(mt) /\ Elements(Cut(mt)) \subseteq Elements(Cut(lt)) \cup {x}
  BY DEF Atop
<1>1. /\ v.client \in [Square -> Seq(Thing)] /\ v.known \in SUBSET Being /\ v.flooded \in BOOLEAN /\ v.behind \in SUBSET Square
      /\ v = [client |-> v.client, known |-> v.known, flooded |-> v.flooded, behind |-> v.behind]
  BY DEF Views
<1>2. a \in Seq(Thing)
  <2>1. v.client[from] \in Seq(Thing)
    BY <1>1
  <2> QED BY <2>1, DropType
<1>3. n \in DOMAIN v.client[from] => b \in Seq(Thing)
  <2> SUFFICES ASSUME n \in DOMAIN v.client[from]  PROVE b \in Seq(Thing)
    OBVIOUS
  <2> DEFINE c == v.client[to]
             e == v.client[from]
             T == {k \in DOMAIN c : c[k] \in GroundItem \cup TopItem}
  <2>1. e \in Seq(Thing) /\ c \in Seq(Thing) /\ n \in DOMAIN e
    BY <1>1
  <2> HIDE DEF e, c
  <2>2. e[n] \in Thing
    BY <2>1
  <2>3. IsFiniteSet(DOMAIN c)
    <3>1. DOMAIN c = 1..Len(c) /\ Len(c) \in Int
      BY <2>1
    <3>2. 1 \in Int
      OBVIOUS
    <3>3. IsFiniteSet(1..Len(c))
      BY <3>1, <3>2, FS_Interval
    <3> QED BY <3>1, <3>3
  <2>4. T \in SUBSET (DOMAIN c)
    OBVIOUS
  <2> HIDE DEF T
  <2>5. IsFiniteSet(T)
    BY <2>3, <2>4, FS_Subset
  <2>6. Cardinality(T) \in Nat
    BY <2>5, FS_CardinalityType
  <2>7. Among(c) \in Nat \ {0}
    <3>1. Among(c) = 1 + Cardinality(T)
      BY DEF Among, T
    <3> QED BY <2>6, <3>1
  <2>8. Put(c, Among(c), e[n]) \in Seq(Thing)
    BY <2>1, <2>2, <2>7, PutType
  <2> QED BY <2>8 DEF c, e
<1>4. w = [client |-> g, known |-> v.known, flooded |-> v.flooded, behind |-> h]
  <2>1. f = Carried(v.client, from, n, to)
    BY DEF Carried
  <2>2. w = [v EXCEPT !.client = g, !.behind = h]
    BY <2>1 DEF SendStep
  <2> HIDE DEF g, h
  <2> QED BY <1>1, <2>2
<1> HIDE DEF a, y, b
<1>5. g \in [Square -> Seq(Thing)]
  <2>1. n \in DOMAIN v.client[from] => f \in [Square -> Seq(Thing)]
    BY <1>1, <1>2, <1>3
  <2> HIDE DEF f
  <2> QED BY <1>1, <2>1
<1>6. h \in SUBSET Square /\ v.behind \subseteq h /\ (to \in h \/ from \notin v.behind) /\ h \subseteq v.behind \cup {to}
  BY <1>1
<1>7. /\ n \in DOMAIN v.client[from] => g[from] = a /\ g[to] = b
      /\ \A d \in Square \ {from, to} : g[d] = v.client[d]
  BY <1>1
<1> HIDE DEF f, g, h
<1>8. w \in Views /\ w.client = g /\ w.known = v.known /\ w.flooded = v.flooded /\ w.behind = h
  BY <1>1, <1>4, <1>5, <1>6 DEF Views
<1>9. ASSUME NEW d \in Square \ {from, to}, NEW list, Fine(v, d, list)  PROVE Fine(w, d, list)
  BY <1>6, <1>7, <1>8, <1>9 DEF Fine
<1>12. \A d \in Square \ {from, to} : w.client[d] = v.client[d]
  BY <1>7, <1>8
<1>13. \A d \in Square \ {from, to} : \A list : Fine(v, d, list) => Fine(w, d, list)
  BY <1>9
<1>10. CASE from \in v.behind
  <2>1. from \in w.behind /\ to \in w.behind
    BY <1>6, <1>8, <1>10
  <2>2. Fine(w, from, lf) /\ Fine(w, to, mt)
    BY <2>1 DEF Fine
  <2> QED BY <1>8, <1>12, <1>13, <2>2 DEF Stepped
<1>11. CASE from \notin v.behind
  <2>1. v.client[from] = Cut(mf) /\ (v.flooded \/ Elements(Cut(mf)) \cap Being \subseteq v.known)
    BY <1>11 DEF Fine
  <2>2. n \in DOMAIN Cut(mf) /\ Cut(mf)[n] = x
    BY DropRight
  <2>3. y = x /\ n \in DOMAIN v.client[from]
    BY <2>1, <2>2 DEF y
  <2>4. v.flooded \/ x \in v.known
    BY <2>1, <2>2 DEF Elements
  <2>5. ASSUME Len(mf) <= Shown  PROVE Fine(w, from, lf)
    <3>1. Drop(Cut(mf), n) = Cut(lf)
      BY <2>5, DropRight
    <3>2. Elements(Cut(lf)) \subseteq Elements(Cut(mf))
      BY <2>5, ElementsInserted
    <3>3. w.client[from] = Cut(lf)
      BY <1>7, <1>8, <2>1, <2>3, <3>1 DEF a
    <3> QED BY <1>8, <2>1, <3>2, <3>3 DEF Fine
  <2>6. Fine(w, from, lf) \/ Len(mf) > Shown
    <3>1. Len(mf) \in Nat /\ Shown \in Nat
      <4>1. mf \in Seq(Thing)
        BY InsertedIs
      <4> QED BY <4>1, ViewAssumption
    <3>2. Len(mf) <= Shown \/ Len(mf) > Shown
      BY <3>1
    <3> QED BY <2>5, <3>2
  <2>7. ASSUME Fine(v, to, lt)  PROVE Fine(w, to, mt)
    <3> SUFFICES ASSUME to \notin v.behind
                 PROVE  w.client[to] = Cut(mt) /\ (w.flooded \/ Elements(Cut(mt)) \cap Being \subseteq w.known)
      BY <1>6, <1>8 DEF Fine
    <3>1. v.client[to] = Cut(lt) /\ (v.flooded \/ Elements(Cut(lt)) \cap Being \subseteq v.known)
      BY <2>7 DEF Fine
    <3>2. w.client[to] = Cut(mt)
      BY <1>0, <1>7, <1>8, <2>3, <3>1 DEF b
    <3> QED BY <1>0, <1>8, <2>4, <3>1, <3>2
  <2> QED BY <1>8, <1>12, <1>13, <2>6, <2>7 DEF Stepped
<1> QED BY <1>10, <1>11

\* A creature that is put on a tile lies right above the ground and the top items.
LEMMA SeenAbove ==
  ASSUME NEW t \in Tile, NEW x \in Being, x \notin Elements(Things(t)), NEW veiled, veiled \subseteq Other, x \notin veiled
  PROVE  /\ Inserted(Visible(t, veiled), Len(t.ground \o t.top) + 1, x, Visible(PutOn(t, x), veiled))
         /\ \A k \in 1..Len(Visible(t, veiled)) :
              Visible(t, veiled)[k] \in GroundItem \cup TopItem <=> k <= Len(t.ground \o t.top)
         /\ Len(t.ground \o t.top) \in Nat /\ Len(t.ground \o t.top) <= Len(Visible(t, veiled))
<1> DEFINE g == t.ground
           o == t.top
           c == t.creatures
           d == t.down
           A == g \o o
           B == c \o d
           l == Things(t)
           u == Things(PutOn(t, x))
<1>1. /\ g \in Seq(GroundItem) /\ o \in Seq(TopItem) /\ c \in Seq(Being) /\ d \in Seq(DownItem)
      /\ g \in Seq(Thing) /\ o \in Seq(Thing) /\ c \in Seq(Thing) /\ d \in Seq(Thing)
      /\ A \in Seq(Thing) /\ B \in Seq(Thing) /\ l = A \o B /\ l \in Seq(Thing)
  BY ThingsIs
<1>2. Being \cap Item = {} /\ (GroundItem \cup TopItem) \cap DownItem = {} /\ Item \cap veiled = {} /\ GroundItem \cup TopItem \subseteq Item
  BY ViewAssumption DEF Being, Item
<1>3. /\ Inserted(l, Len(A) + 1, x, u)
  <2>1. x \in Thing /\ x \notin GroundItem /\ x \notin TopItem /\ x \notin DownItem
    BY <1>2 DEF Thing, Item
  <2>2. Above(t, x) = A
    BY <2>1 DEF Above
  <2>3. Inserted(Things(t), Len(Above(t, x)) + 1, x, Things(PutOn(t, x)))
    BY <2>1, PutOnIs
  <2> QED BY <2>2, <2>3
<1> HIDE DEF l, u
<1>4. PICK a, b : Around(u, x, a, b) /\ l = a \o b /\ Len(A) + 1 = Len(a) + 1
  BY <1>3 DEF Inserted
<1>5. a \in Seq(Thing) /\ b \in Seq(Thing)
  BY <1>4 DEF Around
<1> DEFINE la == Len(A)
<1>6. /\ la \in Nat /\ Len(a) = la /\ DOMAIN a = 1..la /\ Len(B) \in Nat
  <2> HIDE DEF A, B
  <2> QED BY <1>1, <1>4, <1>5
<1>7. \A k \in 1..la : A[k] \in GroundItem \cup TopItem
  <2> HIDE DEF g, o
  <2>1. /\ Len(A) = Len(g) + Len(o) /\ Len(g) \in Nat /\ Len(o) \in Nat
        /\ \A k \in 1..(Len(g) + Len(o)) : A[k] = IF k <= Len(g) THEN g[k] ELSE o[k - Len(g)]
    BY <1>1, PairIs
  <2>2. \A k \in 1..Len(g) : g[k] \in GroundItem
    BY <1>1
  <2>3. \A k \in 1..Len(o) : o[k] \in TopItem
    BY <1>1
  <2> SUFFICES ASSUME NEW k \in 1..la  PROVE A[k] \in GroundItem \cup TopItem
    OBVIOUS
  <2>4. CASE k <= Len(g)
    <3>1. k \in 1..Len(g) /\ A[k] = g[k]
      BY <2>1, <2>4
    <3> QED BY <2>2, <3>1
  <2>5. CASE ~(k <= Len(g))
    <3>1. k - Len(g) \in 1..Len(o) /\ A[k] = o[k - Len(g)]
      BY <2>1, <2>5
    <3> QED BY <2>3, <3>1
  <2> QED BY <2>4, <2>5
<1>8. \A k \in DOMAIN B : B[k] \in Being \cup DownItem
  <2> HIDE DEF c, d
  <2>1. /\ Len(B) = Len(c) + Len(d) /\ Len(c) \in Nat /\ Len(d) \in Nat
        /\ \A k \in 1..(Len(c) + Len(d)) : B[k] = IF k <= Len(c) THEN c[k] ELSE d[k - Len(c)]
    BY <1>1, PairIs
  <2>2. \A k \in 1..Len(c) : c[k] \in Being
    BY <1>1
  <2>3. \A k \in 1..Len(d) : d[k] \in DownItem
    BY <1>1
  <2>0. DOMAIN B = 1..(Len(c) + Len(d))
    BY <1>1, <2>1
  <2> SUFFICES ASSUME NEW k \in 1..(Len(c) + Len(d))  PROVE B[k] \in Being \cup DownItem
    BY <2>0
  <2>4. CASE k <= Len(c)
    <3>1. k \in 1..Len(c) /\ B[k] = c[k]
      BY <2>1, <2>4
    <3> QED BY <2>2, <3>1
  <2>5. CASE ~(k <= Len(c))
    <3>1. k - Len(c) \in 1..Len(d) /\ B[k] = d[k - Len(c)]
      BY <2>1, <2>5
    <3> QED BY <2>3, <3>1
  <2> QED BY <2>4, <2>5
<1> HIDE DEF A, B
<1>9. \A k \in 1..la : l[k] = A[k] /\ l[k] = a[k]
  <2>1. /\ Len(A) \in Nat /\ Len(B) \in Nat
        /\ \A k \in 1..(Len(A) + Len(B)) : (A \o B)[k] = IF k <= Len(A) THEN A[k] ELSE B[k - Len(A)]
    BY <1>1, PairIs
  <2>2. /\ Len(a) \in Nat /\ Len(b) \in Nat
        /\ \A k \in 1..(Len(a) + Len(b)) : (a \o b)[k] = IF k <= Len(a) THEN a[k] ELSE b[k - Len(a)]
    BY <1>5, PairIs
  <2> SUFFICES ASSUME NEW k \in 1..la  PROVE l[k] = A[k] /\ l[k] = a[k]
    OBVIOUS
  <2>3. k <= Len(A) /\ k \in 1..(Len(A) + Len(B))
    BY <2>1
  <2>4. k <= Len(a) /\ k \in 1..(Len(a) + Len(b))
    BY <1>6, <2>2
  <2>5. (A \o B)[k] = A[k]
    BY <2>1, <2>3
  <2>6. (a \o b)[k] = a[k]
    BY <2>2, <2>4
  <2> QED BY <1>1, <1>4, <2>5, <2>6
<1>10. Stripped(a, veiled) = a
  <2>1. \A k \in DOMAIN a : a[k] \notin veiled
    BY <1>2, <1>6, <1>7, <1>9
  <2> QED BY <1>5, <2>1, StrippedSame
<1>11. Stripped(A, veiled) = A
  <2>1. \A k \in DOMAIN A : A[k] \notin veiled
    <3>1. DOMAIN A = 1..la
      BY <1>1
    <3> QED BY <1>2, <1>7, <3>1
  <2> QED BY <1>1, <2>1, StrippedSame
<1>12. Around(Stripped(u, veiled), x, Stripped(a, veiled), Stripped(b, veiled))
  BY <1>4, StrippedAround
<1>13. Stripped(l, veiled) = Stripped(a, veiled) \o Stripped(b, veiled)
  BY <1>4, <1>5, StrippedConcat
<1>14. Inserted(Stripped(l, veiled), Len(Stripped(a, veiled)) + 1, x, Stripped(u, veiled))
  BY <1>12, <1>13 DEF Inserted
<1>15. Inserted(Stripped(l, veiled), la + 1, x, Stripped(u, veiled))
  BY <1>6, <1>10, <1>14
<1> DEFINE S == Stripped(B, veiled)
           V == Stripped(l, veiled)
<1>16. V = A \o S
  <2>1. Stripped(A \o B, veiled) = Stripped(A, veiled) \o Stripped(B, veiled)
    BY <1>1, StrippedConcat
  <2> QED BY <1>1, <1>11, <2>1
<1>17. S \in Seq(Thing) /\ \A k \in DOMAIN S : \E j \in DOMAIN B : B[j] = S[k]
  BY <1>1, StrippedIs
<1> HIDE DEF S, V
<1>18. \A k \in DOMAIN S : S[k] \notin GroundItem \cup TopItem
  BY <1>2, <1>8, <1>17 DEF Item
<1>19. /\ Len(V) = la + Len(S) /\ Len(S) \in Nat
       /\ \A k \in 1..(la + Len(S)) : V[k] = IF k <= la THEN A[k] ELSE S[k - la]
  BY <1>1, <1>16, <1>17, PairIs
<1> HIDE DEF la
<1>20. ASSUME NEW k \in 1..Len(V)  PROVE V[k] \in GroundItem \cup TopItem <=> k <= la
  <2>1. CASE k <= la
    <3>1. k \in 1..la /\ V[k] = A[k]
      BY <1>6, <1>19, <2>1
    <3> QED BY <1>7, <2>1, <3>1
  <2>2. CASE ~(k <= la)
    <3>1. k - la \in 1..Len(S) /\ V[k] = S[k - la]
      BY <1>6, <1>19, <2>2
    <3>2. k - la \in DOMAIN S
      BY <1>17, <3>1
    <3> QED BY <1>18, <2>2, <3>1, <3>2
  <2> QED BY <2>1, <2>2
<1>21. la <= Len(V)
  BY <1>6, <1>19
<1> QED BY <1>6, <1>15, <1>20, <1>21 DEF V, Visible, l, u, la, A, g, o

\* So it is where it comes to.
LEMMA AmongRight ==
  ASSUME NEW t \in Tile, NEW x \in Being, x \notin Elements(Things(t)), NEW veiled, veiled \subseteq Other, x \notin veiled,
         NEW list, list = Visible(t, veiled), NEW more, more = Visible(PutOn(t, x), veiled)
  PROVE  Atop(list, more, x)
<1> DEFINE la == Len(t.ground \o t.top)
           c == Cut(list)
           T == {k \in DOMAIN c : c[k] \in GroundItem \cup TopItem}
           m == IF la > Shown THEN Shown ELSE la
<1>1. /\ Inserted(list, la + 1, x, more) /\ la \in Nat /\ la <= Len(list)
      /\ \A k \in 1..Len(list) : list[k] \in GroundItem \cup TopItem <=> k <= la
  BY SeenAbove
<1>2. list \in Seq(Thing) /\ x \in Thing
  BY <1>1, InsertedIs
<1>3. /\ c \in Seq(Thing) /\ Len(c) = (IF Len(list) > Shown THEN Shown ELSE Len(list))
      /\ Len(list) \in Nat /\ Shown \in Nat
      /\ \A k \in 1..Len(c) : c[k] = list[k]
  BY <1>2, CutIs
<1> HIDE DEF la, c
<1>4. m \in Nat /\ m <= Len(c)
  BY <1>1, <1>3
<1>5. T = 1..m
  <2>1. DOMAIN c = 1..Len(c)
    BY <1>3
  <2>2. ASSUME NEW k \in 1..Len(c)  PROVE c[k] \in GroundItem \cup TopItem <=> k \in 1..m
    <3>1. k \in 1..Len(list) /\ c[k] = list[k]
      BY <1>3
    <3>2. k \in 1..m <=> k <= la
      BY <1>1, <1>3
    <3> QED BY <1>1, <3>1, <3>2
  <2>3. 1..m \subseteq 1..Len(c)
    BY <1>3, <1>4
  <2> QED BY <2>1, <2>2, <2>3
<1>6. Among(c) = m + 1
  <2> HIDE DEF m
  <2>1. Cardinality(1..m) = m
    <3>1. 1 \in Int /\ m \in Int
      BY <1>4
    <3>2. Cardinality(1..m) = IF 1 > m THEN 0 ELSE m - 1 + 1
      BY <3>1, FS_Interval
    <3> QED BY <1>4, <3>2
  <2>2. Among(c) = 1 + Cardinality(T)
    BY DEF Among
  <2>3. Among(c) = 1 + Cardinality(1..m)
    BY <1>5, <2>2
  <2> QED BY <1>4, <2>1, <2>3
<1>7. CASE la + 1 <= Shown
  <2>1. m + 1 = la + 1
    BY <1>1, <1>3, <1>7
  <2>2. Put(Cut(list), la + 1, x) = Cut(more)
    BY <1>1, <1>7, PutRight
  <2>3. Elements(Cut(more)) \subseteq Elements(Cut(list)) \cup {x}
    BY <1>1, <1>7, ElementsInserted
  <2> QED BY <1>6, <2>1, <2>2, <2>3 DEF c, Atop
<1>8. CASE la + 1 > Shown
  <2>1. m = Shown /\ Len(c) = Shown
    BY <1>1, <1>3, <1>8
  <2>2. Cut(list) = Cut(more)
    BY <1>1, <1>8, PutRight
  <2>3. m + 1 \in Nat /\ m + 1 > Shown
    BY <1>3, <2>1
  <2>4. Put(c, m + 1, x) = c
    BY <1>2, <1>3, <2>1, <2>3, PutBeyond
  <2> QED BY <1>6, <2>2, <2>4 DEF c, Atop
<1>9. la + 1 <= Shown \/ la + 1 > Shown
  BY <1>1, <1>3
<1> QED BY <1>7, <1>8, <1>9

-----------------------------------------------------------------------------
(* A step of the tiles, and what the player sees of it.                    *)

\* A thing that is not hidden is put on a tile.
LEMMA SeenPut ==
  ASSUME NEW p, Tidy(p), NEW cell \in Square, NEW x \in Thing, \A c \in Square : ~Has(p, c, x),
         NEW q, q = PutAt(p, cell, x), NEW veiled
  PROVE  /\ x \notin veiled =>
              Inserted(Visible(p[cell], veiled), ClientIndex(q[cell], veiled, x), x, Visible(q[cell], veiled))
         /\ x \in veiled => Visible(p[cell], veiled) = Visible(q[cell], veiled)
<1> DEFINE list == Things(p[cell])
           more == Things(q[cell])
           n == Len(Above(p[cell], x)) + 1
<1>1. Inserted(list, n, x, more)
  BY TidyPut
<1> HIDE DEF list, more, n
<1>2. ASSUME x \notin veiled
      PROVE  Inserted(Stripped(list, veiled), PlaceOf(Stripped(more, veiled \ {x}), x), x, Stripped(more, veiled))
  BY <1>1, <1>2, SeenInserted
<1>3. ASSUME x \in veiled  PROVE Alike(list, more, veiled)
  BY <1>1, <1>3, UnseenInserted
<1> QED BY <1>2, <1>3 DEF Alike, Visible, ClientIndex, list, more

\* A thing is taken off its tile.
LEMMA SeenTaken ==
  ASSUME NEW p, Tidy(p), NEW cell \in Square, NEW x, Has(p, cell, x),
         NEW q, q = TakenAt(p, cell, x), NEW veiled
  PROVE  /\ x \notin veiled =>
              Inserted(Visible(q[cell], veiled), ClientIndex(p[cell], veiled, x), x, Visible(p[cell], veiled))
         /\ x \in veiled => Visible(q[cell], veiled) = Visible(p[cell], veiled)
<1> DEFINE list == Things(q[cell])
           more == Things(p[cell])
<1>1. PICK n : Inserted(list, n, x, more)
  BY TidyTaken
<1> HIDE DEF list, more
<1>2. ASSUME x \notin veiled
      PROVE  Inserted(Stripped(list, veiled), PlaceOf(Stripped(more, veiled \ {x}), x), x, Stripped(more, veiled))
  BY <1>1, <1>2, SeenInserted
<1>3. ASSUME x \in veiled  PROVE Alike(list, more, veiled)
  BY <1>1, <1>3, UnseenInserted
<1> QED BY <1>2, <1>3 DEF Alike, Visible, ClientIndex, list, more

\* A thing becomes visible, or invisible.
Veils(full, veiled, less, x) == full = veiled \cup {x} /\ less = veiled \ {x}

\* The tile that has it is seen with the thing put in, or without; others are seen alike.
LEMMA SeenVeiled ==
  ASSUME NEW p, Tidy(p), NEW cell \in Square, NEW x, Has(p, cell, x), NEW veiled,
         NEW full, NEW less, Veils(full, veiled, less, x)
  PROVE  /\ Inserted(Visible(p[cell], full), ClientIndex(p[cell], veiled, x), x, Visible(p[cell], less))
         /\ \A d \in Square : d # cell => Visible(p[d], full) = Visible(p[d], less)
<1> DEFINE q == TakenAt(p, cell, x)
           list == Things(q[cell])
           more == Things(p[cell])
<1>0. full = veiled \cup {x} /\ less = veiled \ {x}
  BY DEF Veils
<1>1. PICK n : Inserted(list, n, x, more)
  BY TidyTaken
<1> HIDE DEF q, list, more
<1>2. Inserted(Stripped(more, veiled \cup {x}), PlaceOf(Stripped(more, veiled \ {x}), x),
               x, Stripped(more, veiled \ {x}))
  BY <1>1, SeenInserted
<1>3. ASSUME NEW d \in Square, d # cell  PROVE Visible(p[d], veiled \cup {x}) = Visible(p[d], veiled \ {x})
  <2> DEFINE l == Things(p[d])
  <2>1. l \in Seq(Thing)
    <3>1. p[d] \in Tile
      BY DEF Tidy, Pile
    <3> QED BY <3>1, ThingsIs
  <2>2. x \notin Elements(l)
    BY <1>3 DEF Tidy, Has
  <2> HIDE DEF l
  <2>3. Stripped(l, veiled \cup {x}) = Stripped(l, veiled \ {x})
    BY <2>1, <2>2, StrippedAlike
  <2> QED BY <2>3 DEF l, Visible
<1> QED BY <1>0, <1>2, <1>3 DEF Visible, ClientIndex, more

-----------------------------------------------------------------------------
(* The client in step, action by action.                                   *)

\* The tiles are what tiles can be, and the client shows what there is to be seen of them.
Right(p, veiled, v) == World(p, veiled) /\ v \in Views /\ AllFine(p, veiled, v, {}) /\ Clear(p, v)

\* What is right of all cells is right of each.
LEMMA RightOf ==
  ASSUME NEW p, NEW veiled, NEW v, Right(p, veiled, v)
  PROVE  /\ Tidy(p) /\ veiled \subseteq Other /\ v \in Views
         /\ \A c \in Square : CanSee(p, c) => Fine(v, c, Visible(p[c], veiled))
         /\ \A c \in Square : ~CanSee(p, c) => v.client[c] = <<>>
BY DEF Right, World, AllFine, Clear

\* And the other way round.
LEMMA RightIs ==
  ASSUME NEW p, NEW veiled, NEW v \in Views, World(p, veiled),
         \A c \in Square : CanSee(p, c) => Fine(v, c, Visible(p[c], veiled)),
         \A c \in Square : ~CanSee(p, c) => v.client[c] = <<>>
  PROVE  Right(p, veiled, v)
BY DEF Right, AllFine, Clear

\* As long as the player stays, he sees as far.
LEMMA SameSightBy ==
  ASSUME NEW p, NEW q, NEW veiled, World(p, veiled), Tidy(q), \A d \in Square : Has(p, d, Me) => Has(q, d, Me)
  PROVE  \A d : CanSee(p, d) <=> CanSee(q, d)
<1>1. PICK c \in Square : Has(p, c, Me)
  BY DEF World
<1>2. Tidy(p) /\ Has(q, c, Me)
  BY <1>1 DEF World
<1> QED BY <1>1, <1>2, SameSight

\* A new thing that is not hidden.
LEMMA WorldPut ==
  ASSUME NEW p, NEW veiled, World(p, veiled), NEW cell \in Square, NEW x \in Thing, \A c \in Square : ~Has(p, c, x),
         NEW q, q = PutAt(p, cell, x)
  PROVE  /\ World(q, veiled) /\ x \notin veiled /\ \A d : CanSee(p, d) <=> CanSee(q, d)
         /\ \A d \in Square : d # cell => Visible(q[d], veiled) = Visible(p[d], veiled)
<1>1. Tidy(p)
  BY DEF World
<1>2. /\ Tidy(q) /\ \A d \in Square : d # cell => q[d] = p[d]
      /\ \A d \in Square : \A y : Has(q, d, y) <=> Has(p, d, y) \/ (d = cell /\ y = x)
  BY <1>1, TidyPut
<1>3. World(q, veiled) /\ x \notin veiled
  BY <1>2 DEF World
<1>4. \A d : CanSee(p, d) <=> CanSee(q, d)
  BY <1>2, SameSightBy
<1> QED BY <1>2, <1>3, <1>4

\* AddItem
LEMMA AddItemRight ==
  ASSUME NEW p, NEW veiled, NEW v, Right(p, veiled, v), NEW i \in Item, NEW cell \in Square, On(p, i) = {},
         NEW q, q = PutAt(p, cell, i), NEW n, n = Stackpos(q[cell], veiled, i),
         NEW w, w = IF n = 0 \/ ~CanSee(q, cell) THEN v ELSE Painted(v, cell, Put(v.client[cell], n, i))
  PROVE  Right(q, veiled, w)
<1> DEFINE list == Visible(p[cell], veiled)
           more == Visible(q[cell], veiled)
           k == ClientIndex(q[cell], veiled, i)
           r == Put(v.client[cell], n, i)
<1>1. World(p, veiled) /\ Tidy(p) /\ i \in Thing /\ i \notin Being
  BY ViewAssumption DEF Right, World, Thing, Item, Being
<1>2. \A c \in Square : ~Has(p, c, i)
  BY <1>1, Located
<1>3. /\ World(q, veiled) /\ i \notin veiled /\ \A d : CanSee(p, d) <=> CanSee(q, d)
      /\ \A d \in Square : d # cell => Visible(q[d], veiled) = Visible(p[d], veiled)
  BY <1>1, <1>2, WorldPut
<1>4. Inserted(list, k, i, more)
  BY <1>1, <1>2, <1>3, SeenPut
<1>5. n = IF k > Shown THEN 0 ELSE k
  BY DEF Stackpos
<1> HIDE DEF list, more, k
<1>6. list \in Seq(Thing) /\ k \in 1..(Len(list) + 1) /\ Len(list) \in Nat /\ Shown \in Nat
  BY <1>4, InsertedIs, ViewAssumption
<1>7. /\ v \in Views /\ \A c \in Square : CanSee(p, c) => Fine(v, c, Visible(p[c], veiled))
      /\ \A c \in Square : ~CanSee(p, c) => v.client[c] = <<>>
  BY RightOf
<1>8. CASE n = 0 \/ ~CanSee(q, cell)
  <2>1. w = v
    BY <1>8
  <2>2. CanSee(q, cell) => Cut(list) = Cut(more)
    <3>1. CanSee(q, cell) => k > Shown
      BY <1>5, <1>6, <1>8
    <3> QED BY <1>4, <3>1, PutRight
  <2>3. CanSee(q, cell) => Fine(v, cell, more)
    BY <1>3, <1>7, <2>2 DEF Fine, list
  <2>4. ASSUME NEW d \in Square, CanSee(q, d)  PROVE Fine(v, d, Visible(q[d], veiled))
    <3>1. CASE d = cell
      BY <2>3, <2>4, <3>1 DEF more
    <3>2. CASE d # cell
      BY <1>3, <1>7, <2>4, <3>2
    <3> QED BY <3>1, <3>2
  <2>5. \A c \in Square : ~CanSee(q, c) => v.client[c] = <<>>
    BY <1>3, <1>7
  <2> QED BY <1>3, <1>7, <2>1, <2>4, <2>5, RightIs
<1>9. CASE ~(n = 0 \/ ~CanSee(q, cell))
  <2>1. n = k /\ k <= Shown /\ k \in Nat \ {0}
    BY <1>5, <1>6, <1>9
  <2>2. r \in Seq(Thing)
    <3>1. v.client[cell] \in Seq(Thing)
      BY <1>7 DEF Views
    <3> QED BY <1>1, <2>1, <3>1, PutType
  <2>3. w = Painted(v, cell, r)
    BY <1>9
  <2> HIDE DEF r
  <2>4. /\ w \in Views /\ w.known = v.known /\ w.flooded = v.flooded /\ w.behind = v.behind
        /\ w.client[cell] = r /\ \A d \in Square : d # cell => w.client[d] = v.client[d]
    BY <1>7, <2>2, <2>3, Repainted
  <2>5. Put(Cut(list), k, i) = Cut(more) /\ Elements(Cut(more)) \subseteq Elements(Cut(list)) \cup {i}
    BY <1>4, <2>1, PutRight, ElementsInserted
  <2>6. Fine(w, cell, more)
    <3> SUFFICES ASSUME cell \notin v.behind
                 PROVE  w.client[cell] = Cut(more) /\ (w.flooded \/ Elements(Cut(more)) \cap Being \subseteq w.known)
      BY <2>4 DEF Fine
    <3>1. v.client[cell] = Cut(list) /\ (v.flooded \/ Elements(Cut(list)) \cap Being \subseteq v.known)
      BY <1>3, <1>7, <1>9 DEF Fine, list
    <3> QED BY <1>1, <2>1, <2>4, <2>5, <3>1 DEF r
  <2>7. ASSUME NEW d \in Square, CanSee(q, d)  PROVE Fine(w, d, Visible(q[d], veiled))
    <3>1. CASE d = cell
      BY <2>6, <3>1 DEF more
    <3>2. CASE d # cell
      <4>1. Fine(v, d, Visible(q[d], veiled)) /\ w.client[d] = v.client[d]
        BY <1>3, <1>7, <2>4, <2>7, <3>2
      <4> QED BY <2>4, <4>1, Untouched
    <3> QED BY <3>1, <3>2
  <2>8. \A c \in Square : ~CanSee(q, c) => w.client[c] = <<>>
    BY <1>3, <1>7, <1>9, <2>4
  <2> QED BY <1>3, <2>4, <2>7, <2>8, RightIs
<1> QED BY <1>8, <1>9

\* A list of which one thing is replaced.
Anew(list, n, i) == [list EXCEPT ![n] = i]

\* UpdateItem
LEMMA UpdateItemRight ==
  ASSUME NEW p, NEW veiled, NEW v, Right(p, veiled, v), NEW i \in Item, On(p, i) # {},
         NEW cell, cell = Cell(p, i), NEW n, n = Stackpos(p[cell], veiled, i),
         NEW w, w = IF n \notin DOMAIN v.client[cell] \/ ~CanSee(p, cell) THEN v
                    ELSE Painted(v, cell, Anew(v.client[cell], n, i))
  PROVE  Right(p, veiled, w)
<1> DEFINE c == v.client[cell]
           r == Anew(c, n, i)
           q == TakenAt(p, cell, i)
           list == Visible(q[cell], veiled)
           more == Visible(p[cell], veiled)
           k == ClientIndex(p[cell], veiled, i)
<1>1. World(p, veiled) /\ Tidy(p) /\ i \in Thing /\ i \notin veiled
  BY ViewAssumption DEF Right, World, Thing, Item
<1>2. cell \in Square /\ Has(p, cell, i)
  BY <1>1, Located
<1>3. /\ v \in Views /\ \A d \in Square : CanSee(p, d) => Fine(v, d, Visible(p[d], veiled))
      /\ \A d \in Square : ~CanSee(p, d) => v.client[d] = <<>>
  BY RightOf
<1>4. CASE n \notin DOMAIN v.client[cell] \/ ~CanSee(p, cell)
  <2>1. w = v
    BY <1>4
  <2> QED BY <2>1
<1>5. CASE ~(n \notin DOMAIN v.client[cell] \/ ~CanSee(p, cell))
  <2>1. w = Painted(v, cell, r)
    BY <1>5
  <2>2. c \in Seq(Thing) /\ n \in DOMAIN c
    BY <1>2, <1>3, <1>5 DEF Views
  <2>3. Inserted(list, k, i, more)
    <3> HIDE DEF q
    <3>1. q = TakenAt(p, cell, i)
      BY DEF q
    <3> QED BY <1>1, <1>2, <3>1, SeenTaken
  <2>4. n = IF k > Shown THEN 0 ELSE k
    BY DEF Stackpos
  <2>5. k \in Nat /\ Shown \in Nat
    <3>1. k \in 1..(Len(list) + 1)
      BY <2>3, InsertedIs
    <3> QED BY <3>1, ViewAssumption
  <2>6. n = k /\ k <= Shown
    <3>1. n # 0
      <4> HIDE DEF c
      <4> QED BY <2>2
    <3> QED BY <2>4, <2>5, <3>1
  <2>7. Cut(more)[k] = i
    BY <2>3, <2>6, DropRight
  <2> HIDE DEF c, k
  <2>8. r \in Seq(Thing)
    BY <1>1, <2>2 DEF Anew
  <2>9. c[n] = i => r = c
    BY <2>2 DEF Anew
  <2> HIDE DEF r, q, list, more
  <2>10. /\ w \in Views /\ w.known = v.known /\ w.flooded = v.flooded /\ w.behind = v.behind
         /\ w.client[cell] = r /\ \A d \in Square : d # cell => w.client[d] = v.client[d]
    BY <1>2, <1>3, <2>1, <2>8, Repainted
  <2>11. Fine(w, cell, more)
    <3>1. Fine(v, cell, more)
      BY <1>2, <1>3, <1>5 DEF more
    <3>2. cell \notin v.behind => r = c /\ c = Cut(more)
      BY <2>6, <2>7, <2>9, <3>1 DEF Fine, c
    <3> HIDE DEF more
    <3> QED BY <2>10, <3>1, <3>2 DEF Fine
  <2>12. ASSUME NEW d \in Square, CanSee(p, d)  PROVE Fine(w, d, Visible(p[d], veiled))
    <3>1. CASE d = cell
      BY <2>11, <3>1 DEF more
    <3>2. CASE d # cell
      <4>1. Fine(v, d, Visible(p[d], veiled)) /\ w.client[d] = v.client[d]
        BY <1>3, <2>10, <2>12, <3>2
      <4> QED BY <2>10, <4>1, Untouched
    <3> QED BY <3>1, <3>2
  <2>13. \A d \in Square : ~CanSee(p, d) => w.client[d] = <<>>
    BY <1>3, <1>5, <2>10
  <2> QED BY <1>1, <2>10, <2>12, <2>13, RightIs
<1> QED BY <1>4, <1>5

\* Of a thing that is nowhere it does not matter whether it is hidden.
LEMMA Uncovered ==
  ASSUME NEW q, Tidy(q), NEW x, \A c \in Square : ~Has(q, c, x), NEW veiled, NEW d \in Square,
         NEW less, less = veiled \ {x}
  PROVE  Visible(q[d], veiled) = Visible(q[d], less)
<1> DEFINE l == Things(q[d])
<1>1. l \in Seq(Thing)
  <2>1. q[d] \in Tile
    BY DEF Tidy, Pile
  <2> QED BY <2>1, ThingsIs
<1>2. x \notin Elements(l)
  BY DEF Has
<1> HIDE DEF l
<1>3. Stripped(l, veiled \cup {x}) = Stripped(l, veiled \ {x})
  BY <1>1, <1>2, StrippedAlike
<1>4. x \in veiled => veiled \cup {x} = veiled
  OBVIOUS
<1>5. x \notin veiled => veiled \ {x} = veiled
  OBVIOUS
<1>6. Stripped(l, veiled) = Stripped(l, veiled \ {x})
  BY <1>3, <1>4, <1>5
<1> QED BY <1>6 DEF l, Visible

\* One that is taken off its tile.
LEMMA WorldTaken ==
  ASSUME NEW p, NEW veiled, World(p, veiled), NEW cell \in Square, NEW x, x # Me, Has(p, cell, x),
         NEW q, q = TakenAt(p, cell, x), NEW less, less = veiled \ {x}
  PROVE  /\ World(q, less) /\ \A d : CanSee(p, d) <=> CanSee(q, d)
         /\ \A d \in Square : d # cell => q[d] = p[d]
         /\ \A d \in Square : Visible(q[d], veiled) = Visible(q[d], less)
<1>1. Tidy(p)
  BY DEF World
<1>2. /\ Tidy(q) /\ \A d \in Square : d # cell => q[d] = p[d]
      /\ \A d \in Square : \A y : Has(q, d, y) <=> Has(p, d, y) /\ y # x
  BY <1>1, TidyTaken
<1>3. World(q, less)
  BY <1>2 DEF World
<1>4. \A d : CanSee(p, d) <=> CanSee(q, d)
  BY <1>2, SameSightBy
<1>5. \A c \in Square : ~Has(q, c, x)
  BY <1>2
<1>6. \A d \in Square : Visible(q[d], veiled) = Visible(q[d], less)
  BY <1>2, <1>5, Uncovered
<1> QED BY <1>2, <1>3, <1>4, <1>6

\* RemoveThing
LEMMA RemoveThingRight ==
  ASSUME NEW p, NEW veiled, NEW v, Right(p, veiled, v), NEW x, x # Me, On(p, x) # {},
         NEW cell, cell = Cell(p, x), NEW n, n = IF x \in veiled THEN 0 ELSE Stackpos(p[cell], veiled, x),
         NEW q, q = TakenAt(p, cell, x), NEW first, NEW less, less = veiled \ {x},
         NEW w, w = Repaint(q, veiled, SendRemove(q, v, cell, n), cell, first)
  PROVE  Right(q, less, w)
<1> DEFINE list == Visible(q[cell], veiled)
           more == Visible(p[cell], veiled)
           k == ClientIndex(p[cell], veiled, x)
           u == SendRemove(q, v, cell, n)
<1>1. World(p, veiled) /\ Tidy(p)
  BY DEF Right, World
<1>2. cell \in Square /\ Has(p, cell, x)
  BY <1>1, Located
<1>3. /\ v \in Views /\ \A d \in Square : CanSee(p, d) => Fine(v, d, Visible(p[d], veiled))
      /\ \A d \in Square : ~CanSee(p, d) => v.client[d] = <<>>
  BY RightOf
<1>4. /\ World(q, less) /\ \A d : CanSee(p, d) <=> CanSee(q, d)
      /\ \A d \in Square : d # cell => q[d] = p[d]
      /\ \A d \in Square : Visible(q[d], veiled) = Visible(q[d], less)
  BY <1>1, <1>2, WorldTaken
<1>5. Tidy(q) /\ q[cell] \in Tile
  BY <1>2, <1>4 DEF World, Tidy, Pile
<1>6. /\ x \notin veiled => Inserted(list, k, x, more)
      /\ x \in veiled => list = more
  BY <1>1, <1>2, SeenTaken
<1>7. x \notin veiled => n = IF k > Shown THEN 0 ELSE k
  BY DEF Stackpos
<1> HIDE DEF list, more, k, u
<1>8. /\ u \in Views /\ u.known = v.known /\ u.flooded = v.flooded /\ u.behind = v.behind
      /\ \A d \in Square : d # cell => u.client[d] = v.client[d]
      /\ ~CanSee(q, cell) => u = v
      /\ CanSee(q, cell) => Fine(u, cell, list) \/ Crowded(q[cell])
  <2>1. CASE x \notin veiled
    <3>1. Named(n, k)
      BY <1>7, <2>1 DEF Named
    <3>2. Inserted(list, k, x, more)
      BY <1>6, <2>1
    <3>3. InSight(q, v, cell, more)
      BY <1>2, <1>3, <1>4 DEF more, InSight
    <3>4. u = SendRemove(q, v, cell, n)
      BY DEF u
    <3>5. Removed(q, v, cell, list, more, n, u)
      BY <1>2, <1>3, <3>1, <3>2, <3>3, <3>4, RemovedFine
    <3>6. ASSUME Len(more) > Shown  PROVE Crowded(q[cell])
      <4>1. Inserted(Visible(q[cell], veiled), k, x, more)
        BY <3>2 DEF list
      <4> QED BY <1>5, <3>6, <4>1, StillCrowded
    <3> QED BY <3>5, <3>6 DEF Removed
  <2>2. CASE x \in veiled
    <3>1. u = v
      BY <2>2 DEF u, SendRemove
    <3>2. list = more
      BY <1>6, <2>2
    <3>3. CanSee(q, cell) => Fine(v, cell, more)
      BY <1>2, <1>3, <1>4 DEF more
    <3> QED BY <1>3, <3>1, <3>2, <3>3
  <2> QED BY <2>1, <2>2
<1>9. AllFine(q, veiled, u, {cell})
  <2> SUFFICES ASSUME NEW d \in Square, d # cell, CanSee(q, d)  PROVE Fine(u, d, Visible(q[d], veiled))
    BY DEF AllFine
  <2>1. Fine(v, d, Visible(q[d], veiled)) /\ u.client[d] = v.client[d]
    BY <1>3, <1>4, <1>8
  <2> QED BY <1>8, <2>1, Untouched
<1>10. Clear(q, u)
  BY <1>3, <1>4, <1>8 DEF Clear
<1>11. CanSee(q, cell) => Fine(u, cell, Visible(q[cell], veiled)) \/ Crowded(q[cell])
  BY <1>8 DEF list
<1>12. w = Repaint(q, veiled, u, cell, first)
  BY DEF u
<1>13. w \in Views /\ AllFine(q, veiled, w, {}) /\ Clear(q, w)
  BY <1>2, <1>5, <1>8, <1>9, <1>10, <1>11, <1>12, RepaintFine
<1>14. AllFine(q, less, w, {})
  BY <1>4, <1>13 DEF AllFine
<1> QED BY <1>4, <1>13, <1>14 DEF Right

\* PlaceCreature
LEMMA PlaceCreatureRight ==
  ASSUME NEW p, NEW veiled, NEW v, Right(p, veiled, v), NEW c \in Being, NEW cell \in Square, On(p, c) = {},
         NEW q, q = PutAt(p, cell, c), NEW n, n = Stackpos(q[cell], veiled, c), NEW first,
         NEW w, w = SendAdd(q, veiled, v, cell, n, c, first)
  PROVE  Right(q, veiled, w)
<1> DEFINE list == Visible(p[cell], veiled)
           k == ClientIndex(q[cell], veiled, c)
<1>1. World(p, veiled) /\ Tidy(p) /\ c \in Thing
  BY DEF Right, World, Thing
<1>2. \A d \in Square : ~Has(p, d, c)
  BY <1>1, Located
<1>3. /\ World(q, veiled) /\ c \notin veiled /\ \A d : CanSee(p, d) <=> CanSee(q, d)
      /\ \A d \in Square : d # cell => Visible(q[d], veiled) = Visible(p[d], veiled)
  BY <1>1, <1>2, WorldPut
<1>4. Inserted(list, k, c, Visible(q[cell], veiled))
  BY <1>1, <1>2, <1>3, SeenPut
<1>5. n = IF k > Shown THEN 0 ELSE k
  BY DEF Stackpos
<1> HIDE DEF list, k
<1>6. /\ v \in Views /\ \A d \in Square : CanSee(p, d) => Fine(v, d, Visible(p[d], veiled))
      /\ \A d \in Square : ~CanSee(p, d) => v.client[d] = <<>>
  BY RightOf
<1>7. Tidy(q)
  BY <1>3 DEF World
<1>8. InSight(q, v, cell, list)
  BY <1>3, <1>6 DEF list, InSight
<1>9. Added(q, veiled, v, cell, w)
  BY <1>4, <1>5, <1>6, <1>7, <1>8, AddedFine
<1>10. \A d \in Square : CanSee(q, d) => Fine(w, d, Visible(q[d], veiled))
  BY <1>3, <1>6, <1>9 DEF Added, InSight
<1>11. \A d \in Square : ~CanSee(q, d) => w.client[d] = <<>>
  BY <1>3, <1>6, <1>9 DEF Added
<1>12. w \in Views
  BY <1>9 DEF Added
<1> QED BY <1>3, <1>10, <1>11, <1>12, RightIs

\* What is said of a cell that the client shows wrongly.
Lagging(v, cell) == [v EXCEPT !.behind = v.behind \cup {cell}]

\* It makes nothing else of the view wrong.
LEMMA LaggingIs ==
  ASSUME NEW v \in Views, NEW cell \in Square, NEW w, w = Lagging(v, cell)
  PROVE  /\ w \in Views /\ w.client = v.client
         /\ \A d \in Square : \A list : Fine(v, d, list) \/ d = cell => Fine(w, d, list)
<1>1. /\ v.client \in [Square -> Seq(Thing)] /\ v.known \in SUBSET Being /\ v.flooded \in BOOLEAN /\ v.behind \in SUBSET Square
      /\ v = [client |-> v.client, known |-> v.known, flooded |-> v.flooded, behind |-> v.behind]
  BY DEF Views
<1>2. w = [client |-> v.client, known |-> v.known, flooded |-> v.flooded, behind |-> v.behind \cup {cell}]
  BY <1>1 DEF Lagging
<1>3. w \in Views
  BY <1>1, <1>2 DEF Views
<1>4. w.client = v.client /\ w.known = v.known /\ w.flooded = v.flooded /\ w.behind = v.behind \cup {cell}
  BY <1>2
<1>5. ASSUME NEW d \in Square, NEW list, Fine(v, d, list) \/ d = cell  PROVE Fine(w, d, list)
  BY <1>4, <1>5 DEF Fine
<1> QED BY <1>3, <1>4, <1>5

\* ChangeVisible, of a creature that hides.
LEMMA HideRight ==
  ASSUME NEW p, NEW veiled, NEW v, Right(p, veiled, v), NEW c \in Other, c \notin veiled, On(p, c) # {},
         NEW cell, cell = Cell(p, c), NEW n, n = Stackpos(p[cell], veiled, c), NEW more, Veils(more, veiled, veiled, c),
         NEW short, short = (CanSee(p, cell) /\ Len(Visible(p[cell], more)) >= Shown /\ n # 0),
         NEW u, u = SendRemove(p, v, cell, n), NEW w, w = IF short THEN Lagging(u, cell) ELSE u
  PROVE  Right(p, more, w)
<1> DEFINE list == Visible(p[cell], more)
           all == Visible(p[cell], veiled)
           k == ClientIndex(p[cell], veiled, c)
<1>1. World(p, veiled) /\ Tidy(p)
  BY DEF Right, World
<1>2. cell \in Square /\ Has(p, cell, c)
  BY <1>1, Located
<1>3. /\ v \in Views /\ \A d \in Square : CanSee(p, d) => Fine(v, d, Visible(p[d], veiled))
      /\ \A d \in Square : ~CanSee(p, d) => v.client[d] = <<>>
  BY RightOf
<1>4. World(p, more)
  BY <1>1, <1>2 DEF World, Veils
<1>6. /\ Inserted(list, k, c, all)
      /\ \A d \in Square : d # cell => Visible(p[d], more) = Visible(p[d], veiled)
  BY <1>1, <1>2, SeenVeiled
<1>7. Named(n, k)
  BY DEF Stackpos, Named
<1> HIDE DEF list, all, k
<1>8. InSight(p, v, cell, all)
  BY <1>2, <1>3 DEF all, InSight
<1>15. Removed(p, v, cell, list, all, n, u)
  BY <1>2, <1>3, <1>6, <1>7, <1>8, RemovedFine
<1>9. /\ u \in Views /\ u.known = v.known /\ u.flooded = v.flooded /\ u.behind = v.behind
      /\ \A d \in Square : d # cell => u.client[d] = v.client[d]
      /\ ~CanSee(p, cell) => u = v
      /\ CanSee(p, cell) => Fine(u, cell, list) \/ (Len(all) > Shown /\ n # 0)
  BY <1>15 DEF Removed
<1>10. Len(all) > Shown => Len(list) >= Shown
  <2>1. Len(all) = Len(list) + 1 /\ Len(list) \in Nat
    BY <1>6, InsertedIs
  <2>2. Shown \in Nat
    BY ViewAssumption
  <2> QED BY <2>1, <2>2
<1>11. CanSee(p, cell) => Fine(u, cell, list) \/ short
  BY <1>9, <1>10 DEF list
<1>12. /\ w \in Views /\ w.client = u.client
       /\ \A d \in Square : \A l : Fine(u, d, l) \/ (d = cell /\ short) => Fine(w, d, l)
  <2>1. CASE short
    <3>1. w = Lagging(u, cell)
      BY <2>1
    <3> QED BY <1>2, <1>9, <2>1, <3>1, LaggingIs
  <2>2. CASE ~short
    <3>1. w = u
      BY <2>2
    <3> QED BY <1>9, <2>2, <3>1
  <2> QED BY <2>1, <2>2
<1>13. ASSUME NEW d \in Square, CanSee(p, d)  PROVE Fine(w, d, Visible(p[d], more))
  <2>1. CASE d = cell
    BY <1>11, <1>12, <1>13, <2>1 DEF list
  <2>2. CASE d # cell
    <3>1. Fine(v, d, Visible(p[d], more)) /\ u.client[d] = v.client[d]
      BY <1>3, <1>6, <1>9, <1>13, <2>2
    <3>2. Fine(u, d, Visible(p[d], more))
      BY <1>9, <3>1, Untouched
    <3> QED BY <1>12, <3>2
  <2> QED BY <2>1, <2>2
<1>14. \A d \in Square : ~CanSee(p, d) => w.client[d] = <<>>
  BY <1>3, <1>9, <1>12
<1> QED BY <1>4, <1>12, <1>13, <1>14, RightIs

\* ChangeVisible, of a creature that appears.
LEMMA AppearRight ==
  ASSUME NEW p, NEW veiled, NEW v, Right(p, veiled, v), NEW c \in Other, c \in veiled, On(p, c) # {},
         NEW cell, cell = Cell(p, c), NEW n, n = Stackpos(p[cell], veiled, c), NEW less, less = veiled \ {c},
         NEW first, NEW w, w = SendAdd(p, less, v, cell, n, c, first)
  PROVE  Right(p, less, w)
<1> DEFINE list == Visible(p[cell], veiled)
           k == ClientIndex(p[cell], veiled, c)
<1>1. World(p, veiled) /\ Tidy(p) /\ c \in Being
  BY DEF Right, World, Being
<1>2. cell \in Square /\ Has(p, cell, c)
  BY <1>1, Located
<1>3. /\ v \in Views /\ \A d \in Square : CanSee(p, d) => Fine(v, d, Visible(p[d], veiled))
      /\ \A d \in Square : ~CanSee(p, d) => v.client[d] = <<>>
  BY RightOf
<1>4. World(p, less)
  BY <1>1 DEF World
<1>5. Veils(veiled, veiled, less, c)
  BY DEF Veils
<1>6. /\ Inserted(list, k, c, Visible(p[cell], less))
      /\ \A d \in Square : d # cell => Visible(p[d], veiled) = Visible(p[d], less)
  BY <1>1, <1>2, <1>5, SeenVeiled
<1>7. n = IF k > Shown THEN 0 ELSE k
  BY DEF Stackpos
<1>8. InSight(p, v, cell, list)
  BY <1>2, <1>3 DEF InSight
<1> HIDE DEF list, k
<1>9. Added(p, less, v, cell, w)
  BY <1>1, <1>2, <1>3, <1>6, <1>7, <1>8, AddedFine
<1>10. \A d \in Square : CanSee(p, d) => Fine(w, d, Visible(p[d], less))
  BY <1>3, <1>6, <1>9 DEF Added, InSight
<1>11. \A d \in Square : ~CanSee(p, d) => w.client[d] = <<>>
  BY <1>3, <1>9 DEF Added
<1>12. w \in Views
  BY <1>9 DEF Added
<1> QED BY <1>4, <1>10, <1>11, <1>12, RightIs

\* A creature is taken from one tile and put on another.
MovedAt(p, c, from, to) == PutAt(TakenAt(p, from, c), to, c)

\* What is different then.
Moves(p, veiled, c, from, to, s) ==
  /\ World(s, veiled) /\ Tidy(s) /\ s[from] \in Tile
  /\ \A d \in Square \ {from, to} : Visible(s[d], veiled) = Visible(p[d], veiled)
  /\ c # Me => \A d : CanSee(p, d) <=> CanSee(s, d)

\* What the player sees of the two tiles, of a creature he sees and of one he does not.
Leaves(p, veiled, c, from, s) ==
  Inserted(Visible(s[from], veiled), ClientIndex(p[from], veiled, c), c, Visible(p[from], veiled))
Arrives(p, veiled, c, to, s) ==
  /\ Inserted(Visible(p[to], veiled), ClientIndex(s[to], veiled, c), c, Visible(s[to], veiled))
  /\ Atop(Visible(p[to], veiled), Visible(s[to], veiled), c)
Unseen(p, veiled, from, to, s) ==
  Visible(s[from], veiled) = Visible(p[from], veiled) /\ Visible(s[to], veiled) = Visible(p[to], veiled)

\* A creature that moves leaves one tile and arrives on the other; if hidden, unseen.
LEMMA MovedIs ==
  ASSUME NEW p, NEW veiled, World(p, veiled), NEW c \in Being, NEW from \in Square, NEW to \in Square, from # to,
         Has(p, from, c), NEW s, s = MovedAt(p, c, from, to)
  PROVE  /\ Moves(p, veiled, c, from, to, s)
         /\ c \notin veiled => Leaves(p, veiled, c, from, s) /\ Arrives(p, veiled, c, to, s)
         /\ c \in veiled => Unseen(p, veiled, from, to, s)
<1> DEFINE q == TakenAt(p, from, c)
<1>1. Tidy(p) /\ veiled \subseteq Other /\ c \in Thing
  BY DEF World, Thing
<1>2. /\ Tidy(q) /\ \A d \in Square : d # from => q[d] = p[d]
      /\ \A d \in Square : \A y : Has(q, d, y) <=> Has(p, d, y) /\ y # c
  BY <1>1, TidyTaken
<1>3. s = PutAt(q, to, c)
  BY DEF MovedAt
<1> HIDE DEF q
<1>4. \A d \in Square : ~Has(q, d, c)
  BY <1>2
<1>5. /\ Tidy(s) /\ s[to] = PutOn(q[to], c) /\ \A d \in Square : d # to => s[d] = q[d]
      /\ \A d \in Square : \A y : Has(s, d, y) <=> Has(q, d, y) \/ (d = to /\ y = c)
  BY <1>1, <1>2, <1>3, <1>4, TidyPut
<1>6. World(s, veiled)
  <2>1. \A y : (\E d \in Square : Has(p, d, y)) => \E d \in Square : Has(s, d, y)
    BY <1>2, <1>5
  <2> QED BY <1>1, <1>5, <2>1 DEF World
<1>7. c # Me => \A d : CanSee(p, d) <=> CanSee(s, d)
  <2> SUFFICES ASSUME c # Me  PROVE \A d : CanSee(p, d) <=> CanSee(s, d)
    OBVIOUS
  <2>1. \A d \in Square : Has(p, d, Me) => Has(s, d, Me)
    BY <1>2, <1>5
  <2> QED BY <1>5, <2>1, SameSightBy
<1>8. q[to] = p[to] /\ s[from] = q[from] /\ q[to] \in Tile /\ s[from] \in Tile /\ s[to] = PutOn(p[to], c)
  BY <1>2, <1>5 DEF Tidy, Pile
<1>9. Moves(p, veiled, c, from, to, s)
  <2>1. \A d \in Square \ {from, to} : Visible(s[d], veiled) = Visible(p[d], veiled)
    BY <1>2, <1>5
  <2> QED BY <1>5, <1>6, <1>7, <1>8, <2>1 DEF Moves
<1>10. q = TakenAt(p, from, c)
  BY DEF q
<1>11. ASSUME c \notin veiled  PROVE Leaves(p, veiled, c, from, s) /\ Arrives(p, veiled, c, to, s)
  <2>1. Inserted(Visible(q[from], veiled), ClientIndex(p[from], veiled, c), c, Visible(p[from], veiled))
    BY <1>1, <1>10, <1>11, SeenTaken
  <2>2. Inserted(Visible(q[to], veiled), ClientIndex(s[to], veiled, c), c, Visible(s[to], veiled))
    BY <1>1, <1>2, <1>3, <1>4, <1>11, SeenPut
  <2> DEFINE list == Visible(p[to], veiled)
             more == Visible(s[to], veiled)
  <2>3. list = Visible(p[to], veiled) /\ more = Visible(PutOn(p[to], c), veiled)
    BY <1>8
  <2>4. p[to] \in Tile /\ c \notin Elements(Things(p[to]))
    <3>1. ~Has(q, to, c)
      BY <1>4
    <3> QED BY <1>8, <3>1 DEF Has
  <2> HIDE DEF list, more
  <2>5. Atop(list, more, c)
    BY <1>1, <1>11, <2>3, <2>4, AmongRight
  <2> QED BY <1>8, <2>1, <2>2, <2>5 DEF Leaves, Arrives, list, more
<1>12. ASSUME c \in veiled  PROVE Unseen(p, veiled, from, to, s)
  <2>1. Visible(q[from], veiled) = Visible(p[from], veiled)
    BY <1>1, <1>10, <1>12, SeenTaken
  <2>2. Visible(q[to], veiled) = Visible(s[to], veiled)
    BY <1>1, <1>2, <1>3, <1>4, <1>12, SeenPut
  <2> QED BY <1>8, <2>1, <2>2 DEF Unseen
<1> QED BY <1>9, <1>11, <1>12

\* All is right but perhaps the tile that was left.
Nearly(s, veiled, m, from) ==
  /\ m \in Views /\ AllFine(s, veiled, m, {from}) /\ Clear(s, m)
  /\ CanSee(s, from) => Fine(m, from, Visible(s[from], veiled)) \/ Crowded(s[from])

\* Where the tile that was left is not shown right it is crowded, and sent again.
LEMMA NearlyRight ==
  ASSUME NEW s, NEW veiled, World(s, veiled), NEW m, NEW from \in Square, Nearly(s, veiled, m, from), NEW first,
         NEW w, w = Repaint(s, veiled, m, from, first)
  PROVE  Right(s, veiled, w)
<1>1. Tidy(s)
  BY DEF World
<1>2. /\ m \in Views /\ AllFine(s, veiled, m, {from}) /\ Clear(s, m)
      /\ CanSee(s, from) => Fine(m, from, Visible(s[from], veiled)) \/ Crowded(s[from])
  BY DEF Nearly
<1>3. w \in Views /\ AllFine(s, veiled, w, {}) /\ Clear(s, w)
  BY <1>1, <1>2, RepaintFine
<1> QED BY <1>3 DEF Right

\* Nearly right is what is right cell by cell, but for the tile that was left.
LEMMA NearlyIs ==
  ASSUME NEW s, NEW veiled, NEW m \in Views, NEW from \in Square,
         \A d \in Square \ {from} : CanSee(s, d) => Fine(m, d, Visible(s[d], veiled)),
         \A d \in Square : ~CanSee(s, d) => m.client[d] = <<>>,
         CanSee(s, from) => Fine(m, from, Visible(s[from], veiled)) \/ Crowded(s[from])
  PROVE  Nearly(s, veiled, m, from)
BY DEF Nearly, AllFine, Clear

\* The tile that was left is sent again where the client had no room for all.
LEMMA LeftCrowded ==
  ASSUME NEW p, NEW veiled, NEW c, NEW from, NEW s, s[from] \in Tile, Leaves(p, veiled, c, from, s),
         Len(Visible(p[from], veiled)) > Shown
  PROVE  Crowded(s[from])
<1> DEFINE t == s[from]
           n == ClientIndex(p[from], veiled, c)
           more == Visible(p[from], veiled)
<1>1. t \in Tile /\ Inserted(Visible(t, veiled), n, c, more) /\ Len(more) > Shown
  BY DEF Leaves
<1> HIDE DEF t, n, more
<1>2. Crowded(t)
  BY <1>1, StillCrowded
<1> QED BY <1>2 DEF t

\* A hidden creature moves.
LEMMA HiddenMoves ==
  ASSUME NEW p, NEW veiled, NEW v, Right(p, veiled, v), NEW c, c # Me, NEW from \in Square, NEW to \in Square,
         NEW s, Moves(p, veiled, c, from, to, s), Unseen(p, veiled, from, to, s)
  PROVE  Nearly(s, veiled, v, from)
<1>1. /\ v \in Views /\ \A d \in Square : CanSee(p, d) => Fine(v, d, Visible(p[d], veiled))
      /\ \A d \in Square : ~CanSee(p, d) => v.client[d] = <<>>
  BY RightOf
<1>2. \A d : CanSee(p, d) <=> CanSee(s, d)
  BY DEF Moves
<1>3. ASSUME NEW d \in Square  PROVE Visible(s[d], veiled) = Visible(p[d], veiled)
  BY DEF Moves, Unseen
<1>4. \A d \in Square : CanSee(s, d) => Fine(v, d, Visible(s[d], veiled))
  BY <1>1, <1>2, <1>3
<1>5. \A d \in Square : ~CanSee(s, d) => v.client[d] = <<>>
  BY <1>1, <1>2
<1> QED BY <1>1, <1>4, <1>5, NearlyIs

\* Another creature moves in sight: one message.
LEMMA OtherSteps ==
  ASSUME NEW p, NEW veiled, NEW v, Right(p, veiled, v), NEW c \in Being, c # Me, NEW from \in Square, NEW to \in Square,
         from # to, NEW s, Moves(p, veiled, c, from, to, s), Leaves(p, veiled, c, from, s), Arrives(p, veiled, c, to, s),
         NEW old, old = ClientIndex(p[from], veiled, c), old <= Shown, CanSee(s, from), CanSee(s, to),
         NEW m, m = SendStep(v, from, old, to)
  PROVE  Nearly(s, veiled, m, from)
<1> DEFINE lf == Visible(s[from], veiled)
           mf == Visible(p[from], veiled)
           lt == Visible(p[to], veiled)
           mt == Visible(s[to], veiled)
<1>1. /\ v \in Views /\ \A d \in Square : CanSee(p, d) => Fine(v, d, Visible(p[d], veiled))
      /\ \A d \in Square : ~CanSee(p, d) => v.client[d] = <<>>
  BY RightOf
<1>2. /\ \A d : CanSee(p, d) <=> CanSee(s, d)
      /\ \A d \in Square \ {from, to} : Visible(s[d], veiled) = Visible(p[d], veiled)
      /\ s[from] \in Tile
  BY DEF Moves
<1>3. Inserted(lf, old, c, mf) /\ Atop(lt, mt, c)
  BY DEF Leaves, Arrives
<1>4. Fine(v, from, mf) /\ Fine(v, to, lt)
  BY <1>1, <1>2
<1> HIDE DEF lf, mf, lt, mt
<1>5. Stepped(v, from, to, lf, mf, lt, mt, m)
  BY <1>1, <1>3, <1>4, SteppedFine
<1>6. /\ m \in Views
      /\ \A d \in Square \ {from, to} : m.client[d] = v.client[d] /\ \A list : Fine(v, d, list) => Fine(m, d, list)
      /\ Fine(m, from, lf) \/ Len(mf) > Shown
      /\ Fine(m, to, mt)
  BY <1>4, <1>5 DEF Stepped
<1>7. \A d \in Square \ {from} : CanSee(s, d) => Fine(m, d, Visible(s[d], veiled))
  <2> SUFFICES ASSUME NEW d \in Square \ {from}, CanSee(s, d)  PROVE Fine(m, d, Visible(s[d], veiled))
    OBVIOUS
  <2>1. CASE d = to
    BY <1>6, <2>1 DEF mt
  <2>2. CASE d # to
    <3>1. Fine(v, d, Visible(s[d], veiled))
      BY <1>1, <1>2, <2>2
    <3> QED BY <1>6, <2>2, <3>1
  <2> QED BY <2>1, <2>2
<1>8. \A d \in Square : ~CanSee(s, d) => m.client[d] = <<>>
  BY <1>1, <1>2, <1>6
<1>9. Fine(m, from, Visible(s[from], veiled)) \/ Crowded(s[from])
  <2>1. ASSUME Len(mf) > Shown  PROVE Crowded(s[from])
    <3>1. Len(Visible(p[from], veiled)) > Shown
      BY <2>1 DEF mf
    <3> QED BY <1>2, <3>1, LeftCrowded
  <2> QED BY <1>6, <2>1 DEF lf
<1> QED BY <1>6, <1>7, <1>8, <1>9, NearlyIs

\* It moves out of sight, or into it, or too far for one message: it is removed and added.
LEMMA OtherGoes ==
  ASSUME NEW p, NEW veiled, NEW v, Right(p, veiled, v), NEW c \in Being, c # Me, NEW from \in Square, NEW to \in Square,
         from # to, NEW s, Moves(p, veiled, c, from, to, s), Leaves(p, veiled, c, from, s), Arrives(p, veiled, c, to, s),
         NEW old, old = ClientIndex(p[from], veiled, c), NEW new, new = Stackpos(s[to], veiled, c), NEW first,
         NEW u, u = SendRemove(s, v, from, old), NEW m, m = SendAdd(s, veiled, u, to, new, c, first)
  PROVE  Nearly(s, veiled, m, from)
<1> DEFINE lf == Visible(s[from], veiled)
           mf == Visible(p[from], veiled)
           lt == Visible(p[to], veiled)
           k == ClientIndex(s[to], veiled, c)
<1>1. /\ v \in Views /\ \A d \in Square : CanSee(p, d) => Fine(v, d, Visible(p[d], veiled))
      /\ \A d \in Square : ~CanSee(p, d) => v.client[d] = <<>>
  BY RightOf
<1>2. /\ \A d : CanSee(p, d) <=> CanSee(s, d)
      /\ \A d \in Square \ {from, to} : Visible(s[d], veiled) = Visible(p[d], veiled)
      /\ s[from] \in Tile /\ Tidy(s)
  BY DEF Moves
<1>3. Inserted(lf, old, c, mf) /\ Inserted(lt, k, c, Visible(s[to], veiled))
  BY DEF Leaves, Arrives
<1>4. InSight(s, v, from, mf)
  BY <1>1, <1>2 DEF InSight
<1>5. Named(old, old)
  BY DEF Named
<1>6. new = IF k > Shown THEN 0 ELSE k
  BY DEF Stackpos
<1> HIDE DEF lf, mf, lt, k
<1>7. Removed(s, v, from, lf, mf, old, u)
  BY <1>1, <1>3, <1>4, <1>5, RemovedFine
<1>8. /\ u \in Views /\ u.known = v.known /\ u.flooded = v.flooded /\ u.behind = v.behind
      /\ \A d \in Square : d # from => u.client[d] = v.client[d]
      /\ ~CanSee(s, from) => u = v
      /\ CanSee(s, from) => Fine(u, from, lf) \/ Len(mf) > Shown
  BY <1>7 DEF Removed
<1>9. ASSUME NEW d \in Square, d # from, CanSee(s, d)  PROVE Fine(u, d, Visible(p[d], veiled))
  <2>1. Fine(v, d, Visible(p[d], veiled)) /\ u.client[d] = v.client[d]
    BY <1>1, <1>2, <1>8, <1>9
  <2> QED BY <1>8, <2>1, Untouched
<1>10. InSight(s, u, to, lt)
  BY <1>9 DEF InSight, lt
<1>11. Added(s, veiled, u, to, m)
  BY <1>2, <1>3, <1>6, <1>8, <1>10, AddedFine
<1>12. /\ m \in Views
       /\ CanSee(s, to) => Fine(m, to, Visible(s[to], veiled))
       /\ \A d \in Square : d # to /\ CanSee(s, d) /\ Fine(u, d, Visible(s[d], veiled)) => Fine(m, d, Visible(s[d], veiled))
       /\ \A d \in Square : d # to \/ ~CanSee(s, to) => m.client[d] = u.client[d]
  BY <1>11 DEF Added, InSight
<1>13. \A d \in Square \ {from} : CanSee(s, d) => Fine(m, d, Visible(s[d], veiled))
  BY <1>2, <1>9, <1>12
<1>14. \A d \in Square : ~CanSee(s, d) => m.client[d] = <<>>
  <2> SUFFICES ASSUME NEW d \in Square, ~CanSee(s, d)  PROVE m.client[d] = <<>>
    OBVIOUS
  <2>1. m.client[d] = u.client[d]
    BY <1>12
  <2>2. u.client[d] = v.client[d]
    BY <1>8
  <2>3. v.client[d] = <<>>
    BY <1>1, <1>2
  <2> QED BY <2>1, <2>2, <2>3
<1>15. CanSee(s, from) => Fine(m, from, Visible(s[from], veiled)) \/ Crowded(s[from])
  <2>1. ASSUME Len(mf) > Shown  PROVE Crowded(s[from])
    <3>1. Len(Visible(p[from], veiled)) > Shown
      BY <2>1 DEF mf
    <3> QED BY <1>2, <3>1, LeftCrowded
  <2> QED BY <1>8, <1>12, <2>1 DEF lf
<1> QED BY <1>12, <1>13, <1>14, <1>15, NearlyIs

\* The player moves too far for one message: he is told of all he sees.
LEMMA PlayerGoes ==
  ASSUME NEW s, NEW veiled, World(s, veiled), NEW v \in Views, NEW from \in Square, NEW first,
         NEW m, m = Describe(s, veiled, v, Sight(s), first)
  PROVE  Nearly(s, veiled, m, from)
<1> DEFINE cells == Sight(s)
           but == {from}
<1>1. cells \in SUBSET Square /\ \A c \in cells : CanSee(s, c)
  BY DEF Sight
<1>2. AllFine(s, veiled, v, cells \cup but) /\ AllFine(s, veiled, v, cells \cup {})
  BY DEF AllFine, Sight
<1>3. Tidy(s)
  BY DEF World
<1> DEFINE none == {}
<1>4. AllFine(s, veiled, v, cells \cup none)
  BY <1>2
<1> HIDE DEF cells, none
<1>5. m \in Views /\ AllFine(s, veiled, m, none) /\ Clear(s, m)
  <2>1. m = Describe(s, veiled, v, cells, first)
    BY DEF cells
  <2> QED BY <1>1, <1>3, <1>4, <2>1, DescribeFine
<1> QED BY <1>5 DEF Nearly, AllFine, none

\* He moves a step: his tile, and what comes into sight.
LEMMA PlayerSteps ==
  ASSUME NEW p, NEW veiled, NEW v, Right(p, veiled, v), NEW from \in Square, NEW to \in Square,
         from # to, NEW s, Moves(p, veiled, Me, from, to, s), Leaves(p, veiled, Me, from, s), Arrives(p, veiled, Me, to, s),
         Cell(p, Me) = from, NEW old, old = ClientIndex(p[from], veiled, Me), old <= Shown, NEW first,
         NEW u, u = SendStep(v, from, old, to),
         NEW cells, cells = {x \in Sight(s) : x - from \notin -ViewRange..ViewRange},
         NEW m, m = Describe(s, veiled, u, cells, first)
  PROVE  Nearly(s, veiled, m, from)
<1> DEFINE lf == Visible(s[from], veiled)
           mf == Visible(p[from], veiled)
           lt == Visible(p[to], veiled)
           mt == Visible(s[to], veiled)
           but == {from}
<1>1. /\ v \in Views /\ \A d \in Square : CanSee(p, d) => Fine(v, d, Visible(p[d], veiled))
  BY RightOf
<1>2. /\ \A d \in Square \ {from, to} : Visible(s[d], veiled) = Visible(p[d], veiled)
      /\ s[from] \in Tile /\ Tidy(s)
  BY DEF Moves
<1>3. Inserted(lf, old, Me, mf) /\ Atop(lt, mt, Me)
  BY DEF Leaves, Arrives
<1>4. \A d \in Square : CanSee(p, d) <=> d - from \in -ViewRange..ViewRange
  BY DEF CanSee
<1>5. CanSee(p, from)
  <2>1. from - from \in -ViewRange..ViewRange
    BY ViewAssumption DEF Square
  <2> QED BY <1>4, <2>1
<1>6. Fine(v, from, mf)
  BY <1>1, <1>5
<1> HIDE DEF lf, mf, lt, mt, but
<1>7. Stepped(v, from, to, lf, mf, lt, mt, u)
  <2>1. Me \in Being
    BY DEF Being
  <2> QED BY <1>1, <1>3, <1>6, <2>1, SteppedFine
<1>8. /\ u \in Views
      /\ \A d \in Square \ {from, to} : u.client[d] = v.client[d] /\ \A list : Fine(v, d, list) => Fine(u, d, list)
      /\ Fine(u, from, lf) \/ Len(mf) > Shown
      /\ Fine(v, to, lt) => Fine(u, to, mt)
  BY <1>7 DEF Stepped
<1>9. cells \in SUBSET Square /\ \A c \in cells : CanSee(s, c)
  BY DEF Sight
<1>10. ASSUME NEW d \in Square \ cells, CanSee(s, d)  PROVE CanSee(p, d)
  BY <1>4, <1>10 DEF Sight
<1>11. ASSUME NEW d \in Square \ (cells \cup but), CanSee(s, d)  PROVE Fine(u, d, Visible(s[d], veiled))
  <2>1. CanSee(p, d) /\ d # from
    BY <1>10, <1>11 DEF but
  <2>2. Fine(v, d, Visible(p[d], veiled))
    BY <1>1, <2>1
  <2>3. CASE d = to
    BY <1>8, <2>2, <2>3 DEF lt, mt
  <2>4. CASE d # to
    <3>1. Fine(v, d, Visible(s[d], veiled))
      BY <1>2, <2>1, <2>2, <2>4
    <3> QED BY <1>8, <2>1, <2>4, <3>1
  <2> QED BY <2>3, <2>4
<1>12. AllFine(s, veiled, u, cells \cup but)
  BY <1>11 DEF AllFine
<1>13. m \in Views /\ AllFine(s, veiled, m, but) /\ Clear(s, m)
  BY <1>2, <1>8, <1>9, <1>12, DescribeFine
<1>14. Fine(u, from, lf) => (CanSee(s, from) => Fine(m, from, lf))
  <2> SUFFICES ASSUME Fine(u, from, lf), CanSee(s, from)  PROVE Fine(m, from, lf)
    OBVIOUS
  <2> DEFINE none == {}
  <2>1. AllFine(s, veiled, u, cells \cup none)
    <3> SUFFICES ASSUME NEW d \in Square \ (cells \cup none), CanSee(s, d)  PROVE Fine(u, d, Visible(s[d], veiled))
      BY DEF AllFine
    <3>1. CASE d = from
      BY <3>1 DEF lf
    <3>2. CASE d # from
      BY <1>11, <3>2 DEF but
    <3> QED BY <3>1, <3>2
  <2> HIDE DEF none
  <2>2. AllFine(s, veiled, m, none)
    BY <1>2, <1>8, <1>9, <2>1, DescribeFine
  <2> QED BY <2>2 DEF AllFine, none, lf
<1>15. CanSee(s, from) => Fine(m, from, lf) \/ Crowded(s[from])
  <2>1. ASSUME Len(mf) > Shown  PROVE Crowded(s[from])
    <3>1. Len(Visible(p[from], veiled)) > Shown
      BY <2>1 DEF mf
    <3> QED BY <1>2, <3>1, LeftCrowded
  <2> QED BY <1>8, <1>14, <2>1
<1> QED BY <1>13, <1>15 DEF Nearly, but, lf

\* MoveCreature
LEMMA MoveCreatureRight ==
  ASSUME NEW p, NEW veiled, NEW v, Right(p, veiled, v), NEW c \in Being, NEW to \in Square, On(p, c) \notin {{}, {to}},
         NEW from, from = Cell(p, c), NEW old, old = ClientIndex(p[from], veiled, c),
         NEW s, s = MovedAt(p, c, from, to), NEW new, new = Stackpos(s[to], veiled, c), NEW far \in BOOLEAN, NEW first,
         NEW m, m = IF c \in veiled THEN v ELSE SendMove(s, veiled, v, c, from, to, old, new, far, first),
         NEW w, w = Repaint(s, veiled, m, from, first)
  PROVE  Right(s, veiled, w)
<1>1. World(p, veiled) /\ Tidy(p) /\ veiled \subseteq Other /\ v \in Views
  BY DEF Right, World
<1>2. from \in Square /\ Has(p, from, c) /\ On(p, c) = {from}
  BY <1>1, Located
<1>3. from # to
  BY <1>2
<1>4. /\ Moves(p, veiled, c, from, to, s)
      /\ c \notin veiled => Leaves(p, veiled, c, from, s) /\ Arrives(p, veiled, c, to, s)
      /\ c \in veiled => Unseen(p, veiled, from, to, s)
  BY <1>1, <1>2, <1>3, MovedIs
<1>5. World(s, veiled)
  BY <1>4 DEF Moves
<1>6. Nearly(s, veiled, m, from)
  <2>1. CASE c \in veiled
    <3>1. c # Me /\ m = v
      BY <1>1, <2>1, ViewAssumption
    <3> QED BY <1>2, <1>4, <2>1, <3>1, HiddenMoves
  <2>2. CASE c \notin veiled /\ c = Me /\ (old > Shown \/ far)
    <3>1. m = Describe(s, veiled, v, Sight(s), first)
      BY <2>2 DEF SendMove
    <3> QED BY <1>1, <1>2, <1>5, <3>1, PlayerGoes
  <2>3. CASE c \notin veiled /\ c = Me /\ ~(old > Shown \/ far)
    <3> DEFINE u == SendStep(v, from, old, to)
               cells == {x \in Sight(s) : x - from \notin -ViewRange..ViewRange}
    <3>1. m = Describe(s, veiled, u, cells, first)
      BY <2>3 DEF SendMove
    <3>2. Moves(p, veiled, Me, from, to, s) /\ Leaves(p, veiled, Me, from, s) /\ Arrives(p, veiled, Me, to, s)
      BY <1>4, <2>3
    <3>3. Cell(p, Me) = from /\ old = ClientIndex(p[from], veiled, Me)
      BY <2>3
    <3>4. old <= Shown
      <4>1. Inserted(Visible(s[from], veiled), old, Me, Visible(p[from], veiled))
        BY <3>2, <3>3 DEF Leaves
      <4>2. old \in 1..(Len(Visible(s[from], veiled)) + 1)
        BY <4>1, InsertedIs
      <4> QED BY <2>3, <4>2, ViewAssumption
    <3>5. u = SendStep(v, from, old, to) /\ cells = {x \in Sight(s) : x - from \notin -ViewRange..ViewRange}
      OBVIOUS
    <3> HIDE DEF u, cells
    <3> QED BY <1>2, <1>3, <3>1, <3>2, <3>3, <3>4, <3>5, PlayerSteps
  <2>4. CASE c \notin veiled /\ c # Me /\ CanSee(s, from) /\ CanSee(s, to) /\ ~(old > Shown \/ far)
    <3>1. m = SendStep(v, from, old, to)
      BY <2>4 DEF SendMove
    <3>2. Leaves(p, veiled, c, from, s) /\ Arrives(p, veiled, c, to, s)
      BY <1>4, <2>4
    <3>3. old <= Shown
      <4>1. Inserted(Visible(s[from], veiled), old, c, Visible(p[from], veiled))
        BY <3>2 DEF Leaves
      <4>2. old \in 1..(Len(Visible(s[from], veiled)) + 1)
        BY <4>1, InsertedIs
      <4> QED BY <2>4, <4>2, ViewAssumption
    <3> QED BY <1>2, <1>3, <1>4, <2>4, <3>1, <3>2, <3>3, OtherSteps
  <2>5. CASE c \notin veiled /\ c # Me /\ ~(CanSee(s, from) /\ CanSee(s, to) /\ ~(old > Shown \/ far))
    <3> DEFINE u == SendRemove(s, v, from, old)
    <3>1. m = SendAdd(s, veiled, u, to, new, c, first)
      BY <2>5 DEF SendMove
    <3>2. Leaves(p, veiled, c, from, s) /\ Arrives(p, veiled, c, to, s)
      BY <1>4, <2>5
    <3>3. u = SendRemove(s, v, from, old)
      OBVIOUS
    <3> HIDE DEF u
    <3> QED BY <1>2, <1>3, <1>4, <2>5, <3>1, <3>2, <3>3, OtherGoes
  <2> QED BY <2>1, <2>2, <2>3, <2>4, <2>5
<1> QED BY <1>2, <1>5, <1>6, NearlyRight

-----------------------------------------------------------------------------
(* The specification.                                                      *)

\* What is true of the tiles and the client at all times: the view is that of the tiles, and a
\* cell out of sight is not shown at all.
ViewInv == Right(pile, hidden, View)

\* A view that is shown.
LEMMA ShowIs ==
  ASSUME NEW p, NEW v, Show(p, v), NEW veiled, hidden' = veiled, Right(p, veiled, v)
  PROVE  ViewInv'
<1>1. v = [client |-> v.client, known |-> v.known, flooded |-> v.flooded, behind |-> v.behind]
  BY DEF Right, Views
<1>2. pile' = p /\ client' = v.client /\ known' = v.known /\ flooded' = v.flooded /\ behind' = v.behind
  BY DEF Show
<1>3. View' = v
  BY <1>1, <1>2 DEF View
<1> QED BY <1>2, <1>3 DEF ViewInv

\* At first there is but the player.
LEMMA ViewStart == ViewInit => ViewInv
<1> SUFFICES ASSUME ViewInit  PROVE ViewInv
  OBVIOUS
<1> DEFINE none == <<>>
           one == <<Me>>
           alone == [Bare EXCEPT !.creatures = one]
<1>1. PICK cell \in Square :
        /\ pile = [c \in Square |-> IF c = cell THEN alone ELSE Bare]
        /\ client = [c \in Square |-> IF c = cell THEN one ELSE none]
        /\ hidden = {} /\ known = {Me} /\ flooded = FALSE /\ behind = {}
  BY DEF ViewInit
<1>2. Me \in Being /\ Me \in Thing
  BY DEF Being, Thing
<1>3. one \in Seq(Thing) /\ one \in Seq(Being) /\ Len(one) = 1 /\ one[1] = Me
  BY <1>2
<1>4. none \in Seq(Thing) /\ none \in Seq(GroundItem) /\ none \in Seq(TopItem) /\ none \in Seq(Being) /\ none \in Seq(DownItem)
  OBVIOUS
<1>5. Bare = [ground |-> none, top |-> none, creatures |-> none, down |-> none]
  BY DEF Bare
<1>6. alone = [ground |-> none, top |-> none, creatures |-> one, down |-> none]
  BY <1>5
<1> HIDE DEF alone
<1>7. none \o none = none /\ none \o one = one /\ one \o none = one
  BY <1>3, <1>4, ConcatEmptySeq
<1> HIDE DEF none, one
<1>8. alone \in Tile /\ Bare \in Tile
  BY <1>3, <1>4, <1>5, <1>6 DEF Tile
<1>9. Things(alone) = one /\ Things(Bare) = none
  <2>1. Things(Bare) = ((none \o none) \o none) \o none
    BY <1>5 DEF Things
  <2>2. Things(alone) = ((none \o none) \o one) \o none
    BY <1>6 DEF Things
  <2> QED BY <1>7, <2>1, <2>2
<1>10. DOMAIN one = {1} /\ Elements(one) = {Me} /\ Elements(none) = {} /\ Once(one) /\ Once(none)
  <2>1. DOMAIN one = {1}
    <3>1. 1..1 = {1}
      OBVIOUS
    <3>2. DOMAIN one = 1..Len(one)
      BY <1>3
    <3> QED BY <1>3, <3>1, <3>2
  <2>2. DOMAIN none = {}
    BY DEF none
  <2> QED BY <1>3, <2>1, <2>2 DEF Elements, Once
<1>11. \A c \in Square : Things(pile[c]) = IF c = cell THEN one ELSE none
  BY <1>1, <1>9
<1>12. \A c \in Square : \A x : Has(pile, c, x) <=> c = cell /\ x = Me
  BY <1>10, <1>11 DEF Has
<1>13. pile \in Pile
  BY <1>1, <1>8 DEF Pile
<1>14. World(pile, hidden)
  <2>1. \A c \in Square : Once(Things(pile[c]))
    BY <1>10, <1>11
  <2> QED BY <1>1, <1>12, <1>13, <2>1 DEF World, Tidy
<1>15. View \in Views
  <2>1. client \in [Square -> Seq(Thing)]
    BY <1>1, <1>3, <1>4
  <2> QED BY <1>1, <1>2, <2>1 DEF View, Views
<1>16. View.client = client /\ View.known = {Me} /\ View.behind = {}
  BY <1>1 DEF View
<1>17. \A c \in Square : Visible(pile[c], hidden) = client[c]
  <2> SUFFICES ASSUME NEW c \in Square  PROVE Visible(pile[c], hidden) = client[c]
    OBVIOUS
  <2> DEFINE l == Things(pile[c])
  <2>1. l = client[c] /\ l \in Seq(Thing) /\ \A k \in DOMAIN l : l[k] \notin hidden
    BY <1>1, <1>3, <1>4, <1>11
  <2> HIDE DEF l
  <2>2. Stripped(l, hidden) = l
    BY <2>1, StrippedSame
  <2> QED BY <2>1, <2>2 DEF Visible, l
<1>18. CanSee(pile, cell)
  <2>1. Cell(pile, Me) = cell
    <3>1. Has(pile, cell, Me)
      BY <1>12
    <3>2. Tidy(pile)
      BY <1>14 DEF World
    <3> QED BY <3>1, <3>2, Located
  <2>2. cell - cell \in -ViewRange..ViewRange
    BY ViewAssumption DEF Square
  <2> QED BY <2>1, <2>2 DEF CanSee
<1>19. ASSUME NEW c \in Square, CanSee(pile, c)  PROVE Fine(View, c, Visible(pile[c], hidden))
  <2> DEFINE l == client[c]
  <2>1. l = one \/ l = none
    BY <1>1
  <2>2. Cut(none) = none /\ (Cut(one) = one \/ Shown = 0)
    <3>1. Len(none) = 0
      BY DEF none
    <3>2. ~(0 > Shown) /\ (~(1 > Shown) \/ Shown = 0)
      BY ViewAssumption
    <3> QED BY <1>3, <3>1, <3>2 DEF Cut
  <2>3. Shown # 0
    BY ViewAssumption
  <2>4. Cut(l) = l /\ Elements(l) \subseteq {Me}
    BY <1>10, <2>1, <2>2, <2>3
  <2>5. Visible(pile[c], hidden) = l
    BY <1>17
  <2> HIDE DEF l
  <2>6. View.client[c] = Cut(l) /\ Elements(Cut(l)) \cap Being \subseteq View.known
    BY <1>16, <2>4 DEF l
  <2> QED BY <2>5, <2>6 DEF Fine
<1>20. \A c \in Square : ~CanSee(pile, c) => View.client[c] = <<>>
  BY <1>1, <1>16, <1>18 DEF none
<1>21. Right(pile, hidden, View)
  BY <1>14, <1>15, <1>19, <1>20, RightIs
<1> QED BY <1>21 DEF ViewInv

\* And it stays so.
LEMMA ViewKept == ViewInv /\ [ViewNext]_viewVars => ViewInv'
<1> SUFFICES ASSUME ViewInv, [ViewNext]_viewVars  PROVE ViewInv'
  OBVIOUS
<1>1. Right(pile, hidden, View) /\ View.client = client
  BY DEF ViewInv, View
<1>2. ASSUME NEW i \in Item, UpdateItem(i)  PROVE ViewInv'
  <2> DEFINE cell == Cell(pile, i)
             n == Stackpos(pile[cell], hidden, i)
             w == IF n \notin DOMAIN View.client[cell] \/ ~CanSee(pile, cell) THEN View
                  ELSE Painted(View, cell, Anew(View.client[cell], n, i))
  <2>1. On(pile, i) # {} /\ Show(pile, w) /\ hidden' = hidden
    BY <1>1, <1>2 DEF UpdateItem, Painted, Anew
  <2>2. cell = Cell(pile, i) /\ n = Stackpos(pile[cell], hidden, i)
    OBVIOUS
  <2>3. w = IF n \notin DOMAIN View.client[cell] \/ ~CanSee(pile, cell) THEN View
            ELSE Painted(View, cell, Anew(View.client[cell], n, i))
    OBVIOUS
  <2> HIDE DEF cell, n, w
  <2>4. Right(pile, hidden, w)
    BY <1>1, <2>1, <2>2, <2>3, UpdateItemRight
  <2> QED BY <2>1, <2>4, ShowIs
<1>3. ASSUME NEW i \in Item, NEW cell \in Square, AddItem(i, cell)  PROVE ViewInv'
  <2> DEFINE q == PutAt(pile, cell, i)
             n == Stackpos(q[cell], hidden, i)
             w == IF n = 0 \/ ~CanSee(q, cell) THEN View ELSE Painted(View, cell, Put(View.client[cell], n, i))
  <2>1. On(pile, i) = {} /\ Show(q, w) /\ hidden' = hidden
    BY <1>3 DEF AddItem, Painted, PutAt
  <2>2. q = PutAt(pile, cell, i) /\ n = Stackpos(q[cell], hidden, i)
    OBVIOUS
  <2>3. w = IF n = 0 \/ ~CanSee(q, cell) THEN View ELSE Painted(View, cell, Put(View.client[cell], n, i))
    OBVIOUS
  <2> HIDE DEF q, n, w
  <2>4. Right(q, hidden, w)
    BY <1>1, <2>1, <2>2, <2>3, AddItemRight
  <2> QED BY <2>1, <2>4, ShowIs
<1>4. ASSUME NEW x \in Item \cup Other, RemoveThing(x)  PROVE ViewInv'
  <2> DEFINE cell == Cell(pile, x)
             n == IF x \in hidden THEN 0 ELSE Stackpos(pile[cell], hidden, x)
             q == TakenAt(pile, cell, x)
             less == hidden \ {x}
             w(first) == Repaint(q, hidden, SendRemove(q, View, cell, n), cell, first)
  <2>1. x # Me /\ On(pile, x) # {} /\ hidden' = less /\ \E first \in Being : Show(q, w(first))
    BY <1>4 DEF RemoveThing, TakenAt
  <2>2. PICK first \in Being : Show(q, w(first))
    BY <2>1
  <2>3. /\ cell = Cell(pile, x) /\ n = IF x \in hidden THEN 0 ELSE Stackpos(pile[cell], hidden, x)
        /\ q = TakenAt(pile, cell, x) /\ less = hidden \ {x}
    OBVIOUS
  <2> DEFINE v == w(first)
  <2>4. v = Repaint(q, hidden, SendRemove(q, View, cell, n), cell, first) /\ Show(q, v)
    BY <2>2
  <2> HIDE DEF cell, n, q, less, w, v
  <2>5. Right(q, less, v)
    BY <1>1, <2>1, <2>3, <2>4, RemoveThingRight
  <2> QED BY <2>1, <2>4, <2>5, ShowIs
<1>5. ASSUME NEW c \in Other, NEW cell \in Square, PlaceCreature(c, cell)  PROVE ViewInv'
  <2> DEFINE q == PutAt(pile, cell, c)
             n == Stackpos(q[cell], hidden, c)
             w(first) == SendAdd(q, hidden, View, cell, n, c, first)
  <2>1. On(pile, c) = {} /\ hidden' = hidden /\ \E first \in Being : Show(q, w(first))
    BY <1>5 DEF PlaceCreature, PutAt
  <2>2. PICK first \in Being : Show(q, w(first))
    BY <2>1
  <2>3. q = PutAt(pile, cell, c) /\ n = Stackpos(q[cell], hidden, c) /\ c \in Being
    BY DEF Being
  <2> DEFINE v == w(first)
  <2>4. v = SendAdd(q, hidden, View, cell, n, c, first) /\ Show(q, v)
    BY <2>2
  <2> HIDE DEF n, q, w, v
  <2>5. Right(q, hidden, v)
    BY <1>1, <2>1, <2>3, <2>4, PlaceCreatureRight
  <2> QED BY <2>1, <2>4, <2>5, ShowIs
<1>6. ASSUME NEW c \in Being, NEW to \in Square, NEW teleport \in BOOLEAN, MoveCreature(c, to, teleport)  PROVE ViewInv'
  <2> DEFINE from == Cell(pile, c)
             old == ClientIndex(pile[from], hidden, c)
             s == MovedAt(pile, c, from, to)
             new == Stackpos(s[to], hidden, c)
             far == teleport \/ from - to \notin {-1, 1} \/ s[to].ground = <<>>
             m(first) == IF c \in hidden THEN View ELSE SendMove(s, hidden, View, c, from, to, old, new, far, first)
             w(first) == Repaint(s, hidden, m(first), from, first)
  <2>0. On(pile, c) \notin {{}, {to}} /\ hidden' = hidden
    BY <1>6 DEF MoveCreature
  <2>1. from \in Square /\ from # to
    <3>1. Tidy(pile)
      BY <1>1 DEF Right, World
    <3>2. from \in Square /\ Has(pile, from, c)
      BY <2>0, <3>1, Located
    <3>3. On(pile, c) = {from}
      BY <3>1, <3>2, Located
    <3> QED BY <2>0, <3>2, <3>3
  <2>2. s = [pile EXCEPT ![from] = TakenOff(@, c), ![to] = PutOn(@, c)]
    BY <2>1 DEF MovedAt, TakenAt, PutAt
  <2>3. \E first \in Being : Show(s, w(first))
    <3> DEFINE r == [pile EXCEPT ![from] = TakenOff(@, c), ![to] = PutOn(@, c)]
    <3>1. r = s
      BY <2>2
    <3> HIDE DEF r
    <3> QED BY <1>6, <3>1 DEF MoveCreature, r
  <2>4. PICK first \in Being : Show(s, w(first))
    BY <2>3
  <2>5. /\ from = Cell(pile, c) /\ old = ClientIndex(pile[from], hidden, c) /\ s = MovedAt(pile, c, from, to)
        /\ new = Stackpos(s[to], hidden, c) /\ far \in BOOLEAN
    OBVIOUS
  <2> DEFINE u == m(first)
             v == w(first)
  <2>6. u = IF c \in hidden THEN View ELSE SendMove(s, hidden, View, c, from, to, old, new, far, first)
    OBVIOUS
  <2>7. v = Repaint(s, hidden, u, from, first) /\ Show(s, v)
    BY <2>4
  <2> HIDE DEF from, old, s, new, far, m, w, u, v
  <2>8. Right(s, hidden, v)
    BY <1>1, <2>0, <2>5, <2>6, <2>7, MoveCreatureRight
  <2> QED BY <2>0, <2>7, <2>8, ShowIs
<1>7. ASSUME NEW c \in Shade, ChangeVisible(c)  PROVE ViewInv'
  <2> DEFINE cell == Cell(pile, c)
             n == Stackpos(pile[cell], hidden, c)
  <2>0. c \in Other
    BY ViewAssumption
  <2>1. CASE c \notin hidden
    <3> DEFINE more == hidden \cup {c}
               short == CanSee(pile, cell) /\ Len(Visible(pile[cell], more)) >= Shown /\ n # 0
               u == SendRemove(pile, View, cell, n)
               w == IF short THEN Lagging(u, cell) ELSE u
    <3>1. On(pile, c) # {} /\ hidden' = more /\ Show(pile, w)
      BY <1>7, <2>1 DEF ChangeVisible, Lagging
    <3>2. /\ cell = Cell(pile, c) /\ n = Stackpos(pile[cell], hidden, c) /\ Veils(more, hidden, hidden, c)
          /\ short = (CanSee(pile, cell) /\ Len(Visible(pile[cell], more)) >= Shown /\ n # 0)
          /\ u = SendRemove(pile, View, cell, n) /\ w = IF short THEN Lagging(u, cell) ELSE u
      BY <2>1 DEF Veils
    <3> HIDE DEF cell, n, more, short, u, w
    <3>3. Right(pile, more, w)
      BY <1>1, <2>0, <2>1, <3>1, <3>2, HideRight
    <3> QED BY <3>1, <3>3, ShowIs
  <2>2. CASE c \in hidden
    <3> DEFINE less == hidden \ {c}
               w(first) == SendAdd(pile, less, View, cell, n, c, first)
    <3>1. On(pile, c) # {} /\ hidden' = less /\ \E first \in Being : Show(pile, w(first))
      BY <1>7, <2>2 DEF ChangeVisible
    <3>2. PICK first \in Being : Show(pile, w(first))
      BY <3>1
    <3> DEFINE v == w(first)
    <3>3. /\ cell = Cell(pile, c) /\ n = Stackpos(pile[cell], hidden, c) /\ less = hidden \ {c}
          /\ v = SendAdd(pile, less, View, cell, n, c, first) /\ Show(pile, v)
      BY <3>2
    <3> HIDE DEF cell, n, less, w, v
    <3>4. Right(pile, less, v)
      BY <1>1, <2>0, <2>2, <3>1, <3>3, AppearRight
    <3> QED BY <3>1, <3>3, <3>4, ShowIs
  <2> QED BY <2>1, <2>2
<1>8. CASE UNCHANGED viewVars
  BY <1>8 DEF viewVars, ViewInv, View
<1>9. Stage \subseteq Square
  BY ViewAssumption
<1> QED BY <1>2, <1>3, <1>4, <1>5, <1>6, <1>7, <1>8, <1>9 DEF ViewNext

\* The client shows what the player can see of every tile in its sight that no creature made it
\* miss a thing of, and has not been told to forget a creature it shows there: for any line of
\* tiles, sight, creatures, items and limits, of which the one for sending a tile again lies
\* below the one for what is shown of it.
THEOREM ClientStaysInStep == ViewSpec => []ClientInStep
<1>1. ViewInv => ClientInStep
  <2> SUFFICES ASSUME ViewInv  PROVE ClientInStep
    OBVIOUS
  <2>1. Right(pile, hidden, View)
    BY DEF ViewInv
  <2>2. /\ View \in Views /\ Tidy(pile)
        /\ \A c \in Square : CanSee(pile, c) => Fine(View, c, Visible(pile[c], hidden))
        /\ \A c \in Square : ~CanSee(pile, c) => View.client[c] = <<>>
    BY <2>1, RightOf
  <2>3. View.client = client /\ View.known = known /\ View.flooded = flooded /\ View.behind = behind
    BY DEF View
  <2>4. ASSUME NEW c \in Square \ behind, CanSee(pile, c)
        PROVE  client[c] = Description(pile[c], hidden) /\ (flooded \/ Elements(client[c]) \cap Being \subseteq known)
    BY <2>2, <2>3, <2>4 DEF Fine, Description
  <2>5. ASSUME ~flooded, NEW c \in Square \ behind, NEW x \in Being, Contains(client[c], x)  PROVE x \in known
    <3>1. client[c] \in Seq(Thing)
      BY <2>2, <2>3 DEF Views
    <3> DEFINE l == client[c]
    <3>2. l \in Seq(Thing)
      BY <3>1
    <3> HIDE DEF l
    <3>3. Contains(l, x) => x \in Elements(l)
      BY <3>2 DEF Contains, Elements
    <3>4. x \in Elements(l)
      BY <2>5, <3>3 DEF l
    <3>5. CASE CanSee(pile, c)
      BY <2>4, <2>5, <3>4, <3>5 DEF l
    <3>6. CASE ~CanSee(pile, c)
      <4>1. l = <<>>
        BY <2>2, <2>3, <3>6 DEF l
      <4> QED BY <3>4, <4>1 DEF Elements
    <3> QED BY <3>5, <3>6
  <2> QED BY <2>4, <2>5 DEF ClientInStep
<1> QED BY <1>1, ViewStart, ViewKept, PTL DEF ViewSpec
=============================================================================
