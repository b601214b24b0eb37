--------------------------- MODULE SessionProofs ---------------------------
(***************************************************************************)
(* Proofs about Session for any number of clients and characters and any   *)
(* configuration: who holds a Player, who is flushed, that a character is  *)
(* online once, that no client loses its Player to another, and that the   *)
(* connections are those of ConnectionLife.                                *)
(*                                                                         *)
(* What the handlers count on is said of the dispatcher's queue. A login   *)
(* is the first task of its protocol and only the release of the same      *)
(* protocol can be queued behind it; a delayed connect exists once, in the *)
(* scheduler or in the queue. Until then the protocol has no Player, so    *)
(* that making it the client of one overwrites nothing.                    *)
(***************************************************************************)
EXTENDS Session, SequenceTheorems, FiniteSetTheorems, TLAPS

TaskSet == [op : Ops, of : Protocols]

\* The protocols with a task `op` in the queue t, and those with any task.
Queued(t, op) == {p \in Protocols : \E i \in DOMAIN t : t[i] = Task(op, p)}
Owners(t) == {t[i].of : i \in DOMAIN t}

\* Behind a login, and nowhere else, is at most the release of its protocol;
\* a protocol connects once.
Orderly(t) ==
  \A p \in Protocols, i, j \in DOMAIN t :
    i # j /\ t[j].of = p =>
      /\ t[i] = Task("login", p) => t[j].op = "release" /\ i < j
      /\ t[i] = Task("connect", p) => t[j].op # "connect"

\* The protocols listed for flushing, and that they are listed once.
Listed(b) == {b[i] : i \in DOMAIN b}
Once(b) == \A i, j \in DOMAIN b : b[i] = b[j] => i = j

\* Nothing has been done yet for p and the Player its login would make.
Untouched(p) ==
  /\ player[p] = None /\ client[p] = None /\ refs[p] = 0 /\ toRelease[p] = 0
  /\ p \notin game \cup checked \cup accept \cup released \cup timers \cup Listed(buffered)

Awaiting == timers \cup Queued(tasks, "connect")

FreshInv == \A p \in Protocols : life[p] = "fresh" => Untouched(p) /\ p \notin Owners(tasks)
LoginInv == \A p \in Queued(tasks, "login") : life[p] # "fresh" /\ Untouched(p)
AwaitInv ==
  \A p \in Awaiting :
    /\ player[p] = None /\ life[p] # "fresh" /\ p \notin Queued(tasks, "login")
    /\ p \in released \cup Listed(buffered)

QueueInv ==
  /\ Orderly(tasks) /\ FreshInv /\ LoginInv /\ AwaitInv
  /\ timers \cap Queued(tasks, "connect") = {}

FlushInv ==
  /\ accept \subseteq released \cup Listed(buffered)
  /\ Listed(buffered) \cap released = {} /\ Once(buffered)
  /\ buffered # <<>> => sendAlls > 0

IInv == TypeOK /\ Attached /\ RefsBalanced /\ FlushInv /\ QueueInv

USE SessionAssumption DEF Players

-----------------------------------------------------------------------------
(* The queue                                                               *)

\* The elements of a queue's tail are elements of the queue.
LEMMA HeadAndTail ==
  ASSUME NEW t \in Seq(TaskSet), t # <<>>
  PROVE  /\ Tail(t) \in Seq(TaskSet) /\ Head(t) = t[1] /\ Len(t) \in Nat /\ Len(t) > 0
         /\ DOMAIN t = 1..Len(t) /\ DOMAIN Tail(t) = 1..(Len(t) - 1)
         /\ \A i \in 1..(Len(t) - 1) : Tail(t)[i] = t[i + 1]
BY EmptySeq, LenProperties, HeadTailProperties, SMTT(30)

\* The elements of a queue after Append.
LEMMA Appended ==
  ASSUME NEW t \in Seq(TaskSet), NEW x \in TaskSet
  PROVE  /\ Append(t, x) \in Seq(TaskSet) /\ Len(t) \in Nat
         /\ DOMAIN t = 1..Len(t) /\ DOMAIN Append(t, x) = 1..(Len(t) + 1)
         /\ \A i \in 1..Len(t) : Append(t, x)[i] = t[i]
         /\ Append(t, x)[Len(t) + 1] = x
BY AppendProperties, LenProperties, SMTT(30)

\* The fields of each kind of posted task.
LEMMA TaskFields ==
  ASSUME NEW op \in Ops, NEW p \in Protocols
  PROVE  /\ Task(op, p) \in TaskSet /\ Task(op, p).op = op /\ Task(op, p).of = p
         /\ \A x \in TaskSet : x = Task(op, p) <=> x.op = op /\ x.of = p
BY DEF Task, TaskSet

\* Running the task at the head.
LEMMA QueueTail ==
  ASSUME NEW t \in Seq(TaskSet), NEW op \in Ops, NEW p \in Protocols,
         t # <<>>, Head(t) = Task(op, p), Orderly(t)
  PROVE  /\ Tail(t) \in Seq(TaskSet) /\ Orderly(Tail(t)) /\ Owners(Tail(t)) \subseteq Owners(t)
         /\ p \in Queued(t, op) /\ p \in Owners(t)
         /\ \A o \in Ops : Queued(Tail(t), o) \subseteq Queued(t, o)
         /\ p \notin Queued(Tail(t), "login")
         /\ op \in {"login", "connect"} => p \notin Queued(Tail(t), "connect")
<1>1. /\ Tail(t) \in Seq(TaskSet) /\ t[1] = Task(op, p) /\ Len(t) \in Nat /\ Len(t) > 0
      /\ DOMAIN t = 1..Len(t) /\ DOMAIN Tail(t) = 1..(Len(t) - 1)
      /\ \A i \in 1..(Len(t) - 1) : Tail(t)[i] = t[i + 1]
  BY HeadAndTail
<1>2. \A i \in DOMAIN Tail(t) : i + 1 \in DOMAIN t /\ i + 1 # 1 /\ Tail(t)[i] = t[i + 1]
  BY <1>1
<1>3. 1 \in DOMAIN t
  BY <1>1
<1>4. Orderly(Tail(t))
  <2> SUFFICES ASSUME NEW q \in Protocols, NEW i \in DOMAIN Tail(t), NEW j \in DOMAIN Tail(t),
                      i # j, Tail(t)[j].of = q
               PROVE  /\ Tail(t)[i] = Task("login", q) => Tail(t)[j].op = "release" /\ i < j
                      /\ Tail(t)[i] = Task("connect", q) => Tail(t)[j].op # "connect"
    BY DEF Orderly
  <2>1. i \in Nat /\ j \in Nat /\ i + 1 # j + 1 /\ (i + 1 < j + 1 => i < j)
    BY <1>1
  <2> QED BY <1>2, <2>1 DEF Orderly
<1>5. Owners(Tail(t)) \subseteq Owners(t)
  BY <1>2 DEF Owners
<1>6. p \in Queued(t, op) /\ p \in Owners(t)
  BY <1>1, <1>3, TaskFields DEF Queued, Owners
<1>7. \A o \in Ops : Queued(Tail(t), o) \subseteq Queued(t, o)
  BY <1>2 DEF Queued
<1>8. p \notin Queued(Tail(t), "login")
  <2> SUFFICES ASSUME NEW i \in DOMAIN Tail(t), Tail(t)[i] = Task("login", p) PROVE FALSE
    BY DEF Queued
  <2>1. i + 1 \in DOMAIN t /\ t[i + 1] = Task("login", p) /\ t[1].of = p /\ ~(i + 1 < 1)
    BY <1>1, <1>2, TaskFields
  <2> QED BY <1>2, <1>3, <2>1 DEF Orderly
<1>9. ASSUME op \in {"login", "connect"} PROVE p \notin Queued(Tail(t), "connect")
  <2>1. \A i \in DOMAIN Tail(t) : Tail(t)[i].of = p => Tail(t)[i].op # "connect"
    BY <1>1, <1>2, <1>3, <1>9 DEF Orderly
  <2> QED BY <2>1, TaskFields DEF Queued, Ops
<1> QED BY <1>1, <1>4, <1>5, <1>6, <1>7, <1>8, <1>9

\* Posting a task: the first one of a new connection, the first connect of one
\* that does not log in any more, a request of one that has logged in, a release.
LEMMA QueueAppend ==
  ASSUME NEW t \in Seq(TaskSet), NEW op \in Ops, NEW p \in Protocols, Orderly(t),
         op = "login" => p \notin Owners(t),
         op = "connect" => p \notin Queued(t, "connect"),
         op # "release" => p \notin Queued(t, "login")
  PROVE  /\ Append(t, Task(op, p)) \in Seq(TaskSet) /\ Orderly(Append(t, Task(op, p)))
         /\ Owners(Append(t, Task(op, p))) = Owners(t) \cup {p}
         /\ \A o \in Ops : Queued(Append(t, Task(op, p)), o) =
                             Queued(t, o) \cup (IF o = op THEN {p} ELSE {})
<1> DEFINE u == Append(t, Task(op, p))
           n == Len(t) + 1
<1>1. /\ u \in Seq(TaskSet) /\ Len(t) \in Nat /\ DOMAIN t = 1..Len(t) /\ DOMAIN u = 1..n
      /\ \A i \in 1..Len(t) : u[i] = t[i]
      /\ u[n] = Task(op, p)
  BY TaskFields, Appended
<1>2. DOMAIN u = DOMAIN t \cup {n} /\ n \notin DOMAIN t /\ \A i \in DOMAIN t : i < n
  BY <1>1
<1>3. \A i \in DOMAIN t : t[i] \in TaskSet
  BY <1>1, ElementOfSeq
<1> HIDE DEF u, n
<1>a. u[n].op = op /\ u[n].of = p /\ u[n] \in TaskSet /\ n \in DOMAIN u
  <2>1. Task(op, p).op = op /\ Task(op, p).of = p /\ Task(op, p) \in TaskSet
    BY TaskFields
  <2> QED BY <1>1, <1>2, <2>1
<1>4. Owners(u) = Owners(t) \cup {p}
  <2>1. \A i \in DOMAIN t : u[i].of = t[i].of
    BY <1>1
  <2>2. \A q : (\E i \in DOMAIN u : q = u[i].of) <=> (\E i \in DOMAIN t : q = t[i].of) \/ q = p
    BY <1>2, <1>a, <2>1
  <2>3. \A q : q \in Owners(u) <=> q \in Owners(t) \cup {p}
    BY <2>2 DEF Owners
  <2> QED BY <2>3, Zenon
<1>5. \A o \in Ops : Queued(u, o) = Queued(t, o) \cup (IF o = op THEN {p} ELSE {})
  <2> SUFFICES ASSUME NEW o \in Ops, NEW q \in Protocols
               PROVE  q \in Queued(u, o) <=> q \in Queued(t, o) \/ (o = op /\ q = p)
    BY DEF Queued
  <2>1. u[n] = Task(o, q) <=> o = op /\ q = p
    BY <1>a, TaskFields
  <2>2. \A i \in DOMAIN t : u[i] = t[i]
    BY <1>1
  <2> QED BY <1>2, <2>1, <2>2 DEF Queued
<1>6. Orderly(u)
  <2> SUFFICES ASSUME NEW q \in Protocols, NEW i \in DOMAIN u, NEW j \in DOMAIN u,
                      i # j, u[j].of = q
               PROVE  /\ u[i] = Task("login", q) => u[j].op = "release" /\ i < j
                      /\ u[i] = Task("connect", q) => u[j].op # "connect"
    BY DEF Orderly
  <2>1. CASE i \in DOMAIN t /\ j \in DOMAIN t
    BY <1>1, <2>1 DEF Orderly
  <2>2. CASE j = n
    <3>1. q = p /\ u[j].op = op /\ i \in DOMAIN t /\ u[i] = t[i] /\ i < j
      BY <1>1, <1>2, <1>a, <2>2
    <3>2. u[i] = Task("login", q) => p \in Queued(t, "login")
      BY <3>1 DEF Queued
    <3>3. u[i] = Task("connect", q) => p \in Queued(t, "connect")
      BY <3>1 DEF Queued
    <3> QED BY <3>1, <3>2, <3>3
  <2>3. CASE i = n
    <3>1. j \in DOMAIN t /\ u[j] = t[j] /\ t[j] \in TaskSet /\ u[i] = Task(op, p)
      BY <1>1, <1>2, <1>3, <2>3
    <3>2. q \in Owners(t)
      BY <3>1 DEF Owners
    <3>a. \A o \in {"login", "connect"} : u[i] = Task(o, q) => q = p /\ op = o
      BY <1>a, <2>3, TaskFields DEF Ops
    <3>3. ASSUME u[i] = Task("login", q) PROVE FALSE
      BY <3>2, <3>3, <3>a
    <3>4. ASSUME u[i] = Task("connect", q), u[j].op = "connect" PROVE FALSE
      <4>1. q = p /\ op = "connect"
        BY <3>4, <3>a
      <4>2. t[j] = Task("connect", p)
        BY <3>1, <3>4, <4>1, TaskFields DEF Ops
      <4> QED BY <3>1, <4>1, <4>2 DEF Queued
    <3> QED BY <3>3, <3>4
  <2> QED BY <1>2, <2>1, <2>2, <2>3
<1> QED BY <1>1, <1>4, <1>5, <1>6 DEF u

-----------------------------------------------------------------------------
(* The list of protocols to flush                                          *)

\* The autosend list after an insertion.
LEMMA ListAdded ==
  ASSUME NEW b \in Seq(Protocols), NEW p \in Protocols
  PROVE  /\ Append(b, p) \in Seq(Protocols) /\ Append(b, p) # <<>>
         /\ Listed(Append(b, p)) = Listed(b) \cup {p}
         /\ Once(b) /\ p \notin Listed(b) => Once(Append(b, p))
<1>1. /\ Append(b, p) \in Seq(Protocols) /\ Len(b) \in Nat /\ Append(b, p) # <<>>
      /\ DOMAIN b = 1..Len(b) /\ DOMAIN Append(b, p) = 1..(Len(b) + 1)
      /\ \A i \in 1..Len(b) : Append(b, p)[i] = b[i]
      /\ Append(b, p)[Len(b) + 1] = p
  BY AppendProperties, LenProperties, SMTT(30)
<1>2. DOMAIN Append(b, p) = DOMAIN b \cup {Len(b) + 1} /\ Len(b) + 1 \notin DOMAIN b
  BY <1>1
<1>3. Listed(Append(b, p)) = Listed(b) \cup {p}
  BY <1>1, <1>2 DEF Listed
<1>4. Once(b) /\ p \notin Listed(b) => Once(Append(b, p))
  BY <1>1, <1>2 DEF Once, Listed
<1> QED BY <1>1, <1>3, <1>4

\* The last protocol takes the place of the one that goes.
LEMMA ListRemoved ==
  ASSUME NEW p \in Protocols, buffered \in Seq(Protocols), Once(buffered), RemoveFromAutosend(p)
  PROVE  /\ buffered' \in Seq(Protocols) /\ Once(buffered')
         /\ Listed(buffered') = Listed(buffered) \ {p}
         /\ buffered' # <<>> => buffered # <<>>
<1> DEFINE n == Len(buffered)
<1>1. n \in Nat /\ DOMAIN buffered = 1..n /\ \A i \in 1..n : buffered[i] \in Protocols
  BY LenProperties, ElementOfSeq
<1>2. CASE ~ \E i \in 1..n : buffered[i] = p
  <2>1. buffered' = buffered
    BY <1>2 DEF RemoveFromAutosend
  <2> QED BY <1>1, <1>2, <2>1 DEF Listed, Once
<1>3. CASE \E i \in 1..n : buffered[i] = p
  <2> DEFINE k == CHOOSE j \in 1..n : buffered[j] = p
             c == [buffered EXCEPT ![k] = buffered[n]]
  <2>1. k \in 1..n /\ buffered[k] = p
    BY <1>3
  <2>2. buffered' = SubSeq(c, 1, n - 1)
    BY <1>3 DEF RemoveFromAutosend
  <2> HIDE DEF k
  <2>3. c \in Seq(Protocols) /\ Len(c) = n
    BY <1>1, <2>1, ExceptSeq
  <2>4. \A i \in 1..n : c[i] = IF i = k THEN buffered[n] ELSE buffered[i]
    BY <1>1
  <2> HIDE DEF c
  <2>5. n > 0
    BY <1>1, <2>1
  <2>6. /\ buffered' \in Seq(Protocols) /\ Len(buffered') = n - 1
        /\ \A i \in 1..(n - 1) : buffered'[i] = c[i]
    BY <1>1, <2>2, <2>3, <2>5, SubSeqProperties, SMTT(30)
  <2>7. DOMAIN buffered' = 1..(n - 1)
    BY <2>6, LenProperties
  <2>8. \A i, j \in 1..n : buffered[i] = buffered[j] => i = j
    BY <1>1 DEF Once
  <2>9. Once(buffered')
    BY <1>1, <2>1, <2>4, <2>6, <2>7, <2>8 DEF Once
  <2>10. Listed(buffered') \subseteq Listed(buffered) \ {p}
    BY <1>1, <2>1, <2>4, <2>6, <2>7, <2>8 DEF Listed
  <2>11. Listed(buffered) \ {p} \subseteq Listed(buffered')
    <3> SUFFICES ASSUME NEW i \in 1..n, buffered[i] # p
                 PROVE  \E j \in 1..(n - 1) : buffered'[j] = buffered[i]
      BY <1>1, <2>7 DEF Listed
    <3>1. CASE i = n
      BY <1>1, <2>1, <2>4, <2>6, <3>1
    <3>2. CASE i # n
      <4>1. i # k
        BY <2>1, Zenon
      <4>a. i \in 1..(n - 1)
        <5>1. n \in Nat /\ i \in 1..n /\ i # n
          BY <1>1, <3>2
        <5> HIDE DEF n
        <5> QED BY <5>1
      <4>2. buffered'[i] = c[i] /\ c[i] = buffered[i]
        BY <2>4, <2>6, <4>1, <4>a
      <4> QED BY <4>2, <4>a
    <3> QED BY <3>1, <3>2
  <2>12. buffered # <<>>
    BY <1>1, <2>5
  <2> QED BY <2>6, <2>9, <2>10, <2>11, <2>12
<1> QED BY <1>2, <1>3
-----------------------------------------------------------------------------
(* Steps that close a connection or not, and leave t of the queue          *)

Settled(t) ==
  /\ life' \in [Protocols -> {"fresh", "open", "closed", "gone"}]
  /\ posted' \in [Protocols -> Nat]
  /\ tasks' \in Seq(TaskSet) /\ Orderly(tasks')
  /\ \A op \in {"login", "connect"} : Queued(tasks', op) = Queued(t, op)
  /\ \A r \in Protocols :
       /\ life'[r] = "fresh" <=> life[r] = "fresh"
       /\ life[r] = "fresh" /\ r \in Owners(tasks') => r \in Owners(t)

\* Closing a connection posts the release its protocol waits for.
LEMMA CloseSettles ==
  ASSUME TypeOK, NEW p \in Protocols, NEW t \in Seq(TaskSet), Orderly(t),
         Close(p, t) \/ NoClose(t)
  PROVE  Settled(t)
<1>1. CASE tasks' = t /\ UNCHANGED <<life, posted>>
  BY <1>1 DEF Settled, TypeOK
<1>2. CASE life[p] = "open" /\ Close(p, t)
  <2>1. /\ life' = [life EXCEPT ![p] = "closed"] /\ posted' = [posted EXCEPT ![p] = @ + 1]
        /\ tasks' = Append(t, Task("release", p))
    BY <1>2 DEF Close
  <2>2. /\ tasks' \in Seq(TaskSet) /\ Orderly(tasks') /\ Owners(tasks') = Owners(t) \cup {p}
        /\ \A o \in Ops : Queued(tasks', o) = Queued(t, o) \cup (IF o = "release" THEN {p} ELSE {})
    BY <2>1, QueueAppend DEF Ops
  <2>3. \A op \in {"login", "connect"} : Queued(tasks', op) = Queued(t, op)
    BY <2>2 DEF Ops
  <2> QED BY <1>2, <2>1, <2>2, <2>3 DEF Settled, TypeOK
<1> QED BY <1>1, <1>2 DEF Close, NoClose

\* What a task finds when it runs.
LEMMA TaskRuns ==
  ASSUME TypeOK, QueueInv, NEW op \in Ops, NEW p \in Protocols, RunTask(op, p)
  PROVE  /\ Tail(tasks) \in Seq(TaskSet) /\ Orderly(Tail(tasks))
         /\ Owners(Tail(tasks)) \subseteq Owners(tasks)
         /\ \A o \in {"login", "connect"} : Queued(Tail(tasks), o) \subseteq Queued(tasks, o)
         /\ life[p] # "fresh" /\ p \notin Queued(Tail(tasks), "login")
         /\ op = "login" => Untouched(p) /\ p \notin Awaiting
         /\ op = "connect" => /\ p \in Awaiting /\ player[p] = None
                              /\ p \notin timers \cup Queued(Tail(tasks), "connect")
<1>1. tasks \in Seq(TaskSet) /\ tasks # <<>> /\ Head(tasks) = Task(op, p) /\ Orderly(tasks)
  BY DEF TypeOK, TaskSet, QueueInv, RunTask
<1>2. /\ Tail(tasks) \in Seq(TaskSet) /\ Orderly(Tail(tasks))
      /\ Owners(Tail(tasks)) \subseteq Owners(tasks)
      /\ p \in Queued(tasks, op) /\ p \in Owners(tasks)
      /\ \A o \in Ops : Queued(Tail(tasks), o) \subseteq Queued(tasks, o)
      /\ p \notin Queued(Tail(tasks), "login")
      /\ op \in {"login", "connect"} => p \notin Queued(Tail(tasks), "connect")
  BY <1>1, QueueTail
<1>3. life[p] # "fresh"
  BY <1>2 DEF QueueInv, FreshInv
<1>4. op = "login" => Untouched(p) /\ p \notin Awaiting
  BY <1>2 DEF QueueInv, LoginInv, AwaitInv
<1>5. op = "connect" => p \in Awaiting /\ player[p] = None /\ p \notin timers
  BY <1>2 DEF QueueInv, AwaitInv, Awaiting
<1> QED BY <1>2, <1>3, <1>4, <1>5 DEF Ops

\* The queue's invariant is kept by a step that takes t from the queue, touches
\* but the protocols of X, which log in no more, and lets only those wait for a
\* connect that may.
LEMMA QueueKept ==
  ASSUME TypeOK, QueueInv, NEW t \in Seq(TaskSet), Settled(t),
         Owners(t) \subseteq Owners(tasks),
         \A o \in {"login", "connect"} : Queued(t, o) \subseteq Queued(tasks, o),
         NEW X \in SUBSET Protocols,
         \A p \in X : life[p] # "fresh" /\ p \notin Queued(t, "login"),
         \A r \in Protocols \ X : Untouched(r) => Untouched(r)',
         timers' \subseteq timers \cup X,
         timers' \cap Queued(t, "connect") = {},
         \A r \in timers' \cup Queued(t, "connect") :
           player'[r] = None /\ r \in released' \cup Listed(buffered')
  PROVE  QueueInv'
<1>1. FreshInv'
  BY DEF QueueInv, FreshInv, Settled
<1>2. LoginInv'
  <2> SUFFICES ASSUME NEW r \in Queued(t, "login") PROVE life'[r] # "fresh" /\ Untouched(r)'
    BY DEF LoginInv, Settled
  <2>1. r \in Protocols /\ r \in Queued(tasks, "login") /\ r \notin X
    BY DEF Queued
  <2> QED BY <2>1 DEF QueueInv, LoginInv, Settled
<1>3. AwaitInv'
  <2> SUFFICES ASSUME NEW r \in timers' \cup Queued(t, "connect")
               PROVE  r \in Protocols /\ life'[r] # "fresh" /\ r \notin Queued(t, "login")
    BY DEF AwaitInv, Awaiting, Settled
  <2>1. CASE r \in X
    BY <2>1 DEF Settled
  <2>2. CASE r \notin X
    <3>1. r \in Awaiting
      BY <2>2 DEF Awaiting
    <3>2. r \in Protocols
      BY <3>1 DEF Awaiting, Queued, TypeOK
    <3> QED BY <3>1, <3>2 DEF QueueInv, AwaitInv, Settled
  <2> QED BY <2>1, <2>2
<1>4. Orderly(tasks') /\ timers' \cap Queued(tasks', "connect") = {}
  BY DEF Settled
<1> QED BY <1>1, <1>2, <1>3, <1>4 DEF QueueInv
-----------------------------------------------------------------------------
(* The actions keep IInv                                                   *)

TypeLeft == /\ event \in [Protocols -> Protocols \cup {None}] /\ timers \subseteq Protocols
            /\ player \in [Protocols -> Protocols \cup {None}]
            /\ accept \subseteq Protocols /\ released \subseteq Protocols
            /\ client \in [Protocols -> Protocols \cup {None}] /\ connecting \subseteq Protocols
            /\ refs \in [Protocols -> Nat] /\ game \subseteq Protocols /\ checked \subseteq Protocols
            /\ toRelease \in [Protocols -> Nat]
            /\ buffered \in Seq(Protocols) /\ sendAlls \in Nat

\* Every step keeps the types.
LEMMA Types ==
  ASSUME NEW t, Settled(t), name' \in [Protocols -> Characters], TypeLeft'
  PROVE  TypeOK'
BY DEF Settled, TypeOK, TypeLeft, TaskSet

\* The part of the types that most steps leave alone.
LEMMA HalfTypes == TypeOK => TypeLeft /\ tasks \in Seq(TaskSet) /\ name \in [Protocols -> Characters]
BY DEF TypeOK, TypeLeft, TaskSet

\* The tasks and connections change, nothing of the game does.
LEMMA NetStep ==
  ASSUME IInv, NEW t \in Seq(TaskSet), Settled(t),
         Owners(t) \subseteq Owners(tasks),
         \A o \in {"login", "connect"} : Queued(t, o) \subseteq Queued(tasks, o),
         UNCHANGED <<name, protoVars, worldVars, poolVars>>
  PROVE  IInv'
<1> USE DEF protoVars, worldVars, poolVars
<1>1. TypeOK'
  BY Types, HalfTypes DEF IInv, TypeLeft
<1>2. Attached' /\ RefsBalanced' /\ FlushInv'
  BY DEF IInv, Attached, RefsBalanced, FlushInv
<1>3. QueueInv'
  <2>1. \A r \in Protocols : Untouched(r) => Untouched(r)'
    BY DEF Untouched
  <2>2. timers' \cap Queued(t, "connect") = {} /\ timers' = timers
    BY DEF IInv, QueueInv
  <2>3. \A r \in timers' \cup Queued(t, "connect") :
           player'[r] = None /\ r \in released' \cup Listed(buffered')
    BY DEF IInv, QueueInv, AwaitInv, Awaiting
  <2> DEFINE X == {}
  <2>4. X \in SUBSET Protocols /\ (\A p \in X : life[p] # "fresh" /\ p \notin Queued(t, "login"))
    OBVIOUS
  <2>5. (\A r \in Protocols \ X : Untouched(r) => Untouched(r)') /\ timers' \subseteq timers \cup X
    BY <2>1, <2>2
  <2> HIDE DEF X
  <2> QED BY <2>2, <2>3, <2>4, <2>5, QueueKept DEF IInv
<1> QED BY <1>1, <1>2, <1>3 DEF IInv

\* The first message keeps the invariant.
LEMMA FirstMessageKept ==
  ASSUME IInv, NEW p \in Protocols, NEW ok \in BOOLEAN, FirstMessage(p, ok)
  PROVE  IInv'
<1> USE DEF protoVars, worldVars, poolVars
<1> DEFINE op == IF ok THEN "login" ELSE "release"
<1>1. /\ life[p] = "fresh" /\ life' = [life EXCEPT ![p] = IF ok THEN "open" ELSE "closed"]
      /\ posted' = [posted EXCEPT ![p] = 1] /\ tasks' = Append(tasks, Task(op, p))
      /\ UNCHANGED <<name, protoVars, worldVars, poolVars>>
  BY DEF FirstMessage
<1>2. op \in Ops /\ op \in {"login", "release"}
  BY DEF Ops
<1> HIDE DEF op
<1>3. tasks \in Seq(TaskSet) /\ Orderly(tasks) /\ p \notin Owners(tasks) /\ Untouched(p)
  BY <1>1, HalfTypes DEF IInv, QueueInv, FreshInv
<1>4. p \notin Queued(tasks, "login") /\ p \notin Queued(tasks, "connect") /\ p \notin timers
  BY <1>1 DEF IInv, QueueInv, LoginInv, AwaitInv, Awaiting
<1>5. /\ tasks' \in Seq(TaskSet) /\ Orderly(tasks') /\ Owners(tasks') = Owners(tasks) \cup {p}
      /\ \A o \in Ops : Queued(tasks', o) = Queued(tasks, o) \cup (IF o = op THEN {p} ELSE {})
  BY <1>1, <1>2, <1>3, <1>4, QueueAppend
<1>6. TypeOK'
  BY <1>1, <1>5 DEF IInv, TypeOK, TaskSet
<1>7. Attached' /\ RefsBalanced' /\ FlushInv'
  BY <1>1 DEF IInv, Attached, RefsBalanced, FlushInv
<1>8. QueueInv'
  <2>1. \A r \in Protocols : Untouched(r)' <=> Untouched(r)
    BY <1>1 DEF Untouched
  <2>2. Queued(tasks', "connect") = Queued(tasks, "connect") /\ timers' = timers
    BY <1>1, <1>2, <1>5 DEF Ops
  <2>3. Queued(tasks', "login") \subseteq Queued(tasks, "login") \cup {p}
    BY <1>2, <1>5 DEF Ops
  <2>4. life'[p] # "fresh" /\ \A r \in Protocols \ {p} : life'[r] = life[r]
    BY <1>1 DEF IInv, TypeOK
  <2>5. FreshInv'
    BY <1>5, <2>1, <2>4 DEF IInv, QueueInv, FreshInv
  <2>6. LoginInv'
    <3> SUFFICES ASSUME NEW r \in Queued(tasks', "login") PROVE life'[r] # "fresh" /\ Untouched(r)
      BY <2>1 DEF LoginInv, Queued
    <3> QED BY <1>3, <2>3, <2>4 DEF IInv, QueueInv, LoginInv, Queued
  <2>7. AwaitInv'
    <3> SUFFICES ASSUME NEW r \in Awaiting'
                 PROVE  /\ player'[r] = None /\ life'[r] # "fresh" /\ r \notin Queued(tasks', "login")
                        /\ r \in released' \cup Listed(buffered')
      BY DEF AwaitInv
    <3>1. r \in Awaiting /\ r # p
      BY <1>4, <2>2 DEF Awaiting
    <3>2. r \in Protocols
      BY <3>1 DEF Awaiting, Queued, IInv, TypeOK
    <3> QED BY <1>1, <2>3, <2>4, <3>1, <3>2 DEF IInv, QueueInv, AwaitInv
  <2> QED BY <1>5, <2>2, <2>5, <2>6, <2>7 DEF IInv, QueueInv
<1> QED BY <1>6, <1>7, <1>8 DEF IInv

\* The protocol that closes is open, so its first message has come.
LEMMA ConnectionLostKept ==
  ASSUME IInv, NEW p \in Protocols, ConnectionLost(p)
  PROVE  IInv'
<1>1. tasks \in Seq(TaskSet) /\ Orderly(tasks) /\ TypeOK
  BY HalfTypes DEF IInv, QueueInv
<1>2. Settled(tasks)
  BY <1>1, CloseSettles DEF ConnectionLost
<1> QED BY <1>1, <1>2, NetStep DEF ConnectionLost

\* The end of a Connection object keeps the invariant.
LEMMA ConnectionGoneKept ==
  ASSUME IInv, NEW p \in Protocols, ConnectionGone(p)
  PROVE  IInv'
<1>1. tasks \in Seq(TaskSet) /\ Orderly(tasks) /\ TypeOK
  BY HalfTypes DEF IInv, QueueInv
<1>2. Settled(tasks)
  BY <1>1 DEF ConnectionGone, Settled, TypeOK
<1> QED BY <1>1, <1>2, NetStep DEF ConnectionGone

\* A protocol that accepts packets has logged in.
LEMMA ParseLogoutKept ==
  ASSUME IInv, NEW p \in Protocols, ParseLogout(p)
  PROVE  IInv'
<1>1. tasks \in Seq(TaskSet) /\ Orderly(tasks) /\ TypeOK
  BY HalfTypes DEF IInv, QueueInv
<1>2. p \notin Queued(tasks, "login") /\ life[p] = "open"
  BY DEF ParseLogout, IInv, QueueInv, LoginInv, Untouched
<1>3. /\ tasks' \in Seq(TaskSet) /\ Orderly(tasks') /\ Owners(tasks') = Owners(tasks) \cup {p}
      /\ \A o \in Ops : Queued(tasks', o) = Queued(tasks, o) \cup (IF o = "logout" THEN {p} ELSE {})
  BY <1>1, <1>2, QueueAppend DEF ParseLogout, Ops
<1>4. \A op \in {"login", "connect"} : Queued(tasks', op) = Queued(tasks, op)
  BY <1>3 DEF Ops
<1>5. Settled(tasks)
  BY <1>1, <1>2, <1>3, <1>4 DEF Settled, TypeOK, ParseLogout
<1> QED BY <1>1, <1>5, NetStep DEF ParseLogout

\* What Attach and Detach do to the two sides of a session.
LEMMA AttachAttached ==
  ASSUME TypeOK, Attached, NEW p \in Protocols, NEW o \in Protocols, player[p] = None, client[o] = None,
         player' = [player EXCEPT ![p] = o], client' = [client EXCEPT ![o] = p]
  PROVE  /\ Attached' /\ player'[p] = o /\ client'[o] = p
         /\ player' \in [Protocols -> Protocols \cup {None}]
         /\ client' \in [Protocols -> Protocols \cup {None}]
         /\ \A r \in Protocols \ {p} : player'[r] = player[r]
         /\ \A r \in Protocols \ {o} : client'[r] = client[r]
<1>1. player \in [Protocols -> Protocols \cup {None}] /\ client \in [Protocols -> Protocols \cup {None}]
  BY DEF TypeOK
<1>2. /\ player'[p] = o /\ client'[o] = p
      /\ player' \in [Protocols -> Protocols \cup {None}]
      /\ client' \in [Protocols -> Protocols \cup {None}]
      /\ \A r \in Protocols \ {p} : player'[r] = player[r]
      /\ \A r \in Protocols \ {o} : client'[r] = client[r]
  BY <1>1
<1>3. Attached'
  BY <1>2 DEF Attached
<1> QED BY <1>2, <1>3

\* Detaching an attached protocol keeps the invariant.
LEMMA DetachAttached ==
  ASSUME TypeOK, Attached, NEW p \in Protocols, Detach(p)
  PROVE  /\ Attached'
         /\ player' \in [Protocols -> Protocols \cup {None}]
         /\ client' \in [Protocols -> Protocols \cup {None}]
         /\ \A r \in Protocols \ {p} : player'[r] = player[r]
         /\ player'[p] \in {player[p], None}
         /\ player[p] = None => UNCHANGED <<client, refs>>
         /\ player[p] # None =>
              /\ client[player[p]] # None /\ client'[player[p]] = None
              /\ refs' = [refs EXCEPT ![player[p]] = @ - 1]
              /\ \A r \in Protocols \ {player[p]} : client'[r] = client[r]
<1>1. player \in [Protocols -> Protocols \cup {None}] /\ client \in [Protocols -> Protocols \cup {None}]
  BY DEF TypeOK
<1>2. CASE player[p] = None
  BY <1>1, <1>2 DEF Detach, Attached
<1>3. CASE player[p] # None
  <2>1. player[p] \in Protocols /\ client[player[p]] = p
    BY <1>1, <1>3 DEF Attached
  <2>2. /\ client' = [client EXCEPT ![player[p]] = None] /\ player' = [player EXCEPT ![p] = None]
        /\ refs' = [refs EXCEPT ![player[p]] = @ - 1]
    BY <1>3, <2>1 DEF Detach
  <2>3. /\ player' \in [Protocols -> Protocols \cup {None}] /\ client' \in [Protocols -> Protocols \cup {None}]
        /\ player'[p] = None /\ client'[player[p]] = None
        /\ \A r \in Protocols \ {p} : player'[r] = player[r]
        /\ \A r \in Protocols \ {player[p]} : client'[r] = client[r]
    BY <1>1, <2>1, <2>2
  <2>4. Attached'
    BY <2>1, <2>3 DEF Attached
  <2> QED BY <1>3, <2>1, <2>2, <2>3, <2>4
<1> QED BY <1>2, <1>3

\* One more reference for the client that o gets.
LEMMA AttachBalanced ==
  ASSUME TypeOK, RefsBalanced, NEW o \in Protocols, client[o] = None,
         refs' = [refs EXCEPT ![o] = @ + 1],
         client'[o] # None, \A r \in Protocols \ {o} : client'[r] = client[r],
         UNCHANGED <<game, checked, toRelease>>
  PROVE  RefsBalanced' /\ refs' \in [Protocols -> Nat]
<1>1. refs \in [Protocols -> Nat] /\ toRelease \in [Protocols -> Nat]
  BY DEF TypeOK
<1>2. refs'[o] = refs[o] + 1 /\ refs' \in [Protocols -> Nat] /\ \A r \in Protocols \ {o} : refs'[r] = refs[r]
  BY <1>1
<1>3. RefsBalanced'
  BY <1>1, <1>2 DEF RefsBalanced, One
<1> QED BY <1>2, <1>3

\* A refused login keeps the invariant.
LEMMA LoginRefusedKept ==
  ASSUME IInv, NEW p \in Protocols, LoginRefused(p)
  PROVE  IInv'
<1> DEFINE t == Tail(tasks)
<1>1. /\ t \in Seq(TaskSet) /\ Orderly(t) /\ Owners(t) \subseteq Owners(tasks)
      /\ \A o \in {"login", "connect"} : Queued(t, o) \subseteq Queued(tasks, o)
      /\ life[p] # "fresh" /\ p \notin Queued(t, "login") /\ Untouched(p) /\ p \notin Awaiting
  BY TaskRuns DEF IInv, LoginRefused, Ops
<1> HIDE DEF t
<1>2. /\ player[p] = None /\ client[p] = None /\ player' = [player EXCEPT ![p] = p]
      /\ client' = [client EXCEPT ![p] = p] /\ refs' = [refs EXCEPT ![p] = @ + 1]
      /\ UNCHANGED <<name, event, timers, accept, released, connecting, game, checked,
                     toRelease, buffered, sendAlls>>
  BY <1>1 DEF LoginRefused, Untouched, Attach, poolVars
<1>3. Settled(t)
  BY <1>1, CloseSettles DEF IInv, LoginRefused, t
<1>4. /\ Attached' /\ player'[p] = p /\ client'[p] = p
      /\ player' \in [Protocols -> Protocols \cup {None}]
      /\ client' \in [Protocols -> Protocols \cup {None}]
      /\ \A r \in Protocols \ {p} : player'[r] = player[r] /\ client'[r] = client[r]
  BY <1>2, AttachAttached DEF IInv
<1>5. RefsBalanced' /\ refs' \in [Protocols -> Nat] /\ \A r \in Protocols \ {p} : refs'[r] = refs[r]
  BY <1>2, <1>4, AttachBalanced DEF IInv, TypeOK
<1>6. TypeOK'
  BY <1>2, <1>3, <1>4, <1>5, Types, HalfTypes DEF IInv, TypeLeft
<1>7. FlushInv'
  BY <1>2 DEF IInv, FlushInv
<1>8. QueueInv'
  <2>1. \A r \in Protocols \ {p} : Untouched(r) => Untouched(r)'
    BY <1>2, <1>4, <1>5 DEF Untouched
  <2>2. timers' \subseteq timers \cup {p} /\ timers' \cap Queued(t, "connect") = {}
    BY <1>1, <1>2 DEF IInv, QueueInv
  <2>3. \A r \in timers' \cup Queued(t, "connect") :
          r \in Awaiting /\ r # p /\ r \in Protocols
    BY <1>1, <1>2 DEF Awaiting, Queued, IInv, TypeOK
  <2>4. \A r \in timers' \cup Queued(t, "connect") :
          player'[r] = None /\ r \in released' \cup Listed(buffered')
    BY <1>2, <1>4, <2>3 DEF IInv, QueueInv, AwaitInv
  <2>5. {p} \in SUBSET Protocols /\ \A r \in {p} : life[r] # "fresh" /\ r \notin Queued(t, "login")
    BY <1>1
  <2> QED BY <1>1, <1>3, <2>1, <2>2, <2>4, <2>5, QueueKept DEF IInv
<1> QED BY <1>4, <1>5, <1>6, <1>7, <1>8 DEF IInv

\* A login of a player already in the game keeps the invariant.
LEMMA LoginAlreadyKept ==
  ASSUME IInv, NEW p \in Protocols, LoginAlready(p)
  PROVE  IInv'
<1> DEFINE t == Tail(tasks)
<1>1. /\ t \in Seq(TaskSet) /\ Orderly(t) /\ Owners(t) \subseteq Owners(tasks)
      /\ \A o \in {"login", "connect"} : Queued(t, o) \subseteq Queued(tasks, o)
  BY TaskRuns DEF IInv, LoginAlready, Ops
<1>2. Settled(t)
  BY <1>1, CloseSettles DEF IInv, LoginAlready
<1> HIDE DEF t
<1> QED BY <1>1, <1>2, NetStep DEF LoginAlready

\* The new Player has its client's reference, the world's or the cleanup's,
\* and that of the check vector.
LEMMA LoginPlacedKept ==
  ASSUME IInv, NEW p \in Protocols, NEW kicked \in BOOLEAN, LoginPlaced(p, kicked)
  PROVE  IInv'
<1> DEFINE t == Tail(tasks)
<1>1. /\ t \in Seq(TaskSet) /\ Orderly(t) /\ Owners(t) \subseteq Owners(tasks)
      /\ \A o \in {"login", "connect"} : Queued(t, o) \subseteq Queued(tasks, o)
      /\ life[p] # "fresh" /\ p \notin Queued(t, "login") /\ Untouched(p) /\ p \notin Awaiting
  BY TaskRuns DEF IInv, LoginPlaced, Ops
<1> HIDE DEF t
<1>2. /\ player[p] = None /\ client[p] = None /\ player' = [player EXCEPT ![p] = p]
      /\ client' = [client EXCEPT ![p] = p] /\ refs' = [refs EXCEPT ![p] = 3]
      /\ checked' = checked \cup {p} /\ accept' = accept \cup {p}
      /\ AddToAutosend(p) /\ UNCHANGED <<name, event, timers, released, connecting>>
  BY <1>1 DEF LoginPlaced, Untouched
<1>3. \/ kicked /\ UNCHANGED game /\ toRelease' = [toRelease EXCEPT ![p] = @ + 1]
      \/ ~kicked /\ game' = game \cup {p} /\ UNCHANGED toRelease
  BY DEF LoginPlaced
<1>4. Settled(t)
  BY <1>1, CloseSettles DEF IInv, LoginPlaced, t
<1>5. /\ Attached' /\ player'[p] = p /\ client'[p] = p
      /\ player' \in [Protocols -> Protocols \cup {None}]
      /\ client' \in [Protocols -> Protocols \cup {None}]
      /\ \A r \in Protocols \ {p} : player'[r] = player[r] /\ client'[r] = client[r]
  BY <1>2, AttachAttached DEF IInv
<1>6. /\ refs' \in [Protocols -> Nat] /\ refs'[p] = 3
      /\ toRelease' \in [Protocols -> Nat]
      /\ \A r \in Protocols \ {p} : refs'[r] = refs[r] /\ toRelease'[r] = toRelease[r]
  <2>1. refs \in [Protocols -> Nat] /\ toRelease \in [Protocols -> Nat]
    BY DEF IInv, TypeOK
  <2>2. refs' \in [Protocols -> Nat] /\ refs'[p] = 3 /\ \A r \in Protocols \ {p} : refs'[r] = refs[r]
    BY <1>2, <2>1
  <2>3. toRelease' \in [Protocols -> Nat] /\ \A r \in Protocols \ {p} : toRelease'[r] = toRelease[r]
    BY <1>3, <2>1
  <2> QED BY <2>2, <2>3
<1>7. One(p \in game') + toRelease'[p] = 1
  BY <1>1, <1>3 DEF IInv, TypeOK, Untouched, One
<1>8. /\ buffered' \in Seq(Protocols) /\ buffered' # <<>> /\ Listed(buffered') = Listed(buffered) \cup {p}
      /\ Once(buffered') /\ sendAlls' \in Nat /\ sendAlls' > 0
  <2>1. buffered' = Append(buffered, p) /\ buffered \in Seq(Protocols) /\ p \notin Listed(buffered)
    BY <1>1, <1>2 DEF AddToAutosend, IInv, TypeOK, Untouched
  <2>2. sendAlls' \in Nat /\ sendAlls' > 0
    BY <1>2 DEF AddToAutosend, IInv, TypeOK, FlushInv
  <2> QED BY <2>1, <2>2, ListAdded DEF IInv, FlushInv
<1>9. RefsBalanced'
  <2> SUFFICES ASSUME NEW r \in Protocols
               PROVE  refs'[r] = One(client'[r] # None) + One(r \in game') + One(r \in checked') + toRelease'[r]
    BY DEF RefsBalanced
  <2>1. CASE r = p
    <3>1. One(client'[p] # None) = 1 /\ One(p \in checked') = 1
      BY <1>2, <1>5 DEF One
    <3>2. One(p \in game') \in Nat /\ toRelease'[p] \in Nat
      BY <1>6 DEF One
    <3> QED BY <1>6, <1>7, <2>1, <3>1, <3>2
  <2>2. CASE r # p
    <3>1. client'[r] = client[r] /\ refs'[r] = refs[r] /\ toRelease'[r] = toRelease[r]
      BY <1>5, <1>6, <2>2
    <3>2. (r \in game' <=> r \in game) /\ (r \in checked' <=> r \in checked)
      BY <1>2, <1>3, <2>2
    <3> QED BY <3>1, <3>2 DEF IInv, RefsBalanced, One
  <2> QED BY <2>1, <2>2
<1>10. TypeOK'
  <2>1. game' \subseteq Protocols /\ checked' \subseteq Protocols /\ accept' \subseteq Protocols
    BY <1>2, <1>3, HalfTypes DEF IInv, TypeLeft
  <2>2. TypeLeft' /\ name' \in [Protocols -> Characters]
    BY <1>2, <1>5, <1>6, <1>8, <2>1, HalfTypes DEF IInv, TypeLeft
  <2> QED BY <1>4, <2>2, Types
<1>11. FlushInv'
  BY <1>1, <1>2, <1>8 DEF IInv, FlushInv, Untouched
<1>12. QueueInv'
  <2>1. \A r \in Protocols \ {p} : Untouched(r) => Untouched(r)'
    BY <1>2, <1>3, <1>5, <1>6, <1>8 DEF Untouched
  <2>2. timers' \subseteq timers \cup {p} /\ timers' \cap Queued(t, "connect") = {}
    BY <1>1, <1>2 DEF IInv, QueueInv
  <2>3. \A r \in timers' \cup Queued(t, "connect") :
          r \in Awaiting /\ r # p /\ r \in Protocols
    BY <1>1, <1>2 DEF Awaiting, Queued, IInv, TypeOK
  <2>4. \A r \in timers' \cup Queued(t, "connect") :
          player'[r] = None /\ r \in released' \cup Listed(buffered')
    BY <1>2, <1>5, <1>8, <2>3 DEF IInv, QueueInv, AwaitInv
  <2>5. {p} \in SUBSET Protocols /\ \A r \in {p} : life[r] # "fresh" /\ r \notin Queued(t, "login")
    BY <1>1
  <2> QED BY <1>1, <1>4, <2>1, <2>2, <2>4, <2>5, QueueKept DEF IInv
<1> QED BY <1>5, <1>9, <1>10, <1>11, <1>12 DEF IInv

\* ProtocolGame::connect overwrites neither the Player of p nor the client of o.
LEMMA ConnectEffect ==
  ASSUME IInv, NEW p \in Protocols, NEW o, Connect(p, o), player[p] = None,
         Tail(tasks) \in Seq(TaskSet), Orderly(Tail(tasks)),
         UNCHANGED <<game, checked, toRelease>>
  PROVE  /\ Settled(Tail(tasks)) /\ Attached' /\ RefsBalanced'
         /\ player' \in [Protocols -> Protocols \cup {None}]
         /\ client' \in [Protocols -> Protocols \cup {None}]
         /\ refs' \in [Protocols -> Nat]
         /\ connecting' \subseteq Protocols /\ accept' \subseteq accept \cup {p}
         /\ \A r \in Protocols \ {p} : player'[r] = player[r]
         /\ \A r \in Protocols \ game : client'[r] = client[r] /\ refs'[r] = refs[r]
<1>1. Settled(Tail(tasks))
  BY CloseSettles DEF IInv, Connect, NoClose
<1>2. CASE UNCHANGED <<player, client, refs, connecting, accept>>
  <2>1. Attached' /\ RefsBalanced'
    BY <1>2 DEF IInv, Attached, RefsBalanced
  <2>2. TypeLeft
    BY HalfTypes DEF IInv
  <2> QED BY <1>1, <1>2, <2>1, <2>2 DEF TypeLeft
<1>3. CASE /\ MayConnect(o) /\ Attach(p, o)
           /\ connecting' = connecting \ {o} /\ accept' = accept \cup {p}
  <2>1. o \in game /\ o \in Protocols /\ client[o] = None
    BY <1>3, HalfTypes DEF MayConnect, IInv, TypeLeft
  <2>2. /\ Attached' /\ client'[o] = p /\ p # None
        /\ player' \in [Protocols -> Protocols \cup {None}]
        /\ client' \in [Protocols -> Protocols \cup {None}]
        /\ \A r \in Protocols \ {p} : player'[r] = player[r]
        /\ \A r \in Protocols \ {o} : client'[r] = client[r]
    BY <1>3, <2>1, AttachAttached DEF IInv, Attach
  <2>3. RefsBalanced' /\ refs' \in [Protocols -> Nat] /\ \A r \in Protocols \ {o} : refs'[r] = refs[r]
    <3>1. refs' = [refs EXCEPT ![o] = @ + 1] /\ refs \in [Protocols -> Nat]
      BY <1>3 DEF Attach, IInv, TypeOK
    <3>2. client'[o] # None
      BY <2>2
    <3> QED BY <2>1, <2>2, <3>1, <3>2, AttachBalanced DEF IInv
  <2> QED BY <1>1, <1>3, <2>1, <2>2, <2>3, HalfTypes DEF IInv, TypeLeft
<1> QED BY <1>2, <1>3 DEF Connect

\* addProtocolToAutosend of a protocol that is not listed.
LEMMA AutosendAdds ==
  ASSUME TypeOK, FlushInv, NEW p \in Protocols, p \notin Listed(buffered), AddToAutosend(p)
  PROVE  /\ buffered' \in Seq(Protocols) /\ buffered' # <<>> /\ Listed(buffered') = Listed(buffered) \cup {p}
         /\ Once(buffered') /\ sendAlls' \in Nat /\ sendAlls' > 0
<1>1. buffered' = Append(buffered, p) /\ buffered \in Seq(Protocols)
  BY DEF AddToAutosend, TypeOK
<1>2. sendAlls' \in Nat /\ sendAlls' > 0
  BY DEF AddToAutosend, TypeOK, FlushInv
<1> QED BY <1>1, <1>2, ListAdded DEF FlushInv

\* A login that enters the game keeps the invariant.
LEMMA LoginConnectsKept ==
  ASSUME IInv, NEW p \in Protocols, LoginConnects(p)
  PROVE  IInv'
<1> DEFINE t == Tail(tasks)
<1>1. /\ t \in Seq(TaskSet) /\ Orderly(t) /\ Owners(t) \subseteq Owners(tasks)
      /\ \A o \in {"login", "connect"} : Queued(t, o) \subseteq Queued(tasks, o)
      /\ life[p] # "fresh" /\ p \notin Queued(t, "login") /\ Untouched(p) /\ p \notin Awaiting
  BY TaskRuns DEF IInv, LoginConnects, Ops
<1>2. /\ player[p] = None /\ AddToAutosend(p)
      /\ UNCHANGED <<name, event, timers, released, game, checked, toRelease>>
  BY <1>1 DEF LoginConnects, Untouched
<1>3. PICK o \in Found(p) : client[o] = None /\ Connect(p, o)
  BY DEF LoginConnects
<1>4. /\ Settled(t) /\ Attached' /\ RefsBalanced'
      /\ player' \in [Protocols -> Protocols \cup {None}]
      /\ client' \in [Protocols -> Protocols \cup {None}]
      /\ refs' \in [Protocols -> Nat]
      /\ connecting' \subseteq Protocols /\ accept' \subseteq accept \cup {p}
      /\ \A r \in Protocols \ {p} : player'[r] = player[r]
      /\ \A r \in Protocols \ game : client'[r] = client[r] /\ refs'[r] = refs[r]
  BY <1>1, <1>2, <1>3, ConnectEffect
<1> HIDE DEF t
<1>5. /\ buffered' \in Seq(Protocols) /\ buffered' # <<>> /\ Listed(buffered') = Listed(buffered) \cup {p}
      /\ Once(buffered') /\ sendAlls' \in Nat /\ sendAlls' > 0
  BY <1>1, <1>2, AutosendAdds DEF IInv, Untouched
<1>6. TypeOK'
  <2>1. TypeLeft' /\ name' \in [Protocols -> Characters]
    BY <1>2, <1>4, <1>5, HalfTypes DEF IInv, TypeLeft
  <2> QED BY <1>4, <2>1, Types
<1>7. FlushInv'
  BY <1>1, <1>2, <1>4, <1>5 DEF IInv, FlushInv, Untouched
<1>8. QueueInv'
  <2>1. \A r \in Protocols \ {p} : Untouched(r) => Untouched(r)'
    BY <1>2, <1>4, <1>5 DEF Untouched
  <2>2. timers' \subseteq timers \cup {p} /\ timers' \cap Queued(t, "connect") = {}
    BY <1>1, <1>2 DEF IInv, QueueInv
  <2>3. \A r \in timers' \cup Queued(t, "connect") :
          r \in Awaiting /\ r # p /\ r \in Protocols
    BY <1>1, <1>2 DEF Awaiting, Queued, IInv, TypeOK
  <2>4. \A r \in timers' \cup Queued(t, "connect") :
          player'[r] = None /\ r \in released' \cup Listed(buffered')
    BY <1>2, <1>4, <1>5, <2>3 DEF IInv, QueueInv, AwaitInv
  <2>5. {p} \in SUBSET Protocols /\ \A r \in {p} : life[r] # "fresh" /\ r \notin Queued(t, "login")
    BY <1>1
  <2> QED BY <1>1, <1>4, <2>1, <2>2, <2>4, <2>5, QueueKept DEF IInv
<1> QED BY <1>4, <1>6, <1>7, <1>8 DEF IInv

\* The protocol that takes over waits for its connect, listed and without a Player.
LEMMA LoginReplacesKept ==
  ASSUME IInv, NEW p \in Protocols, LoginReplaces(p)
  PROVE  IInv'
<1> DEFINE t == Tail(tasks)
<1>1. /\ t \in Seq(TaskSet) /\ Orderly(t) /\ Owners(t) \subseteq Owners(tasks)
      /\ \A o \in {"login", "connect"} : Queued(t, o) \subseteq Queued(tasks, o)
      /\ life[p] # "fresh" /\ p \notin Queued(t, "login") /\ Untouched(p) /\ p \notin Awaiting
  BY TaskRuns DEF IInv, LoginReplaces, Ops
<1>2. /\ player[p] = None /\ AddToAutosend(p)
      /\ UNCHANGED <<name, player, accept, released, client, refs, game, checked, toRelease>>
  BY <1>1 DEF LoginReplaces, Untouched
<1>3. PICK o \in Found(p) : /\ client[o] # None /\ Close(client[o], t)
                            /\ connecting' = connecting \cup {o} /\ Await(p, o)
  BY DEF LoginReplaces
<1>4. o \in Protocols /\ client[o] \in Protocols
  BY <1>3, HalfTypes DEF Found, IInv, TypeLeft
<1>5. Settled(t)
  BY <1>1, <1>3, <1>4, CloseSettles DEF IInv
<1> HIDE DEF t
<1>6. timers' = timers \cup {p} /\ event' = [event EXCEPT ![p] = o]
  BY <1>3 DEF Await
<1>7. /\ buffered' \in Seq(Protocols) /\ buffered' # <<>> /\ Listed(buffered') = Listed(buffered) \cup {p}
      /\ Once(buffered') /\ sendAlls' \in Nat /\ sendAlls' > 0
  BY <1>1, <1>2, AutosendAdds DEF IInv, Untouched
<1>8. TypeOK'
  <2>1. event' \in [Protocols -> Protocols \cup {None}] /\ timers' \subseteq Protocols
        /\ connecting' \subseteq Protocols
    BY <1>3, <1>4, <1>6, HalfTypes DEF IInv, TypeLeft
  <2>2. TypeLeft' /\ name' \in [Protocols -> Characters]
    BY <1>2, <1>7, <2>1, HalfTypes DEF IInv, TypeLeft
  <2> QED BY <1>5, <2>2, Types
<1>9. Attached' /\ RefsBalanced'
  BY <1>2 DEF IInv, Attached, RefsBalanced
<1>10. FlushInv'
  BY <1>1, <1>2, <1>7 DEF IInv, FlushInv, Untouched
<1>11. QueueInv'
  <2>1. \A r \in Protocols \ {p} : Untouched(r) => Untouched(r)'
    BY <1>2, <1>6, <1>7 DEF Untouched
  <2>2. timers' \subseteq timers \cup {p} /\ timers' \cap Queued(t, "connect") = {}
    BY <1>1, <1>6 DEF IInv, QueueInv, Awaiting
  <2>3. \A r \in timers' \cup Queued(t, "connect") : r = p \/ r \in Awaiting
    BY <1>1, <1>6 DEF Awaiting
  <2>4. \A r \in timers' \cup Queued(t, "connect") :
          player'[r] = None /\ r \in released' \cup Listed(buffered')
    BY <1>2, <1>7, <2>3 DEF IInv, QueueInv, AwaitInv
  <2>5. {p} \in SUBSET Protocols /\ \A r \in {p} : life[r] # "fresh" /\ r \notin Queued(t, "login")
    BY <1>1
  <2> QED BY <1>1, <1>5, <2>1, <2>2, <2>4, <2>5, QueueKept DEF IInv
<1> QED BY <1>8, <1>9, <1>10, <1>11 DEF IInv

\* The event leaves the scheduler for the queue.
LEMMA ConnectExpiresKept ==
  ASSUME IInv, NEW p \in Protocols, ConnectExpires(p)
  PROVE  IInv'
<1> USE DEF worldVars, poolVars
<1>1. /\ p \in timers /\ timers' = timers \ {p} /\ tasks' = Append(tasks, Task("connect", p))
      /\ UNCHANGED <<life, posted, name, event, player, accept, released, worldVars, poolVars>>
  BY DEF ConnectExpires
<1>2. p \in Awaiting /\ p \notin Queued(tasks, "connect") /\ p \notin Queued(tasks, "login")
  BY <1>1 DEF Awaiting, IInv, QueueInv, AwaitInv
<1>3. tasks \in Seq(TaskSet) /\ Orderly(tasks)
  BY HalfTypes DEF IInv, QueueInv
<1>4. /\ tasks' \in Seq(TaskSet) /\ Orderly(tasks') /\ Owners(tasks') = Owners(tasks) \cup {p}
      /\ \A o \in Ops : Queued(tasks', o) = Queued(tasks, o) \cup (IF o = "connect" THEN {p} ELSE {})
  BY <1>1, <1>2, <1>3, QueueAppend DEF Ops
<1>5. Queued(tasks', "login") = Queued(tasks, "login") /\ Queued(tasks', "connect") = Queued(tasks, "connect") \cup {p}
  BY <1>4 DEF Ops
<1>6. TypeOK'
  BY <1>1, <1>4 DEF IInv, TypeOK, TaskSet
<1>7. Attached' /\ RefsBalanced' /\ FlushInv'
  BY <1>1 DEF IInv, Attached, RefsBalanced, FlushInv
<1>8. QueueInv'
  <2>1. \A r \in Protocols : Untouched(r) => Untouched(r)'
    BY <1>1 DEF Untouched
  <2>2. Awaiting' = Awaiting
    BY <1>1, <1>5 DEF Awaiting
  <2>3. FreshInv'
    BY <1>1, <1>2, <1>4, <2>1 DEF IInv, QueueInv, FreshInv, AwaitInv
  <2>4. LoginInv'
    <3> SUFFICES ASSUME NEW r \in Queued(tasks, "login") PROVE life'[r] # "fresh" /\ Untouched(r)'
      BY <1>5 DEF LoginInv
    <3> QED BY <1>1, <2>1 DEF IInv, QueueInv, LoginInv, Queued
  <2>5. AwaitInv'
    <3> SUFFICES ASSUME NEW r \in Awaiting
                 PROVE  /\ player'[r] = None /\ life'[r] # "fresh" /\ r \notin Queued(tasks', "login")
                        /\ r \in released' \cup Listed(buffered')
      BY <2>2 DEF AwaitInv
    <3> QED BY <1>1, <1>5 DEF IInv, QueueInv, AwaitInv
  <2>6. timers' \cap Queued(tasks', "connect") = {}
    BY <1>1, <1>5 DEF IInv, QueueInv
  <2> QED BY <1>4, <2>3, <2>4, <2>5, <2>6 DEF QueueInv
<1> QED BY <1>6, <1>7, <1>8 DEF IInv

\* The delayed connect keeps the invariant.
LEMMA RunConnectKept ==
  ASSUME IInv, NEW p \in Protocols, RunConnect(p)
  PROVE  IInv'
<1> USE DEF poolVars
<1> DEFINE t == Tail(tasks)
<1>1. /\ t \in Seq(TaskSet) /\ Orderly(t) /\ Owners(t) \subseteq Owners(tasks)
      /\ \A o \in {"login", "connect"} : Queued(t, o) \subseteq Queued(tasks, o)
      /\ life[p] # "fresh" /\ p \notin Queued(t, "login")
      /\ p \in Awaiting /\ player[p] = None /\ p \notin timers \cup Queued(t, "connect")
  BY TaskRuns DEF IInv, RunConnect, Ops
<1>2. /\ event' = [event EXCEPT ![p] = None] /\ Connect(p, event[p])
      /\ UNCHANGED <<name, timers, released, game, checked, toRelease, buffered, sendAlls>>
  BY DEF RunConnect
<1>3. /\ Settled(t) /\ Attached' /\ RefsBalanced'
      /\ player' \in [Protocols -> Protocols \cup {None}]
      /\ client' \in [Protocols -> Protocols \cup {None}]
      /\ refs' \in [Protocols -> Nat]
      /\ connecting' \subseteq Protocols /\ accept' \subseteq accept \cup {p}
      /\ \A r \in Protocols \ {p} : player'[r] = player[r]
      /\ \A r \in Protocols \ game : client'[r] = client[r] /\ refs'[r] = refs[r]
  BY <1>1, <1>2, ConnectEffect
<1> HIDE DEF t
<1>4. TypeOK'
  <2>1. TypeLeft' /\ name' \in [Protocols -> Characters]
    BY <1>2, <1>3, HalfTypes DEF IInv, TypeLeft
  <2> QED BY <1>3, <2>1, Types
<1>5. p \in released \cup Listed(buffered) /\ p \notin Queued(tasks, "login")
  BY <1>1 DEF IInv, QueueInv, AwaitInv
<1>6. FlushInv'
  BY <1>2, <1>3, <1>5 DEF IInv, FlushInv
<1>7. QueueInv'
  <2>1. \A r \in Protocols \ {p} : Untouched(r) => Untouched(r)'
    BY <1>2, <1>3 DEF Untouched
  <2>2. timers' \subseteq timers \cup {p} /\ timers' \cap Queued(t, "connect") = {}
    BY <1>1, <1>2 DEF IInv, QueueInv
  <2>3. \A r \in timers' \cup Queued(t, "connect") : r \in Awaiting /\ r # p /\ r \in Protocols
    BY <1>1, <1>2 DEF Awaiting, Queued, IInv, TypeOK
  <2>4. \A r \in timers' \cup Queued(t, "connect") :
          player'[r] = None /\ r \in released' \cup Listed(buffered')
    BY <1>2, <1>3, <2>3 DEF IInv, QueueInv, AwaitInv
  <2>5. {p} \in SUBSET Protocols /\ \A r \in {p} : life[r] # "fresh" /\ r \notin Queued(t, "login")
    BY <1>1
  <2> QED BY <1>1, <1>3, <2>1, <2>2, <2>4, <2>5, QueueKept DEF IInv
<1> QED BY <1>3, <1>4, <1>6, <1>7 DEF IInv

\* release() drops the one reference of its Player and takes its protocol off the list.
LEMMA ReleaseKept ==
  ASSUME IInv, NEW p \in Protocols, Release(p)
  PROVE  IInv'
<1> DEFINE t == Tail(tasks)
<1>1. /\ t \in Seq(TaskSet) /\ Orderly(t) /\ Owners(t) \subseteq Owners(tasks)
      /\ \A o \in {"login", "connect"} : Queued(t, o) \subseteq Queued(tasks, o)
      /\ life[p] # "fresh" /\ p \notin Queued(t, "login")
  BY TaskRuns DEF IInv, Release, Ops
<1>2. /\ released' = released \cup {p} /\ RemoveFromAutosend(p) /\ Detach(p)
      /\ UNCHANGED <<name, event, timers, accept, connecting, game, checked, toRelease, sendAlls>>
  BY DEF Release, RemoveFromAutosend
<1>3. Settled(t)
  BY <1>1, CloseSettles DEF IInv, Release
<1> HIDE DEF t
<1>4. /\ Attached'
      /\ player' \in [Protocols -> Protocols \cup {None}]
      /\ client' \in [Protocols -> Protocols \cup {None}]
      /\ \A r \in Protocols \ {p} : player'[r] = player[r]
      /\ player'[p] \in {player[p], None}
      /\ player[p] = None => UNCHANGED <<client, refs>>
      /\ player[p] # None =>
           /\ client[player[p]] # None /\ client'[player[p]] = None
           /\ refs' = [refs EXCEPT ![player[p]] = @ - 1]
           /\ \A r \in Protocols \ {player[p]} : client'[r] = client[r]
  BY <1>2, DetachAttached DEF IInv
<1>5. /\ refs' \in [Protocols -> Nat] /\ RefsBalanced'
      /\ \A r \in Protocols : client[r] = None => client'[r] = None /\ refs'[r] = refs[r]
  <2>1. refs \in [Protocols -> Nat] /\ toRelease \in [Protocols -> Nat]
        /\ player \in [Protocols -> Protocols \cup {None}]
    BY DEF IInv, TypeOK
  <2>2. CASE player[p] = None
    BY <1>2, <1>4, <2>1, <2>2 DEF IInv, RefsBalanced
  <2>3. CASE player[p] # None
    <3> DEFINE o == player[p]
    <3>1. o \in Protocols /\ client[o] # None /\ client'[o] = None
      BY <1>4, <2>1, <2>3
    <3>2. /\ refs' = [refs EXCEPT ![o] = @ - 1]
          /\ \A r \in Protocols \ {o} : client'[r] = client[r]
      BY <1>4, <2>3
    <3> HIDE DEF o
    <3>3. refs[o] - 1 \in Nat
      <4>1. refs[o] = 1 + One(o \in game) + One(o \in checked) + toRelease[o]
        BY <3>1 DEF IInv, RefsBalanced, One
      <4>2. One(o \in game) \in Nat /\ One(o \in checked) \in Nat /\ toRelease[o] \in Nat
        BY <2>1, <3>1 DEF One
      <4> QED BY <4>1, <4>2
    <3>4. /\ refs' \in [Protocols -> Nat] /\ refs'[o] = refs[o] - 1
          /\ \A r \in Protocols \ {o} : refs'[r] = refs[r]
      BY <2>1, <3>1, <3>2, <3>3
    <3>5. RefsBalanced'
      BY <1>2, <2>1, <3>1, <3>2, <3>4 DEF IInv, RefsBalanced, One
    <3> QED BY <3>1, <3>2, <3>4, <3>5
  <2> QED BY <2>2, <2>3
<1>6. /\ buffered' \in Seq(Protocols) /\ Once(buffered')
      /\ Listed(buffered') = Listed(buffered) \ {p} /\ (buffered' # <<>> => buffered # <<>>)
  BY <1>2, ListRemoved DEF IInv, FlushInv, TypeOK
<1>7. TypeOK'
  <2>1. TypeLeft' /\ name' \in [Protocols -> Characters]
    BY <1>2, <1>4, <1>5, <1>6, HalfTypes DEF IInv, TypeLeft
  <2> QED BY <1>3, <2>1, Types
<1>8. FlushInv'
  BY <1>2, <1>6 DEF IInv, FlushInv
<1>9. QueueInv'
  <2>1. \A r \in Protocols \ {p} : Untouched(r) => Untouched(r)'
    BY <1>2, <1>4, <1>5, <1>6 DEF Untouched
  <2>2. timers' \subseteq timers \cup {p} /\ timers' \cap Queued(t, "connect") = {}
    BY <1>1, <1>2 DEF IInv, QueueInv
  <2>3. \A r \in timers' \cup Queued(t, "connect") : r \in Awaiting /\ r \in Protocols
    BY <1>1, <1>2 DEF Awaiting, Queued, IInv, TypeOK
  <2>4. \A r \in timers' \cup Queued(t, "connect") :
          player'[r] = None /\ r \in released' \cup Listed(buffered')
    BY <1>2, <1>4, <1>6, <2>3 DEF IInv, QueueInv, AwaitInv
  <2>5. {p} \in SUBSET Protocols /\ \A r \in {p} : life[r] # "fresh" /\ r \notin Queued(t, "login")
    BY <1>1
  <2> QED BY <1>1, <1>3, <2>1, <2>2, <2>4, <2>5, QueueKept DEF IInv
<1> QED BY <1>4, <1>5, <1>7, <1>8, <1>9 DEF IInv

\* A step that does no more to the game than removing creatures of G moves their
\* references from the world to the entries that wait for cleanup.
LEMMA RemovalKept ==
  ASSUME IInv, NEW t \in Seq(TaskSet), Settled(t),
         Owners(t) \subseteq Owners(tasks),
         \A o \in {"login", "connect"} : Queued(t, o) \subseteq Queued(tasks, o),
         (UNCHANGED <<game, toRelease>>) \/ (\E o \in Protocols : RemoveCreature(o)),
         UNCHANGED <<name, protoVars, client, connecting, refs, checked, poolVars>>
  PROVE  IInv'
<1> USE DEF protoVars, poolVars
<1>1. CASE UNCHANGED <<game, toRelease>>
  BY <1>1, NetStep DEF worldVars
<1>2. CASE \E o \in Protocols : RemoveCreature(o)
  <2>1. PICK o \in Protocols : RemoveCreature(o)
    BY <1>2
  <2>2. game' = game \ {o} /\ toRelease' = IF o \in game THEN [toRelease EXCEPT ![o] = @ + 1] ELSE toRelease
    BY <2>1 DEF RemoveCreature
  <2>3. toRelease \in [Protocols -> Nat] /\ refs \in [Protocols -> Nat]
    BY DEF IInv, TypeOK
  <2>4. /\ toRelease' \in [Protocols -> Nat] /\ \A r \in Protocols \ {o} : toRelease'[r] = toRelease[r]
        /\ toRelease'[o] = IF o \in game THEN toRelease[o] + 1 ELSE toRelease[o]
    BY <2>2, <2>3
  <2>5. TypeOK'
    <3>1. TypeLeft' /\ name' \in [Protocols -> Characters]
      BY <2>2, <2>4, HalfTypes DEF IInv, TypeLeft
    <3> QED BY <3>1, Types
  <2>6. Attached' /\ FlushInv'
    BY DEF IInv, Attached, FlushInv
  <2>7. RefsBalanced'
    <3> SUFFICES ASSUME NEW r \in Protocols
                 PROVE  refs[r] = One(client[r] # None) + One(r \in game') + One(r \in checked) + toRelease'[r]
      BY DEF RefsBalanced
    <3>1. One(r \in game') + toRelease'[r] = One(r \in game) + toRelease[r]
      BY <2>2, <2>3, <2>4 DEF One
    <3>2. /\ One(r \in game') \in Nat /\ One(r \in game) \in Nat /\ One(client[r] # None) \in Nat
          /\ One(r \in checked) \in Nat /\ toRelease[r] \in Nat /\ toRelease'[r] \in Nat
      BY <2>3, <2>4 DEF One
    <3>3. refs[r] = One(client[r] # None) + One(r \in game) + One(r \in checked) + toRelease[r]
      BY DEF IInv, RefsBalanced
    <3> DEFINE c == One(client[r] # None)
               g == One(r \in game)
               h == One(r \in game')
               v == One(r \in checked)
               w == toRelease[r]
               x == toRelease'[r]
    <3>4. /\ h + x = g + w /\ refs[r] = c + g + v + w
          /\ c \in Nat /\ g \in Nat /\ h \in Nat /\ v \in Nat /\ w \in Nat /\ x \in Nat
      BY <3>1, <3>2, <3>3
    <3> HIDE DEF c, g, h, v, w, x
    <3>5. c + g + v + w = c + h + v + x
      BY <3>4
    <3> QED BY <3>4, <3>5 DEF c, h, v, x
  <2>8. QueueInv'
    <3>1. \A r \in Protocols : Untouched(r) => Untouched(r)'
      BY <2>2, <2>4 DEF Untouched
    <3>2. timers' = timers /\ timers' \cap Queued(t, "connect") = {}
      BY DEF IInv, QueueInv
    <3>3. \A r \in timers' \cup Queued(t, "connect") :
            player'[r] = None /\ r \in released' \cup Listed(buffered')
      BY DEF IInv, QueueInv, AwaitInv, Awaiting
    <3> DEFINE X == {}
    <3>4. X \in SUBSET Protocols /\ (\A p \in X : life[p] # "fresh" /\ p \notin Queued(t, "login"))
      OBVIOUS
    <3>5. (\A r \in Protocols \ X : Untouched(r) => Untouched(r)') /\ timers' \subseteq timers \cup X
      BY <3>1, <3>2
    <3> HIDE DEF X
    <3> QED BY <3>2, <3>3, <3>4, <3>5, QueueKept DEF IInv
  <2> QED BY <2>5, <2>6, <2>7, <2>8 DEF IInv
<1> QED BY <1>1, <1>2

\* A logout keeps the invariant.
LEMMA LogoutKept ==
  ASSUME IInv, NEW p \in Protocols, NEW allowed \in BOOLEAN, Logout(p, allowed)
  PROVE  IInv'
<1> DEFINE t == Tail(tasks)
<1>1. /\ t \in Seq(TaskSet) /\ Orderly(t) /\ Owners(t) \subseteq Owners(tasks)
      /\ \A o \in {"login", "connect"} : Queued(t, o) \subseteq Queued(tasks, o)
  BY TaskRuns DEF IInv, Logout, Ops
<1>2. Settled(t)
  BY <1>1, CloseSettles DEF IInv, Logout
<1> HIDE DEF t
<1>3. (UNCHANGED <<game, toRelease>>) \/ (\E o \in Protocols : RemoveCreature(o))
  BY DEF IInv, TypeOK, Logout
<1> QED BY <1>1, <1>2, <1>3, RemovalKept DEF Logout

\* A kick keeps the invariant.
LEMMA KickPlayerKept ==
  ASSUME IInv, NEW o \in Protocols, KickPlayer(o)
  PROVE  IInv'
<1>1. tasks \in Seq(TaskSet) /\ Orderly(tasks)
  BY HalfTypes DEF IInv, QueueInv
<1>2. client[o] # None => client[o] \in Protocols
  BY DEF IInv, TypeOK
<1>3. Settled(tasks)
  BY <1>1, <1>2, CloseSettles DEF IInv, KickPlayer
<1>4. (UNCHANGED <<game, toRelease>>) \/ (\E q \in Protocols : RemoveCreature(q))
  BY <1>2 DEF IInv, TypeOK, KickPlayer
<1> QED BY <1>1, <1>3, <1>4, RemovalKept DEF KickPlayer

\* A death keeps the invariant.
LEMMA DieKept ==
  ASSUME IInv, NEW o \in Protocols, Die(o)
  PROVE  IInv'
<1>1. tasks \in Seq(TaskSet) /\ Orderly(tasks)
  BY HalfTypes DEF IInv, QueueInv
<1>2. Settled(tasks)
  BY <1>1 DEF Settled, IInv, TypeOK, Die, netVars
<1> QED BY <1>1, <1>2, RemovalKept DEF Die, netVars

\* Cleanup drops the references of the entries and of those the vector forgets.
LEMMA CheckCreaturesKept ==
  ASSUME IInv, NEW bucket \in SUBSET checked, CheckCreatures(bucket)
  PROVE  IInv'
<1> USE DEF netVars, protoVars, poolVars
<1> DEFINE gone == bucket \ game
<1>1. /\ checked' = checked \ gone /\ gone \subseteq checked
      /\ refs' = [o \in Protocols |-> refs[o] - Dropped(o, gone)]
      /\ toRelease' = [o \in Protocols |-> 0]
      /\ UNCHANGED <<netVars, protoVars, client, connecting, game, poolVars>>
  BY DEF CheckCreatures
<1> HIDE DEF gone
<1>2. toRelease \in [Protocols -> Nat] /\ refs \in [Protocols -> Nat]
  BY DEF IInv, TypeOK
<1>3. ASSUME NEW o \in Protocols
      PROVE  /\ refs'[o] \in Nat /\ toRelease'[o] = 0
             /\ refs'[o] = One(client[o] # None) + One(o \in game) + One(o \in checked')
             /\ refs[o] = 0 => refs'[o] = 0
  <2>1. refs[o] = One(client[o] # None) + One(o \in game) + One(o \in checked) + toRelease[o]
    BY DEF IInv, RefsBalanced
  <2>2. /\ One(client[o] # None) \in Nat /\ One(o \in game) \in Nat
        /\ One(o \in checked) \in Nat /\ One(o \in checked') \in Nat /\ toRelease[o] \in Nat
    BY <1>2 DEF One
  <2>3. /\ Dropped(o, gone) = toRelease[o] + (One(o \in checked) - One(o \in checked'))
        /\ One(o \in checked') <= One(o \in checked)
    BY <1>1, <1>2 DEF Dropped, One
  <2>4. refs'[o] = refs[o] - Dropped(o, gone) /\ toRelease'[o] = 0
    BY <1>1
  <2> DEFINE c == One(client[o] # None)
             g == One(o \in game)
             v == One(o \in checked)
             w == One(o \in checked')
             d == Dropped(o, gone)
  <2>5. /\ refs[o] = c + g + v + toRelease[o] /\ d = toRelease[o] + (v - w) /\ w <= v
        /\ c \in Nat /\ g \in Nat /\ v \in Nat /\ w \in Nat /\ toRelease[o] \in Nat
        /\ refs'[o] = refs[o] - d
    BY <2>1, <2>2, <2>3, <2>4
  <2> DEFINE n == refs[o]
             t == toRelease[o]
             m == refs'[o]
  <2>6. n = c + g + v + t /\ m = n - d /\ d = t + (v - w)
        /\ c \in Nat /\ g \in Nat /\ v \in Nat /\ w \in Nat /\ t \in Nat /\ w <= v
    BY <2>5
  <2> HIDE DEF c, g, v, w, d, n, t, m
  <2>7. m = c + g + w
    BY <2>6
  <2>8. m \in Nat /\ (n = 0 => m = 0)
    BY <2>6, <2>7
  <2> QED BY <2>4, <2>7, <2>8 DEF c, g, w, n, m
<1>4. refs' \in [Protocols -> Nat] /\ toRelease' \in [Protocols -> Nat]
  BY <1>1, <1>3
<1>5. TypeOK'
  BY <1>1, <1>4 DEF IInv, TypeOK
<1>6. Attached' /\ FlushInv'
  BY <1>1 DEF IInv, Attached, FlushInv
<1>7. RefsBalanced'
  BY <1>1, <1>3, <1>4 DEF RefsBalanced, One
<1>8. QueueInv'
  <2>1. \A r \in Protocols : Untouched(r) => Untouched(r)'
    BY <1>1, <1>3 DEF Untouched
  <2> QED BY <1>1, <2>1 DEF IInv, QueueInv, FreshInv, LoginInv, AwaitInv, Awaiting, Queued
<1> QED BY <1>5, <1>6, <1>7, <1>8 DEF IInv

\* The autosend keeps the invariant.
LEMMA SendAllKept ==
  ASSUME IInv, SendAll
  PROVE  IInv'
<1> USE DEF netVars, protoVars, worldVars
<1>1. TypeOK'
  BY DEF IInv, TypeOK, SendAll
<1>2. Attached' /\ RefsBalanced' /\ FlushInv'
  BY DEF IInv, Attached, RefsBalanced, FlushInv, SendAll
<1>3. QueueInv'
  BY DEF IInv, QueueInv, FreshInv, LoginInv, AwaitInv, Awaiting, Untouched, SendAll
<1> QED BY <1>1, <1>2, <1>3 DEF IInv

\* The first state satisfies the invariant.
LEMMA InitKept == Init => IInv
<1> SUFFICES ASSUME Init PROVE IInv
  OBVIOUS
<1>1. tasks = <<>> /\ buffered = <<>> /\ timers = {} /\ accept = {} /\ DOMAIN tasks = {} /\ DOMAIN buffered = {}
  BY DEF Init
<1>2. TypeOK
  BY <1>1, EmptySeq DEF Init, TypeOK
<1>3. Attached
  BY DEF Init, Attached
<1>4. RefsBalanced
  BY DEF Init, RefsBalanced, One
<1>5. Listed(buffered) = {} /\ Once(buffered) /\ Owners(tasks) = {} /\ Orderly(tasks)
  BY <1>1 DEF Listed, Once, Owners, Orderly
<1>6. Queued(tasks, "login") = {} /\ Queued(tasks, "connect") = {} /\ Awaiting = {}
  BY <1>1 DEF Queued, Awaiting
<1>7. FlushInv
  BY <1>1, <1>5 DEF FlushInv
<1>8. \A p \in Protocols : Untouched(p)
  BY <1>1, <1>5 DEF Init, Untouched
<1>9. QueueInv
  BY <1>1, <1>5, <1>6, <1>8 DEF QueueInv, FreshInv, LoginInv, AwaitInv
<1> QED BY <1>2, <1>3, <1>4, <1>7, <1>9 DEF IInv

\* Every step keeps the invariant.
LEMMA StepKept == IInv /\ [Next]_vars => IInv'
<1> SUFFICES ASSUME IInv, [Next]_vars PROVE IInv'
  OBVIOUS
<1>1. ASSUME NEW p \in Protocols, RunDispatcher(p) PROVE IInv'
  BY <1>1, LoginRefusedKept, LoginPlacedKept, LoginAlreadyKept, LoginReplacesKept, LoginConnectsKept,
     RunConnectKept, ReleaseKept, LogoutKept DEF RunDispatcher
<1>2. ASSUME NEW p \in Protocols,
             \/ ConnectExpires(p) \/ ConnectionLost(p) \/ ConnectionGone(p) \/ ParseLogout(p)
             \/ \E ok \in BOOLEAN : FirstMessage(p, ok)
      PROVE  IInv'
  BY <1>2, ConnectExpiresKept, ConnectionLostKept, ConnectionGoneKept, ParseLogoutKept, FirstMessageKept
<1>3. ASSUME NEW o \in Players, KickPlayer(o) \/ Die(o) PROVE IInv'
  BY <1>3, KickPlayerKept, DieKept
<1>4. ASSUME NEW bucket \in SUBSET checked, CheckCreatures(bucket) PROVE IInv'
  BY <1>4, CheckCreaturesKept
<1>5. CASE UNCHANGED vars
  BY <1>5 DEF IInv, TypeOK, Attached, RefsBalanced, FlushInv, QueueInv, FreshInv, LoginInv, AwaitInv,
     Awaiting, Untouched, vars, netVars, protoVars, worldVars, poolVars
<1> QED BY <1>1, <1>2, <1>3, <1>4, <1>5, SendAllKept DEF Next

\* The invariant holds in every reachable state.
LEMMA Invariant == Spec => []IInv
BY InitKept, StepKept, PTL DEF Spec

\* Every state the program reaches has the types of TypeOK.
THEOREM TypeCorrect == Spec => []TypeOK
<1>1. IInv => TypeOK
  BY DEF IInv
<1> QED BY <1>1, Invariant, PTL

\* A Player and its client name each other, its references are those of the ones
\* that hold it, and the protocols that play are flushed.
THEOREM HeldByTheirOwners == Spec => []PlayersHeld
<1>1. ASSUME IInv PROVE PlayersFlushed
  <2>1. \A p \in accept \ released : p \in Listed(buffered)
    BY <1>1 DEF IInv, FlushInv
  <2>2. \A i \in DOMAIN buffered : buffered[i] \notin released
    BY <1>1 DEF IInv, FlushInv, Listed
  <2>3. (buffered # <<>> => sendAlls > 0) /\ Once(buffered)
    BY <1>1 DEF IInv, FlushInv
  <2> QED BY <2>1, <2>2, <2>3 DEF PlayersFlushed, Listed, Once
<1>2. IInv => PlayersHeld
  BY <1>1 DEF IInv, PlayersHeld
<1> QED BY <1>2, Invariant, PTL

-----------------------------------------------------------------------------
(* One Player of a character in the game                                   *)

OnlineInv ==
  /\ \A o1, o2 \in game : name[o1] = name[o2] => o1 = o2
  /\ OnePlayerOnAccount => \A o1, o2 \in game : o1 = o2

\* Players only leave the game, but for the one that a login places.
LEMMA GameMoves ==
  ASSUME [Next]_vars
  PROVE  /\ name' = name
         /\ \/ game' \subseteq game
            \/ \E p \in Protocols : Found(p) = {} /\ AccountFree /\ game' = game \cup {p}
<1> USE DEF netVars, protoVars, worldVars, poolVars
<1>1. ASSUME NEW p \in Protocols, RunDispatcher(p)
      PROVE  /\ name' = name
             /\ game' \subseteq game \/ (Found(p) = {} /\ AccountFree /\ game' = game \cup {p})
  <2>1. CASE \E kicked \in BOOLEAN : LoginPlaced(p, kicked)
    BY <2>1 DEF LoginPlaced
  <2>2. CASE \E allowed \in BOOLEAN : Logout(p, allowed)
    BY <2>2 DEF Logout, RemoveCreature
  <2>3. CASE LoginRefused(p) \/ LoginAlready(p) \/ LoginReplaces(p) \/ LoginConnects(p)
    BY <2>3 DEF LoginRefused, LoginAlready, LoginReplaces, LoginConnects
  <2>4. CASE RunConnect(p) \/ Release(p)
    BY <2>4 DEF RunConnect, Release
  <2> QED BY <1>1, <2>1, <2>2, <2>3, <2>4 DEF RunDispatcher
<1>2. ASSUME NEW p \in Protocols,
             \/ ConnectExpires(p) \/ ConnectionLost(p) \/ ConnectionGone(p) \/ ParseLogout(p)
             \/ \E ok \in BOOLEAN : FirstMessage(p, ok)
      PROVE  UNCHANGED <<name, game>>
  BY <1>2 DEF ConnectExpires, ConnectionLost, ConnectionGone, ParseLogout, FirstMessage
<1>3. ASSUME NEW o \in Players, KickPlayer(o) \/ Die(o) PROVE name' = name /\ game' \subseteq game
  BY <1>3 DEF KickPlayer, Die, RemoveCreature
<1>4. ASSUME NEW bucket \in SUBSET checked, CheckCreatures(bucket) PROVE UNCHANGED <<name, game>>
  BY <1>4 DEF CheckCreatures
<1>5. ASSUME SendAll \/ UNCHANGED vars PROVE UNCHANGED <<name, game>>
  BY <1>5 DEF SendAll, vars
<1> QED BY <1>1, <1>2, <1>3, <1>4, <1>5 DEF Next

\* A character has one Player in the game, and with ONE_PLAYER_ON_ACCOUNT the
\* account has, however many clients log in, take over or wait to connect.
THEOREM OnePlayer == Spec => []OneOnline
<1>1. Init => OnlineInv
  BY DEF Init, OnlineInv
<1>2. OnlineInv /\ [Next]_vars => OnlineInv'
  <2> SUFFICES ASSUME OnlineInv, [Next]_vars PROVE OnlineInv'
    OBVIOUS
  <2>1. CASE game' \subseteq game
    BY <2>1, GameMoves DEF OnlineInv
  <2>2. ASSUME NEW p \in Protocols, Found(p) = {}, AccountFree, game' = game \cup {p}
        PROVE  OnlineInv'
    <3>1. \A o \in game : name[o] # name[p]
      BY <2>2 DEF Found
    <3>2. OnePlayerOnAccount => game = {}
      BY <2>2 DEF AccountFree
    <3> QED BY <2>2, <3>1, <3>2, GameMoves DEF OnlineInv
  <2> QED BY <2>1, <2>2, GameMoves
<1>3. TypeOK /\ OnlineInv => OneOnline
  <2> SUFFICES ASSUME TypeOK, OnlineInv, OnePlayerOnAccount PROVE Cardinality(game) <= 1
    BY DEF OnlineInv, OneOnline
  <2>1. CASE game = {}
    BY <2>1, FS_EmptySet
  <2>2. CASE game # {}
    <3>1. PICK o \in game : TRUE
      BY <2>2
    <3>2. game = {o}
      BY <3>1 DEF OnlineInv
    <3> QED BY <3>2, FS_Singleton, SMTT(30)
  <2> QED BY <2>1, <2>2
<1> QED BY <1>1, <1>2, <1>3, TypeCorrect, PTL DEF Spec

-----------------------------------------------------------------------------
(* Who takes a Player's client away                                        *)

\* ProtocolGame::connect attaches to a Player that has no client.
LEMMA ConnectTakesFree ==
  ASSUME TypeOK, NEW p \in Protocols, NEW q, Connect(p, q), NEW o \in Players, client[o] # None
  PROVE  client'[o] = client[o]
<1>1. client \in [Protocols -> Protocols \cup {None}]
  BY DEF TypeOK
<1> QED BY <1>1 DEF Connect, MayConnect, Attach

\* The client of a Player is gone only when the release of that very protocol runs.
THEOREM OwnReleaseOnly == Spec => ClientNotStolen
<1> USE DEF netVars, protoVars, worldVars, poolVars
<1>1. ASSUME IInv, [Next]_vars, NEW o \in Players, client[o] # None, client'[o] # client[o]
      PROVE  client'[o] = None /\ RunTask("release", client[o])
  <2>1. client \in [Protocols -> Protocols \cup {None}] /\ TypeOK /\ QueueInv
    BY <1>1 DEF IInv, TypeOK
  <2>2. ASSUME NEW p \in Protocols, RunDispatcher(p)
        PROVE  client'[o] = None /\ RunTask("release", client[o])
    <3>1. CASE LoginRefused(p) \/ (\E kicked \in BOOLEAN : LoginPlaced(p, kicked))
      <4>1. RunTask("login", p) /\ client' = [client EXCEPT ![p] = p]
        BY <3>1 DEF LoginRefused, LoginPlaced, Attach
      <4>2. client[p] = None
        BY <2>1, <4>1, TaskRuns DEF Ops, Untouched
      <4> QED BY <1>1, <2>1, <4>1, <4>2
    <3>2. CASE LoginAlready(p) \/ LoginReplaces(p) \/ (\E allowed \in BOOLEAN : Logout(p, allowed))
      BY <1>1, <3>2 DEF LoginAlready, LoginReplaces, Logout
    <3>3. CASE LoginConnects(p) \/ RunConnect(p)
      BY <1>1, <2>1, <3>3, ConnectTakesFree DEF LoginConnects, RunConnect
    <3>4. CASE Release(p)
      BY <1>1, <2>1, <3>4 DEF Release, Detach
    <3> QED BY <2>2, <3>1, <3>2, <3>3, <3>4 DEF RunDispatcher
  <2>3. ASSUME NEW p \in Protocols,
               \/ ConnectExpires(p) \/ ConnectionLost(p) \/ ConnectionGone(p) \/ ParseLogout(p)
               \/ \E ok \in BOOLEAN : FirstMessage(p, ok)
        PROVE  FALSE
    BY <1>1, <2>3 DEF ConnectExpires, ConnectionLost, ConnectionGone, ParseLogout, FirstMessage
  <2>4. ASSUME NEW q \in Players, KickPlayer(q) \/ Die(q) PROVE FALSE
    BY <1>1, <2>4 DEF KickPlayer, Die
  <2>5. ASSUME NEW bucket \in SUBSET checked, CheckCreatures(bucket) PROVE FALSE
    BY <1>1, <2>5 DEF CheckCreatures
  <2>6. ASSUME SendAll \/ UNCHANGED vars PROVE FALSE
    BY <1>1, <2>6 DEF SendAll, vars
  <2> QED BY <1>1, <2>2, <2>3, <2>4, <2>5, <2>6 DEF Next
<1>2. IInv /\ [Next]_vars =>
        [\A o \in Players : client[o] # None /\ client'[o] # client[o] =>
            client'[o] = None /\ RunTask("release", client[o])]_vars
  BY <1>1
<1> QED BY <1>2, Invariant, PTL DEF Spec, ClientNotStolen

-----------------------------------------------------------------------------
(* The connections are those of ConnectionLife                             *)

\* What a step may do to a connection.
Moves(p) ==
  \/ life'[p] = life[p] /\ posted'[p] = posted[p]
  \/ life[p] = "fresh" /\ life'[p] \in {"open", "closed"} /\ posted'[p] = 1
  \/ life[p] = "open" /\ life'[p] \in {"open", "closed"} /\ posted'[p] = posted[p] + 1
  \/ life[p] = "closed" /\ life'[p] = "gone" /\ posted'[p] = posted[p]

\* Closing a connection is a step of ConnectionLife or none.
LEMMA CloseMoves ==
  ASSUME TypeOK, NEW q \in Protocols, NEW t, Close(q, t) \/ NoClose(t), NEW p \in Protocols
  PROVE  Moves(p)
<1>1. CASE UNCHANGED <<life, posted>>
  BY <1>1 DEF Moves
<1>2. CASE life[q] = "open" /\ Close(q, t)
  BY <1>2 DEF Close, Moves, TypeOK
<1> QED BY <1>1, <1>2 DEF Close, NoClose

\* Every step of a session is a step of ConnectionLife or none.
LEMMA StepMoves ==
  ASSUME TypeOK, [Next]_vars, NEW p \in Protocols
  PROVE  Moves(p)
<1> USE DEF netVars, protoVars, worldVars, poolVars
<1>1. ASSUME NEW q \in Protocols, RunDispatcher(q) PROVE Moves(p)
  <2>1. \E c \in Protocols, t \in {Tail(tasks)} : Close(c, t) \/ NoClose(t)
    <3>1. CASE LoginReplaces(q)
      <4>1. PICK o \in Found(q) : client[o] # None /\ Close(client[o], Tail(tasks))
        BY <3>1 DEF LoginReplaces
      <4>2. client[o] \in Protocols
        BY <4>1 DEF Found, TypeOK
      <4> QED BY <4>1, <4>2
    <3>2. CASE LoginConnects(q) \/ RunConnect(q)
      BY <3>2 DEF LoginConnects, RunConnect, Connect
    <3>3. CASE LoginRefused(q) \/ LoginAlready(q) \/ Release(q)
      BY <3>3 DEF LoginRefused, LoginAlready, Release
    <3>4. CASE (\E kicked \in BOOLEAN : LoginPlaced(q, kicked)) \/ (\E allowed \in BOOLEAN : Logout(q, allowed))
      BY <3>4 DEF LoginPlaced, Logout
    <3> QED BY <1>1, <3>1, <3>2, <3>3, <3>4 DEF RunDispatcher
  <2> QED BY <2>1, CloseMoves
<1>2. ASSUME NEW q \in Protocols, ConnectionGone(q) \/ ParseLogout(q) \/ (\E ok \in BOOLEAN : FirstMessage(q, ok))
      PROVE  Moves(p)
  BY <1>2 DEF ConnectionGone, ParseLogout, FirstMessage, Moves, TypeOK
<1>3. ASSUME NEW q \in Protocols, ConnectionLost(q) PROVE Moves(p)
  BY <1>3, CloseMoves DEF ConnectionLost
<1>4. ASSUME NEW o \in Players, KickPlayer(o) PROVE Moves(p)
  <2>1. client[o] # None => client[o] \in Protocols
    BY DEF TypeOK
  <2>2. \E c \in Protocols : Close(c, tasks) \/ NoClose(tasks)
    BY <1>4, <2>1 DEF KickPlayer
  <2> QED BY <2>2, CloseMoves
<1>5. ASSUME UNCHANGED <<life, posted>> PROVE Moves(p)
  BY <1>5 DEF Moves
<1>6. ASSUME NEW q \in Protocols, ConnectExpires(q) \/ Die(q) PROVE UNCHANGED <<life, posted>>
  BY <1>6 DEF ConnectExpires, Die
<1>7. ASSUME NEW bucket \in SUBSET checked, CheckCreatures(bucket) PROVE UNCHANGED <<life, posted>>
  BY <1>7 DEF CheckCreatures
<1>8. ASSUME SendAll \/ UNCHANGED vars PROVE UNCHANGED <<life, posted>>
  BY <1>8 DEF SendAll, vars
<1> QED BY <1>1, <1>2, <1>3, <1>4, <1>5, <1>6, <1>7, <1>8 DEF Next

\* A connection without a first message has posted nothing.
FreshPostedNothing == \A p \in Protocols : life[p] = "fresh" => posted[p] = 0

\* Every connection starts and goes on as ConnectionLife allows.
THEOREM ImplementsConnectionLife == Spec => ConnectionsLive
<1>1. Init => FreshPostedNothing /\ \A p \in Protocols : Life(p)!Init
  BY DEF Init, FreshPostedNothing, Life!Init
<1>2. TypeOK /\ FreshPostedNothing /\ [Next]_vars => FreshPostedNothing'
  BY StepMoves DEF FreshPostedNothing, Moves
<1>3. TypeOK /\ FreshPostedNothing /\ [Next]_vars =>
        [\A p \in Protocols : UNCHANGED <<life[p], posted[p]>> \/ Life(p)!Next]_vars
  <2> SUFFICES ASSUME TypeOK, FreshPostedNothing, [Next]_vars, NEW p \in Protocols
               PROVE  UNCHANGED <<life[p], posted[p]>> \/ Life(p)!Next
    OBVIOUS
  <2>1. posted[p] \in Nat /\ life[p] \in {"fresh", "open", "closed", "gone"}
    BY DEF TypeOK
  <2>2. Moves(p)
    BY StepMoves
  <2>3. life[p] = "fresh" => posted[p] = 0
    BY DEF FreshPostedNothing
  <2>4. CASE life[p] \in {"fresh", "open"} /\ life'[p] \in {"open", "closed"} /\ posted'[p] = posted[p] + 1
    <3>1. Life(p)!Packet
      BY <2>1, <2>4 DEF Life!Packet
    <3> QED BY <3>1 DEF Life!Next
  <2>5. CASE life[p] = "closed" /\ life'[p] = "gone" /\ posted'[p] = posted[p]
    BY <2>5 DEF Life!Next, Life!Destroyed
  <2> QED BY <2>1, <2>2, <2>3, <2>4, <2>5 DEF Moves
<1>4. Spec => [](TypeOK /\ FreshPostedNothing)
  BY <1>1, <1>2, TypeCorrect, PTL DEF Spec
<1> QED BY <1>1, <1>3, <1>4, PTL DEF Spec, ConnectionsLive
=============================================================================
