-------------------------- MODULE ConnectionProofs --------------------------
(***************************************************************************)
(* Proofs about Connection, for any number of messages and packets: what   *)
(* the client is sent, that a graceful close loses nothing, that no client *)
(* is forgotten, and that every step is one of ConnectionLife.             *)
(*                                                                         *)
(* The methods of the connection are operators on the record `conn`, so    *)
(* the invariant is a predicate Sound of such a record and of what the     *)
(* socket has transmitted, and each method has a lemma: what it returns is *)
(* sound if what it was given is. The steps then only compose the lemmas,  *)
(* as the handlers compose the methods.                                    *)
(***************************************************************************)
EXTENDS Connection, SequenceTheorems, TLAPS

ConnType ==
  [managed : BOOLEAN, state : {"OPEN", "CLOSED"}, socket : BOOLEAN,
   read : [part : {"none", "header", "body"}, result : Results],
   readTimer : SUBSET {"armed", "fired"}, writeTimer : SUBSET {"armed", "fired"},
   queue : Seq(Messages), inFlight : Seq(InFlight),
   protocol : BOOLEAN, receivedFirst : BOOLEAN,
   posted : Seq({"packet", "release"}), offered : 0..MaxMessages,
   accepted : Seq(Messages), encoded : [Messages -> Nat],
   abrupt : BOOLEAN, undefined : BOOLEAN]

\* One write at most, of the head of the queue.
WritesHead(c) ==
  /\ ~c.undefined
  /\ Len(c.inFlight) <= 1
  /\ c.inFlight # <<>> => c.queue # <<>> /\ c.inFlight[1].message = c.queue[1]

\* The head of the queue is on the wire and its handler has not run.
Transmitted(c) == IF c.inFlight # <<>> /\ c.inFlight[1].result = "ok" THEN 1 ELSE 0

\* The messages accepted are those whose writes have been handled, followed by
\* the queue, unless an error has emptied it.
QueueFollows(c, w) ==
  /\ Transmitted(c) <= Len(w)
  /\ Len(w) <= Len(c.accepted)
  /\ \A i \in 1..Len(w) : w[i] = c.accepted[i]
  /\ c.queue # <<>> =>
       /\ Len(c.accepted) = Len(w) - Transmitted(c) + Len(c.queue)
       /\ \A i \in 1..Len(c.queue) : c.queue[i] = c.accepted[Len(w) - Transmitted(c) + i]
  /\ c.queue = <<>> /\ (~c.abrupt \/ c.state = "OPEN") => Len(w) = Len(c.accepted)

\* No message is accepted twice, none is encoded before its turn, and what has
\* been handed to the socket was encoded once.
EncodedOnce(c, w) ==
  /\ \A i \in 1..Len(c.accepted) : c.accepted[i] <= c.offered
  /\ \A i, j \in 1..Len(c.accepted) : c.accepted[i] = c.accepted[j] => i = j
  /\ \A m \in Messages : c.encoded[m] <= 1 /\ (m > c.offered => c.encoded[m] = 0)
  /\ \A i \in 2..Len(c.queue) : c.encoded[c.queue[i]] = 0
  /\ \A i \in 1..Len(w) : c.encoded[w[i]] = 1
  /\ c.inFlight # <<>> => c.encoded[c.queue[1]] = 1

\* The socket of a connection nothing ended abruptly is closed when it is drained.
ClosesDrained(c) == ~c.socket /\ ~c.abrupt => c.state = "CLOSED" /\ c.queue = <<>>

Core(c, w) == WritesHead(c) /\ QueueFollows(c, w) /\ EncodedOnce(c, w) /\ ClosesDrained(c)

\* A queue that is not written out belongs to a connection that ended abruptly.
KeepsWriting(c) == ~c.abrupt /\ c.inFlight = <<>> => c.queue = <<>>

Sound(c, w) == Core(c, w) /\ KeepsWriting(c)

\* A packet of which a part has been received and no task posted.
Unserved(c) ==
  IF c.read.part = "body" \/ (c.read.part = "header" /\ c.read.result = "ok") THEN 1 ELSE 0

\* At most one task for each packet, and one when the connection is closed.
Posts(c, n) ==
  IF c.state = "OPEN" THEN Len(c.posted) + Unserved(c) <= n ELSE Len(c.posted) <= n + 1

\* What bounds the operations outstanding on an open connection, `forced` if the
\* handler of a timer is about to close it.
Bounded(c, forced) ==
  c.state = "OPEN" =>
    /\ c.read.part # "none" /\ c.read.result = "pending" => c.readTimer # {} \/ forced
    /\ c.inFlight # <<>> /\ c.inFlight[1].result = "pending" => c.writeTimer # {} \/ forced

LifeInv ==
  /\ accepting => conn.read = NoRead /\ ~conn.protocol
  /\ conn.state = "OPEN" /\ ~accepting => conn.read.part # "none"
  /\ ~alive => conn.state = "CLOSED" /\ \A t \in Threads : closing[t] = "no"

ConnInv ==
  /\ conn \in ConnType /\ wire \in Seq(Messages)
  /\ alive \in BOOLEAN /\ accepting \in BOOLEAN
  /\ closing \in [Threads -> {"no", "soft", "force"}]
  /\ packets \in 0..MaxPackets /\ served \in 0..Len(conn.posted)
  /\ Sound(conn, wire)
  /\ Posts(conn, packets)
  /\ Bounded(conn, closing["io"] = "force")
  /\ LifeInv

-----------------------------------------------------------------------------
(* What the methods return                                                 *)

\* The elements of a sequence to which one has been appended.
LEMMA Appended ==
  ASSUME NEW S, NEW s \in Seq(S), NEW x \in S, NEW t, t = Append(s, x)
  PROVE  /\ Len(s) \in Nat /\ Len(t) = Len(s) + 1 /\ t # <<>>
         /\ \A i \in 1..Len(s) : t[i] = s[i] /\ s[i] \in S
         /\ t[Len(s) + 1] = x
OBVIOUS

\* A pending write is of the type of the writes.
LEMMA PendingWrite ==
  ASSUME NEW m \in Messages
  PROVE  [message |-> m, result |-> "pending"] \in InFlight
BY DEF InFlight, Results

\* CloseSocket cancels the timers' waits and closes the socket, no more.
LEMMA CloseSocketResult ==
  ASSUME NEW c \in ConnType
  PROVE  LET d == CloseSocket(c)
         IN  /\ d \in ConnType /\ d.socket = FALSE
             /\ d.managed = c.managed /\ d.state = c.state /\ d.read = c.read
             /\ d.queue = c.queue /\ d.inFlight = c.inFlight
             /\ d.protocol = c.protocol /\ d.receivedFirst = c.receivedFirst
             /\ d.posted = c.posted /\ d.offered = c.offered
             /\ d.accepted = c.accepted /\ d.encoded = c.encoded
             /\ d.abrupt = c.abrupt /\ d.undefined = c.undefined
BY DEF CloseSocket, Cancel, ConnType

\* Connection::close leaves a closed connection, with the queue and the writes it
\* had; an open one posts the release of its protocol.
LEMMA CloseResult ==
  ASSUME NEW c \in ConnType, NEW force \in BOOLEAN
  PROVE  LET d == Close(c, force)
         IN  /\ d \in ConnType /\ d.managed = FALSE /\ d.state = "CLOSED"
             /\ d.read = c.read /\ d.queue = c.queue /\ d.inFlight = c.inFlight
             /\ d.protocol = c.protocol /\ d.receivedFirst = c.receivedFirst
             /\ d.offered = c.offered /\ d.accepted = c.accepted
             /\ d.encoded = c.encoded /\ d.undefined = c.undefined
             /\ d.posted = IF c.state = "OPEN" /\ c.protocol
                           THEN Append(c.posted, "release") ELSE c.posted
             /\ d.abrupt <=> c.abrupt \/ (c.state = "OPEN" /\ force)
             /\ d.socket = IF c.state = "OPEN" /\ (c.queue = <<>> \/ force)
                           THEN FALSE ELSE c.socket
<1> DEFINE posted == IF c.protocol THEN Append(c.posted, "release") ELSE c.posted
           e == [c EXCEPT !.managed = FALSE, !.state = "CLOSED",
                          !.abrupt = @ \/ force, !.posted = posted]
<1>1. posted \in Seq({"packet", "release"})
  BY DEF ConnType
<1>2. /\ e \in ConnType
      /\ e.managed = FALSE /\ e.state = "CLOSED" /\ e.posted = posted
      /\ e.read = c.read /\ e.queue = c.queue /\ e.inFlight = c.inFlight
      /\ e.protocol = c.protocol /\ e.receivedFirst = c.receivedFirst
      /\ e.offered = c.offered /\ e.accepted = c.accepted
      /\ e.encoded = c.encoded /\ e.undefined = c.undefined
      /\ e.socket = c.socket
  <2> HIDE DEF posted
  <2> QED BY <1>1 DEF ConnType
<1>3. e.abrupt <=> c.abrupt \/ force
  BY Zenon DEF ConnType
<1>4. Close(c, force) = IF c.state # "OPEN" THEN [c EXCEPT !.managed = FALSE]
                        ELSE IF e.queue = <<>> \/ force THEN CloseSocket(e) ELSE e
  BY Zenon DEF Close
<1> HIDE DEF e
<1>5. CASE c.state # "OPEN"
  <2>1. Close(c, force) = [c EXCEPT !.managed = FALSE]
    BY <1>4, <1>5
  <2>2. c.state = "CLOSED"
    BY <1>5 DEF ConnType
  <2>3. QED BY <2>1, <2>2 DEF ConnType
<1>6. CASE c.state = "OPEN" /\ (c.queue = <<>> \/ force)
  <2> DEFINE d == CloseSocket(e)
  <2>1. Close(c, force) = d
    BY <1>2, <1>4, <1>6
  <2>2. /\ d \in ConnType /\ d.socket = FALSE
        /\ d.managed = e.managed /\ d.state = e.state /\ d.read = e.read
        /\ d.queue = e.queue /\ d.inFlight = e.inFlight
        /\ d.protocol = e.protocol /\ d.receivedFirst = e.receivedFirst
        /\ d.posted = e.posted /\ d.offered = e.offered
        /\ d.accepted = e.accepted /\ d.encoded = e.encoded
        /\ d.abrupt = e.abrupt /\ d.undefined = e.undefined
    BY <1>2, CloseSocketResult, Zenon
  <2> HIDE DEF d
  <2>3. d.abrupt <=> c.abrupt \/ force
    BY <1>3, <2>2
  <2>4. QED BY <1>2, <1>6, <2>1, <2>2, <2>3
<1>7. CASE c.state = "OPEN" /\ ~(c.queue = <<>> \/ force)
  BY <1>2, <1>3, <1>4, <1>7
<1>8. QED BY <1>5, <1>6, <1>7

\* InternalSend encodes the message and starts its write, or ends the connection.
LEMMA InternalSendResult ==
  ASSUME NEW c \in ConnType, NEW m \in Messages, NEW fail \in BOOLEAN
  PROVE  LET d == InternalSend(c, m, fail)
         IN  /\ d \in ConnType
             /\ d.encoded = [c.encoded EXCEPT ![m] = @ + 1]
             /\ d.read = c.read /\ d.queue = c.queue
             /\ d.protocol = c.protocol /\ d.receivedFirst = c.receivedFirst
             /\ d.offered = c.offered /\ d.accepted = c.accepted
             /\ d.undefined = c.undefined
             /\ fail => /\ d.state = "CLOSED" /\ d.abrupt /\ d.inFlight = c.inFlight
                        /\ d.posted = IF c.state = "OPEN" /\ c.protocol
                                      THEN Append(c.posted, "release") ELSE c.posted
             /\ ~fail => /\ d.state = c.state /\ d.abrupt = c.abrupt
                         /\ d.socket = c.socket /\ d.posted = c.posted
                         /\ d.managed = c.managed
                         /\ d.readTimer = c.readTimer /\ d.writeTimer # {}
                         /\ d.inFlight = Append(c.inFlight, [message |-> m, result |-> "pending"])
<1> DEFINE code == [c.encoded EXCEPT ![m] = @ + 1]
           e == [c EXCEPT !.encoded = code]
<1>1. code \in [Messages -> Nat]
  BY DEF ConnType
<1>2. /\ e \in ConnType /\ e.encoded = [c.encoded EXCEPT ![m] = @ + 1]
      /\ e.read = c.read /\ e.queue = c.queue /\ e.inFlight = c.inFlight
      /\ e.protocol = c.protocol /\ e.receivedFirst = c.receivedFirst
      /\ e.offered = c.offered /\ e.accepted = c.accepted
      /\ e.undefined = c.undefined /\ e.posted = c.posted
      /\ e.state = c.state /\ e.abrupt = c.abrupt /\ e.socket = c.socket
      /\ e.managed = c.managed /\ e.readTimer = c.readTimer
      /\ e.writeTimer = c.writeTimer
  <2>1. e \in ConnType /\ e.encoded = code
    BY <1>1 DEF ConnType
  <2>2. QED BY <2>1 DEF ConnType
<1>3. InternalSend(c, m, fail) =
        IF fail THEN [Close(e, TRUE) EXCEPT !.abrupt = TRUE]
        ELSE [e EXCEPT !.writeTimer = Rearm(@),
                       !.inFlight = Append(@, [message |-> m, result |-> "pending"])]
  BY DEF InternalSend
<1> HIDE DEF e
<1>4. CASE fail
  <2> DEFINE d == Close(e, TRUE)
  <2>1. InternalSend(c, m, fail) = [d EXCEPT !.abrupt = TRUE]
    BY <1>3, <1>4
  <2>2. /\ d \in ConnType /\ d.state = "CLOSED"
        /\ d.read = e.read /\ d.queue = e.queue /\ d.inFlight = e.inFlight
        /\ d.protocol = e.protocol /\ d.receivedFirst = e.receivedFirst
        /\ d.offered = e.offered /\ d.accepted = e.accepted
        /\ d.encoded = e.encoded /\ d.undefined = e.undefined
        /\ d.posted = IF e.state = "OPEN" /\ e.protocol
                      THEN Append(e.posted, "release") ELSE e.posted
    BY <1>2, CloseResult, Zenon
  <2> HIDE DEF d
  <2> DEFINE r == [d EXCEPT !.abrupt = TRUE]
  <2>3. /\ r \in ConnType /\ r.state = "CLOSED" /\ r.abrupt
        /\ r.read = d.read /\ r.queue = d.queue /\ r.inFlight = d.inFlight
        /\ r.protocol = d.protocol /\ r.receivedFirst = d.receivedFirst
        /\ r.offered = d.offered /\ r.accepted = d.accepted
        /\ r.encoded = d.encoded /\ r.undefined = d.undefined
        /\ r.posted = d.posted
    BY <2>2 DEF ConnType
  <2>4. InternalSend(c, m, fail) = r
    BY <2>1
  <2> HIDE DEF r
  <2>5. r.posted = IF c.state = "OPEN" /\ c.protocol
                   THEN Append(c.posted, "release") ELSE c.posted
    BY <1>2, <2>2, <2>3
  <2>6. QED BY <1>2, <1>4, <2>2, <2>3, <2>4, <2>5
<1>5. CASE ~fail
  <2> DEFINE writes == Append(e.inFlight, [message |-> m, result |-> "pending"])
             d == [e EXCEPT !.writeTimer = Rearm(@), !.inFlight = writes]
  <2>1. InternalSend(c, m, fail) = d
    BY <1>3, <1>5, Zenon DEF ConnType
  <2>2. writes \in Seq(InFlight)
    BY <1>2, PendingWrite DEF ConnType
  <2>3. /\ d \in ConnType /\ d.inFlight = writes /\ d.writeTimer # {}
        /\ d.encoded = e.encoded
        /\ d.read = e.read /\ d.queue = e.queue
        /\ d.protocol = e.protocol /\ d.receivedFirst = e.receivedFirst
        /\ d.offered = e.offered /\ d.accepted = e.accepted
        /\ d.undefined = e.undefined /\ d.posted = e.posted
        /\ d.state = e.state /\ d.abrupt = e.abrupt /\ d.socket = e.socket
        /\ d.managed = e.managed /\ d.readTimer = e.readTimer
    <3> HIDE DEF writes
    <3> QED BY <1>2, <2>2 DEF ConnType, Rearm
  <2> HIDE DEF d
  <2>4. QED BY <1>2, <1>5, <2>1, <2>3
<1>6. QED BY <1>4, <1>5

\* A read begins with its timer armed, or the connection is closed.
LEMMA BeginReadResult ==
  ASSUME NEW c \in ConnType, NEW part \in {"header", "body"}
  PROVE  /\ BeginRead(c, part, TRUE) = Close(c, TRUE)
         /\ LET d == BeginRead(c, part, FALSE)
            IN  /\ d \in ConnType /\ d.read = [part |-> part, result |-> "pending"]
                /\ d.readTimer # {}
                /\ d.managed = c.managed /\ d.state = c.state /\ d.socket = c.socket
                /\ d.queue = c.queue /\ d.inFlight = c.inFlight
                /\ d.writeTimer = c.writeTimer
                /\ d.protocol = c.protocol /\ d.receivedFirst = c.receivedFirst
                /\ d.posted = c.posted /\ d.offered = c.offered
                /\ d.accepted = c.accepted /\ d.encoded = c.encoded
                /\ d.abrupt = c.abrupt /\ d.undefined = c.undefined
BY DEF BeginRead, ConnType, Rearm, Results

-----------------------------------------------------------------------------
(* The methods keep the writes sound                                       *)

\* What touches neither the queue nor the writes, and closes the socket only of a
\* connection that has been closed and drained or has ended abruptly.
LEMMA SoundFrame ==
  ASSUME NEW c \in ConnType, NEW d \in ConnType, NEW w \in Seq(Messages), Core(c, w),
         d.queue = c.queue, d.inFlight = c.inFlight, d.accepted = c.accepted,
         d.encoded = c.encoded, c.offered <= d.offered, d.undefined = c.undefined,
         c.abrupt => d.abrupt, d.state = "OPEN" => c.state = "OPEN",
         ~d.socket /\ ~d.abrupt =>
           d.state = "CLOSED" /\ (c.queue = <<>> \/ ~c.socket)
  PROVE  Core(d, w) /\ (KeepsWriting(c) => KeepsWriting(d))
<1>1. WritesHead(d)
  BY DEF Core, WritesHead
<1>2. QueueFollows(d, w)
  BY ZenonT(40) DEF Core, QueueFollows, Transmitted
<1>3. EncodedOnce(d, w)
  <2>1. /\ \A m \in Messages : m \in Nat
        /\ c.offered \in Nat /\ d.offered \in Nat
        /\ \A i \in 1..Len(c.accepted) : c.accepted[i] \in Messages
    <3>1. /\ c.accepted \in Seq(Messages)
          /\ c.offered \in 0..MaxMessages /\ d.offered \in 0..MaxMessages
      BY DEF ConnType
    <3>2. \A i \in 1..Len(c.accepted) : c.accepted[i] \in Messages
      BY <3>1
    <3>3. QED BY <3>1, <3>2, ConnectionBounds DEF Messages
  <2>2. QED BY <2>1 DEF Core, EncodedOnce
<1>4. ClosesDrained(d)
  BY DEF Core, ClosesDrained
<1>5. KeepsWriting(c) => KeepsWriting(d)
  BY DEF KeepsWriting
<1>6. QED BY <1>1, <1>2, <1>3, <1>4, <1>5 DEF Core

\* Closing.
LEMMA CloseSound ==
  ASSUME NEW c \in ConnType, NEW w \in Seq(Messages), NEW force \in BOOLEAN, Core(c, w)
  PROVE  /\ Core(Close(c, force), w)
         /\ KeepsWriting(c) => KeepsWriting(Close(c, force))
<1> DEFINE d == Close(c, force)
<1>1. /\ d \in ConnType /\ d.state = "CLOSED"
      /\ d.queue = c.queue /\ d.inFlight = c.inFlight
      /\ d.offered = c.offered /\ d.accepted = c.accepted
      /\ d.encoded = c.encoded /\ d.undefined = c.undefined
      /\ d.abrupt <=> c.abrupt \/ (c.state = "OPEN" /\ force)
      /\ d.socket = IF c.state = "OPEN" /\ (c.queue = <<>> \/ force)
                    THEN FALSE ELSE c.socket
  BY CloseResult, Zenon
<1> HIDE DEF d
<1>2. ~d.socket /\ ~d.abrupt => c.queue = <<>> \/ ~c.socket
  BY <1>1
<1>3. c.offered <= d.offered
  BY <1>1, ConnectionBounds DEF ConnType
<1>4. Core(d, w) /\ (KeepsWriting(c) => KeepsWriting(d))
  BY <1>1, <1>2, <1>3, SoundFrame
<1>5. QED BY <1>4 DEF d

\* Encoding and writing the head of the queue, when no write is outstanding.
LEMMA InternalSendSound ==
  ASSUME NEW c \in ConnType, NEW w \in Seq(Messages), NEW fail \in BOOLEAN, Core(c, w),
         c.queue # <<>>, c.inFlight = <<>>, c.encoded[c.queue[1]] = 0
  PROVE  Sound(InternalSend(c, c.queue[1], fail), w)
<1> DEFINE m == c.queue[1]
           d == InternalSend(c, m, fail)
           write == [message |-> m, result |-> "pending"]
<1>1. /\ m \in Messages /\ c.inFlight \in Seq(InFlight)
      /\ Len(c.queue) \in Nat \ {0} /\ c.encoded \in [Messages -> Nat]
      /\ Len(w) \in Nat /\ Len(c.accepted) \in Nat
      /\ \A i \in 1..Len(c.queue) : c.queue[i] \in Messages
      /\ \A i \in 1..Len(w) : w[i] \in Messages
  BY SMTT(30) DEF ConnType
<1>0. write \in InFlight /\ write.message = m /\ write.result = "pending"
  BY <1>1, PendingWrite
<1> HIDE DEF m
<1>2. /\ d \in ConnType /\ d.encoded = [c.encoded EXCEPT ![m] = @ + 1]
      /\ d.queue = c.queue /\ d.offered = c.offered /\ d.accepted = c.accepted
      /\ d.undefined = c.undefined
      /\ fail => d.state = "CLOSED" /\ d.abrupt /\ d.inFlight = c.inFlight
      /\ ~fail => /\ d.state = c.state /\ d.abrupt = c.abrupt /\ d.socket = c.socket
                  /\ d.inFlight = Append(c.inFlight, write)
  BY <1>1, InternalSendResult
<1> HIDE DEF write, d
<1>3. ~fail => /\ d.inFlight # <<>> /\ Len(d.inFlight) = 1
               /\ d.inFlight[1].message = m /\ d.inFlight[1].result = "pending"
  <2>1. Append(c.inFlight, write) = <<write>>
    BY <1>1
  <2>2. ~fail => d.inFlight = <<write>>
    BY <1>2, <2>1
  <2>3. Len(<<write>>) = 1 /\ <<write>>[1] = write /\ <<write>> # <<>>
    OBVIOUS
  <2>4. QED BY <1>0, <2>2, <2>3
<1>4. Transmitted(c) = 0 /\ Transmitted(d) = 0
  BY <1>2, <1>3 DEF Transmitted
<1>5. /\ \A k \in Messages : d.encoded[k] = IF k = m THEN 1 ELSE c.encoded[k]
      /\ d.encoded[m] = 1
  BY <1>1, <1>2 DEF m
<1>6. WritesHead(d)
  <2>1. ~d.undefined /\ Len(d.inFlight) <= 1
    <3>1. ~c.undefined /\ Len(c.inFlight) <= 1
      BY DEF Core, WritesHead
    <3>2. CASE fail
      BY <1>2, <3>1, <3>2
    <3>3. CASE ~fail
      <4>1. Len(d.inFlight) = 1 /\ d.undefined = c.undefined
        BY <1>2, <1>3, <3>3
      <4>2. QED BY <3>1, <4>1
    <3>4. QED BY <3>2, <3>3
  <2>2. d.inFlight # <<>> => d.queue # <<>> /\ d.inFlight[1].message = d.queue[1]
    BY <1>2, <1>3 DEF m
  <2>3. QED BY <2>1, <2>2 DEF WritesHead
<1>7. QueueFollows(d, w)
  BY <1>2, <1>4 DEF Core, QueueFollows
<1>8. /\ Len(c.accepted) = Len(w) + Len(c.queue)
      /\ \A i \in 1..Len(c.queue) : c.queue[i] = c.accepted[Len(w) + i]
      /\ \A i \in 1..Len(w) : w[i] = c.accepted[i]
  BY <1>1, <1>4 DEF Core, QueueFollows
<1>9. m = c.accepted[Len(w) + 1] /\ Len(w) + 1 \in 1..Len(c.accepted)
  BY <1>1, <1>8 DEF m
<1>10. EncodedOnce(d, w)
  <2>1. ASSUME NEW i \in 2..Len(c.queue) PROVE c.queue[i] # m
    <3>1. /\ Len(w) + i \in 1..Len(c.accepted) /\ Len(w) + i # Len(w) + 1
          /\ c.queue[i] = c.accepted[Len(w) + i]
      BY <1>1, <1>8
    <3>2. \A a, b \in 1..Len(c.accepted) : c.accepted[a] = c.accepted[b] => a = b
      BY DEF Core, EncodedOnce
    <3>3. QED BY <1>9, <3>1, <3>2
  <2>2. \A i \in 1..Len(w) : w[i] # m
    BY <1>1, <1>8, <1>9 DEF Core, EncodedOnce
  <2>3. m <= c.offered
    BY <1>1, <1>8, <1>9 DEF Core, EncodedOnce
  <2>4. \A k \in Messages : d.encoded[k] <= 1 /\ (k > d.offered => d.encoded[k] = 0)
    <3>1. \A k \in Messages : c.encoded[k] <= 1 /\ (k > c.offered => c.encoded[k] = 0)
      BY DEF Core, EncodedOnce
    <3>2. \A k \in Messages : k \in Nat
      BY ConnectionBounds DEF Messages
    <3>3. c.offered \in Nat
      BY ConnectionBounds DEF ConnType
    <3>4. QED BY <1>1, <1>2, <1>5, <2>3, <3>1, <3>2, <3>3
  <2>5. \A i \in 2..Len(d.queue) : d.encoded[d.queue[i]] = 0
    BY <1>1, <1>2, <1>5, <2>1, SMTT(30) DEF Core, EncodedOnce
  <2>6. \A i \in 1..Len(w) : d.encoded[w[i]] = 1
    BY <1>1, <1>5, <2>2 DEF Core, EncodedOnce
  <2>7. d.encoded[d.queue[1]] = 1
    BY <1>2, <1>5 DEF m
  <2>8. QED BY <1>2, <2>4, <2>5, <2>6, <2>7 DEF Core, EncodedOnce
<1>11. ClosesDrained(d)
  BY <1>2 DEF Core, ClosesDrained
<1>12. KeepsWriting(d)
  BY <1>2, <1>3 DEF KeepsWriting
<1>13. QED BY <1>6, <1>7, <1>10, <1>11, <1>12 DEF Core, Sound, d, m

\* The connection that has queued its next message.
Queueing(c) ==
  [c EXCEPT !.offered = c.offered + 1, !.queue = Append(@, c.offered + 1),
            !.accepted = Append(@, c.offered + 1)]

\* Queueing a message changes the queue and what is accepted, no more.
LEMMA QueueingResult ==
  ASSUME NEW c \in ConnType, c.offered < MaxMessages
  PROVE  LET m == c.offered + 1
             d == Queueing(c)
         IN  /\ m \in Messages /\ d \in ConnType
             /\ d.offered = m /\ d.queue = Append(c.queue, m)
             /\ d.accepted = Append(c.accepted, m)
             /\ d.read = c.read /\ d.inFlight = c.inFlight
             /\ d.readTimer = c.readTimer /\ d.writeTimer = c.writeTimer
             /\ d.managed = c.managed /\ d.state = c.state /\ d.socket = c.socket
             /\ d.protocol = c.protocol /\ d.receivedFirst = c.receivedFirst
             /\ d.posted = c.posted /\ d.encoded = c.encoded
             /\ d.abrupt = c.abrupt /\ d.undefined = c.undefined
<1> DEFINE m == c.offered + 1
           q == Append(c.queue, m)
           a == Append(c.accepted, m)
<1>1. m \in Messages /\ m \in 0..MaxMessages
  BY ConnectionBounds DEF ConnType, Messages
<1>2. q \in Seq(Messages) /\ a \in Seq(Messages)
  BY <1>1 DEF ConnType
<1> HIDE DEF q, a, m
<1>3. Queueing(c) = [c EXCEPT !.offered = m, !.queue = q, !.accepted = a]
  BY DEF Queueing, q, a, m
<1> DEFINE d == [c EXCEPT !.offered = m, !.queue = q, !.accepted = a]
<1>4. /\ d \in ConnType /\ d.offered = m /\ d.queue = q /\ d.accepted = a
      /\ d.read = c.read /\ d.inFlight = c.inFlight
      /\ d.readTimer = c.readTimer /\ d.writeTimer = c.writeTimer
      /\ d.managed = c.managed /\ d.state = c.state /\ d.socket = c.socket
      /\ d.protocol = c.protocol /\ d.receivedFirst = c.receivedFirst
      /\ d.posted = c.posted /\ d.encoded = c.encoded
      /\ d.abrupt = c.abrupt /\ d.undefined = c.undefined
  BY <1>1, <1>2 DEF ConnType
<1> HIDE DEF d
<1>5. QED BY <1>1, <1>3, <1>4 DEF q, a, m, d

\* Its message is one nobody has encoded, and the writes are as they were.
LEMMA QueueingSound ==
  ASSUME NEW c \in ConnType, NEW w \in Seq(Messages), Core(c, w), c.state = "OPEN",
         c.offered < MaxMessages
  PROVE  /\ Core(Queueing(c), w)
         /\ Queueing(c).encoded[c.offered + 1] = 0
<1> DEFINE m == c.offered + 1
           d == Queueing(c)
<1>1. /\ m \in Messages /\ d \in ConnType /\ d.offered = m
      /\ d.queue = Append(c.queue, m) /\ d.accepted = Append(c.accepted, m)
      /\ d.inFlight = c.inFlight /\ d.state = c.state /\ d.socket = c.socket
      /\ d.encoded = c.encoded /\ d.abrupt = c.abrupt /\ d.undefined = c.undefined
  BY QueueingResult, Zenon
<1>2. /\ Len(c.queue) \in Nat /\ Len(c.accepted) \in Nat /\ Len(w) \in Nat
      /\ c.offered \in Nat /\ m = c.offered + 1
      /\ Len(d.queue) = Len(c.queue) + 1 /\ d.queue # <<>>
      /\ \A i \in 1..Len(c.queue) : d.queue[i] = c.queue[i] /\ c.queue[i] \in Messages
      /\ d.queue[Len(c.queue) + 1] = m
      /\ Len(d.accepted) = Len(c.accepted) + 1
      /\ \A i \in 1..Len(c.accepted) :
           d.accepted[i] = c.accepted[i] /\ c.accepted[i] \in Messages
      /\ d.accepted[Len(c.accepted) + 1] = m
      /\ c.queue = <<>> <=> Len(c.queue) = 0
  <2>1. c.queue \in Seq(Messages) /\ c.accepted \in Seq(Messages) /\ c.offered \in Nat
    BY ConnectionBounds DEF ConnType
  <2> HIDE DEF d, m
  <2>2. /\ Len(d.queue) = Len(c.queue) + 1 /\ d.queue # <<>>
        /\ \A i \in 1..Len(c.queue) : d.queue[i] = c.queue[i] /\ c.queue[i] \in Messages
        /\ d.queue[Len(c.queue) + 1] = m
    <3>1. m \in Messages /\ d.queue = Append(c.queue, m)
      BY <1>1
    <3>2. QED BY <2>1, <3>1, Appended, SMTT(30)
  <2>3. /\ Len(d.accepted) = Len(c.accepted) + 1
        /\ \A i \in 1..Len(c.accepted) :
             d.accepted[i] = c.accepted[i] /\ c.accepted[i] \in Messages
        /\ d.accepted[Len(c.accepted) + 1] = m
    <3>1. m \in Messages /\ d.accepted = Append(c.accepted, m)
      BY <1>1
    <3>2. QED BY <2>1, <3>1, Appended, SMTT(30)
  <2>4. QED BY <2>1, <2>2, <2>3 DEF m
<1>3. \A k \in Messages : k \in Nat
  BY ConnectionBounds DEF Messages
<1> HIDE DEF d, m
<1>4. Transmitted(d) = Transmitted(c) /\ Transmitted(c) \in {0, 1}
  BY <1>1 DEF Transmitted
<1>5. WritesHead(d)
  <2>1. c.inFlight # <<>> => c.queue # <<>> /\ d.queue[1] = c.queue[1]
    BY <1>2 DEF Core, WritesHead
  <2>2. QED BY <1>1, <1>2, <2>1 DEF Core, WritesHead
<1>6. c.queue = <<>> => Len(w) = Len(c.accepted) /\ Transmitted(c) = 0
  BY DEF Core, QueueFollows, Transmitted, WritesHead
<1>7. QueueFollows(d, w)
  <2>1. /\ Transmitted(c) <= Len(w) /\ Len(w) <= Len(c.accepted)
        /\ \A i \in 1..Len(w) : w[i] = c.accepted[i]
    BY DEF Core, QueueFollows
  <2>2. Len(d.accepted) = Len(w) - Transmitted(d) + Len(d.queue)
    <3>1. c.queue # <<>> => Len(c.accepted) = Len(w) - Transmitted(c) + Len(c.queue)
      BY DEF Core, QueueFollows
    <3>2. CASE c.queue = <<>>
      <4>1. Transmitted(d) = 0 /\ Len(w) = Len(c.accepted) /\ Len(c.queue) = 0
        BY <1>2, <1>4, <1>6, <3>2
      <4>2. QED BY <1>2, <4>1
    <3>3. CASE c.queue # <<>>
      <4> DEFINE x == Transmitted(c)
      <4>1. /\ x \in {0, 1} /\ Transmitted(d) = x
            /\ Len(c.accepted) = Len(w) - x + Len(c.queue)
        BY <1>4, <3>1, <3>3
      <4>2. /\ Len(c.queue) \in Nat /\ Len(c.accepted) \in Nat /\ Len(w) \in Nat
            /\ Len(d.queue) = Len(c.queue) + 1 /\ Len(d.accepted) = Len(c.accepted) + 1
        BY <1>2
      <4> HIDE DEF x
      <4>3. QED BY <4>1, <4>2
    <3>4. QED BY <3>2, <3>3
  <2>3. ASSUME NEW i \in 1..Len(d.queue)
        PROVE  d.queue[i] = d.accepted[Len(w) - Transmitted(d) + i]
    <3>1. CASE i = Len(c.queue) + 1
      <4>1. Len(w) - Transmitted(d) + i = Len(c.accepted) + 1
        BY <1>2, <1>4, <2>2, <3>1
      <4>2. QED BY <1>2, <3>1, <4>1
    <3>2. CASE i \in 1..Len(c.queue)
      <4>1. /\ c.queue # <<>> /\ c.queue[i] = c.accepted[Len(w) - Transmitted(d) + i]
            /\ Len(c.accepted) = Len(w) - Transmitted(d) + Len(c.queue)
        BY <1>2, <1>4, <3>2 DEF Core, QueueFollows
      <4>2. Len(w) - Transmitted(d) + i \in 1..Len(c.accepted)
        <5> DEFINE x == Transmitted(d)
                   k == Len(w)
                   a == Len(c.accepted)
                   l == Len(c.queue)
        <5>1. /\ x \in {0, 1} /\ x <= k /\ k \in Nat /\ a \in Nat /\ l \in Nat
              /\ i \in 1..l /\ a = k - x + l
          BY <1>2, <1>4, <2>1, <3>2, <4>1
        <5> HIDE DEF x, k, a, l
        <5>2. k - x + i \in 1..a
          BY <5>1
        <5>3. QED BY <5>2 DEF x, k, a
      <4>3. QED BY <1>2, <3>2, <4>1, <4>2
    <3>3. QED BY <1>2, <3>1, <3>2
  <2>4. QED BY <1>2, <1>4, <2>1, <2>2, <2>3 DEF QueueFollows
<1>8. c.encoded[m] = 0
  BY <1>1, <1>2, <1>3 DEF Core, EncodedOnce
<1>9. EncodedOnce(d, w)
  <2>1. /\ \A i \in 1..Len(c.accepted) : c.accepted[i] <= c.offered
        /\ \A i, j \in 1..Len(c.accepted) : c.accepted[i] = c.accepted[j] => i = j
        /\ \A k \in Messages : c.encoded[k] <= 1 /\ (k > c.offered => c.encoded[k] = 0)
        /\ \A i \in 2..Len(c.queue) : c.encoded[c.queue[i]] = 0
        /\ \A i \in 1..Len(w) : c.encoded[w[i]] = 1
        /\ c.inFlight # <<>> => c.encoded[c.queue[1]] = 1 /\ c.queue # <<>>
    BY DEF Core, EncodedOnce, WritesHead
  <2>2. ASSUME NEW i \in 1..Len(d.accepted)
        PROVE  /\ i \in 1..Len(c.accepted) \/ i = Len(c.accepted) + 1
               /\ d.accepted[i] <= m
               /\ d.accepted[i] = m => i = Len(c.accepted) + 1
    <3>1. CASE i = Len(c.accepted) + 1
      BY <1>2, <3>1
    <3>2. CASE i \in 1..Len(c.accepted)
      <4>1. d.accepted[i] \in Nat /\ d.accepted[i] <= c.offered
        BY <1>2, <1>3, <2>1, <3>2
      <4>2. QED BY <1>2, <3>2, <4>1
    <3>3. QED BY <1>2, <3>1, <3>2
  <2>3. \A i, j \in 1..Len(d.accepted) : d.accepted[i] = d.accepted[j] => i = j
    BY <1>2, <2>1, <2>2
  <2>4. ASSUME NEW i \in 2..Len(d.queue) PROVE c.encoded[d.queue[i]] = 0
    <3>1. CASE i = Len(c.queue) + 1
      BY <1>2, <1>8, <3>1
    <3>2. CASE i \in 2..Len(c.queue)
      <4>1. d.queue[i] = c.queue[i]
        <5>1. Len(c.queue) \in Nat /\ \A k \in 1..Len(c.queue) : d.queue[k] = c.queue[k]
          BY <1>2
        <5>2. i \in 1..Len(c.queue)
          BY <3>2, <5>1
        <5>3. QED BY <5>1, <5>2
      <4>2. QED BY <2>1, <3>2, <4>1
    <3>3. QED BY <1>2, <3>1, <3>2
  <2>5. c.inFlight # <<>> => c.encoded[d.queue[1]] = 1
    BY <1>2, <2>1, SMTT(30)
  <2>6. \A k \in Messages : c.encoded[k] <= 1 /\ (k > m => c.encoded[k] = 0)
    BY <1>2, <1>3, <2>1
  <2>7. QED BY <1>1, <2>1, <2>2, <2>3, <2>4, <2>5, <2>6 DEF EncodedOnce
<1>10. ClosesDrained(d)
  BY <1>1 DEF Core, ClosesDrained
<1>11. QED BY <1>1, <1>5, <1>7, <1>8, <1>9, <1>10 DEF Core, d, m

-----------------------------------------------------------------------------
(* What the methods do to the life of the connection                       *)

\* A method that closes the connection, posting the release of its protocol, or
\* leaves its state, its tasks and the timers of its operations.
Kept(c, d) ==
  /\ d.read = c.read /\ d.protocol = c.protocol /\ d.receivedFirst = c.receivedFirst
  /\ \/ /\ d.state = "CLOSED"
        /\ d.posted = IF c.state = "OPEN" /\ c.protocol
                      THEN Append(c.posted, "release") ELSE c.posted
     \/ /\ d.state = c.state /\ d.posted = c.posted /\ d.readTimer = c.readTimer
        /\ \/ d.inFlight = c.inFlight /\ d.writeTimer = c.writeTimer
           \/ d.writeTimer # {} \/ d.inFlight = <<>>

\* Methods compose.
LEMMA KeptTwice ==
  ASSUME NEW c \in ConnType, NEW d \in ConnType, NEW e \in ConnType, Kept(c, d), Kept(d, e)
  PROVE  Kept(c, e)
<1>1. CASE d.state = "CLOSED"
  BY <1>1 DEF Kept
<1>2. CASE d.state # "CLOSED"
  BY <1>2 DEF Kept
<1>3. QED BY <1>1, <1>2

\* Close is one of them.
LEMMA CloseKept ==
  ASSUME NEW c \in ConnType, NEW force \in BOOLEAN
  PROVE  Kept(c, Close(c, force)) /\ Close(c, force).state = "CLOSED"
<1> DEFINE d == Close(c, force)
<1>1. /\ d.state = "CLOSED" /\ d.read = c.read
      /\ d.protocol = c.protocol /\ d.receivedFirst = c.receivedFirst
      /\ d.posted = IF c.state = "OPEN" /\ c.protocol
                    THEN Append(c.posted, "release") ELSE c.posted
  BY CloseResult, Zenon
<1> HIDE DEF d
<1>2. Kept(c, d)
  BY <1>1 DEF Kept
<1>3. QED BY <1>1, <1>2 DEF d

\* InternalSend is one.
LEMMA InternalSendKept ==
  ASSUME NEW c \in ConnType, NEW m \in Messages, NEW fail \in BOOLEAN
  PROVE  Kept(c, InternalSend(c, m, fail))
<1> DEFINE d == InternalSend(c, m, fail)
           write == [message |-> m, result |-> "pending"]
           code == [c.encoded EXCEPT ![m] = @ + 1]
<1>1. /\ d.encoded = code
      /\ d.read = c.read /\ d.protocol = c.protocol /\ d.receivedFirst = c.receivedFirst
      /\ fail => /\ d.state = "CLOSED"
                 /\ d.posted = IF c.state = "OPEN" /\ c.protocol
                               THEN Append(c.posted, "release") ELSE c.posted
      /\ ~fail => /\ d.state = c.state /\ d.posted = c.posted
                  /\ d.readTimer = c.readTimer /\ d.writeTimer # {}
                  /\ d.inFlight = Append(c.inFlight, write)
  BY InternalSendResult
<1> HIDE DEF d
<1>2. Kept(c, d)
  BY <1>1 DEF Kept
<1>3. QED BY <1>2 DEF d

\* Connection::send keeps the writes sound, and is one of the methods above.
LEMMA SendSound ==
  ASSUME NEW c \in ConnType, NEW w \in Seq(Messages), NEW fail \in BOOLEAN, Sound(c, w),
         c.offered < MaxMessages
  PROVE  /\ Send(c, fail) \in ConnType
         /\ Sound(Send(c, fail), w)
         /\ Kept(c, Send(c, fail))
<1> DEFINE m == c.offered + 1
           q == Queueing(c)
           r == [c EXCEPT !.offered = m]
<1>1. Send(c, fail) = IF c.state # "OPEN" THEN r
                      ELSE IF c.queue = <<>> THEN InternalSend(q, m, fail) ELSE q
  BY DEF Send, Queueing
<1>2. m \in Messages /\ m \in 0..MaxMessages /\ c.offered <= m
  BY ConnectionBounds DEF ConnType, Messages
<1>3. /\ q \in ConnType /\ q.queue = Append(c.queue, m) /\ q.inFlight = c.inFlight
      /\ q.read = c.read /\ q.protocol = c.protocol /\ q.receivedFirst = c.receivedFirst
      /\ q.state = c.state /\ q.posted = c.posted
      /\ q.readTimer = c.readTimer /\ q.writeTimer = c.writeTimer
      /\ q.abrupt = c.abrupt
  BY QueueingResult, Zenon
<1>4. c.queue \in Seq(Messages) /\ Core(c, w) /\ KeepsWriting(c)
  BY DEF ConnType, Sound
<1>5. q.queue # <<>> /\ (c.queue = <<>> => q.queue[1] = m)
  <2> HIDE DEF q, m
  <2>1. m \in Messages /\ c.queue \in Seq(Messages) /\ q.queue = Append(c.queue, m)
    BY <1>2, <1>3, <1>4
  <2>2. q.queue # <<>> /\ q.queue[Len(c.queue) + 1] = m
    BY <2>1, Appended, SMTT(30)
  <2>3. c.queue = <<>> => Len(c.queue) + 1 = 1
    OBVIOUS
  <2>4. QED BY <2>2, <2>3
<1>6. c.state = "OPEN" => Core(q, w) /\ q.encoded[m] = 0
  BY <1>4, QueueingSound
<1>7. Kept(c, q)
  BY <1>3 DEF Kept
<1>8. CASE c.state # "OPEN"
  <2>1. /\ r \in ConnType /\ r.queue = c.queue /\ r.inFlight = c.inFlight
        /\ r.accepted = c.accepted /\ r.encoded = c.encoded /\ r.undefined = c.undefined
        /\ r.offered = m /\ r.state = c.state /\ r.socket = c.socket
        /\ r.abrupt = c.abrupt /\ r.read = c.read /\ r.protocol = c.protocol
        /\ r.receivedFirst = c.receivedFirst /\ r.posted = c.posted
        /\ r.readTimer = c.readTimer /\ r.writeTimer = c.writeTimer
    <3> HIDE DEF m
    <3> QED BY <1>2 DEF ConnType
  <2> HIDE DEF r, m
  <2>2. ~r.socket /\ ~r.abrupt => r.state = "CLOSED" /\ (c.queue = <<>> \/ ~c.socket)
    BY <2>1, <1>8 DEF ConnType
  <2>3. Core(r, w) /\ KeepsWriting(r)
    BY <1>2, <1>4, <2>1, <2>2, SoundFrame
  <2>4. Kept(c, r)
    BY <2>1 DEF Kept
  <2>5. QED BY <1>1, <1>8, <2>1, <2>3, <2>4 DEF Sound
<1> HIDE DEF q, m
<1>9. CASE c.state = "OPEN" /\ c.queue = <<>>
  <2>1. c.inFlight = <<>>
    BY <1>9 DEF Sound, Core, WritesHead
  <2>2. Sound(InternalSend(q, m, fail), w)
    BY <1>3, <1>5, <1>6, <1>9, <2>1, InternalSendSound
  <2>3. InternalSend(q, m, fail) \in ConnType /\ Kept(q, InternalSend(q, m, fail))
    BY <1>2, <1>3, InternalSendKept, InternalSendResult, Zenon
  <2>4. Kept(c, InternalSend(q, m, fail))
    BY <1>3, <1>7, <2>3, KeptTwice
  <2>5. QED BY <1>1, <1>9, <2>2, <2>3, <2>4
<1>10. CASE c.state = "OPEN" /\ c.queue # <<>>
  <2>1. Sound(q, w)
    BY <1>3, <1>4, <1>5, <1>6, <1>10 DEF Sound, KeepsWriting
  <2>2. QED BY <1>1, <1>3, <1>7, <1>10, <2>1
<1>11. QED BY <1>8, <1>9, <1>10

-----------------------------------------------------------------------------
(* Handling a write                                                        *)

\* The write handled is the only one; the head of the queue is popped.
LEMMA WriteHandled ==
  ASSUME conn \in ConnType, WritesHead(conn), NEW i \in DOMAIN conn.inFlight
  PROVE  LET d == PopFront(WriteDone(i))
         IN  /\ i = 1 /\ conn.queue # <<>>
             /\ d \in ConnType /\ d.inFlight = <<>> /\ d.queue = Tail(conn.queue)
             /\ d.read = conn.read /\ d.state = conn.state /\ d.socket = conn.socket
             /\ d.protocol = conn.protocol /\ d.receivedFirst = conn.receivedFirst
             /\ d.posted = conn.posted /\ d.offered = conn.offered
             /\ d.accepted = conn.accepted /\ d.encoded = conn.encoded
             /\ d.abrupt = conn.abrupt /\ d.undefined = conn.undefined
             /\ d.readTimer = conn.readTimer
<1> DEFINE f == conn.inFlight
           rest == SubSeq(f, 1, i - 1) \o SubSeq(f, i + 1, Len(f))
           c == WriteDone(i)
<1>1. f \in Seq(InFlight) /\ conn.queue \in Seq(Messages)
  BY DEF ConnType
<1>2. i = 1 /\ Len(f) = 1 /\ conn.queue # <<>>
  <2>1. Len(f) <= 1 /\ (f # <<>> => conn.queue # <<>>) /\ i \in DOMAIN f
    BY DEF WritesHead
  <2> HIDE DEF f
  <2>2. Len(f) \in Nat /\ DOMAIN f = 1..Len(f) /\ (Len(f) # 0 => f # <<>>)
    BY <1>1
  <2>3. QED BY <2>1, <2>2
<1>3. rest = <<>>
  <2> HIDE DEF f
  <2>1. SubSeq(f, 1, i - 1) = <<>> /\ SubSeq(f, i + 1, Len(f)) = <<>>
    BY <1>1, <1>2
  <2>2. QED BY <2>1
<1> HIDE DEF rest, f
<1>4. rest \in Seq(InFlight)
  BY <1>3
<1>5. c = [conn EXCEPT !.inFlight = rest, !.writeTimer = Cancel(@)]
  BY DEF WriteDone, rest, f
<1>6. /\ c \in ConnType /\ c.inFlight = <<>> /\ c.queue = conn.queue
      /\ c.read = conn.read /\ c.state = conn.state /\ c.socket = conn.socket
      /\ c.protocol = conn.protocol /\ c.receivedFirst = conn.receivedFirst
      /\ c.posted = conn.posted /\ c.offered = conn.offered
      /\ c.accepted = conn.accepted /\ c.encoded = conn.encoded
      /\ c.abrupt = conn.abrupt /\ c.undefined = conn.undefined
      /\ c.readTimer = conn.readTimer
  <2> HIDE DEF c
  <2>1. QED BY <1>3, <1>4, <1>5 DEF ConnType, Cancel
<1>7. PopFront(c) = [c EXCEPT !.queue = Tail(@)]
  BY <1>2, <1>6 DEF PopFront
<1>8. Tail(c.queue) \in Seq(Messages)
  BY <1>1, <1>2, <1>6
<1> HIDE DEF c
<1>9. LET d == [c EXCEPT !.queue = Tail(@)]
      IN  /\ d \in ConnType /\ d.inFlight = c.inFlight /\ d.queue = Tail(c.queue)
          /\ d.read = c.read /\ d.state = c.state /\ d.socket = c.socket
          /\ d.protocol = c.protocol /\ d.receivedFirst = c.receivedFirst
          /\ d.posted = c.posted /\ d.offered = c.offered
          /\ d.accepted = c.accepted /\ d.encoded = c.encoded
          /\ d.abrupt = c.abrupt /\ d.undefined = c.undefined
          /\ d.readTimer = c.readTimer
  BY <1>6, <1>8 DEF ConnType
<1>10. QED BY <1>2, <1>6, <1>7, <1>9 DEF c

\* The connection once the head, transmitted, has been popped.
LEMMA PoppedSound ==
  ASSUME conn \in ConnType, NEW w \in Seq(Messages), Sound(conn, w),
         NEW i \in DOMAIN conn.inFlight, conn.inFlight[i].result = "ok"
  PROVE  LET d == PopFront(WriteDone(i))
         IN  /\ Core(d, w)
             /\ d.queue # <<>> => d.encoded[d.queue[1]] = 0
<1> DEFINE d == PopFront(WriteDone(i))
           q == conn.queue
<1>1. /\ WritesHead(conn) /\ QueueFollows(conn, w) /\ EncodedOnce(conn, w)
      /\ ClosesDrained(conn)
  BY DEF Sound, Core
<1>2. /\ i = 1 /\ q # <<>> /\ d \in ConnType /\ d.inFlight = <<>> /\ d.queue = Tail(q)
      /\ d.state = conn.state /\ d.socket = conn.socket /\ d.offered = conn.offered
      /\ d.accepted = conn.accepted /\ d.encoded = conn.encoded
      /\ d.abrupt = conn.abrupt /\ d.undefined = conn.undefined
  BY <1>1, WriteHandled, Zenon
<1> HIDE DEF d
<1>3. /\ q \in Seq(Messages) /\ Len(q) \in Nat \ {0} /\ Len(w) \in Nat
      /\ Len(conn.accepted) \in Nat
  BY <1>2, SMTT(30) DEF ConnType
<1>4. /\ Len(d.queue) = Len(q) - 1
      /\ \A k \in 1..(Len(q) - 1) : d.queue[k] = q[k + 1]
      /\ d.queue = <<>> <=> Len(q) = 1
  <2> HIDE DEF q
  <2>1. d.queue \in Seq(Messages) /\ Len(d.queue) = Len(q) - 1
    BY <1>2, <1>3
  <2>2. \A k \in 1..(Len(q) - 1) : d.queue[k] = q[k + 1]
    BY <1>2, <1>3
  <2>3. d.queue = <<>> <=> Len(d.queue) = 0
    BY <2>1, EmptySeq, Zenon
  <2>4. QED BY <1>3, <2>1, <2>2, <2>3
<1>5. Transmitted(conn) = 1 /\ Transmitted(d) = 0
  <2>1. conn.inFlight # <<>> /\ conn.inFlight[1].result = "ok"
    BY <1>2
  <2>2. QED BY <1>2, <2>1 DEF Transmitted
<1>6. WritesHead(d)
  <2>1. Len(d.inFlight) = 0 /\ d.undefined = conn.undefined
    BY <1>2
  <2>2. QED BY <1>1, <1>2, <2>1 DEF WritesHead
<1>7. /\ 1 <= Len(w) /\ Len(w) <= Len(conn.accepted)
      /\ \A k \in 1..Len(w) : w[k] = conn.accepted[k]
      /\ Len(conn.accepted) = Len(w) - 1 + Len(q)
      /\ \A k \in 1..Len(q) : q[k] = conn.accepted[Len(w) - 1 + k]
  BY <1>1, <1>2, <1>5 DEF QueueFollows
<1> HIDE DEF q
<1>8. QueueFollows(d, w)
  <2>1. \A k \in 1..Len(d.queue) : d.queue[k] = conn.accepted[Len(w) + k]
    <3>1. ASSUME NEW k \in 1..Len(d.queue) PROVE d.queue[k] = conn.accepted[Len(w) + k]
      <4>1. k + 1 \in 1..Len(q) /\ d.queue[k] = q[k + 1]
        BY <1>3, <1>4
      <4>2. q[k + 1] = conn.accepted[Len(w) - 1 + (k + 1)]
        BY <1>7, <4>1
      <4>3. Len(w) - 1 + (k + 1) = Len(w) + k
        BY <1>3, <1>4
      <4>4. QED BY <4>1, <4>2, <4>3
    <3>2. QED BY <3>1
  <2>2. Len(conn.accepted) = Len(w) + Len(d.queue)
    BY <1>3, <1>4, <1>7
  <2>3. d.queue = <<>> => Len(w) = Len(conn.accepted)
    <3> DEFINE lw == Len(w)
               la == Len(conn.accepted)
    <3>1. lw \in Nat /\ la \in Nat /\ (Len(q) = 1 => la = lw - 1 + 1)
      BY <1>3, <1>7
    <3> HIDE DEF lw, la
    <3>2. Len(q) = 1 => lw = la
      BY <3>1
    <3>3. QED BY <1>4, <3>2 DEF lw, la
  <2>4. QED BY <1>2, <1>3, <1>5, <1>7, <2>1, <2>2, <2>3 DEF QueueFollows
<1>9. \A k \in 2..Len(q) : conn.encoded[q[k]] = 0
  BY <1>1 DEF EncodedOnce, q
<1>10. \A k \in 1..Len(d.queue) : d.encoded[d.queue[k]] = 0
  <2>1. ASSUME NEW k \in 1..Len(d.queue) PROVE d.encoded[d.queue[k]] = 0
    <3>1. k + 1 \in 2..Len(q) /\ d.queue[k] = q[k + 1]
      BY <1>3, <1>4
    <3>2. QED BY <1>2, <1>9, <3>1
  <2>2. QED BY <2>1
<1>11. EncodedOnce(d, w)
  <2>1. \A k \in 2..Len(d.queue) : d.encoded[d.queue[k]] = 0
    BY <1>3, <1>4, <1>10
  <2>2. QED BY <1>1, <1>2, <2>1 DEF EncodedOnce
<1>12. ClosesDrained(d)
  BY <1>1, <1>2 DEF ClosesDrained, q
<1>13. d.queue # <<>> => d.encoded[d.queue[1]] = 0
  BY <1>3, <1>4, <1>10
<1>14. QED BY <1>6, <1>8, <1>11, <1>12, <1>13 DEF Core, d

-----------------------------------------------------------------------------
(* The steps                                                               *)

\* The life of an existing connection, as Life maps it.
LifeOf(c) == IF c.state = "CLOSED" THEN "closed" ELSE IF c.protocol THEN "open" ELSE "fresh"

\* A step of ConnectionLife, or none, from one record to another.
Moves(c, d) ==
  \/ LifeOf(d) = LifeOf(c) /\ Len(d.posted) = Len(c.posted)
  \/ LifeOf(c) = "fresh" /\ LifeOf(d) = "closed" /\ Len(d.posted) = Len(c.posted)
  \/ /\ LifeOf(c) \in {"fresh", "open"}
     /\ \E task \in {0, 1} :
          \/ LifeOf(d) = "open" /\ Len(d.posted) = Len(c.posted) + task
          \/ LifeOf(d) = "closed" /\ Len(d.posted) = Len(c.posted) + task + 1

\* The tasks of a connection that has posted the release of its protocol.
LEMMA OneMorePosted ==
  ASSUME NEW c \in ConnType, NEW task \in {"packet", "release"}
  PROVE  Len(c.posted) \in Nat /\ Len(Append(c.posted, task)) = Len(c.posted) + 1
BY DEF ConnType

\* The methods keep the bounds and move the life as it may move.
LEMMA KeptMoves ==
  ASSUME NEW c \in ConnType, NEW d \in ConnType, Kept(c, d), NEW n \in Nat,
         NEW forced \in BOOLEAN
  PROVE  /\ Posts(c, n) => Posts(d, n)
         /\ Bounded(c, forced) => Bounded(d, forced)
         /\ Moves(c, d) /\ Len(c.posted) <= Len(d.posted)
<1>1. /\ c.state \in {"OPEN", "CLOSED"} /\ d.state \in {"OPEN", "CLOSED"}
      /\ c.protocol \in BOOLEAN
      /\ Len(c.posted) \in Nat /\ Len(Append(c.posted, "release")) = Len(c.posted) + 1
  BY OneMorePosted DEF ConnType
<1>2. Unserved(d) = Unserved(c) /\ Unserved(c) \in {0, 1}
  BY DEF Kept, Unserved
<1>3. /\ d.protocol = c.protocol
      /\ \/ /\ d.state = "CLOSED"
            /\ Len(d.posted) = IF c.state = "OPEN" /\ c.protocol
                               THEN Len(c.posted) + 1 ELSE Len(c.posted)
         \/ d.state = c.state /\ Len(d.posted) = Len(c.posted)
  BY <1>1 DEF Kept
<1>4. Posts(c, n) => Posts(d, n)
  <2> DEFINE u == Unserved(c)
             lc == Len(c.posted)
             ld == Len(d.posted)
  <2>1. /\ u \in {0, 1} /\ lc \in Nat
        /\ \/ d.state = "CLOSED" /\ ld \in {lc, lc + 1} /\ (c.state # "OPEN" => ld = lc)
           \/ d.state = c.state /\ ld = lc
    BY <1>1, <1>2, <1>3
  <2>2. Posts(c, n) <=> IF c.state = "OPEN" THEN lc + u <= n ELSE lc <= n + 1
    BY DEF Posts
  <2>3. Posts(d, n) <=> IF d.state = "OPEN" THEN ld + u <= n ELSE ld <= n + 1
    BY <1>2 DEF Posts
  <2> HIDE DEF u, lc, ld
  <2>4. CASE d.state = c.state /\ ld = lc
    BY <2>2, <2>3, <2>4
  <2>5. CASE d.state = "CLOSED" /\ ld \in {lc, lc + 1} /\ (c.state # "OPEN" => ld = lc)
    <3>1. CASE c.state = "OPEN"
      BY <2>1, <2>2, <2>3, <2>5, <3>1
    <3>2. CASE c.state # "OPEN"
      BY <2>1, <2>2, <2>3, <2>5, <3>2
    <3>3. QED BY <3>1, <3>2
  <2>6. QED BY <2>1, <2>4, <2>5
<1>5. Bounded(c, forced) => Bounded(d, forced)
  BY DEF Kept, Bounded
<1>6. Moves(c, d) /\ Len(c.posted) <= Len(d.posted)
  <2>1. CASE d.state = c.state /\ Len(d.posted) = Len(c.posted)
    BY <1>1, <1>3, <2>1 DEF Moves, LifeOf
  <2>2. CASE d.state = "CLOSED" /\ c.state = "OPEN" /\ c.protocol
    <3>1. LifeOf(c) = "open" /\ LifeOf(d) = "closed" /\ Len(d.posted) = Len(c.posted) + 0 + 1
      BY <1>1, <1>3, <2>2 DEF LifeOf
    <3>2. QED BY <1>1, <3>1 DEF Moves
  <2>3. CASE d.state = "CLOSED" /\ ~(c.state = "OPEN" /\ c.protocol)
    <3>1. Len(d.posted) = Len(c.posted)
      BY <1>1, <1>3, <2>3
    <3>2. LifeOf(d) = "closed" /\ LifeOf(c) \in {"closed", "fresh"}
      BY <1>1, <2>3 DEF LifeOf
    <3>3. QED BY <1>1, <3>1, <3>2 DEF Moves
  <2>4. QED BY <1>1, <1>3, <2>1, <2>2, <2>3
<1>7. QED BY <1>4, <1>5, <1>6

\* What holds after a step: the invariant, and the step is one of ConnectionLife
\* unless it is the destruction.
Steps ==
  /\ ConnInv'
  /\ alive' = alive => Moves(conn, conn')
  /\ alive' # alive => /\ alive /\ LifeOf(conn) = "closed" /\ Len(conn'.posted) = Len(conn.posted)

\* A step in which a method is called on the connection.
LEMMA MethodStep ==
  ASSUME ConnInv, conn' \in ConnType, Kept(conn, conn'), Sound(conn', wire),
         UNCHANGED <<alive, accepting, closing, wire, packets, served>>
  PROVE  Steps
<1>1. packets \in Nat /\ (closing["io"] = "force") \in BOOLEAN
  BY ConnectionBounds DEF ConnInv
<1>2. /\ Posts(conn', packets) /\ Bounded(conn', closing["io"] = "force")
      /\ Moves(conn, conn') /\ Len(conn.posted) <= Len(conn'.posted)
  BY <1>1, KeptMoves DEF ConnInv
<1>3. served \in 0..Len(conn'.posted)
  <2>1. Len(conn.posted) \in Nat /\ Len(conn'.posted) \in Nat
    BY OneMorePosted DEF ConnInv
  <2>2. QED BY <1>2, <2>1 DEF ConnInv
<1>4. LifeInv'
  BY DEF ConnInv, LifeInv, Kept
<1>5. QED BY <1>2, <1>3, <1>4 DEF Steps, ConnInv

\* A step of a handler that ends one read and may begin another.
LEMMA ReaderStep ==
  ASSUME ConnInv, alive, closing["io"] = "no", accepting' = FALSE,
         conn' \in ConnType, Sound(conn', wire), Moves(conn, conn'),
         Posts(conn', packets), Bounded(conn', FALSE),
         conn'.state = "OPEN" => conn'.read.part # "none",
         Len(conn.posted) <= Len(conn'.posted),
         UNCHANGED <<alive, closing, wire, packets, served>>
  PROVE  Steps
<1>1. served \in 0..Len(conn'.posted)
  <2>1. Len(conn.posted) \in Nat /\ Len(conn'.posted) \in Nat
    BY OneMorePosted DEF ConnInv
  <2>2. QED BY <2>1 DEF ConnInv
<1>2. LifeInv'
  BY DEF ConnInv, LifeInv
<1>3. Bounded(conn', closing'["io"] = "force")
  BY DEF Bounded
<1>4. QED BY <1>1, <1>2, <1>3 DEF Steps, ConnInv

\* What the handlers go on with has the life of what they found.
LEMMA MovesFrom ==
  ASSUME NEW c, NEW d, NEW e, d.state = c.state, d.protocol = c.protocol,
         d.posted = c.posted, Moves(d, e)
  PROVE  Moves(c, e)
<1>1. LifeOf(d) = LifeOf(c)
  BY DEF LifeOf
<1>2. QED BY <1>1 DEF Moves

\* Beginning a read, or closing the connection: on a connection whose read has
\* been handled.
LEMMA BeginsOrCloses ==
  ASSUME ConnInv, NEW a \in ConnType, a.read = NoRead, Sound(a, wire), Bounded(a, FALSE),
         NEW part \in {"header", "body"}, NEW d,
         \/ \E force \in BOOLEAN : d = Close(a, force)
         \/ \E fail \in BOOLEAN : d = BeginRead(a, part, fail)
  PROVE  /\ d \in ConnType /\ Sound(d, wire) /\ Bounded(d, FALSE)
         /\ \/ d.state = "CLOSED" /\ Kept(a, d)
            \/ /\ d.read = [part |-> part, result |-> "pending"]
               /\ d.state = a.state /\ d.protocol = a.protocol /\ d.posted = a.posted
<1>1. wire \in Seq(Messages) /\ Core(a, wire) /\ KeepsWriting(a)
  BY DEF ConnInv, Sound
<1>2. CASE \E force \in BOOLEAN : d = Close(a, force)
  <2>1. PICK force \in BOOLEAN : d = Close(a, force)
    BY <1>2
  <2>2. Kept(a, d) /\ d.state = "CLOSED" /\ d \in ConnType
    BY <2>1, CloseKept, CloseResult, Zenon
  <2>3. Sound(d, wire)
    BY <1>1, <2>1, CloseSound DEF Sound
  <2>4. QED BY <2>2, <2>3 DEF Bounded
<1>3. CASE \E fail \in BOOLEAN : d = BeginRead(a, part, fail)
  <2>1. PICK fail \in BOOLEAN : d = BeginRead(a, part, fail)
    BY <1>3
  <2>2. CASE fail = TRUE
    <3>1. d = Close(a, TRUE)
      BY <2>1, <2>2, BeginReadResult, Zenon
    <3>2. QED BY <1>2, <3>1
  <2>3. CASE fail = FALSE
    <3>1. /\ d \in ConnType /\ d.read = [part |-> part, result |-> "pending"]
          /\ d.readTimer # {}
          /\ d.state = a.state /\ d.socket = a.socket
          /\ d.queue = a.queue /\ d.inFlight = a.inFlight
          /\ d.writeTimer = a.writeTimer /\ d.protocol = a.protocol
          /\ d.posted = a.posted /\ d.offered = a.offered
          /\ d.accepted = a.accepted /\ d.encoded = a.encoded
          /\ d.abrupt = a.abrupt /\ d.undefined = a.undefined
      BY <2>1, <2>3, BeginReadResult, Zenon
    <3>2. a.offered <= d.offered
      BY <3>1, ConnectionBounds DEF ConnType
    <3>3. ~d.socket /\ ~d.abrupt => d.state = "CLOSED" /\ (a.queue = <<>> \/ ~a.socket)
      BY <1>1, <3>1 DEF Core, ClosesDrained
    <3>4. Sound(d, wire)
      BY <1>1, <3>1, <3>2, <3>3, SoundFrame DEF Sound
    <3>5. Bounded(d, FALSE)
      BY <3>1 DEF Bounded
    <3>6. QED BY <2>1, <3>1, <3>4, <3>5
  <2>4. QED BY <2>2, <2>3
<1>4. QED BY <1>2, <1>3

\* The connection once its read has been taken off.
LEMMA AfterReadResult ==
  ASSUME ConnInv
  PROVE  /\ AfterRead \in ConnType /\ AfterRead.read = NoRead
         /\ AfterRead.state = conn.state /\ AfterRead.protocol = conn.protocol
         /\ AfterRead.receivedFirst = conn.receivedFirst
         /\ AfterRead.posted = conn.posted /\ AfterRead.offered = conn.offered
         /\ Sound(AfterRead, wire)
         /\ closing["io"] = "no" => Bounded(AfterRead, FALSE)
<1> DEFINE a == AfterRead
<1>1. /\ a \in ConnType /\ a.read = NoRead
      /\ a.state = conn.state /\ a.socket = conn.socket
      /\ a.queue = conn.queue /\ a.inFlight = conn.inFlight
      /\ a.writeTimer = conn.writeTimer /\ a.protocol = conn.protocol
      /\ a.receivedFirst = conn.receivedFirst
      /\ a.posted = conn.posted /\ a.offered = conn.offered
      /\ a.accepted = conn.accepted /\ a.encoded = conn.encoded
      /\ a.abrupt = conn.abrupt /\ a.undefined = conn.undefined
  BY DEF ConnInv, AfterRead, ConnType, NoRead, Cancel, Results
<1> HIDE DEF a
<1>2. wire \in Seq(Messages) /\ Core(conn, wire) /\ KeepsWriting(conn) /\ conn \in ConnType
  BY DEF ConnInv, Sound
<1>3. conn.offered <= a.offered
  BY <1>1, <1>2, ConnectionBounds DEF ConnType
<1>4. ~a.socket /\ ~a.abrupt => a.state = "CLOSED" /\ (conn.queue = <<>> \/ ~conn.socket)
  BY <1>1, <1>2 DEF Core, ClosesDrained
<1>5. Sound(a, wire)
  BY <1>1, <1>2, <1>3, <1>4, SoundFrame DEF Sound
<1>6. closing["io"] = "no" => Bounded(a, FALSE)
  BY <1>1 DEF ConnInv, Bounded, NoRead
<1>7. QED BY <1>1, <1>5, <1>6 DEF a

\* ServicePort::onAccept.
LEMMA OnAcceptStep == ASSUME ConnInv, OnAccept PROVE Steps
<1>1. /\ alive /\ closing["io"] = "no" /\ accepting /\ accepting' = FALSE
      /\ UNCHANGED <<alive, closing, wire, packets, served>>
      /\ \/ \E force \in BOOLEAN : conn' = Close(conn, force)
         \/ \E fail \in BOOLEAN : conn' = BeginRead(conn, "header", fail)
  BY DEF OnAccept, IoFree
<1>2. /\ conn \in ConnType /\ conn.read = NoRead /\ Sound(conn, wire)
      /\ packets \in Nat /\ Posts(conn, packets) /\ Bounded(conn, FALSE)
  BY <1>1, ConnectionBounds DEF ConnInv, LifeInv, Bounded, NoRead
<1>3. /\ conn' \in ConnType /\ Sound(conn', wire) /\ Bounded(conn', FALSE)
      /\ \/ conn'.state = "CLOSED" /\ Kept(conn, conn')
         \/ /\ conn'.read = [part |-> "header", result |-> "pending"]
            /\ conn'.state = conn.state /\ conn'.protocol = conn.protocol
            /\ conn'.posted = conn.posted
  BY <1>1, <1>2, BeginsOrCloses
<1>4. CASE conn'.state = "CLOSED" /\ Kept(conn, conn')
  <2>1. Moves(conn, conn') /\ Posts(conn', packets) /\ Len(conn.posted) <= Len(conn'.posted)
    BY <1>2, <1>3, <1>4, KeptMoves
  <2>2. QED BY <1>1, <1>3, <1>4, <2>1, ReaderStep
<1>5. CASE /\ conn'.read = [part |-> "header", result |-> "pending"]
           /\ conn'.state = conn.state /\ conn'.protocol = conn.protocol
           /\ conn'.posted = conn.posted
  <2>1. Moves(conn, conn')
    BY <1>5 DEF Moves, LifeOf
  <2>2. Unserved(conn') = 0 /\ Unserved(conn) = 0
    BY <1>2, <1>5 DEF Unserved, NoRead
  <2>3. Posts(conn', packets)
    BY <1>2, <1>5, <2>2 DEF Posts
  <2>4. Len(conn.posted) <= Len(conn'.posted)
    BY <1>2, <1>5, OneMorePosted
  <2>5. conn'.read.part # "none"
    BY <1>5
  <2>6. QED BY <1>1, <1>3, <2>1, <2>3, <2>4, <2>5, ReaderStep
<1>6. QED BY <1>3, <1>4, <1>5

\* Connection::parseHeader.
LEMMA ParseHeaderStep == ASSUME ConnInv, ParseHeader PROVE Steps
<1> DEFINE a == AfterRead
<1>1. /\ alive /\ closing["io"] = "no" /\ conn.read.part = "header"
      /\ conn.read.result # "pending"
      /\ UNCHANGED <<alive, accepting, closing, wire, packets, served>>
      /\ \/ conn'.state # "OPEN" /\ conn' = a
         \/ \E force \in BOOLEAN : conn' = Close(a, force)
         \/ conn.read.result = "ok" /\ \E fail \in BOOLEAN : conn' = BeginRead(a, "body", fail)
  <2>1. /\ alive /\ closing["io"] = "no" /\ conn.read.part = "header"
        /\ conn.read.result # "pending"
        /\ UNCHANGED <<alive, accepting, closing, wire, packets, served>>
        /\ conn' \in IF conn.read.result = "error" THEN {Close(a, TRUE)}
                     ELSE IF conn.state # "OPEN" THEN {a}
                     ELSE {Close(a, FALSE), Close(a, TRUE)}
                          \cup {BeginRead(a, "body", fail) : fail \in BOOLEAN}
    BY DEF ParseHeader, ReadHandler, IoFree
  <2>2. conn.read.result \in {"ok", "error"} /\ a.state = conn.state
    BY <2>1, AfterReadResult DEF ConnInv, ConnType, Results
  <2> HIDE DEF a
  <2>3. CASE conn.read.result = "error"
    BY <2>1, <2>3
  <2>4. CASE conn.read.result = "ok" /\ conn.state # "OPEN"
    BY <2>1, <2>2, <2>4
  <2>5. CASE conn.read.result = "ok" /\ conn.state = "OPEN"
    BY <2>1, <2>5
  <2>6. QED BY <2>2, <2>3, <2>4, <2>5
<1>2. /\ a \in ConnType /\ a.read = NoRead /\ a.state = conn.state
      /\ a.protocol = conn.protocol /\ a.posted = conn.posted
      /\ Sound(a, wire) /\ Bounded(a, FALSE)
  BY <1>1, AfterReadResult
<1> HIDE DEF a
<1>3. /\ accepting' = FALSE /\ packets \in Nat
      /\ conn \in ConnType /\ Len(conn.posted) \in Nat /\ Posts(conn, packets)
  BY <1>1, ConnectionBounds, OneMorePosted DEF ConnInv, LifeInv, NoRead
<1>4. Unserved(a) = 0 /\ Unserved(conn) \in {0, 1}
      /\ (conn.read.result = "ok" => Unserved(conn) = 1)
  BY <1>1, <1>2 DEF Unserved, NoRead
<1>5. Posts(a, packets)
  BY <1>2, <1>3, <1>4 DEF Posts
<1>6. CASE conn'.state # "OPEN" /\ conn' = a
  <2>1. Moves(conn, conn')
    BY <1>2, <1>6 DEF Moves, LifeOf
  <2>2. Len(conn.posted) <= Len(conn'.posted)
    BY <1>2, <1>3, <1>6
  <2>3. QED BY <1>1, <1>2, <1>3, <1>5, <1>6, <2>1, <2>2, ReaderStep
<1>7. ASSUME conn' \in ConnType, Sound(conn', wire), Bounded(conn', FALSE),
             conn'.state = "CLOSED", Kept(a, conn')
      PROVE  Steps
  <2>1. Moves(a, conn') /\ Posts(conn', packets) /\ Len(a.posted) <= Len(conn'.posted)
    BY <1>2, <1>3, <1>5, <1>7, KeptMoves
  <2>2. Moves(conn, conn')
    BY <1>2, <2>1, MovesFrom
  <2>3. QED BY <1>1, <1>2, <1>3, <1>7, <2>1, <2>2, ReaderStep
<1>8. CASE \E force \in BOOLEAN : conn' = Close(a, force)
  <2>1. conn' \in ConnType /\ Sound(conn', wire) /\ Bounded(conn', FALSE)
    BY <1>2, <1>8, BeginsOrCloses
  <2>2. conn'.state = "CLOSED" /\ Kept(a, conn')
    BY <1>2, <1>8, CloseKept
  <2>3. QED BY <1>7, <2>1, <2>2
<1>9. CASE conn.read.result = "ok" /\ \E fail \in BOOLEAN : conn' = BeginRead(a, "body", fail)
  <2>1. /\ conn' \in ConnType /\ Sound(conn', wire) /\ Bounded(conn', FALSE)
        /\ \/ conn'.state = "CLOSED" /\ Kept(a, conn')
           \/ /\ conn'.read = [part |-> "body", result |-> "pending"]
              /\ conn'.state = a.state /\ conn'.protocol = a.protocol
              /\ conn'.posted = a.posted
    BY <1>2, <1>9, BeginsOrCloses
  <2>2. CASE /\ conn'.read = [part |-> "body", result |-> "pending"]
             /\ conn'.state = a.state /\ conn'.protocol = a.protocol
             /\ conn'.posted = a.posted
    <3>1. Moves(conn, conn')
      BY <1>2, <2>2 DEF Moves, LifeOf
    <3>2. Unserved(conn') = 1 /\ Unserved(conn) = 1 /\ conn'.read.part # "none"
      BY <1>4, <1>9, <2>2 DEF Unserved
    <3>3. Posts(conn', packets) /\ Len(conn.posted) <= Len(conn'.posted)
      BY <1>2, <1>3, <2>2, <3>2 DEF Posts
    <3>4. QED BY <1>1, <1>3, <2>1, <3>1, <3>2, <3>3, ReaderStep
  <2>3. QED BY <1>7, <2>1, <2>2
<1>10. QED BY <1>1, <1>6, <1>8, <1>9

\* Fields the writes and the bounds do not look at.
LEMMA SameWrites ==
  ASSUME ConnInv, NEW c \in ConnType, NEW d \in ConnType, Sound(c, wire), Bounded(c, FALSE),
         d.read = c.read, d.state = c.state, d.socket = c.socket,
         d.readTimer = c.readTimer, d.writeTimer = c.writeTimer,
         d.queue = c.queue, d.inFlight = c.inFlight, d.offered = c.offered,
         d.accepted = c.accepted, d.encoded = c.encoded,
         d.abrupt = c.abrupt, d.undefined = c.undefined
  PROVE  Sound(d, wire) /\ Bounded(d, FALSE)
<1>1. wire \in Seq(Messages) /\ Core(c, wire) /\ KeepsWriting(c)
  BY DEF ConnInv, Sound
<1>2. c.offered <= d.offered
  BY ConnectionBounds DEF ConnType
<1>3. ~d.socket /\ ~d.abrupt => d.state = "CLOSED" /\ (c.queue = <<>> \/ ~c.socket)
  BY <1>1 DEF Core, ClosesDrained
<1>4. Sound(d, wire)
  BY <1>1, <1>2, <1>3, SoundFrame DEF Sound
<1>5. Bounded(d, FALSE)
  BY DEF Bounded
<1>6. QED BY <1>4, <1>5

\* What the protocol makes of the connection: a task may be posted, and the
\* connection may be closed and its release posted.
LEMMA ReceivedResult ==
  ASSUME ConnInv, NEW c \in ConnType, c.read = NoRead, c.state = "OPEN", c.protocol = TRUE,
         Sound(c, wire), Bounded(c, FALSE), NEW r \in Received(c)
  PROVE  /\ r \in ConnType /\ r.read = NoRead /\ r.protocol = TRUE
         /\ Sound(r, wire) /\ Bounded(r, FALSE)
         /\ Len(c.posted) \in Nat
         /\ \/ r.state = "OPEN" /\ Len(r.posted) \in {Len(c.posted), Len(c.posted) + 1}
            \/ r.state = "CLOSED" /\ Len(r.posted) \in {Len(c.posted) + 1, Len(c.posted) + 2}
<1>1. /\ wire \in Seq(Messages) /\ Core(c, wire) /\ KeepsWriting(c)
      /\ Len(c.posted) \in Nat
      /\ Len(Append(c.posted, "packet")) = Len(c.posted) + 1
      /\ Len(Append(c.posted, "release")) = Len(c.posted) + 1
  BY OneMorePosted DEF ConnInv, Sound
<1>2. ASSUME NEW d \in ConnType, d.state = "CLOSED", Kept(c, d), Sound(d, wire)
      PROVE  /\ d.read = NoRead /\ d.protocol = TRUE /\ Bounded(d, FALSE)
             /\ Len(d.posted) = Len(c.posted) + 1
  <2>1. d.posted = Append(c.posted, "release")
    BY <1>2 DEF Kept
  <2>2. QED BY <1>1, <1>2, <2>1 DEF Kept, Bounded
<1>3. CASE r = c
  BY <1>1, <1>3
<1> DEFINE q == Post(c)
<1>4. /\ q \in ConnType /\ q.read = NoRead /\ q.state = "OPEN" /\ q.protocol = TRUE
      /\ Sound(q, wire) /\ Bounded(q, FALSE)
      /\ q.posted \in Seq({"packet", "release"}) /\ Len(q.posted) = Len(c.posted) + 1
  <2> DEFINE tasks == Append(c.posted, "packet")
  <2>1. tasks \in Seq({"packet", "release"})
    BY DEF ConnType
  <2>2. q = [c EXCEPT !.posted = tasks]
    BY DEF Post
  <2> HIDE DEF tasks, q
  <2>3. /\ q \in ConnType /\ q.posted = tasks
        /\ q.read = c.read /\ q.state = c.state /\ q.socket = c.socket
        /\ q.readTimer = c.readTimer /\ q.writeTimer = c.writeTimer
        /\ q.queue = c.queue /\ q.inFlight = c.inFlight /\ q.offered = c.offered
        /\ q.accepted = c.accepted /\ q.encoded = c.encoded
        /\ q.abrupt = c.abrupt /\ q.undefined = c.undefined
        /\ q.protocol = c.protocol
    BY <2>1, <2>2 DEF ConnType
  <2>4. Sound(q, wire) /\ Bounded(q, FALSE)
    BY <2>3, SameWrites
  <2>5. QED BY <1>1, <2>1, <2>3, <2>4 DEF tasks
<1> HIDE DEF q
<1>5. CASE r = Close(c, FALSE)
  <2>1. r \in ConnType /\ r.state = "CLOSED" /\ Kept(c, r)
    BY <1>5, CloseResult, CloseKept, Zenon
  <2>2. Sound(r, wire)
    BY <1>1, <1>5, CloseSound DEF Sound
  <2>3. QED BY <1>1, <1>2, <2>1, <2>2
<1>6. ASSUME NEW fail \in BOOLEAN, c.offered < MaxMessages, r = Close(Send(c, fail), FALSE)
      PROVE  r \in ConnType /\ r.state = "CLOSED" /\ Kept(c, r) /\ Sound(r, wire)
  <2> DEFINE d == Send(c, fail)
  <2>1. d \in ConnType /\ Sound(d, wire) /\ Kept(c, d)
    BY <1>1, <1>6, SendSound
  <2> HIDE DEF d
  <2>2. r = Close(d, FALSE)
    BY <1>6 DEF d
  <2>3. r \in ConnType /\ r.state = "CLOSED" /\ Kept(d, r)
    BY <2>1, <2>2, CloseResult, CloseKept, Zenon
  <2>4. Sound(r, wire)
    BY <1>1, <2>1, <2>2, CloseSound DEF Sound
  <2>5. QED BY <2>1, <2>3, <2>4, KeptTwice
<1>7. CASE \E fail \in BOOLEAN : c.offered < MaxMessages /\ r = Close(Send(c, fail), FALSE)
  <2>1. r \in ConnType /\ r.state = "CLOSED" /\ Kept(c, r) /\ Sound(r, wire)
    BY <1>6, <1>7
  <2>2. QED BY <1>1, <1>2, <2>1
<1>8. CASE r = Close(q, FALSE)
  <2>1. r \in ConnType /\ r.state = "CLOSED" /\ Kept(q, r)
    BY <1>4, <1>8, CloseResult, CloseKept, Zenon
  <2>2. Sound(r, wire)
    BY <1>1, <1>4, <1>8, CloseSound DEF Sound
  <2>3. r.posted = Append(q.posted, "release") /\ Len(Append(q.posted, "release")) = Len(q.posted) + 1
    BY <1>4, <2>1, OneMorePosted DEF Kept
  <2>4. r.read = NoRead /\ r.protocol = TRUE /\ Bounded(r, FALSE)
    BY <1>4, <2>1 DEF Kept, Bounded
  <2>5. Len(r.posted) = Len(c.posted) + 2
    <3>1. Len(r.posted) = Len(q.posted) + 1 /\ Len(q.posted) = Len(c.posted) + 1
      BY <1>4, <2>3, Zenon
    <3>2. QED BY <1>1, <3>1
  <2>6. QED BY <1>1, <2>1, <2>2, <2>4, <2>5, Zenon
<1>9. QED BY <1>1, <1>3, <1>4, <1>5, <1>7, <1>8 DEF Received, q

\* Connection::parsePacket.
LEMMA ParsePacketStep == ASSUME ConnInv, ParsePacket PROVE Steps
<1> DEFINE a == AfterRead
           p == WithProtocol(a)
           u == [a EXCEPT !.receivedFirst = TRUE]
           n == Len(conn.posted)
<1>1. /\ alive /\ closing["io"] = "no" /\ conn.read.part = "body"
      /\ UNCHANGED <<alive, accepting, closing, wire, packets, served>>
      /\ \/ conn'.state # "OPEN" /\ conn' = a
         \/ conn' = Close(a, TRUE)
         \/ conn.state = "OPEN" /\ conn' = Close(u, TRUE)
         \/ /\ conn.state = "OPEN"
            /\ \E r \in Received(p), fail \in BOOLEAN : conn' = BeginRead(r, "header", fail)
  <2>1. /\ alive /\ closing["io"] = "no" /\ conn.read.part = "body"
        /\ UNCHANGED <<alive, accepting, closing, wire, packets, served>>
    BY DEF ParsePacket, ReadHandler, IoFree
  <2>2. conn' \in IF conn.read.result = "error" THEN {Close(a, TRUE)}
                  ELSE IF conn.state # "OPEN" THEN {a}
                  ELSE ReadsNext(p)
                       \cup (IF conn.receivedFirst THEN {} ELSE {Close(u, TRUE)})
    BY DEF ParsePacket
  <2>3. a.state = conn.state
    BY AfterReadResult
  <2> HIDE DEF a, p, u
  <2>4. conn' \in ReadsNext(p) =>
          \E r \in Received(p), fail \in BOOLEAN : conn' = BeginRead(r, "header", fail)
    BY DEF ReadsNext
  <2>5. conn.state \in {"OPEN", "CLOSED"}
    BY DEF ConnInv, ConnType
  <2>6. QED BY <2>1, <2>2, <2>3, <2>4, <2>5
<1>2. /\ a \in ConnType /\ a.read = NoRead /\ a.state = conn.state
      /\ a.protocol = conn.protocol /\ a.posted = conn.posted
      /\ Sound(a, wire) /\ Bounded(a, FALSE)
  BY <1>1, AfterReadResult
<1> HIDE DEF a
<1>3. /\ accepting' = FALSE /\ packets \in Nat
      /\ conn \in ConnType /\ n \in Nat /\ Posts(conn, packets)
      /\ conn.state \in {"OPEN", "CLOSED"} /\ conn.protocol \in BOOLEAN
  BY <1>1, ConnectionBounds, OneMorePosted DEF ConnInv, LifeInv, NoRead, ConnType
<1>4. /\ conn.state = "OPEN" => n + 1 <= packets
      /\ conn.state = "CLOSED" => n <= packets + 1
  BY <1>1, <1>3 DEF Posts, Unserved
<1>5. Unserved(a) = 0
  BY <1>2 DEF Unserved, NoRead
<1>6. Posts(a, packets)
  BY <1>2, <1>3, <1>4, <1>5 DEF Posts
<1>7. CASE conn'.state # "OPEN" /\ conn' = a
  <2>1. Moves(conn, conn')
    BY <1>2, <1>7 DEF Moves, LifeOf
  <2>2. Len(conn.posted) <= Len(conn'.posted)
    BY <1>2, <1>3, <1>7
  <2>3. QED BY <1>1, <1>2, <1>3, <1>6, <1>7, <2>1, <2>2, ReaderStep
<1>8. ASSUME NEW c \in ConnType, conn' = Close(c, TRUE), c.read = NoRead, c.state = conn.state,
             c.protocol = conn.protocol, c.posted = conn.posted,
             Sound(c, wire), Bounded(c, FALSE)
      PROVE  Steps
  <2>1. conn' \in ConnType /\ Sound(conn', wire) /\ Bounded(conn', FALSE)
    BY <1>8, BeginsOrCloses
  <2>2. conn'.state = "CLOSED" /\ Kept(c, conn')
    BY <1>8, CloseKept
  <2>3. Posts(c, packets)
    BY <1>2, <1>5, <1>6, <1>8 DEF Posts, Unserved
  <2>4. Moves(c, conn') /\ Posts(conn', packets) /\ Len(c.posted) <= Len(conn'.posted)
    BY <1>3, <1>8, <2>1, <2>2, <2>3, KeptMoves
  <2>5. Moves(conn, conn')
    BY <1>8, <2>4, MovesFrom
  <2>6. QED BY <1>1, <1>3, <1>8, <2>1, <2>2, <2>4, <2>5, ReaderStep
<1>9. CASE conn' = Close(a, TRUE)
  BY <1>2, <1>8, <1>9
<1>10. CASE conn' = Close(u, TRUE)
  <2>1. /\ u \in ConnType
        /\ u.read = a.read /\ u.state = a.state /\ u.socket = a.socket
        /\ u.readTimer = a.readTimer /\ u.writeTimer = a.writeTimer
        /\ u.queue = a.queue /\ u.inFlight = a.inFlight /\ u.offered = a.offered
        /\ u.accepted = a.accepted /\ u.encoded = a.encoded
        /\ u.abrupt = a.abrupt /\ u.undefined = a.undefined
        /\ u.protocol = a.protocol /\ u.posted = a.posted
    BY <1>2 DEF ConnType
  <2> HIDE DEF u
  <2>2. Sound(u, wire) /\ Bounded(u, FALSE)
    BY <1>2, <2>1, SameWrites
  <2>3. QED BY <1>2, <1>8, <1>10, <2>1, <2>2
<1>11. CASE /\ conn.state = "OPEN"
            /\ \E r \in Received(p), fail \in BOOLEAN : conn' = BeginRead(r, "header", fail)
  <2>1. /\ p \in ConnType
        /\ p.read = a.read /\ p.state = a.state /\ p.socket = a.socket
        /\ p.readTimer = a.readTimer /\ p.writeTimer = a.writeTimer
        /\ p.queue = a.queue /\ p.inFlight = a.inFlight /\ p.offered = a.offered
        /\ p.accepted = a.accepted /\ p.encoded = a.encoded
        /\ p.abrupt = a.abrupt /\ p.undefined = a.undefined
        /\ p.protocol = TRUE /\ p.posted = a.posted
    BY <1>2 DEF ConnType, WithProtocol
  <2> HIDE DEF p
  <2>2. Sound(p, wire) /\ Bounded(p, FALSE)
    BY <1>2, <2>1, SameWrites
  <2>3. PICK r \in Received(p), fail \in BOOLEAN : conn' = BeginRead(r, "header", fail)
    BY <1>11
  <2>4. /\ r \in ConnType /\ r.read = NoRead /\ r.protocol = TRUE
        /\ Sound(r, wire) /\ Bounded(r, FALSE)
        /\ \/ r.state = "OPEN" /\ Len(r.posted) \in {Len(p.posted), Len(p.posted) + 1}
           \/ r.state = "CLOSED" /\ Len(r.posted) \in {Len(p.posted) + 1, Len(p.posted) + 2}
    BY <1>2, <1>11, <2>1, <2>2, ReceivedResult
  <2>5. /\ conn' \in ConnType /\ Sound(conn', wire) /\ Bounded(conn', FALSE)
        /\ \/ conn'.state = "CLOSED" /\ Kept(r, conn')
           \/ /\ conn'.read = [part |-> "header", result |-> "pending"]
              /\ conn'.state = r.state /\ conn'.protocol = r.protocol
              /\ conn'.posted = r.posted
    BY <2>3, <2>4, BeginsOrCloses
  <2> DEFINE k == Len(conn'.posted)
  <2>6. /\ conn'.state = "OPEN" => /\ k \in {n, n + 1} /\ conn'.protocol = TRUE
                                   /\ Unserved(conn') = 0 /\ conn'.read.part # "none"
        /\ conn'.state # "OPEN" => conn'.state = "CLOSED" /\ k \in {n + 1, n + 2}
    <3>1. CASE conn'.state = "CLOSED" /\ Kept(r, conn')
      <4>1. Len(r.posted) \in Nat /\ Len(Append(r.posted, "release")) = Len(r.posted) + 1
        BY <2>4, OneMorePosted
      <4>2. k = IF r.state = "OPEN" THEN Len(r.posted) + 1 ELSE Len(r.posted)
        BY <2>4, <3>1, <4>1 DEF Kept
      <4>3. QED BY <1>2, <1>3, <2>1, <2>4, <3>1, <4>2
    <3>2. CASE /\ conn'.read = [part |-> "header", result |-> "pending"]
               /\ conn'.state = r.state /\ conn'.protocol = r.protocol
               /\ conn'.posted = r.posted
      <4>1. Unserved(conn') = 0 /\ conn'.read.part # "none"
        BY <3>2 DEF Unserved
      <4>2. QED BY <1>2, <1>3, <2>1, <2>4, <3>2, <4>1
    <3>3. QED BY <2>5, <3>1, <3>2
  <2>7. Posts(conn', packets)
    <3>1. Posts(conn', packets) <=> IF conn'.state = "OPEN" THEN k + Unserved(conn') <= packets
                                    ELSE k <= packets + 1
      BY DEF Posts
    <3> HIDE DEF k, n
    <3>2. QED BY <1>3, <1>4, <1>11, <2>6, <3>1
  <2>8. n <= k
    <3> HIDE DEF k, n
    <3>1. QED BY <1>3, <2>6
  <2>9. Moves(conn, conn')
    <3>1. LifeOf(conn) \in {"fresh", "open"}
      BY <1>11 DEF LifeOf
    <3>2. CASE conn'.state = "OPEN"
      <4>1. LifeOf(conn') = "open" /\ k \in {n + 0, n + 1}
        BY <1>3, <2>6, <3>2 DEF LifeOf
      <4>2. QED BY <3>1, <4>1 DEF Moves
    <3>3. CASE conn'.state # "OPEN"
      <4>1. LifeOf(conn') = "closed" /\ k \in {n + 0 + 1, n + 1 + 1}
        BY <1>3, <2>6, <3>3 DEF LifeOf
      <4>2. QED BY <3>1, <4>1 DEF Moves
    <3>4. QED BY <3>2, <3>3
  <2>10. QED BY <1>1, <1>3, <2>5, <2>6, <2>7, <2>8, <2>9, ReaderStep
<1>12. QED BY <1>1, <1>7, <1>9, <1>10, <1>11

\* Connection::onWriteOperation.
LEMMA OnWriteOperationStep == ASSUME ConnInv, OnWriteOperation PROVE Steps
<1>1. /\ conn \in ConnType /\ wire \in Seq(Messages) /\ Sound(conn, wire)
      /\ WritesHead(conn) /\ QueueFollows(conn, wire) /\ EncodedOnce(conn, wire)
      /\ ClosesDrained(conn)
  BY DEF ConnInv, Sound, Core
<1>2. UNCHANGED <<alive, accepting, closing, wire, packets, served>>
  BY DEF OnWriteOperation
<1>3. PICK i \in DOMAIN conn.inFlight, fail \in BOOLEAN :
        /\ conn.inFlight[i].result # "pending"
        /\ LET c == PopFront(WriteDone(i))
           IN IF conn.inFlight[i].result = "error"
              THEN conn' = [Close([c EXCEPT !.queue = <<>>], TRUE) EXCEPT !.abrupt = TRUE]
              ELSE IF c.queue # <<>> THEN conn' = InternalSend(c, Head(c.queue), fail)
              ELSE IF c.state = "CLOSED" THEN conn' = CloseSocket(c)
              ELSE conn' = c
  BY DEF OnWriteOperation
<1> DEFINE d == PopFront(WriteDone(i))
<1>4. /\ i = 1 /\ conn.queue # <<>>
      /\ d \in ConnType /\ d.inFlight = <<>> /\ d.queue = Tail(conn.queue)
      /\ d.read = conn.read /\ d.state = conn.state /\ d.socket = conn.socket
      /\ d.protocol = conn.protocol /\ d.receivedFirst = conn.receivedFirst
      /\ d.posted = conn.posted /\ d.offered = conn.offered
      /\ d.accepted = conn.accepted /\ d.encoded = conn.encoded
      /\ d.abrupt = conn.abrupt /\ d.undefined = conn.undefined
      /\ d.readTimer = conn.readTimer
  BY <1>1, WriteHandled
<1>5. Kept(conn, d)
  <2> HIDE DEF d
  <2> QED BY <1>4 DEF Kept
<1>6. conn.inFlight[i].result \in {"ok", "error"} /\ conn.inFlight # <<>>
  <2>1. conn.inFlight \in Seq(InFlight)
    BY <1>1 DEF ConnType
  <2>2. conn.inFlight[i] \in InFlight
    BY <2>1
  <2>3. QED BY <1>3, <2>1, <2>2 DEF InFlight, Results
<1>7. conn' = IF conn.inFlight[i].result = "error"
              THEN [Close([d EXCEPT !.queue = <<>>], TRUE) EXCEPT !.abrupt = TRUE]
              ELSE IF d.queue # <<>> THEN InternalSend(d, Head(d.queue), fail)
              ELSE IF d.state = "CLOSED" THEN CloseSocket(d) ELSE d
  BY <1>3
<1>8. CASE conn.inFlight[i].result = "error"
  <2> DEFINE e == [d EXCEPT !.queue = <<>>]
             r == Close(e, TRUE)
             s == [r EXCEPT !.abrupt = TRUE]
  <2>1. conn' = s
    BY <1>7, <1>8
  <2> HIDE DEF d
  <2>2. /\ e \in ConnType /\ e.queue = <<>> /\ e.inFlight = <<>> /\ e.read = conn.read
        /\ e.state = conn.state /\ e.posted = conn.posted /\ e.protocol = conn.protocol
        /\ e.receivedFirst = conn.receivedFirst /\ e.offered = conn.offered
        /\ e.accepted = conn.accepted /\ e.encoded = conn.encoded
        /\ e.undefined = conn.undefined
    <3>1. <<>> \in Seq(Messages)
      OBVIOUS
    <3>2. e \in ConnType /\ e.queue = <<>>
      BY <1>4, <3>1 DEF ConnType
    <3>3. /\ e.inFlight = d.inFlight /\ e.read = d.read /\ e.state = d.state
          /\ e.posted = d.posted /\ e.protocol = d.protocol
          /\ e.receivedFirst = d.receivedFirst /\ e.offered = d.offered
          /\ e.accepted = d.accepted /\ e.encoded = d.encoded
          /\ e.undefined = d.undefined
      BY <1>4 DEF ConnType
    <3> HIDE DEF e
    <3>4. QED BY <1>4, <3>2, <3>3
  <2> HIDE DEF e
  <2>3. /\ r \in ConnType /\ r.state = "CLOSED"
        /\ r.read = e.read /\ r.queue = e.queue /\ r.inFlight = e.inFlight
        /\ r.protocol = e.protocol /\ r.receivedFirst = e.receivedFirst
        /\ r.offered = e.offered /\ r.accepted = e.accepted
        /\ r.encoded = e.encoded /\ r.undefined = e.undefined
        /\ r.posted = IF e.state = "OPEN" /\ e.protocol
                      THEN Append(e.posted, "release") ELSE e.posted
    BY <2>2, CloseResult, Zenon
  <2> HIDE DEF r
  <2>4. /\ s \in ConnType /\ s.state = "CLOSED" /\ s.abrupt
        /\ s.read = r.read /\ s.queue = r.queue /\ s.inFlight = r.inFlight
        /\ s.protocol = r.protocol /\ s.receivedFirst = r.receivedFirst
        /\ s.offered = r.offered /\ s.accepted = r.accepted
        /\ s.encoded = r.encoded /\ s.undefined = r.undefined
        /\ s.posted = r.posted
    BY <2>3 DEF ConnType
  <2> HIDE DEF s
  <2>5. Kept(conn, s)
    <3>1. s.posted = IF conn.state = "OPEN" /\ conn.protocol
                     THEN Append(conn.posted, "release") ELSE conn.posted
      BY <2>2, <2>3, <2>4
    <3>2. QED BY <2>2, <2>3, <2>4, <3>1 DEF Kept
  <2>6. /\ s.queue = <<>> /\ s.inFlight = <<>> /\ s.accepted = conn.accepted
        /\ s.encoded = conn.encoded /\ s.offered = conn.offered
        /\ s.undefined = conn.undefined
    BY <2>2, <2>3, <2>4
  <2>7. WritesHead(s)
    BY <1>1, <2>6 DEF WritesHead
  <2>8. QueueFollows(s, wire)
    <3>1. Transmitted(s) = 0 /\ Len(wire) \in Nat
      BY <1>1, <2>6 DEF Transmitted
    <3>2. QED BY <1>1, <2>4, <2>6, <3>1 DEF QueueFollows
  <2>9. EncodedOnce(s, wire)
    <3>1. Len(s.queue) = 0
      BY <2>6
    <3>2. QED BY <1>1, <2>6, <3>1 DEF EncodedOnce
  <2>10. Sound(s, wire)
    BY <2>4, <2>7, <2>8, <2>9 DEF Sound, Core, ClosesDrained, KeepsWriting
  <2>11. QED BY <1>2, <2>1, <2>4, <2>5, <2>10, MethodStep
<1>9. ASSUME conn.inFlight[i].result = "ok"
      PROVE  Core(d, wire) /\ (d.queue # <<>> => d.encoded[d.queue[1]] = 0)
  BY <1>1, <1>9, PoppedSound
<1>10. CASE conn.inFlight[i].result = "ok" /\ d.queue # <<>>
  <2> HIDE DEF d
  <2>1. d.queue \in Seq(Messages) /\ Head(d.queue) = d.queue[1] /\ d.queue[1] \in Messages
    <3>1. d.queue \in Seq(Messages) /\ d.queue # <<>>
      BY <1>4, <1>10 DEF ConnType
    <3>2. QED BY <3>1
  <2>2. conn' = InternalSend(d, d.queue[1], fail)
    BY <1>7, <1>10, <2>1
  <2>3. Sound(conn', wire)
    BY <1>1, <1>4, <1>9, <1>10, <2>2, InternalSendSound
  <2>4. conn' \in ConnType /\ Kept(d, conn')
    BY <1>4, <2>1, <2>2, InternalSendKept, InternalSendResult, Zenon
  <2>5. Kept(conn, conn')
    BY <1>1, <1>4, <1>5, <2>4, KeptTwice
  <2>6. QED BY <1>2, <2>3, <2>4, <2>5, MethodStep
<1>11. CASE conn.inFlight[i].result = "ok" /\ d.queue = <<>> /\ d.state = "CLOSED"
  <2> DEFINE s == CloseSocket(d)
  <2>1. conn' = s
    BY <1>7, <1>11
  <2>2. /\ s \in ConnType /\ s.socket = FALSE
        /\ s.state = d.state /\ s.read = d.read
        /\ s.queue = d.queue /\ s.inFlight = d.inFlight
        /\ s.protocol = d.protocol /\ s.receivedFirst = d.receivedFirst
        /\ s.posted = d.posted /\ s.offered = d.offered
        /\ s.accepted = d.accepted /\ s.encoded = d.encoded
        /\ s.abrupt = d.abrupt /\ s.undefined = d.undefined
    BY <1>4, CloseSocketResult, Zenon
  <2> HIDE DEF s, d
  <2>3. d.offered <= s.offered
    BY <1>4, <2>2, ConnectionBounds DEF ConnType
  <2>4. Core(s, wire) /\ KeepsWriting(s)
    BY <1>1, <1>4, <1>9, <1>11, <2>2, <2>3, SoundFrame DEF KeepsWriting
  <2>5. Kept(conn, s)
    BY <1>4, <1>11, <2>2 DEF Kept
  <2>6. QED BY <1>2, <2>1, <2>2, <2>4, <2>5, MethodStep DEF Sound
<1>12. CASE conn.inFlight[i].result = "ok" /\ d.queue = <<>> /\ d.state # "CLOSED"
  <2>1. conn' = d
    BY <1>7, <1>12
  <2>2. Sound(d, wire)
    BY <1>9, <1>12 DEF Sound, KeepsWriting
  <2>3. QED BY <1>2, <1>4, <1>5, <2>1, <2>2, MethodStep
<1>13. QED BY <1>6, <1>8, <1>10, <1>11, <1>12

\* A step that changes neither what the connection has to write nor its life.
LEMMA FrameStep ==
  ASSUME ConnInv, conn' \in ConnType,
         conn'.read = conn.read, conn'.state = conn.state,
         conn'.queue = conn.queue, conn'.inFlight = conn.inFlight,
         conn'.protocol = conn.protocol, conn'.posted = conn.posted,
         conn'.offered = conn.offered, conn'.accepted = conn.accepted,
         conn'.encoded = conn.encoded, conn'.undefined = conn.undefined,
         conn.abrupt => conn'.abrupt, conn'.socket = conn.socket \/ conn'.abrupt,
         closing' \in [Threads -> {"no", "soft", "force"}],
         alive \/ closing' = closing,
         Bounded(conn', closing'["io"] = "force"),
         UNCHANGED <<alive, accepting, wire, packets, served>>
  PROVE  Steps
<1>1. /\ conn \in ConnType /\ wire \in Seq(Messages) /\ Core(conn, wire)
      /\ KeepsWriting(conn) /\ ClosesDrained(conn)
  BY DEF ConnInv, Sound, Core
<1>2. conn.offered <= conn'.offered
  BY <1>1, ConnectionBounds DEF ConnType
<1>3. ~conn'.socket /\ ~conn'.abrupt =>
        conn'.state = "CLOSED" /\ (conn.queue = <<>> \/ ~conn.socket)
  BY <1>1 DEF ClosesDrained
<1>4. Sound(conn', wire)
  BY <1>1, <1>2, <1>3, SoundFrame DEF Sound
<1>5. Posts(conn', packets)
  BY DEF ConnInv, Posts, Unserved
<1>6. LifeInv'
  BY DEF ConnInv, LifeInv
<1>7. Moves(conn, conn')
  BY DEF Moves, LifeOf
<1>8. QED BY <1>4, <1>5, <1>6, <1>7 DEF Steps, ConnInv

\* Connection::handleTimeout.
LEMMA HandleTimeoutStep == ASSUME ConnInv, HandleTimeout PROVE Steps
<1>1. PICK timer \in {"readTimer", "writeTimer"} :
        conn' = [conn EXCEPT ![timer] = @ \ {"fired"}, !.managed = FALSE]
  BY DEF HandleTimeout
<1>2. /\ alive /\ closing' = [closing EXCEPT !["io"] = "force"]
      /\ UNCHANGED <<alive, accepting, wire, packets, served>>
  BY DEF HandleTimeout, IoFree
<1>3. conn \in ConnType
  BY DEF ConnInv
<1>4. /\ conn' \in ConnType
      /\ conn'.read = conn.read /\ conn'.state = conn.state
      /\ conn'.queue = conn.queue /\ conn'.inFlight = conn.inFlight
      /\ conn'.protocol = conn.protocol /\ conn'.posted = conn.posted
      /\ conn'.offered = conn.offered /\ conn'.accepted = conn.accepted
      /\ conn'.encoded = conn.encoded /\ conn'.undefined = conn.undefined
      /\ conn'.abrupt = conn.abrupt /\ conn'.socket = conn.socket
  <2>1. CASE timer = "readTimer"
    BY <1>1, <1>3, <2>1 DEF ConnType
  <2>2. CASE timer = "writeTimer"
    BY <1>1, <1>3, <2>2 DEF ConnType
  <2>3. QED BY <2>1, <2>2
<1>5. closing' \in [Threads -> {"no", "soft", "force"}] /\ closing'["io"] = "force"
  BY <1>2 DEF ConnInv, Threads
<1>6. Bounded(conn', closing'["io"] = "force")
  BY <1>5 DEF Bounded
<1>7. QED BY <1>2, <1>4, <1>5, <1>6, FrameStep

\* The second half of a close.
LEMMA FinishCloseStep == ASSUME ConnInv, NEW t \in Threads, FinishClose(t) PROVE Steps
<1>1. /\ closing[t] # "no" /\ closing' = [closing EXCEPT ![t] = "no"]
      /\ conn' = Close(conn, closing[t] = "force")
      /\ UNCHANGED <<alive, accepting, wire, packets, served>>
  BY DEF FinishClose
<1>2. /\ conn \in ConnType /\ wire \in Seq(Messages) /\ Core(conn, wire)
      /\ KeepsWriting(conn) /\ packets \in Nat /\ Posts(conn, packets)
      /\ (closing[t] = "force") \in BOOLEAN
  BY ConnectionBounds DEF ConnInv, Sound
<1>3. conn' \in ConnType /\ Sound(conn', wire)
  BY <1>1, <1>2, CloseResult, CloseSound DEF Sound
<1>4. Kept(conn, conn') /\ conn'.state = "CLOSED"
  BY <1>1, <1>2, CloseKept
<1>5. Moves(conn, conn') /\ Posts(conn', packets) /\ Len(conn.posted) <= Len(conn'.posted)
  BY <1>2, <1>3, <1>4, KeptMoves
<1>6. served \in 0..Len(conn'.posted)
  <2>1. Len(conn.posted) \in Nat /\ Len(conn'.posted) \in Nat
    BY <1>2, <1>3, OneMorePosted
  <2>2. QED BY <1>5, <2>1 DEF ConnInv
<1>7. alive
  BY <1>1 DEF ConnInv, LifeInv
<1>8. LifeInv'
  BY <1>1, <1>4, <1>7 DEF ConnInv, LifeInv, Kept
<1>9. Bounded(conn', closing'["io"] = "force")
  BY <1>4 DEF Bounded
<1>10. closing' \in [Threads -> {"no", "soft", "force"}]
  BY <1>1 DEF ConnInv
<1>11. QED BY <1>1, <1>3, <1>5, <1>6, <1>8, <1>9, <1>10 DEF Steps, ConnInv

\* Protocol::send.
LEMMA DispatcherSendStep == ASSUME ConnInv, DispatcherSend PROVE Steps
<1>1. PICK fail \in BOOLEAN : conn' = Send(conn, fail)
  BY DEF DispatcherSend
<1>2. conn.offered < MaxMessages /\ UNCHANGED <<alive, accepting, closing, wire, packets, served>>
  BY DEF DispatcherSend
<1>3. conn \in ConnType /\ wire \in Seq(Messages) /\ Sound(conn, wire)
  BY DEF ConnInv
<1>4. conn' \in ConnType /\ Sound(conn', wire) /\ Kept(conn, conn')
  BY <1>1, <1>2, <1>3, SendSound
<1>5. QED BY <1>2, <1>4, MethodStep

\* Protocol::disconnect.
LEMMA DisconnectStep == ASSUME ConnInv, Disconnect PROVE Steps
<1>1. /\ alive /\ conn' = [conn EXCEPT !.managed = FALSE]
      /\ closing' = [closing EXCEPT !["dispatcher"] = "soft"]
      /\ UNCHANGED <<alive, accepting, wire, packets, served>>
  BY DEF Disconnect, DispatcherFree
<1>2. /\ conn' \in ConnType
      /\ conn'.read = conn.read /\ conn'.state = conn.state
      /\ conn'.queue = conn.queue /\ conn'.inFlight = conn.inFlight
      /\ conn'.protocol = conn.protocol /\ conn'.posted = conn.posted
      /\ conn'.offered = conn.offered /\ conn'.accepted = conn.accepted
      /\ conn'.encoded = conn.encoded /\ conn'.undefined = conn.undefined
      /\ conn'.abrupt = conn.abrupt /\ conn'.socket = conn.socket
      /\ conn'.readTimer = conn.readTimer /\ conn'.writeTimer = conn.writeTimer
  BY <1>1 DEF ConnInv, ConnType
<1>3. closing' \in [Threads -> {"no", "soft", "force"}] /\ closing'["io"] = closing["io"]
  BY <1>1 DEF ConnInv, Threads
<1>4. Bounded(conn', closing'["io"] = "force")
  BY <1>2, <1>3 DEF ConnInv, Bounded
<1>5. QED BY <1>1, <1>2, <1>3, <1>4, FrameStep

\* ConnectionManager::closeAll.
LEMMA CloseAllStep == ASSUME ConnInv, CloseAll PROVE Steps
<1>1. /\ conn' = [conn EXCEPT !.managed = FALSE, !.socket = FALSE, !.abrupt = TRUE]
      /\ UNCHANGED <<alive, accepting, closing, wire, packets, served>>
  BY DEF CloseAll
<1>2. /\ conn' \in ConnType /\ conn'.abrupt
      /\ conn'.read = conn.read /\ conn'.state = conn.state
      /\ conn'.queue = conn.queue /\ conn'.inFlight = conn.inFlight
      /\ conn'.protocol = conn.protocol /\ conn'.posted = conn.posted
      /\ conn'.offered = conn.offered /\ conn'.accepted = conn.accepted
      /\ conn'.encoded = conn.encoded /\ conn'.undefined = conn.undefined
      /\ conn'.readTimer = conn.readTimer /\ conn'.writeTimer = conn.writeTimer
  BY <1>1 DEF ConnInv, ConnType
<1>3. Bounded(conn', closing'["io"] = "force")
  BY <1>1, <1>2 DEF ConnInv, Bounded
<1>4. closing' \in [Threads -> {"no", "soft", "force"}]
  BY <1>1 DEF ConnInv
<1>5. QED BY <1>1, <1>2, <1>3, <1>4, FrameStep

\* The dispatcher runs a task.
LEMMA ServeStep == ASSUME ConnInv, Serve PROVE Steps
<1>1. /\ served < Len(conn.posted) /\ served' = served + 1
      /\ UNCHANGED <<conn, alive, accepting, closing, wire, packets>>
  BY DEF Serve
<1>2. served' \in 0..Len(conn.posted)
  <2>1. Len(conn.posted) \in Nat
    BY OneMorePosted DEF ConnInv
  <2>2. QED BY <1>1, <2>1 DEF ConnInv
<1>3. ConnInv'
  BY <1>1, <1>2 DEF ConnInv, LifeInv
<1>4. QED BY <1>1, <1>3 DEF Steps, Moves

\* The destructor of a connection that has been closed.
LEMMA DestroyStep == ASSUME ConnInv, Destroy PROVE Steps
<1>1. /\ alive /\ ~accepting /\ conn.read = NoRead /\ conn.inFlight = <<>>
      /\ \A t \in Threads : closing[t] = "no"
      /\ alive' = FALSE
      /\ UNCHANGED <<accepting, closing, wire, packets, served>>
  BY DEF Destroy
<1> DEFINE c == CloseSocket(conn)
           d == [c EXCEPT !.readTimer = {}, !.writeTimer = {}]
<1>2. conn' = d
  BY DEF Destroy
<1>3. /\ conn \in ConnType /\ wire \in Seq(Messages) /\ Core(conn, wire)
      /\ KeepsWriting(conn)
  BY DEF ConnInv, Sound
<1>4. /\ c \in ConnType /\ c.state = conn.state /\ c.read = conn.read
      /\ c.queue = conn.queue /\ c.inFlight = conn.inFlight
      /\ c.protocol = conn.protocol
      /\ c.posted = conn.posted /\ c.offered = conn.offered
      /\ c.accepted = conn.accepted /\ c.encoded = conn.encoded
      /\ c.abrupt = conn.abrupt /\ c.undefined = conn.undefined
  BY <1>3, CloseSocketResult, Zenon
<1> HIDE DEF c
<1>5. /\ d \in ConnType /\ d.state = c.state /\ d.read = c.read
      /\ d.queue = c.queue /\ d.inFlight = c.inFlight
      /\ d.protocol = c.protocol
      /\ d.posted = c.posted /\ d.offered = c.offered
      /\ d.accepted = c.accepted /\ d.encoded = c.encoded
      /\ d.abrupt = c.abrupt /\ d.undefined = c.undefined
  BY <1>4 DEF ConnType
<1> HIDE DEF d
<1>6. conn.state = "CLOSED"
  BY <1>1, <1>3 DEF ConnInv, LifeInv, NoRead, ConnType
<1>7. ~d.socket /\ ~d.abrupt => d.state = "CLOSED" /\ (conn.queue = <<>> \/ ~conn.socket)
  BY <1>1, <1>3, <1>4, <1>5, <1>6 DEF KeepsWriting
<1>8. conn.offered <= d.offered
  BY <1>3, <1>4, <1>5, ConnectionBounds DEF ConnType
<1>9. d.state = conn.state /\ d.read = conn.read /\ d.protocol = conn.protocol
      /\ d.posted = conn.posted
  BY <1>4, <1>5
<1>10. Sound(d, wire)
  <2>1. /\ d.queue = conn.queue /\ d.inFlight = conn.inFlight
        /\ d.accepted = conn.accepted /\ d.encoded = conn.encoded
        /\ d.undefined = conn.undefined /\ d.abrupt = conn.abrupt
    BY <1>4, <1>5
  <2>2. QED BY <1>3, <1>5, <1>7, <1>8, <1>9, <2>1, SoundFrame DEF Sound
<1>11. Posts(d, packets)
  BY <1>9 DEF ConnInv, Posts, Unserved
<1>12. Bounded(d, closing["io"] = "force")
  BY <1>6, <1>9 DEF Bounded
<1>13. LifeInv'
  BY <1>1, <1>2, <1>6, <1>9 DEF LifeInv, ConnInv
<1>14. ConnInv'
  BY <1>1, <1>2, <1>5, <1>9, <1>10, <1>11, <1>12, <1>13 DEF ConnInv
<1>15. LifeOf(conn) = "closed" /\ Len(conn'.posted) = Len(conn.posted)
  BY <1>2, <1>6, <1>9 DEF LifeOf
<1>16. QED BY <1>1, <1>14, <1>15 DEF Steps

\* A read completes, or is aborted.
LEMMA ReadCompletesStep ==
  ASSUME ConnInv, NEW result \in {"ok", "error"}, ReadCompletes(result)
  PROVE  Steps
<1>1. /\ conn.read.part # "none" /\ conn.read.result = "pending"
      /\ conn' = [conn EXCEPT !.read.result = result]
      /\ IF result = "ok" /\ conn.read.part = "header"
         THEN packets < MaxPackets /\ packets' = packets + 1
         ELSE UNCHANGED packets
      /\ UNCHANGED <<alive, accepting, closing, wire, served>>
  BY DEF ReadCompletes
<1> DEFINE read == [conn.read EXCEPT !.result = result]
<1>2. /\ read \in [part : {"none", "header", "body"}, result : Results]
      /\ read.part = conn.read.part /\ read.result = result
  BY DEF ConnInv, ConnType, Results
<1>3. conn' = [conn EXCEPT !.read = read]
  BY <1>1 DEF ConnInv, ConnType
<1> HIDE DEF read
<1>4. /\ conn' \in ConnType /\ conn'.read = read /\ conn'.state = conn.state
      /\ conn'.socket = conn.socket
      /\ conn'.queue = conn.queue /\ conn'.inFlight = conn.inFlight
      /\ conn'.protocol = conn.protocol /\ conn'.posted = conn.posted
      /\ conn'.offered = conn.offered /\ conn'.accepted = conn.accepted
      /\ conn'.encoded = conn.encoded /\ conn'.undefined = conn.undefined
      /\ conn'.abrupt = conn.abrupt
      /\ conn'.readTimer = conn.readTimer /\ conn'.writeTimer = conn.writeTimer
  BY <1>2, <1>3 DEF ConnInv, ConnType
<1>5. /\ conn \in ConnType /\ wire \in Seq(Messages) /\ Core(conn, wire)
      /\ KeepsWriting(conn) /\ ClosesDrained(conn)
      /\ packets \in Nat /\ packets \in 0..MaxPackets /\ MaxPackets \in Nat
      /\ Len(conn.posted) \in Nat /\ Posts(conn, packets)
  BY ConnectionBounds, OneMorePosted DEF ConnInv, Sound, Core
<1>6. Sound(conn', wire)
  <2>1. conn.offered <= conn'.offered
    BY <1>4, <1>5, ConnectionBounds DEF ConnType
  <2>2. ~conn'.socket /\ ~conn'.abrupt =>
          conn'.state = "CLOSED" /\ (conn.queue = <<>> \/ ~conn.socket)
    BY <1>4, <1>5 DEF ClosesDrained
  <2>3. QED BY <1>4, <1>5, <2>1, <2>2, SoundFrame DEF Sound
<1>7. packets' \in 0..MaxPackets /\ packets <= packets'
  BY <1>1, <1>5
<1>8. Posts(conn', packets')
  <2> DEFINE n == Len(conn.posted)
  <2>1. /\ Posts(conn, packets) <=> IF conn.state = "OPEN" THEN n + Unserved(conn) <= packets
                                    ELSE n <= packets + 1
        /\ Posts(conn', packets') <=> IF conn.state = "OPEN"
                                      THEN n + Unserved(conn') <= packets'
                                      ELSE n <= packets' + 1
    BY <1>4 DEF Posts
  <2>2. \/ result = "ok" /\ conn.read.part = "header"
           /\ Unserved(conn) = 0 /\ Unserved(conn') = 1 /\ packets' = packets + 1
        \/ Unserved(conn') = Unserved(conn) /\ Unserved(conn) \in {0, 1} /\ packets' = packets
    BY <1>1, <1>2, <1>4 DEF Unserved
  <2> HIDE DEF n
  <2>3. n \in Nat
    BY <1>5 DEF n
  <2>4. QED BY <1>5, <2>1, <2>2, <2>3
<1>9. Bounded(conn', closing'["io"] = "force")
  BY <1>1, <1>2, <1>4 DEF ConnInv, Bounded
<1>10. LifeInv'
  BY <1>1, <1>2, <1>4 DEF ConnInv, LifeInv, NoRead
<1>11. Moves(conn, conn')
  BY <1>4 DEF Moves, LifeOf
<1>12. served' \in 0..Len(conn'.posted)
  BY <1>1, <1>4 DEF ConnInv
<1>13. ConnInv'
  BY <1>1, <1>4, <1>6, <1>7, <1>8, <1>9, <1>10, <1>12 DEF ConnInv
<1>14. QED BY <1>1, <1>11, <1>13 DEF Steps

\* A write completes, or fails.
LEMMA WriteCompletesStep ==
  ASSUME ConnInv, NEW result \in {"ok", "error"}, WriteCompletes(result)
  PROVE  Steps
<1>1. PICK i \in DOMAIN conn.inFlight :
        /\ conn.inFlight[i].result = "pending"
        /\ conn' = [conn EXCEPT !.inFlight[i].result = result]
        /\ wire' = IF result = "ok" THEN Append(wire, conn.inFlight[i].message) ELSE wire
  BY DEF WriteCompletes
<1>2. UNCHANGED <<alive, accepting, closing, packets, served>>
  BY DEF WriteCompletes
<1>3. /\ conn \in ConnType /\ wire \in Seq(Messages)
      /\ WritesHead(conn) /\ QueueFollows(conn, wire) /\ EncodedOnce(conn, wire)
      /\ ClosesDrained(conn) /\ KeepsWriting(conn)
      /\ conn.inFlight \in Seq(InFlight) /\ conn.queue \in Seq(Messages)
      /\ conn.accepted \in Seq(Messages)
  BY DEF ConnInv, Sound, Core, ConnType
<1>4. i = 1 /\ conn.inFlight # <<>> /\ conn.inFlight[1] \in InFlight
      /\ conn.queue # <<>> /\ conn.inFlight[1].message = conn.queue[1]
      /\ conn.queue[1] \in Messages /\ Len(conn.queue) \in Nat /\ 1 <= Len(conn.queue)
  <2>1. i = 1 /\ conn.inFlight # <<>> /\ conn.inFlight[1] \in InFlight
    BY <1>3 DEF WritesHead
  <2>2. conn.queue # <<>> /\ conn.inFlight[1].message = conn.queue[1]
    BY <1>3, <2>1 DEF WritesHead
  <2>3. conn.queue[1] \in Messages /\ Len(conn.queue) \in Nat /\ 1 <= Len(conn.queue)
    BY <1>3, <2>2
  <2>4. QED BY <2>1, <2>2, <2>3
<1> DEFINE write == [conn.inFlight[1] EXCEPT !.result = result]
           writes == [conn.inFlight EXCEPT ![1] = write]
           m == conn.queue[1]
<1>5. write \in InFlight /\ write.message = m /\ write.result = result
  BY <1>4 DEF InFlight, Results
<1>6. conn' = [conn EXCEPT !.inFlight = writes]
  BY <1>1, <1>4 DEF ConnType
<1> HIDE DEF write
<1>7. /\ writes \in Seq(InFlight) /\ Len(writes) = Len(conn.inFlight)
      /\ writes # <<>> /\ writes[1] = write
  BY <1>3, <1>4, <1>5
<1> HIDE DEF writes
<1>8. /\ conn' \in ConnType /\ conn'.inFlight = writes
      /\ conn'.read = conn.read /\ conn'.state = conn.state /\ conn'.socket = conn.socket
      /\ conn'.queue = conn.queue /\ conn'.abrupt = conn.abrupt
      /\ conn'.protocol = conn.protocol /\ conn'.posted = conn.posted
      /\ conn'.offered = conn.offered /\ conn'.accepted = conn.accepted
      /\ conn'.encoded = conn.encoded /\ conn'.undefined = conn.undefined
      /\ conn'.readTimer = conn.readTimer /\ conn'.writeTimer = conn.writeTimer
  BY <1>3, <1>6, <1>7 DEF ConnType
<1>9. WritesHead(conn')
  <2>1. conn'.inFlight[1].message = m /\ conn'.queue[1] = m /\ conn'.queue # <<>>
    BY <1>4, <1>5, <1>7, <1>8
  <2>2. Len(conn'.inFlight) <= 1 /\ ~conn'.undefined
    BY <1>3, <1>7, <1>8 DEF WritesHead
  <2>3. QED BY <2>1, <2>2 DEF WritesHead
<1>10. Transmitted(conn) = 0 /\ Transmitted(conn') = IF result = "ok" THEN 1 ELSE 0
  BY <1>1, <1>4, <1>5, <1>7, <1>8 DEF Transmitted
<1>11. /\ wire' \in Seq(Messages)
       /\ result = "error" => wire' = wire
       /\ result = "ok" => /\ Len(wire') = Len(wire) + 1 /\ wire'[Len(wire) + 1] = m
                           /\ \A k \in 1..Len(wire) : wire'[k] = wire[k]
  <2>1. wire' = IF result = "ok" THEN Append(wire, m) ELSE wire
    BY <1>1, <1>4
  <2>2. m \in Messages
    BY <1>4
  <2> HIDE DEF m
  <2>3. QED BY <1>3, <2>1, <2>2, Appended
<1> DEFINE lw == Len(wire)
           la == Len(conn.accepted)
           lq == Len(conn.queue)
<1>12. /\ lw \in Nat /\ la \in Nat /\ lq \in Nat /\ 1 <= lq /\ la = lw + lq
       /\ \A k \in 1..lw : wire[k] = conn.accepted[k]
       /\ m = conn.accepted[lw + 1]
       /\ \A k \in 1..lq : conn.queue[k] = conn.accepted[lw + k]
  <2>1. lw \in Nat /\ la \in Nat /\ lq \in Nat /\ 1 <= lq
    BY <1>3, <1>4
  <2>2. /\ \A k \in 1..lw : wire[k] = conn.accepted[k]
        /\ la = lw - 0 + lq
        /\ \A k \in 1..lq : conn.queue[k] = conn.accepted[lw - 0 + k]
    BY <1>3, <1>4, <1>10 DEF QueueFollows
  <2> HIDE DEF lw, la, lq
  <2>3. lw - 0 = lw
    BY <2>1
  <2>4. 1 \in 1..lq
    BY <2>1
  <2>5. QED BY <2>1, <2>2, <2>3, <2>4
<1>13. QueueFollows(conn', wire')
  <2>1. CASE result = "error"
    <3>1. wire' = wire /\ Transmitted(conn') = Transmitted(conn)
      BY <1>10, <1>11, <2>1
    <3>2. QED BY <1>3, <1>8, <3>1 DEF QueueFollows
  <2>2. CASE result = "ok"
    <3>1. /\ Len(wire') = lw + 1 /\ wire'[lw + 1] = m /\ Transmitted(conn') = 1
          /\ \A k \in 1..lw : wire'[k] = wire[k]
      BY <1>10, <1>11, <2>2
    <3>2. conn'.queue = conn.queue /\ conn'.accepted = conn.accepted
          /\ Len(conn'.queue) = lq /\ Len(conn'.accepted) = la
      BY <1>8
    <3> HIDE DEF lw, la, lq, m
    <3>3. \A k \in 1..(lw + 1) : wire'[k] = conn.accepted[k]
      <4>1. TAKE k \in 1..(lw + 1)
      <4>2. CASE k = lw + 1
        BY <1>12, <3>1, <4>2
      <4>3. CASE k \in 1..lw
        BY <1>12, <3>1, <4>3
      <4>4. QED BY <1>12, <4>2, <4>3
    <3>4. 1 <= lw + 1 /\ lw + 1 <= la /\ la = (lw + 1) - 1 + lq /\ (lw + 1) - 1 = lw
      BY <1>12
    <3>5. QED BY <1>4, <1>12, <3>1, <3>2, <3>3, <3>4 DEF QueueFollows
  <2>3. QED BY <2>1, <2>2
<1>14. EncodedOnce(conn', wire')
  <2>1. conn.encoded[m] = 1
    BY <1>3, <1>4 DEF EncodedOnce
  <2>2. \A k \in 1..Len(wire') : conn'.encoded[wire'[k]] = 1
    <3>1. \A k \in 1..lw : conn.encoded[wire[k]] = 1
      BY <1>3 DEF EncodedOnce
    <3>2. CASE result = "error"
      BY <1>8, <1>11, <3>1, <3>2
    <3>3. CASE result = "ok"
      <4>1. /\ Len(wire') = lw + 1 /\ wire'[lw + 1] = m
            /\ \A k \in 1..lw : wire'[k] = wire[k]
        BY <1>11, <3>3
      <4> HIDE DEF lw, m
      <4>2. QED BY <1>8, <1>12, <2>1, <3>1, <4>1
    <3>4. QED BY <3>2, <3>3
  <2>3. conn'.inFlight # <<>> => conn'.encoded[conn'.queue[1]] = 1
    BY <1>8, <2>1
  <2>4. QED BY <1>3, <1>8, <2>2, <2>3 DEF EncodedOnce
<1>15. ClosesDrained(conn') /\ KeepsWriting(conn')
  BY <1>3, <1>7, <1>8 DEF ClosesDrained, KeepsWriting
<1>16. Sound(conn', wire')
  BY <1>9, <1>13, <1>14, <1>15 DEF Sound, Core
<1>17. Posts(conn', packets) /\ served \in 0..Len(conn'.posted)
  BY <1>8 DEF ConnInv, Posts, Unserved
<1>18. Bounded(conn', closing["io"] = "force")
  <2>1. conn'.inFlight[1].result # "pending"
    BY <1>5, <1>7, <1>8
  <2>2. QED BY <1>8, <2>1 DEF ConnInv, Bounded
<1>19. LifeInv'
  BY <1>2, <1>8 DEF ConnInv, LifeInv
<1>20. ConnInv'
  BY <1>2, <1>8, <1>11, <1>16, <1>17, <1>18, <1>19 DEF ConnInv
<1>21. Moves(conn, conn')
  BY <1>8 DEF Moves, LifeOf
<1>22. QED BY <1>2, <1>20, <1>21 DEF Steps

\* A timer expires.
LEMMA ExpiresStep ==
  ASSUME ConnInv, NEW timer \in {"readTimer", "writeTimer"}, Expires(timer)
  PROVE  Steps
<1>1. /\ alive /\ conn' = [conn EXCEPT ![timer] = (@ \ {"armed"}) \cup {"fired"}]
      /\ UNCHANGED <<alive, accepting, closing, wire, packets, served>>
  BY DEF Expires
<1>2. conn \in ConnType
  BY DEF ConnInv
<1>3. /\ conn' \in ConnType
      /\ conn'.read = conn.read /\ conn'.state = conn.state
      /\ conn'.queue = conn.queue /\ conn'.inFlight = conn.inFlight
      /\ conn'.protocol = conn.protocol /\ conn'.posted = conn.posted
      /\ conn'.offered = conn.offered /\ conn'.accepted = conn.accepted
      /\ conn'.encoded = conn.encoded /\ conn'.undefined = conn.undefined
      /\ conn'.abrupt = conn.abrupt /\ conn'.socket = conn.socket
      /\ conn.readTimer # {} => conn'.readTimer # {}
      /\ conn.writeTimer # {} => conn'.writeTimer # {}
  <2>1. CASE timer = "readTimer"
    BY <1>1, <1>2, <2>1 DEF ConnType
  <2>2. CASE timer = "writeTimer"
    BY <1>1, <1>2, <2>2 DEF ConnType
  <2>3. QED BY <2>1, <2>2
<1>4. Bounded(conn', closing'["io"] = "force")
  BY <1>1, <1>3 DEF ConnInv, Bounded
<1>5. closing' \in [Threads -> {"no", "soft", "force"}]
  BY <1>1 DEF ConnInv
<1>6. QED BY <1>1, <1>3, <1>4, <1>5, FrameStep

-----------------------------------------------------------------------------
(* The invariant                                                           *)

\* A connection just accepted.
LEMMA InitInv == Init => ConnInv
<1> SUFFICES ASSUME Init PROVE ConnInv
  OBVIOUS
<1>1. /\ conn \in ConnType
      /\ conn.state = "OPEN" /\ conn.socket /\ conn.read = NoRead
      /\ conn.queue = <<>> /\ conn.inFlight = <<>> /\ ~conn.protocol
      /\ conn.posted = <<>> /\ conn.accepted = <<>>
      /\ conn.encoded = [m \in Messages |-> 0] /\ ~conn.undefined
  BY ConnectionBounds DEF Init, ConnType, NoRead, Results
<1>2. wire = <<>> /\ packets = 0 /\ served = 0 /\ alive /\ accepting
      /\ closing = [t \in Threads |-> "no"]
  BY DEF Init
<1>3. Transmitted(conn) = 0 /\ Unserved(conn) = 0 /\ Len(wire) = 0 /\ Len(conn.accepted) = 0
      /\ Len(conn.queue) = 0 /\ Len(conn.inFlight) = 0 /\ Len(conn.posted) = 0
  BY <1>1, <1>2 DEF Transmitted, Unserved, NoRead
<1>4. Sound(conn, wire)
  BY <1>1, <1>3 DEF Sound, Core, WritesHead, QueueFollows, EncodedOnce, ClosesDrained,
                    KeepsWriting
<1>5. Posts(conn, packets) /\ Bounded(conn, closing["io"] = "force") /\ LifeInv
  BY <1>1, <1>2, <1>3 DEF Posts, Bounded, LifeInv, NoRead
<1>6. /\ packets \in 0..MaxPackets /\ served \in 0..Len(conn.posted)
      /\ wire \in Seq(Messages)
      /\ closing \in [Threads -> {"no", "soft", "force"}]
  BY <1>2, <1>3, ConnectionBounds
<1>7. QED BY <1>1, <1>2, <1>4, <1>5, <1>6 DEF ConnInv

\* Every step.
LEMMA StepInv == ConnInv /\ [Next]_vars => Steps
<1> SUFFICES ASSUME ConnInv, [Next]_vars PROVE Steps
  OBVIOUS
<1>1. CASE Handlers
  BY <1>1, OnAcceptStep, ParseHeaderStep, ParsePacketStep, OnWriteOperationStep,
     HandleTimeoutStep DEF Handlers
<1>2. CASE \E t \in Threads : FinishClose(t)
  BY <1>2, FinishCloseStep
<1>3. CASE Destroy \/ DispatcherSend \/ Disconnect \/ CloseAll \/ Serve
  BY <1>3, DestroyStep, DispatcherSendStep, DisconnectStep, CloseAllStep, ServeStep
<1>4. CASE Client
  BY <1>4, ReadCompletesStep, WriteCompletesStep DEF Client
<1>5. CASE \E timer \in {"readTimer", "writeTimer"} : Expires(timer)
  BY <1>5, ExpiresStep
<1>6. CASE UNCHANGED vars
  BY <1>6 DEF vars, Steps, ConnInv, LifeInv, Moves
<1>7. QED BY <1>1, <1>2, <1>3, <1>4, <1>5, <1>6 DEF Next

\* The invariant holds in every behaviour.
LEMMA Invariant == Spec => []ConnInv
<1>1. ConnInv /\ [Next]_vars => ConnInv'
  BY StepInv DEF Steps
<1>2. QED BY <1>1, InitInv, PTL DEF Spec

-----------------------------------------------------------------------------
(* What the client is sent                                                 *)

\* The tasks of a connection are one for each packet and one release at most.
LEMMA PostedBounded == ConnInv => Len(conn.posted) <= MaxPackets + 1
<1> SUFFICES ASSUME ConnInv PROVE Len(conn.posted) <= MaxPackets + 1
  OBVIOUS
<1> DEFINE n == Len(conn.posted)
<1>1. n \in Nat
  BY OneMorePosted DEF ConnInv
<1>2. /\ conn.state = "OPEN" => n + Unserved(conn) <= packets
      /\ conn.state # "OPEN" => n <= packets + 1
  BY DEF ConnInv, Posts
<1>3. Unserved(conn) \in {0, 1} /\ packets \in 0..MaxPackets /\ MaxPackets \in Nat
  BY ConnectionBounds DEF ConnInv, Unserved
<1> HIDE DEF n
<1>4. n <= MaxPackets + 1
  BY <1>1, <1>2, <1>3
<1>5. QED BY <1>4 DEF n

\* Types, and how many tasks a connection posts: no path of the handlers, the
\* timers and the two threads' closes posts the release of a protocol twice.
THEOREM TypeCorrect == Spec => []TypeOK
<1>1. ConnInv => TypeOK
  BY PostedBounded DEF ConnInv, ConnType, TypeOK
<1>2. QED BY <1>1, Invariant, PTL

\* A prefix, element by element.
LEMMA PrefixOf ==
  ASSUME NEW S, NEW s \in Seq(S), NEW t \in Seq(S), Len(s) <= Len(t),
         \A i \in 1..Len(s) : s[i] = t[i]
  PROVE  Prefix(s, t)
<1>1. /\ SubSeq(t, 1, Len(s)) \in Seq(S) /\ Len(SubSeq(t, 1, Len(s))) = Len(s)
      /\ \A i \in 1..Len(s) : SubSeq(t, 1, Len(s))[i] = t[i]
  BY SMT
<1>2. s = SubSeq(t, 1, Len(s))
  BY <1>1, SeqEqual
<1>3. QED BY <1>2 DEF Prefix

\* onWriteOperation pops the message whose write it handles: one async_write is
\* outstanding at most, for the head of messageQueue.
THEOREM OneWrite == Spec => []WriteIsHead
<1>1. ConnInv => WriteIsHead
  <2> SUFFICES ASSUME ConnInv PROVE WriteIsHead
    OBVIOUS
  <2>1. conn.queue \in Seq(Messages) /\ conn.inFlight \in Seq(InFlight) /\ WritesHead(conn)
    BY DEF ConnInv, ConnType, Sound, Core
  <2>2. ASSUME NEW i \in DOMAIN conn.inFlight
        PROVE  conn.queue # <<>> /\ conn.inFlight[i].message = Head(conn.queue)
    <3>1. i = 1 /\ conn.inFlight # <<>>
      BY <2>1 DEF WritesHead
    <3>2. conn.queue # <<>> /\ conn.inFlight[1].message = conn.queue[1]
      BY <2>1, <3>1 DEF WritesHead
    <3>3. Head(conn.queue) = conn.queue[1]
      BY <2>1, <3>2
    <3>4. QED BY <3>1, <3>2, <3>3
  <2>3. QED BY <2>1, <2>2 DEF WritesHead, WriteIsHead
<1>2. QED BY <1>1, Invariant, PTL

\* Whatever the sends of the dispatcher and of the handlers, the errors and the
\* closes, the socket transmits the accepted messages in order, each encoded once.
THEOREM SentInOrder == Spec => []WireInOrder
<1>1. ConnInv => WireInOrder
  <2> SUFFICES ASSUME ConnInv PROVE WireInOrder
    OBVIOUS
  <2>1. /\ wire \in Seq(Messages) /\ conn.accepted \in Seq(Messages)
        /\ QueueFollows(conn, wire) /\ EncodedOnce(conn, wire)
    BY DEF ConnInv, ConnType, Sound, Core
  <2>2. Prefix(wire, conn.accepted)
    BY <2>1, PrefixOf DEF QueueFollows
  <2>3. \A i \in DOMAIN wire : conn.encoded[wire[i]] = 1
    BY <2>1 DEF EncodedOnce
  <2>4. QED BY <2>1, <2>2, <2>3 DEF EncodedOnce, WireInOrder
<1>2. QED BY <1>1, Invariant, PTL

\* A close without FORCE_CLOSE transmits everything accepted before it.
THEOREM CloseDrains == Spec => []GracefulDrains
<1>1. ConnInv => GracefulDrains
  <2> SUFFICES ASSUME ConnInv, ~conn.socket, ~conn.abrupt PROVE wire = conn.accepted
    BY DEF GracefulDrains
  <2>1. /\ wire \in Seq(Messages) /\ conn.accepted \in Seq(Messages)
        /\ QueueFollows(conn, wire) /\ conn.queue = <<>>
    BY DEF ConnInv, ConnType, Sound, Core, ClosesDrained
  <2>2. Len(wire) = Len(conn.accepted) /\ \A i \in 1..Len(wire) : wire[i] = conn.accepted[i]
    BY <2>1 DEF QueueFollows
  <2>3. QED BY <2>1, <2>2, SeqEqual
<1>2. QED BY <1>1, Invariant, PTL

-----------------------------------------------------------------------------
(* The timers                                                              *)

\* No interleaving of the read handlers, the timers and the closes leaves an open
\* connection that is neither read from nor timed out.
THEOREM NeverDeaf == Spec => []NotDeaf
<1>1. ConnInv => NotDeaf
  BY DEF ConnInv, LifeInv, Bounded, NotDeaf
<1>2. QED BY <1>1, Invariant, PTL

\* Nor one whose write nothing bounds.
THEOREM WritesTimed == Spec => []WriteBounded
<1>1. ConnInv => WriteBounded
  <2> SUFFICES ASSUME ConnInv, conn.state = "OPEN", NEW i \in DOMAIN conn.inFlight,
                      conn.inFlight[i].result = "pending", closing["io"] # "force"
               PROVE  conn.writeTimer # {}
    BY DEF WriteBounded
  <2>1. conn.inFlight \in Seq(InFlight) /\ WritesHead(conn)
        /\ Bounded(conn, closing["io"] = "force")
    BY DEF ConnInv, ConnType, Sound, Core
  <2>2. i = 1 /\ conn.inFlight # <<>>
    BY <2>1 DEF WritesHead
  <2>3. QED BY <2>1, <2>2 DEF Bounded
<1>2. QED BY <1>1, Invariant, PTL

-----------------------------------------------------------------------------
(* The refinement                                                          *)

\* A step of the connection is one of ConnectionLife, or changes nothing of it.
LEMMA StepLife == ConnInv /\ [Next]_vars => [Life!Next]_(Life!vars)
<1> SUFFICES ASSUME ConnInv, [Next]_vars PROVE [Life!Next]_(Life!vars)
  OBVIOUS
<1> DEFINE life == IF ~alive THEN "gone" ELSE LifeOf(conn)
           n == Len(conn.posted)
<1>1. /\ alive' = alive => Moves(conn, conn')
      /\ alive' # alive => alive /\ LifeOf(conn) = "closed" /\ n' = n
      /\ alive \in BOOLEAN /\ alive' \in BOOLEAN
      /\ ~alive => conn.state = "CLOSED"
  BY StepInv DEF Steps, ConnInv, LifeInv
<1>2. /\ life = IF ~alive THEN "gone" ELSE IF conn.state = "CLOSED" THEN "closed"
                ELSE IF conn.protocol THEN "open" ELSE "fresh"
      /\ life' = IF ~alive' THEN "gone" ELSE IF conn'.state = "CLOSED" THEN "closed"
                 ELSE IF conn'.protocol THEN "open" ELSE "fresh"
  BY DEF LifeOf
<1>3. \/ life' = life /\ n' = n
      \/ life = "fresh" /\ life' = "closed" /\ n' = n
      \/ life \in {"fresh", "open"} /\ \E task \in {0, 1} :
            \/ life' = "open" /\ n' = n + task
            \/ life' = "closed" /\ n' = n + task + 1
      \/ life = "closed" /\ life' = "gone" /\ n' = n
  <2>1. CASE alive' # alive
    BY <1>1, <2>1
  <2>2. CASE alive' = alive /\ alive
    BY <1>1, <2>2 DEF Moves
  <2>3. CASE alive' = alive /\ ~alive
    <3>1. LifeOf(conn) = "closed"
      BY <1>1, <2>3 DEF LifeOf
    <3>2. n' = n
      BY <1>1, <2>3, <3>1 DEF Moves
    <3>3. QED BY <2>3, <3>2
  <2>4. QED BY <1>1, <2>1, <2>2, <2>3
<1> HIDE DEF life
<1>4. QED BY <1>2, <1>3 DEF Life!Next, Life!Packet, Life!CloseFresh, Life!Destroyed, Life!vars

\* To the dispatcher a connection is what ConnectionLife says: tasks only while it
\* is open, then one release if it has a protocol, then the end of the object.
THEOREM ImplementsLife == Spec => LifeSpec
<1>1. Init => Life!Init
  BY DEF Init, Life!Init
<1>2. QED BY <1>1, StepLife, Invariant, PTL DEF Spec, LifeSpec, Life!Spec

=============================================================================
