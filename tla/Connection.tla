----------------------------- MODULE Connection -----------------------------
(***************************************************************************)
(* One client connection (connection.h, connection.cpp) between the thread *)
(* that runs the asio handlers and the dispatcher's thread.                *)
(*                                                                         *)
(* Handlers run one at a time on the I/O thread; the dispatcher sends to   *)
(* the connection and closes it. Everything done while connectionLock, a   *)
(* recursive mutex, is held is one step: the operators below transform the *)
(* record `conn` and compose as the calls nest (a handler that sends and   *)
(* then closes). Connection::close takes two mutexes one after the other,  *)
(* which is two steps when the caller does not hold connectionLock.        *)
(*                                                                         *)
(* A handler whose operation completed runs even if the operation, or the  *)
(* timer, is cancelled before it gets its turn.                            *)
(***************************************************************************)
EXTENDS Naturals, Sequences, FiniteSets

CONSTANTS
  MaxMessages,   \* bound: output messages offered to Connection::send
  MaxPackets     \* bound: packets the client sends

ASSUME ConnectionBounds == MaxMessages \in Nat /\ MaxPackets \in Nat

VARIABLES
  conn,      \* the Connection object, its outstanding operations and history
  alive,     \* it has not been destroyed
  accepting, \* its ServicePort::onAccept handler has not run yet
  closing,   \* per thread: releaseConnection done, connectionLock not taken
  wire,      \* messages the socket has transmitted
  packets,   \* number of packets received
  served     \* number of the tasks of conn.posted the dispatcher has run

vars == <<conn, alive, accepting, closing, wire, packets, served>>

Threads  == {"io", "dispatcher"}
Messages == 1..MaxMessages
Results  == {"pending", "ok", "error"}
NoRead   == [part |-> "none", result |-> "pending"]

Init ==
  /\ conn = [managed |-> TRUE, state |-> "OPEN", socket |-> TRUE,
             read |-> NoRead, readTimer |-> {}, writeTimer |-> {},
             queue |-> <<>>, inFlight |-> <<>>,
             protocol |-> FALSE, receivedFirst |-> FALSE,
             posted |-> <<>>, offered |-> 0, accepted |-> <<>>,
             encoded |-> [m \in Messages |-> 0],
             abrupt |-> FALSE, undefined |-> FALSE]
  /\ alive = TRUE /\ accepting = TRUE
  /\ closing = [t \in Threads |-> "no"]
  /\ wire = <<>> /\ packets = 0 /\ served = 0

-----------------------------------------------------------------------------
(* Timers: "armed" is the wait in progress, "fired" a handler that is queued *)
(* with success. Cancelling, and setting a new expiry, stop only the wait.   *)

Cancel(timer) == timer \ {"armed"}
Rearm(timer)  == timer \cup {"armed"}

(* Connection's methods, with connectionLock held. `abrupt` remembers that   *)
(* the connection was ended by anything but close() without FORCE_CLOSE.     *)

CloseSocket(c) ==
  [c EXCEPT !.socket = FALSE,
            !.readTimer = IF c.socket THEN Cancel(@) ELSE @,
            !.writeTimer = IF c.socket THEN Cancel(@) ELSE @]

\* Mutant: the release of the protocol is posted at every call.
Close_PostsAlways(c, force) ==
  LET d == [c EXCEPT !.managed = FALSE, !.state = "CLOSED",
                     !.abrupt = @ \/ force,
                     !.posted = IF c.protocol THEN Append(@, "release") ELSE @]
  IN IF d.queue = <<>> \/ force THEN CloseSocket(d) ELSE d

\* Mutant: the socket is closed whatever is still to be written.
Close_Now(c, force) ==
  LET d == [c EXCEPT !.managed = FALSE, !.state = "CLOSED",
                     !.abrupt = @ \/ force,
                     !.posted = IF c.protocol THEN Append(@, "release") ELSE @]
  IN IF c.state # "OPEN" THEN [c EXCEPT !.managed = FALSE] ELSE CloseSocket(d)

\* Connection::close
Close(c, force) ==
  LET d == [c EXCEPT !.managed = FALSE, !.state = "CLOSED",
                     !.abrupt = @ \/ force,
                     !.posted = IF c.protocol THEN Append(@, "release") ELSE @]
  IN IF c.state # "OPEN" THEN [c EXCEPT !.managed = FALSE]
     ELSE IF d.queue = <<>> \/ force THEN CloseSocket(d)
     ELSE d

\* Connection::internalSend; `fail` when asio throws. onSendMessage encodes
\* (encrypts) the message in place.
InternalSend(c, m, fail) ==
  LET d == [c EXCEPT !.encoded[m] = @ + 1]
  IN IF fail THEN [Close(d, TRUE) EXCEPT !.abrupt = TRUE]
     ELSE [d EXCEPT !.writeTimer = Rearm(@),
                    !.inFlight = Append(@, [message |-> m, result |-> "pending"])]

\* Connection::send of the next message.
Send(c, fail) ==
  LET m == c.offered + 1
      d == [c EXCEPT !.offered = m, !.queue = Append(@, m), !.accepted = Append(@, m)]
  IN IF c.state # "OPEN" THEN [c EXCEPT !.offered = m]
     ELSE IF c.queue = <<>> THEN InternalSend(d, m, fail)
     ELSE d

\* messageQueue.pop_front(), which is undefined on an empty list.
PopFront(c) ==
  IF c.queue = <<>> THEN [c EXCEPT !.undefined = TRUE]
  ELSE [c EXCEPT !.queue = Tail(@)]

\* Start the read timer and the async_read of the next part of a packet; if
\* asio throws, close(FORCE_CLOSE).
BeginRead(c, part, fail) ==
  IF fail THEN Close(c, TRUE)
  ELSE [c EXCEPT !.readTimer = Rearm(@), !.read = [part |-> part, result |-> "pending"]]

\* A task for the dispatcher.
Post(c) == [c EXCEPT !.posted = Append(@, "packet")]

\* What Protocol::onRecvFirstMessage and onRecvMessage may make of the
\* connection: nothing, a task is posted, it is disconnected, with a task posted
\* before if the packet was shorter than it said, or an answer is sent and it is
\* disconnected.
Received(c) ==
  {c, Post(c), Close(c, FALSE), Close(Post(c), FALSE)}
  \cup {Close(Send(c, fail), FALSE) :
          fail \in IF c.offered < MaxMessages THEN BOOLEAN ELSE {}}

-----------------------------------------------------------------------------
(* Handlers, on the I/O thread                                             *)

IoFree == alive /\ closing["io"] = "no"

\* ServicePort::onAccept on this connection: a banned or unknown address is
\* closed at once, any other gets Connection::accept.
OnAccept ==
  /\ IoFree /\ accepting
  /\ accepting' = FALSE
  /\ conn' \in {Close(conn, TRUE)} \cup {BeginRead(conn, "header", fail) : fail \in BOOLEAN}
  /\ UNCHANGED <<alive, closing, wire, packets, served>>

\* The read handlers start by cancelling the read timer.
ReadHandler(part) == IoFree /\ conn.read.part = part /\ conn.read.result # "pending"
AfterRead == [conn EXCEPT !.readTimer = Cancel(@), !.read = NoRead]

\* Connection::parseHeader: too many packets per second close the connection,
\* a size out of range closes it with force.
ParseHeader ==
  /\ ReadHandler("header")
  /\ conn' \in
       IF conn.read.result = "error" THEN {Close(AfterRead, TRUE)}
       ELSE IF conn.state # "OPEN" THEN {AfterRead}
       ELSE {Close(AfterRead, FALSE), Close(AfterRead, TRUE)}
            \cup {BeginRead(AfterRead, "body", fail) : fail \in BOOLEAN}
  /\ UNCHANGED <<alive, accepting, closing, wire, packets, served>>

\* The connection once the protocol has been handed its first packet.
WithProtocol(c) == [c EXCEPT !.receivedFirst = TRUE, !.protocol = TRUE]

\* The connection once the protocol has been handed a packet and the read of the
\* next one's header has begun.
ReadsNext(c) == {BeginRead(r, "header", fail) : r \in Received(c), fail \in BOOLEAN}

\* Mutant: the next read is not started.
ParsePacket_NoNextRead ==
  /\ ReadHandler("body")
  /\ conn' \in
       IF conn.read.result = "error" THEN {Close(AfterRead, TRUE)}
       ELSE IF conn.state # "OPEN" THEN {AfterRead}
       ELSE Received(WithProtocol(AfterRead))
  /\ UNCHANGED <<alive, accepting, closing, wire, packets, served>>

\* Connection::parsePacket: the first packet makes the protocol (an unknown
\* protocol id closes with force); then the packet is handed to it, and the
\* next read starts whatever the protocol did.
ParsePacket ==
  /\ ReadHandler("body")
  /\ conn' \in
       IF conn.read.result = "error" THEN {Close(AfterRead, TRUE)}
       ELSE IF conn.state # "OPEN" THEN {AfterRead}
       ELSE ReadsNext(WithProtocol(AfterRead))
            \cup (IF conn.receivedFirst THEN {}
                  ELSE {Close([AfterRead EXCEPT !.receivedFirst = TRUE], TRUE)})
  /\ UNCHANGED <<alive, accepting, closing, wire, packets, served>>

\* The i-th outstanding async_write leaves the list when its handler runs.
WriteDone(i) == [conn EXCEPT !.inFlight = SubSeq(@, 1, i - 1) \o SubSeq(@, i + 1, Len(@)),
                             !.writeTimer = Cancel(@)]

\* Mutant: the next message is taken before the one written is popped.
OnWriteOperation_PopsLast ==
  /\ IoFree
  /\ \E i \in DOMAIN conn.inFlight, fail \in BOOLEAN :
        /\ conn.inFlight[i].result # "pending"
        /\ LET c == WriteDone(i)
           IN IF conn.inFlight[i].result = "error"
              THEN conn' = [Close([c EXCEPT !.queue = <<>>], TRUE) EXCEPT !.abrupt = TRUE]
              ELSE IF Len(c.queue) > 1
              THEN conn' = PopFront(InternalSend(c, Head(c.queue), fail))
              ELSE IF c.state = "CLOSED" THEN conn' = CloseSocket(PopFront(c))
              ELSE conn' = PopFront(c)
  /\ UNCHANGED <<alive, accepting, closing, wire, packets, served>>

\* Connection::onWriteOperation
OnWriteOperation ==
  /\ IoFree
  /\ \E i \in DOMAIN conn.inFlight, fail \in BOOLEAN :
        /\ conn.inFlight[i].result # "pending"
        /\ LET c == PopFront(WriteDone(i))
           IN IF conn.inFlight[i].result = "error"
              THEN conn' = [Close([c EXCEPT !.queue = <<>>], TRUE) EXCEPT !.abrupt = TRUE]
              ELSE IF c.queue # <<>> THEN conn' = InternalSend(c, Head(c.queue), fail)
              ELSE IF c.state = "CLOSED" THEN conn' = CloseSocket(c)
              ELSE conn' = c
  /\ UNCHANGED <<alive, accepting, closing, wire, packets, served>>

\* Connection::handleTimeout of either timer, not cancelled in time: close
\* with force, whose first half takes the connection out of the manager.
HandleTimeout ==
  /\ IoFree
  /\ \E timer \in {"readTimer", "writeTimer"} :
        /\ "fired" \in conn[timer]
        /\ conn' = [conn EXCEPT ![timer] = @ \ {"fired"}, !.managed = FALSE]
  /\ closing' = [closing EXCEPT !["io"] = "force"]
  /\ UNCHANGED <<alive, accepting, wire, packets, served>>

\* The second half of a close: connectionLock, then the rest of the method.
FinishClose(t) ==
  /\ closing[t] # "no"
  /\ conn' = Close(conn, closing[t] = "force")
  /\ closing' = [closing EXCEPT ![t] = "no"]
  /\ UNCHANGED <<alive, accepting, wire, packets, served>>

-----------------------------------------------------------------------------
(* The dispatcher's thread                                                 *)

DispatcherFree == alive /\ closing["dispatcher"] = "no"

\* Protocol::send from game code, once the protocol exists.
DispatcherSend ==
  /\ DispatcherFree /\ conn.protocol /\ conn.offered < MaxMessages
  /\ conn' \in {Send(conn, fail) : fail \in BOOLEAN}
  /\ UNCHANGED <<alive, accepting, closing, wire, packets, served>>

\* Protocol::disconnect from game code: the first half of close().
Disconnect ==
  /\ DispatcherFree /\ conn.protocol
  /\ conn' = [conn EXCEPT !.managed = FALSE]
  /\ closing' = [closing EXCEPT !["dispatcher"] = "soft"]
  /\ UNCHANGED <<alive, accepting, wire, packets, served>>

\* ConnectionManager::closeAll, from Game::shutdown, does not take
\* connectionLock.
CloseAll ==
  /\ DispatcherFree /\ conn.managed
  /\ conn' = [conn EXCEPT !.managed = FALSE, !.socket = FALSE, !.abrupt = TRUE]
  /\ UNCHANGED <<alive, accepting, closing, wire, packets, served>>

\* The dispatcher runs the next task of this connection's protocol.
Serve ==
  /\ closing["dispatcher"] = "no" /\ served < Len(conn.posted)
  /\ served' = served + 1
  /\ UNCHANGED <<conn, alive, accepting, closing, wire, packets>>

\* The last shared_ptr goes: the destructor closes the socket.
Destroy ==
  /\ alive /\ ~conn.managed /\ ~accepting /\ conn.read = NoRead
  /\ conn.inFlight = <<>> /\ \A t \in Threads : closing[t] = "no"
  /\ alive' = FALSE
  /\ conn' = [CloseSocket(conn) EXCEPT !.readTimer = {}, !.writeTimer = {}]
  /\ UNCHANGED <<accepting, closing, wire, packets, served>>

-----------------------------------------------------------------------------
(* The client and the operating system                                     *)

\* The client sends the awaited part, resets the connection or leaves; a read
\* on a closed socket is aborted.
ReadCompletes(result) ==
  /\ conn.read.part # "none" /\ conn.read.result = "pending"
  /\ result = "ok" => conn.socket
  /\ conn' = [conn EXCEPT !.read.result = result]
  /\ IF result = "ok" /\ conn.read.part = "header"
     THEN packets < MaxPackets /\ packets' = packets + 1
     ELSE UNCHANGED packets
  /\ UNCHANGED <<alive, accepting, closing, wire, served>>

WriteCompletes(result) ==
  /\ \E i \in DOMAIN conn.inFlight :
        /\ conn.inFlight[i].result = "pending"
        /\ result = "ok" => conn.socket
        /\ conn' = [conn EXCEPT !.inFlight[i].result = result]
        /\ wire' = IF result = "ok" THEN Append(wire, conn.inFlight[i].message) ELSE wire
  /\ UNCHANGED <<alive, accepting, closing, packets, served>>

\* A timer expires: its handler is queued.
Expires(timer) ==
  /\ alive /\ "armed" \in conn[timer]
  /\ conn' = [conn EXCEPT ![timer] = (@ \ {"armed"}) \cup {"fired"}]
  /\ UNCHANGED <<alive, accepting, closing, wire, packets, served>>

-----------------------------------------------------------------------------
Handlers == OnAccept \/ ParseHeader \/ ParsePacket \/ OnWriteOperation \/ HandleTimeout

Client ==
  \/ \E result \in {"ok", "error"} : ReadCompletes(result) \/ WriteCompletes(result)

Next ==
  \/ Handlers \/ (\E t \in Threads : FinishClose(t)) \/ Destroy
  \/ DispatcherSend \/ Disconnect \/ CloseAll \/ Serve
  \/ Client \/ \E timer \in {"readTimer", "writeTimer"} : Expires(timer)

Spec == Init /\ [][Next]_vars

(* The server's threads run, an armed timer expires or is cancelled, and the *)
(* operating system aborts the operations of a closed socket. The client     *)
(* does not have to send, read or leave. Tasks are served in turn and the    *)
(* last pointer's end destroys the connection, even if game tasks keep       *)
(* calling disconnect: strong fairness.                                      *)
Fairness ==
  /\ WF_vars(Handlers) /\ SF_vars(Destroy) /\ SF_vars(Serve)
  /\ \A t \in Threads : WF_vars(FinishClose(t))
  /\ \A timer \in {"readTimer", "writeTimer"} : WF_vars(Expires(timer))
  /\ WF_vars(~conn.socket /\ ReadCompletes("error"))
  /\ WF_vars(~conn.socket /\ WriteCompletes("error"))

FairSpec == Spec /\ Fairness

-----------------------------------------------------------------------------
(* Properties                                                              *)

InFlight == [message : Messages, result : Results]
Served   == SubSeq(conn.posted, 1, served)
Prefix(s, t) == Len(s) <= Len(t) /\ s = SubSeq(t, 1, Len(s))

\* Types, and the number of tasks a connection posts: one for each packet and
\* one release.
TypeOK ==
  /\ conn.managed \in BOOLEAN /\ conn.state \in {"OPEN", "CLOSED"} /\ conn.socket \in BOOLEAN
  /\ conn.read \in [part : {"none", "header", "body"}, result : Results]
  /\ conn.readTimer \subseteq {"armed", "fired"}
  /\ conn.writeTimer \subseteq {"armed", "fired"}
  /\ conn.queue \in Seq(Messages) /\ conn.inFlight \in Seq(InFlight)
  /\ conn.protocol \in BOOLEAN /\ conn.receivedFirst \in BOOLEAN
  /\ conn.posted \in Seq({"packet", "release"}) /\ Len(conn.posted) <= MaxPackets + 1
  /\ conn.offered \in 0..MaxMessages /\ conn.accepted \in Seq(Messages)
  /\ conn.encoded \in [Messages -> Nat] /\ conn.abrupt \in BOOLEAN
  /\ conn.undefined \in BOOLEAN
  /\ alive \in BOOLEAN /\ accepting \in BOOLEAN
  /\ closing \in [Threads -> {"no", "soft", "force"}]
  /\ wire \in Seq(Messages) /\ packets \in 0..MaxPackets /\ served \in 0..Len(conn.posted)

\* At most one async_write is outstanding, for the head of messageQueue, which
\* is what lets onWriteOperation pop the head without asking which write
\* completed; so it never pops an empty list. Sends race with closes, errors
\* and the draining of a closed connection.
WriteIsHead ==
  /\ ~conn.undefined
  /\ Len(conn.inFlight) <= 1
  /\ \A i \in DOMAIN conn.inFlight :
        conn.queue # <<>> /\ conn.inFlight[i].message = Head(conn.queue)

\* The client sees the messages the connection accepted, in that order, and each
\* was encrypted exactly once: Protocol::onSendMessage works in place, so a
\* second pass would garble it.
WireInOrder ==
  /\ Prefix(wire, conn.accepted)
  /\ \A m \in Messages : conn.encoded[m] <= 1
  /\ \A i \in DOMAIN wire : conn.encoded[wire[i]] = 1

\* close() without FORCE_CLOSE loses nothing: unless something else ended the
\* connection, the socket is closed only after every accepted message is sent
\* (the message that tells a client why it is disconnected is one of them).
GracefulDrains ==
  ~conn.socket /\ ~conn.abrupt => wire = conn.accepted

\* An open connection always has a read outstanding that its read timer bounds,
\* or is on its way to being closed: no path of the two read handlers leaves a
\* client that is neither listened to nor timed out.
NotDeaf ==
  conn.state = "OPEN" /\ ~accepting =>
    /\ alive /\ conn.read.part # "none"
    /\ conn.read.result # "pending" \/ conn.readTimer # {} \/ closing["io"] = "force"

\* A message being written is bounded by the write timer, or the connection is
\* being closed: a client that stops reading does not keep an open connection.
WriteBounded ==
  conn.state = "OPEN" =>
    \A i \in DOMAIN conn.inFlight :
      conn.inFlight[i].result # "pending" \/ conn.writeTimer # {} \/ closing["io"] = "force"

\* To the game this is a connection as ConnectionLife describes it.
Life == INSTANCE ConnectionLife WITH
  life <- IF ~alive THEN "gone" ELSE IF conn.state = "CLOSED" THEN "closed"
          ELSE IF conn.protocol THEN "open" ELSE "fresh",
  posted <- Len(conn.posted)

\* Whatever the order of handlers, timers and closes, tasks are posted only
\* while the connection is open, and the last one is the release.
LifeSpec == Life!Spec

\* A client that has nothing more to say (MaxPackets) is closed, whether it keeps
\* its socket open or not, and whether it reads or not; and the game learns of it:
\* a closed connection's protocol is released.
SilentClientReleased ==
  /\ <>(conn.state = "CLOSED")
  /\ (conn.state = "CLOSED" /\ conn.protocol) ~> (\E i \in DOMAIN Served : Served[i] = "release")

\* connection.cpp, close(): a connection with messages left "will be closed by
\* the destructor or onWriteOperation".
ClosedLater == (conn.state = "CLOSED") ~> ~conn.socket
=============================================================================
