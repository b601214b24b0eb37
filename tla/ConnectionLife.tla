--------------------------- MODULE ConnectionLife ---------------------------
(***************************************************************************)
(* What the game may assume of a connection: the life of the Connection    *)
(* object as the dispatcher sees it, through the tasks it posts and through *)
(* Protocol::isConnectionExpired.                                          *)
(*                                                                         *)
(* A connection posts tasks only while it is open; closing it, which any   *)
(* thread may do at any time, posts one more, the release of its protocol, *)
(* if it has one; the object goes away some time after it was closed.      *)
(***************************************************************************)
EXTENDS Naturals

VARIABLES
  life,     \* "fresh": open, no packet yet; "open"; "closed"; "gone"
  posted    \* tasks posted

vars == <<life, posted>>

Init == life = "fresh" /\ posted = 0

\* One step of a handler: a packet, which may post a task and may, before the
\* handler ends, close the connection.
Packet ==
  \E task \in {0, 1} :
    \/ /\ life \in {"fresh", "open"} /\ life' = "open"
       /\ posted' = posted + task
    \/ /\ life \in {"fresh", "open"} /\ life' = "closed"
       /\ posted' = posted + task + 1

\* Closed before its first packet made a protocol: nothing to release.
CloseFresh == life = "fresh" /\ life' = "closed" /\ UNCHANGED posted

Destroyed == life = "closed" /\ life' = "gone" /\ UNCHANGED posted

Next == Packet \/ CloseFresh \/ Destroyed

Spec == Init /\ [][Next]_vars
=============================================================================
