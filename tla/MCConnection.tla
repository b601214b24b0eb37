---------------------------- MODULE MCConnection ----------------------------
(***************************************************************************)
(* Connection for TLC: two or three messages and packets, which is enough  *)
(* for a message queued behind the one being written while the connection  *)
(* closes, and for a first and a later packet.                             *)
(***************************************************************************)
EXTENDS Connection
=============================================================================
