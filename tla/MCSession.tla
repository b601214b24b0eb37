----------------------------- MODULE MCSession ------------------------------
(***************************************************************************)
(* Session for TLC: three clients are enough for one that is online, one   *)
(* that waits for its delayed connect and one that logs in in between.     *)
(***************************************************************************)
EXTENDS Session, TLC

CONSTANTS p1, p2, p3, c1, c2

Clients == Permutations(Protocols) \cup Permutations(Characters)
=============================================================================
