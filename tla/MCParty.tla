------------------------------- MODULE MCParty -------------------------------
(***************************************************************************)
(* Party for TLC: three players, and as many addresses as they can lead    *)
(* parties at the same time.                                               *)
(***************************************************************************)
EXTENDS Party, TLC

CONSTANTS a, b, c, g1, g2, g3

Symmetric == Permutations(Players) \cup Permutations(Parties)
=============================================================================
