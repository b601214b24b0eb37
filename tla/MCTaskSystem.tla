--------------------------- MODULE MCTaskSystem ---------------------------
(* Instances of TaskSystem for TLC.                                        *)
EXTENDS TaskSystem, TLC

\* The tasks are interchangeable, as far as safety goes.
TaskSymmetry == Permutations(Tasks)
=============================================================================
