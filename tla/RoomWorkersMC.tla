---------------------------- MODULE RoomWorkersMC ----------------------------
(* RoomWorkers for two players of whom p shoots, with one or two bullets a  *)
(* click, and q moves or shoots two.  The workers are interchangeable.      *)
EXTENDS RoomWorkers, TLC

CONSTANTS p, q

MCShots  == (p :> {1, 2}) @@ (q :> {0, 2})
Symmetry == Permutations(Worker)
=============================================================================
