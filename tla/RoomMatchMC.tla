----------------------------- MODULE RoomMatchMC -----------------------------
(* Model-checking instances of RoomMatch: two clients that may be swapped. *)
EXTENDS RoomMatch, TLC

CONSTANTS c1, c2

Swap == Permutations(Client)
=============================================================================
