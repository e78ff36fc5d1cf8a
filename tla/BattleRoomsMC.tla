---------------------------- MODULE BattleRoomsMC ----------------------------
(* Model-checking instance of BattleRooms: three users, the second of whom   *)
(* is paired with the first and then with the third.                        *)
EXTENDS BattleRooms

Pairs == <<<<1, 2>>, <<2, 3>>>>
=============================================================================
