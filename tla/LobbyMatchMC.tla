----------------------------- MODULE LobbyMatchMC -----------------------------
(* The instance of LobbyMatch that is checked: three users, one of whom may  *)
(* look for a match a second time.                                           *)
EXTENDS LobbyMatch

Finds == <<2, 1, 1>>
=============================================================================
