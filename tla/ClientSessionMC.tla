--------------------------- MODULE ClientSessionMC ---------------------------
(* ClientSession for the model checker. *)
EXTENDS ClientSession

CONSTANTS a, b, c
=============================================================================
