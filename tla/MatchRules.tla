----------------------------- MODULE MatchRules -----------------------------
(***************************************************************************)
(* What a match promises its players, without clock, queue or slots: both  *)
(* start with empty hands; whoever holds enough gems for NEED_TIME_TO_WIN  *)
(* seconds on end wins within a second; nobody else does; a match ends     *)
(* once.  RoomMatch is shown to implement it.                              *)
(***************************************************************************)
EXTENDS Naturals

CONSTANTS Player, Draw, NEED_TIME_TO_WIN

VARIABLES
  phase,    \* "waiting", "playing" or "over"
  rich,     \* the players who hold enough gems to win
  hold,     \* for how many seconds of this match each of them has
  outcome   \* how the last match ended: winners or Draw

vars == <<phase, rich, hold, outcome>>

Init == /\ phase = "waiting"
        /\ rich = {}
        /\ hold = [p \in Player |-> 0]
        /\ outcome = {}

Start == /\ phase # "playing"
         /\ rich = {}
         /\ phase' = "playing"
         /\ hold' = [p \in Player |-> 0]
         /\ outcome' = {}
         /\ UNCHANGED rich

Gain(p) == /\ phase = "playing"
           /\ rich' = rich \cup {p}
           /\ UNCHANGED <<phase, hold, outcome>>

Lose(p) == /\ rich' = rich \ {p}
           /\ hold' = [hold EXCEPT ![p] = 0]
           /\ UNCHANGED <<phase, outcome>>

(* A second of play.  It does not pass for a player who has already held    *)
(* the gems for longer than it takes to win.                                *)
Second == /\ phase = "playing"
          /\ \A p \in rich : hold[p] <= NEED_TIME_TO_WIN
          /\ hold' = [p \in Player |-> IF p \in rich THEN hold[p] + 1 ELSE hold[p]]
          /\ UNCHANGED <<phase, rich, outcome>>

End == /\ phase = "playing"
       /\ outcome' \in SUBSET ({p \in rich : hold[p] >= NEED_TIME_TO_WIN} \cup {Draw})
       /\ outcome' # {}
       /\ phase' = "over"
       /\ UNCHANGED <<rich, hold>>

Next == \/ Start \/ Second \/ End
        \/ \E p \in Player : Gain(p) \/ Lose(p)

Spec == Init /\ [][Next]_vars
=============================================================================
