---------------------------- MODULE RoomHandlers ----------------------------
(***************************************************************************)
(* Two handlers of one room on two workers: the tick, which checks whether *)
(* a player wins, and the update, which takes gems from dead players.      *)
(*                                                                         *)
(* The completion port gives EV_TICK and EV_UPDATE of a room to whichever   *)
(* workers are free, and neither CheckGameState nor ProcMsg takes a lock.   *)
(* RoomMatch has each of them as one step; here each is a sequence of reads *)
(* and writes of the fields they share, in the order of the source.  Both   *)
(* reschedule themselves when they run, so there is one of each at a time.  *)
(* A match is in its round; ready check, gems and resets are in RoomMatch.  *)
(***************************************************************************)
EXTENDS Integers, Sequences

CONSTANTS
  MAX_LEFT_TIME,     \* seconds left when the round starts        (code: 180)
  NEED_TIME_TO_WIN,  \* seconds the gems have to be held           (code: 15)
  WIN_COIN_CNT,      \* gems that have to be held                  (code: 10)
  MaxDie             \* bound: deaths of a player

Slot      == {0, 1}
NoWinTime == 999     \* the win time REQUEST_DIE stores

ASSUME TimeAssumption == /\ {MAX_LEFT_TIME, NEED_TIME_TO_WIN, WIN_COIN_CNT}
                              \subseteq Nat \ {0}
                         /\ MAX_LEFT_TIME < NoWinTime
ASSUME BoundAssumption == MaxDie \in Nat

VARIABLES
  coin,      \* m_players[i]: m_coin_cnt
  winSat,    \*   m_winSatisfaction
  winTime,   \*   m_winTime
  started,   \* m_isGameStarted
  leftTime,  \* m_leftTime
  due,       \* an EV_TICK is to come
  tick,      \* where CheckGameState is: the next statement and the player
  saw,       \* the win time CheckGameState has read
  die,       \* where REQUEST_DIE is, and whose it is
  deaths,    \* slot: REQUEST_DIE messages so far
  held,      \* history: slot: ticks in a row it has held enough gems
  claimed,   \* history: slots PushNewWinSatisfaction has named
  winners    \* history: the GameOver calls, each with the winner's held

playerVars == <<coin, winSat, winTime>>
vars == <<playerVars, started, leftTime, due, tick, saw, die, deaths, held,
          claimed, winners>>

Statement == {"idle", "coins", "testsat", "satisfy", "announce", "settime",
              "readtime", "readsat"}

TypeOK ==
  /\ coin \in [Slot -> Nat]
  /\ winSat \in [Slot -> BOOLEAN]
  /\ winTime \in [Slot -> Int]
  /\ started \in BOOLEAN
  /\ leftTime \in 0..MAX_LEFT_TIME
  /\ due \in BOOLEAN
  /\ tick \in [at : Statement, i : Slot]
  /\ saw \in Int
  /\ die \in [at : {"idle", "coin", "sat", "time"}, i : Slot]
  /\ deaths \in [Slot -> 0..MaxDie]
  /\ held \in [Slot -> Nat]
  /\ claimed \subseteq Slot
  /\ winners \in Seq([winner : Slot, held : Nat])

Init ==
  /\ coin = [i \in Slot |-> 0]
  /\ winSat = [i \in Slot |-> FALSE]
  /\ winTime = [i \in Slot |-> 0]
  /\ started = TRUE
  /\ leftTime = MAX_LEFT_TIME
  /\ due = TRUE
  /\ tick = [at |-> "idle", i |-> 0]
  /\ saw = 0
  /\ die = [at |-> "idle", i |-> 0]
  /\ deaths = [i \in Slot |-> 0]
  /\ held = [i \in Slot |-> 0]
  /\ claimed = {}
  /\ winners = <<>>

At(s)   == tick.at = s
Goto(s) == tick' = [tick EXCEPT !.at = s]
I       == tick.i

(* On to the next player, or out of the handler. *)
NextPlayer == tick' = IF I = 0 THEN [at |-> "coins", i |-> 1]
                               ELSE [at |-> "idle", i |-> 0]

-----------------------------------------------------------------------------
Enough(i) == coin[i] >= WIN_COIN_CNT

(* SendLeftTimePacket schedules the next tick.  Mutant: always.             *)
ClockGoesOnForever == TRUE

ClockGoesOn == leftTime > 1 /\ started

(* A second has passed: the clock of CheckGameState, and GameOver(0), which *)
(* stops the match but not the test of the players, when it is at zero.     *)
BeginTick ==
  /\ At("idle") /\ due
  /\ due' = ClockGoesOn
  /\ leftTime' = leftTime - 1
  /\ started' = (started /\ leftTime' > 0)
  /\ held' = [i \in Slot |-> IF Enough(i) THEN held[i] + 1 ELSE 0]
  /\ tick' = IF started THEN [at |-> "coins", i |-> 0] ELSE tick
  /\ UNCHANGED <<playerVars, saw, die, deaths, claimed, winners>>

(* if (GetCoin() >= WIN_COIN_CNT && !GetWinSatisfaction()): two reads *)
TestCoins ==
  /\ At("coins")
  /\ Goto(IF Enough(I) THEN "testsat" ELSE "readtime")
  /\ UNCHANGED <<playerVars, started, leftTime, due, saw, die, deaths, held,
                 claimed, winners>>

TestSatisfied ==
  /\ At("testsat")
  /\ Goto(IF winSat[I] THEN "readtime" ELSE "satisfy")
  /\ UNCHANGED <<playerVars, started, leftTime, due, saw, die, deaths, held,
                 claimed, winners>>

SetSatisfied ==
  /\ At("satisfy")
  /\ winSat' = [winSat EXCEPT ![I] = TRUE]
  /\ Goto("announce")
  /\ UNCHANGED <<coin, winTime, started, leftTime, due, saw, die, deaths, held,
                 claimed, winners>>

Announce ==
  /\ At("announce")
  /\ claimed' = claimed \cup {I}
  /\ Goto("settime")
  /\ UNCHANGED <<playerVars, started, leftTime, due, saw, die, deaths, held,
                 winners>>

(* Mutant: a second less to hold.                                           *)
WinsAtShort == leftTime - NEED_TIME_TO_WIN + 1

WinsAt == leftTime - NEED_TIME_TO_WIN

SetWinTime ==
  /\ At("settime")
  /\ winTime' = [winTime EXCEPT ![I] = WinsAt]
  /\ Goto("readtime")
  /\ UNCHANGED <<coin, winSat, started, leftTime, due, saw, die, deaths, held,
                 claimed, winners>>

(* if (GetWinTime() >= m_leftTime && GetWinSatisfaction()): two reads *)
ReadWinTime ==
  /\ At("readtime")
  /\ saw' = winTime[I]
  /\ Goto("readsat")
  /\ UNCHANGED <<playerVars, started, leftTime, due, die, deaths, held, claimed,
                 winners>>

(* ... GameOver(GetID()).  Mutant: whether it has the gems now. *)
ClaimsByCoins(i) == Enough(i)

Claims(i) == winSat[i]

ReadSatisfied ==
  /\ At("readsat")
  /\ IF saw >= leftTime /\ Claims(I)
     THEN /\ started' = FALSE
          /\ winners' = Append(winners, [winner |-> I, held |-> held[I]])
     ELSE UNCHANGED <<started, winners>>
  /\ NextPlayer
  /\ UNCHANGED <<playerVars, leftTime, due, saw, die, deaths, held, claimed>>

-----------------------------------------------------------------------------
(* The other worker, in Update: GET_COIN, which only the update writes, ... *)
GetCoin(i) ==
  /\ die.at = "idle" /\ started
  /\ coin[i] < WIN_COIN_CNT
  /\ coin' = [coin EXCEPT ![i] = @ + 1]
  /\ UNCHANGED <<winSat, winTime, started, leftTime, due, tick, saw, die,
                 deaths, held, claimed, winners>>

(* ... and REQUEST_DIE, whose gems are dropped before the count is zeroed.  *)
BeginDie(i) ==
  /\ die.at = "idle" /\ deaths[i] < MaxDie
  /\ die' = [at |-> "coin", i |-> i]
  /\ deaths' = [deaths EXCEPT ![i] = @ + 1]
  /\ UNCHANGED <<playerVars, started, leftTime, due, tick, saw, held,
                 claimed, winners>>

DieCoin ==
  /\ die.at = "coin"
  /\ coin' = [coin EXCEPT ![die.i] = 0]
  /\ held' = [held EXCEPT ![die.i] = 0]
  /\ die' = [die EXCEPT !.at = "sat"]
  /\ UNCHANGED <<winSat, winTime, started, leftTime, due, tick, saw, deaths,
                 claimed, winners>>

DieSatisfied ==
  /\ die.at = "sat"
  /\ winSat' = [winSat EXCEPT ![die.i] = FALSE]
  /\ die' = [die EXCEPT !.at = "time"]
  /\ UNCHANGED <<coin, winTime, started, leftTime, due, tick, saw, deaths, held,
                 claimed, winners>>

DieTime ==
  /\ die.at = "time"
  /\ winTime' = [winTime EXCEPT ![die.i] = NoWinTime]
  /\ die' = [at |-> "idle", i |-> 0]
  /\ UNCHANGED <<coin, winSat, started, leftTime, due, tick, saw, deaths, held,
                 claimed, winners>>

-----------------------------------------------------------------------------
CheckGameState == \/ BeginTick \/ TestCoins \/ TestSatisfied \/ SetSatisfied
                  \/ Announce \/ SetWinTime \/ ReadWinTime \/ ReadSatisfied
ProcMsg == \/ \E i \in Slot : GetCoin(i) \/ BeginDie(i)
           \/ DieCoin \/ DieSatisfied \/ DieTime

Next == CheckGameState \/ ProcMsg

Spec == Init /\ [][Next]_vars

-----------------------------------------------------------------------------
(* What the rules ask: whoever GameOver names as the winner has held        *)
(* WIN_COIN_CNT gems for NEED_TIME_TO_WIN seconds without interruption.     *)
(* Not so here: a death between TestCoins and SetSatisfied is undone by the *)
(* tick, which then finds the win time of the dead, NoWinTime, not less     *)
(* than the seconds left.                                                   *)
WinnerHeld == \A k \in 1..Len(winners) : winners[k].held >= NEED_TIME_TO_WIN

(* What is left of it: a player who has not died wins only when it has held *)
(* the gems.  Picking up gems in the middle of a tick does no harm, nor     *)
(* does a death of the other player.                                        *)
UnhurtWinnerHeld ==
  \A k \in 1..Len(winners) :
    deaths[winners[k].winner] = 0 => winners[k].held >= NEED_TIME_TO_WIN

(* Nobody wins unannounced: the players have been told with                 *)
(* BC_WIN_SATISFACTION that the winner counts down to a win.                *)
WinnerIsAnnounced == \A k \in 1..Len(winners) : winners[k].winner \in claimed

=============================================================================
