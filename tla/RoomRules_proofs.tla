---------------------------- MODULE RoomRules_proofs ----------------------------
(***************************************************************************)
(* The rules of a match, proved of the room for every value of the          *)
(* constants: one clock and one chest, the seconds a winner has held the    *)
(* gems for, and the refinement of MatchRules; then what a client asks for. *)
(*                                                                         *)
(* A second match in one room needs a second READY of its clients; it finds *)
(* gems, claim and timers of the last one, so the rules are stated for      *)
(* behaviours without one, of any clients and any number of READY messages; *)
(* a room whose clients are the two of a pair, and press ready once, has no *)
(* other behaviour.                                                         *)
(***************************************************************************)
EXTENDS RoomMatch_proofs

(* A match starts although one has been played. *)
Rematch  == ~started /\ started' /\ results # <<>>
OneMatch == [][~Rematch]_vars

Free(e)  == \A s \in Seconds : timer[e][s] = 0
Clock    == {"TICK", "ADD_COIN"}
Playing  == started
Waiting  == ~started /\ results = <<>>

(* Before the match nothing runs and nobody has gems; during it the clock   *)
(* has not run out, one tick is pending, and the chest waits for the round. *)
WaitingInv == Waiting => /\ leftTime = MAX_LEFT_TIME /\ ~roundStarted
                         /\ \A e \in Event : Free(e)
                         /\ \A i \in Slot : coin[i] = 0
PlayingInv == Playing => /\ leftTime \in 1..MAX_LEFT_TIME
                         /\ timer["TICK"][0] + timer["TICK"][1] = 1
                         /\ ~roundStarted => Free("ADD_COIN")
                         /\ Free("RESET_ROOM")
                         /\ results = <<>>
ClockInv == /\ \A e \in Clock : AtMostOne(e)
            /\ WaitingInv /\ PlayingInv

(* How long a slot has held the gems, told from the clock.  Between two      *)
(* ticks the pending one says whether the second has passed.                 *)
Passed == timer["TICK"][0]
Ticks(i) == winTime[i] + NEED_TIME_TO_WIN - leftTime  \* ticks of the claim

HeldInv ==
  \A i \in Slot :
    /\ coin[i] < WIN_COIN_CNT => held[i] = 0
    /\ Playing /\ ~winSat[i] => held[i] <= Passed
    /\ Playing /\ winSat[i] => /\ winTime[i] < leftTime
                               /\ held[i] >= Ticks(i) + Passed
                               /\ held[i] <= Ticks(i) + Passed + 1

RulesInv == Inv /\ ClockInv /\ HeldInv /\ WinnerHeld

-----------------------------------------------------------------------------
(* Tables of pending events. *)
Empty(f)  == \A s \in Seconds : f[s] = 0
Single(f) == \A s, t \in Seconds : /\ f[s] <= 1
                                   /\ f[s] = 1 /\ f[t] = 1 => s = t
Shift(f)  == [s \in Seconds |-> IF s + 1 \in Seconds THEN f[s + 1] ELSE 0]

LEMMA EmptyIsSingle ==
  ASSUME NEW f \in [Seconds -> Nat], Empty(f) PROVE Single(f)
BY DEF Empty, Single

LEMMA AddToEmpty ==
  ASSUME NEW f \in [Seconds -> Nat], Empty(f), NEW s \in Seconds
  PROVE  /\ Single([f EXCEPT ![s] = @ + 1])
         /\ \A t \in Seconds : [f EXCEPT ![s] = @ + 1][t] = IF t = s THEN 1 ELSE 0
BY DEF Empty, Single

LEMMA AddNothing ==
  ASSUME NEW f \in [Seconds -> Nat], NEW s \in Seconds
  PROVE  [f EXCEPT ![s] = @ + 0] = f
OBVIOUS

LEMMA RunTheSingle ==
  ASSUME NEW f \in [Seconds -> Nat], Single(f), f[0] > 0
  PROVE  /\ f[0] = 1
         /\ [f EXCEPT ![0] = @ - 1] \in [Seconds -> Nat]
         /\ Empty([f EXCEPT ![0] = @ - 1])
<1>1. 0 \in Seconds
  BY DelaysInRange
<1>2. f[0] = 1 /\ \A t \in Seconds : t # 0 => f[t] = 0
  BY <1>1 DEF Single
<1> QED
  BY <1>1, <1>2 DEF Empty

LEMMA ShiftSingle ==
  ASSUME NEW f \in [Seconds -> Nat], Single(f)
  PROVE  Single(Shift(f)) /\ (Empty(f) => Empty(Shift(f)))
<1>1. Seconds \subseteq Int
  BY DEF Seconds
<1> QED
  BY <1>1 DEF Single, Shift, Empty

LEMMA TimerTables ==
  ASSUME TypeOK
  PROVE  \A e \in Event : /\ timer[e] \in [Seconds -> Nat]
                          /\ Free(e) <=> Empty(timer[e])
                          /\ AtMostOne(e) <=> Single(timer[e])
BY DEF TypeOK, Free, Empty, AtMostOne, Single

-----------------------------------------------------------------------------
LEMMA ClockInit == Init => ClockInv
<1> SUFFICES ASSUME Init PROVE ClockInv
  OBVIOUS
<1>1. \A e \in Clock : AtMostOne(e)
  BY DEF Init, AtMostOne, Clock, Event
<1> QED
  BY <1>1 DEF Init, ClockInv, WaitingInv, PlayingInv, Waiting, Playing, Free

(* Steps that leave the clock alone and give nobody gems. *)
LEMMA ClockFrame ==
  ASSUME Inv, ClockInv, UNCHANGED <<started, clockVars, timer, results>>,
         \A i \in Slot : coin[i] = 0 => coin'[i] = 0
  PROVE  ClockInv'
BY DEF ClockInv, WaitingInv, PlayingInv, Waiting, Playing, AtMostOne, Free, clockVars

LEMMA ClockDisconnect ==
  ASSUME Inv, ClockInv, NEW c \in Client, Disconnect(c) PROVE ClockInv'
<1>1. \A i \in Slot : coin[i] = 0 => coin'[i] = 0
  BY DEF Disconnect, LeaveRoom, Initialize, Cleared
<1> QED
  BY <1>1, ClockFrame DEF Disconnect

LEMMA ClockRequestDie ==
  ASSUME Inv, ClockInv, NEW c \in Client, ProcRequestDie(c) PROVE ClockInv'
<1>1. \A i \in Slot : coin[i] = 0 => coin'[i] = 0
  BY DEF ProcRequestDie, Inv, TypeOK
<1> QED
  BY <1>1, ClockFrame DEF ProcRequestDie

LEMMA ClockGetCoin ==
  ASSUME Inv, ClockInv, NEW c \in Client, ProcGetCoin(c) PROVE ClockInv'
<1>1. CASE ~started
  <2>1. UNCHANGED coin
    BY <1>1 DEF ProcGetCoin
  <2> QED
    BY <2>1, ClockFrame DEF ProcGetCoin, historyVars
<1>2. CASE started
  BY <1>2 DEF ProcGetCoin, historyVars, clockVars, ClockInv, WaitingInv,
              PlayingInv, Waiting, Playing, AtMostOne, Free
<1> QED
  BY <1>1, <1>2

(* GameStart finds no timer running, so the clock it starts is the only one. *)
LEMMA ClockProcReady ==
  ASSUME Inv, ClockInv, NEW c \in Client, ProcReady(c), ~Rematch
  PROVE  ClockInv'
<1>1. CASE UNCHANGED <<started, timer, historyVars>>
  BY <1>1, ClockFrame DEF ProcReady, historyVars
<1>2. CASE GameStart /\ ~started
  <2>1. Waiting
    BY <1>2 DEF Rematch, GameStart, Waiting
  <2>2. /\ leftTime = MAX_LEFT_TIME /\ ~roundStarted
        /\ \A e \in Event : Free(e)
    BY <2>1 DEF ClockInv, WaitingInv
  <2>3. UNCHANGED clockVars
    BY DEF ProcReady
  <2>4. ClockGoesOn
    BY <2>2, TimeAssumption DEF ClockGoesOn
  <2> DEFINE f == [timer["TICK"] EXCEPT ![1] = @ + 1]
  <2>5. timer' = [timer EXCEPT !["TICK"] = f]
    BY <1>2, <2>4 DEF GameStart, After
  <2>6. Single(f) /\ \A t \in Seconds : f[t] = IF t = 1 THEN 1 ELSE 0
    BY <2>2, AddToEmpty, TimerTables, DelaysInRange DEF Inv, Event
  <2> HIDE DEF f
  <2>7. /\ timer'["TICK"] = f
        /\ \A e \in Event \ {"TICK"} : timer'[e] = timer[e]
    BY <2>5 DEF Inv, TypeOK, Event
  <2>8. AtMostOne("TICK")' /\ timer'["TICK"][0] + timer'["TICK"][1] = 1
    BY <2>6, <2>7, DelaysInRange DEF Single, AtMostOne
  <2>9. /\ \A e \in Event \ {"TICK"} : Free(e)'
        /\ AtMostOne("ADD_COIN")'
    BY <2>2, <2>7 DEF Free, AtMostOne, Event
  <2>10. started' /\ results' = <<>> /\ leftTime' \in 1..MAX_LEFT_TIME
    BY <1>2, <2>2, <2>3, TimeAssumption DEF GameStart, clockVars
  <2> QED
    BY <2>8, <2>9, <2>10
    DEF ClockInv, WaitingInv, PlayingInv, Waiting, Playing, Clock, Event
<1> QED
  BY <1>1, <1>2 DEF ProcReady

LEMMA ClockAddCoin == ASSUME Inv, ClockInv, AddCoin PROVE ClockInv'
<1> DEFINE f == timer["ADD_COIN"]
           r == [f EXCEPT ![0] = @ - 1]
<1>1. f \in [Seconds -> Nat] /\ Single(f) /\ f[0] > 0
  BY TimerTables DEF AddCoin, Due, Inv, ClockInv, Clock, Event
<1>2. r \in [Seconds -> Nat] /\ Empty(r)
  BY <1>1, RunTheSingle
<1> DEFINE g == IF started THEN [r EXCEPT ![ADD_COIN_TIME] = @ + 1] ELSE r
<1>3. Single(g)
  BY <1>2, EmptyIsSingle, AddToEmpty, DelaysInRange
<1>4. timer' = [timer EXCEPT !["ADD_COIN"] = g]
  BY DEF AddCoin, Ran
<1>5. ~Free("ADD_COIN")
  BY <1>1, DelaysInRange DEF Free
<1> HIDE DEF f, r, g
<1>6. timer'["ADD_COIN"] = g /\ \A e \in Event \ {"ADD_COIN"} : timer'[e] = timer[e]
  BY <1>4 DEF Inv, TypeOK, Event
<1>7. AtMostOne("ADD_COIN")' /\ AtMostOne("TICK")'
  BY <1>3, <1>6 DEF Single, AtMostOne, ClockInv, Clock, Event
<1>8. UNCHANGED <<started, clockVars, results, coin>>
  BY DEF AddCoin, playerVars, historyVars
<1>9. ~Waiting
  BY <1>5 DEF ClockInv, WaitingInv, Event
<1>10. Playing => roundStarted
  BY <1>5 DEF ClockInv, PlayingInv
<1> QED
  BY <1>6, <1>7, <1>8, <1>9, <1>10
  DEF ClockInv, WaitingInv, PlayingInv, Waiting, Playing, Free, Clock, Event, clockVars

LEMMA ClockResetRoom == ASSUME Inv, ClockInv, ResetRoom PROVE ClockInv'
<1>1. ~Free("RESET_ROOM")
  BY DelaysInRange DEF ResetRoom, Due, Free
<1>2. ~Waiting /\ ~Playing
  BY <1>1 DEF ClockInv, WaitingInv, PlayingInv, Event
<1>3. timer'["TICK"] = timer["TICK"] /\ timer'["ADD_COIN"] = timer["ADD_COIN"]
  BY DEF ResetRoom, Inv, TypeOK, Event
<1>4. UNCHANGED <<started, results>>
  BY DEF ResetRoom, historyVars
<1> QED
  BY <1>2, <1>3, <1>4
  DEF ClockInv, WaitingInv, PlayingInv, Waiting, Playing, Clock, AtMostOne

(* A second of a match makes the pending tick due. *)
LEMMA ElapseTick ==
  ASSUME Inv, ClockInv, Playing, Elapse
  PROVE  Passed = 0 /\ Passed' = 1 /\ timer'["TICK"][1] = 0
<1>1. timer["TICK"] \in [Seconds -> Nat] /\ timer'["TICK"] = Shift(timer["TICK"])
  BY TimerTables DEF Elapse, Shift, Inv, Event
<1>2. 0 \in Seconds /\ 1 \in Seconds /\ 2 \in Seconds
  BY TimeAssumption DEF Seconds
<1>3. timer["TICK"][0] = 0
  BY <1>1, <1>2 DEF Elapse, Due, Event
<1>4. timer["TICK"][1] = 1
  BY <1>1, <1>2, <1>3 DEF ClockInv, PlayingInv
<1>5. timer["TICK"][2] = 0
  BY <1>1, <1>2, <1>4 DEF ClockInv, AtMostOne, Clock
<1> QED
  BY <1>1, <1>2, <1>3, <1>4, <1>5 DEF Shift, Passed

LEMMA ClockElapse == ASSUME Inv, ClockInv, Elapse PROVE ClockInv'
<1>1. \A e \in Event : timer[e] \in [Seconds -> Nat] /\ timer'[e] = Shift(timer[e])
  BY TimerTables DEF Elapse, Shift, Inv
<1>2. \A e \in Clock : Single(timer'[e])
  BY <1>1, ShiftSingle, TimerTables DEF Inv, ClockInv, Clock, Event
<1>3. \A e \in Event : Empty(timer[e]) => Empty(timer'[e])
  BY <1>1, ShiftSingle, EmptyIsSingle
<1>4. UNCHANGED <<started, clockVars, results, coin>>
  BY DEF Elapse, playerVars
<1>5. \A e \in Clock : AtMostOne(e)'
  BY <1>2 DEF Single, AtMostOne
<1>6. \A e \in Event : Free(e) => Free(e)'
  BY <1>3 DEF Free, Empty
<1>7. Playing => timer'["TICK"][0] + timer'["TICK"][1] = 1
  BY ElapseTick DEF Passed
<1> QED
  BY <1>4, <1>5, <1>6, <1>7
  DEF ClockInv, WaitingInv, PlayingInv, Waiting, Playing, Event, clockVars

(* A tick ends the match with the last second or with a winner. *)
LEMMA NothingOver ==
  ASSUME TypeOK, NEW lt \in Int
  PROVE  Results(lt) = <<>> <=> /\ ~(started /\ lt <= 0)
                                /\ \A i \in Slot : ~Wins(i, lt)
<1> DEFINE draw == [winner |-> Draw, held |-> 0]
           d == IF started /\ lt <= 0 THEN <<draw>> ELSE <<>>
           a == IF Wins(0, lt) THEN <<Result(0)>> ELSE <<>>
           b == IF Wins(1, lt) THEN <<Result(1)>> ELSE <<>>
           S == {draw, Result(0), Result(1)}
<1>1. \A x \in S : <<x>> \in Seq(S) /\ Len(<<x>>) = 1
  OBVIOUS
<1>2. <<>> \in Seq(S) /\ Len(<<>>) = 0
  BY EmptySeq
<1>3. draw \in S /\ Result(0) \in S /\ Result(1) \in S
  OBVIOUS
<1> HIDE DEF S, draw
<1>4. d \in Seq(S) /\ (Len(d) = IF started /\ lt <= 0 THEN 1 ELSE 0)
  BY <1>1, <1>2, <1>3
<1>5. a \in Seq(S) /\ (Len(a) = IF Wins(0, lt) THEN 1 ELSE 0)
  BY <1>1, <1>2, <1>3
<1>6. b \in Seq(S) /\ (Len(b) = IF Wins(1, lt) THEN 1 ELSE 0)
  BY <1>1, <1>2, <1>3
<1>7. Results(lt) = d \o a \o b
  BY DEF Results, draw
<1> HIDE DEF d, a, b
<1>8. \A x, y \in Seq(S) : x \o y \in Seq(S) /\ Len(x \o y) = Len(x) + Len(y)
  BY ConcatProperties
<1>9. Results(lt) \in Seq(S) /\ Len(Results(lt)) = Len(d) + Len(a) + Len(b)
  <2>1. d \o a \in Seq(S) /\ Len(d \o a) = Len(d) + Len(a)
    BY <1>4, <1>5, <1>8
  <2> QED
    BY <1>6, <1>7, <1>8, <2>1
<1>10. Results(lt) = <<>> <=> Len(Results(lt)) = 0
  BY <1>9, EmptySeq
<1> QED
  BY <1>4, <1>5, <1>6, <1>9, <1>10 DEF Slot

(* What a tick does to the clock and the chest. *)
LEMMA TickTimers ==
  ASSUME Inv, ClockInv, Tick
  PROVE  LET lt == (leftTime - 1) % LEFT_TIME_MOD IN
         /\ Passed = 1 /\ timer'["TICK"][0] = 0
         /\ (timer'["TICK"][1] = IF ClockGoesOn /\ started THEN 1 ELSE 0)
         /\ \A e \in Clock : AtMostOne(e)'
         /\ ~(Opens(lt) /\ started) => timer'["ADD_COIN"] = timer["ADD_COIN"]
         /\ Results(lt) = <<>> => timer'["RESET_ROOM"] = timer["RESET_ROOM"]
<1> DEFINE lt    == (leftTime - 1) % LEFT_TIME_MOD
           drops == IF Opens(lt) /\ started THEN 1 ELSE 0
           next  == IF ClockGoesOn /\ started THEN 1 ELSE 0
           over  == Results(lt)
           f     == timer["TICK"]
           r     == [f EXCEPT ![0] = @ - 1]
           g     == [r EXCEPT ![1] = @ + next]
           a     == timer["ADD_COIN"]
           h     == [a EXCEPT ![ADD_COIN_TIME] = @ + drops]
           q     == timer["RESET_ROOM"]
           p     == [q EXCEPT ![RESET_TIME] = @ + Resets(over)]
<1>1. timer' = [timer EXCEPT !["TICK"] = g, !["ADD_COIN"] = h, !["RESET_ROOM"] = p]
  BY DEF Tick, Ran, After
<1>2. f \in [Seconds -> Nat] /\ Single(f) /\ f[0] > 0
  BY TimerTables DEF Tick, Due, Inv, ClockInv, Clock, Event
<1>3. f[0] = 1 /\ r \in [Seconds -> Nat] /\ Empty(r)
  BY <1>2, RunTheSingle
<1>4. next \in {0, 1} /\ drops \in {0, 1}
  OBVIOUS
<1> HIDE DEF r
<1>5. g[0] = 0 /\ g[1] = next /\ Single(g)
  BY <1>3, <1>4, DelaysInRange DEF Empty, Single
<1>6. a \in [Seconds -> Nat] /\ Single(a) /\ q \in [Seconds -> Nat]
  BY TimerTables DEF Inv, ClockInv, Clock, Event
<1>7. drops = 0 => h = a
  BY <1>6, DelaysInRange, AddNothing
<1>8. Single(h)
  <2>1. CASE drops = 0
    BY <1>6, <1>7, <2>1
  <2>2. CASE drops = 1
    <3>1. started /\ ~roundStarted
      BY <2>2 DEF Opens
    <3>2. Empty(a)
      BY <3>1, TimerTables DEF Inv, ClockInv, PlayingInv, Playing, Event
    <3> QED
      BY <1>6, <2>2, <3>2, AddToEmpty, DelaysInRange
  <2> QED
    BY <1>4, <2>1, <2>2
<1>9. over = <<>> => p = q
  <2>1. over = <<>> => Resets(over) = 0
    BY EmptySeq DEF Resets
  <2> QED
    BY <1>6, <2>1, DelaysInRange, AddNothing
<1> HIDE DEF f, g, h, p, a, q, over, next, drops
<1>10. timer'["TICK"] = g /\ timer'["ADD_COIN"] = h /\ timer'["RESET_ROOM"] = p
  BY <1>1 DEF Inv, TypeOK, Event
<1>11. \A e \in Clock : AtMostOne(e)'
  BY <1>5, <1>8, <1>10 DEF Single, AtMostOne, Clock
<1> QED
  BY <1>3, <1>5, <1>7, <1>9, <1>10, <1>11 DEF Passed, f, next, a, q, drops, over

(* The time a tick of a match leaves. *)
LEMMA TickTime ==
  ASSUME Inv, ClockInv, Tick
  PROVE  /\ leftTime' = (leftTime - 1) % LEFT_TIME_MOD /\ leftTime' \in Int
         /\ Playing => leftTime' = leftTime - 1 /\ leftTime \in 1..MAX_LEFT_TIME
<1>1. leftTime' = (leftTime - 1) % LEFT_TIME_MOD /\ leftTime' \in Int
  BY TimeAssumption DEF Tick, Inv, TypeOK
<1>2. Playing => leftTime \in 1..MAX_LEFT_TIME
  BY DEF ClockInv, PlayingInv
<1>3. ASSUME leftTime \in 1..MAX_LEFT_TIME
      PROVE  (leftTime - 1) % LEFT_TIME_MOD = leftTime - 1
  BY <1>3, TimeAssumption
<1> QED
  BY <1>1, <1>2, <1>3

LEMMA ClockTick == ASSUME Inv, ClockInv, Tick PROVE ClockInv'
<1> DEFINE lt   == (leftTime - 1) % LEFT_TIME_MOD
           over == Results(lt)
<1>1. /\ leftTime' = lt /\ lt \in Int
      /\ Playing => lt = leftTime - 1 /\ leftTime \in 1..MAX_LEFT_TIME
  BY TickTime
<1>2. /\ timer'["TICK"][0] = 0
      /\ (timer'["TICK"][1] = IF ClockGoesOn /\ started THEN 1 ELSE 0)
      /\ \A e \in Clock : AtMostOne(e)'
      /\ ~(Opens(lt) /\ started) => timer'["ADD_COIN"] = timer["ADD_COIN"]
      /\ over = <<>> => timer'["RESET_ROOM"] = timer["RESET_ROOM"]
  BY TickTimers
<1>3. /\ started' = (started /\ over = <<>>)
      /\ results' = results \o over
      /\ roundStarted' = (roundStarted \/ Opens(lt))
  BY DEF Tick
<1>4. over = <<>> <=> ~(started /\ lt <= 0) /\ \A i \in Slot : ~Wins(i, lt)
  BY <1>1, NothingOver DEF Inv
<1>5. over \in Seq(Outcome) /\ results \in Seq(Outcome)
  BY <1>1, ResultsType DEF Inv, TypeOK
<1> HIDE DEF lt, over
<1>6. results' = <<>> <=> results = <<>> /\ over = <<>>
  BY <1>3, <1>5, ConcatProperties, EmptySeq
<1>7. ~Waiting
  BY DelaysInRange DEF Tick, Due, Free, ClockInv, WaitingInv, Event
<1>8. ~Waiting'
  <2>1. CASE started
    BY <1>3, <1>6, <2>1 DEF Waiting
  <2>2. CASE ~started
    BY <1>3, <1>6, <1>7, <2>2 DEF Waiting
  <2> QED
    BY <2>1, <2>2
<1>9. ASSUME Playing'
      PROVE  /\ leftTime' \in 1..MAX_LEFT_TIME
             /\ timer'["TICK"][0] + timer'["TICK"][1] = 1
             /\ ~roundStarted' => Free("ADD_COIN")'
             /\ Free("RESET_ROOM")'
             /\ results' = <<>>
  <2>1. Playing /\ over = <<>>
    BY <1>3, <1>9 DEF Playing
  <2>2. lt > 0 /\ lt = leftTime - 1 /\ leftTime \in 1..MAX_LEFT_TIME
    BY <1>1, <1>4, <2>1 DEF Playing
  <2>3. leftTime' \in 1..MAX_LEFT_TIME /\ ClockGoesOn
    BY <1>1, <2>2, TimeAssumption DEF ClockGoesOn
  <2>4. /\ ~roundStarted => Free("ADD_COIN")
        /\ Free("RESET_ROOM") /\ results = <<>>
    BY <2>1 DEF ClockInv, PlayingInv
  <2>5. Free("RESET_ROOM")'
    BY <1>2, <2>1, <2>4 DEF Free
  <2>6. ~roundStarted' => Free("ADD_COIN")'
    BY <1>2, <1>3, <2>4 DEF Free
  <2> QED
    BY <1>2, <1>6, <2>1, <2>3, <2>4, <2>5, <2>6 DEF Playing
<1> QED
  BY <1>2, <1>8, <1>9 DEF ClockInv, WaitingInv, PlayingInv

-----------------------------------------------------------------------------
LEMMA HeldInit == Init => HeldInv
BY GemAssumption DEF Init, HeldInv, Playing

LEMMA PassedType == TypeOK => Passed \in Nat
BY DelaysInRange DEF TypeOK, Passed, Event

(* Steps that move neither the clock nor gems nor claims. *)
LEMMA HeldFrame ==
  ASSUME HeldInv, UNCHANGED <<started, leftTime, coin, winSat, winTime, held, Passed>>
  PROVE  HeldInv'
BY DEF HeldInv, Playing, Ticks

(* A slot that loses its gems, for whatever reason, starts from nothing. *)
LEMMA HeldLost ==
  ASSUME Inv, HeldInv, UNCHANGED <<started, leftTime, Passed>>,
         \A i \in Slot :
           \/ coin'[i] = 0 /\ held'[i] = 0 /\ ~winSat'[i]
           \/ /\ coin'[i] = coin[i] /\ held'[i] = held[i]
              /\ winSat'[i] = winSat[i] /\ winTime'[i] = winTime[i]
  PROVE  HeldInv'
<1> SUFFICES ASSUME NEW i \in Slot
             PROVE  /\ coin'[i] < WIN_COIN_CNT => held'[i] = 0
                    /\ Playing' /\ ~winSat'[i] => held'[i] <= Passed'
                    /\ Playing' /\ winSat'[i] => /\ winTime'[i] < leftTime'
                                                 /\ held'[i] >= Ticks(i)' + Passed'
                                                 /\ held'[i] <= Ticks(i)' + Passed' + 1
  BY DEF HeldInv
<1>1. CASE coin'[i] = 0 /\ held'[i] = 0 /\ ~winSat'[i]
  BY <1>1, PassedType DEF Inv
<1>2. CASE /\ coin'[i] = coin[i] /\ held'[i] = held[i]
           /\ winSat'[i] = winSat[i] /\ winTime'[i] = winTime[i]
  BY <1>2 DEF HeldInv, Playing, Ticks
<1> QED
  BY <1>1, <1>2

LEMMA HeldDisconnect ==
  ASSUME Inv, HeldInv, NEW c \in Client, Disconnect(c) PROVE HeldInv'
<1>1. \A i \in Slot :
        \/ coin'[i] = 0 /\ held'[i] = 0 /\ ~winSat'[i]
        \/ /\ coin'[i] = coin[i] /\ held'[i] = held[i]
           /\ winSat'[i] = winSat[i] /\ winTime'[i] = winTime[i]
  BY DEF Disconnect, LeaveRoom, Initialize, Cleared
<1> QED
  BY <1>1, HeldLost DEF Disconnect, clockVars, Passed

LEMMA HeldRequestDie ==
  ASSUME Inv, HeldInv, NEW c \in Client, ProcRequestDie(c) PROVE HeldInv'
<1>1. \A i \in Slot :
        \/ coin'[i] = 0 /\ held'[i] = 0 /\ ~winSat'[i]
        \/ /\ coin'[i] = coin[i] /\ held'[i] = held[i]
           /\ winSat'[i] = winSat[i] /\ winTime'[i] = winTime[i]
  BY DEF ProcRequestDie, ClaimLost, Inv, TypeOK
<1> QED
  BY <1>1, HeldLost DEF ProcRequestDie, clockVars, Passed

LEMMA HeldGetCoin ==
  ASSUME Inv, HeldInv, NEW c \in Client, ProcGetCoin(c) PROVE HeldInv'
<1>1. \A i \in Slot : coin[i] \in Nat /\ coin'[i] \in {coin[i], coin[i] + 1}
  BY DEF ProcGetCoin, Inv, TypeOK
<1>2. \A i \in Slot : coin'[i] < WIN_COIN_CNT => coin[i] < WIN_COIN_CNT
  BY <1>1, GemAssumption
<1>3. UNCHANGED <<started, leftTime, winSat, winTime, held, Passed>>
  BY DEF ProcGetCoin, clockVars, historyVars, Passed
<1> QED
  BY <1>2, <1>3 DEF HeldInv, Playing, Ticks

LEMMA HeldProcReady ==
  ASSUME Inv, ClockInv, HeldInv, NEW c \in Client, ProcReady(c), ~Rematch
  PROVE  HeldInv'
<1>1. UNCHANGED <<clockVars, coin, winSat, winTime>>
  BY DEF ProcReady
<1>2. CASE UNCHANGED <<started, timer, historyVars>>
  BY <1>1, <1>2, HeldFrame DEF clockVars, historyVars, Passed
<1>3. CASE GameStart /\ ~started
  <2>1. \A i \in Slot : coin[i] = 0
    BY <1>3 DEF Rematch, GameStart, ClockInv, WaitingInv, Waiting
  <2>2. \A i \in Slot : ~winSat'[i]
    BY <1>1, <2>1, GemAssumption DEF Inv, SatisfiedHasCoins
  <2>3. \A i \in Slot : held'[i] = 0
    BY <1>3 DEF GameStart
  <2>4. TypeOK'
    BY ProcReadyType DEF Inv
  <2>5. Passed' \in Nat
    BY <2>4, DelaysInRange DEF TypeOK, Passed, Event
  <2> QED
    BY <2>2, <2>3, <2>5 DEF HeldInv
<1> QED
  BY <1>2, <1>3 DEF ProcReady

LEMMA HeldAddCoin == ASSUME Inv, HeldInv, AddCoin PROVE HeldInv'
<1>1. timer'["TICK"] = timer["TICK"]
  BY DEF AddCoin, Inv, TypeOK, Event
<1> QED
  BY <1>1, HeldFrame DEF AddCoin, playerVars, clockVars, historyVars, Passed

LEMMA HeldResetRoom == ASSUME Inv, ClockInv, HeldInv, ResetRoom PROVE HeldInv'
<1>1. ~Playing
  BY DelaysInRange DEF ResetRoom, Due, Free, ClockInv, PlayingInv
<1>2. UNCHANGED <<started, coin, held>>
  BY DEF ResetRoom, historyVars
<1> QED
  BY <1>1, <1>2 DEF HeldInv, Playing

LEMMA HeldElapse == ASSUME Inv, ClockInv, HeldInv, Elapse PROVE HeldInv'
<1>1. UNCHANGED <<started, leftTime, coin, winSat, winTime>>
  BY DEF Elapse, playerVars, clockVars
<1> SUFFICES ASSUME NEW i \in Slot
             PROVE  /\ coin[i] < WIN_COIN_CNT => held'[i] = 0
                    /\ Playing /\ ~winSat[i] => held'[i] <= Passed'
                    /\ Playing /\ winSat[i] => /\ winTime[i] < leftTime
                                               /\ held'[i] >= Ticks(i) + Passed'
                                               /\ held'[i] <= Ticks(i) + Passed' + 1
  BY <1>1 DEF HeldInv, Playing, Ticks
<1>2. /\ coin[i] \in Nat /\ held[i] \in 0..HeldCap /\ winTime[i] \in Int
      /\ leftTime \in Int /\ NEED_TIME_TO_WIN \in Nat /\ WIN_COIN_CNT \in Nat
  BY TimeAssumption, GemAssumption DEF Inv, TypeOK
<1>3. held'[i] = IF started /\ coin[i] >= WIN_COIN_CNT /\ held[i] < HeldCap
                 THEN held[i] + 1 ELSE held[i]
  BY DEF Elapse
<1>4. coin[i] < WIN_COIN_CNT => held[i] = 0
  BY DEF HeldInv
<1>5. CASE ~Playing
  BY <1>2, <1>3, <1>4, <1>5 DEF Playing
<1>6. CASE Playing
  <2>1. Passed = 0 /\ Passed' = 1
    BY <1>6, ElapseTick
  <2>2. ~winSat[i] => held[i] <= 0
    BY <1>6, <2>1 DEF HeldInv
  <2>3. winSat[i] => /\ winTime[i] < leftTime
                     /\ held[i] >= winTime[i] + NEED_TIME_TO_WIN - leftTime + 0
                     /\ held[i] <= winTime[i] + NEED_TIME_TO_WIN - leftTime + 0 + 1
    BY <1>6, <2>1 DEF HeldInv, Ticks
  <2>4. winSat[i] => coin[i] >= WIN_COIN_CNT
    BY DEF Inv, SatisfiedHasCoins
  <2>5. winSat[i] => held'[i] = held[i] + 1
    BY <1>2, <1>3, <1>6, <2>3, <2>4 DEF Playing, HeldCap
  <2>6. coin[i] < WIN_COIN_CNT => held'[i] = 0
    BY <1>2, <1>3, <1>4
  <2>7. ~winSat[i] => held'[i] <= 1
    BY <1>2, <1>3, <2>2
  <2> QED
    BY <1>2, <2>1, <2>3, <2>5, <2>6, <2>7 DEF Ticks
<1> QED
  BY <1>5, <1>6

(* A player for whom GameOver is called has counted down for all the time,  *)
(* and each second of it is in the history.                                 *)
LEMMA WinnerHasHeld ==
  ASSUME Inv, ClockInv, HeldInv, Tick, NEW i \in Slot, Wins(i, leftTime')
  PROVE  held[i] >= NEED_TIME_TO_WIN
<1>1. Playing /\ leftTime' = leftTime - 1 /\ leftTime \in Int
  BY TickTime DEF Wins, Playing
<1>2. winSat[i] \in BOOLEAN /\ winTime[i] \in Int /\ held[i] \in Nat
  BY TimeAssumption DEF Inv, TypeOK, HeldCap
<1>3. NEED_TIME_TO_WIN \in Nat \ {0}
  BY TimeAssumption
<1>4. ~Satisfies(i)
  BY <1>1, <1>3 DEF Wins, WinTime
<1>5. winSat[i] /\ winTime[i] >= leftTime - 1
  BY <1>1, <1>4 DEF Wins, WinTime
<1>6. Passed = 1
  BY TickTimers
<1>7. held[i] >= winTime[i] + NEED_TIME_TO_WIN - leftTime + 1
  BY <1>1, <1>5, <1>6 DEF HeldInv, Ticks
<1> QED
  BY <1>1, <1>2, <1>3, <1>5, <1>7

LEMMA HeldTick == ASSUME Inv, ClockInv, HeldInv, Tick PROVE HeldInv'
<1>1. /\ leftTime' = (leftTime - 1) % LEFT_TIME_MOD /\ leftTime' \in Int
      /\ Playing => leftTime' = leftTime - 1 /\ leftTime \in 1..MAX_LEFT_TIME
  BY TickTime
<1>2. /\ started' = (started /\ Results(leftTime') = <<>>)
      /\ winSat' = [i \in Slot |-> winSat[i] \/ Satisfies(i)]
      /\ winTime' = [i \in Slot |-> WinTime(i, leftTime')]
      /\ UNCHANGED <<coin, held>>
  BY <1>1 DEF Tick
<1>3. Passed = 1 /\ Passed' = 0
  BY TickTimers DEF Passed
<1>4. ASSUME NEW i \in Slot, Playing'
      PROVE  /\ ~winSat'[i] => held[i] <= 0
             /\ winSat'[i] => /\ winTime'[i] < leftTime'
                              /\ held[i] >= winTime'[i] + NEED_TIME_TO_WIN - leftTime'
                              /\ held[i] <= winTime'[i] + NEED_TIME_TO_WIN - leftTime' + 1
  <2>1. /\ coin[i] \in Nat /\ held[i] \in Nat /\ winTime[i] \in Int
        /\ NEED_TIME_TO_WIN \in Nat \ {0} /\ WIN_COIN_CNT \in Nat
        /\ MAX_LEFT_TIME \in Nat
    BY TimeAssumption, GemAssumption DEF Inv, TypeOK, HeldCap
  <2>2. Playing /\ started /\ ~Wins(i, leftTime')
    BY <1>1, <1>2, <1>4, NothingOver DEF Playing, Inv
  <2>3. leftTime' = leftTime - 1 /\ leftTime \in Int
    BY <1>1, <2>1, <2>2
  <2>4. /\ coin[i] < WIN_COIN_CNT => held[i] = 0
        /\ ~winSat[i] => held[i] <= 1
        /\ winSat[i] => /\ winTime[i] < leftTime
                        /\ held[i] >= winTime[i] + NEED_TIME_TO_WIN - leftTime + 1
                        /\ held[i] <= winTime[i] + NEED_TIME_TO_WIN - leftTime + 1 + 1
    BY <1>3, <2>2 DEF HeldInv, Ticks
  <2>5. /\ winSat'[i] <=> winSat[i] \/ Satisfies(i)
        /\ winTime'[i] = WinTime(i, leftTime')
    BY <1>2
  <2>6. CASE winSat[i]
    <3>1. winTime'[i] = winTime[i] /\ winTime[i] < leftTime'
      BY <2>1, <2>2, <2>3, <2>5, <2>6 DEF Wins, WinTime, Satisfies
    <3> QED
      BY <2>1, <2>3, <2>4, <2>5, <2>6, <3>1
  <2>7. CASE ~winSat[i] /\ coin[i] >= WIN_COIN_CNT
    <3>1. winSat'[i] /\ winTime'[i] = leftTime' - NEED_TIME_TO_WIN
      BY <2>2, <2>5, <2>7 DEF WinTime, Satisfies
    <3> QED
      BY <2>1, <2>3, <2>4, <2>5, <2>7, <3>1
  <2>8. CASE ~winSat[i] /\ coin[i] < WIN_COIN_CNT
    <3>1. ~winSat'[i]
      BY <2>1, <2>5, <2>8 DEF Satisfies
    <3> QED
      BY <2>1, <2>4, <2>8, <3>1
  <2> QED
    BY <2>1, <2>6, <2>7, <2>8
<1>5. ASSUME NEW i \in Slot
      PROVE  /\ coin'[i] < WIN_COIN_CNT => held'[i] = 0
             /\ Playing' /\ ~winSat'[i] => held'[i] <= Passed'
             /\ Playing' /\ winSat'[i] =>
                  /\ winTime'[i] < leftTime'
                  /\ held'[i] >= winTime'[i] + NEED_TIME_TO_WIN - leftTime' + Passed'
                  /\ held'[i] <= winTime'[i] + NEED_TIME_TO_WIN - leftTime' + Passed' + 1
  <2>1. coin'[i] < WIN_COIN_CNT => held'[i] = 0
    BY <1>2 DEF HeldInv
  <2>2. winTime'[i] \in Int /\ NEED_TIME_TO_WIN \in Nat
    BY TickType, TimeAssumption DEF Inv, TypeOK
  <2> QED
    BY <1>1, <1>2, <1>3, <1>4, <2>1, <2>2
<1> QED
  BY <1>5 DEF HeldInv, Ticks

(* A tick adds the draw and the winners to the history, and nothing else. *)
LEMMA ResultsAre ==
  ASSUME NEW lt
  PROVE  /\ Results(lt) \in Seq([winner : {Draw} \cup {id[i] : i \in Slot},
                                 held : {0} \cup {held[i] : i \in Slot}])
         /\ \A k \in 1..Len(Results(lt)) :
              \/ Results(lt)[k] = [winner |-> Draw, held |-> 0]
              \/ \E i \in Slot : Wins(i, lt) /\ Results(lt)[k] = Result(i)
<1> DEFINE draw == [winner |-> Draw, held |-> 0]
           R == [winner : {Draw} \cup {id[i] : i \in Slot},
                 held : {0} \cup {held[i] : i \in Slot}]
           P(x) == x = draw \/ \E i \in Slot : Wins(i, lt) /\ x = Result(i)
           S == {x \in R : P(x)}
           d == IF started /\ lt <= 0 THEN <<draw>> ELSE <<>>
           a == IF Wins(0, lt) THEN <<Result(0)>> ELSE <<>>
           b == IF Wins(1, lt) THEN <<Result(1)>> ELSE <<>>
<1>1. draw \in S /\ \A i \in Slot : Wins(i, lt) => Result(i) \in S
  BY DEF Result
<1>2. <<>> \in Seq(S) /\ \A x \in S : <<x>> \in Seq(S)
  BY EmptySeq
<1>3. S \subseteq R /\ \A x \in S : P(x)
  OBVIOUS
<1> HIDE DEF S, draw
<1>4. d \in Seq(S)
  BY <1>1, <1>2
<1>5. a \in Seq(S) /\ b \in Seq(S)
  BY <1>1, <1>2 DEF Slot
<1>6. Results(lt) = d \o a \o b
  BY DEF Results, draw
<1>7. \A x, y \in Seq(S) : x \o y \in Seq(S)
  BY ConcatProperties
<1> HIDE DEF d, a, b
<1>8. d \o a \in Seq(S)
  BY <1>4, <1>5, <1>7
<1>9. Results(lt) \in Seq(S)
  BY <1>5, <1>6, <1>7, <1>8
<1>10. \A k \in 1..Len(Results(lt)) : Results(lt)[k] \in S
  BY <1>9, ElementOfSeq
<1> HIDE DEF R, P
<1>11. Results(lt) \in Seq(R)
  BY <1>3, <1>9, SeqMonotonic
<1>12. \A k \in 1..Len(Results(lt)) : P(Results(lt)[k])
  BY <1>3, <1>10
<1> QED
  BY <1>11, <1>12 DEF R, P, draw

LEMMA ResultsHeld ==
  ASSUME Inv, ClockInv, HeldInv, Tick
  PROVE  /\ Results(leftTime') \in Seq(Outcome)
         /\ \A k \in 1..Len(Results(leftTime')) :
              Results(leftTime')[k].winner # Draw
                => Results(leftTime')[k].held >= NEED_TIME_TO_WIN
<1>1. Results(leftTime') \in Seq(Outcome)
  BY TickTime, ResultsType DEF Inv
<1> SUFFICES ASSUME NEW k \in 1..Len(Results(leftTime')),
                    Results(leftTime')[k].winner # Draw
             PROVE  Results(leftTime')[k].held >= NEED_TIME_TO_WIN
  BY <1>1
<1> DEFINE over == Results(leftTime')
<1>2. \/ over[k] = [winner |-> Draw, held |-> 0]
      \/ \E i \in Slot : Wins(i, leftTime') /\ over[k] = Result(i)
  BY ResultsAre
<1>3. PICK i \in Slot : Wins(i, leftTime') /\ over[k] = Result(i)
  BY <1>2
<1> QED
  BY <1>3, WinnerHasHeld DEF Result

LEMMA WinnerHeldTick ==
  ASSUME Inv, ClockInv, HeldInv, WinnerHeld, Tick PROVE WinnerHeld'
<1> DEFINE over == Results(leftTime')
<1>1. results' = results \o over
  BY TickTime DEF Tick
<1>2. /\ over \in Seq(Outcome)
      /\ \A k \in 1..Len(over) :
           over[k].winner # Draw => over[k].held >= NEED_TIME_TO_WIN
  BY ResultsHeld
<1>3. results \in Seq(Outcome)
  BY DEF Inv, TypeOK
<1> HIDE DEF over
<1>4. Len(results) \in Nat /\ Len(over) \in Nat
  BY <1>2, <1>3, LenProperties
<1>5. /\ Len(results') = Len(results) + Len(over)
      /\ \A k \in 1..(Len(results) + Len(over)) :
           results'[k] = IF k <= Len(results) THEN results[k]
                         ELSE over[k - Len(results)]
  BY <1>1, <1>2, <1>3, ConcatProperties
<1> SUFFICES ASSUME NEW k \in 1..(Len(results) + Len(over)),
                    results'[k].winner # Draw
             PROVE  results'[k].held >= NEED_TIME_TO_WIN
  BY <1>5 DEF WinnerHeld
<1>6. CASE k <= Len(results)
  BY <1>4, <1>5, <1>6 DEF WinnerHeld
<1>7. CASE ~(k <= Len(results))
  <2>1. k - Len(results) \in 1..Len(over)
    BY <1>4, <1>7
  <2> QED
    BY <1>2, <1>5, <1>7, <2>1
<1> QED
  BY <1>6, <1>7

-----------------------------------------------------------------------------
LEMMA RulesInit == Init => RulesInv
<1>1. Init => WinnerHeld
  BY EmptySeq DEF Init, WinnerHeld
<1> QED
  BY <1>1, InvInit, ClockInit, HeldInit DEF RulesInv

(* Steps that touch neither clock, gems, claims nor history. *)
LEMMA RulesFrame ==
  ASSUME RulesInv, Inv',
         UNCHANGED <<started, clockVars, coin, winSat, winTime, timer, historyVars>>
  PROVE  RulesInv'
<1>1. ClockInv'
  BY ClockFrame DEF RulesInv, historyVars
<1>2. HeldInv'
  BY HeldFrame DEF RulesInv, clockVars, historyVars, Passed
<1>3. WinnerHeld'
  BY DEF RulesInv, WinnerHeld, historyVars
<1> QED
  BY <1>1, <1>2, <1>3 DEF RulesInv

LEMMA RulesNext == RulesInv /\ [Next]_vars /\ [~Rematch]_vars => RulesInv'
<1> SUFFICES ASSUME RulesInv, [Next]_vars, [~Rematch]_vars PROVE RulesInv'
  OBVIOUS
<1>1. Inv'
  BY InvNext DEF RulesInv
<1>2. ASSUME NEW c \in Client, ClientStep(c) PROVE RulesInv'
  <2>1. CASE Join(c)
    BY <1>1, <2>1, RulesFrame DEF Join
  <2>2. CASE CallErasedRoom(c)
    BY <1>1, <2>2, RulesFrame DEF CallErasedRoom, playerVars
  <2>3. CASE SendReady(c) \/ Die(c) \/ \E g \in Gem : PickUp(c, g)
    BY <1>1, <2>3, RulesFrame DEF SendReady, Die, PickUp, Send, playerVars
  <2>4. CASE Disconnect(c)
    BY <1>1, <2>4, ClockDisconnect, HeldDisconnect
    DEF RulesInv, WinnerHeld, Disconnect
  <2> QED
    BY <1>2, <2>1, <2>2, <2>3, <2>4 DEF ClientStep
<1>3. ASSUME NEW c \in Client, ProcMsg(c) PROVE RulesInv'
  <2>1. CASE ProcReady(c)
    <3>1. CASE UNCHANGED vars
      BY <3>1, <1>1, RulesFrame DEF vars, playerVars
    <3>2. CASE ~Rematch
      <4>1. results' \in {results, <<>>}
        BY <2>1 DEF ProcReady, GameStart, historyVars
      <4>2. WinnerHeld'
        BY <4>1, EmptySeq DEF RulesInv, WinnerHeld
      <4> QED
        BY <1>1, <2>1, <3>2, <4>2, ClockProcReady, HeldProcReady DEF RulesInv
    <3> QED
      BY <3>1, <3>2
  <2>2. CASE ProcGetCoin(c)
    BY <1>1, <2>2, ClockGetCoin, HeldGetCoin
    DEF RulesInv, WinnerHeld, ProcGetCoin, historyVars
  <2>3. CASE ProcRequestDie(c)
    BY <1>1, <2>3, ClockRequestDie, HeldRequestDie
    DEF RulesInv, WinnerHeld, ProcRequestDie
  <2>4. CASE DropRequestDie(c)
    BY <1>1, <2>4, RulesFrame DEF DropRequestDie, playerVars
  <2> QED
    BY <1>3, <2>1, <2>2, <2>3, <2>4 DEF ProcMsg
<1>4. CASE Tick
  BY <1>1, <1>4, ClockTick, HeldTick, WinnerHeldTick DEF RulesInv
<1>5. CASE AddCoin
  BY <1>1, <1>5, ClockAddCoin, HeldAddCoin DEF RulesInv, WinnerHeld, AddCoin, historyVars
<1>6. CASE ResetRoom
  BY <1>1, <1>6, ClockResetRoom, HeldResetRoom
  DEF RulesInv, WinnerHeld, ResetRoom, historyVars
<1>7. CASE Elapse
  BY <1>1, <1>7, ClockElapse, HeldElapse DEF RulesInv, WinnerHeld, Elapse
<1>8. CASE UNCHANGED vars
  BY <1>1, <1>8, RulesFrame DEF vars, playerVars
<1> QED
  BY <1>2, <1>3, <1>4, <1>5, <1>6, <1>7, <1>8 DEF Next, TimerEvent

(* RulesInv is an inductive invariant of a room until a rematch. *)
THEOREM RulesInvCorrect == Spec /\ OneMatch => []RulesInv
BY RulesInit, RulesNext, PTL DEF Spec, OneMatch

(* A match has one clock and one chest: no stale tick or gem timer meets it, *)
(* and the clock does not stop while it is on.                               *)
THEOREM OneClockCorrect == Spec /\ OneMatch => []OneClock
<1>1. RulesInv => OneClock
  BY DEF RulesInv, ClockInv, PlayingInv, Playing, Clock, OneClock
<1> QED
  BY <1>1, RulesInvCorrect, PTL

(* Nobody wins without having held the gems for the time the rules ask,      *)
(* whatever deaths and disconnects come between gems, ticks and seconds.     *)
THEOREM WinnerHeldCorrect == Spec /\ OneMatch => []WinnerHeld
<1>1. RulesInv => WinnerHeld
  BY DEF RulesInv
<1> QED
  BY <1>1, RulesInvCorrect, PTL

(* Whoever holds the gems for that time has won a second later at most.      *)
THEOREM HolderWinsCorrect == Spec /\ OneMatch => []HolderWins
<1>1. ASSUME RulesInv, started, NEW i \in Slot
      PROVE  held[i] <= NEED_TIME_TO_WIN + 1
  <2>1. Passed \in {0, 1}
    BY <1>1, PassedType, DelaysInRange
    DEF RulesInv, Inv, ClockInv, Clock, AtMostOne, Passed
  <2>2. /\ ~winSat[i] => held[i] <= Passed
        /\ winSat[i] => /\ winTime[i] < leftTime
                        /\ held[i] <= winTime[i] + NEED_TIME_TO_WIN - leftTime + Passed + 1
    BY <1>1 DEF RulesInv, HeldInv, Playing, Ticks
  <2>3. /\ held[i] \in Nat /\ winTime[i] \in Int /\ leftTime \in Int
        /\ NEED_TIME_TO_WIN \in Nat
    BY <1>1, TimeAssumption DEF RulesInv, Inv, TypeOK, HeldCap
  <2> QED
    BY <2>1, <2>2, <2>3
<1>2. RulesInv => HolderWins
  BY <1>1 DEF HolderWins
<1> QED
  BY <1>2, RulesInvCorrect, PTL

-----------------------------------------------------------------------------
(* A client is in one slot at most, and joins once. *)
IdInv == /\ \A i, j \in Slot : id[i] = id[j] /\ id[i] # NoId => i = j
         /\ \A c \in Client : at[c] = "matched" => ~InRoom(c)

LEMMA IdInit == Init => IdInv
BY ClientAssumption DEF Init, IdInv, InRoom

LEMMA IdJoin == ASSUME TypeOK, IdInv, NEW c \in Client, Join(c) PROVE IdInv'
<1>1. /\ at[c] = "matched" /\ at' = [at EXCEPT ![c] = "joined"]
      /\ UNCHANGED id \/ \E i \in Slot : id' = [id EXCEPT ![i] = c]
  BY DEF Join, EnterRoom
<1>2. ~InRoom(c)
  BY <1>1 DEF IdInv
<1>3. \A d \in Client : at'[d] = "matched" => at[d] = "matched" /\ d # c
  BY <1>1 DEF TypeOK
<1>4. CASE UNCHANGED id
  BY <1>3, <1>4 DEF IdInv, InRoom
<1>5. ASSUME NEW i \in Slot, id' = [id EXCEPT ![i] = c] PROVE IdInv'
  <2>1. \A j \in Slot : id'[j] = IF j = i THEN c ELSE id[j]
    BY <1>5 DEF TypeOK
  <2>2. \A j \in Slot : id[j] # c
    BY <1>2 DEF InRoom
  <2>3. \A j, k \in Slot : id'[j] = id'[k] /\ id'[j] # NoId => j = k
    BY <2>1, <2>2 DEF IdInv
  <2> QED
    BY <1>3, <2>1, <2>3 DEF IdInv, InRoom
<1> QED
  BY <1>1, <1>4, <1>5

LEMMA IdDisconnect == ASSUME TypeOK, IdInv, NEW c \in Client, Disconnect(c) PROVE IdInv'
<1>1. id' = Cleared(c, id, NoId) /\ at' = [at EXCEPT ![c] = "gone"]
  BY DEF Disconnect, LeaveRoom, Initialize
<1>2. \A i \in Slot : id'[i] = IF id[i] = c THEN NoId ELSE id[i]
  BY <1>1 DEF Cleared
<1>3. \A d \in Client : at'[d] = "matched" => at[d] = "matched"
  BY <1>1 DEF TypeOK
<1> QED
  BY <1>2, <1>3, ClientAssumption DEF IdInv, InRoom

LEMMA IdNext == TypeOK /\ IdInv /\ [Next]_vars => IdInv'
<1> SUFFICES ASSUME TypeOK, IdInv, [Next]_vars PROVE IdInv'
  OBVIOUS
<1>1. UNCHANGED <<id, at>> \/ \E c \in Client : Join(c) \/ Disconnect(c)
  BY DEF Next, ClientStep, ProcMsg, TimerEvent, CallErasedRoom, SendReady, Die,
         PickUp, Send, ProcReady, ProcGetCoin, ProcRequestDie, DropRequestDie,
         Tick, AddCoin, ResetRoom, Elapse, vars, clientVars, playerVars
<1>2. CASE UNCHANGED <<id, at>>
  BY <1>2 DEF IdInv, InRoom
<1> QED
  BY <1>1, <1>2, IdJoin, IdDisconnect

-----------------------------------------------------------------------------
(* The refinement mapping of MatchRules, by name. *)
SlotHold(f, h, c) == IF \E i \in Slot : f[i] = c
                     THEN h[CHOOSE i \in Slot : f[i] = c] ELSE 0

Phase    == IF started THEN "playing"
            ELSE IF results = <<>> THEN "waiting" ELSE "over"
Rich     == {c \in Client : \E i \in Slot : /\ id[i] = c
                                            /\ coin[i] >= WIN_COIN_CNT}
Hold     == [c \in Client |-> SlotHold(id, held, c)]
Outcomes == {results[k].winner : k \in 1..Len(results)}

LEMMA SlotHoldIs ==
  ASSUME NEW f, NEW h, NEW c, NEW i \in Slot, f[i] = c,
         \A j \in Slot : f[j] = c => j = i
  PROVE  SlotHold(f, h, c) = h[i]
BY DEF SlotHold

LEMMA HoldOf ==
  ASSUME IdInv
  PROVE  \A c \in Client :
           /\ \A i \in Slot : id[i] = c => Hold[c] = held[i]
           /\ ~InRoom(c) => Hold[c] = 0
<1>1. ASSUME NEW c \in Client, NEW i \in Slot, id[i] = c PROVE Hold[c] = held[i]
  <2>1. \A j \in Slot : id[j] = c => j = i
    BY <1>1, ClientAssumption DEF IdInv
  <2> QED
    BY <1>1, <2>1, SlotHoldIs DEF Hold
<1>2. ASSUME NEW c \in Client, ~InRoom(c) PROVE Hold[c] = 0
  BY <1>2 DEF InRoom, Hold, SlotHold
<1> QED
  BY <1>1, <1>2

LEMMA HoldOfNext ==
  ASSUME IdInv'
  PROVE  \A c \in Client :
           /\ \A i \in Slot : id'[i] = c => Hold'[c] = held'[i]
           /\ ~InRoom(c)' => Hold'[c] = 0
<1>1. ASSUME NEW c \in Client, NEW i \in Slot, id'[i] = c PROVE Hold'[c] = held'[i]
  <2>1. \A j \in Slot : id'[j] = c => j = i
    BY <1>1, ClientAssumption DEF IdInv
  <2> QED
    BY <1>1, <2>1, SlotHoldIs DEF Hold
<1>2. ASSUME NEW c \in Client, ~InRoom(c)' PROVE Hold'[c] = 0
  BY <1>2 DEF InRoom, Hold, SlotHold
<1> QED
  BY <1>1, <1>2

LEMMA RulesStutter ==
  ASSUME UNCHANGED <<Phase, Rich, Hold, Outcomes>> PROVE UNCHANGED Rules!vars
BY DEF Phase, Rich, Hold, Outcomes, SlotHold, InRoom, Rules!vars

LEMMA RulesLose ==
  ASSUME NEW c \in Client, UNCHANGED <<Phase, Outcomes>>,
         Rich' = Rich \ {c}, Hold' = [Hold EXCEPT ![c] = 0]
  PROVE  Rules!Next
<1>1. Rules!Lose(c)
  BY DEF Phase, Rich, Hold, Outcomes, SlotHold, InRoom, Rules!Lose
<1> QED
  BY <1>1 DEF Rules!Next

LEMMA RulesGain ==
  ASSUME NEW c \in Client, Phase = "playing", UNCHANGED <<Phase, Hold, Outcomes>>,
         Rich' = Rich \cup {c}
  PROVE  Rules!Next
<1>1. Rules!Gain(c)
  BY DEF Phase, Rich, Hold, Outcomes, SlotHold, InRoom, Rules!Gain
<1> QED
  BY <1>1 DEF Rules!Next

LEMMA RulesStart ==
  ASSUME Phase # "playing", Phase' = "playing", Rich = {}, Rich' = {},
         Hold' = [c \in Client |-> 0], Outcomes' = {}
  PROVE  Rules!Next
<1>1. Rules!Start
  BY DEF Phase, Rich, Hold, Outcomes, SlotHold, InRoom, Rules!Start
<1> QED
  BY <1>1 DEF Rules!Next

LEMMA RulesSecond ==
  ASSUME Phase = "playing", UNCHANGED <<Phase, Rich, Outcomes>>,
         \A c \in Rich : Hold[c] <= NEED_TIME_TO_WIN,
         Hold' = [c \in Client |-> IF c \in Rich THEN Hold[c] + 1 ELSE Hold[c]]
  PROVE  Rules!Next
<1>1. Rules!Second
  BY DEF Phase, Rich, Hold, Outcomes, SlotHold, InRoom, Rules!Second
<1> QED
  BY <1>1 DEF Rules!Next

LEMMA RulesEnd ==
  ASSUME Phase = "playing", Phase' = "over", UNCHANGED <<Rich, Hold>>,
         Outcomes' # {},
         \A w \in Outcomes' : w = Draw \/ (w \in Rich /\ Hold[w] >= NEED_TIME_TO_WIN)
  PROVE  Rules!Next
<1>1. Outcomes' \in SUBSET ({c \in Rich : Hold[c] >= NEED_TIME_TO_WIN} \cup {Draw})
  OBVIOUS
<1>2. Rules!End
  BY <1>1 DEF Phase, Rich, Hold, Outcomes, SlotHold, InRoom, Rules!End
<1> QED
  BY <1>2 DEF Rules!Next

-----------------------------------------------------------------------------
(* Each step of the room is a step of the rules or none. *)
Abstract == Rules!Next \/ UNCHANGED Rules!vars

LEMMA StepSame ==
  ASSUME UNCHANGED <<started, results, id, coin, held>> PROVE Abstract
BY RulesStutter DEF Phase, Rich, Hold, SlotHold, Outcomes, Abstract

LEMMA StepJoin ==
  ASSUME RulesInv, IdInv, IdInv', NEW c \in Client, Join(c) PROVE Abstract
<1>1. UNCHANGED <<started, results, coin, held>>
  BY DEF Join, historyVars
<1>2. CASE UNCHANGED id
  BY <1>1, <1>2, StepSame
<1>3. ASSUME NEW i \in Slot, id[i] = NoId, id' = [id EXCEPT ![i] = c]
      PROVE  Abstract
  <2>1. \A j \in Slot : id'[j] = IF j = i THEN c ELSE id[j]
    BY <1>3 DEF RulesInv, Inv, TypeOK
  <2>2. coin[i] = 0 /\ ~(coin[i] >= WIN_COIN_CNT)
    BY <1>3, GemAssumption DEF RulesInv, Inv, FreeSlotIsBlank
  <2>3. held[i] = 0
    BY <2>2, GemAssumption DEF RulesInv, HeldInv
  <2>4. ~InRoom(c)
    BY DEF Join, IdInv
  <2>5. Rich' = Rich
    BY <1>1, <1>3, <2>1, <2>2, ClientAssumption DEF Rich
  <2>6. ASSUME NEW d \in Client PROVE Hold'[d] = Hold[d]
    <3>1. CASE d = c
      BY <1>1, <2>1, <2>3, <2>4, <3>1, HoldOf, HoldOfNext
    <3>2. CASE d # c /\ InRoom(d)
      <4>1. PICK j \in Slot : id[j] = d
        BY <3>2 DEF InRoom
      <4>2. id'[j] = d
        BY <1>3, <2>1, <4>1, ClientAssumption
      <4> QED
        BY <1>1, <4>1, <4>2, HoldOf, HoldOfNext
    <3>3. CASE d # c /\ ~InRoom(d)
      <4>1. ~InRoom(d)'
        BY <2>1, <3>3 DEF InRoom
      <4> QED
        BY <3>3, <4>1, HoldOf, HoldOfNext
    <3> QED
      BY <3>1, <3>2, <3>3
  <2>7. Hold' = Hold
    BY <2>6 DEF Hold
  <2> QED
    BY <1>1, <2>5, <2>7, RulesStutter DEF Phase, Outcomes, Abstract
<1>4. UNCHANGED id \/ \E i \in Slot : id[i] = NoId /\ id' = [id EXCEPT ![i] = c]
  BY DEF Join, EnterRoom
<1> QED
  BY <1>2, <1>3, <1>4

(* Death and disconnect take gems and seconds from the one they happen to.  *)
LEMMA StepLose ==
  ASSUME IdInv, IdInv', UNCHANGED <<started, results>>, NEW c \in Client,
         \A i \in Slot :
           IF id[i] = c
           THEN id'[i] \in {c, NoId} /\ coin'[i] = 0 /\ held'[i] = 0
           ELSE id'[i] = id[i] /\ coin'[i] = coin[i] /\ held'[i] = held[i]
  PROVE  Rules!Next
<1>1. Rich' = Rich \ {c}
  <2>1. \A i \in Slot : id'[i] = c => coin'[i] = 0
    OBVIOUS
  <2>2. c \notin Rich'
    BY <2>1, GemAssumption DEF Rich
  <2>3. ASSUME NEW d \in Client, d # c PROVE d \in Rich' <=> d \in Rich
    <3>1. \A i \in Slot : id'[i] = d <=> id[i] = d
      BY <2>3, ClientAssumption
    <3>2. \A i \in Slot : id[i] = d => coin'[i] = coin[i]
      BY <2>3
    <3> QED
      BY <3>1, <3>2 DEF Rich
  <2> QED
    BY <2>2, <2>3 DEF Rich
<1>2. Hold' = [Hold EXCEPT ![c] = 0]
  <2>1. Hold'[c] = 0
    <3>1. CASE InRoom(c)'
      <4>1. PICK i \in Slot : id'[i] = c
        BY <3>1 DEF InRoom
      <4> QED
        BY <4>1, HoldOfNext
    <3>2. CASE ~InRoom(c)'
      BY <3>2, HoldOfNext
    <3> QED
      BY <3>1, <3>2
  <2>2. ASSUME NEW d \in Client, d # c PROVE Hold'[d] = Hold[d]
    <3>1. \A i \in Slot : id'[i] = d <=> id[i] = d
      BY <2>2, ClientAssumption
    <3>2. CASE InRoom(d)
      <4>1. PICK i \in Slot : id[i] = d
        BY <3>2 DEF InRoom
      <4> QED
        BY <2>2, <3>1, <4>1, HoldOf, HoldOfNext
    <3>3. CASE ~InRoom(d)
      <4>1. ~InRoom(d)'
        BY <3>1, <3>3 DEF InRoom
      <4> QED
        BY <3>3, <4>1, HoldOf, HoldOfNext
    <3> QED
      BY <3>2, <3>3
  <2> QED
    BY <2>1, <2>2 DEF Hold
<1> QED
  BY <1>1, <1>2, RulesLose DEF Phase, Outcomes

LEMMA StepDisconnect ==
  ASSUME IdInv, IdInv', NEW c \in Client, Disconnect(c) PROVE Abstract
<1>1. \A i \in Slot :
        IF id[i] = c
        THEN id'[i] \in {c, NoId} /\ coin'[i] = 0 /\ held'[i] = 0
        ELSE id'[i] = id[i] /\ coin'[i] = coin[i] /\ held'[i] = held[i]
  BY DEF Disconnect, LeaveRoom, Initialize, Cleared
<1> QED
  BY <1>1, StepLose DEF Disconnect, Abstract

LEMMA StepRequestDie ==
  ASSUME TypeOK, IdInv, IdInv', NEW c \in Client, ProcRequestDie(c) PROVE Abstract
<1>1. PICK i \in Slot : /\ id[i] = c
                        /\ coin' = [coin EXCEPT ![i] = 0]
                        /\ held' = [held EXCEPT ![i] = 0]
  BY DEF ProcRequestDie
<1>2. \A j \in Slot : id[j] = c => j = i
  BY <1>1, ClientAssumption DEF IdInv
<1>3. \A j \in Slot :
        IF id[j] = c
        THEN id'[j] \in {c, NoId} /\ coin'[j] = 0 /\ held'[j] = 0
        ELSE id'[j] = id[j] /\ coin'[j] = coin[j] /\ held'[j] = held[j]
  BY <1>1, <1>2 DEF TypeOK, ProcRequestDie
<1> QED
  BY <1>3, StepLose DEF ProcRequestDie, Abstract

LEMMA StepGetCoin ==
  ASSUME TypeOK, IdInv, NEW c \in Client, ProcGetCoin(c) PROVE Abstract
<1>1. UNCHANGED <<started, results, id, held>>
  BY DEF ProcGetCoin, historyVars
<1>2. UNCHANGED <<Phase, Hold, Outcomes>>
  BY <1>1 DEF Phase, Hold, SlotHold, Outcomes
<1>3. CASE UNCHANGED coin
  BY <1>1, <1>3, StepSame
<1>4. CASE /\ started /\ InRoom(c)
           /\ coin' = [i \in Slot |-> IF id[i] = c THEN coin[i] + 1 ELSE coin[i]]
  <2>1. PICK i \in Slot : id[i] = c
    BY <1>4 DEF InRoom
  <2>2. \A j \in Slot : coin'[j] = IF j = i THEN coin[j] + 1 ELSE coin[j]
    BY <1>4, <2>1, ClientAssumption DEF IdInv
  <2>3. coin[i] \in Nat /\ WIN_COIN_CNT \in Nat
    BY GemAssumption DEF TypeOK
  <2>4. \A d \in Client : d # c => (d \in Rich' <=> d \in Rich)
    BY <1>1, <2>1, <2>2 DEF Rich
  <2>5. c \in Rich => c \in Rich'
    BY <1>1, <2>1, <2>2, <2>3 DEF Rich, IdInv
  <2>6. Rich' = Rich \/ Rich' = Rich \cup {c}
    BY <2>4, <2>5 DEF Rich
  <2>7. Phase = "playing"
    BY <1>4 DEF Phase
  <2> QED
    BY <1>2, <2>6, <2>7, RulesStutter, RulesGain DEF Abstract
<1> QED
  BY <1>3, <1>4 DEF ProcGetCoin

LEMMA StepProcReady ==
  ASSUME RulesInv, NEW c \in Client, ProcReady(c), ~Rematch PROVE Abstract
<1>1. UNCHANGED <<id, coin>>
  BY DEF ProcReady
<1>2. CASE UNCHANGED <<started, historyVars>>
  BY <1>1, <1>2, StepSame DEF historyVars
<1>3. CASE GameStart /\ ~started
  <2>1. \A i \in Slot : coin[i] = 0
    BY <1>3 DEF Rematch, GameStart, RulesInv, ClockInv, WaitingInv, Waiting
  <2>2. Rich = {} /\ Rich' = {}
    BY <1>1, <2>1, GemAssumption DEF Rich
  <2>3. held' = [i \in Slot |-> 0] /\ results' = <<>> /\ started'
    BY <1>3 DEF GameStart
  <2>4. \A d \in Client : SlotHold(id', held', d) = 0
    BY <2>3 DEF SlotHold
  <2>5. Hold' = [d \in Client |-> 0]
    BY <2>4 DEF Hold
  <2>6. Outcomes' = {}
    BY <2>3, EmptySeq DEF Outcomes
  <2>7. Phase # "playing" /\ Phase' = "playing"
    BY <1>3, <2>3 DEF Phase
  <2> QED
    BY <2>2, <2>5, <2>6, <2>7, RulesStart DEF Abstract
<1> QED
  BY <1>2, <1>3 DEF ProcReady

LEMMA StepElapse ==
  ASSUME RulesInv, IdInv, IdInv', Elapse PROVE Abstract
<1>1. UNCHANGED <<started, results, id, coin>>
  BY DEF Elapse, playerVars
<1>2. \A i \in Slot :
        held'[i] = IF started /\ coin[i] >= WIN_COIN_CNT /\ held[i] < HeldCap
                   THEN held[i] + 1 ELSE held[i]
  BY DEF Elapse
<1>3. CASE ~started
  <2>1. \A i \in Slot : held'[i] = held[i]
    BY <1>2, <1>3
  <2>2. held' = held
    BY <1>3 DEF Elapse, RulesInv, Inv, TypeOK
  <2> QED
    BY <1>1, <2>2, StepSame
<1>4. CASE started
  <2>1. Passed = 0
    BY <1>4, ElapseTick DEF RulesInv, Playing
  <2>2. ASSUME NEW i \in Slot, coin[i] >= WIN_COIN_CNT
        PROVE  held[i] <= NEED_TIME_TO_WIN /\ held'[i] = held[i] + 1
    <3>1. /\ held[i] \in Nat /\ winTime[i] \in Int /\ leftTime \in Int
          /\ NEED_TIME_TO_WIN \in Nat
      BY TimeAssumption DEF RulesInv, Inv, TypeOK, HeldCap
    <3>2. /\ ~winSat[i] => held[i] <= 0
          /\ winSat[i] => /\ winTime[i] < leftTime
                          /\ held[i] <= winTime[i] + NEED_TIME_TO_WIN - leftTime + 0 + 1
      BY <1>4, <2>1 DEF RulesInv, HeldInv, Playing, Ticks
    <3>3. held[i] <= NEED_TIME_TO_WIN
      BY <3>1, <3>2
    <3> QED
      BY <1>2, <1>4, <2>2, <3>1, <3>3 DEF HeldCap
  <2>3. ASSUME NEW i \in Slot, ~(coin[i] >= WIN_COIN_CNT) PROVE held'[i] = held[i]
    BY <1>2, <2>3
  <2>4. \A d \in Client, i \in Slot : id[i] = d => (d \in Rich <=> coin[i] >= WIN_COIN_CNT)
    BY ClientAssumption DEF Rich, IdInv
  <2>5. \A d \in Rich : Hold[d] <= NEED_TIME_TO_WIN
    BY <2>2, HoldOf DEF Rich
  <2>6. ASSUME NEW d \in Client
        PROVE  Hold'[d] = IF d \in Rich THEN Hold[d] + 1 ELSE Hold[d]
    <3>1. CASE InRoom(d)
      <4>1. PICK i \in Slot : id[i] = d
        BY <3>1 DEF InRoom
      <4>2. Hold[d] = held[i] /\ Hold'[d] = held'[i]
        BY <1>1, <4>1, HoldOf, HoldOfNext
      <4> QED
        BY <2>2, <2>3, <2>4, <4>1, <4>2
    <3>2. CASE ~InRoom(d)
      <4>1. ~InRoom(d)' /\ d \notin Rich
        BY <1>1, <3>2 DEF InRoom, Rich
      <4> QED
        BY <3>2, <4>1, HoldOf, HoldOfNext
    <3> QED
      BY <3>1, <3>2
  <2>7. Hold' = [d \in Client |-> IF d \in Rich THEN Hold[d] + 1 ELSE Hold[d]]
    BY <2>6 DEF Hold
  <2>8. Phase = "playing" /\ UNCHANGED <<Phase, Rich, Outcomes>>
    BY <1>1, <1>4 DEF Phase, Rich, Outcomes
  <2> QED
    BY <2>5, <2>7, <2>8, RulesSecond DEF Abstract
<1> QED
  BY <1>3, <1>4

LEMMA StepTick ==
  ASSUME RulesInv, IdInv, IdInv', Tick PROVE Abstract
<1> DEFINE over == Results(leftTime')
<1>1. UNCHANGED <<id, coin, held>>
  BY DEF Tick
<1>2. results' = results \o over /\ started' = (started /\ over = <<>>)
  BY TickTime DEF RulesInv, Tick
<1>3. over \in Seq(Outcome) /\ results \in Seq(Outcome)
  BY ResultsHeld DEF RulesInv, Inv, TypeOK
<1>4. CASE over = <<>>
  <2>1. results' = results /\ started' = started
    BY <1>2, <1>3, <1>4, ConcatEmptySeq DEF RulesInv, Inv, TypeOK
  <2> QED
    BY <1>1, <2>1, StepSame
<1>5. CASE over # <<>>
  <2>1. started
    BY <1>5, TickTime, NothingOver DEF RulesInv, Inv, Wins
  <2>2. results = <<>>
    BY <2>1 DEF RulesInv, ClockInv, PlayingInv, Playing
  <2>3. results' = over /\ ~started'
    BY <1>2, <1>3, <1>5, <2>2, ConcatEmptySeq
  <2>4. Phase = "playing" /\ Phase' = "over"
    BY <1>5, <2>1, <2>3 DEF Phase
  <2>5. UNCHANGED <<Rich, Hold>>
    BY <1>1 DEF Rich, Hold, SlotHold
  <2>6. Len(over) \in Nat /\ Len(over) # 0
    BY <1>3, <1>5, EmptySeq, LenProperties
  <2>7. Outcomes' # {}
    <3>1. over[1].winner \in Outcomes'
      BY <2>3, <2>6 DEF Outcomes
    <3> QED
      BY <3>1
  <2>8. ASSUME NEW w \in Outcomes'
        PROVE  w = Draw \/ (w \in Rich /\ Hold[w] >= NEED_TIME_TO_WIN)
    <3>1. PICK k \in 1..Len(over) : w = over[k].winner
      BY <2>3 DEF Outcomes
    <3> HIDE DEF over
    <3>2. CASE over[k] = [winner |-> Draw, held |-> 0]
      BY <3>1, <3>2
    <3>3. ASSUME NEW i \in Slot, Wins(i, leftTime'), over[k] = Result(i)
          PROVE  w \in Rich /\ Hold[w] >= NEED_TIME_TO_WIN
      <4>1. w = id[i]
        BY <3>1, <3>3 DEF Result
      <4>2. w \in Client
        BY <3>3, <4>1, TickTime, WinnerOccupies DEF RulesInv, Inv, TypeOK
      <4>3. coin[i] >= WIN_COIN_CNT
        BY <3>3 DEF RulesInv, Inv, SatisfiedHasCoins, Wins, Satisfies
      <4>4. held[i] >= NEED_TIME_TO_WIN
        BY <3>3, WinnerHasHeld DEF RulesInv
      <4> QED
        BY <4>1, <4>2, <4>3, <4>4, HoldOf DEF Rich
    <3> QED
      BY <3>2, <3>3, ResultsAre DEF over
  <2> QED
    BY <2>4, <2>5, <2>7, <2>8, RulesEnd DEF Abstract
<1> QED
  BY <1>4, <1>5

LEMMA RulesStep ==
  RulesInv /\ IdInv /\ IdInv' /\ [Next]_vars /\ [~Rematch]_vars
    => [Rules!Next]_(Rules!vars)
<1> SUFFICES ASSUME RulesInv, IdInv, IdInv', [Next]_vars, [~Rematch]_vars
             PROVE  Abstract
  BY DEF Abstract
<1>1. TypeOK
  BY DEF RulesInv, Inv
<1>2. ASSUME NEW c \in Client, ClientStep(c) PROVE Abstract
  <2>1. CASE CallErasedRoom(c) \/ SendReady(c) \/ Die(c) \/ \E g \in Gem : PickUp(c, g)
    BY <2>1, StepSame
    DEF CallErasedRoom, SendReady, Die, PickUp, Send, playerVars, historyVars
  <2> QED
    BY <1>2, <2>1, StepJoin, StepDisconnect DEF ClientStep
<1>3. ASSUME NEW c \in Client, ProcMsg(c) PROVE Abstract
  <2>1. CASE ProcReady(c)
    <3>1. CASE UNCHANGED vars
      BY <3>1, StepSame DEF vars, playerVars, historyVars
    <3> QED
      BY <2>1, <3>1, StepProcReady
  <2>2. CASE DropRequestDie(c)
    BY <2>2, StepSame DEF DropRequestDie, playerVars, historyVars
  <2> QED
    BY <1>1, <1>3, <2>1, <2>2, StepGetCoin, StepRequestDie DEF ProcMsg
<1>4. CASE TimerEvent
  <2>1. CASE AddCoin \/ ResetRoom
    BY <2>1, StepSame DEF AddCoin, ResetRoom, playerVars, historyVars
  <2> QED
    BY <1>4, <2>1, StepTick DEF TimerEvent
<1>5. CASE Elapse
  BY <1>5, StepElapse
<1>6. CASE UNCHANGED vars
  BY <1>6, StepSame DEF vars, playerVars, historyVars
<1> QED
  BY <1>2, <1>3, <1>4, <1>5, <1>6 DEF Next

LEMMA RulesInitStep == Init => Rules!Init
<1> SUFFICES ASSUME Init PROVE Rules!Init
  OBVIOUS
<1>1. Phase = "waiting"
  BY DEF Init, Phase
<1>2. Rich = {}
  BY ClientAssumption DEF Init, Rich
<1>3. Hold = [c \in Client |-> 0]
  BY ClientAssumption DEF Init, Hold, SlotHold
<1>4. Outcomes = {}
  BY EmptySeq DEF Init, Outcomes
<1> QED
  BY <1>1, <1>2, <1>3, <1>4
  DEF Phase, Rich, Hold, Outcomes, SlotHold, InRoom, Rules!Init

(* The room keeps the rules of the game: until a rematch every step of it,   *)
(* with its queues, slots, timers and clock, is a step of MatchRules or none.*)
THEOREM ImplementsRulesCorrect == Spec /\ OneMatch => ImplementsRules
<1>1. Init => IdInv
  BY IdInit
<1>2. RulesInv => TypeOK
  BY DEF RulesInv, Inv
<1> QED
  BY <1>1, <1>2, IdNext, RulesInitStep, RulesStep, RulesInvCorrect, PTL
  DEF Spec, OneMatch, ImplementsRules, Rules!Spec

-----------------------------------------------------------------------------
(* The two clients of a pair, each of whom presses ready once, as the        *)
(* matching room lets them: the second match of OneMatch never comes.        *)
OnePair == /\ MaxReady <= 1
           /\ \A a, b, c \in Client : a = b \/ a = c \/ b = c

NoReady(q)  == \A k \in 1..Len(q) : q[k] # Ready
OneReady(q) == \A k, m \in 1..Len(q) : q[k] = Ready /\ q[m] = Ready => k = m

ReadyInv ==
  /\ \A c \in Client :
       /\ readySent[c] = 0 => NoReady(inbox[c]) /\ \A i \in Slot : id[i] = c => ~ready[i]
       /\ OneReady(inbox[c])
       /\ NoReady(inbox[c]) \/ \A i \in Slot : id[i] = c => ~ready[i]
  /\ started \/ results # <<>> =>
       \A c \in Client : readySent[c] # 0 /\ NoReady(inbox[c])

(* What is left of a queue when its first n messages are gone. *)
LEMMA SuffixAt ==
  ASSUME NEW q \in Seq(Message), NEW n \in Nat
  PROVE  LET z == SubSeq(q, n + 1, Len(q)) IN
         \A k \in 1..Len(z) : /\ z[k] = q[k + n]
                              /\ k + n \in 1..Len(q) /\ k \in Nat
<1> DEFINE z == SubSeq(q, n + 1, Len(q))
<1>1. Len(q) \in Nat /\ \A i \in (n + 1)..Len(q) : q[i] \in Message
  BY LenProperties, ElementOfSeq
<1>2. /\ (Len(z) = IF n + 1 <= Len(q) THEN Len(q) - (n + 1) + 1 ELSE 0)
      /\ \A i \in 1..(Len(q) - (n + 1) + 1) : z[i] = q[(n + 1) + i - 1]
  BY <1>1, SubSeqProperties
<1> HIDE DEF z
<1>3. \A k \in 1..Len(z) : z[k] = q[k + n] /\ k + n \in 1..Len(q) /\ k \in Nat
  BY <1>1, <1>2
<1> QED
  BY <1>3 DEF z

LEMMA SuffixReady ==
  ASSUME NEW q \in Seq(Message), NEW n \in Nat
  PROVE  LET z == SubSeq(q, n + 1, Len(q)) IN
         /\ NoReady(q) => NoReady(z)
         /\ OneReady(q) => OneReady(z)
         /\ OneReady(q) /\ n = 1 /\ q # <<>> /\ Head(q) = Ready => NoReady(z)
<1> DEFINE z == SubSeq(q, n + 1, Len(q))
<1>1. Len(q) \in Nat
  BY LenProperties
<1>2. \A k \in 1..Len(z) : z[k] = q[k + n]
  BY SuffixAt
<1>3. \A k \in 1..Len(z) : k + n \in 1..Len(q) /\ k \in Nat
  BY SuffixAt
<1> HIDE DEF z
<1>4. NoReady(q) => NoReady(z)
  BY <1>2, <1>3 DEF NoReady
<1>5. OneReady(q) => OneReady(z)
  <2> SUFFICES ASSUME OneReady(q), NEW k \in 1..Len(z), NEW m \in 1..Len(z),
                      z[k] = Ready, z[m] = Ready
               PROVE  k = m
    BY DEF OneReady
  <2>1. k + n = m + n
    BY <1>2, <1>3 DEF OneReady
  <2> QED
    BY <1>3, <2>1
<1>6. ASSUME OneReady(q), n = 1, q # <<>>, Head(q) = Ready PROVE NoReady(z)
  <2>1. 1 \in 1..Len(q) /\ q[1] = Ready
    BY <1>1, <1>6, EmptySeq
  <2>2. \A k \in 1..Len(z) : z[k] = q[k + 1] /\ k + 1 \in 1..Len(q) /\ k + 1 # 1
    BY <1>2, <1>3, <1>6
  <2> QED
    BY <1>6, <2>1, <2>2 DEF NoReady, OneReady
<1> QED
  BY <1>4, <1>5, <1>6 DEF z

LEMMA TailReady ==
  ASSUME NEW q \in Seq(Message), q # <<>>
  PROVE  /\ NoReady(q) => NoReady(Tail(q))
         /\ OneReady(q) => OneReady(Tail(q))
         /\ OneReady(q) /\ Head(q) = Ready => NoReady(Tail(q))
<1>1. Tail(q) = SubSeq(q, 1 + 1, Len(q))
  BY TailIsSubSeq
<1> QED
  BY <1>1, SuffixReady

LEMMA AppendReady ==
  ASSUME NEW q \in Seq(Message), NEW m \in Message
  PROVE  /\ NoReady(q) => OneReady(Append(q, m))
         /\ m # Ready /\ NoReady(q) => NoReady(Append(q, m))
         /\ m # Ready /\ OneReady(q) => OneReady(Append(q, m))
<1>1. /\ Len(Append(q, m)) = Len(q) + 1 /\ Len(q) \in Nat
      /\ \A k \in 1..Len(q) : Append(q, m)[k] = q[k]
      /\ Append(q, m)[Len(q) + 1] = m
  BY AppendProperties, LenProperties
<1>2. \A k \in 1..(Len(q) + 1) : k \in 1..Len(q) \/ k = Len(q) + 1
  BY <1>1
<1> HIDE DEF Ready
<1> QED
  BY <1>1, <1>2 DEF NoReady, OneReady

LEMMA ReadyInit == Init => ReadyInv
<1>1. NoReady(<<>>) /\ OneReady(<<>>)
  BY EmptySeq DEF NoReady, OneReady
<1> QED
  BY <1>1 DEF Init, ReadyInv

(* Steps that only throw messages away, and the reset. *)
LEMMA ReadyFrame ==
  ASSUME ReadyInv, UNCHANGED <<readySent, id>>,
         started' \/ results' # <<>> => started \/ results # <<>>,
         \A i \in Slot : ready'[i] => ready[i],
         \A c \in Client : /\ NoReady(inbox[c]) => NoReady(inbox'[c])
                           /\ OneReady(inbox[c]) => OneReady(inbox'[c])
  PROVE  ReadyInv'
BY DEF ReadyInv

LEMMA ReadySend ==
  ASSUME OnePair, Inv, ReadyInv, NEW c \in Client, SendReady(c) PROVE ReadyInv'
<1>1. readySent[c] = 0
  BY BoundAssumption DEF OnePair, SendReady, Inv, TypeOK
<1>2. NoReady(inbox[c]) /\ \A i \in Slot : id[i] = c => ~ready[i]
  BY <1>1 DEF ReadyInv
<1>3. ~(started \/ results # <<>>)
  BY <1>1 DEF ReadyInv
<1>4. inbox[c] \in Seq(Message) /\ Ready \in Message
  BY DEF Inv, TypeOK, Ready, Message
<1>5. OneReady(Append(inbox[c], Ready))
  BY <1>2, <1>4, AppendReady
<1>6. /\ \A d \in Client : inbox'[d] = IF d = c THEN Append(inbox[c], Ready) ELSE inbox[d]
      /\ \A d \in Client : readySent'[d] = IF d = c THEN 1 ELSE readySent[d]
  BY <1>1 DEF SendReady, Send, Inv, TypeOK
<1>7. UNCHANGED <<id, ready, started, results>>
  BY DEF SendReady, Send, playerVars, historyVars
<1> QED
  BY <1>2, <1>3, <1>5, <1>6, <1>7 DEF ReadyInv

LEMMA ReadySendOther ==
  ASSUME Inv, ReadyInv, NEW c \in Client, NEW m \in Message, m # Ready,
         Send(c, m), UNCHANGED readySent
  PROVE  ReadyInv'
<1>1. inbox[c] \in Seq(Message)
  BY DEF Inv, TypeOK
<1>2. /\ NoReady(inbox[c]) => NoReady(Append(inbox[c], m))
      /\ OneReady(inbox[c]) => OneReady(Append(inbox[c], m))
  BY <1>1, AppendReady
<1>3. \A d \in Client : inbox'[d] = IF d = c THEN Append(inbox[c], m) ELSE inbox[d]
  BY DEF Send, Inv, TypeOK
<1>4. UNCHANGED <<id, ready, started, results>>
  BY DEF Send, playerVars, historyVars
<1> QED
  BY <1>2, <1>3, <1>4, ReadyFrame

LEMMA ReadyTake ==
  ASSUME Inv, NEW c \in Client, inbox[c] # <<>>,
         inbox' = [inbox EXCEPT ![c] = Tail(@)]
  PROVE  \A d \in Client : /\ NoReady(inbox[d]) => NoReady(inbox'[d])
                           /\ OneReady(inbox[d]) => OneReady(inbox'[d])
<1>1. inbox[c] \in Seq(Message)
  BY DEF Inv, TypeOK
<1>2. \A d \in Client : inbox'[d] = IF d = c THEN Tail(inbox[c]) ELSE inbox[d]
  BY DEF Inv, TypeOK
<1> QED
  BY <1>1, <1>2, TailReady

LEMMA ReadyJoin ==
  ASSUME Inv, ReadyInv, NEW c \in Client, Join(c) PROVE ReadyInv'
<1>1. UNCHANGED <<readySent, inbox, ready, started, results>>
  BY DEF Join, historyVars
<1>2. CASE UNCHANGED id
  BY <1>1, <1>2, ReadyFrame
<1>3. ASSUME NEW i \in Slot, id[i] = NoId, id' = [id EXCEPT ![i] = c]
      PROVE  ReadyInv'
  <2>1. ~ready[i]
    BY <1>3 DEF Inv, FreeSlotIsBlank
  <2>2. \A j \in Slot : id'[j] = IF j = i THEN c ELSE id[j]
    BY <1>3 DEF Inv, TypeOK
  <2> QED
    BY <1>1, <2>1, <2>2 DEF ReadyInv
<1>4. UNCHANGED id \/ \E i \in Slot : id[i] = NoId /\ id' = [id EXCEPT ![i] = c]
  BY DEF Join, EnterRoom
<1> QED
  BY <1>2, <1>3, <1>4

LEMMA ReadyDisconnect ==
  ASSUME Inv, ReadyInv, NEW c \in Client, Disconnect(c) PROVE ReadyInv'
<1>1. \A i \in Slot : IF id[i] = c THEN id'[i] = NoId /\ ~ready'[i]
                      ELSE id'[i] = id[i] /\ ready'[i] = ready[i]
  BY DEF Disconnect, LeaveRoom, Initialize, Cleared
<1>2. UNCHANGED <<readySent, inbox, started, results>>
  BY DEF Disconnect
<1> QED
  BY <1>1, <1>2, ClientAssumption DEF ReadyInv

(* The match starts with the second READY: after it nobody has one left.    *)
LEMMA ReadyProcReady ==
  ASSUME OnePair, Inv, IdInv, ReadyInv, NEW c \in Client, ProcReady(c)
  PROVE  ReadyInv' /\ ~Rematch
<1> DEFINE rest == [inbox EXCEPT ![c] = Tail(@)]
<1>1. /\ inbox[c] \in Seq(Message) /\ inbox[c] # <<>> /\ Head(inbox[c]) = Ready
      /\ rest \in [Client -> Seq(Message)]
  BY TakeType DEF ProcReady, Inv, TypeOK
<1>2. \A d \in Client : rest[d] = IF d = c THEN Tail(inbox[c]) ELSE inbox[d]
  BY DEF Inv, TypeOK
<1>3. ~NoReady(inbox[c]) /\ OneReady(inbox[c])
  <2>1. 1 \in 1..Len(inbox[c]) /\ inbox[c][1] = Ready
    BY <1>1, EmptySeq, LenProperties
  <2> QED
    BY <2>1 DEF NoReady, ReadyInv
<1>4. NoReady(rest[c])
  BY <1>1, <1>2, <1>3, TailReady
<1>5. \A d \in Client : /\ NoReady(inbox[d]) => NoReady(rest[d])
                        /\ OneReady(rest[d])
  BY <1>1, <1>2, TailReady DEF ReadyInv
<1> HIDE DEF rest
<1>6. \A d \in Client : /\ NoReady(rest[d]) => NoReady(inbox'[d])
                        /\ OneReady(inbox'[d])
  <2>1. CASE inbox' = rest
    BY <1>5, <2>1
  <2>2. CASE \E cut \in [Client -> 0..MaxInbox] :
               inbox' = [d \in Client |->
                           SubSeq(rest[d], cut[d] + 1, Len(rest[d]))]
    <3>1. PICK cut \in [Client -> 0..MaxInbox] :
               inbox' = [d \in Client |->
                           SubSeq(rest[d], cut[d] + 1, Len(rest[d]))]
      BY <2>2
    <3>2. \A d \in Client : cut[d] \in Nat /\ rest[d] \in Seq(Message)
      BY <1>1, BoundAssumption
    <3> QED
      BY <1>5, <3>1, <3>2, SuffixReady
  <2> QED
    BY <2>1, <2>2 DEF ProcReady, rest
<1>7. /\ ready' = Cleared(c, ready, TRUE)
      /\ UNCHANGED <<id, readySent>>
  BY DEF ProcReady, clientVars
<1>8. ~(started \/ results # <<>>)
  BY <1>3 DEF ReadyInv
<1>9. readySent[c] # 0
  BY <1>3 DEF ReadyInv
<1>10. \A d \in Client :
         /\ readySent[d] = 0 => NoReady(inbox'[d]) /\ \A i \in Slot : id[i] = d => ~ready'[i]
         /\ NoReady(inbox'[d]) \/ \A i \in Slot : id[i] = d => ~ready'[i]
  <2>1. NoReady(inbox'[c])
    BY <1>4, <1>6
  <2>2. \A d \in Client, i \in Slot : d # c /\ id[i] = d => ready'[i] = ready[i]
    BY <1>7 DEF Cleared
  <2>3. ASSUME NEW d \in Client, d # c
        PROVE  /\ readySent[d] = 0 => NoReady(inbox'[d]) /\ \A i \in Slot : id[i] = d => ~ready'[i]
               /\ NoReady(inbox'[d]) \/ \A i \in Slot : id[i] = d => ~ready'[i]
    BY <1>5, <1>6, <2>2, <2>3 DEF ReadyInv
  <2> QED
    BY <1>9, <2>1, <2>3
<1>11. ASSUME started' \/ results' # <<>>
       PROVE  \A d \in Client : readySent[d] # 0 /\ NoReady(inbox'[d])
  <2>1. \A i \in Slot : ready'[i]
    BY <1>7, <1>8, <1>11 DEF ProcReady, historyVars
  <2>2. \A i \in Slot : id[i] # NoId
    BY <1>7, <2>1, ClientAssumption DEF Cleared, Inv, FreeSlotIsBlank
  <2>3. id[0] \in Client /\ id[1] \in Client /\ id[0] # id[1]
    BY <2>2 DEF Inv, TypeOK, IdInv, Slot
  <2>4. \A d \in Client : \E i \in Slot : id[i] = d
    BY <2>3 DEF OnePair, Slot
  <2> QED
    BY <1>10, <2>1, <2>4
<1> QED
  BY <1>6, <1>7, <1>8, <1>10, <1>11 DEF ReadyInv, Rematch

LEMMA ReadyTick == ASSUME Inv, ReadyInv, Tick PROVE ReadyInv'
<1> DEFINE lt == (leftTime - 1) % LEFT_TIME_MOD
<1>1. lt \in Int
  BY TimeAssumption DEF Inv, TypeOK
<1>2. started' = (started /\ Results(lt) = <<>>) /\ results' = results \o Results(lt)
  BY DEF Tick
<1> HIDE DEF lt
<1>3. ~started => Results(lt) = <<>>
  BY <1>1, NothingOver DEF Inv, Wins
<1>4. ~started => results' = results
  BY <1>2, <1>3, ConcatEmptySeq DEF Inv, TypeOK
<1>5. UNCHANGED <<readySent, id, ready, inbox>>
  BY DEF Tick, clientVars
<1> QED
  BY <1>2, <1>4, <1>5, ReadyFrame

LEMMA ReadyNext ==
  ASSUME OnePair, Inv, IdInv, ReadyInv, [Next]_vars
  PROVE  ReadyInv' /\ [~Rematch]_vars
<1>1. ASSUME NEW c \in Client, ProcReady(c) PROVE ReadyInv' /\ [~Rematch]_vars
  BY <1>1, ReadyProcReady
<1>2. CASE ~\E c \in Client : ProcReady(c)
  <2>1. ~Rematch
    BY <1>2 DEF Rematch, Next, ClientStep, ProcMsg, TimerEvent, Join,
       CallErasedRoom, SendReady, Die, PickUp, Send, Disconnect, ProcGetCoin,
       ProcRequestDie, DropRequestDie, Tick, AddCoin, ResetRoom, Elapse, vars
  <2>2. ASSUME NEW c \in Client, ClientStep(c) PROVE ReadyInv'
    <3>1. CASE CallErasedRoom(c)
      BY <3>1, ReadyFrame DEF CallErasedRoom, clientVars, playerVars, historyVars
    <3>2. CASE Die(c)
      BY <3>2, ReadySendOther DEF Die, RequestDie, Ready, Message
    <3>3. ASSUME NEW g \in Gem, PickUp(c, g) PROVE ReadyInv'
      BY <3>3, ReadySendOther DEF PickUp, GetCoin, Ready, Message
    <3> QED
      BY <2>2, <3>1, <3>2, <3>3, ReadyJoin, ReadySend, ReadyDisconnect DEF ClientStep
  <2>3. ASSUME NEW c \in Client, ProcGetCoin(c) \/ ProcRequestDie(c) \/ DropRequestDie(c)
        PROVE  ReadyInv'
    <3>1. inbox[c] # <<>> /\ inbox' = [inbox EXCEPT ![c] = Tail(@)]
      BY <2>3 DEF ProcGetCoin, ProcRequestDie, DropRequestDie
    <3>2. UNCHANGED <<readySent, id, ready, started, results>>
      BY <2>3 DEF ProcGetCoin, ProcRequestDie, DropRequestDie, clientVars,
                  playerVars, historyVars
    <3> QED
      BY <3>1, <3>2, ReadyTake, ReadyFrame
  <2>4. ASSUME AddCoin \/ ResetRoom \/ Elapse \/ UNCHANGED vars PROVE ReadyInv'
    <3>1. UNCHANGED <<readySent, id, inbox, started, results>>
      BY <2>4 DEF AddCoin, ResetRoom, Elapse, vars, clientVars, playerVars,
                  historyVars
    <3>2. \A i \in Slot : ready'[i] => ready[i]
      BY <2>4 DEF AddCoin, ResetRoom, Elapse, vars, playerVars
    <3> QED
      BY <3>1, <3>2, ReadyFrame
  <2> QED
    BY <1>2, <2>1, <2>2, <2>3, <2>4, ReadyTick DEF Next, ProcMsg, TimerEvent
<1> QED
  BY <1>1, <1>2

(* A pair that presses ready once plays one match: nothing the server does   *)
(* (a reset, a disconnect, a batch thrown away) starts a second one.         *)
THEOREM PairPlaysOnce == ASSUME OnePair PROVE Spec => OneMatch
<1>1. Init => ReadyInv /\ IdInv
  BY ReadyInit, IdInit
<1>2. Inv /\ IdInv /\ ReadyInv /\ [Next]_vars => ReadyInv' /\ IdInv' /\ [~Rematch]_vars
  BY ReadyNext, IdNext DEF Inv
<1> QED
  BY <1>1, <1>2, InvCorrect, PTL DEF Spec, OneMatch

(* So such a pair's match has one clock, its winner has held the gems, a     *)
(* holder wins, and the room follows the rules of the game.                  *)
THEOREM RulesOfPair ==
  ASSUME OnePair
  PROVE  Spec => [](OneClock /\ WinnerHeld /\ HolderWins) /\ ImplementsRules
BY PairPlaysOnce, OneClockCorrect, WinnerHeldCorrect, HolderWinsCorrect,
   ImplementsRulesCorrect, PTL
-----------------------------------------------------------------------------
(* Gems, as long as the room's table is not overrun: afterwards the ids      *)
(* start again, and a client may be shown, and ask for, a gem once more.     *)
Overruns ==
  \/ AddCoin /\ started /\ Overrun(1)
  \/ Tick /\ started /\ Opens((leftTime - 1) % LEFT_TIME_MOD) /\ Overrun(1)
  \/ \E c \in Client, i \in Slot :
       /\ ProcRequestDie(c) /\ id[i] = c
       /\ started /\ coin[i] > 0 /\ Overrun(coin[i])
InTable == [][~Overruns]_vars

(* A gem that a client shows, or has asked for, was given out by the room,   *)
(* and no gem is both.                                                       *)
GemInv ==
  \A c \in Client : /\ \A g \in view[c] \cup askedFor[c] : g < coinCur
                    /\ view[c] \cap askedFor[c] = {}

(* The ids are taken one after the other, up to the end of the table. *)
LEMMA NewGemsInTable ==
  ASSUME TypeOK, NEW k \in Nat, k = 0 \/ ~Overrun(k)
  PROVE  /\ NewGems(k) \subseteq coinCur..(coinCur + k - 1)
         /\ CoinCurPlus(k) = coinCur + k
<1>1. coinCur \in 0..MAX_COIN /\ MAX_COIN \in Nat
  BY GemAssumption DEF TypeOK
<1>2. CASE k = 0
  BY <1>1, <1>2 DEF NewGems, CoinCurPlus
<1>3. CASE k > 0 /\ coinCur + k <= MAX_COIN
  <2>1. \A n \in coinCur..(coinCur + k - 1) : GemId(n) = n
    BY <1>1, <1>3 DEF GemId
  <2>2. CoinCurPlus(k) = coinCur + k
    BY <1>1, <1>3, <2>1 DEF CoinCurPlus
  <2> QED
    BY <2>1, <2>2 DEF NewGems
<1> QED
  BY <1>1, <1>2, <1>3 DEF Overrun

LEMMA GemInit == Init => GemInv
BY DEF Init, GemInv

(* Steps that show k new gems and hide some: the new ones have ids that      *)
(* nobody was shown, and so nobody has asked for.                            *)
LEMMA GemShow ==
  ASSUME TypeOK, GemInv, NEW k \in Nat, k = 0 \/ ~Overrun(k),
         coinCur' = CoinCurPlus(k), askedFor' = askedFor,
         \A c \in Client : view'[c] \subseteq view[c] \cup NewGems(k)
  PROVE  GemInv'
<1>1. /\ NewGems(k) \subseteq coinCur..(coinCur + k - 1)
      /\ coinCur' = coinCur + k
  BY NewGemsInTable
<1>2. coinCur \in Nat
  BY GemAssumption DEF TypeOK
<1>3. \A c \in Client : view[c] \cup askedFor[c] \subseteq Nat
  BY GemAssumption DEF TypeOK, Gem
<1> SUFFICES ASSUME NEW c \in Client
             PROVE  /\ \A g \in view'[c] \cup askedFor[c] : g < coinCur + k
                    /\ view'[c] \cap askedFor[c] = {}
  BY <1>1 DEF GemInv
<1>4. view'[c] \subseteq view[c] \cup coinCur..(coinCur + k - 1)
  BY <1>1
<1>5. \A g \in view[c] \cup askedFor[c] : g \in Nat /\ g < coinCur
  BY <1>3 DEF GemInv
<1>6. \A g \in coinCur..(coinCur + k - 1) : g >= coinCur /\ g < coinCur + k
  BY <1>2
<1>7. \A g \in askedFor[c] : g \notin view[c] /\ g \notin coinCur..(coinCur + k - 1)
  BY <1>2, <1>5, <1>6 DEF GemInv
<1> QED
  BY <1>2, <1>4, <1>5, <1>6, <1>7

(* Steps that show nothing new and ask for nothing. *)
LEMMA GemHide ==
  ASSUME GemInv, coinCur' = coinCur, askedFor' = askedFor,
         \A c \in Client : view'[c] \subseteq view[c]
  PROVE  GemInv'
BY DEF GemInv

(* A client asks for what it shows, and hides it. *)
LEMMA GemPickUp ==
  ASSUME TypeOK, GemInv, NEW c \in Client, NEW g \in Gem, PickUp(c, g)
  PROVE  GemInv'
<1>1. g \in view[c] /\ coinCur' = coinCur
  BY DEF PickUp, Send
<1>2. \A d \in Client :
        /\ view'[d] = IF d = c THEN view[d] \ {g} ELSE view[d]
        /\ askedFor'[d] = IF d = c THEN askedFor[d] \cup {g} ELSE askedFor[d]
  BY DEF PickUp, TypeOK
<1> QED
  BY <1>1, <1>2 DEF GemInv

LEMMA GemProcRequestDie ==
  ASSUME TypeOK, GemInv, ~Overruns, NEW c \in Client, ProcRequestDie(c)
  PROVE  GemInv'
<1>1. PICK i \in Slot :
        /\ id[i] = c
        /\ view' = Shown(IF started THEN coin[i] ELSE 0)
        /\ coinCur' = CoinCurPlus(IF started THEN coin[i] ELSE 0)
  BY DEF ProcRequestDie
<1> DEFINE k == IF started THEN coin[i] ELSE 0
<1>2. k \in Nat
  BY DEF TypeOK
<1>3. k = 0 \/ ~Overrun(k)
  BY <1>1, <1>2 DEF Overruns
<1>4. \A d \in Client : view'[d] \subseteq view[d] \cup NewGems(k)
  BY <1>1 DEF Shown
<1>5. coinCur' = CoinCurPlus(k) /\ askedFor' = askedFor
  BY <1>1 DEF ProcRequestDie, clientVars
<1> HIDE DEF k
<1> QED
  BY <1>2, <1>3, <1>4, <1>5, GemShow

LEMMA GemTick ==
  ASSUME TypeOK, GemInv, ~Overruns, Tick PROVE GemInv'
<1> DEFINE lt == (leftTime - 1) % LEFT_TIME_MOD
           k  == IF Opens(lt) /\ started THEN 1 ELSE 0
<1>1. k = 0 \/ ~Overrun(k)
  BY DEF Overruns
<1>2. /\ coinCur' = CoinCurPlus(k) /\ askedFor' = askedFor
      /\ view' = Shown(k) \/ view' = [c \in Client |-> {}]
  BY DEF Tick, clientVars
<1>3. k \in Nat
  OBVIOUS
<1> HIDE DEF k
<1>4. \A d \in Client : view'[d] \subseteq view[d] \cup NewGems(k)
  BY <1>2 DEF Shown
<1> QED
  BY <1>1, <1>2, <1>3, <1>4, GemShow

LEMMA GemAddCoin ==
  ASSUME TypeOK, GemInv, ~Overruns, AddCoin PROVE GemInv'
<1>1. askedFor' = askedFor
  BY DEF AddCoin, clientVars
<1>2. CASE started
  <2>1. /\ coinCur' = CoinCurPlus(1) /\ view' = Shown(1) /\ ~Overrun(1)
    BY <1>2 DEF AddCoin, Overruns
  <2>2. \A d \in Client : view'[d] \subseteq view[d] \cup NewGems(1)
    BY <2>1 DEF Shown
  <2> QED
    BY <1>1, <2>1, <2>2, GemShow
<1>3. CASE ~started
  BY <1>1, <1>3 DEF AddCoin, GemInv
<1> QED
  BY <1>2, <1>3

LEMMA GemNext ==
  ASSUME TypeOK, GemInv, [Next]_vars, ~Overruns PROVE GemInv'
<1>1. ASSUME NEW c \in Client, ClientStep(c) PROVE GemInv'
  <2>1. CASE \E g \in Gem : PickUp(c, g)
    BY <2>1, GemPickUp
  <2>2. CASE Join(c) \/ CallErasedRoom(c) \/ SendReady(c) \/ Die(c) \/ Disconnect(c)
    <3>1. UNCHANGED <<view, askedFor, coinCur>>
      BY <2>2 DEF Join, CallErasedRoom, SendReady, Die, Send, Disconnect, clientVars
    <3> QED
      BY <3>1, GemHide
  <2> QED
    BY <1>1, <2>1, <2>2 DEF ClientStep
<1>2. ASSUME NEW c \in Client, ProcReady(c) \/ ProcGetCoin(c) \/ DropRequestDie(c)
      PROVE  GemInv'
  <2>1. /\ UNCHANGED <<askedFor, coinCur>>
        /\ \A d \in Client : view'[d] \subseteq view[d]
    BY <1>2 DEF ProcReady, ProcGetCoin, DropRequestDie, clientVars
  <2> QED
    BY <2>1, GemHide
<1>3. CASE ResetRoom \/ Elapse \/ UNCHANGED vars
  <2>1. UNCHANGED <<view, askedFor, coinCur>>
    BY <1>3 DEF ResetRoom, Elapse, vars, clientVars
  <2> QED
    BY <2>1, GemHide
<1> QED
  BY <1>1, <1>2, <1>3, GemProcRequestDie, GemTick, GemAddCoin
  DEF Next, ProcMsg, TimerEvent

(* Until the table of gems is overrun, no client is shown a gem again that   *)
(* it has ever asked for, and so none asks twice for one: PickUp, ProcMsg,   *)
(* AddCoinByDie and the chest in any order, in every match of the room.      *)
THEOREM GemAskedOnceCorrect == Spec /\ InTable => []GemAskedOnce
<1>1. Init => GemInv
  BY GemInit
<1>2. TypeOK /\ GemInv /\ [Next]_vars /\ [~Overruns]_vars => GemInv'
  <2>1. GemInv /\ UNCHANGED vars => GemInv'
    BY DEF GemInv, vars, clientVars
  <2> QED
    BY <2>1, GemNext
<1>3. GemInv => GemAskedOnce
  BY DEF GemInv, GemAskedOnce
<1> QED
  BY <1>1, <1>2, <1>3, TypeCorrect, PTL DEF Spec, InTable
=============================================================================
