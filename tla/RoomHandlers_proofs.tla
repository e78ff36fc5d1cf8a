------------------------- MODULE RoomHandlers_proofs -------------------------
(***************************************************************************)
(* Proofs about RoomHandlers: in the races of the tick with the update, a  *)
(* player who has not died wins only after holding the gems for the time   *)
(* the rules ask, whatever the times and bounds.                           *)
(***************************************************************************)
EXTENDS RoomHandlers, TLAPS

(* The inductive invariant.  For a player who has not died only the tick    *)
(* writes the satisfaction and the win time, and gems only become more: the *)
(* seconds it has held them are at least those the win time stands for.     *)
DyingCounts == die.at # "idle" => deaths[die.i] > 0

Unhurt(i) == deaths[i] = 0

SatisfiedIsRich ==
  \A i \in Slot : Unhurt(i) =>
    /\ winSat[i] => Enough(i)
    /\ (At("testsat") \/ At("satisfy")) /\ I = i => Enough(i)

TimeIsHeld ==
  \A i \in Slot :
    /\ Unhurt(i)
    /\ winSat[i]
    /\ ~(I = i /\ tick.at \in {"announce", "settime"})
    => held[i] >= winTime[i] + NEED_TIME_TO_WIN - leftTime

TickInTime == due => leftTime > 0

SawIsWinTime == At("readsat") /\ Unhurt(I) => saw = winTime[I]

ClaimIsAnnounced ==
  \A i \in Slot : winSat[i] /\ ~(I = i /\ At("announce")) => i \in claimed

Inv == /\ TypeOK
       /\ TickInTime
       /\ DyingCounts
       /\ SatisfiedIsRich
       /\ TimeIsHeld
       /\ SawIsWinTime
       /\ ClaimIsAnnounced
       /\ UnhurtWinnerHeld
       /\ WinnerIsAnnounced

LEMMA Numbers == /\ MAX_LEFT_TIME \in Nat /\ NEED_TIME_TO_WIN \in Nat
                 /\ WIN_COIN_CNT \in Nat /\ MaxDie \in Nat
  BY TimeAssumption, BoundAssumption

(* Initially everything is zero and no handler runs. *)
LEMMA InitInv == Init => Inv
  BY SMTT(30), Numbers
  DEF Init, Inv, TypeOK, TickInTime, DyingCounts, SatisfiedIsRich, TimeIsHeld,
      SawIsWinTime, UnhurtWinnerHeld, ClaimIsAnnounced,
         WinnerIsAnnounced, Unhurt, At, I, Slot, Statement

LEMMA WinnersType ==
  ASSUME TypeOK, NEW i \in Slot, NEW h \in Nat
  PROVE  Append(winners, [winner |-> i, held |-> h])
           \in Seq([winner : Slot, held : Nat])
<1> DEFINE W == [winner : Slot, held : Nat]
           r == [winner |-> i, held |-> h]
<1>1. r \in W /\ winners \in Seq(W)
  BY DEF TypeOK
<1>2. Append(winners, r) \in Seq(W)
  <2> HIDE DEF W, r
  <2> QED
    BY <1>1
<1> QED
  BY <1>2

LEMMA UpToNext ==
  ASSUME NEW n \in Nat, NEW k \in 1..(n + 1)
  PROVE  k = n + 1 \/ k \in 1..n
  OBVIOUS

(* The calls recorded before, and the new one. *)
LEMMA WinnersAppended ==
  ASSUME TypeOK, NEW r, winners' = Append(winners, r)
  PROVE  /\ Len(winners') = Len(winners) + 1
         /\ \A k \in 1..Len(winners) : winners'[k] = winners[k]
         /\ winners'[Len(winners) + 1] = r
<1> DEFINE W == [winner : Slot, held : Nat]
<1>1. winners \in Seq(W)
  BY DEF TypeOK
<1> HIDE DEF W
<1> QED
  BY <1>1

(* The GameOver calls that are recorded. *)
LEMMA WinnerType ==
  ASSUME TypeOK, NEW k \in 1..Len(winners)
  PROVE  winners[k].winner \in Slot /\ winners[k].held \in Nat
<1> DEFINE W == [winner : Slot, held : Nat]
<1>1. winners \in Seq(W)
  BY DEF TypeOK
<1>2. winners[k] \in W
  <2> HIDE DEF W
  <2> QED
    BY <1>1
<1> QED
  BY <1>2

(* The steps of CheckGameState keep the invariant. *)
LEMMA TickKeepsInv == Inv /\ CheckGameState => Inv'
<1> SUFFICES ASSUME Inv, CheckGameState PROVE Inv'
  OBVIOUS
<1> USE Numbers DEF Inv, TypeOK, Slot, Statement, At, Goto, I, Enough, Unhurt, playerVars
<1>1. CASE BeginTick
  <2>0. leftTime \in Nat /\ leftTime > 0
    BY <1>1 DEF BeginTick, TickInTime
  <2>1. TypeOK'
    <3>1. leftTime' \in 0..MAX_LEFT_TIME /\ started' \in BOOLEAN /\ due' \in BOOLEAN
      BY <1>1, <2>0 DEF BeginTick, ClockGoesOn
    <3>2. held' \in [Slot -> Nat] /\ tick' \in [at : Statement, i : Slot]
      BY SMTT(30), <1>1 DEF BeginTick
    <3> QED
      BY <1>1, <3>1, <3>2 DEF BeginTick
  <2>9. TickInTime'
    <3>1. due' => leftTime > 1
      BY <1>1 DEF BeginTick, ClockGoesOn
    <3>2. leftTime' = leftTime - 1
      BY <1>1 DEF BeginTick
    <3> QED
      BY <2>0, <3>1, <3>2 DEF TickInTime
  <2>2. DyingCounts'
    BY <1>1 DEF BeginTick, ClockGoesOn, DyingCounts
  <2>3. SatisfiedIsRich'
    BY <1>1 DEF BeginTick, ClockGoesOn, SatisfiedIsRich
  <2>4. TimeIsHeld'
    <3> SUFFICES ASSUME NEW i \in Slot, Unhurt(i), winSat[i]
                 PROVE  held'[i] >= winTime[i] + NEED_TIME_TO_WIN - leftTime'
      BY <1>1 DEF BeginTick, ClockGoesOn, TimeIsHeld
    <3>1. Enough(i)
      BY DEF SatisfiedIsRich
    <3>2. held[i] >= winTime[i] + NEED_TIME_TO_WIN - leftTime
      BY <1>1 DEF BeginTick, ClockGoesOn, TimeIsHeld
    <3>3. held'[i] = held[i] + 1 /\ leftTime' = leftTime - 1
      BY <1>1, <3>1 DEF BeginTick
    <3>4. held[i] \in Int /\ winTime[i] \in Int /\ leftTime \in Int
      OBVIOUS
    <3> QED
      BY SMTT(30), <3>2, <3>3, <3>4
  <2>5. SawIsWinTime'
    BY <1>1 DEF BeginTick, ClockGoesOn, SawIsWinTime
  <2>6. UnhurtWinnerHeld'
    BY <1>1 DEF BeginTick, ClockGoesOn, UnhurtWinnerHeld
  <2>7. ClaimIsAnnounced'
    BY <1>1 DEF BeginTick, ClockGoesOn, ClaimIsAnnounced
  <2>8. WinnerIsAnnounced'
    BY <1>1 DEF BeginTick, WinnerIsAnnounced
  <2> QED
    BY <2>1, <2>2, <2>3, <2>4, <2>5, <2>6, <2>7, <2>8, <2>9
<1>2. CASE TestCoins
  <2>1. TypeOK'
    BY <1>2 DEF TestCoins
  <2>9. TickInTime'
    BY <1>2 DEF TestCoins, TickInTime
  <2>2. DyingCounts'
    BY <1>2 DEF TestCoins, DyingCounts
  <2>3. SatisfiedIsRich'
    BY <1>2 DEF TestCoins, SatisfiedIsRich
  <2>4. TimeIsHeld'
    BY <1>2 DEF TestCoins, TimeIsHeld, SatisfiedIsRich
  <2>5. SawIsWinTime'
    BY <1>2 DEF TestCoins, SawIsWinTime
  <2>6. UnhurtWinnerHeld'
    BY <1>2 DEF TestCoins, UnhurtWinnerHeld
  <2>7. ClaimIsAnnounced'
    BY <1>2 DEF TestCoins, ClaimIsAnnounced
  <2>8. WinnerIsAnnounced'
    BY <1>2 DEF TestCoins, WinnerIsAnnounced
  <2> QED
    BY <2>1, <2>2, <2>3, <2>4, <2>5, <2>6, <2>7, <2>8, <2>9
<1>3. CASE SetSatisfied
  <2>1. TypeOK'
    BY <1>3 DEF SetSatisfied
  <2>9. TickInTime'
    BY <1>3 DEF SetSatisfied, TickInTime
  <2>2. DyingCounts'
    BY <1>3 DEF SetSatisfied, DyingCounts
  <2>3. SatisfiedIsRich'
    BY <1>3 DEF SetSatisfied, SatisfiedIsRich
  <2>4. TimeIsHeld'
    BY <1>3 DEF SetSatisfied, TimeIsHeld, SatisfiedIsRich
  <2>5. SawIsWinTime'
    BY <1>3 DEF SetSatisfied, SawIsWinTime
  <2>6. UnhurtWinnerHeld'
    BY <1>3 DEF SetSatisfied, UnhurtWinnerHeld
  <2>7. ClaimIsAnnounced'
    BY <1>3 DEF SetSatisfied, ClaimIsAnnounced
  <2>8. WinnerIsAnnounced'
    BY <1>3 DEF SetSatisfied, WinnerIsAnnounced
  <2> QED
    BY <2>1, <2>2, <2>3, <2>4, <2>5, <2>6, <2>7, <2>8, <2>9
<1>4. CASE Announce
  <2>1. TypeOK'
    BY <1>4 DEF Announce
  <2>9. TickInTime'
    BY <1>4 DEF Announce, TickInTime
  <2>2. DyingCounts'
    BY <1>4 DEF Announce, DyingCounts
  <2>3. SatisfiedIsRich'
    BY <1>4 DEF Announce, SatisfiedIsRich
  <2>4. TimeIsHeld'
    BY <1>4 DEF Announce, TimeIsHeld, SatisfiedIsRich
  <2>5. SawIsWinTime'
    BY <1>4 DEF Announce, SawIsWinTime
  <2>6. UnhurtWinnerHeld'
    BY <1>4 DEF Announce, UnhurtWinnerHeld
  <2>7. ClaimIsAnnounced'
    BY <1>4 DEF Announce, ClaimIsAnnounced
  <2>8. WinnerIsAnnounced'
    BY <1>4 DEF Announce, WinnerIsAnnounced
  <2> QED
    BY <2>1, <2>2, <2>3, <2>4, <2>5, <2>6, <2>7, <2>8, <2>9
<1>5. CASE SetWinTime
  <2>1. TypeOK'
    <3>1. leftTime - NEED_TIME_TO_WIN \in Int
      OBVIOUS
    <3>2. winTime' \in [Slot -> Int]
      BY <1>5, <3>1 DEF SetWinTime, WinsAt
    <3>3. tick' \in [at : Statement, i : Slot]
      BY <1>5 DEF SetWinTime, WinsAt
    <3> QED
      BY <1>5, <3>2, <3>3 DEF SetWinTime, WinsAt
  <2>9. TickInTime'
    BY <1>5 DEF SetWinTime, TickInTime
  <2>2. DyingCounts'
    BY <1>5 DEF SetWinTime, WinsAt, DyingCounts
  <2>3. SatisfiedIsRich'
    BY <1>5 DEF SetWinTime, WinsAt, SatisfiedIsRich
  <2>4. TimeIsHeld'
    BY SMTT(30), <1>5 DEF SetWinTime, WinsAt, TimeIsHeld, SatisfiedIsRich
  <2>5. SawIsWinTime'
    BY <1>5 DEF SetWinTime, WinsAt, SawIsWinTime
  <2>6. UnhurtWinnerHeld'
    BY <1>5 DEF SetWinTime, WinsAt, UnhurtWinnerHeld
  <2>7. ClaimIsAnnounced'
    BY <1>5 DEF SetWinTime, WinsAt, ClaimIsAnnounced
  <2>8. WinnerIsAnnounced'
    BY <1>5 DEF SetWinTime, WinnerIsAnnounced
  <2> QED
    BY <2>1, <2>2, <2>3, <2>4, <2>5, <2>6, <2>7, <2>8, <2>9
<1>6. CASE ReadWinTime
  <2>1. TypeOK'
    BY <1>6 DEF ReadWinTime
  <2>9. TickInTime'
    BY <1>6 DEF ReadWinTime, TickInTime
  <2>2. DyingCounts'
    BY <1>6 DEF ReadWinTime, DyingCounts
  <2>3. SatisfiedIsRich'
    BY <1>6 DEF ReadWinTime, SatisfiedIsRich
  <2>4. TimeIsHeld'
    BY <1>6 DEF ReadWinTime, TimeIsHeld, SatisfiedIsRich
  <2>5. SawIsWinTime'
    BY <1>6 DEF ReadWinTime, SawIsWinTime
  <2>6. UnhurtWinnerHeld'
    BY <1>6 DEF ReadWinTime, UnhurtWinnerHeld
  <2>7. ClaimIsAnnounced'
    BY <1>6 DEF ReadWinTime, ClaimIsAnnounced
  <2>8. WinnerIsAnnounced'
    BY <1>6 DEF ReadWinTime, WinnerIsAnnounced
  <2> QED
    BY <2>1, <2>2, <2>3, <2>4, <2>5, <2>6, <2>7, <2>8, <2>9
<1>7. CASE ReadSatisfied
  <2>1. TypeOK'
    <3>1. I \in Slot /\ held[I] \in Nat
      OBVIOUS
    <3>2. Append(winners, [winner |-> I, held |-> held[I]])
            \in Seq([winner : Slot, held : Nat])
      BY <3>1, WinnersType
    <3>3. winners' \in Seq([winner : Slot, held : Nat])
      <4>1. CASE UNCHANGED winners
        BY <4>1
      <4>2. CASE winners' = Append(winners, [winner |-> I, held |-> held[I]])
        BY <4>2, <3>2, Zenon
      <4> QED
        BY <1>7, <4>1, <4>2 DEF ReadSatisfied, Claims
    <3>4. tick' \in [at : Statement, i : Slot]
      BY <1>7 DEF ReadSatisfied, Claims, NextPlayer
    <3>5. started' \in BOOLEAN
      BY <1>7 DEF ReadSatisfied, Claims
    <3> QED
      BY <1>7, <3>3, <3>4, <3>5 DEF ReadSatisfied, Claims
  <2>9. TickInTime'
    BY <1>7 DEF ReadSatisfied, TickInTime
  <2>2. DyingCounts'
    BY <1>7 DEF ReadSatisfied, Claims, NextPlayer, DyingCounts
  <2>3. SatisfiedIsRich'
    BY <1>7 DEF ReadSatisfied, Claims, NextPlayer, SatisfiedIsRich
  <2>4. TimeIsHeld'
    BY <1>7 DEF ReadSatisfied, Claims, NextPlayer, TimeIsHeld, SatisfiedIsRich
  <2>5. SawIsWinTime'
    BY <1>7 DEF ReadSatisfied, Claims, NextPlayer, SawIsWinTime
  <2>6. UnhurtWinnerHeld'
    <3>1. CASE UNCHANGED winners
      BY <1>7, <3>1 DEF ReadSatisfied, Claims, UnhurtWinnerHeld
    <3>2. CASE /\ saw >= leftTime /\ winSat[I]
               /\ winners' = Append(winners, [winner |-> I, held |-> held[I]])
      <4>1. I \in Slot
        OBVIOUS
      <4>2. Unhurt(I) => held[I] >= NEED_TIME_TO_WIN
        <5> SUFFICES ASSUME Unhurt(I) PROVE held[I] >= NEED_TIME_TO_WIN
          OBVIOUS
        <5>1. saw = winTime[I]
          BY <1>7 DEF ReadSatisfied, Claims, SawIsWinTime
        <5>2. held[I] >= saw + NEED_TIME_TO_WIN - leftTime
          BY <1>7, <3>2, <5>1 DEF ReadSatisfied, Claims, TimeIsHeld
        <5>3. held[I] \in Int /\ saw \in Int /\ leftTime \in Int
          OBVIOUS
        <5>4. saw >= leftTime
          BY <3>2
        <5> QED
          BY <5>2, <5>3, <5>4
      <4>3. deaths' = deaths
        BY <1>7 DEF ReadSatisfied, Claims
      <4>4. ASSUME NEW k \in 1..Len(winners), deaths[winners[k].winner] = 0
            PROVE  winners[k].held >= NEED_TIME_TO_WIN
        BY <4>4 DEF UnhurtWinnerHeld
      <4>5. ASSUME NEW k \in 1..Len(winners'), deaths'[winners'[k].winner] = 0
            PROVE  winners'[k].held >= NEED_TIME_TO_WIN
        <5>1. /\ Len(winners') = Len(winners) + 1
              /\ \A j \in 1..Len(winners) : winners'[j] = winners[j]
              /\ winners'[Len(winners) + 1] = [winner |-> I, held |-> held[I]]
          BY <3>2, WinnersAppended
        <5>2. Len(winners) \in Nat
          OBVIOUS
        <5>3. CASE k = Len(winners) + 1
          BY <5>1, <5>3, <4>1, <4>2, <4>3, <4>5
        <5>4. CASE k \in 1..Len(winners)
          BY <5>1, <5>4, <4>3, <4>4, <4>5
        <5> QED
          BY <5>1, <5>2, <5>3, <5>4, UpToNext, Zenon
      <4> QED
        BY <4>5 DEF UnhurtWinnerHeld
    <3> QED
      BY <1>7, <3>1, <3>2 DEF ReadSatisfied, Claims
  <2>7. ClaimIsAnnounced'
    BY <1>7 DEF ReadSatisfied, Claims, NextPlayer, ClaimIsAnnounced
  <2>8. WinnerIsAnnounced'
    <3>1. CASE UNCHANGED winners
      BY <1>7, <3>1 DEF ReadSatisfied, WinnerIsAnnounced
    <3>2. CASE /\ winSat[I]
               /\ winners' = Append(winners, [winner |-> I, held |-> held[I]])
      <4>1. I \in claimed
        BY <1>7, <3>2 DEF ReadSatisfied, ClaimIsAnnounced
      <4>2. /\ Len(winners') = Len(winners) + 1
            /\ \A j \in 1..Len(winners) : winners'[j] = winners[j]
            /\ winners'[Len(winners) + 1].winner = I
        BY <3>2, WinnersAppended
      <4>3. Len(winners) \in Nat /\ claimed' = claimed
        BY <1>7 DEF ReadSatisfied
      <4>4. \A k \in 1..Len(winners) : winners[k].winner \in claimed
        BY DEF WinnerIsAnnounced
      <4>5. ASSUME NEW k \in 1..(Len(winners) + 1)
            PROVE  winners'[k].winner \in claimed
        <5>1. k = Len(winners) + 1 \/ k \in 1..Len(winners)
          BY <4>3, UpToNext
        <5> QED
          BY <5>1, <4>1, <4>2, <4>4
      <4> QED
        BY <4>2, <4>3, <4>5 DEF WinnerIsAnnounced
    <3> QED
      BY <1>7, <3>1, <3>2 DEF ReadSatisfied, Claims
  <2> QED
    BY <2>1, <2>2, <2>3, <2>4, <2>5, <2>6, <2>7, <2>8, <2>9
<1>8. CASE TestSatisfied
  <2>1. TypeOK'
    BY <1>8 DEF TestSatisfied
  <2>9. TickInTime'
    BY <1>8 DEF TestSatisfied, TickInTime
  <2>2. DyingCounts'
    BY <1>8 DEF TestSatisfied, DyingCounts
  <2>3. SatisfiedIsRich'
    BY <1>8 DEF TestSatisfied, SatisfiedIsRich
  <2>4. TimeIsHeld'
    BY <1>8 DEF TestSatisfied, TimeIsHeld, SatisfiedIsRich
  <2>5. SawIsWinTime'
    BY <1>8 DEF TestSatisfied, SawIsWinTime
  <2>6. UnhurtWinnerHeld'
    BY <1>8 DEF TestSatisfied, UnhurtWinnerHeld
  <2>7. ClaimIsAnnounced'
    BY <1>8 DEF TestSatisfied, ClaimIsAnnounced
  <2>8. WinnerIsAnnounced'
    BY <1>8 DEF TestSatisfied, WinnerIsAnnounced
  <2> QED
    BY <2>1, <2>2, <2>3, <2>4, <2>5, <2>6, <2>7, <2>8, <2>9
<1> QED
  BY <1>1, <1>2, <1>3, <1>4, <1>5, <1>6, <1>7, <1>8 DEF CheckGameState

(* The steps of ProcMsg keep the invariant. *)
LEMMA UpdateKeepsInv == Inv /\ ProcMsg => Inv'
<1> SUFFICES ASSUME Inv, ProcMsg PROVE Inv'
  OBVIOUS
<1> USE Numbers DEF Inv, TypeOK, Slot, Statement, At, Goto, I, Enough, Unhurt, playerVars
<1>1. ASSUME NEW i \in Slot, GetCoin(i) PROVE Inv'
  <2>1. TypeOK'
    BY SMTT(30), <1>1 DEF GetCoin
  <2>9. TickInTime'
    BY <1>1 DEF GetCoin, TickInTime
  <2>2. DyingCounts'
    BY <1>1 DEF GetCoin, DyingCounts
  <2>3. SatisfiedIsRich'
    BY <1>1 DEF GetCoin, SatisfiedIsRich
  <2>4. TimeIsHeld'
    BY <1>1 DEF GetCoin, TimeIsHeld, SatisfiedIsRich
  <2>5. SawIsWinTime'
    BY <1>1 DEF GetCoin, SawIsWinTime
  <2>6. UnhurtWinnerHeld'
    BY <1>1 DEF GetCoin, UnhurtWinnerHeld
  <2>7. ClaimIsAnnounced'
    BY <1>1 DEF GetCoin, ClaimIsAnnounced
  <2>8. WinnerIsAnnounced'
    BY <1>1 DEF GetCoin, WinnerIsAnnounced
  <2> QED
    BY <2>1, <2>2, <2>3, <2>4, <2>5, <2>6, <2>7, <2>8, <2>9
<1>2. ASSUME NEW i \in Slot, BeginDie(i) PROVE Inv'
  <2>1. TypeOK'
    BY <1>2 DEF BeginDie
  <2>9. TickInTime'
    BY <1>2 DEF BeginDie, TickInTime
  <2>2. DyingCounts'
    BY <1>2 DEF BeginDie, DyingCounts
  <2>3. SatisfiedIsRich'
    BY <1>2 DEF BeginDie, SatisfiedIsRich
  <2>4. TimeIsHeld'
    BY <1>2 DEF BeginDie, TimeIsHeld, SatisfiedIsRich
  <2>5. SawIsWinTime'
    BY <1>2 DEF BeginDie, SawIsWinTime
  <2>6. UnhurtWinnerHeld'
    <3> SUFFICES ASSUME NEW k \in 1..Len(winners), deaths'[winners[k].winner] = 0
                 PROVE  winners[k].held >= NEED_TIME_TO_WIN
      BY <1>2 DEF BeginDie, UnhurtWinnerHeld
    <3>1. deaths[winners[k].winner] = 0
      BY SMTT(30), <1>2, WinnerType DEF BeginDie
    <3> QED
      BY <3>1 DEF UnhurtWinnerHeld
  <2>7. ClaimIsAnnounced'
    BY <1>2 DEF BeginDie, ClaimIsAnnounced
  <2>8. WinnerIsAnnounced'
    BY <1>2 DEF BeginDie, WinnerIsAnnounced
  <2> QED
    BY <2>1, <2>2, <2>3, <2>4, <2>5, <2>6, <2>7, <2>8, <2>9
<1>3. CASE DieCoin
  <2>1. TypeOK'
    BY <1>3 DEF DieCoin
  <2>9. TickInTime'
    BY <1>3 DEF DieCoin, TickInTime
  <2>2. DyingCounts'
    BY <1>3 DEF DieCoin, DyingCounts
  <2>3. SatisfiedIsRich'
    BY SMTT(40), <1>3 DEF DieCoin, SatisfiedIsRich, DyingCounts
  <2>4. TimeIsHeld'
    BY SMTT(30), <1>3 DEF DieCoin, TimeIsHeld, DyingCounts, SatisfiedIsRich
  <2>5. SawIsWinTime'
    BY <1>3 DEF DieCoin, SawIsWinTime, DyingCounts
  <2>6. UnhurtWinnerHeld'
    BY <1>3 DEF DieCoin, UnhurtWinnerHeld
  <2>7. ClaimIsAnnounced'
    BY <1>3 DEF DieCoin, ClaimIsAnnounced
  <2>8. WinnerIsAnnounced'
    BY <1>3 DEF DieCoin, WinnerIsAnnounced
  <2> QED
    BY <2>1, <2>2, <2>3, <2>4, <2>5, <2>6, <2>7, <2>8, <2>9
<1>4. CASE DieSatisfied
  <2>1. TypeOK'
    BY <1>4 DEF DieSatisfied
  <2>9. TickInTime'
    BY <1>4 DEF DieSatisfied, TickInTime
  <2>2. DyingCounts'
    BY <1>4 DEF DieSatisfied, DyingCounts
  <2>3. SatisfiedIsRich'
    BY <1>4 DEF DieSatisfied, SatisfiedIsRich, DyingCounts
  <2>4. TimeIsHeld'
    BY <1>4 DEF DieSatisfied, TimeIsHeld, DyingCounts, SatisfiedIsRich
  <2>5. SawIsWinTime'
    BY <1>4 DEF DieSatisfied, SawIsWinTime, DyingCounts
  <2>6. UnhurtWinnerHeld'
    BY <1>4 DEF DieSatisfied, UnhurtWinnerHeld
  <2>7. ClaimIsAnnounced'
    BY <1>4 DEF DieSatisfied, ClaimIsAnnounced
  <2>8. WinnerIsAnnounced'
    BY <1>4 DEF DieSatisfied, WinnerIsAnnounced
  <2> QED
    BY <2>1, <2>2, <2>3, <2>4, <2>5, <2>6, <2>7, <2>8, <2>9
<1>5. CASE DieTime
  <2>1. TypeOK'
    BY <1>5 DEF DieTime, NoWinTime
  <2>9. TickInTime'
    BY <1>5 DEF DieTime, TickInTime
  <2>2. DyingCounts'
    BY <1>5 DEF DieTime, NoWinTime, DyingCounts
  <2>3. SatisfiedIsRich'
    BY <1>5 DEF DieTime, NoWinTime, SatisfiedIsRich, DyingCounts
  <2>4. TimeIsHeld'
    BY SMTT(30), <1>5 DEF DieTime, NoWinTime, TimeIsHeld, DyingCounts, SatisfiedIsRich
  <2>5. SawIsWinTime'
    BY <1>5 DEF DieTime, NoWinTime, SawIsWinTime, DyingCounts
  <2>6. UnhurtWinnerHeld'
    BY <1>5 DEF DieTime, NoWinTime, UnhurtWinnerHeld
  <2>7. ClaimIsAnnounced'
    BY <1>5 DEF DieTime, ClaimIsAnnounced
  <2>8. WinnerIsAnnounced'
    BY <1>5 DEF DieTime, WinnerIsAnnounced
  <2> QED
    BY <2>1, <2>2, <2>3, <2>4, <2>5, <2>6, <2>7, <2>8, <2>9
<1> QED
  BY <1>1, <1>2, <1>3, <1>4, <1>5 DEF ProcMsg

LEMMA StutterKeepsInv == Inv /\ UNCHANGED vars => Inv'
<1> SUFFICES ASSUME Inv, UNCHANGED vars PROVE Inv'
  OBVIOUS
<1> USE DEF Inv, vars, playerVars
<1>1. TypeOK' /\ TickInTime' /\ DyingCounts'
  BY DEF TypeOK, TickInTime, DyingCounts
<1>2. SatisfiedIsRich' /\ TimeIsHeld' /\ SawIsWinTime' /\ ClaimIsAnnounced'
  BY DEF SatisfiedIsRich, TimeIsHeld, SawIsWinTime, ClaimIsAnnounced, Unhurt, At,
         I, Enough
<1>3. UnhurtWinnerHeld' /\ WinnerIsAnnounced'
  BY DEF UnhurtWinnerHeld, WinnerIsAnnounced
<1> QED
  BY <1>1, <1>2, <1>3

LEMMA Invariance == Spec => []Inv
  BY InitInv, TickKeepsInv, UpdateKeepsInv, StutterKeepsInv, PTL DEF Spec, Next

(* The room's fields keep their types in every interleaving of the two      *)
(* handlers; the clock of CheckGameState stops at zero.                     *)
THEOREM TypeCorrect == Spec => []TypeOK
  BY Invariance, PTL DEF Inv

(* A player who has not died wins only after holding WIN_COIN_CNT gems for  *)
(* NEED_TIME_TO_WIN seconds (CheckGameState against GET_COIN, Room.cpp:286  *)
(* and 858), for any times and any number of deaths of the other player.    *)
THEOREM UnhurtWinnerHeldCorrect == Spec => []UnhurtWinnerHeld
  BY Invariance, PTL DEF Inv

(* Nobody wins unannounced, deaths or not. *)
THEOREM WinnerIsAnnouncedCorrect == Spec => []WinnerIsAnnounced
  BY Invariance, PTL DEF Inv

(* Without deaths nobody wins otherwise: it is REQUEST_DIE alone that breaks *)
(* WinnerHeld in the races of these two handlers.                           *)
THEOREM WinnerHeldWithoutDeaths ==
  ASSUME MaxDie = 0
  PROVE  Spec => []WinnerHeld
<1>1. Inv => WinnerHeld
  <2> SUFFICES ASSUME Inv, NEW k \in 1..Len(winners)
               PROVE  winners[k].held >= NEED_TIME_TO_WIN
    BY DEF WinnerHeld
  <2>1. winners[k].winner \in Slot
    BY WinnerType DEF Inv
  <2>2. deaths[winners[k].winner] = 0
    BY <2>1, MaxDie = 0 DEF Inv, TypeOK
  <2> QED
    BY <2>2 DEF Inv, UnhurtWinnerHeld
<1> QED
  BY <1>1, Invariance, PTL

=============================================================================
