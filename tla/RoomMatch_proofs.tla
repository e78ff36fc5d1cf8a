--------------------------- MODULE RoomMatch_proofs ---------------------------
(***************************************************************************)
(* Theorems about RoomMatch, for every set of clients and every value of   *)
(* the constants.                                                          *)
(***************************************************************************)
EXTENDS RoomMatch, SequenceTheorems, TLAPS

(* The gem counter stays inside the table, whatever UB the end of the table *)
(* gives.                                                                   *)
LEMMA CoinCurInTable ==
  ASSUME coinCur \in 0..MAX_COIN, NEW k \in Nat
  PROVE  CoinCurPlus(k) \in 0..MAX_COIN
<1> USE GemAssumption
<1>1. CASE k = 0
  BY <1>1 DEF CoinCurPlus
<1>2. CASE k # 0
  <2> DEFINE n == coinCur + k - 1
  <2>1. n \in Nat
    BY <1>2
  <2>2. CASE n < MAX_COIN
    BY <1>2, <2>1, <2>2 DEF CoinCurPlus, GemId
  <2>3. CASE ~(n < MAX_COIN)
    <3>1. (n - MAX_COIN) % (MAX_COIN - 1) \in 0..(MAX_COIN - 2)
      BY <2>1, <2>3
    <3> QED
      BY <1>2, <2>1, <2>3, <3>1 DEF CoinCurPlus, GemId
  <2> QED
    BY <2>2, <2>3
<1> QED
  BY <1>1, <1>2

(* Gems a client is shown are gems it has an object for. *)
LEMMA ShownType ==
  ASSUME view \in [Client -> SUBSET Gem], NEW k
  PROVE  Shown(k) \in [Client -> SUBSET Gem]
BY DEF Shown

LEMMA TimerType ==
  ASSUME timer \in [Event -> [Seconds -> Nat]], NEW e \in Event
  PROVE  /\ \A s \in Seconds, n \in Nat : After(e, s, n) \in [Seconds -> Nat]
         /\ Due(e) => Ran(e) \in [Seconds -> Nat]
<1> DEFINE f == timer[e]
<1>1. f \in [Seconds -> Nat]
  OBVIOUS
<1> HIDE DEF f
<1>2. \A s \in Seconds, n \in Nat : [f EXCEPT ![s] = @ + n] \in [Seconds -> Nat]
  BY <1>1
<1>3. 0 \in Seconds
  BY TimeAssumption DEF Seconds
<1>4. f[0] > 0 => [f EXCEPT ![0] = @ - 1] \in [Seconds -> Nat]
  BY <1>1, <1>3
<1> QED
  BY <1>2, <1>4 DEF After, Ran, Due, f

(* The delays the room uses are in the range of the timer table. *)
LEMMA DelaysInRange ==
  /\ 0 \in Seconds /\ 1 \in Seconds
  /\ ADD_COIN_TIME \in Seconds /\ RESET_TIME \in Seconds
BY TimeAssumption DEF Seconds

-----------------------------------------------------------------------------
LEMMA InitType == Init => TypeOK
<1> SUFFICES ASSUME Init PROVE TypeOK
  OBVIOUS
<1>1. /\ id \in [Slot -> Client \cup {NoId}]
      /\ ready \in [Slot -> BOOLEAN] /\ coin \in [Slot -> Nat]
      /\ winSat \in [Slot -> BOOLEAN] /\ winTime \in [Slot -> Int]
  BY DEF Init
<1>2. inbox \in [Client -> Seq(Message)] /\ results \in Seq(Outcome)
  BY DEF Init
<1>3. leftTime \in 0..(LEFT_TIME_MOD - 1) /\ curPlayerNum \in Int
  BY TimeAssumption DEF Init
<1>4. readySent \in [Client -> 0..MaxReady] /\ dieSent \in [Client -> 0..MaxDie]
  BY BoundAssumption DEF Init
<1>5. coinCur \in 0..MAX_COIN
  BY GemAssumption DEF Init
<1>6. held \in [Slot -> 0..HeldCap]
  BY TimeAssumption DEF Init, HeldCap
<1>7. timer \in [Event -> [Seconds -> Nat]]
  BY DEF Init
<1>8. /\ at \in [Client -> {"matched", "joined", "gone"}]
      /\ view \in [Client -> SUBSET Gem] /\ askedFor \in [Client -> SUBSET Gem]
  BY DEF Init
<1>9. {started, roundStarted, erased, crashed} \subseteq BOOLEAN
  BY DEF Init
<1> QED
  BY <1>1, <1>2, <1>3, <1>4, <1>5, <1>6, <1>7, <1>8, <1>9 DEF TypeOK

LEMMA JoinType == ASSUME TypeOK, NEW c \in Client, Join(c) PROVE TypeOK'
<1>1. at' \in [Client -> {"matched", "joined", "gone"}]
  BY DEF TypeOK, Join, EnterRoom
<1>2. id' \in [Slot -> Client \cup {NoId}] /\ curPlayerNum' \in Int
  <2>1. CASE UNCHANGED <<curPlayerNum, id>>
    BY <2>1 DEF TypeOK
  <2>2. CASE \E i \in Slot : /\ id' = [id EXCEPT ![i] = c]
                             /\ curPlayerNum' = curPlayerNum + 1
    BY <2>2 DEF TypeOK
  <2> QED
    BY <2>1, <2>2 DEF Join, EnterRoom
<1> QED
  BY <1>1, <1>2 DEF TypeOK, Join, clockVars, historyVars

LEMMA CallErasedRoomType ==
  ASSUME TypeOK, NEW c \in Client, CallErasedRoom(c) PROVE TypeOK'
BY DEF TypeOK, CallErasedRoom, clientVars, playerVars, clockVars, historyVars

LEMMA SendType ==
  ASSUME TypeOK, NEW c \in Client, NEW m \in Message, Send(c, m)
  PROVE  inbox' \in [Client -> Seq(Message)]
<1>1. Append(inbox[c], m) \in Seq(Message)
  BY AppendProperties DEF TypeOK
<1> QED
  BY <1>1 DEF TypeOK, Send

LEMMA SendReadyType == ASSUME TypeOK, NEW c \in Client, SendReady(c) PROVE TypeOK'
<1>1. inbox' \in [Client -> Seq(Message)]
  BY SendType DEF SendReady, Ready, Message
<1>2. readySent' \in [Client -> 0..MaxReady]
  BY BoundAssumption DEF TypeOK, SendReady
<1> QED
  BY <1>1, <1>2 DEF TypeOK, SendReady, Send, playerVars, clockVars, historyVars

LEMMA PickUpType ==
  ASSUME TypeOK, NEW c \in Client, NEW g \in Gem, PickUp(c, g) PROVE TypeOK'
<1>1. inbox' \in [Client -> Seq(Message)]
  BY SendType DEF PickUp, GetCoin, Message
<1>2. view' \in [Client -> SUBSET Gem]
  BY DEF TypeOK, PickUp
<1> QED
  BY <1>1, <1>2 DEF TypeOK, PickUp, Send, playerVars, clockVars, historyVars

LEMMA DieType == ASSUME TypeOK, NEW c \in Client, Die(c) PROVE TypeOK'
<1>1. inbox' \in [Client -> Seq(Message)]
  BY SendType DEF Die, RequestDie, Message
<1>2. dieSent' \in [Client -> 0..MaxDie]
  BY BoundAssumption DEF TypeOK, Die
<1> QED
  BY <1>1, <1>2 DEF TypeOK, Die, Send, playerVars, clockVars, historyVars

LEMMA DisconnectType == ASSUME TypeOK, NEW c \in Client, Disconnect(c) PROVE TypeOK'
<1>1. held' \in [Slot -> 0..HeldCap]
  BY SMTT(30), TimeAssumption DEF TypeOK, Disconnect, LeaveRoom, Cleared, HeldCap
<1>2. erased' \in BOOLEAN
  BY DEF Disconnect, LeaveRoom, IsEmpty
<1>3. curPlayerNum' \in Int /\ at' \in [Client -> {"matched", "joined", "gone"}]
  BY DEF TypeOK, Disconnect, LeaveRoom
<1>4. /\ id' \in [Slot -> Client \cup {NoId}]
      /\ ready' \in [Slot -> BOOLEAN] /\ coin' \in [Slot -> Nat]
      /\ winSat' \in [Slot -> BOOLEAN] /\ winTime' \in [Slot -> Int]
  <2>1. \A f, v, S : f \in [Slot -> S] /\ v \in S => Cleared(c, f, v) \in [Slot -> S]
    BY DEF Cleared
  <2>2. NoId \in Client \cup {NoId} /\ FALSE \in BOOLEAN /\ 0 \in Nat /\ 0 \in Int
    OBVIOUS
  <2> QED
    BY <2>1, <2>2 DEF TypeOK, Disconnect, LeaveRoom, Initialize
<1> QED
  BY <1>1, <1>2, <1>3, <1>4 DEF TypeOK, Disconnect, LeaveRoom, clockVars

(* Taking a message, and what ClearCopyMsg leaves, are queues of messages. *)
LEMMA TakeType ==
  ASSUME TypeOK, NEW c \in Client, inbox[c] # <<>>
  PROVE  /\ Head(inbox[c]) \in Message
         /\ [inbox EXCEPT ![c] = Tail(@)] \in [Client -> Seq(Message)]
<1>1. Head(inbox[c]) \in Message /\ Tail(inbox[c]) \in Seq(Message)
  BY HeadTailProperties DEF TypeOK
<1> QED
  BY <1>1 DEF TypeOK

LEMMA CutType ==
  ASSUME NEW q \in Seq(Message), NEW n \in Nat
  PROVE  SubSeq(q, n + 1, Len(q)) \in Seq(Message)
<1>1. Len(q) \in Nat /\ \A i \in (n + 1)..Len(q) : q[i] \in Message
  BY LenProperties, ElementOfSeq
<1> QED
  BY <1>1, SubSeqProperties

LEMMA ProcReadyType == ASSUME TypeOK, NEW c \in Client, ProcReady(c) PROVE TypeOK'
<1> DEFINE rest == [inbox EXCEPT ![c] = Tail(@)]
<1>1. rest \in [Client -> Seq(Message)]
  BY TakeType DEF ProcReady, GameStart, historyVars
<1>2. inbox' \in [Client -> Seq(Message)]
  <2>1. CASE inbox' = rest
    BY <1>1, <2>1
  <2>2. CASE \E cut \in [Client -> 0..MaxInbox] :
               inbox' = [d \in Client |->
                           SubSeq(rest[d], cut[d] + 1, Len(rest[d]))]
    <3>1. PICK cut \in [Client -> 0..MaxInbox] :
               inbox' = [d \in Client |->
                           SubSeq(rest[d], cut[d] + 1, Len(rest[d]))]
      BY <2>2
    <3>2. \A d \in Client : cut[d] \in Nat /\ rest[d] \in Seq(Message)
      BY <1>1, BoundAssumption
    <3> HIDE DEF rest
    <3>3. \A d \in Client :
            SubSeq(rest[d], cut[d] + 1, Len(rest[d])) \in Seq(Message)
      BY <3>2, CutType
    <3> QED
      BY <3>1, <3>3
  <2> QED
    BY <2>1, <2>2 DEF ProcReady, GameStart, historyVars
<1>3. ready' \in [Slot -> BOOLEAN] /\ started' \in BOOLEAN
  BY DEF TypeOK, ProcReady, GameStart, Cleared
<1>4. curPlayerNum' \in Int /\ held' \in [Slot -> 0..HeldCap]
  <2>1. curPlayerNum' \in {curPlayerNum, curPlayerNum + 2}
    BY DEF ProcReady, GameStart, historyVars
  <2>2. held' \in {held, [i \in Slot |-> 0]}
    BY DEF ProcReady, GameStart, historyVars
  <2>3. [i \in Slot |-> 0] \in [Slot -> 0..HeldCap]
    BY TimeAssumption DEF HeldCap
  <2>4. held' \in [Slot -> 0..HeldCap]
    BY <2>2, <2>3 DEF TypeOK
  <2> QED
    BY <2>1, <2>4 DEF TypeOK
<1>5. results' \in Seq(Outcome)
  <2>1. results' \in {results, <<>>}
    BY DEF ProcReady, GameStart, historyVars
  <2> QED
    BY <2>1, EmptySeq DEF TypeOK
<1>6. timer' \in [Event -> [Seconds -> Nat]]
  <2>1. After("TICK", 1, 1) \in [Seconds -> Nat]
    BY TimerType, DelaysInRange DEF TypeOK, Event
  <2>2. timer' \in {timer, [timer EXCEPT !["TICK"] = After("TICK", 1, 1)]}
    BY DEF ProcReady, GameStart, historyVars
  <2> QED
    BY <2>1, <2>2 DEF TypeOK, Event
<1> QED
  BY <1>2, <1>3, <1>4, <1>5, <1>6 DEF TypeOK, ProcReady, clientVars, clockVars

LEMMA ProcGetCoinType ==
  ASSUME TypeOK, NEW c \in Client, ProcGetCoin(c) PROVE TypeOK'
<1>1. inbox' \in [Client -> Seq(Message)]
  BY TakeType DEF ProcGetCoin
<1>2. coin' \in [Slot -> Nat] /\ view' \in [Client -> SUBSET Gem]
  <2>1. CASE /\ coin' = [i \in Slot |-> IF id[i] = c THEN coin[i] + 1 ELSE coin[i]]
             /\ view' = [d \in Client |-> view[d] \ {Head(inbox[c]).gem}]
    BY <2>1 DEF TypeOK
  <2>2. CASE UNCHANGED <<coin, view>>
    BY <2>2 DEF TypeOK
  <2> QED
    BY <2>1, <2>2 DEF ProcGetCoin
<1> QED
  BY <1>1, <1>2 DEF TypeOK, ProcGetCoin, clientVars, clockVars, historyVars, MayCrash

LEMMA ProcRequestDieType ==
  ASSUME TypeOK, NEW c \in Client, ProcRequestDie(c) PROVE TypeOK'
<1>1. inbox' \in [Client -> Seq(Message)]
  BY TakeType DEF ProcRequestDie
<1>2. PICK i \in Slot :
        /\ LET k == IF started THEN coin[i] ELSE 0 IN
             /\ view' = Shown(k)
             /\ coinCur' = CoinCurPlus(k)
             /\ MayCrash(Vacant \/ (k > 0 /\ Overrun(k)))
        /\ coin' = [coin EXCEPT ![i] = 0]
        /\ ClaimLost(i)
        /\ winTime' = [winTime EXCEPT ![i] = NoWinTime]
        /\ held' = [held EXCEPT ![i] = 0]
  BY DEF ProcRequestDie
<1> DEFINE k == IF started THEN coin[i] ELSE 0
<1>3. k \in Nat
  BY DEF TypeOK
<1>4. view' = Shown(k) /\ coinCur' = CoinCurPlus(k)
  BY <1>2
<1>5. crashed' \in BOOLEAN
  BY <1>2 DEF MayCrash
<1> HIDE DEF k
<1>6. view' \in [Client -> SUBSET Gem] /\ coinCur' \in 0..MAX_COIN
  BY <1>3, <1>4, ShownType, CoinCurInTable DEF TypeOK
<1>7. coin' \in [Slot -> Nat] /\ winTime' \in [Slot -> Int]
  BY <1>2 DEF TypeOK, NoWinTime
<1>8. winSat' \in [Slot -> BOOLEAN]
  BY <1>2 DEF TypeOK, ClaimLost
<1>9. held' \in [Slot -> 0..HeldCap]
  BY SMTT(40), <1>2, TimeAssumption DEF TypeOK, HeldCap
<1> QED
  BY <1>1, <1>5, <1>6, <1>7, <1>8, <1>9
  DEF TypeOK, ProcRequestDie, clientVars, clockVars

LEMMA DropRequestDieType ==
  ASSUME TypeOK, NEW c \in Client, DropRequestDie(c) PROVE TypeOK'
<1>1. inbox' \in [Client -> Seq(Message)]
  BY TakeType DEF DropRequestDie
<1> QED
  BY <1>1
  DEF TypeOK, DropRequestDie, clientVars, playerVars, clockVars, historyVars, MayCrash

(* What one tick adds to the history are outcomes. *)
LEMMA ResultsType ==
  ASSUME TypeOK, NEW lt \in Int
  PROVE  Results(lt) \in Seq(Outcome)
<1>1. 0 \in 0..HeldCap
  BY TimeAssumption DEF HeldCap
<1>2. [winner |-> Draw, held |-> 0] \in Outcome
  BY <1>1 DEF Outcome
<1>3. \A i \in Slot : Result(i) \in Outcome
  BY DEF TypeOK, Result, Outcome
<1>4. \A x \in Outcome : <<x>> \in Seq(Outcome)
  OBVIOUS
<1>5. <<>> \in Seq(Outcome)
  BY EmptySeq
<1> DEFINE d == IF started /\ lt <= 0 THEN <<[winner |-> Draw, held |-> 0]>>
                                      ELSE <<>>
           a == IF Wins(0, lt) THEN <<Result(0)>> ELSE <<>>
           b == IF Wins(1, lt) THEN <<Result(1)>> ELSE <<>>
<1>6. d \in Seq(Outcome)
  BY <1>2, <1>4, <1>5
<1>7. a \in Seq(Outcome) /\ b \in Seq(Outcome)
  BY <1>3, <1>4, <1>5 DEF Slot
<1>8. Results(lt) = d \o a \o b
  BY DEF Results
<1> HIDE DEF d, a, b
<1>9. d \o a \in Seq(Outcome)
  BY <1>6, <1>7, ConcatProperties
<1> QED
  BY <1>7, <1>8, <1>9, ConcatProperties

LEMMA TickType == ASSUME TypeOK, Tick PROVE TypeOK'
<1> DEFINE lt    == (leftTime - 1) % LEFT_TIME_MOD
           drops == IF Opens(lt) /\ started THEN 1 ELSE 0
           next  == IF ClockGoesOn /\ started THEN 1 ELSE 0
           over  == Results(lt)
<1>1. lt \in 0..(LEFT_TIME_MOD - 1) /\ lt \in Int
  BY TimeAssumption DEF TypeOK
<1>2. drops \in Nat /\ next \in Nat
  OBVIOUS
<1>3. leftTime' = lt
  BY DEF Tick
<1>4. coinCur' = CoinCurPlus(drops) /\ results' = results \o over
  BY DEF Tick
<1>5. view' = Shown(drops) \/ view' = [c \in Client |-> {}]
  BY DEF Tick
<1>6. timer' = [timer EXCEPT
        !["TICK"]       = [Ran("TICK") EXCEPT ![1] = @ + next],
        !["ADD_COIN"]   = After("ADD_COIN", ADD_COIN_TIME, drops),
        !["RESET_ROOM"] = After("RESET_ROOM", RESET_TIME, Resets(over))]
  BY DEF Tick
<1>7. winTime' = [i \in Slot |-> WinTime(i, lt)]
  BY DEF Tick
<1>8. /\ roundStarted' \in BOOLEAN /\ started' \in BOOLEAN
      /\ winSat' \in [Slot -> BOOLEAN]
  BY DEF TypeOK, Tick, Opens, Satisfies
<1>9. crashed' \in BOOLEAN
  BY DEF Tick, MayCrash
<1>10. over \in Seq(Outcome)
  BY <1>1, ResultsType
<1> HIDE DEF lt, drops, next, over
<1>11. results' \in Seq(Outcome)
  BY <1>4, <1>10, ConcatProperties DEF TypeOK
<1>12. view' \in [Client -> SUBSET Gem]
  BY <1>5, ShownType DEF TypeOK
<1>13. coinCur' \in 0..MAX_COIN
  BY <1>2, <1>4, CoinCurInTable DEF TypeOK
<1>14. winTime' \in [Slot -> Int]
  BY <1>1, <1>7, TimeAssumption DEF TypeOK, WinTime
<1>15. timer' \in [Event -> [Seconds -> Nat]]
  <2>1. Resets(over) \in Nat
    BY <1>10, LenProperties DEF Resets
  <2>2. Ran("TICK") \in [Seconds -> Nat]
    BY TimerType DEF TypeOK, Tick, Event
  <2>3. [Ran("TICK") EXCEPT ![1] = @ + next] \in [Seconds -> Nat]
    BY <1>2, <2>2, DelaysInRange
  <2>4. After("ADD_COIN", ADD_COIN_TIME, drops) \in [Seconds -> Nat]
    BY <1>2, TimerType, DelaysInRange DEF TypeOK, Event
  <2>5. After("RESET_ROOM", RESET_TIME, Resets(over)) \in [Seconds -> Nat]
    BY <2>1, TimerType, DelaysInRange DEF TypeOK, Event
  <2> QED
    BY <1>6, <2>3, <2>4, <2>5 DEF TypeOK, Event
<1> QED
  BY <1>1, <1>3, <1>8, <1>9, <1>11, <1>12, <1>13, <1>14, <1>15
  DEF TypeOK, Tick, clientVars

LEMMA AddCoinType == ASSUME TypeOK, AddCoin PROVE TypeOK'
<1>1. Ran("ADD_COIN") \in [Seconds -> Nat]
  BY TimerType DEF TypeOK, AddCoin, Event
<1>2. [Ran("ADD_COIN") EXCEPT ![ADD_COIN_TIME] = @ + 1] \in [Seconds -> Nat]
  BY <1>1, DelaysInRange
<1>3. timer' \in [Event -> [Seconds -> Nat]]
  BY <1>1, <1>2 DEF TypeOK, AddCoin, Event
<1>4. view' \in [Client -> SUBSET Gem] /\ coinCur' \in 0..MAX_COIN
  <2>1. CASE view' = Shown(1) /\ coinCur' = CoinCurPlus(1)
    BY <2>1, ShownType, CoinCurInTable DEF TypeOK
  <2>2. CASE UNCHANGED <<view, coinCur>>
    BY <2>2 DEF TypeOK
  <2> QED
    BY <2>1, <2>2 DEF AddCoin
<1>5. crashed' \in BOOLEAN
  BY DEF TypeOK, AddCoin, MayCrash
<1> QED
  BY <1>3, <1>4, <1>5
  DEF TypeOK, AddCoin, clientVars, playerVars, clockVars, historyVars

LEMMA ResetRoomType == ASSUME TypeOK, ResetRoom PROVE TypeOK'
<1>1. Ran("RESET_ROOM") \in [Seconds -> Nat]
  BY TimerType DEF TypeOK, ResetRoom, Event
<1>2. timer' \in [Event -> [Seconds -> Nat]]
  BY <1>1 DEF TypeOK, ResetRoom, Event
<1>3. leftTime' \in 0..(LEFT_TIME_MOD - 1)
  BY TimeAssumption DEF ResetRoom
<1>4. ready' \in [Slot -> BOOLEAN]
  BY DEF ResetRoom
<1>5. curPlayerNum' \in Int
  BY DEF ResetRoom
<1>6. roundStarted' \in BOOLEAN
  BY DEF ResetRoom
<1> QED
  BY <1>2, <1>3, <1>4, <1>5, <1>6 DEF TypeOK, ResetRoom, clientVars, historyVars

LEMMA ElapseType == ASSUME TypeOK, Elapse PROVE TypeOK'
<1>1. timer' \in [Event -> [Seconds -> Nat]]
  <2>1. \A e \in Event :
          [s \in Seconds |-> IF s + 1 \in Seconds THEN timer[e][s + 1] ELSE 0]
            \in [Seconds -> Nat]
    BY DEF TypeOK
  <2> QED
    BY <2>1 DEF Elapse
<1>2. held' \in [Slot -> 0..HeldCap]
  BY TimeAssumption DEF TypeOK, Elapse, HeldCap
<1> QED
  BY <1>1, <1>2 DEF TypeOK, Elapse, clientVars, playerVars, clockVars

-----------------------------------------------------------------------------
(* The type invariant, for every instance: in particular the gem counter    *)
(* stays inside m_coins even when the table overruns into it, and the       *)
(* unsigned clock inside its byte.                                          *)
THEOREM TypeCorrect == Spec => []TypeOK
<1>1. Init => TypeOK
  BY InitType
<1>2. TypeOK /\ [Next]_vars => TypeOK'
  <2> SUFFICES ASSUME TypeOK, [Next]_vars PROVE TypeOK'
    OBVIOUS
  <2>1. ASSUME NEW c \in Client, ClientStep(c) PROVE TypeOK'
    BY <2>1, JoinType, CallErasedRoomType, SendReadyType, DieType,
       DisconnectType, PickUpType DEF ClientStep
  <2>2. ASSUME NEW c \in Client, ProcMsg(c) PROVE TypeOK'
    BY <2>2, ProcReadyType, ProcGetCoinType, ProcRequestDieType,
       DropRequestDieType DEF ProcMsg
  <2>3. CASE TimerEvent
    BY <2>3, TickType, AddCoinType, ResetRoomType DEF TimerEvent
  <2>4. CASE Elapse
    BY <2>4, ElapseType
  <2>5. CASE UNCHANGED vars
    BY <2>5 DEF TypeOK, vars, clientVars, playerVars, clockVars, historyVars
  <2> QED
    BY <2>1, <2>2, <2>3, <2>4, <2>5 DEF Next
<1> QED
  BY <1>1, <1>2, PTL DEF Spec

-----------------------------------------------------------------------------
(* The inductive invariant of the safety theorems.  WinnerIsPlayer does not *)
(* follow from itself: GameOver names the slot whose player is satisfied,   *)
(* a satisfied player has gems, and a free slot has none.                   *)
Inv == TypeOK /\ SatisfiedHasCoins /\ FreeSlotIsBlank /\ WinnerIsPlayer

LEMMA InvInit == Init => Inv
BY InitType, GemAssumption
DEF Init, Inv, SatisfiedHasCoins, FreeSlotIsBlank, WinnerIsPlayer

(* Steps that leave the players and the outcomes alone. *)
LEMMA InvFrame ==
  ASSUME Inv, TypeOK', UNCHANGED <<playerVars, results>> PROVE Inv'
BY DEF Inv, SatisfiedHasCoins, FreeSlotIsBlank, WinnerIsPlayer, playerVars

LEMMA InvJoin == ASSUME Inv, NEW c \in Client, Join(c) PROVE Inv'
<1>1. TypeOK'
  BY JoinType DEF Inv
<1>2. id' = id \/ \E i \in Slot : id' = [id EXCEPT ![i] = c]
  BY DEF Join, EnterRoom
<1>3. FreeSlotIsBlank'
  BY <1>2, ClientAssumption DEF Inv, TypeOK, Join, FreeSlotIsBlank
<1>4. SatisfiedHasCoins' /\ WinnerIsPlayer'
  BY DEF Inv, Join, SatisfiedHasCoins, WinnerIsPlayer, historyVars
<1> QED
  BY <1>1, <1>3, <1>4 DEF Inv

LEMMA InvDisconnect == ASSUME Inv, NEW c \in Client, Disconnect(c) PROVE Inv'
<1>1. TypeOK'
  BY DisconnectType DEF Inv
<1>2. \A i \in Slot :
        IF id[i] = c
        THEN id'[i] = NoId /\ ~ready'[i] /\ coin'[i] = 0 /\ ~winSat'[i]
        ELSE /\ id'[i] = id[i] /\ ready'[i] = ready[i]
             /\ coin'[i] = coin[i] /\ winSat'[i] = winSat[i]
  BY DEF Disconnect, LeaveRoom, Initialize, Cleared
<1>3. SatisfiedHasCoins' /\ FreeSlotIsBlank'
  BY <1>2 DEF Inv, SatisfiedHasCoins, FreeSlotIsBlank
<1>4. WinnerIsPlayer'
  BY DEF Inv, Disconnect, LeaveRoom, WinnerIsPlayer
<1> QED
  BY <1>1, <1>3, <1>4 DEF Inv

LEMMA InvProcReady == ASSUME Inv, NEW c \in Client, ProcReady(c) PROVE Inv'
<1>1. TypeOK'
  BY ProcReadyType DEF Inv
<1>2. FreeSlotIsBlank'
  BY ClientAssumption DEF Inv, TypeOK, ProcReady, FreeSlotIsBlank, Cleared
<1>3. SatisfiedHasCoins'
  BY DEF Inv, ProcReady, SatisfiedHasCoins
<1>4. WinnerIsPlayer'
  <2>1. CASE results' = results
    BY <2>1 DEF Inv, WinnerIsPlayer
  <2>2. CASE results' = <<>>
    BY <2>2 DEF WinnerIsPlayer
  <2> QED
    BY <2>1, <2>2 DEF ProcReady, GameStart, historyVars
<1> QED
  BY <1>1, <1>2, <1>3, <1>4 DEF Inv

LEMMA InvProcGetCoin == ASSUME Inv, NEW c \in Client, ProcGetCoin(c) PROVE Inv'
<1>1. TypeOK'
  BY ProcGetCoinType DEF Inv
<1>2. \A i \in Slot : coin'[i] = coin[i] \/ (id[i] = c /\ coin'[i] = coin[i] + 1)
  BY DEF Inv, TypeOK, ProcGetCoin
<1>3. SatisfiedHasCoins'
  <2> SUFFICES ASSUME NEW i \in Slot, winSat'[i] PROVE coin'[i] >= WIN_COIN_CNT
    BY DEF SatisfiedHasCoins
  <2>1. winSat[i]
    BY DEF ProcGetCoin
  <2>2. coin[i] >= WIN_COIN_CNT /\ coin[i] \in Nat
    BY <2>1 DEF Inv, TypeOK, SatisfiedHasCoins
  <2> QED
    BY <1>2, <2>2, GemAssumption
<1>4. FreeSlotIsBlank'
  BY <1>2, ClientAssumption DEF Inv, TypeOK, ProcGetCoin, FreeSlotIsBlank
<1>5. WinnerIsPlayer'
  BY DEF Inv, ProcGetCoin, WinnerIsPlayer, historyVars
<1> QED
  BY <1>1, <1>3, <1>4, <1>5 DEF Inv

LEMMA InvProcRequestDie ==
  ASSUME Inv, NEW c \in Client, ProcRequestDie(c) PROVE Inv'
<1>1. TypeOK'
  BY ProcRequestDieType DEF Inv
<1>2. PICK i \in Slot : /\ coin' = [coin EXCEPT ![i] = 0]
                        /\ winSat' = [winSat EXCEPT ![i] = FALSE]
  BY DEF ProcRequestDie, ClaimLost
<1>3. SatisfiedHasCoins'
  BY <1>2 DEF Inv, TypeOK, SatisfiedHasCoins
<1>4. FreeSlotIsBlank'
  BY <1>2 DEF Inv, TypeOK, ProcRequestDie, FreeSlotIsBlank
<1>5. WinnerIsPlayer'
  BY DEF Inv, ProcRequestDie, WinnerIsPlayer
<1> QED
  BY <1>1, <1>3, <1>4, <1>5 DEF Inv

(* A player for whom GameOver is called has the gems, so the slot is taken. *)
LEMMA WinnerOccupies ==
  ASSUME Inv, NEW i \in Slot, NEW lt \in Int, Wins(i, lt)
  PROVE  id[i] # NoId
<1>1. coin[i] >= WIN_COIN_CNT
  BY DEF Inv, SatisfiedHasCoins, Wins, Satisfies
<1> QED
  BY <1>1, GemAssumption DEF Inv, TypeOK, FreeSlotIsBlank

LEMMA ResultsNameOccupied ==
  ASSUME Inv, NEW lt \in Int
  PROVE  \A k \in 1..Len(Results(lt)) : Results(lt)[k].winner # NoId
<1> DEFINE P(x) == x.winner # NoId
           S == {x \in Outcome : P(x)}
           d == IF started /\ lt <= 0 THEN <<[winner |-> Draw, held |-> 0]>>
                                      ELSE <<>>
           a == IF Wins(0, lt) THEN <<Result(0)>> ELSE <<>>
           b == IF Wins(1, lt) THEN <<Result(1)>> ELSE <<>>
<1>1. [winner |-> Draw, held |-> 0] \in S
  <2>1. 0 \in 0..HeldCap
    BY TimeAssumption DEF HeldCap
  <2> QED
    BY <2>1 DEF Outcome, Draw, NoId
<1>2. \A i \in Slot : Wins(i, lt) => Result(i) \in S
  BY WinnerOccupies DEF Inv, TypeOK, Result, Outcome
<1>3. <<>> \in Seq(S) /\ \A x \in S : <<x>> \in Seq(S)
  BY EmptySeq
<1> HIDE DEF S
<1>4. d \in Seq(S)
  BY <1>1, <1>3
<1>5. a \in Seq(S) /\ b \in Seq(S)
  BY <1>2, <1>3 DEF Slot
<1>6. Results(lt) = d \o a \o b
  BY DEF Results
<1> HIDE DEF d, a, b
<1>7. d \o a \in Seq(S)
  BY <1>4, <1>5, ConcatProperties
<1>8. Results(lt) \in Seq(S)
  BY <1>5, <1>6, <1>7, ConcatProperties
<1>9. \A k \in 1..Len(Results(lt)) : Results(lt)[k] \in S
  BY <1>8, ElementOfSeq
<1> QED
  BY <1>9 DEF S

LEMMA InvTick == ASSUME Inv, Tick PROVE Inv'
<1> DEFINE lt == (leftTime - 1) % LEFT_TIME_MOD
<1>1. TypeOK'
  BY TickType DEF Inv
<1>2. lt \in Int
  BY TimeAssumption DEF Inv, TypeOK
<1>3. SatisfiedHasCoins'
  BY DEF Inv, TypeOK, Tick, Satisfies, SatisfiedHasCoins
<1>4. FreeSlotIsBlank'
  BY DEF Inv, Tick, FreeSlotIsBlank
<1>5. WinnerIsPlayer'
  <2>1. results' = results \o Results(lt)
    BY DEF Tick
  <2>2. results \in Seq(Outcome) /\ Results(lt) \in Seq(Outcome)
    BY <1>2, ResultsType DEF Inv, TypeOK
  <2>3. \A k \in 1..Len(Results(lt)) : Results(lt)[k].winner # NoId
    BY <1>2, ResultsNameOccupied
  <2>4. \A k \in 1..Len(results) : results[k].winner # NoId
    BY DEF Inv, WinnerIsPlayer
  <2> DEFINE over == Results(lt)
  <2> HIDE DEF over
  <2>5. Len(results) \in Nat /\ Len(over) \in Nat
    BY <2>2, LenProperties DEF over
  <2>6. /\ Len(results \o over) = Len(results) + Len(over)
        /\ \A k \in 1..(Len(results) + Len(over)) :
             (results \o over)[k] = IF k <= Len(results) THEN results[k]
                                    ELSE over[k - Len(results)]
    BY <2>2, ConcatProperties DEF over
  <2>7. \A k \in 1..Len(results \o over) : (results \o over)[k].winner # NoId
    <3> SUFFICES ASSUME NEW k \in 1..(Len(results) + Len(over))
                 PROVE  (results \o over)[k].winner # NoId
      BY <2>6
    <3>1. CASE k <= Len(results)
      BY <2>4, <2>5, <2>6, <3>1
    <3>2. CASE ~(k <= Len(results))
      <4>1. k - Len(results) \in 1..Len(over)
        BY <2>5, <3>2
      <4> QED
        BY <2>3, <2>6, <3>2, <4>1 DEF over
    <3> QED
      BY <3>1, <3>2
  <2> QED
    BY <2>1, <2>7 DEF WinnerIsPlayer, over
<1> QED
  BY <1>1, <1>3, <1>4, <1>5 DEF Inv

LEMMA InvResetRoom == ASSUME Inv, ResetRoom PROVE Inv'
<1>1. TypeOK'
  BY ResetRoomType DEF Inv
<1> QED
  BY <1>1 DEF Inv, ResetRoom, SatisfiedHasCoins, FreeSlotIsBlank,
              WinnerIsPlayer, historyVars

LEMMA InvNext == Inv /\ [Next]_vars => Inv'
<1> SUFFICES ASSUME Inv, [Next]_vars PROVE Inv'
  OBVIOUS
<1>1. TypeOK
  BY DEF Inv
<1>2. ASSUME NEW c \in Client, ClientStep(c) PROVE Inv'
  <2>1. CASE Join(c)
    BY <2>1, InvJoin
  <2>2. CASE CallErasedRoom(c)
    BY <1>1, <2>2, CallErasedRoomType, InvFrame DEF CallErasedRoom, historyVars
  <2>3. CASE SendReady(c)
    BY <1>1, <2>3, SendReadyType, InvFrame DEF SendReady, Send, historyVars
  <2>4. CASE Die(c)
    BY <1>1, <2>4, DieType, InvFrame DEF Die, Send, historyVars
  <2>5. CASE Disconnect(c)
    BY <2>5, InvDisconnect
  <2>6. ASSUME NEW g \in Gem, PickUp(c, g) PROVE Inv'
    BY <1>1, <2>6, PickUpType, InvFrame DEF PickUp, Send, historyVars
  <2> QED
    BY <1>2, <2>1, <2>2, <2>3, <2>4, <2>5, <2>6 DEF ClientStep
<1>3. ASSUME NEW c \in Client, ProcMsg(c) PROVE Inv'
  <2>1. CASE DropRequestDie(c)
    BY <1>1, <2>1, DropRequestDieType, InvFrame DEF DropRequestDie, historyVars
  <2> QED
    BY <1>3, <2>1, InvProcReady, InvProcGetCoin, InvProcRequestDie DEF ProcMsg
<1>4. CASE TimerEvent
  <2>1. CASE AddCoin
    BY <1>1, <2>1, AddCoinType, InvFrame DEF AddCoin, historyVars
  <2> QED
    BY <1>4, <2>1, InvTick, InvResetRoom DEF TimerEvent
<1>5. CASE Elapse
  BY <1>1, <1>5, ElapseType, InvFrame DEF Elapse
<1>6. CASE UNCHANGED vars
  BY <1>6 DEF Inv, TypeOK, SatisfiedHasCoins, FreeSlotIsBlank, WinnerIsPlayer,
              vars, clientVars, playerVars, clockVars, historyVars
<1> QED
  BY <1>2, <1>3, <1>4, <1>5, <1>6 DEF Next

(* Inv is an inductive invariant of the room. *)
THEOREM InvCorrect == Spec => []Inv
BY InvInit, InvNext, PTL DEF Spec

(* Whoever counts down to a win has the gems, whatever the players do, in   *)
(* rematches too.                                                           *)
THEOREM SatisfiedHasCoinsCorrect == Spec => []SatisfiedHasCoins
<1>1. Inv => SatisfiedHasCoins
  BY DEF Inv
<1> QED
  BY <1>1, InvCorrect, PTL

(* A slot that is free is blank. *)
THEOREM FreeSlotIsBlankCorrect == Spec => []FreeSlotIsBlank
<1>1. Inv => FreeSlotIsBlank
  BY DEF Inv
<1> QED
  BY <1>1, InvCorrect, PTL

(* GameOver never names a player who has left. *)
THEOREM WinnerIsPlayerCorrect == Spec => []WinnerIsPlayer
<1>1. Inv => WinnerIsPlayer
  BY DEF Inv
<1> QED
  BY <1>1, InvCorrect, PTL

(* A match starts only when both slots are taken. *)
THEOREM StartsWithBothCorrect == Spec => StartsWithBoth
<1> DEFINE A == ~started /\ started' => \A i \in Slot : id[i] # NoId
<1>1. ASSUME Inv, [Next]_vars PROVE A
  <2> SUFFICES ASSUME ~started, started', NEW i \in Slot PROVE id[i] # NoId
    OBVIOUS
  <2>1. PICK c \in Client : ProcReady(c)
    BY <1>1 DEF Next, ClientStep, ProcMsg, TimerEvent, Join, CallErasedRoom,
                SendReady, Die, PickUp, Send, Disconnect, ProcGetCoin,
                ProcRequestDie, DropRequestDie, Tick, AddCoin, ResetRoom,
                Elapse, vars
  <2>2. Cleared(c, ready, TRUE)[i]
    BY <2>1 DEF ProcReady, GameStart, historyVars
  <2> QED
    BY <1>1, <2>2, ClientAssumption DEF Inv, TypeOK, FreeSlotIsBlank, Cleared
<1>2. Inv /\ [Next]_vars => [A]_vars
  BY <1>1
<1> QED
  BY <1>2, InvCorrect, PTL DEF Spec, StartsWithBoth
=============================================================================
