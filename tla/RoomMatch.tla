------------------------------ MODULE RoomMatch ------------------------------
(***************************************************************************)
(* One Room of the battle server, from the moment the lobby's request has  *)
(* created it until it is erased: the two players who join, the ready      *)
(* check, the one-second clock, the gems, the win condition, game over,    *)
(* the reset that follows it, and disconnects.                             *)
(*                                                                         *)
(* Each handler (a message taken from the room's queue by Room::Update, a  *)
(* timer event run by a worker, a disconnect) is one atomic step here; what *)
(* two workers do to one room inside a handler is not modelled.            *)
(* Time is discrete: Elapse is one second, and it waits until every timer  *)
(* event that is due has been run.                                         *)
(***************************************************************************)
EXTENDS Integers, Sequences, FiniteSets

CONSTANTS
  Client,            \* battle ids of the two clients the lobby paired
  MAX_LEFT_TIME,     \* seconds of a match, countdown included    (code: 183)
  COUNTDOWN_TIME,    \* seconds before the round starts             (code: 3)
  NEED_TIME_TO_WIN,  \* seconds the gems have to be held           (code: 15)
  WIN_COIN_CNT,      \* gems that have to be held                  (code: 10)
  ADD_COIN_TIME,     \* seconds between two gems from the chest     (code: 5)
  RESET_TIME,        \* seconds from game over to the reset         (code: 5)
  MAX_GEM_COUNT,     \* gem objects a client owns                  (code: 32)
  MAX_COIN,          \* entries of the room's gem table           (code: 100)
  LEFT_TIME_MOD,     \* m_leftTime is an unsigned char            (code: 256)
  MaxReady,          \* bound: READY messages of one client; more than one
                     \* needs the client to re-enter the matching room
  MaxDie,            \* bound: REQUEST_DIE messages of one client
  MaxInbox,          \* bound: messages of one client on their way to the room
  MaxHold,           \* bound: a client with so many gems picks up no more
  MayLeave           \* bound: whether clients disconnect

NoId == -1           \* a free slot's m_id
Draw == 0            \* GameOver(0)
NoWinTime == 999     \* the win time REQUEST_DIE stores

ASSUME ClientAssumption == /\ NoId \notin Client /\ Draw \notin Client
                           /\ IsFiniteSet(Client)
(* GameStart starts the clock only when a second is left after the first.  *)
ASSUME TimeAssumption ==
  /\ {MAX_LEFT_TIME, NEED_TIME_TO_WIN, ADD_COIN_TIME, RESET_TIME}
       \subseteq Nat \ {0}
  /\ MAX_LEFT_TIME > 1
  /\ COUNTDOWN_TIME \in 0..MAX_LEFT_TIME
  /\ LEFT_TIME_MOD \in Nat /\ LEFT_TIME_MOD > MAX_LEFT_TIME
ASSUME GemAssumption ==
  /\ WIN_COIN_CNT \in Nat \ {0}
  /\ MAX_GEM_COUNT \in Nat \ {0}
  /\ MAX_COIN \in Nat \ {0, 1}
ASSUME BoundAssumption == /\ {MaxReady, MaxDie, MaxInbox, MaxHold} \subseteq Nat
                          /\ MayLeave \in BOOLEAN

VARIABLES
  at,            \* client: "matched" (told the room), "joined" or "gone"
  readySent,     \* client: READY messages sent
  dieSent,       \* client: REQUEST_DIE messages sent
  view,          \* client: the gems it shows
  askedFor,      \* history, client: the gems it has asked for
  inbox,         \* client: its messages not yet taken by ProcMsg, in order
  id,            \* m_players[i]: m_id; NoId exactly for m_isEmpty
  ready,         \*   m_isReady
  coin,          \*   m_coin_cnt
  winSat,        \*   m_winSatisfaction
  winTime,       \*   m_winTime
  started,       \* m_isGameStarted
  roundStarted,  \* m_isRoundStarted
  leftTime,      \* m_leftTime
  curPlayerNum,  \* m_curPlayerNum
  coinCur,       \* m_coin_cur
  timer,         \* pending timer events, by type and seconds left
  erased,        \* the room has been taken out of g_rooms
  crashed,       \* the process has been stopped by an access violation
  held,          \* history: seconds a slot has held enough gems, this match
  results        \* history: the GameOver calls of the last match

clientVars  == <<at, readySent, dieSent, askedFor>>
playerVars  == <<id, ready, coin, winSat, winTime>>
clockVars   == <<roundStarted, leftTime>>
historyVars == <<held, results>>
vars == <<clientVars, view, inbox, playerVars, started, clockVars, curPlayerNum,
          coinCur, timer, erased, crashed, historyVars>>

Slot    == {0, 1}
Gem     == 0..(MAX_GEM_COUNT - 1)
Event   == {"TICK", "ADD_COIN", "RESET_ROOM"}
Seconds == 0..(1 + ADD_COIN_TIME + RESET_TIME)
Message == [type : {"READY", "REQUEST_DIE"}]
           \cup [type : {"GET_COIN"}, gem : Gem]

HeldCap == NEED_TIME_TO_WIN + 2   \* bound of the history count
Outcome == [winner : Client \cup {NoId, Draw}, held : 0..HeldCap]

Ready       == [type |-> "READY"]
RequestDie  == [type |-> "REQUEST_DIE"]
GetCoin(g)  == [type |-> "GET_COIN", gem |-> g]

InRoom(c)  == \E i \in Slot : id[i] = c
NobodyIn   == \A i \in Slot : id[i] = NoId
Vacant     == \E i \in Slot : id[i] = NoId
IsEmpty(n) == n <= 0        \* Room::IsEmpty looks at m_curPlayerNum only

Running == ~crashed /\ ~erased
Due(e)  == timer[e][0] > 0

TypeOK ==
  /\ at \in [Client -> {"matched", "joined", "gone"}]
  /\ readySent \in [Client -> 0..MaxReady]
  /\ dieSent \in [Client -> 0..MaxDie]
  /\ view \in [Client -> SUBSET Gem]
  /\ askedFor \in [Client -> SUBSET Gem]
  /\ inbox \in [Client -> Seq(Message)]
  /\ id \in [Slot -> Client \cup {NoId}]
  /\ ready \in [Slot -> BOOLEAN]
  /\ coin \in [Slot -> Nat]
  /\ winSat \in [Slot -> BOOLEAN]
  /\ winTime \in [Slot -> Int]
  /\ started \in BOOLEAN
  /\ roundStarted \in BOOLEAN
  /\ leftTime \in 0..(LEFT_TIME_MOD - 1)
  /\ curPlayerNum \in Int
  /\ coinCur \in 0..MAX_COIN
  /\ timer \in [Event -> [Seconds -> Nat]]
  /\ erased \in BOOLEAN
  /\ crashed \in BOOLEAN
  /\ held \in [Slot -> 0..HeldCap]
  /\ results \in Seq(Outcome)

(* Room::Initialize, run by LB_REQUEST_ROOM: both clients have been told *)
(* the room number and none has joined yet.                              *)
Init ==
  /\ at = [c \in Client |-> "matched"]
  /\ readySent = [c \in Client |-> 0]
  /\ dieSent = [c \in Client |-> 0]
  /\ view = [c \in Client |-> {}]
  /\ askedFor = [c \in Client |-> {}]
  /\ inbox = [c \in Client |-> <<>>]
  /\ id = [i \in Slot |-> NoId]
  /\ ready = [i \in Slot |-> FALSE]
  /\ coin = [i \in Slot |-> 0]
  /\ winSat = [i \in Slot |-> FALSE]
  /\ winTime = [i \in Slot |-> 0]
  /\ started = FALSE
  /\ roundStarted = FALSE
  /\ leftTime = MAX_LEFT_TIME
  /\ curPlayerNum = 0
  /\ coinCur = 0
  /\ timer = [e \in Event |-> [s \in Seconds |-> 0]]
  /\ erased = FALSE
  /\ crashed = FALSE
  /\ held = [i \in Slot |-> 0]
  /\ results = <<>>

-----------------------------------------------------------------------------
(* Gems.  m_coin_cur counts the gems of the room and is never reset.  The   *)
(* table m_coins is written and never read, so only its end matters:        *)
(* m_coins[MAX_COIN] is the low byte of m_coin_cur, which follows it in     *)
(* memory, so the release build goes on with id 1; the debug build's index  *)
(* check stops the process.                                                 *)

(* Mutant: the index grows past the table. *)
GemIdUnbound(n) == n

GemId(n) == IF n < MAX_COIN THEN n ELSE 1 + ((n - MAX_COIN) % (MAX_COIN - 1))

(* Mutant: the first new gem takes the last id again. *)
NewGemsReused(k) == {GemId(n) : n \in (coinCur - 1)..(coinCur + k - 1)} \cap Nat

(* The ids of k new gems, and m_coin_cur after them. *)
NewGems(k)     == {GemId(n) : n \in coinCur..(coinCur + k - 1)}
CoinCurPlus(k) == IF k = 0 THEN coinCur ELSE GemId(coinCur + k - 1) + 1
Overrun(k)     == coinCur + k > MAX_COIN

(* PushAddCoinMsg: both clients show the gems they have an object for. *)
Shown(k) == [c \in Client |-> view[c] \cup (NewGems(k) \cap Gem)]

(* A step that may have run into undefined behaviour: it stops the process *)
(* or it does not.  A broadcast to the players of a Vacant room is one: it *)
(* is sent to the free slot's g_clients[-1] too.                           *)
MayCrash(bad) == crashed' \in IF bad THEN BOOLEAN ELSE {FALSE}

After(e, s, n) == [timer[e] EXCEPT ![s] = @ + n]
Ran(e)         == [timer[e] EXCEPT ![0] = @ - 1]

-----------------------------------------------------------------------------
(* Room::EnterRoom puts the client into the first free slot; it refuses     *)
(* when the counter says the room is full.  What AnnounceRoomEnter runs     *)
(* into depends on battle ids and is in BattleRooms.                        *)
EnterRoom(c) ==
  LET free == {i \in Slot : id[i] = NoId} IN
  IF curPlayerNum < 2 /\ free # {}
  THEN /\ curPlayerNum' = curPlayerNum + 1
       /\ \E i \in free : /\ \A j \in free : i <= j
                          /\ id' = [id EXCEPT ![i] = c]
  ELSE UNCHANGED <<curPlayerNum, id>>

(* CB_JOIN.  A room that is gone is not answered, one whose round has       *)
(* started or that is full answers a failure.                               *)
Join(c) ==
  /\ ~crashed
  /\ at[c] = "matched"
  /\ at' = [at EXCEPT ![c] = "joined"]
  /\ IF ~erased /\ ~roundStarted THEN EnterRoom(c)
                                 ELSE UNCHANGED <<curPlayerNum, id>>
  /\ UNCHANGED <<readySent, dieSent, askedFor, view, inbox, ready, coin, winSat,
                 winTime, started, clockVars, coinCur, timer, erased,
                 crashed, historyVars>>

(* Any message of a client whose room has been erased is pushed through a   *)
(* null Room pointer, and so is its disconnect.                             *)
CallErasedRoom(c) ==
  /\ ~crashed /\ erased
  /\ InRoom(c) /\ at[c] = "joined"
  /\ crashed' = TRUE
  /\ UNCHANGED <<clientVars, view, inbox, playerVars, started, clockVars,
                 curPlayerNum, coinCur, timer, erased, historyVars>>

Send(c, m) ==
  /\ Running
  /\ InRoom(c)
  /\ Len(inbox[c]) < MaxInbox
  /\ inbox' = [inbox EXCEPT ![c] = Append(@, m)]
  /\ UNCHANGED <<at, playerVars, started, clockVars, curPlayerNum, coinCur,
                 timer, erased, crashed, historyVars>>

(* The ready button of the matching room: one READY per visit to it. *)
SendReady(c) ==
  /\ readySent[c] < MaxReady
  /\ readySent' = [readySent EXCEPT ![c] = @ + 1]
  /\ Send(c, Ready)
  /\ UNCHANGED <<dieSent, askedFor, view>>

(* The client hides a gem it touches and reports it. *)
PickUp(c, g) ==
  /\ \E i \in Slot : id[i] = c /\ coin[i] < MaxHold
  /\ g \in view[c]
  /\ view' = [view EXCEPT ![c] = @ \ {g}]
  /\ askedFor' = [askedFor EXCEPT ![c] = @ \cup {g}]
  /\ Send(c, GetCoin(g))
  /\ UNCHANGED <<readySent, dieSent>>

(* A client reports its own death; it is in the play scene since GameStart. *)
Die(c) ==
  /\ started \/ results # <<>>
  /\ dieSent[c] < MaxDie
  /\ dieSent' = [dieSent EXCEPT ![c] = @ + 1]
  /\ Send(c, RequestDie)
  /\ UNCHANGED <<readySent, askedFor, view>>

(* Player::Initialize on the slot of a client that leaves.  Mutants: the    *)
(* ready flag survives; the gems and the claim to the win survive.          *)
Cleared(c, f, v) == [i \in Slot |-> IF id[i] = c THEN v ELSE f[i]]

InitializeKeepsReady(c) ==
  /\ id' = Cleared(c, id, NoId)
  /\ coin' = Cleared(c, coin, 0)
  /\ winSat' = Cleared(c, winSat, FALSE)
  /\ winTime' = Cleared(c, winTime, 0)
  /\ UNCHANGED ready

InitializeKeepsCoins(c) ==
  /\ id' = Cleared(c, id, NoId)
  /\ ready' = Cleared(c, ready, FALSE)
  /\ UNCHANGED <<coin, winSat, winTime>>

Initialize(c) ==
  /\ id' = Cleared(c, id, NoId)
  /\ ready' = Cleared(c, ready, FALSE)
  /\ coin' = Cleared(c, coin, 0)
  /\ winSat' = Cleared(c, winSat, FALSE)
  /\ winTime' = Cleared(c, winTime, 0)

(* Room::LeaveRoom, and EraseRoom when the counter says nobody is left. *)
LeaveRoom(c) ==
  /\ curPlayerNum' = curPlayerNum - 1
  /\ Initialize(c)
  /\ held' = Cleared(c, held, 0)
  /\ erased' = IsEmpty(curPlayerNum - 1)

(* DisconnectClient. *)
Disconnect(c) ==
  /\ MayLeave /\ Running
  /\ InRoom(c)
  /\ at' = [at EXCEPT ![c] = "gone"]
  /\ LeaveRoom(c)
  /\ UNCHANGED <<readySent, dieSent, askedFor, view, inbox, started, clockVars,
                 coinCur, timer, crashed, results>>

-----------------------------------------------------------------------------
(* SendLeftTimePacket keeps the clock going down to the last second.        *)
(* Mutant: it stops a second early.                                         *)
ClockGoesOnShort == leftTime > 2

ClockGoesOn == leftTime > 1

(* When ClearCopyMsg is called.  Mutant: as soon as somebody is ready. *)
ClearsBatchEarly(r) == \E i \in Slot : r[i]

ClearsBatch(r) == \A i \in Slot : r[i]

(* GameStart counts both players a second time; SendLeftTimePacket starts   *)
(* the clock.                                                               *)
GameStart ==
  /\ started' = TRUE
  /\ curPlayerNum' = curPlayerNum + 2
  /\ timer' = IF ClockGoesOn THEN [timer EXCEPT !["TICK"] = After("TICK", 1, 1)]
                             ELSE timer
  /\ held' = [i \in Slot |-> 0]
  /\ results' = <<>>

(* Room::ProcMsg, case CB_READY.  ClearCopyMsg throws away what is left of  *)
(* the batch Update had copied: any prefix of what each client has on its   *)
(* way.                                                                     *)
ProcReady(c) ==
  LET r    == Cleared(c, ready, TRUE)
      rest == [inbox EXCEPT ![c] = Tail(@)]
  IN
  /\ Running
  /\ inbox[c] # <<>> /\ Head(inbox[c]) = Ready
  /\ ready' = r
  /\ IF ClearsBatch(r)
     THEN \E cut \in [Client -> 0..MaxInbox] :
            inbox' = [d \in Client |->
                        SubSeq(rest[d], cut[d] + 1, Len(rest[d]))]
     ELSE inbox' = rest
  /\ IF (\A i \in Slot : r[i]) /\ ~started
     THEN GameStart
     ELSE UNCHANGED <<started, curPlayerNum, timer, historyVars>>
  /\ UNCHANGED <<clientVars, view, id, coin, winSat, winTime, clockVars,
                 coinCur, erased, crashed>>

(* Case CB_GET_COIN: the gem is credited to whoever asks, whether or not it *)
(* is still on the floor; both clients then hide it.                        *)
ProcGetCoin(c) ==
  /\ Running
  /\ inbox[c] # <<>> /\ Head(inbox[c]).type = "GET_COIN"
  /\ inbox' = [inbox EXCEPT ![c] = Tail(@)]
  /\ IF started /\ InRoom(c)
     THEN /\ coin' = [i \in Slot |-> IF id[i] = c THEN coin[i] + 1 ELSE coin[i]]
          /\ view' = [d \in Client |-> view[d] \ {Head(inbox[c]).gem}]
          /\ MayCrash(Vacant)
     ELSE UNCHANGED <<coin, view, crashed>>
  /\ UNCHANGED <<clientVars, id, ready, winSat, winTime, started, clockVars,
                 curPlayerNum, coinCur, timer, erased, historyVars>>

(* What a death takes besides the gems.  Mutant: the satisfaction stays. *)
ClaimKept(i) == UNCHANGED winSat

ClaimLost(i) == winSat' = [winSat EXCEPT ![i] = FALSE]

(* Case CB_REQUEST_DIE: every gem of the player is dropped (AddCoinByDie,   *)
(* while a match is on) and the player loses gems, satisfaction and win     *)
(* time.  The respawn event only sends a packet.                            *)
ProcRequestDie(c) ==
  /\ Running
  /\ inbox[c] # <<>> /\ Head(inbox[c]) = RequestDie
  /\ inbox' = [inbox EXCEPT ![c] = Tail(@)]
  /\ \E i \in Slot :
       /\ id[i] = c
       /\ LET k == IF started THEN coin[i] ELSE 0 IN
          /\ view' = Shown(k)
          /\ coinCur' = CoinCurPlus(k)
          /\ MayCrash(Vacant \/ (k > 0 /\ Overrun(k)))
       /\ coin' = [coin EXCEPT ![i] = 0]
       /\ ClaimLost(i)
       /\ winTime' = [winTime EXCEPT ![i] = NoWinTime]
       /\ held' = [held EXCEPT ![i] = 0]
  /\ UNCHANGED <<clientVars, id, ready, started, clockVars, curPlayerNum,
                 timer, erased, results>>

(* The same message of a client that has left the room is only broadcast. *)
DropRequestDie(c) ==
  /\ Running
  /\ inbox[c] # <<>> /\ Head(inbox[c]) = RequestDie
  /\ ~InRoom(c)
  /\ inbox' = [inbox EXCEPT ![c] = Tail(@)]
  /\ MayCrash(Vacant)
  /\ UNCHANGED <<clientVars, view, playerVars, started, clockVars,
                 curPlayerNum, coinCur, timer, erased, historyVars>>

-----------------------------------------------------------------------------
(* CheckGameState, in a tick that leaves lt seconds: whether the player in  *)
(* slot i starts to count down to a win, the win time it then has, and      *)
(* whether GameOver is called for it.                                       *)
Satisfies(i) == started /\ coin[i] >= WIN_COIN_CNT /\ ~winSat[i]

WinTimeShort(i, lt) ==      \* mutant: a second less to hold
  IF Satisfies(i) THEN lt - NEED_TIME_TO_WIN + 1 ELSE winTime[i]

WinTime(i, lt) == IF Satisfies(i) THEN lt - NEED_TIME_TO_WIN ELSE winTime[i]

WinsLate(i, lt) ==          \* mutant: a second more to hold
  started /\ (winSat[i] \/ Satisfies(i)) /\ WinTime(i, lt) > lt

Wins(i, lt) == started /\ (winSat[i] \/ Satisfies(i)) /\ WinTime(i, lt) >= lt

Result(i)   == [winner |-> id[i], held |-> held[i]]
Results(lt) == (IF started /\ lt <= 0 THEN <<[winner |-> Draw, held |-> 0]>>
                                      ELSE <<>>)
               \o (IF Wins(0, lt) THEN <<Result(0)>> ELSE <<>>)
               \o (IF Wins(1, lt) THEN <<Result(1)>> ELSE <<>>)

(* RoundStart is called once.  Mutant: on every tick of the round. *)
OpensAgain(lt) == lt <= MAX_LEFT_TIME - COUNTDOWN_TIME

Opens(lt) == ~roundStarted /\ lt <= MAX_LEFT_TIME - COUNTDOWN_TIME

(* Resets scheduled by the GameOver calls.  Mutant: none for a draw. *)
ResetsAfterWin(over) ==
  Cardinality({k \in 1..Len(over) : over[k].winner # Draw})

Resets(over) == Len(over)

(* Timer event EV_TICK: SendLeftTimePacket, which schedules the next one,   *)
(* then CheckGameState with RoundStart and one GameOver per outcome.  A     *)
(* GameOver schedules a reset and hides the gems; with a winner and a free  *)
(* slot it writes g_clients[-1]->mmr besides (UpdateUserInfo_DB).           *)
Tick ==
  LET lt    == (leftTime - 1) % LEFT_TIME_MOD
      drops == IF Opens(lt) /\ started THEN 1 ELSE 0
      next  == IF ClockGoesOn /\ started THEN 1 ELSE 0
      over  == Results(lt)
      tells == \/ next = 1
               \/ Opens(lt) /\ ~NobodyIn
               \/ \E i \in Slot : Satisfies(i)
               \/ over # <<>>
  IN
  /\ Running
  /\ Due("TICK")
  /\ leftTime' = lt
  /\ roundStarted' = (roundStarted \/ Opens(lt))
  /\ started' = (started /\ over = <<>>)
  /\ winSat' = [i \in Slot |-> winSat[i] \/ Satisfies(i)]
  /\ winTime' = [i \in Slot |-> WinTime(i, lt)]
  /\ results' = results \o over
  /\ timer' = [timer EXCEPT
       !["TICK"]       = [Ran("TICK") EXCEPT ![1] = @ + next],
       !["ADD_COIN"]   = After("ADD_COIN", ADD_COIN_TIME, drops),
       !["RESET_ROOM"] = After("RESET_ROOM", RESET_TIME, Resets(over))]
  /\ coinCur' = CoinCurPlus(drops)
  /\ view' = IF over = <<>> THEN Shown(drops) ELSE [c \in Client |-> {}]
  /\ MayCrash((drops = 1 /\ Overrun(1)) \/ (Vacant /\ tells))
  /\ UNCHANGED <<clientVars, inbox, id, ready, coin, curPlayerNum, erased,
                 held>>

(* Timer event EV_ADD_COIN: CreateAddCoinEvent. *)
AddCoin ==
  /\ Running
  /\ Due("ADD_COIN")
  /\ IF started
     THEN /\ timer' = [timer EXCEPT !["ADD_COIN"] =
                         [Ran("ADD_COIN") EXCEPT ![ADD_COIN_TIME] = @ + 1]]
          /\ coinCur' = CoinCurPlus(1)
          /\ view' = Shown(1)
          /\ MayCrash(Overrun(1) \/ Vacant)
     ELSE /\ timer' = [timer EXCEPT !["ADD_COIN"] = Ran("ADD_COIN")]
          /\ UNCHANGED <<coinCur, view, crashed>>
  /\ UNCHANGED <<clientVars, inbox, playerVars, started, clockVars,
                 curPlayerNum, erased, historyVars>>

(* Timer event EV_RESET_ROOM: Room::Reset with Toy::Reset for each player.  *)
(* Toy::Reset hides Player::Reset: gems and win state stay.                 *)
ResetRoom ==
  /\ Running
  /\ Due("RESET_ROOM")
  /\ timer' = [timer EXCEPT !["RESET_ROOM"] = Ran("RESET_ROOM")]
  /\ roundStarted' = FALSE
  /\ leftTime' = MAX_LEFT_TIME
  /\ curPlayerNum' = 0
  /\ ready' = [i \in Slot |-> FALSE]
  /\ UNCHANGED <<clientVars, view, inbox, id, coin, winSat, winTime, started,
                 coinCur, erased, crashed, historyVars>>

(* One second passes.  The history counts it, up to HeldCap, for a slot    *)
(* that has enough gems while a match is on.                               *)
Elapse ==
  /\ Running
  /\ \A e \in Event : ~Due(e)
  /\ timer' = [e \in Event |-> [s \in Seconds |->
                 IF s + 1 \in Seconds THEN timer[e][s + 1] ELSE 0]]
  /\ held' = [i \in Slot |-> IF /\ started /\ coin[i] >= WIN_COIN_CNT
                                /\ held[i] < HeldCap
                             THEN held[i] + 1 ELSE held[i]]
  /\ UNCHANGED <<clientVars, view, inbox, playerVars, started, clockVars,
                 curPlayerNum, coinCur, erased, crashed, results>>

-----------------------------------------------------------------------------
ClientStep(c) == \/ Join(c) \/ CallErasedRoom(c) \/ SendReady(c) \/ Die(c)
                 \/ Disconnect(c) \/ \E g \in Gem : PickUp(c, g)
ProcMsg(c)    == \/ ProcReady(c) \/ ProcGetCoin(c)
                 \/ ProcRequestDie(c) \/ DropRequestDie(c)
TimerEvent    == Tick \/ AddCoin \/ ResetRoom

Next == \/ \E c \in Client : ClientStep(c) \/ ProcMsg(c)
        \/ TimerEvent
        \/ Elapse

Spec == Init /\ [][Next]_vars

(* Time passes, the workers run the timer events that are due, and the      *)
(* room's update, rescheduled every frame, empties the message queue.       *)
FairSpec == /\ Spec
            /\ WF_vars(Elapse) /\ WF_vars(Tick) /\ WF_vars(AddCoin)
            /\ WF_vars(ResetRoom)
            /\ \A c \in Client : WF_vars(ProcMsg(c))
-----------------------------------------------------------------------------
(* The rules of the game (MatchRules), read off the room's state. *)
Rules == INSTANCE MatchRules WITH
  Player  <- Client,
  phase   <- IF started THEN "playing"
             ELSE IF results = <<>> THEN "waiting" ELSE "over",
  rich    <- {c \in Client : \E i \in Slot : /\ id[i] = c
                                             /\ coin[i] >= WIN_COIN_CNT},
  hold    <- [c \in Client |-> IF InRoom(c)
                               THEN held[CHOOSE i \in Slot : id[i] = c]
                               ELSE 0],
  outcome <- {results[k].winner : k \in 1..Len(results)}

(* The room implements the rules. *)
ImplementsRules == Rules!Spec

-----------------------------------------------------------------------------
(* A player who counts down to a win has the gems for it: losing them and   *)
(* losing the satisfaction is one thing (REQUEST_DIE, LeaveRoom).           *)
SatisfiedHasCoins ==
  \A i \in Slot : winSat[i] => coin[i] >= WIN_COIN_CNT

(* Whoever GameOver names as the winner has held WIN_COIN_CNT gems without  *)
(* interruption for NEED_TIME_TO_WIN seconds of that match.                 *)
WinnerHeld ==
  \A k \in 1..Len(results) :
    results[k].winner # Draw => results[k].held >= NEED_TIME_TO_WIN

(* Whoever holds enough gems for that long wins: a match never goes on for  *)
(* more than the second in which the clock notices the last gem.            *)
HolderWins == started => \A i \in Slot : held[i] <= NEED_TIME_TO_WIN + 1

(* Nothing of a player who has left stays behind in the slot: no ready flag *)
(* that could start a match, no gems that could win one.                    *)
FreeSlotIsBlank == \A i \in Slot : id[i] = NoId => coin[i] = 0 /\ ~ready[i]

(* GameOver never names a free slot: a player who leaves takes the claim to *)
(* the win along.                                                           *)
WinnerIsPlayer == \A k \in 1..Len(results) : results[k].winner # NoId

(* A match never starts with a free slot: a player who was ready and left   *)
(* does not count as ready.                                                 *)
StartsWithBoth ==
  [][~started /\ started' => \A i \in Slot : id[i] # NoId]_vars

(* A match has one clock and at most one chest: SendLeftTimePacket and      *)
(* CreateAddCoinEvent reschedule themselves, so a second event of either    *)
(* kind would run forever beside the first and double the pace.             *)
AtMostOne(e) == \A s, t \in Seconds :
                  /\ timer[e][s] <= 1
                  /\ timer[e][s] = 1 /\ timer[e][t] = 1 => s = t
OneClock == /\ AtMostOne("TICK") /\ AtMostOne("ADD_COIN")
            /\ started => timer["TICK"][0] + timer["TICK"][1] = 1

(* A client asks for a gem once: what it asks for it shows, and a gem it    *)
(* has asked for it never shows again, whatever becomes of the request,     *)
(* whoever drops gems by dying and whatever the chest gives out.            *)
GemAskedOnce == \A c \in Client : view[c] \cap askedFor[c] = {}

(* The room is erased when nobody is in it. *)
ErasedOnlyWhenEmpty == erased => NobodyIn

(* Both players' READY messages start the match, whatever ClearCopyMsg      *)
(* throws away.                                                             *)
BothReadyStarts ==
  (\A c \in Client : readySent[c] > 0) ~> (started \/ results # <<>>)

(* A match that has started comes to an end (the clock runs out or somebody *)
(* wins), unless the process stops.                                         *)
MatchEnds == started ~> (~started \/ crashed)

(* A match that has ended is followed by a reset that lets the room be used *)
(* again.                                                                   *)
ResetFollows == (results # <<>>) ~> (~roundStarted \/ ~Running)
=============================================================================
