# ToyGround: a TLA+ model of its servers

ToyGround is a two-player gem-collecting game: a Direct3D client, a lobby server
that logs players in and pairs them, and a battle server that runs the matches.
This directory holds TLA+ modules that model the two servers (and the client's
side of the protocol), the TLC configurations that check them, and
TLAPS proofs of the properties that matter most. The modules are translated from the C++ source;
paths below are relative to the repository, `battle/` stands for
`src/Code/Server/battle/demo_battle/`, `lobby/` for `src/Code/Server/lobby/demo_server/`
and `client/` for `src/Code/Client/ToyGround/LabProject/`.

Run a check with `tlc -workers 2 -config RoomMatch_rules.cfg RoomMatchMC.tla`, a proof
with `tlapm RoomMatch_proofs.tla`. `PROJECT.json` lists components, runs, mutants, the
lines behind every definition, hazards, findings and theorems.

## 1. Inventory

| Part | State | Operations | What is hard | What makes it correct |
|---|---|---|---|---|
| **Lobby server** (`lobby/LobbyServer.cpp`, one worker thread; `TimerThread.cpp`; the accept loop of `main.cpp`) | `userList` (socket, `User` with rating), `g_match_list` | accept, login, FIND_ROOM, disconnect, BL_ROOMREADY; the timer thread scans the list and asks for a room | the worker inserts into the list without the lock the timer thread holds; a user who leaves stays in the list; a failed send stops the worker | nobody is paired twice for one request; both of a pair are told; users do not wait beside each other forever |
| **Battle server, connections and rooms** (`battle/battleServer.cpp`, `WorkerThread.cpp`; 8 workers, an accept loop) | `g_clients`, `g_rooms`, `g_room_no` | accept, LB_REQUEST_ROOM, CB_JOIN, disconnect in several steps, EraseRoom | several workers at once, ids and numbers that are used again, ids of one server used as ids of the other | every room has its own number, numbers come back, an empty room is taken down and nobody else's |
| **Room** (`battle/Room.cpp`, `Player.cpp`, `Toy.cpp`) | slots with ready flag, gems, win satisfaction and win time; clock, counters, message queue | EnterRoom, LeaveRoom, ProcMsg (READY, GET_COIN, REQUEST_DIE), tick, chest, GameOver, Reset | handlers and timer events in any order, on several workers at once, two queues with different locks, self-rescheduling timers, a counter that is counted in four places, state that survives a reset | the rules: 10 gems held for 15 seconds win, nothing else does; a match starts with two and ends |
| **Timer thread** (`battle/TimerThread.cpp`) | priority queue of events, addressed by room number | waits, posts what is due | an event may meet another room under its number; `operator[]` inserts | at most one clock per match |
| **Packet framing** (`battle/WorkerThread.cpp:45-79`, `lobby/LobbyServer.cpp:124-156`, `client/netCore.cpp:182-214`) | bytes and length of an unfinished packet | receive, finish a packet, keep a part | fragmentation at any byte | packets arrive whole, in order, once |
| **Client session** (`client/netCore.cpp`, `Service.cpp`, scenes) | ids, room, scene | buttons, log-in, LC_FIND_ROOM, BC_ROOM_ENTERED, BC_READY, BC_ROOM_START | the answers of two servers in any order; handlers without `break`; ids written into the code | no answer is used before the state it needs exists; a pair that is ready comes to play; nobody is shown a room that is not its own |
| **Bullets** (`battle/Room.cpp:774-820, 901-918`) | `m_bullets`, `m_q_bullet` | GetEmptyBullet, SetEmptyBullet | pool at its limit, two threads in it without a lock, events that do not say which index they free | two bullets in the air have different indices |

How they interact: a client logs in at the lobby, connects to the battle server, and sends FIND_ROOM.
The lobby's timer thread pairs two users and sends LB_REQUEST_ROOM; the battle server makes the room
and answers BL_ROOMREADY; the lobby sends LC_FIND_ROOM to both; each sends CB_JOIN to the battle server.
From then on the client talks to its room: messages are pushed to the room's queue by the worker that
received them, taken by `Room::Update` on any worker, and answered through the room's send queue. Time
comes from the timer thread, which posts events to the same completion port.

Nothing in the repository tests any of this; the docs that make claims about the game are the
presentation scripts under `src/문서`.

## 2. Plan

In order of importance. 1 to 7 are built.

1. `RoomMatch` (+ `MatchRules`, the abstract specification it implements): one room, handler by handler.
2. `RecvFraming`: the receive loops.
3. `LobbyMatch`: logins and pairing.
4. `BattleRooms`: the tables of clients, rooms and numbers; requests, joins and disconnects step by step.
5. `RoomWorkers`: below the handlers of one room, its queues and its bullet pool on several workers.
6. `RoomHandlers`: the tick and the update of one room on two workers, one read or write at a time.
7. `ClientSession`: the client between the two servers, from the log-in to the match.
8. The proofs: every safety and action property of a passing run is stated by a theorem.
9. Left: ticks and updates of an old room that meet the next one with its number; EV_ADD_COIN beside a death; a second match in a room. Liveness stays with TLC.

## 3. The modules

### RoomMatch, MatchRules, RoomMatchMC, RoomMatch_proofs, RoomRules_proofs

One room from LB_REQUEST_ROOM until it is erased. `id`, `ready`, `coin`, `winSat`, `winTime` are the
fields of `m_players[i]`; `started`, `roundStarted`, `leftTime`, `curPlayerNum`, `coinCur` the room's;
`timer` counts the pending events of each type by the seconds left. `inbox` holds, per client and in order, what is on its
way to `ProcMsg`: network, room queue and copied batch in one. `view` is the set of gems a client shows, `askedFor` (history) those it has ever asked for.

| Action | Code |
|---|---|
| `Join` | CB_JOIN with `EnterRoom` |
| `SendReady`, `PickUp`, `Die` | the client's messages; the client guards are SceneController.cpp 39-73, Character.cpp 702-733, ApplicationContext.cpp 387-443 |
| `ProcReady` | CB_READY, ClearCopyMsg, GameStart and the first SendLeftTimePacket |
| `ProcGetCoin`, `ProcRequestDie`, `DropRequestDie` | the other two messages a match depends on |
| `Tick` | EV_TICK: SendLeftTimePacket, CheckGameState, RoundStart, CreateAddCoinEvent, GameOver, UpdateUserInfo_DB |
| `AddCoin`, `ResetRoom` | EV_ADD_COIN, EV_RESET_ROOM |
| `Disconnect`, `CallErasedRoom` | DisconnectClient with LeaveRoom and EraseRoom; a message to a room that is gone |
| `Elapse` | a second passes when no event is due |

Choices a reader should know:

- The room's gem table runs over into `m_coin_cur` (Room.cpp:240). The release build goes on with id 1, the
  debug build stops; `GemId` and `MayCrash` say so. A broadcast while a slot is free goes to `g_clients[-1]`: it may stop the process
  (`Vacant`), and the model goes on in case it does not.
- `Toy::Reset` hides `Player::Reset`: gems and win state survive `ResetRoom`.
- m_leftTime is an `unsigned char`: `LEFT_TIME_MOD`.
- ClearCopyMsg throws away the rest of the batch Update has copied, which may be any prefix of what each client has on its way.
- Left out because nothing in a match depends on it: positions, looks, animations, the respawn event (it only
  sends a packet), bullets, names. Two workers inside handlers of one room are RoomWorkers and RoomHandlers; here the inbox loses nothing to the
  gap in CopyRecvMsgs, so BothReadyStarts is about READYs that reach the room.
- A second is one `Elapse`; the drift of timers that reschedule themselves late is not modelled.
- Each handler is one step. So is `EnterRoom`, whose test of a slot outside the lock is BattleRooms' (two joins that both take slot 0 do not happen here), and whose
  visible effect is in ClientSession; what two workers do inside the other handlers is in RoomWorkers and RoomHandlers.
- A client that disconnects after it has been told its room and before it joins is in BattleRooms and ClientSession, not here.

`MatchRules` is what a match promises: hold enough gems for NEED_TIME_TO_WIN seconds and win, within a
second; nobody else does; a match ends once. `ImplementsRules` maps the room's state to it.

### RecvFraming, RecvFramingMC, RecvFraming_proofs

One receiver with its connections. A byte is `<<connection, position>>`: contents do not matter, origin does.
`SharedBuffer = FALSE` is the loop of the servers, whose unfinished packet is kept per connection; `TRUE` is
the client's ProcessData, whose buffers are static. The length of a packet is its first byte; what a byte in the middle of a packet would be read as is any length.
The packets' lengths are a constant (`Begin`), so that the proof is for all of them.

### LobbyMatch, LobbyMatchMC, LobbyMatch_proofs

The lobby with its one worker (`ClientAccept`, `Login`, `FindRoom`, `Disconnect`, `SendFails`, `RoomReady`) and its timer thread
(`BeginScan`, `EndScan`). A connection that ends shows as a receive of no bytes, as error 64, or as another error, on which the worker comes to `error_display`; a send that was under way then
(`SendFails`) runs the same branch once more and deletes `user_info` a second time. The list is a function from users to entries. An insert during a scan may be seen, unseen or lost, and
may stop the process. `error_display` never returns: `stalled`. Ratings are taken from a small set; accounts, sign-up
and the database are outside, so a login finds any rating. A second `BL_UPDATE_DB` changes the database only and is left out.
The battle server is the queue `asked`, answered in order.

### BattleRooms, BattleRoomsMC, BattleRooms_proofs

The tables of the battle server: `client`, `number` and `room` are g_clients, g_room_no and g_rooms. Eight workers serve all connections, so a request, a join and a disconnect are
sequences of steps; `request`, `join` and `worker` say how far each has come.

| Action | Code |
|---|---|
| `Accept` | the accept loop, which takes no lock |
| `BeginRequest`, `LookAtNumber`, `StoreRoom`, `WriteRoomId`, `AnswerRequest` | LB_REQUEST_ROOM: the numbers are looked at one by one under g_room_no_lock, the room is stored later, then the `room_id` of the clients that have the *lobby's* ids here is written, then the pair is told |
| `Join`, `EnterRoom` | CB_JOIN: the room is looked up, its counter tested |
| `LookAtSlot` | GetEmpty of one slot after the other, outside the lock |
| `CountPlayer`, `TakeSlot` | under g_clients_lock: the counter, then the slot, whoever is in it by now, and room_id |
| `AnnounceRoomEnter` | the announcement, and what it runs into (`BadAnnounce`: a slot's number taken for an id; `NoSocket`) |
| `GameStart`, `GameOver`, `ResetRoom` | a match as far as the counter feels it: players counted a second time, and the counter set to 0 in whatever room has the number by then |
| `Disconnect`, `CheckEmpty`, `EraseRoom`, `FreeRoomNo`, `Release`, `Zero` | DisconnectClient: LeaveRoom, IsEmpty, the map, the number, isConnected, ZeroMemory |

`Asked` is the sequence of pairs the lobby asks rooms for. A connection's next receive is posted when its packet has been handled, so requests come one at a time, and so do the joins of an id; the disconnects of
one id are taken one at a time too, though the id may be in use again before the last step. A join keeps hold of the Room object it has looked up (`born` tells it from a later room with the number): once that object is
out of g_rooms nothing is said of its slots. The fields `played`, `over`, `left`, `met` of a room are history: its match has started, is over; somebody has left; two joins have taken the same slot.
`LeaverIdx` is the uninitialized index of LeaveRoom. After a `Crash` the tables are as at the start.

Coarser than the code: LeaveRoom is one step; a room has one match; a join may find a room started or not in any state in which a match has been played, which adds behaviours and takes none away; a send that fails is not
followed by a second disconnect; there are as many ids as users, so that `Accept` always finds a free one; `g_rooms`, an unordered_map without a lock, is taken to survive its data races.

### RoomWorkers, RoomWorkersMC, RoomWorkers_proofs

The same room one level down: a message is the n-th of its client, a packet its place in the order of pushes. `recvQ`, `copied`, `sendQ`, `bullets` and `bulletQ` are
m_recvMsgQueue, m_copiedRecvMsgs, m_sendMsgQueue, m_bullets and m_q_bullet.

| Action | Code |
|---|---|
| `PushMsg` | a worker in EV_RECV, `Room::PushMsg` under g_msg_lock |
| `BeginCopy`, `EndCopy`, `BeginEmpty`, `EndEmpty` | `Room::CopyRecvMsgs`, two critical sections of m_recvMsgQueueLock |
| `ProcPosition`, `ShootBullet`, `ProcUnknown`, `EndUpdate` | the loop of `Room::Update`: a message that is passed on, one that takes bullets, the default case, which is an endless loop, and the two events at the end |
| `BeginFlush`, `SendPacket` | `Room::FlushSendMsg`: under its lock, and out of it packet by packet |
| `BeginRelease`, `EndRelease` | EV_MAKE_EMPTY_BULLET, `Room::SetEmptyBullet`, without a lock |

The two locks of the receive queue differ, so a push that meets the copying or emptying is a data race: `recvRaced` remembers it, and the push may be kept, lost, or leave in its place an
earlier message or memory that holds none, or the process stops. The pool takes no lock at all: once two threads have met in it, or an empty queue has been popped, `poolRaced` is set and the pool
is not followed any further. Only three message kinds are distinguished, by the bullets they ask for; what the others do is in RoomMatch. There is one Update at a time, since it schedules its own successor.

### RoomHandlers, RoomHandlers_proofs

`CheckGameState` on one worker and `ProcMsg` on another, neither with a lock, as single reads and writes of m_coin_cnt, m_winSatisfaction and m_winTime in the order of the source. `tick` says which
statement CheckGameState is at and for which player, `die` where REQUEST_DIE is. The clock runs to its last tick and to the draw `GameOver(0)`, after which the win test of the same tick still runs.
`held` counts the ticks in a row a player has held enough gems.

### ClientSession, ClientSessionMC, ClientSession_proofs

Several clients with a FIFO queue of packets from each server; the network thread takes from either. `scene` is the scene shown, or "closed" or "crashed"; `knows` the ids with an entry in
m_battle_clients; `shows` the flags m_isReady1 and m_isReady2; `slot`, `ready`, `started`, `erased` the room's. The servers answer at once, so that an answer that is late waits in its queue. Their own races are in
the other modules; of the races in the battle server a client sees two outcomes, which are here: a join that met the one before takes slot 0 again (`EntersAt`), and a client lost between LB_REQUEST_ROOM and its join takes
the room with it (`LeaveUnjoined`).

| Action | Code |
|---|---|
| `ClickLogin`, `ClickStart`, `ClickReady` | SceneController.cpp 182-203 and 39-73; the ready buttons are written for battle ids 1 and 2 |
| `Pair` | TimerThread, LB_REQUEST_ROOM, BL_ROOMREADY, LC_FIND_ROOM, in one step |
| `LobbyLoginOK`, `UserInfo`, `FindRoom` | the three packets of the lobby; the last one dereferences m_battle_clients[battle_id] and joins; without an entry the client crashes, which closes both connections (`EndsUnjoined`) |
| `BattleLoginOK`, `RoomEntered`, `RoomLeaved`, `ReadySign`, `JoinAnswer`, `RoomStart` | the packets of the battle server, with the missing `break` after BC_ROOM_LEAVED and after EVENT_ROOM_LEAVE |
| `Close` | a player in a room closes the program: LeaveRoom, and EraseRoom when it was alone |
| `CloseUnjoined` | a player closes the program before its LC_FIND_ROOM has been handled |

An announcement to client 1 when nobody has that id goes through a null socket and may stop the server (`Deaf`); a READY in a vacant slot does not, PushReadyMsg skips it. Two outcomes are left to BattleRooms: an entry that has got another
pair's room_id, and the disconnect of a player whose slot another join has taken (here it stays until the end).

Each client looks for one match. The packets inside a match move objects and are left out, and so are the debug keys, sign-up and a connection that fails.

## 4. What is checked

| Run | Bounds | Shows |
|---|---|---|
| `room_rules` | 2 clients, a match of 5 s with a countdown of 1, 1 gem for 2 s, 2 gem objects, 1 READY and 1 death each, disconnects | SatisfiedHasCoins, WinnerIsPlayer, FreeSlotIsBlank, OneClock, GemAskedOnce, HolderWins, WinnerHeld, StartsWithBoth, ImplementsRules |
| `room_live` | without disconnects, 1 gem for 1 s, one message on its way, a gem table so small that it runs over, under `FairSpec` | TypeOK, BothReadyStarts, MatchEnds, ResetFollows |
| `room_v_erased` | no gems | ErasedOnlyWhenEmpty is violated |
| `framing_servers` | 2 connections, packets of 2, 4 and 3 bytes on each, receives of up to 5 bytes, under `FairSpec` | PacketsIntact, SavedFits, AllHandedOver |
| `framing_v_client` | the same with SharedBuffer | OnePacketInBuffer is violated |
| `lobby_pairs` | 3 users, one of whom looks for a match twice, all of whom may leave, under `FairSpec` | PairedOnce, PairsAreTold, WaitersAreMatched |
| `rooms_numbers` | 1 number (and number 0), 3 clients, rooms asked for 1 and 2 and then for 2 and 3 | NumberComesBack, LastLeaverErases |
| `workers_threads` | 2 workers beside Update, 2 bullets, 2 messages, one client that shoots one or two bullets and one that moves or shoots two | TypeOK, SentOnce, SentInOrder, HandledInOrder, OnlyExposedLost, BulletsApart |
| `handlers_race` | a round of 6 s, 2 gems for 2 s, 1 death each | TypeOK, UnhurtWinnerHeld, WinnerIsAnnounced |
| `session_lobby` | 3 clients, 1 room, all of whom may close, under `FairSpec` | TypeOK, CrashOnlyIfHasty, StrayOnlyFirst, AnnouncedSeen, PlaysWithBoth, ReadyPairPlays |
| `session_v_entered` | the same | EnteredIsSeen is violated |

Why the bounds are enough. The rules of a match compare gems, seconds and clock with thresholds: each threshold has a below, an at and an
above, and a match of 5 seconds has room for a win, a win lost by a death and made good, a win in the last second and a draw. Deaths drop gems that are picked up again;
one per client gives every order of the two. Messages are bounded by two on their way in `room_rules`, and a client holds one gem when it asks for the next (`MaxHold`), which with two requests on their way makes two.
GemAskedOnce is checked where the gem table is not overrun: after the overrun ids repeat and it need not hold. Each client sends one READY, so that the runs have one match in a room.
For framing, packets of three lengths and receives longer than each give every place a packet may be cut. Three users are the fewest with a pair and one left
over. One number and three clients let a number be given out, freed and given out again while another worker is between two of its steps; the pairs share a client, so that one told of
two rooms, one whose `room_id` has been overwritten, two joins that meet in a slot, and number 0 (when the only number is taken) all happen.
For the workers, two messages let one be pushed before and one during a copy, four bullets out of two exhaust the pool, and two workers are enough to meet in the pool and to send two flushes at once. In
RoomHandlers six seconds hold a claim, its loss by a death, and a second claim that is made good. Three clients are the fewest with a pair of which client 1 is not one.
Two rooms at once are beyond an exhaustive run; five minutes of random simulation with four clients and two rooms found no violation of the safety properties of ClientSession.
Deadlock is not checked: matches end, clients stop sending, processes stop, and the bounds run out.

Fairness. `Elapse`: time passes. `Tick`, `AddCoin`, `ResetRoom`: the timer thread posts what is due and eight workers take it. `ProcMsg`: `Room::Update` reschedules itself
every frame and empties the queue. Nothing is assumed of clients (they need not send or stay), of the lobby's worker, or of new packets. Framing: the receive posted for a connection completes when
bytes have arrived, and the loop runs on. Lobby: the timer thread goes on scanning and time passes. ClientSession: `Network(c)`, because the client's network thread polls both connections as long as the
program runs (Service.cpp:13); players press what they like, or nothing. RoomWorkers and RoomHandlers state safety only.

Every property has a mutant in the module of the definition it changes, marked "Mutant": a plausible slip in that code which makes the property fail in the same run.

## 5. What the violated properties show

- **A room is erased with a player in it** (`room_v_erased`). Room.h:32 asks "is Room Empty?", the counter says yes after a reset and one disconnect.
- **The client mixes two connections** (`framing_v_client`). netCore.cpp:184-186.
- **A pair may stay in the lobby** (`session_v_entered`). AnnounceRoomEnter (Room.cpp:148) takes a slot's number for a battle id. When client 1 is the second to join, nobody is told, and both clients wait in the
  lobby scene, which changes to the matching room only on ROOM_ENTERED (LobbyScene.cpp:54-62).

Seen while reading and modelling, and not given a run: a death drops all gems (Room.cpp:842) where the script, line 28, says half; the respawn time differs from line 29; a tick may call GameOver for a draw
and for a winner; `EV_WORLD_UPDATE` calls a `Room::WorldUpdate` that is declared nowhere. With every number taken a pair gets a room under number 0, a limitation the comment at WorkerThread.cpp:189 names.
Two CB_JOINs of a pair that meet in EnterRoom (Room.cpp:124-126) both take slot 0 and count to 2: one player has no slot, and when the other leaves nobody erases the room; a pair that has joined so comes to no match. A
worker that erases a room a second time, late, frees a number that is in use again, and the next request replaces the room behind it. After a Reset gems, satisfaction and win time are still those of the last match (Toy::Reset hides Player::Reset), but a next match needs a second READY in the same room, which a client comes to send only by a debug key.
In RoomHandlers a death between the two halves of the win test (Room.cpp:301-302 against 845-847) leaves the satisfaction set and the win time at 999, so the dead player wins with the next tick: its WinnerHeld is no run's property, UnhurtWinnerHeld is.
A pair of clients 2 and 3 sends the bystander 1 to its matching room; with four clients, a second pair's join throws client 1 out of a running match into the matching room. After BC_ROOM_LEAVED the ready button of the place that is free is dead.

## 6. What is proved

For every value of the constants that satisfies the modules' assumptions, by TLAPS:

- **RoomMatch**: TypeOK, SatisfiedHasCoins, FreeSlotIsBlank, WinnerIsPlayer and StartsWithBoth. They need each other: SatisfiedHasCoins is inductive because gems are lost only together with the claim; a winner is a player because a slot that satisfies the win test has
  gems (WIN_COIN_CNT > 0) and a free slot is blank; a match starts with both because a free slot is not ready. The inductive invariant is TypeOK with those facts; `StartsWithBoth` follows from it in the one action that starts a match.
- **RoomMatch**, the rules (`RoomRules_proofs`): OneClock, WinnerHeld, HolderWins and the refinement ImplementsRules, for any clients, times and bounds, of behaviours without a rematch (`OneMatch`): with a second READY before the reset, or a second chain of ticks, they do not hold.
  The hypothesis is no restriction for a pair whose two clients press ready once each: `PairPlaysOnce` proves `Spec => OneMatch` for them, whatever resets, disconnects and thrown-away batches do, and `RulesOfPair` puts it together. The invariant is `RulesInv`: `ClockInv` (before the match nothing runs and nobody has
  gems; during it the clock has not run out, one tick is pending, and the chest waits for the round) and `HeldInv` (how long a slot has held the gems, told from the clock: a claim's ticks are `winTime + NEED_TIME_TO_WIN - leftTime`, and the pending tick says whether its second has passed). The refinement has one lemma per action: a
  step of the room maps to a step of MatchRules or to none.
- **RoomMatch**, the gems: GemAskedOnce, which is about every gem a client has ever asked for (`askedFor`), rematches and resets included, as long as no step overruns the room's gem table (`InTable`); after that ids begin again and it need not hold. `GemInv`: what a client is shown and what it has asked for are ids below `m_coin_cur`, and no id is in both; new gems take ids from there on.
- **RecvFraming** with buffers per connection: PacketsIntact and SavedFits, for any lengths, fragmentation and buffer size. The invariant says where the receiver is: what was handed over, kept and still in the chunk is, in order, the stream up to `rcvd`, and the length remembered is that of the packet the kept bytes begin.
- **LobbyMatch**: PairedOnce. Every FIND_ROOM is good for one insert, and a pair leaves the list with both its entries; a scan pairs two different users. PairsAreTold: `ToldInv` counts, for each user, the requests still in the queue; taking the head of the queue tells both its users or stalls the worker. Once it has stalled nothing is claimed.
- **BattleRooms**: NumberComesBack and LastLeaverErases, with every request, join and disconnect interleaved step by step. NumberComesBack: the step that takes a number makes its taker about to store the room, and the only step
  that takes a room out of the map, EraseRoom, makes its worker about to free the number. LastLeaverErases is about rooms without a match in which no two joins have met, the two cases in which the counter counts more than the players. The invariant adds that a worker that is still to check, erase or free a room knows
  which (`JobHasRoom`), that g_clients_lock lets one join at a time be between counting and taking its slot (`OneTakes`), and that the counter is not above the number of players and of that join (`CounterLow`): so after the last player's LeaveRoom, whoever asks IsEmpty next hears yes, unless that join takes a slot.
- **RoomWorkers**: TypeOK, BulletsApart, SentOnce, SentInOrder, HandledInOrder and OnlyExposedLost, for any number of players, workers, bullets and messages. `Base` joins the types with `FlushFits` (an Update that runs has room for its flush). `PoolInv`: while no
  threads have met in the pool and it has not run out, the bullets in the air are, in order, the queue of given-out indices (without its front while a worker is freeing that one), and the queue holds each marked index once. That is why the event that frees an index need not name it. `PacketInv`: the queue holds
  the latest packets; every earlier one has been sent or is in the batch of one worker, in order; unless two flushes have sent at once, only one worker holds a batch, and what is sent is older than it. `RecvInv`: as long as no push has met the copying, queue, copy and handled messages of a client follow one another in order, the copy is a prefix of the queue until that is emptied, and what has
  come since was exposed.
- **RoomHandlers**: TypeOK, UnhurtWinnerHeld and WinnerIsAnnounced, for any times and numbers of deaths. The invariant follows a player who has not died: its satisfaction implies enough gems, the ticks it has held them are at least those its win time stands for (`TimeIsHeld`), and the win time the tick has read is the
  present one. `WinnerHeldWithoutDeaths` concludes that with no deaths every winner has held the gems: all the harm these races do comes from deaths.
- **ClientSession**: TypeOK, CrashOnlyIfHasty, StrayOnlyFirst, AnnouncedSeen and PlaysWithBoth, for any number of clients and rooms (the run has three clients and one room). The invariant says of each kind of packet on its way what its sender knew and nothing has changed since, in five layers: `LoginInv` (who has which battle id; the two
  answers to a log-in are on their way at most once), `MatchInv` (a room number goes to two clients, each of whom has its FIND_ROOM on the way, is in the room or has been there), `EntryInv` (a client that has been answered has an entry of its own, or the answer is on its way), `ShownInv` (an announcement reaches client 1 or the second of a room; a player is told that another has left only when it is alone for good;
  only id 1 in the first place and 1 or 2 in the second can be ready), `StartInv` (the packets before a BC_ROOM_START in a queue make the entries 1 and 2). A room that starts is one with client 1 in the first place and client 2 in the second, complete, so no later packet spoils it.
  When joins have met, slot 0 holds the last of them, and the player it displaced is in no room any more; a room that has been erased by the loss of a client that had not joined is never joined again.

Assumptions are those named in the modules: finitely many clients whose ids differ from -1 and 0, positive times and thresholds, a clock width above the length of a match, at least two entries in the gem table, packets of at least one byte, at least one bullet; TLC evaluates them in every run.

`MAX_LEFT_TIME > 1` is needed because SendLeftTimePacket starts the clock only then (the code's value is 183). No theorem has a hypothesis beside these except the ones named above: buffers per connection, no deaths, and, of a room, `OneMatch`, `OnePair` and `InTable`. The behaviours of `room_rules` satisfy all three:
it has the two clients of a pair with one READY each and a gem table that is not overrun.

Only model-checked: liveness (BothReadyStarts, MatchEnds, ResetFollows, AllHandedOver, WaitersAreMatched, ReadyPairPlays). Liveness under fairness, ENABLED and induction over data are beyond the prover used here and stay with TLC.

## 7. What is not modelled

Nearly all of the repository's lines are rendering, animation, sound, input and meshes (no protocol state), the FBX converter and vendored code (fbxsdk, Direct3D helpers): that is why the mapped lines are a small share of the whole, though they are most of the two servers' own logic. Also outside: map and collision geometry (the server decides nothing by it), the ODBC calls of the database (their answer is nondeterministic), socket and thread wrappers.

Of the modelled parts: a second match in a room (the runs; some theorems include it); the second disconnect a failed send may start in the battle server; data races of the map g_rooms; races of m_coin_cur between EV_ADD_COIN (Room.cpp:240-242) and the gems of a death (261-263); ticks of an erased room that meet the next room under its number; animation packets, whose receiver is written into the code; the packets inside a match on the client's side; the winning scene. Which hazards have no property, and why, is listed in `PROJECT.json`.
