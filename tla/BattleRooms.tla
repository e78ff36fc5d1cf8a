----------------------------- MODULE BattleRooms -----------------------------
(***************************************************************************)
(* The battle server's tables of clients, rooms and room numbers: clients  *)
(* are accepted under the lowest free id, the lobby server asks for rooms, *)
(* clients join them, matches are played, clients disconnect.              *)
(*                                                                         *)
(* Eight workers serve all connections, so what one does for a request, a  *)
(* join or a disconnect is interleaved, step by step, with what the others *)
(* do.  A connection's next receive is posted when its packet has been      *)
(* handled: the lobby server's requests come one at a time, and so do the  *)
(* joins of an id; a disconnect is noticed by the receive, once, and one   *)
(* of an id is over before the next.                                       *)
(* What happens inside a room during a match is RoomMatch's; the maps      *)
(* themselves are taken to survive being used by several threads.          *)
(***************************************************************************)
EXTENDS Integers, Sequences

CONSTANTS
  MAX_ROOM,     \* room numbers                                   (code: 50)
  MaxUser,      \* bound: connections to either server          (code: 5099)
  Asked,        \* bound: the pairs of lobby ids rooms are asked for, in order
  Null          \* what g_rooms holds under a number without a room

ASSUME BoundAssumption == {MAX_ROOM, MaxUser} \subseteq Nat

NoId   == -1    \* a free slot's m_id
NoRoom == -1    \* the room_id of a client that is in none
Nobody == 0     \* no user: id 0 is the lobby server's

VARIABLES
  client,     \* g_clients: who uses the entry, isConnected and room_id
  known,      \* the users that have connected
  number,     \* g_room_no: the numbers taken
  room,       \* g_rooms, by number
  told,       \* user: the room LC_FIND_ROOM has named, until it asks to join
  resetDue,   \* numbers with an EV_RESET_ROOM in the timer queue
  request,    \* how far a worker is with LB_REQUEST_ROOM
  join,       \* how far a worker is with the CB_JOIN of each client
  worker,     \* how far a worker is with the disconnect of each client
  requests,   \* requests for a room so far
  crashed     \* the process has been stopped by undefined behaviour

tableVars == <<client, known, number, room>>
jobVars   == <<request, join, worker>>
vars == <<tableVars, told, resetDue, jobVars, requests, crashed>>

User   == 1..MaxUser    \* a user's id at the lobby server
Id     == 1..MaxUser    \* an id at the battle server
Number == 0..MAX_ROOM   \* what may name a room; 0 is none of g_room_no's
Slot   == {0, 1}

Client == [user : User \cup {Nobody}, isConnected : BOOLEAN,
           room : Number \cup {NoRoom}]

ASSUME AskedAssumption ==
  Asked \in Seq(User \X User) /\ \A k \in 1..Len(Asked) : Asked[k][1] # Asked[k][2]

(* A room: its players' ids and m_curPlayerNum; history: the request it was  *)
(* made for, whether its match has been started and is over, whether        *)
(* anybody has left it, whether two joins have taken the same slot.         *)
Room == [player : [Slot -> Id \cup {NoId}], cur : Int, born : Nat,
         played : BOOLEAN, over : BOOLEAN, left : BOOLEAN, met : BOOLEAN]
ASSUME NullAssumption == Null \notin Room

NewRoom == [player |-> [i \in Slot |-> NoId], cur |-> 0, born |-> requests,
            played |-> FALSE, over |-> FALSE, left |-> FALSE, met |-> FALSE]

Live(n)     == room[n] # Null
IsEmpty(n)  == room[n].cur <= 0
Deserted(n) == \A s \in Slot : room[n].player[s] = NoId
HasIn(n, i) == Live(n) /\ \E s \in Slot : room[n].player[s] = i

(* LB_REQUEST_ROOM: what is to be done next, the number it looks at or has   *)
(* taken.                                                                   *)
Request   == [step : {"scan"}, no : 1..(MAX_ROOM + 1)]
               \cup [step : {"store", "first", "second", "tell"}, no : Number]
NoRequest == [step |-> "none", no |-> 0]

(* CB_JOIN: what is to be done next, the room it has asked for and looked   *)
(* up, the slot it looks at or has found empty.                             *)
Joining == [step : {"enter", "look", "count", "take", "tell"}, room : Number,
            born : Nat, slot : Slot]
NoJoin  == [step |-> "none", room |-> 0, born |-> 0, slot |-> 0]

(* A disconnect: the steps that are still to be done, in order. *)
Step  == {"check", "erase", "free", "release", "zero"}
Job   == [step : Step, room : Number \cup {NoRoom}]
NoJob == [step |-> "none", room |-> NoRoom]

TypeOK ==
  /\ client \in [Id -> Client]
  /\ known \subseteq User
  /\ number \subseteq 1..MAX_ROOM
  /\ room \in [Number -> Room \cup {Null}]
  /\ told \in [User -> Number \cup {NoRoom}]
  /\ resetDue \subseteq Number
  /\ request \in Request \cup {NoRequest}
  /\ join \in [Id -> Joining \cup {NoJoin}]
  /\ worker \in [Id -> Job \cup {NoJob}]
  /\ requests \in 0..Len(Asked)
  /\ crashed \in BOOLEAN

(* CreatePlayerSlot gives every id an entry. *)
FreeEntry == [user |-> Nobody, isConnected |-> FALSE, room |-> NoRoom]

Init ==
  /\ client = [i \in Id |-> FreeEntry]
  /\ known = {}
  /\ number = {}
  /\ room = [n \in Number |-> Null]
  /\ told = [u \in User |-> NoRoom]
  /\ resetDue = {}
  /\ request = NoRequest
  /\ join = [i \in Id |-> NoJoin]
  /\ worker = [i \in Id |-> NoJob]
  /\ requests = 0
  /\ crashed = FALSE

(* The process has stopped.  Its tables are gone, as at the start. *)
Crash ==
  /\ client' = [i \in Id |-> FreeEntry]
  /\ known' = {}
  /\ number' = {}
  /\ room' = [n \in Number |-> Null]
  /\ told' = [u \in User |-> NoRoom]
  /\ resetDue' = {}
  /\ request' = NoRequest
  /\ join' = [i \in Id |-> NoJoin]
  /\ worker' = [i \in Id |-> NoJob]
  /\ requests' = 0
  /\ crashed' = TRUE

-----------------------------------------------------------------------------
(* The accept loop: the lowest id whose entry is not connected.  There are  *)
(* as many ids as users, so that one is free.                               *)
Accept(u) ==
  /\ ~crashed
  /\ u \notin known
  /\ \E i \in Id :
       /\ ~client[i].isConnected
       /\ \A j \in Id : j < i => client[j].isConnected
       /\ client' = [client EXCEPT ![i] =
                       [user |-> u, isConnected |-> TRUE, room |-> NoRoom]]
  /\ known' = known \cup {u}
  /\ UNCHANGED <<number, room, told, resetDue, jobVars, requests, crashed>>

(* The clients that are served, and their users.  The worker that           *)
(* disconnects an id's last user need not be done.                          *)
Served(i) == /\ client[i].user # Nobody /\ client[i].isConnected
             /\ worker[i].step \in {"none", "zero"}
Here      == {client[i].user : i \in {j \in Id : Served(j)}}

(* g_clients_lock is free: no join is in the locked part of EnterRoom, no   *)
(* disconnect between clearing and zeroing an entry.                        *)
ClientsLockFree == \A i \in Id : join[i].step # "take" /\ worker[i].step # "zero"

-----------------------------------------------------------------------------
(* LB_REQUEST_ROOM for two users the lobby has paired, step by step. *)
BeginRequest ==
  /\ ~crashed
  /\ request = NoRequest
  /\ requests < Len(Asked)
  /\ requests' = requests + 1
  /\ request' = [step |-> "scan", no |-> 1]
  /\ UNCHANGED <<tableVars, told, resetDue, join, worker, crashed>>

Requests(step) == ~crashed /\ request.step = step
Pair           == Asked[requests]

(* The search locks the numbers one by one, and takes the first free one it *)
(* comes to; without one the number is still 0.                             *)
LookAtNumber ==
  /\ Requests("scan")
  /\ \/ /\ request.no > MAX_ROOM
        /\ request' = [request EXCEPT !.step = "store", !.no = 0]
        /\ UNCHANGED number
     \/ /\ request.no \in (1..MAX_ROOM) \ number
        /\ request' = [request EXCEPT !.step = "store"]
        /\ number' = number \cup {request.no}
     \/ /\ request.no \in number
        /\ request' = [request EXCEPT !.no = @ + 1]
        /\ UNCHANGED number
  /\ UNCHANGED <<client, known, room, told, resetDue, join, worker, requests,
                 crashed>>

StoreRoom ==
  /\ Requests("store")
  /\ room' = [room EXCEPT ![request.no] = NewRoom]
  /\ request' = [request EXCEPT !.step = "first"]
  /\ UNCHANGED <<client, known, number, told, resetDue, join, worker, requests,
                 crashed>>

(* The pair is named by its ids at the lobby; the entries of the clients    *)
(* with the same ids here are written, without a lock.                      *)
WriteRoomId ==
  /\ \/ /\ Requests("first")
        /\ client' = [client EXCEPT ![Pair[1]].room = request.no]
        /\ request' = [request EXCEPT !.step = "second"]
     \/ /\ Requests("second")
        /\ client' = [client EXCEPT ![Pair[2]].room = request.no]
        /\ request' = [request EXCEPT !.step = "tell"]
  /\ UNCHANGED <<known, number, room, told, resetDue, join, worker, requests,
                 crashed>>

(* The answer takes the number to the pair by way of the lobby.  A user who *)
(* is not connected here cannot ask to join.                                *)
AnswerRequest ==
  /\ Requests("tell")
  /\ told' = [w \in User |->
                IF w \in {Pair[1], Pair[2]} \cap Here
                THEN request.no ELSE told[w]]
  /\ request' = NoRequest
  /\ UNCHANGED <<tableVars, resetDue, join, worker, requests, crashed>>

-----------------------------------------------------------------------------
(* CB_JOIN of the client with id i: a room that is gone is not answered,    *)
(* one whose round has started refuses.                                     *)
Join(i) ==
  LET u == client[i].user
      n == told[u]
  IN
  /\ ~crashed
  /\ Served(i) /\ join[i] = NoJoin
  /\ n # NoRoom
  /\ told' = [told EXCEPT ![u] = NoRoom]
  /\ \/ (Live(n) => room[n].played) /\ UNCHANGED join
     \/ /\ Live(n)
        /\ join' = [join EXCEPT ![i] = [NoJoin EXCEPT !.step = "enter", !.room = n]]
  /\ UNCHANGED <<tableVars, resetDue, request, worker, requests, crashed>>

(* The Room object a join has looked up, while it is in g_rooms.  Once it   *)
(* has been erased or replaced, the join goes on with an object nobody else *)
(* finds, about whose slots nothing is said.                                *)
Joins(i, step) == ~crashed /\ join[i].step = step
Finds(i, n)    == join[i].room = n /\ Live(n) /\ room[n].born = join[i].born
FindsRoom(i)   == Finds(i, join[i].room)

(* Room::EnterRoom.  The counter is looked at first. *)
EnterRoom(i) ==
  LET n == join[i].room IN
  /\ Joins(i, "enter")
  /\ IF Live(n)
     THEN /\ join' = [join EXCEPT ![i] =
                        IF room[n].cur < 2
                        THEN [@ EXCEPT !.step = "look", !.born = room[n].born]
                        ELSE NoJoin]
          /\ UNCHANGED <<tableVars, told, resetDue, request, worker, requests,
                         crashed>>
     ELSE Crash

(* Then GetEmpty of one slot after the other, outside the lock. *)
LookAtSlot(i) ==
  LET n == join[i].room
      s == join[i].slot
      empty == room[n].player[s] = NoId
  IN
  /\ Joins(i, "look")
  /\ \/ /\ FindsRoom(i) => empty
        /\ join' = [join EXCEPT ![i].step = "count"]
     \/ /\ FindsRoom(i) => ~empty
        /\ join' = [join EXCEPT ![i] = IF s = 0 THEN [@ EXCEPT !.slot = 1] ELSE NoJoin]
  /\ UNCHANGED <<tableVars, told, resetDue, request, worker, requests, crashed>>

(* Under g_clients_lock the player is counted, ...                          *)
CountPlayer(i) ==
  LET n == join[i].room IN
  /\ Joins(i, "count")
  /\ ClientsLockFree
  /\ room' = IF FindsRoom(i) THEN [room EXCEPT ![n].cur = @ + 1] ELSE room
  /\ join' = [join EXCEPT ![i].step = "take"]
  /\ UNCHANGED <<client, known, number, told, resetDue, request, worker,
                 requests, crashed>>

(* ... takes the slot, whoever is in it by now, and gets its room_id.       *)
TakeSlot(i) ==
  LET n == join[i].room
      s == join[i].slot
  IN
  /\ Joins(i, "take")
  /\ room' = IF FindsRoom(i)
             THEN [room EXCEPT ![n].player[s] = i,
                               ![n].met = @ \/ room[n].player[s] # NoId]
             ELSE room
  /\ client' = [client EXCEPT ![i].room = n]
  /\ join' = [join EXCEPT ![i].step = "tell", ![i].slot = 0]
  /\ UNCHANGED <<known, number, told, resetDue, request, worker, requests,
                 crashed>>

(* What AnnounceRoomEnter runs into when i has entered a room with the       *)
(* players p.  Only when slot 1 is taken it sends anything: to the player   *)
(* there and to the number of the slot the newcomer is in, used as an id,   *)
(* which is 1, or -1 when that is not slot 1.  A client that is gone has no *)
(* socket to send to.                                                       *)
NoSocket(i)       == client[i].user = Nobody
BadAnnounce(i, p) == /\ p[1] # NoId
                     /\ p[1] = i => i # 1 /\ NoSocket(1)

(* AnnounceRoomEnter and the answer, out of the lock. *)
AnnounceRoomEnter(i) ==
  LET n == join[i].room IN
  /\ Joins(i, "tell")
  /\ \/ /\ join' = [join EXCEPT ![i] = NoJoin]
        /\ UNCHANGED <<tableVars, told, resetDue, request, worker, requests,
                       crashed>>
     \/ /\ FindsRoom(i) => NoSocket(i) \/ BadAnnounce(i, room[n].player)
        /\ Crash

-----------------------------------------------------------------------------
(* Both players are ready: GameStart counts them a second time.  A room has *)
(* one match: nobody gets ready in it twice.                                *)
GameStart(n) ==
  /\ ~crashed
  /\ Live(n) /\ ~room[n].played
  /\ \A s \in Slot : room[n].player[s] # NoId
  /\ room' = [room EXCEPT ![n].cur = @ + 2, ![n].played = TRUE]
  /\ UNCHANGED <<client, known, number, told, resetDue, jobVars, requests, crashed>>

(* The match ends.  Its reset, or resets, due together, are addressed by    *)
(* the room's number.                                                       *)
GameOver(n) ==
  /\ ~crashed
  /\ Live(n) /\ room[n].played /\ ~room[n].over
  /\ resetDue' = resetDue \cup {n}
  /\ room' = [room EXCEPT ![n].over = TRUE]
  /\ UNCHANGED <<client, known, number, told, jobVars, requests, crashed>>

(* EV_RESET_ROOM: Room::Reset of the room that has the number by then. *)
ResetRoom(n) ==
  /\ ~crashed
  /\ n \in resetDue
  /\ resetDue' = resetDue \ {n}
  /\ IF Live(n) THEN room' = [room EXCEPT ![n].cur = 0] ELSE UNCHANGED room
  /\ UNCHANGED <<client, known, number, told, jobVars, requests, crashed>>

-----------------------------------------------------------------------------
(* DisconnectClient, step by step. *)
At(i, step)   == ~crashed /\ worker[i].step = step
Goes(i, step) == worker' = [worker EXCEPT ![i].step = step]
GoesToRelease(i) ==
  worker' = [worker EXCEPT ![i] = [step |-> "release", room |-> NoRoom]]

(* The slot LeaveRoom initializes: the last one with the client's id, or,   *)
(* when there is none, whatever the uninitialized leaverIdx happens to be.  *)
LeaverIdx(i, n) ==
  LET own == {s \in Slot : room[n].player[s] = i} IN
  IF own = {} THEN Slot ELSE {s \in own : \A t \in own : t <= s}

(* Room::LeaveRoom of the room the entry names. *)
LeaveRoom(i, n) ==
  /\ \E s \in LeaverIdx(i, n) :
       room' = [room EXCEPT ![n].player[s] = NoId, ![n].cur = @ - 1,
                            ![n].left = TRUE]
  /\ client' = [client EXCEPT ![i].room = NoRoom]
  /\ worker' = [worker EXCEPT ![i] = [step |-> "check", room |-> n]]

(* The client that is gone will not ask to join. *)
Forgets(i) == told' = [told EXCEPT ![client[i].user] = NoRoom]

(* A client without a room is only released.  LeaveRoom of a null Room, or  *)
(* with a leaverIdx out of range, is an access violation.                   *)
Disconnect(i) ==
  LET n == client[i].room IN
  /\ ~crashed
  /\ client[i].user # Nobody /\ worker[i] = NoJob /\ join[i] = NoJoin
  /\ \/ /\ n = NoRoom
        /\ GoesToRelease(i)
        /\ Forgets(i)
        /\ UNCHANGED <<tableVars, resetDue, request, join, requests, crashed>>
     \/ /\ n # NoRoom /\ Live(n)
        /\ ClientsLockFree
        /\ LeaveRoom(i, n)
        /\ Forgets(i)
        /\ UNCHANGED <<known, number, resetDue, request, join, requests, crashed>>
     \/ n # NoRoom /\ ~HasIn(n, i) /\ Crash

(* Mutant: a room with a counter of 0 is not empty yet. *)
LooksEmptyLate(n) == room[n].cur < 0

LooksEmpty(n) == IsEmpty(n)

CheckEmpty(i) ==
  LET n == worker[i].room IN
  /\ At(i, "check")
  /\ IF Live(n)
     THEN /\ IF LooksEmpty(n) THEN Goes(i, "erase") ELSE GoesToRelease(i)
          /\ UNCHANGED <<tableVars, told, resetDue, request, join, requests,
                         crashed>>
     ELSE Crash

(* EraseRoom: the map first, then the number. *)
EraseRoom(i) ==
  /\ At(i, "erase")
  /\ room' = [room EXCEPT ![worker[i].room] = Null]
  /\ Goes(i, "free")
  /\ UNCHANGED <<client, known, number, told, resetDue, request, join, requests,
                 crashed>>

(* Mutant: the search for the number stops one entry early. *)
FreedShort(n) == number \ ({n} \ {MAX_ROOM})

Freed(n) == number \ {n}

FreeRoomNo(i) ==
  /\ At(i, "free")
  /\ number' = Freed(worker[i].room)
  /\ GoesToRelease(i)
  /\ UNCHANGED <<client, known, room, told, resetDue, request, join, requests,
                 crashed>>

(* isConnected is cleared first, under g_clients_lock; the accept loop takes *)
(* no lock.                                                                 *)
Release(i) ==
  /\ At(i, "release")
  /\ ClientsLockFree
  /\ client' = [client EXCEPT ![i].isConnected = FALSE]
  /\ Goes(i, "zero")
  /\ UNCHANGED <<known, number, room, told, resetDue, request, join, requests,
                 crashed>>

(* ZeroMemory of whatever entry the id has by now. *)
Zero(i) ==
  /\ At(i, "zero")
  /\ client' = [client EXCEPT ![i] =
                  [user |-> Nobody, isConnected |-> FALSE, room |-> 0]]
  /\ worker' = [worker EXCEPT ![i] = NoJob]
  /\ UNCHANGED <<known, number, room, told, resetDue, request, join, requests,
                 crashed>>

Worker(i) == \/ Disconnect(i) \/ CheckEmpty(i) \/ EraseRoom(i)
             \/ FreeRoomNo(i) \/ Release(i) \/ Zero(i)

Requested == BeginRequest \/ LookAtNumber \/ StoreRoom \/ WriteRoomId \/ AnswerRequest
Joined(i) == \/ Join(i) \/ EnterRoom(i) \/ LookAtSlot(i) \/ CountPlayer(i)
             \/ TakeSlot(i) \/ AnnounceRoomEnter(i)

Next == \/ \E u \in User : Accept(u)
        \/ Requested
        \/ \E i \in Id : Joined(i) \/ Worker(i)
        \/ \E n \in Number : GameStart(n) \/ GameOver(n) \/ ResetRoom(n)

Spec == Init /\ [][Next]_vars

-----------------------------------------------------------------------------
(* No number is lost: one that is taken without a room behind it is about   *)
(* to get the room it was taken for, or to be freed by the worker that has   *)
(* erased the room, however many workers erase rooms and give out numbers   *)
(* at the same time.                                                        *)
NumberComesBack ==
  \A n \in number :
    ~Live(n) => \/ request.step = "store" /\ request.no = n
                \/ \E i \in Id : worker[i].step = "free" /\ worker[i].room = n

(* The last player to leave a room in which no match has been started takes *)
(* it down: once somebody has left and nobody is in it, a worker is about   *)
(* to erase it or a client that has just been counted takes a slot.  Rooms   *)
(* in which two joins have taken the same slot are another matter: EnterRoom *)
(* tests the slot before it takes the lock, so both joins may be counted for *)
(* one player, and when that player leaves nobody erases the room.          *)
LastLeaverErases ==
  \A n \in Number :
    /\ Live(n) /\ ~room[n].played /\ ~room[n].met
    /\ room[n].left /\ Deserted(n)
    => \/ \E i \in Id : worker[i].step \in {"check", "erase"} /\ worker[i].room = n
       \/ \E i \in Id : join[i].step = "take" /\ Finds(i, n)

=============================================================================
