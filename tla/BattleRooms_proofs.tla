-------------------------- MODULE BattleRooms_proofs --------------------------
(***************************************************************************)
(* Proofs about BattleRooms for any number of rooms, clients and requests, *)
(* and any interleaving of the workers' steps.  Three facts make the        *)
(* invariants inductive: a disconnect names a room as long as it has to do  *)
(* with one; g_clients_lock lets one join at a time between counting its    *)
(* player and taking the slot; and the counter of a room without a match,   *)
(* in which no two joins have met, is never higher than the number of its   *)
(* players and of that join.                                                *)
(***************************************************************************)
EXTENDS BattleRooms, TLAPS

(* The groups of variables are only ever left unchanged. *)
USE DEF tableVars, jobVars

(* A worker that is still to look at a room knows which. *)
JobHasRoom ==
  \A i \in Id : worker[i].step \in {"check", "erase", "free"}
                  => worker[i].room \in Number

(* g_clients_lock is one join's at a time. *)
OneTakes ==
  \A i, j \in Id : join[i].step = "take" /\ join[j].step = "take" => i = j

(* Whether a join has been counted in the room and is to take its slot. *)
Takes(n) == \E i \in Id : join[i].step = "take" /\ Finds(i, n)

(* The slots taken in a room. *)
One(r, s) == IF r.player[s] = NoId THEN 0 ELSE 1
Taken(r)  == One(r, 0) + One(r, 1)

(* m_curPlayerNum counts nobody who is not there or about to be. *)
Fits(r, takes) == \/ r.played \/ r.met
                  \/ r.cur <= Taken(r)
                  \/ takes /\ r.cur <= Taken(r) + 1
CounterLow == \A n \in Number : Live(n) => Fits(room[n], Takes(n))

Inv == /\ TypeOK
       /\ JobHasRoom
       /\ OneTakes
       /\ CounterLow
       /\ NumberComesBack
       /\ LastLeaverErases

(* A room after a player has been counted, has taken a slot, has left. *)
Counted(r)      == [r EXCEPT !.cur = @ + 1]
Seated(r, s, x) == [r EXCEPT !.player[s] = x, !.met = @ \/ r.player[s] # NoId]
Vacated(r, s)   == [r EXCEPT !.player[s] = NoId, !.cur = @ - 1, !.left = TRUE]

LEMMA CountedFacts ==
  ASSUME NEW r \in Room
  PROVE  /\ Counted(r) \in Room
         /\ Counted(r).player = r.player
         /\ Counted(r).cur = r.cur + 1
         /\ Counted(r).born = r.born
         /\ Counted(r).played = r.played
         /\ Counted(r).met = r.met
<1>1. r.cur \in Int /\ r.cur + 1 \in Int
  BY DEF Room
<1>2. Counted(r) \in Room
  BY <1>1 DEF Counted, Room
<1>3. /\ Counted(r).player = r.player
      /\ Counted(r).cur = r.cur + 1
      /\ Counted(r).born = r.born
      /\ Counted(r).played = r.played
      /\ Counted(r).met = r.met
  BY <1>1 DEF Counted, Room
<1> QED
  BY <1>2, <1>3

LEMMA SeatedFacts ==
  ASSUME NEW r \in Room, NEW s \in Slot, NEW x \in Id
  PROVE  /\ Seated(r, s, x) \in Room
         /\ Seated(r, s, x).player = [r.player EXCEPT ![s] = x]
         /\ Seated(r, s, x).cur = r.cur
         /\ Seated(r, s, x).played = r.played
         /\ r.met \/ r.player[s] # NoId => Seated(r, s, x).met
<1>1. Seated(r, s, x) \in Room
  BY DEF Seated, Room
<1>2. Seated(r, s, x).player = [r.player EXCEPT ![s] = x]
  BY DEF Seated, Room
<1>3. Seated(r, s, x).cur = r.cur /\ Seated(r, s, x).played = r.played
  BY DEF Seated, Room
<1>4. r.met \/ r.player[s] # NoId => Seated(r, s, x).met
  BY DEF Seated, Room
<1> QED
  BY <1>1, <1>2, <1>3, <1>4

LEMMA VacatedFacts ==
  ASSUME NEW r \in Room, NEW s \in Slot
  PROVE  /\ Vacated(r, s) \in Room
         /\ Vacated(r, s).player = [r.player EXCEPT ![s] = NoId]
         /\ Vacated(r, s).cur = r.cur - 1
         /\ Vacated(r, s).played = r.played
         /\ Vacated(r, s).met = r.met
         /\ Vacated(r, s).left
<1>1. r.cur \in Int /\ r.cur - 1 \in Int
  BY DEF Room
<1>2. Vacated(r, s) \in Room
  BY <1>1 DEF Vacated, Room
<1>3. Vacated(r, s).player = [r.player EXCEPT ![s] = NoId]
  BY <1>1 DEF Vacated, Room
<1>4. /\ Vacated(r, s).cur = r.cur - 1
      /\ Vacated(r, s).played = r.played
      /\ Vacated(r, s).met = r.met
      /\ Vacated(r, s).left
  BY <1>1 DEF Vacated, Room
<1> QED
  BY <1>2, <1>3, <1>4

LEMMA InvInit == Init => Inv
<1> SUFFICES ASSUME Init PROVE Inv
  OBVIOUS
<1>1. TypeOK
  <2>1. FreeEntry \in Client
    BY DEF FreeEntry, Client
  <2>2. requests \in 0..Len(Asked)
    BY AskedAssumption DEF Init
  <2> QED
    BY <2>1, <2>2 DEF Init, TypeOK
<1> QED
  BY <1>1 DEF Init, Inv, JobHasRoom, NoJob, OneTakes, NoJoin, CounterLow, Live,
              NumberComesBack, LastLeaverErases

-----------------------------------------------------------------------------
(* Types. *)

LEMMA AcceptType == ASSUME TypeOK, NEW u \in User, Accept(u) PROVE TypeOK'
<1>1. client' \in [Id -> Client]
  BY DEF TypeOK, Accept, Client
<1> QED
  BY <1>1 DEF TypeOK, Accept

LEMMA NewRoomType == TypeOK => NewRoom \in Room
BY DEF TypeOK, NewRoom, Room


LEMMA CrashType == ASSUME Crash PROVE TypeOK'
<1>1. FreeEntry \in Client
  BY DEF FreeEntry, Client
<1>2. requests' \in 0..Len(Asked)
  BY AskedAssumption DEF Crash
<1> QED
  BY <1>1, <1>2 DEF Crash, TypeOK

(* A room_id may be written to any entry. *)
LEMMA RoomIdType ==
  ASSUME TypeOK, NEW x, NEW n \in Number
  PROVE  [client EXCEPT ![x].room = n] \in [Id -> Client]
<1>1. CASE x \in Id
  <2>1. [client[x] EXCEPT !.room = n] \in Client
    BY <1>1 DEF TypeOK, Client
  <2> QED
    BY <1>1, <2>1 DEF TypeOK
<1>2. CASE x \notin Id
  BY <1>2 DEF TypeOK
<1> QED
  BY <1>1, <1>2

LEMMA RequestedType == ASSUME TypeOK, Requested PROVE TypeOK'
<1>1. CASE BeginRequest
  <2>1. requests' \in 0..Len(Asked)
    BY <1>1, AskedAssumption DEF TypeOK, BeginRequest
  <2>2. request' \in Request
    BY <1>1, BoundAssumption DEF BeginRequest, Request
  <2> QED
    BY <1>1, <2>1, <2>2 DEF TypeOK, BeginRequest
<1>2. CASE LookAtNumber
  <2>1. request \in Request /\ request.step = "scan" /\ request.no \in 1..(MAX_ROOM + 1)
    BY <1>2 DEF LookAtNumber, Requests, TypeOK, NoRequest, Request
  <2>2. number' \subseteq 1..MAX_ROOM
    BY <1>2 DEF LookAtNumber, TypeOK
  <2>3. request' \in Request
    <3>1. CASE request' = [request EXCEPT !.step = "store", !.no = 0]
      <4>1. request' = [step |-> "store", no |-> 0]
        BY <2>1, <3>1 DEF Request
      <4> QED
        BY <4>1, BoundAssumption DEF Request, Number
    <3>2. CASE /\ request.no \in (1..MAX_ROOM) \ number
               /\ request' = [request EXCEPT !.step = "store"]
      BY <2>1, <3>2, BoundAssumption DEF Request, Number
    <3>3. CASE request.no \in number /\ request' = [request EXCEPT !.no = @ + 1]
      <4>1. request.no + 1 \in 1..(MAX_ROOM + 1)
        BY <3>3, BoundAssumption DEF TypeOK
      <4> QED
        BY <2>1, <3>3, <4>1 DEF Request
    <3> QED
      BY <1>2, <3>1, <3>2, <3>3 DEF LookAtNumber
  <2> QED
    BY <1>2, <2>2, <2>3 DEF TypeOK, LookAtNumber
<1>3. CASE StoreRoom
  <2>1. request' \in Request
    BY <1>3 DEF StoreRoom, Requests, TypeOK, NoRequest, Request
  <2>2. room' \in [Number -> Room \cup {Null}]
    BY <1>3, NewRoomType DEF StoreRoom, TypeOK
  <2> QED
    BY <1>3, <2>1, <2>2 DEF TypeOK, StoreRoom
<1>4. CASE WriteRoomId
  <2>1. request' \in Request
    BY <1>4 DEF WriteRoomId, Requests, TypeOK, NoRequest, Request
  <2>2. request.no \in Number
    BY <1>4 DEF WriteRoomId, Requests, TypeOK, NoRequest, Request
  <2>3. client' \in [Id -> Client]
    <3>1. PICK x : client' = [client EXCEPT ![x].room = request.no]
      BY <1>4 DEF WriteRoomId
    <3>2. [client EXCEPT ![x].room = request.no] \in [Id -> Client]
      BY <2>2, RoomIdType
    <3> QED
      BY <3>1, <3>2
  <2> QED
    BY <1>4, <2>1, <2>3 DEF TypeOK, WriteRoomId
<1>5. CASE AnswerRequest
  <2>1. request.no \in Number
    BY <1>5 DEF AnswerRequest, Requests, TypeOK, NoRequest, Request
  <2>2. told' \in [User -> Number \cup {NoRoom}]
    BY <1>5, <2>1 DEF TypeOK, AnswerRequest
  <2> QED
    BY <1>5, <2>2 DEF TypeOK, AnswerRequest
<1> QED
  BY <1>1, <1>2, <1>3, <1>4, <1>5 DEF Requested

(* A join that is under way. *)
LEMMA JoiningType ==
  ASSUME TypeOK, NEW i \in Id, join[i].step # "none"
  PROVE  join[i] \in Joining
BY DEF TypeOK, NoJoin

LEMMA JoinType == ASSUME TypeOK, NEW i \in Id, Join(i) PROVE TypeOK'
<1> DEFINE u == client[i].user
           j == [NoJoin EXCEPT !.step = "enter", !.room = told[u]]
<1>1. told[u] \in Number
  BY DEF Join, Served, TypeOK, Client
<1>2. told' \in [User -> Number \cup {NoRoom}]
  BY DEF Join, TypeOK
<1>3. j \in Joining
  BY <1>1 DEF NoJoin, Joining, Slot
<1>4. join' \in [Id -> Joining \cup {NoJoin}]
  BY <1>3 DEF Join, TypeOK
<1> QED
  BY <1>2, <1>4 DEF TypeOK, Join

LEMMA EnterRoomType == ASSUME TypeOK, NEW i \in Id, EnterRoom(i) PROVE TypeOK'
<1>1. CASE Crash
  BY <1>1, CrashType
<1>2. CASE ~Crash
  <2>1. join[i] \in Joining
    BY JoiningType DEF EnterRoom, Joins
  <2>2. room[join[i].room].born \in Nat
    BY <1>2, <2>1 DEF EnterRoom, Live, TypeOK, Joining, Room
  <2>3. join' \in [Id -> Joining \cup {NoJoin}]
    <3> DEFINE k == [join[i] EXCEPT !.step = "look", !.born = room[join[i].room].born]
    <3>1. k \in Joining
      BY <2>1, <2>2 DEF Joining
    <3>2. join' = [join EXCEPT ![i] = k] \/ join' = [join EXCEPT ![i] = NoJoin]
      BY <1>2 DEF EnterRoom, TypeOK
    <3> QED
      BY <3>1, <3>2 DEF TypeOK
  <2> QED
    BY <1>2, <2>3 DEF TypeOK, EnterRoom
<1> QED
  BY <1>1, <1>2

LEMMA LookAtSlotType == ASSUME TypeOK, NEW i \in Id, LookAtSlot(i) PROVE TypeOK'
<1>1. join[i] \in Joining
  BY JoiningType DEF LookAtSlot, Joins
<1>2. join' \in [Id -> Joining \cup {NoJoin}]
  BY <1>1 DEF LookAtSlot, TypeOK, Joining, Slot
<1> QED
  BY <1>2 DEF TypeOK, LookAtSlot

LEMMA CountPlayerType == ASSUME TypeOK, NEW i \in Id, CountPlayer(i) PROVE TypeOK'
<1> DEFINE n == join[i].room
<1>1. join[i] \in Joining
  BY JoiningType DEF CountPlayer, Joins
<1>2. join' \in [Id -> Joining \cup {NoJoin}]
  BY <1>1 DEF CountPlayer, TypeOK, Joining
<1>3. room' \in [Number -> Room \cup {Null}]
  <2>1. CASE FindsRoom(i)
    <3>1. n \in Number /\ room[n] \in Room
      BY <1>1, <2>1 DEF FindsRoom, Finds, Live, TypeOK, Joining
    <3>2. room' = [room EXCEPT ![n] = Counted(room[n])]
      BY <2>1, <3>1 DEF CountPlayer, Counted, TypeOK
    <3> QED
      BY <3>1, <3>2, CountedFacts DEF TypeOK
  <2>2. CASE ~FindsRoom(i)
    BY <2>2 DEF CountPlayer, TypeOK
  <2> QED
    BY <2>1, <2>2
<1> QED
  BY <1>2, <1>3 DEF TypeOK, CountPlayer

LEMMA TakeSlotType == ASSUME TypeOK, NEW i \in Id, TakeSlot(i) PROVE TypeOK'
<1> DEFINE n == join[i].room
           s == join[i].slot
<1>1. join[i] \in Joining
  BY JoiningType DEF TakeSlot, Joins
<1>2. join' \in [Id -> Joining \cup {NoJoin}]
  BY <1>1 DEF TakeSlot, TypeOK, Joining, Slot
<1>3. n \in Number /\ s \in Slot
  BY <1>1 DEF Joining
<1>4. room' \in [Number -> Room \cup {Null}]
  <2>1. CASE FindsRoom(i)
    <3>1. room[n] \in Room
      BY <1>3, <2>1 DEF FindsRoom, Finds, Live, TypeOK
    <3>2. room' = [room EXCEPT ![n] = Seated(room[n], s, i)]
      BY <1>3, <2>1 DEF TakeSlot, Seated, TypeOK
    <3> QED
      BY <1>3, <3>1, <3>2, SeatedFacts DEF TypeOK
  <2>2. CASE ~FindsRoom(i)
    BY <2>2 DEF TakeSlot, TypeOK
  <2> QED
    BY <2>1, <2>2
<1>5. client' \in [Id -> Client]
  BY <1>3 DEF TakeSlot, TypeOK, Client
<1> QED
  BY <1>2, <1>4, <1>5 DEF TypeOK, TakeSlot

LEMMA JoinedType == ASSUME TypeOK, NEW i \in Id, Joined(i) PROVE TypeOK'
<1>1. CASE AnnounceRoomEnter(i)
  BY <1>1, CrashType DEF AnnounceRoomEnter, TypeOK
<1> QED
  BY <1>1, JoinType, EnterRoomType, LookAtSlotType, CountPlayerType, TakeSlotType
  DEF Joined

(* What the start or the end of a match makes of a room. *)
LEMMA MatchRoom ==
  ASSUME TypeOK, NEW n \in Number, GameStart(n) \/ GameOver(n)
  PROVE  \E r \in Room : /\ room' = [room EXCEPT ![n] = r] /\ r.played
                         /\ r.born = room[n].born
<1>1. room[n] \in Room
  BY DEF GameStart, GameOver, Live, TypeOK
<1> DEFINE p == [player |-> room[n].player, cur |-> room[n].cur + 2,
                 born |-> room[n].born, played |-> TRUE,
                 over |-> room[n].over, left |-> room[n].left,
                 met |-> room[n].met]
           q == [room[n] EXCEPT !.over = TRUE]
<1>2. CASE GameStart(n)
  <2>1. p \in Room /\ p.played /\ p.born = room[n].born
    BY <1>1 DEF Room
  <2>2. room' = [room EXCEPT ![n] = p]
    BY <1>1, <1>2 DEF GameStart, TypeOK, Room
  <2> QED
    BY <2>1, <2>2
<1>3. CASE GameOver(n)
  <2>1. q \in Room /\ q.played /\ q.born = room[n].born
    BY <1>1, <1>3 DEF GameOver, Room
  <2>2. room' = [room EXCEPT ![n] = q]
    BY <1>3 DEF GameOver, TypeOK
  <2> QED
    BY <2>1, <2>2
<1> QED
  BY <1>2, <1>3

LEMMA MatchType ==
  ASSUME TypeOK, NEW n \in Number, GameStart(n) \/ GameOver(n) \/ ResetRoom(n)
  PROVE  TypeOK'
<1>1. CASE GameStart(n) \/ GameOver(n)
  <2>1. room' \in [Number -> Room \cup {Null}]
    BY <1>1, MatchRoom DEF TypeOK
  <2> QED
    BY <1>1, <2>1 DEF TypeOK, GameStart, GameOver
<1>2. CASE ResetRoom(n)
  <2>1. room' \in [Number -> Room \cup {Null}]
    BY <1>2 DEF TypeOK, ResetRoom, Live, Room
  <2> QED
    BY <1>2, <2>1 DEF TypeOK, ResetRoom
<1> QED
  BY <1>1, <1>2

LEMMA ForgetsType ==
  ASSUME TypeOK, NEW i \in Id, Forgets(i)
  PROVE  told' \in [User -> Number \cup {NoRoom}]
BY DEF TypeOK, Forgets

LEMMA ReleaseType ==
  ASSUME TypeOK, NEW i \in Id, GoesToRelease(i)
  PROVE  worker' \in [Id -> Job \cup {NoJob}]
BY DEF TypeOK, GoesToRelease, Job, Step

LEMMA DisconnectType == ASSUME TypeOK, NEW i \in Id, Disconnect(i) PROVE TypeOK'
<1> DEFINE n == client[i].room
<1>1. n \in Number \cup {NoRoom}
  BY DEF TypeOK, Client
<1>2. CASE Crash
  BY <1>2, CrashType
<1>3. CASE n = NoRoom /\ GoesToRelease(i) /\ Forgets(i)
           /\ UNCHANGED <<tableVars, resetDue, request, join, requests, crashed>>
  BY <1>3, ForgetsType, ReleaseType DEF TypeOK
<1>4. CASE /\ n # NoRoom /\ Live(n)
           /\ LeaveRoom(i, n)
           /\ Forgets(i)
           /\ UNCHANGED <<known, number, resetDue, request, join, requests, crashed>>
  <2>1. room[n] \in Room /\ n \in Number
    BY <1>1, <1>4 DEF TypeOK, Live
  <2>2. PICK s \in LeaverIdx(i, n) :
          room' = [room EXCEPT ![n].player[s] = NoId, ![n].cur = @ - 1,
                               ![n].left = TRUE]
    BY <1>4 DEF LeaveRoom
  <2>3. s \in Slot
    BY DEF LeaverIdx
  <2>4. room' \in [Number -> Room \cup {Null}]
    <3>1. room' = [room EXCEPT ![n] = Vacated(room[n], s)]
      <4>1. n \in DOMAIN room
        BY <2>1 DEF TypeOK
      <4> QED
        BY <2>2, <4>1 DEF Vacated
    <3>2. Vacated(room[n], s) \in Room
      BY <2>1, <2>3, VacatedFacts
    <3> QED
      BY <2>1, <3>1, <3>2 DEF TypeOK
  <2>5. client' \in [Id -> Client]
    BY SMTT(30), <1>4 DEF LeaveRoom, TypeOK, Client
  <2>6. worker' \in [Id -> Job \cup {NoJob}]
    BY <1>4, <2>1 DEF LeaveRoom, TypeOK, Job, Step
  <2> QED
    BY <1>4, <2>4, <2>5, <2>6, ForgetsType DEF TypeOK
<1> QED
  BY <1>2, <1>3, <1>4 DEF Disconnect

(* The step of a job in progress can be set to any other. *)
LEMMA GoesType ==
  ASSUME TypeOK, NEW i \in Id, NEW s \in Step, NEW t \in Step,
         At(i, t), Goes(i, s)
  PROVE  worker' \in [Id -> Job \cup {NoJob}]
BY DEF TypeOK, At, Goes, Job, NoJob, Step

LEMMA WorkerType ==
  ASSUME TypeOK, NEW i \in Id,
         \/ CheckEmpty(i) \/ EraseRoom(i) \/ FreeRoomNo(i) \/ Release(i) \/ Zero(i)
  PROVE  TypeOK'
<1>1. CASE CheckEmpty(i)
  <2>1. CASE Crash
    BY <2>1, CrashType
  <2>2. CASE ~Crash
    <3>1. worker' \in [Id -> Job \cup {NoJob}]
      BY <1>1, <2>2, GoesType, ReleaseType DEF CheckEmpty, Step
    <3> QED
      BY <1>1, <2>2, <3>1 DEF TypeOK, CheckEmpty
  <2> QED
    BY <2>1, <2>2
<1>2. CASE EraseRoom(i)
  <2>1. worker' \in [Id -> Job \cup {NoJob}]
    BY <1>2, GoesType DEF EraseRoom, Step
  <2> QED
    BY <1>2, <2>1 DEF TypeOK, EraseRoom
<1>3. CASE FreeRoomNo(i)
  <2>1. worker' \in [Id -> Job \cup {NoJob}]
    BY <1>3, ReleaseType DEF FreeRoomNo
  <2> QED
    BY <1>3, <2>1 DEF TypeOK, FreeRoomNo, Freed
<1>4. CASE Release(i)
  <2>1. worker' \in [Id -> Job \cup {NoJob}]
    BY <1>4, GoesType DEF Release, Step
  <2>2. client' \in [Id -> Client]
    <3>1. client[i] \in Client
      BY DEF TypeOK
    <3>2. [client[i] EXCEPT !.isConnected = FALSE] \in Client
      BY <3>1 DEF Client
    <3> QED
      BY <1>4, <3>2 DEF TypeOK, Release
  <2> QED
    BY <1>4, <2>1, <2>2 DEF TypeOK, Release
<1>5. CASE Zero(i)
  <2>1. client' \in [Id -> Client]
    BY <1>5, BoundAssumption DEF TypeOK, Zero, Client, Number
  <2> QED
    BY <1>5, <2>1 DEF TypeOK, Zero
<1> QED
  BY <1>1, <1>2, <1>3, <1>4, <1>5

LEMMA TypeNext == ASSUME TypeOK, [Next]_vars PROVE TypeOK'
<1>1. CASE UNCHANGED vars
  BY <1>1 DEF TypeOK, vars
<1> QED
  BY <1>1, AcceptType, RequestedType, JoinedType, MatchType, DisconnectType,
     WorkerType
  DEF Next, Worker


-----------------------------------------------------------------------------
(* The rest of Inv, action by action. *)
Rest == JobHasRoom /\ OneTakes /\ CounterLow /\ NumberComesBack /\ LastLeaverErases

(* Nothing these invariants look at changes; a crash leaves nothing.        *)
LEMMA RestFrame ==
  ASSUME Rest, UNCHANGED <<room, number, worker, join, request>>
  PROVE  Rest'
<1>1. \A n \in Number : Takes(n)' <=> Takes(n)
  BY DEF Takes, Finds, Live
<1>2. CounterLow'
  BY <1>1 DEF Rest, CounterLow, Fits, Live
<1>3. JobHasRoom' /\ OneTakes' /\ NumberComesBack' /\ LastLeaverErases'
  BY DEF Rest, JobHasRoom, OneTakes, NumberComesBack, LastLeaverErases, Live,
         Deserted, Finds
<1> QED
  BY <1>2, <1>3 DEF Rest

LEMMA RestCrash == ASSUME Crash PROVE Rest'
BY DEF Crash, Rest, JobHasRoom, NoJob, OneTakes, NoJoin, CounterLow,
       NumberComesBack, LastLeaverErases, Live

-----------------------------------------------------------------------------
(* A step of the request that takes no number and stores no room.           *)
LEMMA RestRequest ==
  ASSUME Rest, UNCHANGED <<room, number, worker, join>>, request.step # "store"
  PROVE  Rest'
<1>1. \A n \in Number : Takes(n)' <=> Takes(n)
  BY DEF Takes, Finds, Live
<1>2. CounterLow'
  BY <1>1 DEF Rest, CounterLow, Fits, Live
<1>3. JobHasRoom' /\ OneTakes' /\ NumberComesBack' /\ LastLeaverErases'
  BY DEF Rest, JobHasRoom, OneTakes, NumberComesBack, LastLeaverErases, Live,
         Deserted, Finds
<1> QED
  BY <1>2, <1>3 DEF Rest

(* A number that is taken is the one a room is about to be stored under.    *)
LEMMA RestLookAtNumber == ASSUME TypeOK, Rest, LookAtNumber PROVE Rest'
<1>1. request.step = "scan" /\ UNCHANGED <<room, worker, join>>
  BY DEF LookAtNumber, Requests
<1>2. CASE UNCHANGED number
  BY <1>1, <1>2, RestRequest
<1>3. CASE /\ number' = number \cup {request.no}
           /\ request' = [request EXCEPT !.step = "store"]
  <2>1. request'.step = "store" /\ request'.no = request.no
    BY <1>1, <1>3 DEF TypeOK, NoRequest, Request
  <2>2. NumberComesBack'
    BY <1>1, <1>3, <2>1 DEF Rest, NumberComesBack, Live
  <2>3. \A n \in Number : Takes(n)' <=> Takes(n)
    BY <1>1 DEF Takes, Finds, Live
  <2>4. CounterLow'
    BY <1>1, <2>3 DEF Rest, CounterLow, Fits, Live
  <2>5. JobHasRoom' /\ OneTakes' /\ LastLeaverErases'
    BY <1>1 DEF Rest, JobHasRoom, OneTakes, LastLeaverErases, Live, Deserted, Finds
  <2> QED
    BY <2>2, <2>4, <2>5 DEF Rest
<1> QED
  BY <1>2, <1>3 DEF LookAtNumber

(* A room that is new has nobody in it and nobody counted. *)
LEMMA RestStoreRoom == ASSUME TypeOK, Rest, StoreRoom PROVE Rest'
<1>1. PICK n \in Number : n = request.no /\ request.step = "store"
  BY DEF StoreRoom, Requests, TypeOK, NoRequest, Request
<1>2. UNCHANGED <<number, worker, join>>
  BY DEF StoreRoom
<1>3. /\ room'[n] = NewRoom /\ NewRoom # Null
      /\ \A m \in Number \ {n} : room'[m] = room[m]
  BY <1>1, NewRoomType, NullAssumption DEF StoreRoom, TypeOK
<1>4. \A m \in Number \ {n} : Takes(m)' <=> Takes(m)
  BY <1>2, <1>3 DEF Takes, Finds, Live
<1>5. CounterLow'
  <2>1. Fits(room'[n], Takes(n)')
    BY <1>3 DEF Fits, Taken, One, NewRoom, Slot
  <2>2. \A m \in Number \ {n} : Live(m)' => Fits(room'[m], Takes(m)')
    BY <1>3, <1>4 DEF Rest, CounterLow, Fits, Live
  <2> QED
    BY <2>1, <2>2 DEF CounterLow
<1>6. NumberComesBack'
  BY <1>1, <1>2, <1>3 DEF Rest, NumberComesBack, Live, TypeOK, Number
<1>7. LastLeaverErases'
  <2>1. ~NewRoom.left
    BY DEF NewRoom
  <2> QED
    BY <1>2, <1>3, <2>1 DEF Rest, LastLeaverErases, Live, Deserted, Finds
<1> QED
  BY <1>2, <1>5, <1>6, <1>7 DEF Rest, JobHasRoom, OneTakes

LEMMA RestRequested == ASSUME TypeOK, Rest, Requested PROVE Rest'
<1>1. CASE BeginRequest
  BY <1>1, RestRequest DEF BeginRequest, NoRequest
<1>2. CASE WriteRoomId
  BY <1>2, RestRequest DEF WriteRoomId, Requests
<1>3. CASE AnswerRequest
  BY <1>3, RestRequest DEF AnswerRequest, Requests
<1> QED
  BY <1>1, <1>2, <1>3, RestLookAtNumber, RestStoreRoom DEF Requested

-----------------------------------------------------------------------------
(* A join that is neither about to take a slot nor about to be so.          *)
LEMMA RestJoin ==
  ASSUME TypeOK, Rest, NEW i \in Id, UNCHANGED <<room, number, worker, request>>,
         \A k \in Id \ {i} : join'[k] = join[k],
         join[i].step # "take", join'[i].step # "take"
  PROVE  Rest'
<1>1. \A k \in Id : join'[k].step = "take" => join'[k] = join[k]
  OBVIOUS
<1>2. \A k \in Id : join[k].step = "take" => join'[k] = join[k]
  OBVIOUS
<1>3. \A n \in Number : Takes(n)' <=> Takes(n)
  BY <1>1, <1>2 DEF Takes, Finds, Live
<1>4. CounterLow'
  BY <1>3 DEF Rest, CounterLow, Fits, Live
<1>5. OneTakes'
  BY <1>1 DEF Rest, OneTakes
<1>6. JobHasRoom' /\ NumberComesBack'
  BY DEF Rest, JobHasRoom, NumberComesBack, Live
<1>7. LastLeaverErases'
  BY <1>2 DEF Rest, LastLeaverErases, Live, Deserted, Finds
<1> QED
  BY <1>4, <1>5, <1>6, <1>7 DEF Rest

(* A room that changes and stays one.                                       *)
LEMMA RestRoomChange ==
  ASSUME TypeOK, Rest, NEW n \in Number, NEW r \in Room,
         room' = [room EXCEPT ![n] = r], UNCHANGED <<number, worker, request>>,
         Live(n), OneTakes',
         \A m \in Number \ {n} : Takes(m) => Takes(m)',
         Fits(r, Takes(n)'),
         \/ r.played \/ r.met \/ Takes(n)'
         \/ \E s \in Slot : r.player[s] # NoId
         \/ /\ r.player = room[n].player /\ r.left = room[n].left
            /\ r.played = room[n].played /\ r.met = room[n].met
            /\ ~Takes(n)
  PROVE  Rest'
<1>1. /\ room'[n] = r /\ r # Null
      /\ \A m \in Number \ {n} : room'[m] = room[m]
  BY NullAssumption DEF TypeOK
<1>2. JobHasRoom'
  BY DEF Rest, JobHasRoom
<1>3. CounterLow'
  <2>1. ASSUME NEW m \in Number \ {n}, Live(m)' PROVE Fits(room[m], Takes(m)')
    BY <1>1, <2>1 DEF Rest, CounterLow, Live, Fits
  <2> QED
    BY <1>1, <2>1 DEF CounterLow
<1>4. NumberComesBack'
  BY <1>1 DEF Rest, NumberComesBack, Live, TypeOK, Number
<1>5. LastLeaverErases'
  <2> SUFFICES ASSUME NEW m \in Number, Live(m)', ~room'[m].played, ~room'[m].met,
                      room'[m].left, Deserted(m)'
               PROVE  \/ \E k \in Id : /\ worker[k].step \in {"check", "erase"}
                                       /\ worker[k].room = m
                      \/ Takes(m)'
    BY DEF LastLeaverErases, Takes
  <2>1. CASE m # n
    BY <1>1, <2>1 DEF Rest, LastLeaverErases, Live, Deserted, Takes
  <2>2. CASE m = n
    BY <1>1, <2>2 DEF Rest, LastLeaverErases, Live, Deserted, Takes
  <2> QED
    BY <2>1, <2>2
<1> QED
  BY <1>2, <1>3, <1>4, <1>5 DEF Rest

(* While the lock is free nobody is about to take a slot. *)
LEMMA NobodyTakes == ASSUME ClientsLockFree, NEW n PROVE ~Takes(n)
BY DEF ClientsLockFree, Takes

(* The counter goes up, and the join that has counted is to take its slot.  *)
LEMMA RestCountPlayer == ASSUME TypeOK, Rest, NEW i \in Id, CountPlayer(i) PROVE Rest'
<1>1. PICK n \in Number :
        n = join[i].room /\ join[i] \in Joining /\ join[i].step = "count"
  BY JoiningType DEF CountPlayer, Joins, Joining
<1>2. ClientsLockFree /\ UNCHANGED <<number, worker, request>>
  BY DEF CountPlayer
<1>3. /\ join'[i].step = "take" /\ join'[i].room = n
      /\ join'[i].born = join[i].born
      /\ \A k \in Id \ {i} : join'[k] = join[k]
  BY <1>1 DEF CountPlayer, TypeOK, Joining
<1>4. OneTakes'
  BY <1>2, <1>3 DEF ClientsLockFree, OneTakes
<1>5. \A m \in Number : ~Takes(m)
  BY <1>2, NobodyTakes
<1>6. CASE FindsRoom(i)
  <2>1. room[n] \in Room /\ Live(n)
    BY <1>1, <1>6 DEF TypeOK, FindsRoom, Finds, Live
  <2>2. PICK r \in Room :
          /\ r = Counted(room[n])
          /\ r.player = room[n].player /\ r.cur = room[n].cur + 1
          /\ r.born = room[n].born /\ r.played = room[n].played /\ r.met = room[n].met
    BY <2>1, CountedFacts
  <2>3. room' = [room EXCEPT ![n] = r]
    BY <1>1, <1>6, <2>2 DEF CountPlayer, Counted, TypeOK
  <2>4. Takes(n)'
    <3>1. room'[n] = r /\ r # Null
      BY <1>1, <2>2, <2>3, NullAssumption DEF TypeOK
    <3> QED
      BY <1>1, <1>3, <1>6, <2>2, <3>1 DEF Takes, Finds, FindsRoom, Live
  <2>5. Fits(r, Takes(n)')
    <3>1. Fits(room[n], Takes(n)) /\ ~Takes(n)
      BY <1>5, <2>1 DEF Rest, CounterLow
    <3>2. Taken(r) = Taken(room[n])
      BY <2>2 DEF Taken, One
    <3>3. Taken(room[n]) \in Int /\ room[n].cur \in Int
      BY <2>1 DEF Taken, One, Room
    <3>4. \/ r.played \/ r.met
          \/ r.cur <= Taken(r) + 1
      BY <2>2, <3>1, <3>2, <3>3 DEF Fits
    <3> QED
      BY <2>4, <3>4 DEF Fits
  <2> QED
    BY <1>1, <1>2, <1>4, <1>5, <2>1, <2>2, <2>3, <2>4, <2>5, RestRoomChange
<1>7. CASE ~FindsRoom(i)
  <2>1. UNCHANGED room
    BY <1>7 DEF CountPlayer
  <2>2. CounterLow'
    BY <1>5, <2>1 DEF Rest, CounterLow, Live, Fits
  <2>3. LastLeaverErases'
    BY <1>2, <1>5, <2>1 DEF Rest, LastLeaverErases, Live, Deserted, Takes
  <2> QED
    BY <1>2, <1>4, <2>1, <2>2, <2>3 DEF Rest, JobHasRoom, NumberComesBack, Live
<1> QED
  BY <1>6, <1>7

(* The slot of the player that has been counted is taken. *)
LEMMA RestTakeSlot == ASSUME TypeOK, Rest, NEW i \in Id, TakeSlot(i) PROVE Rest'
<1>1. PICK n \in Number, s \in Slot :
        /\ n = join[i].room /\ s = join[i].slot
        /\ join[i] \in Joining /\ join[i].step = "take"
  BY JoiningType DEF TakeSlot, Joins, Joining
<1>2. UNCHANGED <<number, worker, request>>
  BY DEF TakeSlot
<1>3. \A k \in Id : join[k].step = "take" => k = i
  BY <1>1 DEF Rest, OneTakes
<1>4. join'[i].step = "tell" /\ \A k \in Id \ {i} : join'[k] = join[k]
  BY <1>1 DEF TakeSlot, TypeOK, Joining
<1>5. OneTakes'
  BY <1>3, <1>4 DEF OneTakes
<1>6. \A m \in Number : Takes(m) => FindsRoom(i) /\ m = n
  BY <1>1, <1>3 DEF Takes, Finds, FindsRoom
<1>7. CASE FindsRoom(i)
  <2>1. room[n] \in Room /\ Live(n)
    BY <1>1, <1>7 DEF TypeOK, FindsRoom, Finds, Live
  <2>2. PICK r \in Room :
          /\ r = Seated(room[n], s, i)
          /\ r.player = [room[n].player EXCEPT ![s] = i]
          /\ r.cur = room[n].cur /\ r.played = room[n].played
          /\ room[n].met \/ room[n].player[s] # NoId => r.met
    BY <2>1, SeatedFacts
  <2>3. room' = [room EXCEPT ![n] = r]
    BY <1>1, <1>7, <2>2 DEF TakeSlot, Seated, TypeOK
  <2>4. i # NoId
    BY BoundAssumption DEF Id, NoId
  <2>5. r.player[s] = i /\ \A t \in Slot \ {s} : r.player[t] = room[n].player[t]
    BY <1>1, <2>1, <2>2 DEF Room
  <2>6. Fits(r, Takes(n)')
    <3>1. CASE room[n].met \/ room[n].player[s] # NoId \/ room[n].played
      BY <2>2, <3>1 DEF Fits
    <3>2. CASE ~room[n].met /\ room[n].player[s] = NoId /\ ~room[n].played
      <4>1. Taken(room[n]) \in Int /\ room[n].cur \in Int
        BY <2>1 DEF Taken, One, Room
      <4>2. room[n].cur <= Taken(room[n]) + 1
        BY <1>1, <2>1, <3>2, <4>1 DEF Rest, CounterLow, Fits
      <4>3. Taken(r) = Taken(room[n]) + 1
        <5>1. CASE s = 0
          <6>1. One(r, 0) = 1 /\ One(room[n], 0) = 0 /\ One(r, 1) = One(room[n], 1)
            BY <2>4, <2>5, <3>2, <5>1 DEF One, Slot
          <6> QED
            BY <6>1 DEF Taken, One
        <5>2. CASE s = 1
          <6>1. One(r, 1) = 1 /\ One(room[n], 1) = 0 /\ One(r, 0) = One(room[n], 0)
            BY <2>4, <2>5, <3>2, <5>2 DEF One, Slot
          <6> QED
            BY <6>1 DEF Taken, One
        <5> QED
          BY <1>1, <5>1, <5>2 DEF Slot
      <4> QED
        BY <2>2, <4>2, <4>3 DEF Fits
    <3> QED
      BY <3>1, <3>2
  <2>7. \E t \in Slot : r.player[t] # NoId
    BY <1>1, <2>4, <2>5
  <2> QED
    BY <1>1, <1>2, <1>5, <1>6, <2>1, <2>2, <2>3, <2>6, <2>7, RestRoomChange
<1>8. CASE ~FindsRoom(i)
  <2>1. UNCHANGED room
    BY <1>8 DEF TakeSlot
  <2>2. CounterLow'
    BY <1>6, <1>8, <2>1 DEF Rest, CounterLow, Live, Fits
  <2>3. LastLeaverErases'
    BY <1>2, <1>6, <1>8, <2>1 DEF Rest, LastLeaverErases, Live, Deserted, Takes
  <2> QED
    BY <1>2, <1>5, <2>1, <2>2, <2>3 DEF Rest, JobHasRoom, NumberComesBack, Live
<1> QED
  BY <1>7, <1>8

LEMMA RestJoined == ASSUME TypeOK, Rest, NEW i \in Id, Joined(i) PROVE Rest'
<1>1. CASE Crash
  BY <1>1, RestCrash
<1>2. CASE ~Crash /\ (Join(i) \/ EnterRoom(i) \/ LookAtSlot(i) \/ AnnounceRoomEnter(i))
  <2>1. UNCHANGED <<room, number, worker, request>>
    BY <1>2 DEF Join, EnterRoom, LookAtSlot, AnnounceRoomEnter
  <2>2. join[i].step # "take"
    BY <1>2 DEF Join, EnterRoom, LookAtSlot, AnnounceRoomEnter, Joins, NoJoin
  <2>3. /\ join'[i].step # "take"
        /\ \A k \in Id \ {i} : join'[k] = join[k]
    <3>1. CASE Join(i)
      BY <2>2, <3>1 DEF Join, NoJoin, TypeOK
    <3>2. CASE EnterRoom(i)
      <4>1. join[i] \in Joining
        BY <3>2, JoiningType DEF EnterRoom, Joins
      <4> DEFINE j == [join[i] EXCEPT !.step = "look", !.born = room[join[i].room].born]
      <4>2. j.step = "look"
        BY <4>1 DEF Joining
      <4>3. join' = [join EXCEPT ![i] = j] \/ join' = [join EXCEPT ![i] = NoJoin]
        BY <1>2, <3>2 DEF EnterRoom, TypeOK
      <4> HIDE DEF j
      <4> QED
        BY <4>2, <4>3 DEF NoJoin, TypeOK
    <3>3. CASE LookAtSlot(i)
      <4>1. join[i] \in Joining
        BY <3>3, JoiningType DEF LookAtSlot, Joins
      <4> QED
        BY <2>2, <3>3, <4>1 DEF LookAtSlot, NoJoin, TypeOK, Joining
    <3>4. CASE AnnounceRoomEnter(i)
      BY <1>2, <3>4 DEF AnnounceRoomEnter, NoJoin, TypeOK
    <3> QED
      BY <1>2, <3>1, <3>2, <3>3, <3>4
  <2> QED
    BY <2>1, <2>2, <2>3, RestJoin
<1> QED
  BY <1>1, <1>2, RestCountPlayer, RestTakeSlot DEF Joined

-----------------------------------------------------------------------------
LEMMA RestMatch ==
  ASSUME TypeOK, Rest, NEW n \in Number, GameStart(n) \/ GameOver(n) \/ ResetRoom(n)
  PROVE  Rest'
<1>1. UNCHANGED <<number, worker, join, request>>
  BY DEF GameStart, GameOver, ResetRoom
<1>2. CASE UNCHANGED room
  BY <1>1, <1>2, RestFrame
<1>3. CASE GameStart(n) \/ GameOver(n)
  <2>1. room[n] \in Room /\ Live(n)
    BY <1>3 DEF GameStart, GameOver, Live, TypeOK
  <2>2. PICK r \in Room : /\ room' = [room EXCEPT ![n] = r] /\ r.played
                          /\ r.born = room[n].born
    BY <1>3, MatchRoom
  <2>3. room'[n] = r /\ r # Null /\ \A m \in Number \ {n} : room'[m] = room[m]
    BY <2>2, NullAssumption DEF TypeOK
  <2>4. OneTakes' /\ \A m \in Number : Takes(m) => Takes(m)'
    BY <1>1, <2>1, <2>2, <2>3 DEF Rest, OneTakes, Takes, Finds, Live
  <2> QED
    BY <1>1, <2>1, <2>2, <2>4, RestRoomChange DEF Fits
<1>4. CASE ResetRoom(n) /\ Live(n)
  <2>1. room[n] \in Room
    BY <1>4 DEF Live, TypeOK
  <2>2. PICK r \in Room : /\ room' = [room EXCEPT ![n] = r] /\ r.cur = 0
                          /\ r.player = room[n].player /\ r.left = room[n].left
                          /\ r.played = room[n].played /\ r.met = room[n].met
                          /\ r.born = room[n].born
    <3> DEFINE r == [room[n] EXCEPT !.cur = 0]
    <3>1. /\ r \in Room /\ r.cur = 0 /\ r.player = room[n].player
          /\ r.left = room[n].left /\ r.played = room[n].played
          /\ r.met = room[n].met /\ r.born = room[n].born
      BY <2>1 DEF Room
    <3>2. room' = [room EXCEPT ![n] = r]
      BY <1>4, <2>1 DEF ResetRoom, TypeOK, Room
    <3> QED
      BY <3>1, <3>2
  <2>3. room'[n] = r /\ r # Null /\ \A m \in Number \ {n} : room'[m] = room[m]
    BY <2>2, NullAssumption DEF TypeOK
  <2>4. OneTakes' /\ \A m \in Number : Takes(m) => Takes(m)'
    BY <1>1, <1>4, <2>2, <2>3 DEF Rest, OneTakes, Takes, Finds, Live
  <2>5. Fits(r, Takes(n)')
    BY <2>2 DEF Fits, Taken, One
  <2> QED
    BY <1>1, <1>4, <2>2, <2>4, <2>5, RestRoomChange
<1> QED
  BY <1>2, <1>3, <1>4 DEF ResetRoom

(* A worker without anything to do about a room may get such a job, or      *)
(* another one without: what the other workers are to do stays.             *)
LEMMA RestIdle ==
  ASSUME TypeOK, Rest, NEW i \in Id, UNCHANGED <<room, number, join, request>>,
         worker[i].step \in {"none", "release", "zero"},
         \A k \in Id \ {i} : worker'[k] = worker[k],
         worker'[i].step \in {"none", "release", "zero"}
  PROVE  Rest'
<1>1. JobHasRoom' /\ OneTakes'
  BY DEF Rest, JobHasRoom, OneTakes
<1>2. CounterLow'
  <2>1. \A n \in Number : Takes(n)' <=> Takes(n)
    BY DEF Takes, Finds, Live
  <2> QED
    BY <2>1 DEF Rest, CounterLow, Fits, Live
<1>3. NumberComesBack'
  BY DEF Rest, NumberComesBack, Live
<1>4. LastLeaverErases'
  BY DEF Rest, LastLeaverErases, Live, Deserted, Finds
<1> QED
  BY <1>1, <1>2, <1>3, <1>4 DEF Rest

(* LeaveRoom takes one off the counter and at most one player out; the      *)
(* worker that has done it is to look whether the room is empty.            *)
LEMMA RestDisconnect == ASSUME TypeOK, Rest, NEW i \in Id, Disconnect(i) PROVE Rest'
<1>1. worker[i].step = "none"
  BY DEF Disconnect, NoJob
<1>2. CASE Crash
  BY <1>2, RestCrash
<1>3. CASE /\ GoesToRelease(i)
           /\ UNCHANGED <<tableVars, resetDue, request, join, requests, crashed>>
  <2>1. worker'[i].step = "release" /\ \A k \in Id \ {i} : worker'[k] = worker[k]
    BY <1>3 DEF GoesToRelease, TypeOK
  <2> QED
    BY <1>1, <1>3, <2>1, RestIdle
<1>4. CASE /\ client[i].room # NoRoom /\ Live(client[i].room) /\ ClientsLockFree
           /\ LeaveRoom(i, client[i].room)
           /\ UNCHANGED <<known, number, resetDue, request, join, requests, crashed>>
  <2>1. PICK n \in Number : n = client[i].room
    BY <1>4 DEF TypeOK, Client
  <2>2. room[n] \in Room /\ Live(n) /\ LeaveRoom(i, n)
    BY <1>4, <2>1 DEF TypeOK, Live
  <2>3. PICK s \in LeaverIdx(i, n) :
          room' = [room EXCEPT ![n].player[s] = NoId, ![n].cur = @ - 1,
                               ![n].left = TRUE]
    BY <2>2 DEF LeaveRoom
  <2>4. s \in Slot
    BY DEF LeaverIdx
  <2>5. PICK r \in Room :
          /\ r = Vacated(room[n], s)
          /\ r.player = [room[n].player EXCEPT ![s] = NoId]
          /\ r.cur = room[n].cur - 1 /\ r.played = room[n].played
          /\ r.met = room[n].met /\ r.left
    BY <2>2, <2>4, VacatedFacts
  <2>6. room' = [room EXCEPT ![n] = r]
    BY <2>3, <2>5 DEF TypeOK, Vacated
  <2>7. /\ room'[n] = r /\ r # Null
        /\ \A m \in Number \ {n} : room'[m] = room[m]
    BY <2>6, NullAssumption DEF TypeOK
  <2>8. /\ worker'[i] = [step |-> "check", room |-> n]
        /\ \A k \in Id \ {i} : worker'[k] = worker[k]
    BY <2>2 DEF LeaveRoom, TypeOK
  <2>9. \A m \in Number : ~Takes(m)
    BY <1>4, NobodyTakes
  <2>10. Fits(r, Takes(n)')
    <3>1. Fits(room[n], Takes(n)) /\ ~Takes(n)
      BY <2>2, <2>9 DEF Rest, CounterLow
    <3>2. \A t \in Slot \ {s} : r.player[t] = room[n].player[t]
      BY <2>2, <2>4, <2>5 DEF Room
    <3>3. Taken(room[n]) - 1 <= Taken(r)
      <4>1. s = 0 => One(r, 1) = One(room[n], 1)
        BY <3>2 DEF One, Slot
      <4>2. s = 1 => One(r, 0) = One(room[n], 0)
        BY <3>2 DEF One, Slot
      <4>3. /\ One(r, 0) \in {0, 1} /\ One(r, 1) \in {0, 1}
            /\ One(room[n], 0) \in {0, 1} /\ One(room[n], 1) \in {0, 1}
        BY DEF One
      <4> QED
        BY <2>4, <4>1, <4>2, <4>3 DEF Taken, Slot
    <3>4. Taken(room[n]) \in Int /\ Taken(r) \in Int /\ room[n].cur \in Int
      BY <2>2 DEF Taken, One, Room
    <3> QED
      BY <2>5, <3>1, <3>3, <3>4 DEF Fits
  <2>11. JobHasRoom' /\ OneTakes'
    BY <1>4, <2>8 DEF Rest, JobHasRoom, OneTakes
  <2>12. CounterLow'
    <3>1. \A m \in Number \ {n} : Live(m)' => Fits(room'[m], Takes(m)')
      BY <2>7, <2>9 DEF Rest, CounterLow, Live, Fits
    <3> QED
      BY <2>7, <2>10, <3>1 DEF CounterLow
  <2>13. NumberComesBack'
    <3>1. \A m \in Number : Live(m) => Live(m)'
      BY <2>7 DEF Live
    <3>2. \A k \in Id : worker[k].step = "free" => worker'[k] = worker[k]
      BY <1>1, <2>8
    <3>3. number' = number /\ request' = request /\ number \subseteq Number
      BY <1>4 DEF TypeOK, Number
    <3> QED
      BY <3>1, <3>2, <3>3 DEF Rest, NumberComesBack
  <2>14. LastLeaverErases'
    <3> SUFFICES ASSUME NEW m \in Number, Live(m)', ~room'[m].played, ~room'[m].met,
                        room'[m].left, Deserted(m)'
                 PROVE  \E k \in Id : /\ worker'[k].step \in {"check", "erase"}
                                     /\ worker'[k].room = m
      BY DEF LastLeaverErases
    <3>1. CASE m = n
      BY <2>8, <3>1
    <3>2. CASE m # n
      <4>1. \E k \in Id : /\ worker[k].step \in {"check", "erase"}
                         /\ worker[k].room = m
        BY <2>7, <2>9, <3>2 DEF Rest, LastLeaverErases, Live, Deserted, Takes
      <4> QED
        BY <1>1, <2>8, <4>1
    <3> QED
      BY <3>1, <3>2
  <2> QED
    BY <2>11, <2>12, <2>13, <2>14 DEF Rest
<1> QED
  BY <1>2, <1>3, <1>4 DEF Disconnect

(* A worker that leaves a room standing has seen somebody in it, or a join  *)
(* that is about to be.                                                     *)
LEMMA RestCheckEmpty == ASSUME TypeOK, Rest, NEW i \in Id, CheckEmpty(i) PROVE Rest'
<1>1. PICK n \in Number : n = worker[i].room /\ worker[i].step = "check"
  BY DEF CheckEmpty, At, Rest, JobHasRoom
<1>2. CASE Crash
  BY <1>2, RestCrash
<1>3. CASE ~Crash
  <2>1. Live(n) /\ UNCHANGED <<room, number, join, request>>
    BY <1>1, <1>3 DEF CheckEmpty
  <2>2. /\ IF LooksEmpty(n) THEN worker'[i].step = "erase" /\ worker'[i].room = n
                            ELSE worker'[i].step = "release"
        /\ \A k \in Id \ {i} : worker'[k] = worker[k]
    <3>1. worker[i] \in Job
      BY <1>1 DEF TypeOK, NoJob
    <3> QED
      BY <1>1, <1>3, <3>1 DEF CheckEmpty, Goes, GoesToRelease, TypeOK, Job
  <2>3. JobHasRoom' /\ OneTakes'
    BY <1>1, <2>1, <2>2 DEF Rest, JobHasRoom, OneTakes
  <2>4. \A m \in Number : Takes(m)' <=> Takes(m)
    BY <2>1 DEF Takes, Finds, Live
  <2>5. CounterLow'
    BY <2>1, <2>4 DEF Rest, CounterLow, Fits, Live
  <2>6. NumberComesBack'
    BY <1>1, <2>1, <2>2 DEF Rest, NumberComesBack, Live
  <2>7. LastLeaverErases'
    <3>1. ~room[n].played /\ ~room[n].met /\ Deserted(n) => LooksEmpty(n) \/ Takes(n)
      BY <2>1 DEF Rest, CounterLow, Fits, Deserted, Slot, Taken, One, LooksEmpty,
                  IsEmpty
    <3>2. \A m \in Number :
            /\ Live(m)' /\ ~room'[m].played /\ ~room'[m].met
            /\ room'[m].left /\ Deserted(m)'
            => \/ \E k \in Id : /\ worker'[k].step \in {"check", "erase"}
                               /\ worker'[k].room = m
               \/ Takes(m)
      BY <1>1, <2>1, <2>2, <3>1 DEF Rest, LastLeaverErases, Live, Deserted, Takes
    <3> QED
      BY <2>4, <3>2 DEF LastLeaverErases, Takes
  <2> QED
    BY <2>3, <2>5, <2>6, <2>7 DEF Rest
<1> QED
  BY <1>2, <1>3

LEMMA RestErase == ASSUME TypeOK, Rest, NEW i \in Id, EraseRoom(i) PROVE Rest'
<1>1. PICK n \in Number : n = worker[i].room /\ worker[i].step = "erase"
  BY DEF EraseRoom, At, Rest, JobHasRoom
<1>2. /\ UNCHANGED <<number, join, request>> /\ room'[n] = Null
      /\ \A m \in Number \ {n} : room'[m] = room[m]
  BY <1>1 DEF EraseRoom, TypeOK
<1>3. /\ worker'[i].step = "free" /\ worker'[i].room = n
      /\ \A k \in Id \ {i} : worker'[k] = worker[k]
  <2>1. worker[i] \in Job
    BY <1>1 DEF TypeOK, NoJob
  <2> QED
    BY <1>1, <2>1 DEF EraseRoom, Goes, TypeOK, Job
<1>4. JobHasRoom' /\ OneTakes'
  BY <1>1, <1>2, <1>3 DEF Rest, JobHasRoom, OneTakes
<1>5. CounterLow'
  <2>1. \A m \in Number \ {n} : Takes(m)' <=> Takes(m)
    BY <1>2 DEF Takes, Finds, Live
  <2> QED
    BY <1>2, <2>1 DEF Rest, CounterLow, Fits, Live
<1>6. NumberComesBack'
  BY <1>1, <1>2, <1>3 DEF Rest, NumberComesBack, Live, TypeOK, Number
<1>7. LastLeaverErases'
  BY <1>1, <1>2, <1>3 DEF Rest, LastLeaverErases, Live, Deserted, Finds
<1> QED
  BY <1>4, <1>5, <1>6, <1>7 DEF Rest

LEMMA RestFree == ASSUME TypeOK, Rest, NEW i \in Id, FreeRoomNo(i) PROVE Rest'
<1>1. PICK n \in Number : n = worker[i].room /\ worker[i].step = "free"
  BY DEF FreeRoomNo, At, Rest, JobHasRoom
<1>2. UNCHANGED <<room, join, request>> /\ number' = number \ {n}
  BY <1>1 DEF FreeRoomNo, Freed
<1>3. /\ worker'[i].step = "release"
      /\ \A k \in Id \ {i} : worker'[k] = worker[k]
  BY DEF FreeRoomNo, GoesToRelease, TypeOK
<1>4. JobHasRoom' /\ OneTakes'
  BY <1>2, <1>3 DEF Rest, JobHasRoom, OneTakes
<1>5. CounterLow'
  <2>1. \A m \in Number : Takes(m)' <=> Takes(m)
    BY <1>2 DEF Takes, Finds, Live
  <2> QED
    BY <1>2, <2>1 DEF Rest, CounterLow, Fits, Live
<1>6. NumberComesBack'
  BY <1>1, <1>2, <1>3 DEF Rest, NumberComesBack, Live
<1>7. LastLeaverErases'
  BY <1>1, <1>2, <1>3 DEF Rest, LastLeaverErases, Live, Deserted, Finds
<1> QED
  BY <1>4, <1>5, <1>6, <1>7 DEF Rest

LEMMA RestRelease ==
  ASSUME TypeOK, Rest, NEW i \in Id, Release(i) \/ Zero(i) PROVE Rest'
<1>1. UNCHANGED <<room, number, join, request>> /\ worker[i].step \in {"release", "zero"}
  BY DEF Release, Zero, At
<1>2. /\ worker'[i].step \in {"none", "zero"}
      /\ \A k \in Id \ {i} : worker'[k] = worker[k]
  BY DEF Release, Zero, Goes, TypeOK, Job, NoJob
<1> QED
  BY <1>1, <1>2, RestIdle

LEMMA RestNext == ASSUME TypeOK, Rest, [Next]_vars PROVE Rest'
<1>1. CASE UNCHANGED vars
  BY <1>1, RestFrame DEF vars
<1>2. ASSUME NEW u \in User, Accept(u) PROVE Rest'
  BY <1>2, RestFrame DEF Accept
<1> QED
  BY <1>1, <1>2, RestRequested, RestJoined, RestMatch, RestDisconnect,
     RestCheckEmpty, RestErase, RestFree, RestRelease
  DEF Next, Worker

-----------------------------------------------------------------------------
(* The inductive invariant holds in every state the tables reach. *)
THEOREM InvCorrect == Spec => []Inv
<1>1. Inv /\ [Next]_vars => Inv'
  BY TypeNext, RestNext DEF Inv, Rest
<1> QED
  BY InvInit, <1>1, PTL DEF Spec

(* The tables hold what the code can put there, and only that: ids of       *)
(* clients, numbers of rooms, steps of a request, a join, a disconnect.     *)
THEOREM TypeCorrect == Spec => []TypeOK
<1>1. Inv => TypeOK
  BY DEF Inv
<1> QED
  BY InvCorrect, <1>1, PTL

(* However many workers take rooms down and however many rooms are asked    *)
(* for meanwhile, a number in g_room_no has a room, or the worker that has  *)
(* taken the number is about to store one (LB_REQUEST_ROOM), or the worker  *)
(* that has erased the room is about to free the number (EraseRoom).        *)
THEOREM NumberComesBackCorrect == Spec => []NumberComesBack
<1>1. Inv => NumberComesBack
  BY DEF Inv
<1> QED
  BY InvCorrect, <1>1, PTL

(* A room in which no match has been started, and in which no two joins     *)
(* have taken the same slot, does not survive its last player: after         *)
(* LeaveRoom the counter is above the number of players left only by a join *)
(* that is about to take a slot (EnterRoom), so that otherwise IsEmpty is   *)
(* true for the worker that asks.                                           *)
THEOREM LastLeaverErasesCorrect == Spec => []LastLeaverErases
<1>1. Inv => LastLeaverErases
  BY DEF Inv
<1> QED
  BY InvCorrect, <1>1, PTL
=============================================================================
