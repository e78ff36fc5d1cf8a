---------------------------- MODULE ClientSession ----------------------------
(***************************************************************************)
(* Clients on their way from the log-in to a match: the buttons of the     *)
(* lobby and the matching room, the network thread that takes packets from *)
(* the connections to both servers, and the scenes.                        *)
(*                                                                         *)
(* Each connection is a FIFO queue of the packets on their way to the      *)
(* client; the network thread reads the two in any order.  A server answers *)
(* at once: an answer that is late is one that waits in its queue.  What    *)
(* happens inside the servers is in LobbyMatch, BattleRooms and RoomMatch;  *)
(* here is what of it a client gets to see, two joins that meet and a       *)
(* client lost before its join included.  Each client looks for one match;  *)
(* the debug keys (F3, F4, F8), which change scenes by hand, are not        *)
(* pressed.                                                                *)
(***************************************************************************)
EXTENDS Integers, Sequences, FiniteSets

CONSTANTS
  Client,     \* the programs that are started
  Room,       \* room numbers, enough for every pair
  MayLeave    \* bound: whether players close the program

ASSUME ClientAssumption == IsFiniteSet(Client)
ASSUME RoomAssumption == Room \subseteq Nat \ {0}
ASSUME LeaveAssumption == MayLeave \in BOOLEAN

VARIABLES
  lobbyQ,     \* client: packets of the lobby server on their way
  battleQ,    \* client: packets of the battle server on their way
  scene,      \* client: its scene, or "closed" or "crashed"
  asked,      \* client: the log-in has been sent
  matching,   \* client: m_isMatching, the start button has been pressed
  battleId,   \* client: its index in g_clients of the battle server
  knows,      \* client: the ids m_battle_clients has an object for
  shows,      \* client: the ready signs it shows, m_isReady1 and m_isReady2
  waiting,    \* the clients in the lobby's g_match_list
  match,      \* client: the room number in its LC_FIND_ROOM, 0 for none
  slot,       \* room: the battle ids of m_players
  ready,      \* room: their m_isReady
  started,    \* room: m_isGameStarted
  erased,     \* room: it has been taken out of g_rooms
  down,       \* the battle server has been stopped
  hasty,      \* history: clients that pressed start before the battle server
              \*   had answered their log-in
  readied,    \* history: clients that pressed ready in their room
  told        \* history: client: the times it was sent a BC_ROOM_ENTERED

queueVars  == <<lobbyQ, battleQ>>
lobbyVars  == <<asked, matching, waiting, match, hasty>>
roomVars   == <<slot, ready, started, erased, readied, told>>
vars == <<queueVars, lobbyVars, roomVars, scene, battleId, knows, shows, down>>

NoId  == -1
Id    == 1..Cardinality(Client)
Slot  == {0, 1}
Scene == {"lobby", "matching", "play", "closed", "crashed"}

LobbyPacket  == [type : {"LOGIN_OK", "USERINFO"}] \cup [type : {"FIND_ROOM"}, room : Room]
BattlePacket == [type : {"LOGIN_OK", "ROOM_ENTERED", "ROOM_LEAVED", "READY"}, id : Id]
                \cup [type : {"JOIN_OK", "JOIN_FAIL", "ROOM_START"}]

TypeOK ==
  /\ lobbyQ \in [Client -> Seq(LobbyPacket)]
  /\ battleQ \in [Client -> Seq(BattlePacket)]
  /\ scene \in [Client -> Scene]
  /\ asked \in [Client -> BOOLEAN]
  /\ matching \in [Client -> BOOLEAN]
  /\ battleId \in [Client -> Id \cup {NoId}]
  /\ knows \in [Client -> SUBSET Id]
  /\ shows \in [Client -> SUBSET {1, 2}]
  /\ waiting \subseteq Client
  /\ match \in [Client -> Room \cup {0}]
  /\ slot \in [Room -> [Slot -> Id \cup {NoId}]]
  /\ ready \in [Room -> [Slot -> BOOLEAN]]
  /\ started \in [Room -> BOOLEAN]
  /\ erased \in [Room -> BOOLEAN]
  /\ down \in BOOLEAN
  /\ hasty \subseteq Client
  /\ readied \subseteq Client
  /\ told \in [Client -> Nat]

Init ==
  /\ lobbyQ = [c \in Client |-> <<>>]
  /\ battleQ = [c \in Client |-> <<>>]
  /\ scene = [c \in Client |-> "lobby"]
  /\ asked = [c \in Client |-> FALSE]
  /\ matching = [c \in Client |-> FALSE]
  /\ battleId = [c \in Client |-> NoId]
  /\ knows = [c \in Client |-> {}]
  /\ shows = [c \in Client |-> {}]
  /\ waiting = {}
  /\ match = [c \in Client |-> 0]
  /\ slot = [r \in Room |-> [i \in Slot |-> NoId]]
  /\ ready = [r \in Room |-> [i \in Slot |-> FALSE]]
  /\ started = [r \in Room |-> FALSE]
  /\ erased = [r \in Room |-> FALSE]
  /\ down = FALSE
  /\ hasty = {} /\ readied = {}
  /\ told = [c \in Client |-> 0]

Runs(c)    == scene[c] \in {"lobby", "matching", "play"}
Players(r) == {slot[r][i] : i \in Slot} \ {NoId}
Vacant(r)  == \E i \in Slot : slot[r][i] = NoId
In(c, r)   == battleId[c] # NoId /\ battleId[c] \in Players(r)

(* What the battle server sends: to the clients with the ids of a set.  A   *)
(* packet to an id nobody has is lost here; that it may stop the server is  *)
(* in the actions that do it.                                               *)
To(q, ids, p) == [c \in Client |-> IF Runs(c) /\ battleId[c] \in ids
                                   THEN Append(q[c], p) ELSE q[c]]

-----------------------------------------------------------------------------
(* The buttons of the lobby scene, dead once start has been pressed. *)
ClickLogin(c) ==
  /\ scene[c] = "lobby" /\ ~matching[c] /\ ~asked[c]
  /\ asked' = [asked EXCEPT ![c] = TRUE]
  /\ lobbyQ' = [lobbyQ EXCEPT ![c] = Append(@, [type |-> "LOGIN_OK"])]
  /\ UNCHANGED <<battleQ, matching, waiting, match, hasty, roomVars, scene,
                 battleId, knows, shows, down>>

(* The battle server's answer to the log-in has been handled. *)
Answered(c) == /\ battleId[c] # NoId
               /\ \A i \in DOMAIN battleQ[c] : battleQ[c][i].type # "LOGIN_OK"

(* The start button asks neither whether the client is logged in to the     *)
(* lobby server nor to the battle server.                                   *)
ClickStart(c) ==
  /\ scene[c] = "lobby" /\ ~matching[c]
  /\ matching' = [matching EXCEPT ![c] = TRUE]
  /\ waiting' = waiting \cup {c}
  /\ hasty' = IF Answered(c) THEN hasty ELSE hasty \cup {c}
  /\ UNCHANGED <<queueVars, asked, match, roomVars, scene, battleId, knows,
                 shows, down>>

(* The lobby pairs two of its list, the battle server makes a room, and the *)
(* lobby tells both its number.  LB_REQUEST_ROOM also writes the number     *)
(* into the entries the two lobby ids have in the battle server: where that *)
(* matters, in ReadyNowhere and LeaveUnjoined, both outcomes are possible.  *)
Pair(c, d, r) ==
  /\ ~down
  /\ c # d /\ {c, d} \subseteq waiting
  /\ \A e \in Client : match[e] # r
  /\ \A q \in Room : q < r => \E e \in Client : match[e] = q
  /\ waiting' = waiting \ {c, d}
  /\ match' = [e \in Client |-> IF e \in {c, d} THEN r ELSE match[e]]
  /\ lobbyQ' = [e \in Client |->
                  IF e \in {c, d} THEN Append(lobbyQ[e], [type |-> "FIND_ROOM", room |-> r])
                                  ELSE lobbyQ[e]]
  /\ UNCHANGED <<battleQ, asked, matching, hasty, roomVars, scene, battleId,
                 knows, shows, down>>

-----------------------------------------------------------------------------
(* The network thread takes the next packet of the lobby server.            *)
(* LC_LOGIN_OK: the scene asks for the user's data.                         *)
LobbyLoginOK(c) ==
  /\ Runs(c) /\ lobbyQ[c] # <<>> /\ Head(lobbyQ[c]).type = "LOGIN_OK"
  /\ lobbyQ' = [lobbyQ EXCEPT ![c] = Append(Tail(@), [type |-> "USERINFO"])]
  /\ UNCHANGED <<battleQ, lobbyVars, roomVars, scene, battleId, knows, shows,
                 down>>

(* BattleServer::Run takes the first index that is free.  Mutant: 0, which  *)
(* is the lobby server's, too.                                              *)
Taken       == {battleId[c] : c \in {d \in Client : Runs(d)}}
FreeIdsFrom0 == ({0} \cup Id) \ Taken
FreeIds     == Id \ Taken

(* LC_USERINFO: the client connects to the battle server and logs in there. *)
UserInfo(c) ==
  /\ Runs(c) /\ lobbyQ[c] # <<>> /\ Head(lobbyQ[c]).type = "USERINFO"
  /\ ~down
  /\ \E id \in FreeIds :
       /\ \A k \in FreeIds : id <= k
       /\ battleId' = [battleId EXCEPT ![c] = id]
       /\ battleQ' = [battleQ EXCEPT ![c] = Append(@, [type |-> "LOGIN_OK", id |-> id])]
  /\ lobbyQ' = [lobbyQ EXCEPT ![c] = Tail(@)]
  /\ UNCHANGED <<lobbyVars, roomVars, scene, knows, shows, down>>

(* EnterRoom and AnnounceRoomEnter: the new player takes the first free     *)
(* slot.  The announcement looks at slot 1 only and takes the number of the *)
(* slot for a battle id: it tells client 1 of the player in slot 1, and     *)
(* that player of client 1, unless that player is client 1.  Mutants: only  *)
(* client 1 is told; the battle ids of the two players are told.            *)
FirstFree(r) == IF slot[r][0] = NoId THEN 0 ELSE 1

ToldOldOnly(id, i) == IF i = 1 /\ id # 1 THEN {1} ELSE {}

ToldFirstTwo(id, i) == IF i = 1 /\ id # 1 THEN {1, 2} ELSE {}

Told(id, i) == IF i = 1 /\ id # 1 THEN {1, id} ELSE {}

Entered(id, to) == [type |-> "ROOM_ENTERED", id |-> IF to = 1 THEN id ELSE 1]

Announce(id, i) ==
  LET tells(c) == Runs(c) /\ battleId[c] \in Told(id, i) IN
  /\ battleQ' = [c \in Client |->
       battleQ[c] \o (IF tells(c) THEN <<Entered(id, battleId[c])>> ELSE <<>>)
                  \o (IF battleId[c] = id THEN <<[type |-> "JOIN_OK"]>> ELSE <<>>)]
  /\ told' = [c \in Client |-> IF tells(c) THEN told[c] + 1 ELSE told[c]]

(* CB_JOIN.  A room that has been erased answers nothing, a room that is    *)
(* full refuses.  EnterRoom looks for the free slot before it takes the     *)
(* lock, so a join that met the one before takes slot 0 as well.  The       *)
(* announcement to client 1 goes through a null socket when nobody has that *)
(* id, and may stop the server.                                             *)
EntersAt(r) == IF slot[r][1] = NoId THEN {0, FirstFree(r)} ELSE {FirstFree(r)}
Deaf(ids)   == \E k \in ids : \A c \in Client : battleId[c] # k

Join(id, r) ==
  \/ /\ erased[r]
     /\ UNCHANGED <<battleQ, roomVars, down>>
  \/ /\ ~erased[r] /\ Vacant(r)
     /\ \E i \in EntersAt(r) :
          /\ slot' = [slot EXCEPT ![r][i] = id]
          /\ Announce(id, i)
          /\ down' \in IF Deaf(Told(id, i)) THEN BOOLEAN ELSE {FALSE}
     /\ UNCHANGED <<ready, started, erased, readied>>
  \/ /\ ~erased[r] /\ ~Vacant(r)
     /\ battleQ' = To(battleQ, {id}, [type |-> "JOIN_FAIL"])
     /\ UNCHANGED <<roomVars, down>>

(* DisconnectClient of a client that has been told of room r and not joined *)
(* it.  Nothing happens if its entry has no room (or it has no entry).  If  *)
(* it has the room of LB_REQUEST_ROOM, LeaveRoom counts it off all the same *)
(* and the room is erased, with a partner who is in it; the slot that is    *)
(* cleared is an uninitialized index, which may stop the server.  (An entry *)
(* that has got another pair's room is in BattleRooms.)                     *)
LeaveUnjoined(c, r) ==
  \/ UNCHANGED <<slot, ready, erased, down>>
  \/ /\ battleId[c] # NoId /\ ~down
     /\ slot' = [slot EXCEPT ![r] = [i \in Slot |-> NoId]]
     /\ ready' = [ready EXCEPT ![r] = [i \in Slot |-> FALSE]]
     /\ erased' = [erased EXCEPT ![r] = TRUE]
     /\ down' \in BOOLEAN

(* The program ends before it has joined the room of its match. *)
EndsUnjoined(c, end) ==
  /\ scene' = [scene EXCEPT ![c] = end]
  /\ lobbyQ' = [lobbyQ EXCEPT ![c] = <<>>]
  /\ battleQ' = [battleQ EXCEPT ![c] = <<>>]
  /\ battleId' = [battleId EXCEPT ![c] = NoId]
  /\ LeaveUnjoined(c, match[c])
  /\ UNCHANGED <<started, readied, told>>

(* LC_FIND_ROOM writes the number into the client's own entry and joins at  *)
(* once; without an entry it stops the client, and with it the connections. *)
HasEntry(c) == battleId[c] \in knows[c]

FindRoom(c) ==
  /\ Runs(c) /\ lobbyQ[c] # <<>> /\ Head(lobbyQ[c]).type = "FIND_ROOM"
  /\ \/ /\ HasEntry(c) /\ ~down
        /\ lobbyQ' = [lobbyQ EXCEPT ![c] = Tail(@)]
        /\ Join(battleId[c], Head(lobbyQ[c]).room)
        /\ UNCHANGED <<scene, battleId>>
     \/ ~HasEntry(c) /\ EndsUnjoined(c, "crashed")
  /\ UNCHANGED <<lobbyVars, knows, shows>>

-----------------------------------------------------------------------------
(* The next packet of the battle server.  BC_BATTLE_LOGIN_OK makes the      *)
(* client's own entry.  Mutant: only the two players of a match have one.   *)
Next1(c, t) == Runs(c) /\ battleQ[c] # <<>> /\ Head(battleQ[c]).type = t
Taking(c)   == battleQ' = [battleQ EXCEPT ![c] = Tail(@)]

EntryOfPlayer(id) == {id} \cap {1, 2}

Entry(id) == {id}

BattleLoginOK(c) ==
  /\ Next1(c, "LOGIN_OK")
  /\ Taking(c)
  /\ knows' = [knows EXCEPT ![c] = @ \cup Entry(Head(battleQ[c]).id)]
  /\ UNCHANGED <<lobbyQ, lobbyVars, roomVars, scene, battleId, shows, down>>

(* BC_ROOM_ENTERED: an entry for the other player; the lobby scene's        *)
(* handler changes to the matching room whatever scene is shown.            *)
RoomEntered(c) ==
  /\ Next1(c, "ROOM_ENTERED")
  /\ Taking(c)
  /\ knows' = [knows EXCEPT ![c] = @ \cup {Head(battleQ[c]).id}]
  /\ scene' = [scene EXCEPT ![c] = "matching"]
  /\ shows' = IF scene[c] = "matching" THEN shows ELSE [shows EXCEPT ![c] = {}]
  /\ UNCHANGED <<lobbyQ, lobbyVars, roomVars, battleId, down>>

(* BC_ROOM_LEAVED forgets the player; without a break the event goes on as  *)
(* EVENT_ROOM_READY and lights the ready sign of the one who has left.      *)
RoomLeaved(c) ==
  /\ Next1(c, "ROOM_LEAVED")
  /\ Taking(c)
  /\ knows' = [knows EXCEPT ![c] = @ \ {Head(battleQ[c]).id}]
  /\ shows' = [shows EXCEPT ![c] = @ \cup ({Head(battleQ[c]).id} \cap {1, 2})]
  /\ UNCHANGED <<lobbyQ, lobbyVars, roomVars, scene, battleId, down>>

(* BC_READY lights a ready sign. *)
ReadySign(c) ==
  /\ Next1(c, "READY")
  /\ Taking(c)
  /\ shows' = [shows EXCEPT ![c] = @ \cup ({Head(battleQ[c]).id} \cap {1, 2})]
  /\ UNCHANGED <<lobbyQ, lobbyVars, roomVars, scene, battleId, knows, down>>

(* BC_JOIN_OK and BC_JOIN_FAIL only fill in the client's own entry. *)
JoinAnswer(c) ==
  /\ \E t \in {"JOIN_OK", "JOIN_FAIL"} : Next1(c, t)
  /\ Taking(c)
  /\ UNCHANGED <<lobbyQ, lobbyVars, roomVars, scene, battleId, knows, shows,
                 down>>

(* BC_ROOM_START changes to the play scene. *)
RoomStart(c) ==
  /\ Next1(c, "ROOM_START")
  /\ Taking(c)
  /\ scene' = [scene EXCEPT ![c] = "play"]
  /\ UNCHANGED <<lobbyQ, lobbyVars, roomVars, battleId, knows, shows, down>>

-----------------------------------------------------------------------------
(* The ready buttons are those of clients 1 and 2.  Mutant: each client has *)
(* one.                                                                     *)
AnyReady(c) == TRUE

MayReady(c) == battleId[c] \in {1, 2} \ shows[c]

(* The players of a room that a READY of the client makes ready.  Mutant:   *)
(* looked for from slot 1, as AnnounceRoomEnter does.                       *)
MarksFrom1(c, r) == {i \in Slot \ {0} : slot[r][i] = battleId[c]}

Marks(c, r) == {i \in Slot : slot[r][i] = battleId[c]}

(* When the room starts the match. *)
Starts(f) == \A i \in Slot : f[i]

(* CB_READY in a room of the client: the players are told (PushReadyMsg     *)
(* leaves out a free slot), and when both are ready the match starts.       *)
ReadyInRoom(c, r) ==
  LET f    == [i \in Slot |-> ready[r][i] \/ i \in Marks(c, r)]
      tell == To(battleQ, Players(r), [type |-> "READY", id |-> battleId[c]])
      new  == \E i \in Slot : f[i] /\ ~ready[r][i]
      goes == Starts(f) /\ ~started[r]
      q    == IF new THEN tell ELSE battleQ
  IN
  /\ In(c, r)
  /\ ready' = [ready EXCEPT ![r] = f]
  /\ started' = [started EXCEPT ![r] = @ \/ goes]
  /\ battleQ' = IF goes THEN To(q, Players(r), [type |-> "ROOM_START"]) ELSE q
  /\ readied' = readied \cup {c}
  /\ UNCHANGED <<erased, down>>

(* A client that has been sent to the matching room without a room of its   *)
(* own has room -1, or one that has been erased, and its READY stops the    *)
(* server; or its id is the lobby id of a player, and the room of that      *)
(* player ignores it.                                                       *)
ReadyNowhere(c) ==
  /\ \A r \in Room : ~In(c, r)
  /\ down' \in BOOLEAN
  /\ UNCHANGED <<battleQ, ready, started, erased, readied>>

ClickReady(c) ==
  /\ scene[c] = "matching" /\ ~down
  /\ MayReady(c)
  /\ shows' = [shows EXCEPT ![c] = @ \cup ({battleId[c]} \cap {1, 2})]
  /\ ReadyNowhere(c) \/ \E r \in Room : ReadyInRoom(c, r)
  /\ UNCHANGED <<lobbyQ, lobbyVars, scene, battleId, knows, slot, told>>

(* A player in a room closes the program: DisconnectClient tells the other, *)
(* or erases the room when there is none.  (A room in which the match has   *)
(* started, or two joins have met, may stay; nobody is left to join it.  A  *)
(* client whose slot another join has taken stays until the end.)           *)
Close(c, r) ==
  /\ MayLeave /\ Runs(c) /\ ~down
  /\ In(c, r)
  /\ scene' = [scene EXCEPT ![c] = "closed"]
  /\ LET i == CHOOSE k \in Slot : slot[r][k] = battleId[c] IN
     /\ slot' = [slot EXCEPT ![r][i] = NoId]
     /\ ready' = [ready EXCEPT ![r][i] = FALSE]
  /\ erased' = [erased EXCEPT ![r] = Players(r) = {battleId[c]}]
  /\ battleId' = [battleId EXCEPT ![c] = NoId]
  /\ battleQ' = [To(battleQ, Players(r) \ {battleId[c]},
                    [type |-> "ROOM_LEAVED", id |-> battleId[c]])
                   EXCEPT ![c] = <<>>]
  /\ lobbyQ' = [lobbyQ EXCEPT ![c] = <<>>]
  /\ UNCHANGED <<lobbyVars, started, readied, told, knows, shows, down>>

(* A player closes the program before it has handled LC_FIND_ROOM. *)
CloseUnjoined(c) ==
  /\ MayLeave /\ Runs(c)
  /\ \E k \in DOMAIN lobbyQ[c] : lobbyQ[c][k].type = "FIND_ROOM"
  /\ EndsUnjoined(c, "closed")
  /\ UNCHANGED <<lobbyVars, knows, shows>>

-----------------------------------------------------------------------------
User(c)    == \/ ClickLogin(c) \/ ClickStart(c) \/ ClickReady(c)
              \/ \E r \in Room : Close(c, r)
              \/ CloseUnjoined(c)
Network(c) == \/ LobbyLoginOK(c) \/ UserInfo(c) \/ FindRoom(c)
              \/ BattleLoginOK(c) \/ RoomEntered(c) \/ RoomLeaved(c)
              \/ ReadySign(c) \/ JoinAnswer(c) \/ RoomStart(c)

Next == \/ \E c \in Client : User(c) \/ Network(c)
        \/ \E c, d \in Client, r \in Room : Pair(c, d, r)

Spec == Init /\ [][Next]_vars

(* The network thread polls both connections for ever. *)
FairSpec == Spec /\ \A c \in Client : WF_vars(Network(c))

-----------------------------------------------------------------------------
(* The two players of a room. *)
Pair2(c, d, r) == c # d /\ In(c, r) /\ In(d, r)
Idle(c)        == lobbyQ[c] = <<>> /\ battleQ[c] = <<>>
Shown(c)       == scene[c] \in {"matching", "play"}

(* A client stops at LC_FIND_ROOM (netCore.cpp:249) only when its player    *)
(* pressed start before the battle server had answered the log-in.          *)
CrashOnlyIfHasty == \A c \in Client : scene[c] = "crashed" => c \in hasty

(* Only client 1 is ever shown a matching room it is not a player of: what  *)
(* AnnounceRoomEnter tells a client that is not in the room goes to it.     *)
StrayOnlyFirst ==
  \A c \in Client : Shown(c) => battleId[c] = 1 \/ \E r \in Room : In(c, r)

(* When client 1 is the first to join, the announcement brings both players *)
(* to the matching room: with nothing left to handle, both are there, or in *)
(* the match.                                                               *)
AnnouncedSeen ==
  \A c, d \in Client, r \in Room :
    Pair2(c, d, r) /\ slot[r][0] = 1 /\ Idle(c) /\ Idle(d) => Shown(c) /\ Shown(d)

(* GameplayScene uses m_Users[1] and m_Users[2] unasked, which are made     *)
(* from m_battle_clients: a client that goes on to the match has an entry   *)
(* for both, and the players who are still in its room are ready.           *)
PlaysWithBoth ==
  [][\A c \in Client : scene[c] # "play" /\ scene'[c] = "play" =>
       /\ {1, 2} \subseteq knows[c]
       /\ \E r \in Room : /\ In(c, r)
                        /\ \A i \in Slot : slot[r][i] # NoId => ready[r][i]]_vars

(* A player of a room whose two players have pressed ready comes to play,   *)
(* unless one of them closes the program or the battle server stops.        *)
AllReadied(r) ==
  \A i \in Slot : \E d \in readied : battleId[d] = slot[r][i] /\ slot[r][i] # NoId

ReadyPairPlays ==
  \A c \in Client, r \in Room :
    In(c, r) /\ AllReadied(r) ~> scene[c] = "play" \/ Vacant(r) \/ down

(* What the lobby scene's handler says of ROOM_ENTERED: somebody has        *)
(* entered, oneself included.  So two players who have joined the room and  *)
(* have nothing left to handle have both seen it.                           *)
EnteredIsSeen ==
  \A c, d \in Client, r \in Room :
    Pair2(c, d, r) /\ Idle(c) /\ Idle(d) => Shown(c) /\ Shown(d)

=============================================================================
