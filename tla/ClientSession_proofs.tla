------------------------- MODULE ClientSession_proofs -------------------------
(***************************************************************************)
(* Theorems about ClientSession, for any number of clients and rooms.      *)
(*                                                                         *)
(* The invariant says, for each kind of packet on its way, what the sender *)
(* knew and nothing has changed since; it comes in layers, each of which   *)
(* rests on the ones before it:                                            *)
(*   LoginInv  who has which battle id                                     *)
(*   MatchInv  who is in which room, who still has to join                 *)
(*   EntryInv  whom a client has an object for                             *)
(*   ShownInv  whom a room's announcement reaches, who can be ready        *)
(*   StartInv  what a client knows when BC_ROOM_START reaches it           *)
(***************************************************************************)
EXTENDS ClientSession, SequenceTheorems, FiniteSetTheorems, TLAPS

(* A queue holds a packet of a type of T; at most one of them. *)
Has(q, T)  == \E k \in 1..Len(q) : q[k].type \in T
Once(q, T) == \A j, k \in 1..Len(q) :
                q[j].type \in T /\ q[k].type \in T => j = k

LoggingIn == {"LOGIN_OK", "USERINFO"}


-----------------------------------------------------------------------------
(* Battle ids are those of the clients that run and have been answered.     *)
LoginInv ==
  /\ \A c, d \in Client : battleId[c] = battleId[d] => c = d \/ battleId[c] = NoId
  /\ \A c \in Client :
       /\ battleId[c] # NoId => Runs(c) /\ ~Has(lobbyQ[c], LoggingIn)
       /\ battleId[c] = NoId => battleQ[c] = <<>>
       /\ Once(lobbyQ[c], LoggingIn)
       /\ ~asked[c] => ~Has(lobbyQ[c], LoggingIn) /\ battleId[c] = NoId

(* The FIND_ROOM packets of a queue bring the number m. *)
Finds(q, m) == \A k \in 1..Len(q) : q[k].type = "FIND_ROOM" => q[k].room = m
Finding     == {"FIND_ROOM"}

(* A room number goes to two clients; each of them has its FIND_ROOM on the *)
(* way, is in the room, or has been there.                                  *)
MatchInv ==
  /\ \A c \in Client :
       /\ c \in waiting => matching[c] /\ match[c] = 0
       /\ match[c] # 0 => matching[c]
       /\ Finds(lobbyQ[c], match[c])
       /\ Once(lobbyQ[c], Finding)
       /\ \A r \in Room : In(c, r) => match[c] = r /\ ~Has(lobbyQ[c], Finding)
  /\ \A c, d, e \in Client :
       match[c] # 0 /\ match[c] = match[d] /\ match[d] = match[e]
         => c = d \/ d = e \/ c = e
  /\ \A r \in Room, i \in Slot :
       slot[r][i] # NoId => \E c \in Client : battleId[c] = slot[r][i]
  /\ \A r, q \in Room, i, j \in Slot :
       slot[r][i] = slot[q][j] => slot[r][i] = NoId \/ (r = q /\ i = j)

(* The LOGIN_OK with this id is in the queue; nobody says that this id has  *)
(* left.                                                                    *)
Answers(q, id) == \E k \in 1..Len(q) : q[k].type = "LOGIN_OK" /\ q[k].id = id
Stays(q, id)   == \A k \in 1..Len(q) : q[k].type = "ROOM_LEAVED" => q[k].id # id

(* A client that has been answered has an entry of its own, or the answer   *)
(* is on its way; nobody tells it that it has left itself.                  *)
EntryInv ==
  \A c \in Client :
    /\ battleId[c] # NoId =>
         battleId[c] \in knows[c] \/ Answers(battleQ[c], battleId[c])
    /\ Stays(battleQ[c], battleId[c])
    /\ matching[c] /\ c \notin hasty /\ Runs(c) => battleId[c] \in knows[c]
    /\ scene[c] = "crashed" => c \in hasty

(* Nobody will join the room any more. *)
Pending(c, r) == match[c] = r /\ Has(lobbyQ[c], Finding)
Complete(r) == \A c \in Client : ~Pending(c, r)

Entering == {"ROOM_ENTERED"}
Starting == {"ROOM_START"}
Leaving  == {"ROOM_LEAVED"}

(* Client 1, or the player that came second into its room. *)
Invited(c) == battleId[c] = 1 \/ \E r \in Room : slot[r][1] = battleId[c] /\ In(c, r)

(* The other player of the client's room has been there, and has left. *)
Alone(c) == \E r \in Room : In(c, r) /\ Vacant(r) /\ Complete(r)

(* Whom the announcement, the start and a leaving player reach; who can be  *)
(* ready; that a room with a second player, or with a match, is complete.   *)
(* (Client 1, shown a room that is not its own, may be ready in its own     *)
(* before a join that met its own takes slot 0 from it; then slot 1 stays   *)
(* free.)                                                                   *)
ClientShown(c) ==
  /\ Shown(c) \/ Has(battleQ[c], Entering) \/ Has(battleQ[c], Starting) => Invited(c)
  /\ Has(battleQ[c], Leaving) => Alone(c)
  /\ Has(battleQ[c], Starting) => \E r \in Room : In(c, r) /\ started[r]
  /\ \A r \in Room : In(c, r) /\ slot[r][0] = 1 /\ slot[r][1] # NoId
                     => Shown(c) \/ Has(battleQ[c], Entering)

RoomShown(r) ==
  /\ slot[r][1] # NoId => Complete(r)
  /\ ready[r][0] => \/ slot[r][0] = 1
                    \/ slot[r][1] = NoId /\ Complete(r) /\ \E c \in Client : match[c] = r
  /\ ready[r][1] => slot[r][1] \in {1, 2}
  /\ started[r] => /\ Complete(r)
                   /\ \E c \in Client : match[c] = r
                   /\ \A i \in Slot : slot[r][i] # NoId => ready[r][i]

ShownInv == /\ \A c \in Client : ClientShown(c)
            /\ \A r \in Room : RoomShown(r)

(* With a client's entries K, and those that the first n packets of its     *)
(* queue make, it has both of ids 1 and 2.                                  *)
Makes(p) == p.type \in {"LOGIN_OK", "ROOM_ENTERED"}

Brings(q, n, K, id) == id \in K \/ \E k \in 1..n : Makes(q[k]) /\ q[k].id = id

Both(q, n, K) == Brings(q, n, K, 1) /\ Brings(q, n, K, 2)

(* It will have them when BC_ROOM_START reaches it. *)
Prepared(q, K) ==
  \A k \in 1..Len(q) : q[k].type = "ROOM_START" =>
    /\ Both(q, k - 1, K)
    /\ \A j \in 1..(k - 1) : q[j].type # "ROOM_LEAVED"

(* The players of the only room that can start. *)
Full(r) == slot[r][0] = 1 /\ slot[r][1] = 2

StartInv ==
  \A c \in Client :
    /\ \A r \in Room : In(c, r) /\ Full(r)
                      => Both(battleQ[c], Len(battleQ[c]), knows[c])
    /\ Prepared(battleQ[c], knows[c])

-----------------------------------------------------------------------------
(* Queues.                                                                  *)
LEMMA EmptyQueue == \A T : ~Has(<<>>, T) /\ Once(<<>>, T)
BY EmptySeq DEF Has, Once

LEMMA TailQueue ==
  ASSUME NEW S, NEW q \in Seq(S), q # <<>>
  PROVE  /\ Head(q) = q[1] /\ 1 \in 1..Len(q) /\ Len(q) \in Nat
         /\ Tail(q) \in Seq(S) /\ Head(q) \in S
         /\ Len(Tail(q)) = Len(q) - 1
         /\ \A k \in 1..Len(Tail(q)) : Tail(q)[k] = q[k + 1] /\ k + 1 \in 1..Len(q)
<1>1. /\ Head(q) = q[1] /\ Len(q) \in Nat /\ Len(q) # 0
      /\ Tail(q) \in Seq(S) /\ Head(q) \in S
      /\ Len(Tail(q)) = Len(q) - 1
      /\ \A k \in 1..Len(Tail(q)) : Tail(q)[k] = q[k + 1]
  BY HeadTailProperties, LenProperties, EmptySeq
<1> QED
  BY <1>1

LEMMA TailHas ==
  ASSUME NEW S, NEW q \in Seq(S), q # <<>>, NEW T
  PROVE  /\ Has(Tail(q), T) => Has(q, T)
         /\ Has(q, T) => Head(q).type \in T \/ Has(Tail(q), T)
         /\ Head(q).type \in T => Has(q, T)
         /\ Once(q, T) => Once(Tail(q), T)
         /\ Once(q, T) /\ Head(q).type \in T => ~Has(Tail(q), T)
<1> DEFINE z == Tail(q)
<1>1. /\ Head(q) = q[1] /\ 1 \in 1..Len(q) /\ Len(q) \in Nat
      /\ Len(z) = Len(q) - 1
      /\ \A k \in 1..Len(z) : z[k] = q[k + 1] /\ k + 1 \in 1..Len(q)
  BY TailQueue
<1> HIDE DEF z
<1>2. Has(z, T) => Has(q, T)
  BY <1>1 DEF Has
<1>3. Has(q, T) => Head(q).type \in T \/ Has(z, T)
  <2> SUFFICES ASSUME NEW k \in 1..Len(q), q[k].type \in T, k # 1
               PROVE  Has(z, T)
    BY <1>1 DEF Has
  <2>1. k - 1 \in 1..Len(z) /\ (k - 1) + 1 = k
    BY <1>1
  <2> QED
    BY <1>1, <2>1 DEF Has
<1>4. Once(q, T) => Once(z, T)
  <2> SUFFICES ASSUME Once(q, T), NEW j \in 1..Len(z), NEW k \in 1..Len(z),
                      z[j].type \in T, z[k].type \in T
               PROVE  j = k
    BY DEF Once
  <2>1. j + 1 = k + 1
    BY <1>1 DEF Once
  <2> QED
    BY <1>1, <2>1
<1>5. ASSUME Once(q, T), Head(q).type \in T, NEW k \in 1..Len(z), z[k].type \in T
      PROVE  FALSE
  <2>1. k + 1 = 1
    BY <1>1, <1>5 DEF Once
  <2> QED
    BY <1>1, <2>1
<1> QED
  BY <1>1, <1>2, <1>3, <1>4, <1>5 DEF Has, z

LEMMA AppendQueue ==
  ASSUME NEW S, NEW q \in Seq(S), NEW p \in S
  PROVE  /\ Append(q, p) \in Seq(S) /\ Len(q) \in Nat
         /\ Len(Append(q, p)) = Len(q) + 1
         /\ \A k \in 1..Len(q) : Append(q, p)[k] = q[k]
         /\ Append(q, p)[Len(q) + 1] = p
         /\ \A k : k \in 1..Len(Append(q, p)) <=> k \in 1..Len(q) \/ k = Len(q) + 1
<1>1. /\ Append(q, p) \in Seq(S) /\ Len(q) \in Nat
      /\ Len(Append(q, p)) = Len(q) + 1
      /\ \A k \in 1..Len(q) : Append(q, p)[k] = q[k]
      /\ Append(q, p)[Len(q) + 1] = p
  BY AppendProperties, LenProperties
<1> QED
  BY <1>1

LEMMA AppendHas ==
  ASSUME NEW S, NEW q \in Seq(S), NEW p \in S, NEW T
  PROVE  /\ Has(Append(q, p), T) <=> Has(q, T) \/ p.type \in T
         /\ Once(q, T) /\ (p.type \notin T \/ ~Has(q, T)) => Once(Append(q, p), T)
<1> DEFINE z == Append(q, p)
<1>1. /\ Len(q) \in Nat /\ Len(z) = Len(q) + 1
      /\ \A k \in 1..Len(q) : z[k] = q[k]
      /\ z[Len(q) + 1] = p
      /\ \A k : k \in 1..Len(z) <=> k \in 1..Len(q) \/ k = Len(q) + 1
  BY AppendQueue
<1> HIDE DEF z
<1>2. Has(z, T) <=> Has(q, T) \/ p.type \in T
  BY <1>1 DEF Has
<1>3. Once(q, T) /\ (p.type \notin T \/ ~Has(q, T)) => Once(z, T)
  BY <1>1 DEF Has, Once
<1> QED
  BY <1>2, <1>3 DEF z

-----------------------------------------------------------------------------
(* Types.                                                                   *)
LEMMA IdType ==
  /\ Cardinality(Client) \in Nat
  /\ Client # {} => 1 \in Id
  /\ NoId \notin Id /\ Id \subseteq Nat
<1>1. Cardinality(Client) \in Nat /\ (Client # {} => Cardinality(Client) # 0)
  BY ClientAssumption, FS_CardinalityType, FS_EmptySet
<1> QED
  BY <1>1 DEF Id, NoId

LEMMA PacketType ==
  /\ \A i \in Id : \A t \in {"LOGIN_OK", "ROOM_ENTERED", "ROOM_LEAVED", "READY"} :
       [type |-> t, id |-> i] \in BattlePacket
  /\ \A t \in {"JOIN_OK", "JOIN_FAIL", "ROOM_START"} : [type |-> t] \in BattlePacket
  /\ \A t \in LoggingIn : [type |-> t] \in LobbyPacket
  /\ \A r \in Room : [type |-> "FIND_ROOM", room |-> r] \in LobbyPacket
BY DEF BattlePacket, LobbyPacket, LoggingIn

LEMMA PacketId ==
  ASSUME NEW p \in BattlePacket,
         p.type \in {"LOGIN_OK", "ROOM_ENTERED", "ROOM_LEAVED", "READY"}
  PROVE  p.id \in Id
BY DEF BattlePacket

LEMMA PacketRoom ==
  ASSUME NEW p \in LobbyPacket, p.type = "FIND_ROOM"
  PROVE  p.room \in Room
BY DEF LobbyPacket

LEMMA InitType == Init => TypeOK
<1> SUFFICES ASSUME Init PROVE TypeOK
  OBVIOUS
<1>1. <<>> \in Seq(LobbyPacket) /\ <<>> \in Seq(BattlePacket)
  BY EmptySeq
<1>2. /\ lobbyQ \in [Client -> Seq(LobbyPacket)]
      /\ battleQ \in [Client -> Seq(BattlePacket)]
  BY <1>1 DEF Init
<1> QED
  BY <1>2 DEF Init, TypeOK, Scene

(* Sending to the clients of a set of ids. *)
LEMMA ToType ==
  ASSUME NEW q \in [Client -> Seq(BattlePacket)], NEW ids,
         NEW p \in BattlePacket
  PROVE  To(q, ids, p) \in [Client -> Seq(BattlePacket)]
BY AppendProperties DEF To

LEMMA AnnounceType ==
  ASSUME TypeOK, NEW id \in Id, NEW i \in Slot, Announce(id, i)
  PROVE  /\ battleQ' \in [Client -> Seq(BattlePacket)]
         /\ told' \in [Client -> Nat]
<1> DEFINE tells(c) == Runs(c) /\ battleId[c] \in Told(id, i)
           p(c) == IF tells(c) THEN <<Entered(id, battleId[c])>> ELSE <<>>
           j(c) == IF battleId[c] = id THEN <<[type |-> "JOIN_OK"]>> ELSE <<>>
<1>1. ASSUME NEW c \in Client
      PROVE  p(c) \in Seq(BattlePacket) /\ j(c) \in Seq(BattlePacket)
  <2>1. Entered(id, battleId[c]) \in BattlePacket
    BY <1>1, IdType, PacketType DEF Entered
  <2>2. [type |-> "JOIN_OK"] \in BattlePacket
    BY PacketType
  <2> QED
    BY <2>1, <2>2, EmptySeq
<1>2. battleQ' = [c \in Client |-> battleQ[c] \o p(c) \o j(c)]
  BY DEF Announce
<1>3. \A c \in Client : battleQ[c] \in Seq(BattlePacket)
  BY DEF TypeOK
<1> HIDE DEF p, j
<1>4. \A c \in Client : battleQ[c] \o p(c) \o j(c) \in Seq(BattlePacket)
  BY <1>1, <1>3, ConcatProperties
<1>5. told' \in [Client -> Nat]
  BY DEF Announce, TypeOK
<1> QED
  BY <1>2, <1>4, <1>5

LEMMA LobbyTypes ==
  ASSUME TypeOK, NEW c \in Client,
         ClickLogin(c) \/ ClickStart(c) \/ LobbyLoginOK(c)
  PROVE  TypeOK'
<1>1. ASSUME NEW t \in LoggingIn
      PROVE  Append(lobbyQ[c], [type |-> t]) \in Seq(LobbyPacket)
  BY PacketType, AppendProperties DEF TypeOK
<1>2. CASE ClickLogin(c)
  <2>1. lobbyQ' \in [Client -> Seq(LobbyPacket)]
    BY <1>1, <1>2 DEF ClickLogin, TypeOK, LoggingIn
  <2> QED
    BY <1>2, <2>1 DEF ClickLogin, TypeOK, roomVars
<1>3. CASE ClickStart(c)
  BY <1>3 DEF ClickStart, TypeOK, queueVars, roomVars
<1>4. CASE LobbyLoginOK(c)
  <2>1. Tail(lobbyQ[c]) \in Seq(LobbyPacket)
    BY <1>4, TailQueue DEF LobbyLoginOK, TypeOK
  <2>2. Append(Tail(lobbyQ[c]), [type |-> "USERINFO"]) \in Seq(LobbyPacket)
    BY <2>1, PacketType, AppendProperties DEF LoggingIn
  <2>3. lobbyQ' \in [Client -> Seq(LobbyPacket)]
    BY <1>4, <2>2 DEF LobbyLoginOK, TypeOK
  <2> QED
    BY <1>4, <2>3 DEF LobbyLoginOK, TypeOK, lobbyVars, roomVars
<1> QED
  BY <1>2, <1>3, <1>4

LEMMA PairTypes ==
  ASSUME TypeOK, NEW c \in Client, NEW d \in Client, NEW r \in Room, Pair(c, d, r)
  PROVE  TypeOK'
<1>1. \A e \in Client :
        Append(lobbyQ[e], [type |-> "FIND_ROOM", room |-> r]) \in Seq(LobbyPacket)
  BY PacketType, AppendProperties DEF TypeOK
<1>2. lobbyQ' \in [Client -> Seq(LobbyPacket)]
  BY <1>1 DEF Pair, TypeOK
<1>3. match' \in [Client -> Room \cup {0}] /\ waiting' \subseteq Client
  BY DEF Pair, TypeOK
<1> QED
  BY <1>2, <1>3 DEF Pair, TypeOK, roomVars

LEMMA UserInfoTypes ==
  ASSUME TypeOK, NEW c \in Client, UserInfo(c)
  PROVE  TypeOK'
<1>1. PICK id \in Id :
        /\ battleId' = [battleId EXCEPT ![c] = id]
        /\ battleQ' = [battleQ EXCEPT ![c] =
                         Append(@, [type |-> "LOGIN_OK", id |-> id])]
  BY DEF UserInfo, FreeIds
<1>2. Append(battleQ[c], [type |-> "LOGIN_OK", id |-> id]) \in Seq(BattlePacket)
  BY PacketType, AppendProperties DEF TypeOK
<1>3. Tail(lobbyQ[c]) \in Seq(LobbyPacket)
  BY TailQueue DEF UserInfo, TypeOK
<1>4. /\ battleId' \in [Client -> Id \cup {NoId}]
      /\ battleQ' \in [Client -> Seq(BattlePacket)]
  BY <1>1, <1>2 DEF TypeOK
<1>5. lobbyQ' \in [Client -> Seq(LobbyPacket)]
  BY <1>3 DEF UserInfo, TypeOK
<1> QED
  BY <1>4, <1>5 DEF UserInfo, TypeOK, lobbyVars, roomVars

LEMMA EntersType ==
  ASSUME NEW r \in Room
  PROVE  EntersAt(r) \subseteq Slot
BY DEF EntersAt, FirstFree, Slot

LEMMA JoinTypes ==
  ASSUME TypeOK, NEW id \in Id, NEW r \in Room, Join(id, r)
  PROVE  /\ battleQ' \in [Client -> Seq(BattlePacket)]
         /\ told' \in [Client -> Nat]
         /\ slot' \in [Room -> [Slot -> Id \cup {NoId}]]
         /\ down' \in BOOLEAN
         /\ UNCHANGED <<ready, started, erased, readied>>
<1>1. CASE UNCHANGED <<battleQ, roomVars, down>>
  BY <1>1 DEF TypeOK, roomVars
<1>2. CASE /\ \E i \in EntersAt(r) :
                /\ slot' = [slot EXCEPT ![r][i] = id]
                /\ Announce(id, i)
                /\ down' \in IF Deaf(Told(id, i)) THEN BOOLEAN ELSE {FALSE}
           /\ UNCHANGED <<ready, started, erased, readied>>
  <2>1. PICK i \in EntersAt(r) :
          /\ slot' = [slot EXCEPT ![r][i] = id]
          /\ Announce(id, i)
          /\ down' \in IF Deaf(Told(id, i)) THEN BOOLEAN ELSE {FALSE}
    BY <1>2
  <2>2. i \in Slot
    BY <2>1, EntersType
  <2>3. battleQ' \in [Client -> Seq(BattlePacket)] /\ told' \in [Client -> Nat]
    BY <2>1, <2>2, AnnounceType
  <2>4. slot' \in [Room -> [Slot -> Id \cup {NoId}]]
    BY <2>1, <2>2 DEF TypeOK
  <2>5. down' \in BOOLEAN
    <3>1. (IF Deaf(Told(id, i)) THEN BOOLEAN ELSE {FALSE}) \subseteq BOOLEAN
      OBVIOUS
    <3> QED
      BY <2>1, <3>1
  <2> QED
    BY <1>2, <2>3, <2>4, <2>5
<1>3. CASE /\ battleQ' = To(battleQ, {id}, [type |-> "JOIN_FAIL"])
           /\ UNCHANGED <<roomVars, down>>
  <2>1. battleQ' \in [Client -> Seq(BattlePacket)]
    BY <1>3, PacketType, ToType DEF TypeOK
  <2> QED
    BY <1>3, <2>1 DEF TypeOK, roomVars
<1> QED
  BY <1>1, <1>2, <1>3 DEF Join

(* A client that ends before it has joined the room of its match. *)
Goes(c) ==
  /\ Runs(c) /\ Has(lobbyQ[c], Finding)
  /\ \/ EndsUnjoined(c, "closed")
     \/ EndsUnjoined(c, "crashed") /\ ~HasEntry(c)
  /\ UNCHANGED <<lobbyVars, knows, shows>>

LEMMA GoesSteps ==
  ASSUME TypeOK, NEW c \in Client, (FindRoom(c) /\ ~HasEntry(c)) \/ CloseUnjoined(c)
  PROVE  Goes(c)
<1>1. lobbyQ[c] \in Seq(LobbyPacket) /\ Len(lobbyQ[c]) \in Nat
  BY LenProperties DEF TypeOK
<1>2. CASE FindRoom(c) /\ ~HasEntry(c)
  <2>1. Has(lobbyQ[c], Finding)
    BY <1>1, <1>2, TailHas DEF FindRoom, Finding
  <2> QED
    BY <1>2, <2>1 DEF FindRoom, Goes
<1>3. CASE CloseUnjoined(c)
  <2>1. DOMAIN lobbyQ[c] = 1..Len(lobbyQ[c])
    BY <1>1, LenProperties
  <2>2. Has(lobbyQ[c], Finding)
    BY <1>3, <2>1 DEF CloseUnjoined, Has, Finding
  <2> QED
    BY <1>3, <2>2 DEF CloseUnjoined, Goes
<1> QED
  BY <1>2, <1>3

(* What it leaves: no connections; its room as it was, or empty and erased. *)
LEMMA GoesEffect ==
  ASSUME TypeOK, NEW c \in Client, Goes(c)
  PROVE  /\ \A e \in Client :
              /\ lobbyQ'[e] = IF e = c THEN <<>> ELSE lobbyQ[e]
              /\ battleQ'[e] = IF e = c THEN <<>> ELSE battleQ[e]
              /\ battleId'[e] = IF e = c THEN NoId ELSE battleId[e]
              /\ scene'[e] = scene[e] \/ (e = c /\ scene'[c] \in {"closed", "crashed"})
         /\ scene'[c] \in {"closed", "crashed"}
         /\ scene'[c] = "crashed" => ~HasEntry(c)
         /\ lobbyQ' = [lobbyQ EXCEPT ![c] = <<>>]
         /\ battleId' = [battleId EXCEPT ![c] = NoId]
         /\ UNCHANGED <<lobbyVars, knows, shows, started, readied, told>>
         /\ \A r \in Room :
              \/ slot'[r] = slot[r] /\ ready'[r] = ready[r]
              \/ /\ r = match[c]
                 /\ \A i \in Slot : slot'[r][i] = NoId /\ ~ready'[r][i]
<1>1. PICK end \in {"closed", "crashed"} :
        EndsUnjoined(c, end) /\ (end = "crashed" => ~HasEntry(c))
  BY DEF Goes
<1>2. \A r \in Room :
        \/ slot'[r] = slot[r] /\ ready'[r] = ready[r]
        \/ /\ r = match[c]
           /\ \A i \in Slot : slot'[r][i] = NoId /\ ~ready'[r][i]
  BY <1>1 DEF EndsUnjoined, LeaveUnjoined, TypeOK
<1>3. /\ lobbyQ' = [lobbyQ EXCEPT ![c] = <<>>]
      /\ battleQ' = [battleQ EXCEPT ![c] = <<>>]
      /\ battleId' = [battleId EXCEPT ![c] = NoId]
      /\ scene' = [scene EXCEPT ![c] = end]
      /\ UNCHANGED <<started, readied, told>>
  BY <1>1 DEF EndsUnjoined
<1>4. UNCHANGED <<lobbyVars, knows, shows>>
  BY DEF Goes
<1> QED
  BY <1>1, <1>2, <1>3, <1>4 DEF TypeOK

LEMMA GoesTypes ==
  ASSUME TypeOK, NEW c \in Client, Goes(c)
  PROVE  TypeOK'
<1>0. PICK end \in {"closed", "crashed"} : EndsUnjoined(c, end)
  BY DEF Goes
<1>1. <<>> \in Seq(LobbyPacket) /\ <<>> \in Seq(BattlePacket)
  BY EmptySeq
<1>2. /\ battleQ' = [battleQ EXCEPT ![c] = <<>>]
      /\ lobbyQ' = [lobbyQ EXCEPT ![c] = <<>>]
      /\ battleId' = [battleId EXCEPT ![c] = NoId]
      /\ scene' = [scene EXCEPT ![c] = end]
      /\ UNCHANGED <<started, readied, told>>
      /\ LeaveUnjoined(c, match[c])
      /\ UNCHANGED <<lobbyVars, knows, shows>>
  BY <1>0 DEF EndsUnjoined, Goes
<1>3. /\ battleQ' \in [Client -> Seq(BattlePacket)]
      /\ lobbyQ' \in [Client -> Seq(LobbyPacket)]
  BY <1>1, <1>2 DEF TypeOK
<1>4. /\ battleId' \in [Client -> Id \cup {NoId}]
      /\ scene' \in [Client -> Scene]
  BY <1>2 DEF TypeOK, Scene
<1>5. /\ slot' \in [Room -> [Slot -> Id \cup {NoId}]]
      /\ ready' \in [Room -> [Slot -> BOOLEAN]]
      /\ erased' \in [Room -> BOOLEAN]
      /\ down' \in BOOLEAN
  <2>1. CASE UNCHANGED <<slot, ready, erased, down>>
    BY <2>1 DEF TypeOK
  <2>2. CASE /\ slot' = [slot EXCEPT ![match[c]] = [i \in Slot |-> NoId]]
             /\ ready' = [ready EXCEPT ![match[c]] = [i \in Slot |-> FALSE]]
             /\ erased' = [erased EXCEPT ![match[c]] = TRUE]
             /\ down' \in BOOLEAN
    <3>1. /\ [i \in Slot |-> NoId] \in [Slot -> Id \cup {NoId}]
          /\ [i \in Slot |-> FALSE] \in [Slot -> BOOLEAN]
      OBVIOUS
    <3> QED
      BY <2>2, <3>1 DEF TypeOK
  <2> QED
    BY <1>2, <2>1, <2>2 DEF LeaveUnjoined
<1> QED
  BY <1>2, <1>3, <1>4, <1>5 DEF TypeOK, lobbyVars

LEMMA FindRoomTypes ==
  ASSUME TypeOK, NEW c \in Client, FindRoom(c)
  PROVE  TypeOK'
<1>1. Tail(lobbyQ[c]) \in Seq(LobbyPacket) /\ Head(lobbyQ[c]).room \in Room
  BY TailQueue, PacketRoom DEF FindRoom, TypeOK
<1>2. CASE HasEntry(c)
  <2>1. battleId[c] \in Id
    BY <1>2 DEF HasEntry, TypeOK
  <2>2. /\ battleQ' \in [Client -> Seq(BattlePacket)]
        /\ told' \in [Client -> Nat]
        /\ slot' \in [Room -> [Slot -> Id \cup {NoId}]]
        /\ down' \in BOOLEAN
        /\ UNCHANGED <<ready, started, erased, readied>>
    BY <1>1, <1>2, <2>1, JoinTypes DEF FindRoom
  <2>3. lobbyQ' \in [Client -> Seq(LobbyPacket)]
    BY <1>1, <1>2 DEF FindRoom, TypeOK
  <2>4. UNCHANGED <<lobbyVars, scene, battleId, knows, shows>>
    BY <1>2 DEF FindRoom
  <2> QED
    BY <2>2, <2>3, <2>4 DEF TypeOK, lobbyVars
<1>3. CASE ~HasEntry(c)
  BY <1>3, GoesSteps, GoesTypes
<1> QED
  BY <1>2, <1>3

(* The steps that take a packet of the battle server. *)
Takes(c) == \/ BattleLoginOK(c) \/ RoomEntered(c) \/ RoomLeaved(c)
            \/ ReadySign(c) \/ JoinAnswer(c) \/ RoomStart(c)

LEMMA TakesFrame ==
  ASSUME TypeOK, NEW c \in Client, Takes(c)
  PROVE  /\ Runs(c) /\ battleQ[c] # <<>> /\ battleQ[c] \in Seq(BattlePacket)
         /\ battleQ' = [battleQ EXCEPT ![c] = Tail(@)]
         /\ UNCHANGED <<lobbyQ, lobbyVars, roomVars, battleId, down>>
<1>1. battleQ[c] \in Seq(BattlePacket)
  BY DEF TypeOK
<1> QED
  BY <1>1 DEF Takes, BattleLoginOK, RoomEntered, RoomLeaved, ReadySign, JoinAnswer,
              RoomStart, Next1, Taking

(* What they do, by the packet p that is taken. *)
LEMMA TakesEffect ==
  ASSUME TypeOK, NEW c \in Client, Takes(c)
  PROVE  LET p == Head(battleQ[c]) IN
         /\ knows' = [knows EXCEPT ![c] =
                        IF Makes(p) THEN @ \cup {p.id}
                        ELSE IF p.type = "ROOM_LEAVED" THEN @ \ {p.id} ELSE @]
         /\ scene' = [scene EXCEPT ![c] =
                        IF p.type = "ROOM_ENTERED" THEN "matching"
                        ELSE IF p.type = "ROOM_START" THEN "play" ELSE @]
         /\ shows' \in [Client -> SUBSET {1, 2}]
<1> DEFINE p == Head(battleQ[c])
<1>1. CASE BattleLoginOK(c)
  BY <1>1 DEF BattleLoginOK, Next1, Makes, Entry, TypeOK
<1>2. CASE RoomEntered(c)
  BY <1>2 DEF RoomEntered, Next1, Makes, TypeOK
<1>3. CASE RoomLeaved(c)
  BY <1>3 DEF RoomLeaved, Next1, Makes, TypeOK
<1>4. CASE ReadySign(c)
  BY <1>4 DEF ReadySign, Next1, Makes, TypeOK
<1>5. CASE JoinAnswer(c)
  BY <1>5 DEF JoinAnswer, Next1, Makes, TypeOK
<1>6. CASE RoomStart(c)
  BY <1>6 DEF RoomStart, Next1, Makes, TypeOK
<1> QED
  BY <1>1, <1>2, <1>3, <1>4, <1>5, <1>6 DEF Takes

LEMMA TakesTypes ==
  ASSUME TypeOK, NEW c \in Client, Takes(c)
  PROVE  TypeOK'
<1> DEFINE p == Head(battleQ[c])
<1>1. /\ battleQ[c] # <<>> /\ battleQ[c] \in Seq(BattlePacket)
      /\ battleQ' = [battleQ EXCEPT ![c] = Tail(@)]
      /\ UNCHANGED <<lobbyQ, lobbyVars, roomVars, battleId, down>>
  BY TakesFrame
<1>2. p \in BattlePacket /\ Tail(battleQ[c]) \in Seq(BattlePacket)
  BY <1>1, TailQueue
<1>3. Makes(p) => p.id \in Id
  BY <1>2, PacketId DEF Makes
<1>8. /\ knows' = [knows EXCEPT ![c] =
                     IF Makes(p) THEN @ \cup {p.id}
                     ELSE IF p.type = "ROOM_LEAVED" THEN @ \ {p.id} ELSE @]
      /\ scene' = [scene EXCEPT ![c] =
                     IF p.type = "ROOM_ENTERED" THEN "matching"
                     ELSE IF p.type = "ROOM_START" THEN "play" ELSE @]
      /\ shows' \in [Client -> SUBSET {1, 2}]
  BY TakesEffect
<1> HIDE DEF p
<1>4. knows' \in [Client -> SUBSET Id]
  <2>1. (IF Makes(p) THEN knows[c] \cup {p.id}
         ELSE IF p.type = "ROOM_LEAVED" THEN knows[c] \ {p.id} ELSE knows[c])
          \in SUBSET Id
    BY <1>3 DEF TypeOK
  <2> QED
    BY <1>8, <2>1 DEF TypeOK
<1>5. scene' \in [Client -> Scene]
  <2>1. (IF p.type = "ROOM_ENTERED" THEN "matching"
         ELSE IF p.type = "ROOM_START" THEN "play" ELSE scene[c]) \in Scene
    BY DEF TypeOK, Scene
  <2> QED
    BY <1>8, <2>1 DEF TypeOK
<1>6. battleQ' \in [Client -> Seq(BattlePacket)]
  BY <1>1, <1>2 DEF TypeOK
<1> QED
  BY <1>1, <1>4, <1>5, <1>6, <1>8 DEF TypeOK, lobbyVars, roomVars

LEMMA ReadyTypes ==
  ASSUME TypeOK, NEW c \in Client, ClickReady(c)
  PROVE  TypeOK'
<1>1. battleId[c] \in Id
  BY DEF ClickReady, MayReady, TypeOK, NoId
<1>2. shows' \in [Client -> SUBSET {1, 2}]
  BY DEF ClickReady, TypeOK
<1>3. UNCHANGED <<lobbyQ, lobbyVars, scene, battleId, knows, slot, told>>
  BY DEF ClickReady
<1>4. CASE ReadyNowhere(c)
  BY <1>2, <1>3, <1>4 DEF ReadyNowhere, TypeOK, lobbyVars
<1>5. ASSUME NEW r \in Room, ReadyInRoom(c, r) PROVE TypeOK'
  <2>1. ready' \in [Room -> [Slot -> BOOLEAN]]
    BY <1>5 DEF ReadyInRoom, TypeOK
  <2>2. started' \in [Room -> BOOLEAN]
    <3>1. \A x : started[r] \/ (x /\ ~started[r]) \in BOOLEAN
      OBVIOUS
    <3> QED
      BY <1>5 DEF ReadyInRoom, TypeOK
  <2>3. battleQ' \in [Client -> Seq(BattlePacket)]
    <3> DEFINE tell == To(battleQ, Players(r), [type |-> "READY", id |-> battleId[c]])
    <3>1. /\ [type |-> "READY", id |-> battleId[c]] \in BattlePacket
          /\ [type |-> "ROOM_START"] \in BattlePacket
      BY <1>1, PacketType
    <3>2. battleQ \in [Client -> Seq(BattlePacket)]
      BY DEF TypeOK
    <3>3. tell \in [Client -> Seq(BattlePacket)]
      BY <3>1, <3>2, ToType
    <3>4. /\ To(tell, Players(r), [type |-> "ROOM_START"]) \in [Client -> Seq(BattlePacket)]
          /\ To(battleQ, Players(r), [type |-> "ROOM_START"]) \in [Client -> Seq(BattlePacket)]
      BY <3>1, <3>2, <3>3, ToType
    <3> QED
      BY <1>5, <3>2, <3>3, <3>4 DEF ReadyInRoom
  <2>4. down' \in BOOLEAN /\ readied' \subseteq Client /\ UNCHANGED erased
    BY <1>5 DEF ReadyInRoom, TypeOK
  <2> QED
    BY <1>2, <1>3, <2>1, <2>2, <2>3, <2>4 DEF TypeOK, lobbyVars
<1> QED
  BY <1>4, <1>5 DEF ClickReady

LEMMA CloseSlot ==
  ASSUME NEW c \in Client, NEW r \in Room, Close(c, r)
  PROVE  \E i \in Slot : /\ slot[r][i] = battleId[c]
                         /\ slot' = [slot EXCEPT ![r][i] = NoId]
                         /\ ready' = [ready EXCEPT ![r][i] = FALSE]
<1> DEFINE i == CHOOSE k \in Slot : slot[r][k] = battleId[c]
<1>1. \E k \in Slot : slot[r][k] = battleId[c]
  BY DEF Close, In, Players
<1>2. i \in Slot /\ slot[r][i] = battleId[c]
  BY <1>1
<1>3. /\ slot' = [slot EXCEPT ![r][i] = NoId]
      /\ ready' = [ready EXCEPT ![r][i] = FALSE]
  BY DEF Close
<1> QED
  BY <1>2, <1>3

LEMMA CloseTypes ==
  ASSUME TypeOK, NEW c \in Client, NEW r \in Room, Close(c, r)
  PROVE  TypeOK'
<1>1. battleId[c] \in Id
  BY DEF Close, In, TypeOK
<1>2. [type |-> "ROOM_LEAVED", id |-> battleId[c]] \in BattlePacket
  BY <1>1, PacketType
<1>3. To(battleQ, Players(r) \ {battleId[c]},
         [type |-> "ROOM_LEAVED", id |-> battleId[c]]) \in [Client -> Seq(BattlePacket)]
  BY <1>2, ToType DEF TypeOK
<1>4. <<>> \in Seq(BattlePacket) /\ <<>> \in Seq(LobbyPacket)
  BY EmptySeq
<1>5. /\ battleQ' \in [Client -> Seq(BattlePacket)]
      /\ lobbyQ' \in [Client -> Seq(LobbyPacket)]
  BY <1>3, <1>4 DEF Close, TypeOK
<1>6. \E i \in Slot : /\ slot[r][i] = battleId[c]
                      /\ slot' = [slot EXCEPT ![r][i] = NoId]
                      /\ ready' = [ready EXCEPT ![r][i] = FALSE]
  BY CloseSlot
<1>7. /\ slot' \in [Room -> [Slot -> Id \cup {NoId}]]
      /\ ready' \in [Room -> [Slot -> BOOLEAN]]
  BY <1>6 DEF TypeOK
<1>8. /\ scene' \in [Client -> Scene]
      /\ battleId' \in [Client -> Id \cup {NoId}]
      /\ UNCHANGED <<lobbyVars, started, readied, told, knows, shows, down>>
  BY DEF Close, TypeOK, Scene
<1>9. erased' \in [Room -> BOOLEAN]
  <2>1. (Players(r) = {battleId[c]}) \in BOOLEAN
    OBVIOUS
  <2> QED
    BY <2>1 DEF Close, TypeOK
<1> QED
  BY <1>5, <1>7, <1>8, <1>9 DEF TypeOK, lobbyVars

(* Ids, rooms, slots and packets are what they should be: in particular no  *)
(* battle id leaves the range of the ids the server gives.                  *)
THEOREM TypeCorrect == Spec => []TypeOK
<1>1. TypeOK /\ [Next]_vars => TypeOK'
  <2> SUFFICES ASSUME TypeOK, [Next]_vars PROVE TypeOK'
    OBVIOUS
  <2>1. ASSUME NEW c \in Client, User(c) \/ Network(c) PROVE TypeOK'
    BY <2>1, LobbyTypes, UserInfoTypes, FindRoomTypes, TakesTypes, ReadyTypes,
       CloseTypes, GoesSteps, GoesTypes DEF User, Network, Takes
  <2>2. CASE UNCHANGED vars
    BY <2>2 DEF vars, queueVars, lobbyVars, roomVars, TypeOK
  <2> QED
    BY <2>1, <2>2, PairTypes DEF Next
<1> QED
  BY <1>1, InitType, PTL DEF Spec

-----------------------------------------------------------------------------
(* What the servers' handlers put into the queues.  z is q with some        *)
(* packets of the types of T behind it.                                     *)
Grows(q, z, T) == /\ Len(q) <= Len(z)
                  /\ \A k \in 1..Len(q) : z[k] = q[k]
                  /\ \A k \in 1..Len(z) : k \in 1..Len(q) \/ z[k].type \in T

LEMMA GrowsHas ==
  ASSUME NEW S, NEW q \in Seq(S), NEW z \in Seq(S), NEW T, Grows(q, z, T), NEW U
  PROVE  /\ Has(q, U) => Has(z, U)
         /\ U \cap T = {} /\ Has(z, U) => Has(q, U)
<1>1. Len(q) \in Nat /\ Len(z) \in Nat
  BY LenProperties
<1> QED
  BY <1>1 DEF Grows, Has

LEMMA GrowsAppend ==
  ASSUME NEW S, NEW q \in Seq(S), NEW p \in S, NEW T, p.type \in T
  PROVE  Grows(q, q, T) /\ Grows(q, Append(q, p), T)
<1>1. /\ Len(q) \in Nat
      /\ Len(Append(q, p)) = Len(q) + 1
      /\ \A k \in 1..Len(q) : Append(q, p)[k] = q[k]
      /\ Append(q, p)[Len(q) + 1] = p
      /\ \A k : k \in 1..Len(Append(q, p)) <=> k \in 1..Len(q) \/ k = Len(q) + 1
  BY AppendQueue
<1> QED
  BY <1>1 DEF Grows

LEMMA GrowsTwice ==
  ASSUME NEW q \in Seq(BattlePacket), NEW y \in Seq(BattlePacket),
         NEW z \in Seq(BattlePacket), NEW T, Grows(q, y, T), Grows(y, z, T)
  PROVE  Grows(q, z, T)
<1>1. Len(q) \in Nat /\ Len(y) \in Nat /\ Len(z) \in Nat
  BY LenProperties
<1> QED
  BY <1>1 DEF Grows

LEMMA ToGrows ==
  ASSUME NEW q \in [Client -> Seq(BattlePacket)], NEW ids,
         NEW p \in BattlePacket, NEW T, p.type \in T, NEW e \in Client
  PROVE  /\ Grows(q[e], To(q, ids, p)[e], T)
         /\ To(q, ids, p)[e] = IF Runs(e) /\ battleId[e] \in ids
                               THEN Append(q[e], p) ELSE q[e]
<1>1. To(q, ids, p)[e] = IF Runs(e) /\ battleId[e] \in ids
                         THEN Append(q[e], p) ELSE q[e]
  BY DEF To
<1> QED
  BY <1>1, GrowsAppend

(* AnnounceRoomEnter and the answer: in that order, to those it looks at.   *)
LEMMA AnnounceEffect ==
  ASSUME TypeOK, NEW id \in Id, NEW i \in Slot, Announce(id, i), NEW e \in Client
  PROVE  LET tells == Runs(e) /\ battleId[e] \in Told(id, i)
             q     == IF tells THEN Append(battleQ[e], Entered(id, battleId[e]))
                               ELSE battleQ[e]
         IN battleQ'[e] = IF battleId[e] = id
                          THEN Append(q, [type |-> "JOIN_OK"]) ELSE q
<1> DEFINE tells == Runs(e) /\ battleId[e] \in Told(id, i)
           p == Entered(id, battleId[e])
           j == [type |-> "JOIN_OK"]
           q == IF tells THEN Append(battleQ[e], p) ELSE battleQ[e]
<1>1. p \in BattlePacket /\ j \in BattlePacket /\ battleQ[e] \in Seq(BattlePacket)
  BY IdType, PacketType DEF Entered, TypeOK
<1>2. battleQ'[e] = battleQ[e] \o (IF tells THEN <<p>> ELSE <<>>)
                               \o (IF battleId[e] = id THEN <<j>> ELSE <<>>)
  BY DEF Announce
<1> HIDE DEF tells, p, j
<1>3. battleQ[e] \o (IF tells THEN <<p>> ELSE <<>>) = q
  BY <1>1, AppendIsConcat, ConcatEmptySeq
<1>4. q \in Seq(BattlePacket)
  BY <1>1, AppendProperties
<1>5. q \o (IF battleId[e] = id THEN <<j>> ELSE <<>>)
        = IF battleId[e] = id THEN Append(q, j) ELSE q
  BY <1>1, <1>4, AppendIsConcat, ConcatEmptySeq
<1> QED
  BY <1>2, <1>3, <1>5 DEF tells, p, j

(* A join: the queues, by who is told, and the slot, by the room. *)
LEMMA JoinEffect ==
  ASSUME TypeOK, NEW id \in Id, NEW r \in Room, Join(id, r)
  PROVE  \/ UNCHANGED <<battleQ, slot>>
         \/ /\ UNCHANGED slot
            /\ battleQ' = To(battleQ, {id}, [type |-> "JOIN_FAIL"])
         \/ /\ Vacant(r)
            /\ \E i \in EntersAt(r) : /\ slot' = [slot EXCEPT ![r][i] = id]
                                     /\ Announce(id, i)
BY DEF Join, roomVars

LEMMA JoinGrows ==
  ASSUME TypeOK, NEW id \in Id, NEW r \in Room, Join(id, r), NEW e \in Client
  PROVE  /\ Grows(battleQ[e], battleQ'[e], {"ROOM_ENTERED", "JOIN_OK", "JOIN_FAIL"})
         /\ battleId[e] = NoId => battleQ'[e] = battleQ[e]
<1> DEFINE T == {"ROOM_ENTERED", "JOIN_OK", "JOIN_FAIL"}
<1>1. battleQ[e] \in Seq(BattlePacket) /\ NoId # id /\ NoId # 1
  BY IdType DEF TypeOK, NoId
<1>2. CASE UNCHANGED battleQ
  <2>1. Len(battleQ[e]) \in Nat
    BY <1>1, LenProperties
  <2> QED
    BY <1>2, <2>1 DEF Grows
<1>3. CASE battleQ' = To(battleQ, {id}, [type |-> "JOIN_FAIL"])
  <2> DEFINE p == [type |-> "JOIN_FAIL"]
  <2>1. p \in BattlePacket /\ p.type \in T /\ battleQ' = To(battleQ, {id}, p)
    BY <1>3, PacketType
  <2>2. battleQ \in [Client -> Seq(BattlePacket)]
    BY DEF TypeOK
  <2> HIDE DEF p, T
  <2>3. /\ Grows(battleQ[e], To(battleQ, {id}, p)[e], T)
        /\ battleId[e] \notin {id} => To(battleQ, {id}, p)[e] = battleQ[e]
    BY <2>1, <2>2, ToGrows
  <2> QED
    BY <1>1, <2>1, <2>3 DEF T
<1>4. ASSUME NEW i \in Slot, Announce(id, i)
      PROVE  /\ Grows(battleQ[e], battleQ'[e], T)
             /\ battleId[e] = NoId => battleQ'[e] = battleQ[e]
  <2> DEFINE tells == Runs(e) /\ battleId[e] \in Told(id, i)
             q == IF tells THEN Append(battleQ[e], Entered(id, battleId[e]))
                           ELSE battleQ[e]
  <2>1. battleQ'[e] = IF battleId[e] = id
                      THEN Append(q, [type |-> "JOIN_OK"]) ELSE q
    BY <1>4, AnnounceEffect
  <2>2. /\ Entered(id, battleId[e]) \in BattlePacket
        /\ Entered(id, battleId[e]).type = "ROOM_ENTERED"
        /\ [type |-> "JOIN_OK"] \in BattlePacket
        /\ [type |-> "JOIN_OK"].type = "JOIN_OK"
    BY IdType, PacketType DEF Entered
  <2>3. q \in Seq(BattlePacket) /\ Grows(battleQ[e], q, T)
    BY <1>1, <2>2, GrowsAppend, AppendProperties
  <2>4. /\ Append(q, [type |-> "JOIN_OK"]) \in Seq(BattlePacket)
        /\ Grows(q, Append(q, [type |-> "JOIN_OK"]), T)
    BY <2>2, <2>3, GrowsAppend, AppendProperties
  <2>6. battleId[e] = NoId => ~tells
    BY <1>1 DEF Told
  <2>7. battleId[e] = NoId => battleQ'[e] = battleQ[e]
    BY <1>1, <2>1, <2>6
  <2> DEFINE z == Append(q, [type |-> "JOIN_OK"])
  <2> HIDE DEF q, T, z
  <2>5. Grows(battleQ[e], z, T)
    <3>1. z \in Seq(BattlePacket) /\ Grows(q, z, T)
      BY <2>4 DEF z
    <3> QED
      BY <1>1, <2>3, <3>1, GrowsTwice
  <2> QED
    BY <2>1, <2>3, <2>5, <2>7 DEF z
<1> QED
  BY <1>2, <1>3, <1>4, EntersType, JoinEffect

(* A READY in a room, and the start of its match. *)
LEMMA ReadyGrows ==
  ASSUME TypeOK, NEW c \in Client, NEW r \in Room, ReadyInRoom(c, r), NEW e \in Client
  PROVE  /\ Grows(battleQ[e], battleQ'[e], {"READY", "ROOM_START"})
         /\ battleId[e] \notin Players(r) => battleQ'[e] = battleQ[e]
         /\ LET f == [i \in Slot |-> ready[r][i] \/ i \in Marks(c, r)] IN
            IF Starts(f) /\ ~started[r]
            THEN \E q \in Seq(BattlePacket) :
                   /\ Grows(battleQ[e], q, {"READY"})
                   /\ battleQ'[e] = IF Runs(e) /\ battleId[e] \in Players(r)
                                    THEN Append(q, [type |-> "ROOM_START"]) ELSE q
            ELSE Grows(battleQ[e], battleQ'[e], {"READY"})
<1> DEFINE p    == [type |-> "READY", id |-> battleId[c]]
           s    == [type |-> "ROOM_START"]
           tell == To(battleQ, Players(r), p)
           f    == [i \in Slot |-> ready[r][i] \/ i \in Marks(c, r)]
           goes == Starts(f) /\ ~started[r]
           T    == {"READY", "ROOM_START"}
<1>1. /\ p \in BattlePacket /\ p.type = "READY"
      /\ s \in BattlePacket /\ s.type = "ROOM_START"
  BY PacketType DEF ReadyInRoom, In, TypeOK
<1>2. battleQ \in [Client -> Seq(BattlePacket)]
  BY DEF TypeOK
<1>3. PICK q \in {tell, battleQ} :
        battleQ' = IF goes THEN To(q, Players(r), s) ELSE q
  BY DEF ReadyInRoom
<1> HIDE DEF p, s, goes
<1>4. /\ q \in [Client -> Seq(BattlePacket)]
      /\ Grows(battleQ[e], q[e], {"READY"})
      /\ Grows(battleQ[e], q[e], T)
      /\ battleId[e] \notin Players(r) => q[e] = battleQ[e]
  <2>1. tell \in [Client -> Seq(BattlePacket)]
    BY <1>1, <1>2, ToType
  <2>2. /\ Grows(battleQ[e], battleQ[e], {"READY"})
        /\ Grows(battleQ[e], battleQ[e], T)
    BY <1>1, <1>2, GrowsAppend
  <2>3. /\ Grows(battleQ[e], tell[e], {"READY"})
        /\ battleId[e] \notin Players(r) => tell[e] = battleQ[e]
    <3> DEFINE R == {"READY"}
    <3>1. p.type \in R
      BY <1>1
    <3> HIDE DEF R
    <3>2. /\ Grows(battleQ[e], tell[e], R)
          /\ battleId[e] \notin Players(r) => tell[e] = battleQ[e]
      BY <1>1, <1>2, <3>1, ToGrows
    <3> QED
      BY <3>2 DEF R
  <2>4. Grows(battleQ[e], tell[e], T)
    <3>1. p.type \in T
      BY <1>1
    <3> HIDE DEF T
    <3> QED
      BY <1>1, <1>2, <3>1, ToGrows
  <2> QED
    BY <1>2, <2>1, <2>2, <2>3, <2>4
<1>5. /\ To(q, Players(r), s) \in [Client -> Seq(BattlePacket)]
      /\ Grows(q[e], To(q, Players(r), s)[e], T)
      /\ To(q, Players(r), s)[e] = IF Runs(e) /\ battleId[e] \in Players(r)
                                   THEN Append(q[e], s) ELSE q[e]
  <2>1. s.type \in T
    BY <1>1
  <2> HIDE DEF T
  <2>2. To(q, Players(r), s) \in [Client -> Seq(BattlePacket)]
    BY <1>1, <1>4, ToType
  <2>3. /\ Grows(q[e], To(q, Players(r), s)[e], T)
        /\ To(q, Players(r), s)[e] = IF Runs(e) /\ battleId[e] \in Players(r)
                                     THEN Append(q[e], s) ELSE q[e]
    BY <1>1, <1>4, <2>1, ToGrows
  <2> QED
    BY <2>2, <2>3
<1>6. Grows(battleQ[e], To(q, Players(r), s)[e], T)
  <2>1. /\ battleQ[e] \in Seq(BattlePacket) /\ q[e] \in Seq(BattlePacket)
        /\ To(q, Players(r), s)[e] \in Seq(BattlePacket)
    BY <1>2, <1>4, <1>5
  <2> DEFINE y == q[e]
             z == To(q, Players(r), s)[e]
  <2>2. Grows(battleQ[e], y, T) /\ Grows(y, z, T)
    BY <1>4, <1>5
  <2> HIDE DEF T, y, z
  <2>3. Grows(battleQ[e], z, T)
    BY <2>1, <2>2, GrowsTwice DEF y, z
  <2> QED
    BY <2>3 DEF z
<1>7. q[e] \in Seq(BattlePacket)
  BY <1>4
<1>8. IF goes THEN \E y \in Seq(BattlePacket) :
                     /\ Grows(battleQ[e], y, {"READY"})
                     /\ battleQ'[e] = IF Runs(e) /\ battleId[e] \in Players(r)
                                      THEN Append(y, s) ELSE y
              ELSE Grows(battleQ[e], battleQ'[e], {"READY"})
  BY <1>3, <1>4, <1>5, <1>7
<1>9. /\ Grows(battleQ[e], battleQ'[e], T)
      /\ battleId[e] \notin Players(r) => battleQ'[e] = battleQ[e]
  BY <1>3, <1>4, <1>5, <1>6
<1> QED
  BY <1>8, <1>9 DEF goes, s

(* A player closes the program: the other one is told. *)
LEMMA CloseEffect ==
  ASSUME TypeOK, NEW c \in Client, NEW r \in Room, Close(c, r), NEW e \in Client
  PROVE  battleQ'[e] =
           IF e = c THEN <<>>
           ELSE IF Runs(e) /\ battleId[e] \in Players(r) \ {battleId[c]}
           THEN Append(battleQ[e], [type |-> "ROOM_LEAVED", id |-> battleId[c]])
           ELSE battleQ[e]
BY DEF Close, To

-----------------------------------------------------------------------------
(* LoginInv.                                                                *)
LEMMA LoginInit == Init => LoginInv
BY EmptyQueue DEF Init, LoginInv, LoggingIn

LEMMA LoginFrame ==
  ASSUME LoginInv, UNCHANGED <<battleId, asked>>,
         \A c \in Client : battleId[c] # NoId => scene'[c] \in {"lobby", "matching", "play"},
         \A c \in Client : battleId[c] = NoId => battleQ'[c] = battleQ[c],
         \A c \in Client :
           /\ Has(lobbyQ'[c], LoggingIn) => Has(lobbyQ[c], LoggingIn)
           /\ Once(lobbyQ[c], LoggingIn) => Once(lobbyQ'[c], LoggingIn)
  PROVE  LoginInv'
BY DEF LoginInv, Runs

(* A client whose connections are closed. *)
LEMMA LoginGoes ==
  ASSUME TypeOK, LoginInv, NEW c \in Client, UNCHANGED asked,
         battleId' = [battleId EXCEPT ![c] = NoId],
         lobbyQ' = [lobbyQ EXCEPT ![c] = <<>>],
         \A e \in Client : e # c => scene'[e] = scene[e],
         battleQ'[c] = <<>>,
         \A e \in Client : e # c /\ battleId[e] = NoId => battleQ'[e] = battleQ[e]
  PROVE  LoginInv'
<1>1. \A e \in Client : /\ battleId'[e] = IF e = c THEN NoId ELSE battleId[e]
                        /\ lobbyQ'[e] = IF e = c THEN <<>> ELSE lobbyQ[e]
  BY DEF TypeOK
<1>2. ~Has(<<>>, LoggingIn) /\ Once(<<>>, LoggingIn)
  BY EmptyQueue
<1>3. \A e \in Client : e # c /\ Runs(e) => (Runs(e))'
  BY DEF Runs
<1> QED
  BY <1>1, <1>2, <1>3 DEF LoginInv

LEMMA LoginClickLogin ==
  ASSUME TypeOK, LoginInv, NEW c \in Client, ClickLogin(c) PROVE LoginInv'
<1>1. /\ lobbyQ[c] \in Seq(LobbyPacket)
      /\ [type |-> "LOGIN_OK"] \in LobbyPacket
      /\ [type |-> "LOGIN_OK"].type \in LoggingIn
  BY PacketType DEF TypeOK, LoggingIn
<1>2. \A e \in Client :
        /\ lobbyQ'[e] = IF e = c THEN Append(lobbyQ[c], [type |-> "LOGIN_OK"])
                                 ELSE lobbyQ[e]
        /\ asked'[e] = IF e = c THEN TRUE ELSE asked[e]
  BY DEF ClickLogin, TypeOK
<1>3. ~Has(lobbyQ[c], LoggingIn) /\ Once(lobbyQ[c], LoggingIn) /\ battleId[c] = NoId
  BY DEF ClickLogin, LoginInv
<1>4. Once(lobbyQ'[c], LoggingIn)
  BY <1>1, <1>2, <1>3, AppendHas
<1>5. UNCHANGED <<battleId, battleQ, scene>>
  BY DEF ClickLogin
<1> QED
  BY <1>2, <1>3, <1>4, <1>5 DEF LoginInv, Runs

LEMMA LoginLobbyLoginOK ==
  ASSUME TypeOK, LoginInv, NEW c \in Client, LobbyLoginOK(c) PROVE LoginInv'
<1> DEFINE q == Tail(lobbyQ[c])
           p == [type |-> "USERINFO"]
<1>1. /\ lobbyQ[c] \in Seq(LobbyPacket) /\ lobbyQ[c] # <<>>
      /\ q \in Seq(LobbyPacket)
      /\ p \in LobbyPacket /\ p.type \in LoggingIn
      /\ Head(lobbyQ[c]).type \in LoggingIn
  BY PacketType, TailQueue DEF LobbyLoginOK, TypeOK, LoggingIn
<1>2. \A e \in Client : lobbyQ'[e] = IF e = c THEN Append(q, p) ELSE lobbyQ[e]
  BY DEF LobbyLoginOK, TypeOK
<1> HIDE DEF p
<1>3. /\ Has(lobbyQ[c], LoggingIn)
      /\ Once(lobbyQ[c], LoggingIn) => ~Has(q, LoggingIn) /\ Once(q, LoggingIn)
  BY <1>1, TailHas
<1> HIDE DEF q
<1>4. Once(lobbyQ[c], LoggingIn) => Once(lobbyQ'[c], LoggingIn)
  BY <1>1, <1>2, <1>3, AppendHas
<1>5. UNCHANGED <<battleId, asked, battleQ, scene>>
  BY DEF LobbyLoginOK, lobbyVars
<1>6. \A e \in Client : battleId[e] # NoId => scene'[e] \in {"lobby", "matching", "play"}
  BY <1>5 DEF LoginInv, Runs
<1> QED
  BY <1>2, <1>3, <1>4, <1>5, <1>6, LoginFrame

LEMMA LoginPair ==
  ASSUME TypeOK, LoginInv, NEW c \in Client, NEW d \in Client, NEW r \in Room,
         Pair(c, d, r)
  PROVE  LoginInv'
<1> DEFINE p == [type |-> "FIND_ROOM", room |-> r]
<1>1. p \in LobbyPacket /\ p.type \notin LoggingIn
  BY PacketType DEF LoggingIn
<1>2. \A e \in Client : lobbyQ[e] \in Seq(LobbyPacket)
  BY DEF TypeOK
<1>3. \A e \in Client : lobbyQ'[e] \in {lobbyQ[e], Append(lobbyQ[e], p)}
  BY DEF Pair
<1> HIDE DEF p
<1>4. \A e \in Client :
        /\ Has(lobbyQ'[e], LoggingIn) => Has(lobbyQ[e], LoggingIn)
        /\ Once(lobbyQ[e], LoggingIn) => Once(lobbyQ'[e], LoggingIn)
  <2> SUFFICES ASSUME NEW e \in Client
               PROVE  /\ Has(lobbyQ'[e], LoggingIn) => Has(lobbyQ[e], LoggingIn)
                      /\ Once(lobbyQ[e], LoggingIn) => Once(lobbyQ'[e], LoggingIn)
    OBVIOUS
  <2> DEFINE q == lobbyQ[e]
  <2>1. q \in Seq(LobbyPacket)
    BY <1>2
  <2> HIDE DEF q
  <2>2. /\ Has(Append(q, p), LoggingIn) => Has(q, LoggingIn)
        /\ Once(q, LoggingIn) => Once(Append(q, p), LoggingIn)
    BY <1>1, <2>1, AppendHas
  <2>3. lobbyQ'[e] = q \/ lobbyQ'[e] = Append(q, p)
    BY <1>3 DEF q
  <2> QED
    BY <2>2, <2>3 DEF q
<1>5. UNCHANGED <<battleId, asked, battleQ, scene>>
  BY DEF Pair
<1>6. \A e \in Client : battleId[e] # NoId => scene'[e] \in {"lobby", "matching", "play"}
  BY <1>5 DEF LoginInv, Runs
<1> QED
  BY <1>4, <1>5, <1>6, LoginFrame

(* The index the battle server gives is nobody's. *)
LEMMA FreshId ==
  ASSUME TypeOK, LoginInv, NEW c \in Client, UserInfo(c)
  PROVE  /\ battleId[c] = NoId /\ battleQ[c] = <<>> /\ asked[c]
         /\ \E id \in Id :
              /\ \A e \in Client : battleId[e] # id
              /\ battleId' = [battleId EXCEPT ![c] = id]
              /\ battleQ' = [battleQ EXCEPT ![c] =
                               Append(@, [type |-> "LOGIN_OK", id |-> id])]
<1>1. lobbyQ[c] \in Seq(LobbyPacket) /\ Head(lobbyQ[c]).type \in LoggingIn
  BY DEF UserInfo, TypeOK, LoggingIn
<1>2. Has(lobbyQ[c], LoggingIn)
  BY <1>1, TailHas DEF UserInfo
<1>3. PICK id \in FreeIds :
        /\ battleId' = [battleId EXCEPT ![c] = id]
        /\ battleQ' = [battleQ EXCEPT ![c] =
                         Append(@, [type |-> "LOGIN_OK", id |-> id])]
  BY DEF UserInfo
<1>4. id \in Id /\ \A e \in Client : battleId[e] # id
  BY <1>3, IdType DEF FreeIds, Taken, LoginInv
<1> QED
  BY <1>2, <1>3, <1>4 DEF LoginInv

LEMMA LoginUserInfo ==
  ASSUME TypeOK, LoginInv, NEW c \in Client, UserInfo(c) PROVE LoginInv'
<1>1. battleId[c] = NoId /\ asked[c]
  BY FreshId
<1>2. PICK id \in Id :
        /\ \A e \in Client : battleId[e] # id
        /\ battleId' = [battleId EXCEPT ![c] = id]
        /\ battleQ' = [battleQ EXCEPT ![c] =
                         Append(@, [type |-> "LOGIN_OK", id |-> id])]
  BY FreshId
<1>3. \A e \in Client :
        /\ battleId'[e] = IF e = c THEN id ELSE battleId[e]
        /\ e # c => battleQ'[e] = battleQ[e]
        /\ lobbyQ'[e] = IF e = c THEN Tail(lobbyQ[c]) ELSE lobbyQ[e]
  BY <1>2 DEF UserInfo, TypeOK
<1>4. /\ lobbyQ[c] \in Seq(LobbyPacket) /\ lobbyQ[c] # <<>>
      /\ Head(lobbyQ[c]).type \in LoggingIn
  BY DEF UserInfo, TypeOK, LoggingIn
<1>5. ~Has(lobbyQ'[c], LoggingIn) /\ Once(lobbyQ'[c], LoggingIn)
  <2>1. Once(lobbyQ[c], LoggingIn)
    BY DEF LoginInv
  <2> QED
    BY <1>3, <1>4, <2>1, TailHas
<1>6. Runs(c) /\ UNCHANGED <<asked, scene>> /\ id # NoId
  BY IdType DEF UserInfo, lobbyVars
<1> QED
  BY <1>1, <1>2, <1>3, <1>5, <1>6 DEF LoginInv, Runs

LEMMA LoginLeft ==
  ASSUME TypeOK, LoginInv, NEW c \in Client, Goes(c) PROVE LoginInv'
<1>1. /\ \A e \in Client :
           /\ battleQ'[e] = IF e = c THEN <<>> ELSE battleQ[e]
           /\ scene'[e] = scene[e] \/ (e = c /\ scene'[c] \in {"closed", "crashed"})
      /\ lobbyQ' = [lobbyQ EXCEPT ![c] = <<>>]
      /\ battleId' = [battleId EXCEPT ![c] = NoId]
      /\ UNCHANGED lobbyVars
  BY GoesEffect
<1> QED
  BY <1>1, LoginGoes DEF lobbyVars

LEMMA LoginFindRoom ==
  ASSUME TypeOK, LoginInv, NEW c \in Client, FindRoom(c) PROVE LoginInv'
<1>1. CASE HasEntry(c)
  <2>1. lobbyQ[c] \in Seq(LobbyPacket) /\ lobbyQ[c] # <<>>
    BY DEF FindRoom, TypeOK
  <2>2. battleId[c] \in Id /\ Head(lobbyQ[c]).room \in Room
    BY <1>1, <2>1, TailQueue, PacketRoom DEF HasEntry, TypeOK, FindRoom
  <2>3. \A e \in Client : lobbyQ'[e] = IF e = c THEN Tail(lobbyQ[c]) ELSE lobbyQ[e]
    BY <1>1 DEF FindRoom, TypeOK
  <2>4. \A e \in Client :
          /\ Has(lobbyQ'[e], LoggingIn) => Has(lobbyQ[e], LoggingIn)
          /\ Once(lobbyQ[e], LoggingIn) => Once(lobbyQ'[e], LoggingIn)
    BY <2>1, <2>3, TailHas
  <2>5. \A e \in Client : battleId[e] = NoId => battleQ'[e] = battleQ[e]
    BY <1>1, <2>2, JoinGrows DEF FindRoom
  <2>6. UNCHANGED <<battleId, asked, scene>>
    BY <1>1 DEF FindRoom, lobbyVars
  <2>7. \A e \in Client : battleId[e] # NoId => scene'[e] \in {"lobby", "matching", "play"}
    BY <2>6 DEF LoginInv, Runs
  <2> QED
    BY <2>4, <2>5, <2>6, <2>7, LoginFrame
<1>2. CASE ~HasEntry(c)
  BY <1>2, GoesSteps, LoginLeft
<1> QED
  BY <1>1, <1>2

LEMMA TakesRun ==
  ASSUME TypeOK, NEW c \in Client, Takes(c)
  PROVE  \A e \in Client : Runs(e) => (Runs(e))'
<1>1. scene' = [scene EXCEPT ![c] =
                  IF Head(battleQ[c]).type = "ROOM_ENTERED" THEN "matching"
                  ELSE IF Head(battleQ[c]).type = "ROOM_START" THEN "play" ELSE @]
  BY TakesEffect
<1> QED
  BY <1>1 DEF Runs, TypeOK

LEMMA LoginTakes ==
  ASSUME TypeOK, LoginInv, NEW c \in Client, Takes(c) PROVE LoginInv'
<1>1. /\ battleQ[c] # <<>>
      /\ battleQ' = [battleQ EXCEPT ![c] = Tail(@)]
      /\ UNCHANGED <<lobbyQ, asked, battleId>>
  BY TakesFrame DEF lobbyVars
<1>2. \A e \in Client : battleId[e] = NoId => battleQ'[e] = battleQ[e]
  BY <1>1 DEF LoginInv, TypeOK
<1>3. \A e \in Client : battleId[e] # NoId => scene'[e] \in {"lobby", "matching", "play"}
  BY TakesRun DEF LoginInv, Runs
<1> QED
  BY <1>1, <1>2, <1>3, LoginFrame

LEMMA LoginReady ==
  ASSUME TypeOK, LoginInv, NEW c \in Client, ClickReady(c) PROVE LoginInv'
<1>1. UNCHANGED <<battleId, asked, scene, lobbyQ>>
  BY DEF ClickReady, lobbyVars
<1>2. \A e \in Client : battleId[e] = NoId => battleQ'[e] = battleQ[e]
  <2>1. \A r \in Room : NoId \notin Players(r)
    BY DEF Players
  <2> QED
    BY <2>1, ReadyGrows DEF ClickReady, ReadyNowhere
<1>3. \A e \in Client : battleId[e] # NoId => scene'[e] \in {"lobby", "matching", "play"}
  BY <1>1 DEF LoginInv, Runs
<1> QED
  BY <1>1, <1>2, <1>3, LoginFrame

LEMMA LoginClose ==
  ASSUME TypeOK, LoginInv, NEW c \in Client, NEW r \in Room, Close(c, r)
  PROVE  LoginInv'
<1>1. /\ battleId' = [battleId EXCEPT ![c] = NoId]
      /\ lobbyQ' = [lobbyQ EXCEPT ![c] = <<>>]
      /\ UNCHANGED asked
      /\ \A e \in Client : e # c => scene'[e] = scene[e]
  BY DEF Close, lobbyVars, TypeOK
<1>2. NoId \notin Players(r)
  BY DEF Players
<1>3. /\ battleQ'[c] = <<>>
      /\ \A e \in Client : e # c /\ battleId[e] = NoId => battleQ'[e] = battleQ[e]
  BY <1>2, CloseEffect
<1> QED
  BY <1>1, <1>3, LoginGoes

LEMMA LoginNext ==
  ASSUME TypeOK, LoginInv, [Next]_vars PROVE LoginInv'
<1>1. ASSUME UNCHANGED <<queueVars, asked, scene, battleId>> PROVE LoginInv'
  BY <1>1 DEF LoginInv, Runs, queueVars
<1>2. ASSUME NEW c \in Client, User(c) \/ Network(c) PROVE LoginInv'
  BY <1>1, <1>2, LoginClickLogin, LoginLobbyLoginOK, LoginUserInfo, LoginFindRoom,
     LoginTakes, LoginReady, LoginClose, GoesSteps, LoginLeft
  DEF User, Network, Takes, ClickStart
<1> QED
  BY <1>1, <1>2, LoginPair DEF Next, vars, lobbyVars

-----------------------------------------------------------------------------
(* MatchInv.                                                                *)
LEMMA InSlot ==
  ASSUME NEW c \in Client, NEW r \in Room
  PROVE  In(c, r) <=> battleId[c] # NoId /\ \E i \in Slot : slot[r][i] = battleId[c]
BY DEF In, Players

LEMMA FindsQueue ==
  ASSUME NEW q \in Seq(LobbyPacket), NEW m
  PROVE  /\ q # <<>> /\ Finds(q, m) => /\ Finds(Tail(q), m)
                                       /\ Head(q).type = "FIND_ROOM" => Head(q).room = m
         /\ \A p \in LobbyPacket :
              Finds(q, m) /\ (p.type = "FIND_ROOM" => p.room = m) => Finds(Append(q, p), m)
         /\ ~Has(q, Finding) => Finds(q, m)
<1>1. ASSUME q # <<>>, Finds(q, m)
      PROVE  Finds(Tail(q), m) /\ (Head(q).type = "FIND_ROOM" => Head(q).room = m)
  <2>1. /\ Head(q) = q[1] /\ 1 \in 1..Len(q)
        /\ \A k \in 1..Len(Tail(q)) : Tail(q)[k] = q[k + 1] /\ k + 1 \in 1..Len(q)
    BY <1>1, TailQueue
  <2> QED
    BY <1>1, <2>1 DEF Finds
<1>2. ASSUME NEW p \in LobbyPacket, Finds(q, m), p.type = "FIND_ROOM" => p.room = m
      PROVE  Finds(Append(q, p), m)
  <2>1. /\ \A k \in 1..Len(q) : Append(q, p)[k] = q[k]
        /\ Append(q, p)[Len(q) + 1] = p
        /\ \A k : k \in 1..Len(Append(q, p)) <=> k \in 1..Len(q) \/ k = Len(q) + 1
    BY AppendQueue
  <2> QED
    BY <1>2, <2>1 DEF Finds
<1>3. ~Has(q, Finding) => Finds(q, m)
  BY DEF Has, Finding, Finds
<1> QED
  BY <1>1, <1>2, <1>3

LEMMA MatchInit == Init => MatchInv
<1> SUFFICES ASSUME Init PROVE MatchInv
  OBVIOUS
<1>1. Finds(<<>>, 0)
  BY EmptySeq DEF Finds
<1>2. \A c \in Client, r \in Room : ~In(c, r)
  BY DEF Init, In
<1> QED
  BY <1>1, <1>2, EmptyQueue DEF Init, MatchInv

LEMMA MatchFrame ==
  ASSUME MatchInv, UNCHANGED <<battleId, slot, match>>,
         \A c \in Client : /\ c \in waiting' => matching'[c] /\ match[c] = 0
                           /\ matching[c] => matching'[c],
         \A c \in Client : /\ Finds(lobbyQ[c], match[c]) => Finds(lobbyQ'[c], match[c])
                           /\ Once(lobbyQ[c], Finding) => Once(lobbyQ'[c], Finding)
                           /\ Has(lobbyQ'[c], Finding) => Has(lobbyQ[c], Finding)
  PROVE  MatchInv'
<1>1. \A c \in Client, r \in Room : In(c, r)' <=> In(c, r)
  BY DEF In, Players
<1> QED
  BY <1>1 DEF MatchInv

(* Steps of one client's lobby queue that leave its FIND_ROOM where it is.  *)
LEMMA MatchQueue ==
  ASSUME TypeOK, NEW c \in Client, NEW p \in LobbyPacket, p.type \notin Finding,
         \/ lobbyQ' = [lobbyQ EXCEPT ![c] = Append(@, p)]
         \/ lobbyQ[c] # <<>> /\ lobbyQ' = [lobbyQ EXCEPT ![c] = Append(Tail(@), p)]
         \/ lobbyQ[c] # <<>> /\ lobbyQ' = [lobbyQ EXCEPT ![c] = Tail(@)]
  PROVE  \A e \in Client :
           /\ Finds(lobbyQ[e], match[e]) => Finds(lobbyQ'[e], match[e])
           /\ Once(lobbyQ[e], Finding) => Once(lobbyQ'[e], Finding)
           /\ Has(lobbyQ'[e], Finding) => Has(lobbyQ[e], Finding)
<1> DEFINE q == lobbyQ[c]
<1>1. /\ q \in Seq(LobbyPacket)
      /\ \A e \in Client : e # c => lobbyQ'[e] = lobbyQ[e]
      /\ \/ lobbyQ'[c] = Append(q, p)
         \/ q # <<>> /\ lobbyQ'[c] = Append(Tail(q), p)
         \/ q # <<>> /\ lobbyQ'[c] = Tail(q)
  BY DEF TypeOK
<1>2. p.type # "FIND_ROOM"
  BY DEF Finding
<1> HIDE DEF q
<1>3. q # <<>> => /\ Tail(q) \in Seq(LobbyPacket)
                  /\ Finds(q, match[c]) => Finds(Tail(q), match[c])
                  /\ Once(q, Finding) => Once(Tail(q), Finding)
                  /\ Has(Tail(q), Finding) => Has(q, Finding)
  BY <1>1, TailQueue, TailHas, FindsQueue
<1>4. \A z \in Seq(LobbyPacket) :
        /\ Finds(z, match[c]) => Finds(Append(z, p), match[c])
        /\ Once(z, Finding) => Once(Append(z, p), Finding)
        /\ Has(Append(z, p), Finding) => Has(z, Finding)
  BY <1>2, AppendHas, FindsQueue
<1>5. /\ Finds(q, match[c]) => Finds(lobbyQ'[c], match[c])
      /\ Once(q, Finding) => Once(lobbyQ'[c], Finding)
      /\ Has(lobbyQ'[c], Finding) => Has(q, Finding)
  <2>1. CASE lobbyQ'[c] = Append(q, p)
    BY <1>1, <1>4, <2>1
  <2>2. CASE q # <<>> /\ lobbyQ'[c] = Tail(q)
    BY <1>3, <2>2
  <2>3. CASE q # <<>> /\ lobbyQ'[c] = Append(Tail(q), p)
    BY <1>3, <1>4, <2>3
  <2> QED
    BY <1>1, <2>1, <2>2, <2>3
<1> QED
  BY <1>1, <1>5 DEF q

LEMMA MatchLobby ==
  ASSUME TypeOK, MatchInv, NEW c \in Client,
         ClickLogin(c) \/ ClickStart(c) \/ LobbyLoginOK(c)
  PROVE  MatchInv'
<1>1. \A e \in Client : e \in waiting => matching[e] /\ match[e] = 0
  BY DEF MatchInv
<1>2. ASSUME NEW t \in LoggingIn
      PROVE  [type |-> t] \in LobbyPacket /\ [type |-> t].type \notin Finding
  BY PacketType DEF LoggingIn, Finding
<1>3. CASE ClickLogin(c)
  <2>1. lobbyQ' = [lobbyQ EXCEPT ![c] = Append(@, [type |-> "LOGIN_OK"])]
    BY <1>3 DEF ClickLogin
  <2>2. UNCHANGED <<battleId, slot, match, waiting, matching>>
    BY <1>3 DEF ClickLogin, roomVars
  <2>3. "LOGIN_OK" \in LoggingIn
    BY DEF LoggingIn
  <2> QED
    BY <1>1, <1>2, <2>1, <2>2, <2>3, MatchQueue, MatchFrame
<1>4. CASE LobbyLoginOK(c)
  <2>1. /\ lobbyQ[c] # <<>>
        /\ lobbyQ' = [lobbyQ EXCEPT ![c] = Append(Tail(@), [type |-> "USERINFO"])]
    BY <1>4 DEF LobbyLoginOK
  <2>2. UNCHANGED <<battleId, slot, match, waiting, matching>>
    BY <1>4 DEF LobbyLoginOK, roomVars, lobbyVars
  <2>3. "USERINFO" \in LoggingIn
    BY DEF LoggingIn
  <2> QED
    BY <1>1, <1>2, <2>1, <2>2, <2>3, MatchQueue, MatchFrame
<1>5. CASE ClickStart(c)
  <2>1. match[c] = 0
    BY <1>5 DEF ClickStart, MatchInv
  <2>2. UNCHANGED <<battleId, slot, match, lobbyQ>>
    BY <1>5 DEF ClickStart, roomVars, queueVars
  <2>3. \A e \in Client : /\ matching'[e] = (matching[e] \/ e = c)
                          /\ e \in waiting' => e \in waiting \/ e = c
    BY <1>5 DEF ClickStart, TypeOK
  <2> QED
    BY <1>1, <2>1, <2>2, <2>3, MatchFrame
<1> QED
  BY <1>3, <1>4, <1>5

LEMMA MatchPair ==
  ASSUME TypeOK, MatchInv, NEW c \in Client, NEW d \in Client, NEW r \in Room,
         Pair(c, d, r)
  PROVE  MatchInv'
<1> DEFINE p == [type |-> "FIND_ROOM", room |-> r]
<1>1. /\ p \in LobbyPacket /\ p.type = "FIND_ROOM" /\ p.room = r
      /\ \A e \in Client : lobbyQ[e] \in Seq(LobbyPacket)
      /\ r # 0
  BY PacketType, RoomAssumption DEF TypeOK
<1>2. \A e \in Client :
        /\ match'[e] = IF e \in {c, d} THEN r ELSE match[e]
        /\ lobbyQ'[e] = IF e \in {c, d} THEN Append(lobbyQ[e], p) ELSE lobbyQ[e]
  BY DEF Pair
<1>3. /\ waiting' = waiting \ {c, d} /\ {c, d} \subseteq waiting
      /\ \A e \in Client : match[e] # r
      /\ UNCHANGED <<matching, battleId, slot>>
  BY DEF Pair, roomVars
<1> HIDE DEF p
<1>4. \A e \in {c, d} : /\ matching[e] /\ match[e] = 0
                        /\ \A q \in Room : ~In(e, q)
  <2>1. \A q \in Room : q # 0
    BY RoomAssumption
  <2> QED
    BY <1>3, <2>1 DEF MatchInv
<1>5. \A e \in {c, d} : ~Has(lobbyQ[e], Finding)
  <2> SUFFICES ASSUME NEW e \in {c, d}, NEW k \in 1..Len(lobbyQ[e]),
                      lobbyQ[e][k].type = "FIND_ROOM"
               PROVE  FALSE
    BY DEF Has, Finding
  <2>1. lobbyQ[e][k] \in LobbyPacket
    BY <1>1, ElementOfSeq
  <2>2. lobbyQ[e][k].room \in Room /\ lobbyQ[e][k].room = match[e]
    BY <2>1, PacketRoom DEF MatchInv, Finds
  <2> QED
    BY <1>4, <2>2, RoomAssumption
<1>6. \A e \in {c, d} : /\ Finds(lobbyQ'[e], match'[e])
                        /\ Once(lobbyQ'[e], Finding)
  <2>1. \A e \in {c, d} : Finds(lobbyQ[e], r) /\ Once(lobbyQ[e], Finding)
    BY <1>1, <1>5, FindsQueue DEF MatchInv
  <2> QED
    BY <1>1, <1>2, <1>5, <2>1, FindsQueue, AppendHas
<1>7. \A e \in Client, q \in Room : In(e, q)' <=> In(e, q)
  BY <1>3 DEF In, Players
<1>8. \A x, y, z \in Client :
        match'[x] # 0 /\ match'[x] = match'[y] /\ match'[y] = match'[z]
          => x = y \/ y = z \/ x = z
  <2> SUFFICES ASSUME NEW x \in Client, NEW y \in Client, NEW z \in Client,
                      match'[x] # 0, match'[x] = match'[y], match'[y] = match'[z]
               PROVE  x = y \/ y = z \/ x = z
    OBVIOUS
  <2>1. CASE match'[x] = r
    BY <1>2, <1>3, <2>1
  <2>2. CASE match'[x] # r
    BY <1>2, <2>2 DEF MatchInv
  <2> QED
    BY <2>1, <2>2
<1>9. ASSUME NEW e \in Client
      PROVE  /\ e \in waiting' => matching'[e] /\ match'[e] = 0
             /\ match'[e] # 0 => matching'[e]
             /\ Finds(lobbyQ'[e], match'[e])
             /\ Once(lobbyQ'[e], Finding)
             /\ \A q \in Room : In(e, q)' => match'[e] = q /\ ~Has(lobbyQ'[e], Finding)
  <2>1. CASE e \in {c, d}
    BY <1>2, <1>3, <1>4, <1>6, <1>7, <2>1
  <2>2. CASE e \notin {c, d}
    BY <1>2, <1>3, <1>7, <2>2 DEF MatchInv
  <2> QED
    BY <2>1, <2>2
<1> QED
  BY <1>3, <1>8, <1>9 DEF MatchInv

LEMMA MatchUserInfo ==
  ASSUME TypeOK, LoginInv, MatchInv, NEW c \in Client, UserInfo(c)
  PROVE  MatchInv'
<1>1. battleId[c] = NoId
  BY FreshId
<1>2. PICK id \in Id : /\ \A e \in Client : battleId[e] # id
                       /\ battleId' = [battleId EXCEPT ![c] = id]
  BY FreshId
<1>3. \A e \in Client : battleId'[e] = IF e = c THEN id ELSE battleId[e]
  BY <1>2 DEF TypeOK
<1>4. UNCHANGED <<slot, match, waiting, matching>>
  BY DEF UserInfo, lobbyVars, roomVars
<1>5. \A e \in Client :
        /\ Finds(lobbyQ'[e], match[e])
        /\ Once(lobbyQ'[e], Finding)
        /\ Has(lobbyQ'[e], Finding) => Has(lobbyQ[e], Finding)
  <2>1. /\ lobbyQ[c] # <<>> /\ lobbyQ' = [lobbyQ EXCEPT ![c] = Tail(@)]
        /\ [type |-> "USERINFO"] \in LobbyPacket
        /\ [type |-> "USERINFO"].type \notin Finding
    BY PacketType DEF UserInfo, LoggingIn, Finding
  <2> QED
    BY <2>1, MatchQueue DEF MatchInv
<1>6. \A q \in Room, i \in Slot : slot[q][i] # id
  BY <1>2, IdType DEF MatchInv
<1>7. \A e \in Client, q \in Room : In(e, q)' => In(e, q)
  BY <1>3, <1>4, <1>6 DEF In, Players
<1>8. \A q \in Room, i \in Slot :
        slot[q][i] # NoId => \E e \in Client : battleId'[e] = slot[q][i]
  <2> SUFFICES ASSUME NEW q \in Room, NEW i \in Slot, slot[q][i] # NoId
               PROVE  \E e \in Client : battleId'[e] = slot[q][i]
    OBVIOUS
  <2>1. PICK e \in Client : battleId[e] = slot[q][i]
    BY DEF MatchInv
  <2> QED
    BY <1>1, <1>3, <2>1
<1> QED
  BY <1>4, <1>5, <1>7, <1>8 DEF MatchInv

(* A client with a FIND_ROOM on the way is in no room yet. *)
LEMMA NotYetIn ==
  ASSUME TypeOK, MatchInv, NEW c \in Client, FindRoom(c)
  PROVE  /\ Has(lobbyQ[c], Finding) /\ ~Has(Tail(lobbyQ[c]), Finding)
         /\ Head(lobbyQ[c]).room = match[c] /\ match[c] \in Room
         /\ \A r \in Room : ~In(c, r)
         /\ \A r \in Room, i \in Slot : slot[r][i] = NoId \/ slot[r][i] # battleId[c]
<1>1. /\ lobbyQ[c] \in Seq(LobbyPacket) /\ lobbyQ[c] # <<>>
      /\ Head(lobbyQ[c]).type = "FIND_ROOM" /\ Head(lobbyQ[c]).type \in Finding
  BY DEF FindRoom, TypeOK, Finding
<1>2. Has(lobbyQ[c], Finding) /\ ~Has(Tail(lobbyQ[c]), Finding)
  BY <1>1, TailHas DEF MatchInv
<1>3. Head(lobbyQ[c]).room = match[c] /\ Head(lobbyQ[c]).room \in Room
  BY <1>1, TailQueue, FindsQueue, PacketRoom DEF MatchInv
<1>4. \A r \in Room : ~In(c, r)
  BY <1>2 DEF MatchInv
<1> QED
  BY <1>2, <1>3, <1>4, InSlot

(* A client whose connections are closed: no slot is its own afterwards,    *)
(* and none is anybody's that was not.                                      *)
LEMMA MatchGoes ==
  ASSUME TypeOK, LoginInv, MatchInv, NEW c \in Client,
         battleId' = [battleId EXCEPT ![c] = NoId],
         lobbyQ' = [lobbyQ EXCEPT ![c] = <<>>],
         UNCHANGED <<waiting, matching, match>>,
         \A r \in Room, i \in Slot :
           slot'[r][i] # NoId => slot'[r][i] = slot[r][i] /\ slot[r][i] # battleId[c]
  PROVE  MatchInv'
<1>1. \A e \in Client : /\ battleId'[e] = IF e = c THEN NoId ELSE battleId[e]
                        /\ lobbyQ'[e] = IF e = c THEN <<>> ELSE lobbyQ[e]
  BY DEF TypeOK
<1>2. ~Has(<<>>, Finding) /\ Once(<<>>, Finding) /\ \A m : Finds(<<>>, m)
  BY EmptyQueue, EmptySeq DEF Finds
<1>3. \A e \in Client, r \in Room : In(e, r)' => In(e, r)
  BY <1>1 DEF In, Players
<1>4. \A r \in Room, i \in Slot :
        slot'[r][i] # NoId => \E e \in Client : battleId'[e] = slot'[r][i]
  <2> SUFFICES ASSUME NEW r \in Room, NEW i \in Slot, slot'[r][i] # NoId
               PROVE  \E e \in Client : battleId'[e] = slot'[r][i]
    OBVIOUS
  <2>1. slot'[r][i] = slot[r][i] /\ slot[r][i] # battleId[c]
    OBVIOUS
  <2>2. PICK e \in Client : battleId[e] = slot[r][i]
    BY <2>1 DEF MatchInv
  <2> QED
    BY <1>1, <2>1, <2>2
<1>5. \A r, q \in Room, i, j \in Slot :
        slot'[r][i] = slot'[q][j] => slot'[r][i] = NoId \/ (r = q /\ i = j)
  BY DEF MatchInv
<1> QED
  BY <1>1, <1>2, <1>3, <1>4, <1>5 DEF MatchInv

(* A client on its way into a room. *)
LEMMA PendingOut ==
  ASSUME TypeOK, MatchInv, NEW c \in Client, Has(lobbyQ[c], Finding)
  PROVE  /\ match[c] \in Room
         /\ \A r \in Room : ~In(c, r)
         /\ \A r \in Room, i \in Slot : slot[r][i] = NoId \/ slot[r][i] # battleId[c]
<1>1. PICK k \in 1..Len(lobbyQ[c]) : lobbyQ[c][k].type = "FIND_ROOM"
  BY DEF Has, Finding
<1>2. lobbyQ[c][k] \in LobbyPacket
  BY <1>1, ElementOfSeq DEF TypeOK
<1>3. match[c] \in Room
  BY <1>1, <1>2, PacketRoom DEF MatchInv, Finds
<1>4. \A r \in Room : ~In(c, r)
  BY DEF MatchInv
<1> QED
  BY <1>3, <1>4, InSlot

LEMMA MatchLeft ==
  ASSUME TypeOK, LoginInv, MatchInv, NEW c \in Client, Goes(c) PROVE MatchInv'
<1>1. \A r \in Room, i \in Slot : slot[r][i] = NoId \/ slot[r][i] # battleId[c]
  BY PendingOut DEF Goes
<1>2. /\ lobbyQ' = [lobbyQ EXCEPT ![c] = <<>>]
      /\ battleId' = [battleId EXCEPT ![c] = NoId]
      /\ UNCHANGED lobbyVars
      /\ \A r \in Room : slot'[r] = slot[r] \/ \A i \in Slot : slot'[r][i] = NoId
  BY GoesEffect
<1>3. \A r \in Room, i \in Slot :
        slot'[r][i] # NoId => slot'[r][i] = slot[r][i] /\ slot[r][i] # battleId[c]
  BY <1>1, <1>2
<1> QED
  BY <1>2, <1>3, MatchGoes DEF lobbyVars

(* A new player takes slot 1 only behind a player in slot 0; a join that    *)
(* met the one before takes slot 0 from it.                                 *)
Seated(r, i, id) == \A q \in Room, j \in Slot :
                      slot'[q][j] = IF q = r /\ j = i THEN id ELSE slot[q][j]

LEMMA NewPlayer ==
  ASSUME TypeOK, NEW c \in Client, match[c] \in Room, Vacant(match[c]),
         NEW i \in EntersAt(match[c]),
         slot' = [slot EXCEPT ![match[c]][i] = battleId[c]]
  PROVE  /\ i \in Slot
         /\ i = 1 => slot[match[c]][0] # NoId /\ slot[match[c]][1] = NoId
         /\ slot[match[c]][1] # NoId => i = 0 /\ slot[match[c]][0] = NoId
         /\ Seated(match[c], i, battleId[c])
<1> DEFINE r == match[c]
<1>1. /\ i \in Slot
      /\ i = 1 => slot[r][0] # NoId /\ slot[r][1] = NoId
      /\ slot[r][1] # NoId => i = 0 /\ slot[r][0] = NoId
  BY DEF EntersAt, FirstFree, Vacant, Slot
<1>2. slot' = [slot EXCEPT ![r][i] = battleId[c]]
  OBVIOUS
<1> HIDE DEF r
<1>3. Seated(r, i, battleId[c])
  BY <1>1, <1>2 DEF TypeOK, Seated
<1> QED
  BY <1>1, <1>3 DEF r

LEMMA MatchJoin ==
  ASSUME TypeOK, LoginInv, MatchInv, NEW c \in Client, FindRoom(c), HasEntry(c),
         Vacant(match[c]), NEW i \in EntersAt(match[c]),
         slot' = [slot EXCEPT ![match[c]][i] = battleId[c]]
  PROVE  MatchInv'
<1> DEFINE r == match[c]
<1>1. /\ Has(lobbyQ[c], Finding) /\ ~Has(Tail(lobbyQ[c]), Finding)
      /\ r \in Room
      /\ \A q \in Room : ~In(c, q)
      /\ \A q \in Room, j \in Slot : slot[q][j] = NoId \/ slot[q][j] # battleId[c]
  BY NotYetIn
<1>2. /\ i \in Slot
      /\ \A q \in Room, j \in Slot :
           slot'[q][j] = IF q = r /\ j = i THEN battleId[c] ELSE slot[q][j]
  BY <1>1, NewPlayer DEF Seated
<1>3. /\ lobbyQ[c] \in Seq(LobbyPacket) /\ lobbyQ[c] # <<>>
      /\ \A e \in Client : lobbyQ'[e] = IF e = c THEN Tail(lobbyQ[c]) ELSE lobbyQ[e]
      /\ UNCHANGED <<battleId, match, waiting, matching>>
  BY DEF FindRoom, TypeOK, lobbyVars
<1>4. battleId[c] # NoId
  BY IdType DEF HasEntry, TypeOK
<1> HIDE DEF r
<1>5. Finds(lobbyQ'[c], match[c]) /\ Once(lobbyQ'[c], Finding)
  BY <1>3, TailHas, FindsQueue DEF MatchInv
<1>6. \A e \in Client, q \in Room : In(e, q)' => In(e, q) \/ (e = c /\ q = r)
  BY <1>2, <1>3, <1>4 DEF In, Players, LoginInv
<1>7. \A e \in Client, q \in Room : In(e, q)' =>
        match[e] = q /\ ~Has(lobbyQ'[e], Finding)
  BY <1>1, <1>3, <1>6 DEF MatchInv, r
<1>8. \A q \in Room, j \in Slot :
        slot'[q][j] # NoId => \E e \in Client : battleId'[e] = slot'[q][j]
  BY <1>2, <1>3 DEF MatchInv
<1>9. \A p, q \in Room, k, j \in Slot :
        slot'[p][k] = slot'[q][j] => slot'[p][k] = NoId \/ (p = q /\ k = j)
  BY <1>1, <1>2 DEF MatchInv
<1> QED
  BY <1>3, <1>5, <1>7, <1>8, <1>9 DEF MatchInv

LEMMA MatchFindRoom ==
  ASSUME TypeOK, LoginInv, MatchInv, NEW c \in Client, FindRoom(c)
  PROVE  MatchInv'
<1>1. /\ Head(lobbyQ[c]).room = match[c] /\ match[c] \in Room
      /\ \A r \in Room, i \in Slot : slot[r][i] = NoId \/ slot[r][i] # battleId[c]
  BY NotYetIn
<1>2. UNCHANGED <<match, waiting, matching>> /\ lobbyQ[c] # <<>>
  BY DEF FindRoom, lobbyVars
<1>3. CASE HasEntry(c)
  <2>1. /\ UNCHANGED battleId
        /\ lobbyQ' = [lobbyQ EXCEPT ![c] = Tail(@)]
        /\ Join(battleId[c], match[c]) /\ battleId[c] \in Id
    BY <1>1, <1>3 DEF FindRoom, HasEntry, TypeOK
  <2>2. CASE UNCHANGED slot
    <3>1. /\ [type |-> "USERINFO"] \in LobbyPacket
          /\ [type |-> "USERINFO"].type \notin Finding
      BY PacketType DEF LoggingIn, Finding
    <3>2. \A e \in Client :
            /\ Finds(lobbyQ[e], match[e]) => Finds(lobbyQ'[e], match[e])
            /\ Once(lobbyQ[e], Finding) => Once(lobbyQ'[e], Finding)
            /\ Has(lobbyQ'[e], Finding) => Has(lobbyQ[e], Finding)
      BY <1>2, <2>1, <3>1, MatchQueue
    <3>3. \A e \in Client : e \in waiting => matching[e] /\ match[e] = 0
      BY DEF MatchInv
    <3> QED
      BY <1>2, <2>1, <2>2, <3>2, <3>3, MatchFrame
  <2>3. CASE /\ Vacant(match[c])
             /\ \E i \in EntersAt(match[c]) :
                  slot' = [slot EXCEPT ![match[c]][i] = battleId[c]]
    BY <1>3, <2>3, MatchJoin
  <2> QED
    BY <1>1, <2>1, <2>2, <2>3, JoinEffect
<1>4. CASE ~HasEntry(c)
  BY <1>4, GoesSteps, MatchLeft
<1> QED
  BY <1>3, <1>4

LEMMA CloseSlots ==
  ASSUME TypeOK, MatchInv, NEW c \in Client, NEW r \in Room, Close(c, r)
  PROVE  \A q \in Room, j \in Slot :
           /\ slot'[q][j] = IF slot[q][j] = battleId[c] THEN NoId ELSE slot[q][j]
           /\ ready'[q][j] = IF slot[q][j] = battleId[c] THEN FALSE ELSE ready[q][j]
<1>1. PICK i \in Slot : /\ slot[r][i] = battleId[c]
                        /\ slot' = [slot EXCEPT ![r][i] = NoId]
                        /\ ready' = [ready EXCEPT ![r][i] = FALSE]
  BY CloseSlot
<1>2. battleId[c] # NoId
  BY DEF Close, In
<1>3. \A q \in Room, j \in Slot : slot[q][j] = battleId[c] <=> q = r /\ j = i
  BY <1>1, <1>2 DEF MatchInv
<1>4. \A q \in Room, j \in Slot :
        /\ slot'[q][j] = IF q = r /\ j = i THEN NoId ELSE slot[q][j]
        /\ ready'[q][j] = IF q = r /\ j = i THEN FALSE ELSE ready[q][j]
  BY <1>1 DEF TypeOK
<1> QED
  BY <1>3, <1>4

LEMMA MatchClose ==
  ASSUME TypeOK, LoginInv, MatchInv, NEW c \in Client, NEW r \in Room, Close(c, r)
  PROVE  MatchInv'
<1>1. /\ battleId' = [battleId EXCEPT ![c] = NoId]
      /\ lobbyQ' = [lobbyQ EXCEPT ![c] = <<>>]
      /\ UNCHANGED <<waiting, matching, match>>
  BY DEF Close, lobbyVars
<1>2. \A q \in Room, j \in Slot :
        slot'[q][j] # NoId => slot'[q][j] = slot[q][j] /\ slot[q][j] # battleId[c]
  BY CloseSlots
<1> QED
  BY <1>1, <1>2, MatchGoes

LEMMA MatchNext ==
  ASSUME TypeOK, LoginInv, MatchInv, [Next]_vars PROVE MatchInv'
<1>1. ASSUME UNCHANGED <<lobbyQ, matching, waiting, match, battleId, slot>>
      PROVE  MatchInv'
  BY <1>1, MatchFrame DEF MatchInv
<1>2. ASSUME NEW c \in Client, Takes(c) PROVE MatchInv'
  BY <1>1, <1>2, TakesFrame DEF lobbyVars, roomVars
<1>3. ASSUME NEW c \in Client, ClickReady(c) PROVE MatchInv'
  BY <1>1, <1>3 DEF ClickReady, lobbyVars
<1>4. ASSUME NEW c \in Client, User(c) \/ Network(c) PROVE MatchInv'
  BY <1>2, <1>3, <1>4, MatchLobby, MatchUserInfo, MatchFindRoom, MatchClose,
     GoesSteps, MatchLeft DEF User, Network, Takes
<1> QED
  BY <1>1, <1>4, MatchPair DEF Next, vars, queueVars, lobbyVars, roomVars

-----------------------------------------------------------------------------
(* EntryInv.                                                                *)
LEMMA EntryInit == Init => EntryInv
<1>1. \A id : Stays(<<>>, id)
  BY EmptySeq DEF Stays
<1> QED
  BY <1>1 DEF Init, EntryInv, Runs

LEMMA AnswersGrows ==
  ASSUME NEW q \in Seq(BattlePacket), NEW z \in Seq(BattlePacket), NEW T,
         Grows(q, z, T), NEW id
  PROVE  /\ Answers(q, id) => Answers(z, id)
         /\ "ROOM_LEAVED" \notin T /\ Stays(q, id) => Stays(z, id)
<1>1. Len(q) \in Nat /\ Len(z) \in Nat
  BY LenProperties
<1> QED
  BY <1>1 DEF Grows, Answers, Stays

(* Steps in which the battle server sends something else.                   *)
LEMMA EntryFrame ==
  ASSUME TypeOK, TypeOK', EntryInv,
         UNCHANGED <<battleId, knows, matching, hasty, scene>>,
         \A c \in Client : \E T : /\ Grows(battleQ[c], battleQ'[c], T)
                                /\ "ROOM_LEAVED" \notin T
  PROVE  EntryInv'
<1>1. ASSUME NEW c \in Client
      PROVE  /\ Answers(battleQ[c], battleId[c]) => Answers(battleQ'[c], battleId[c])
             /\ Stays(battleQ[c], battleId[c]) => Stays(battleQ'[c], battleId[c])
  <2>1. PICK T : Grows(battleQ[c], battleQ'[c], T) /\ "ROOM_LEAVED" \notin T
    OBVIOUS
  <2>2. battleQ[c] \in Seq(BattlePacket) /\ battleQ'[c] \in Seq(BattlePacket)
    BY DEF TypeOK
  <2> QED
    BY <2>1, <2>2, AnswersGrows
<1> QED
  BY <1>1 DEF EntryInv, Runs

LEMMA EntryClickStart ==
  ASSUME TypeOK, EntryInv, NEW c \in Client, ClickStart(c) PROVE EntryInv'
<1>1. UNCHANGED <<battleId, knows, battleQ, scene>>
  BY DEF ClickStart, queueVars
<1>2. /\ hasty \subseteq hasty'
      /\ \A e \in Client : e # c => matching'[e] = matching[e]
  BY DEF ClickStart, TypeOK
<1>3. c \notin hasty' => battleId[c] \in knows[c]
  <2> SUFFICES ASSUME c \notin hasty' PROVE battleId[c] \in knows[c]
    OBVIOUS
  <2>1. Answered(c)
    BY DEF ClickStart
  <2>2. battleQ[c] \in Seq(BattlePacket)
    BY DEF TypeOK
  <2>3. DOMAIN battleQ[c] = 1..Len(battleQ[c])
    BY <2>2, LenProperties
  <2> QED
    BY <2>1, <2>3 DEF Answered, Answers, EntryInv
<1> QED
  BY <1>1, <1>2, <1>3 DEF EntryInv, Runs

LEMMA EntryUserInfo ==
  ASSUME TypeOK, LoginInv, EntryInv, NEW c \in Client, UserInfo(c) PROVE EntryInv'
<1>1. battleId[c] = NoId /\ battleQ[c] = <<>>
  BY FreshId
<1>2. PICK id \in Id :
        /\ battleId' = [battleId EXCEPT ![c] = id]
        /\ battleQ' = [battleQ EXCEPT ![c] = Append(@, [type |-> "LOGIN_OK", id |-> id])]
  BY FreshId
<1>3. UNCHANGED <<knows, matching, hasty, scene>> /\ Runs(c)
  BY DEF UserInfo, lobbyVars
<1>4. ~(matching[c] /\ c \notin hasty)
  BY <1>1, <1>3, IdType DEF EntryInv, TypeOK
<1>5. \A e \in Client :
        /\ battleId'[e] = IF e = c THEN id ELSE battleId[e]
        /\ e # c => battleQ'[e] = battleQ[e]
  BY <1>2 DEF TypeOK
<1>6. Answers(battleQ'[c], id) /\ Stays(battleQ'[c], id)
  <2> DEFINE q == battleQ[c]
             p == [type |-> "LOGIN_OK", id |-> id]
  <2>1. /\ q \in Seq(BattlePacket) /\ p \in BattlePacket
        /\ p.type = "LOGIN_OK" /\ p.id = id
        /\ battleQ'[c] = Append(q, p) /\ q = <<>>
    BY <1>1, <1>2, PacketType DEF TypeOK
  <2> HIDE DEF q, p
  <2>2. /\ Append(q, p)[Len(q) + 1] = p /\ Len(q) = 0
        /\ \A k : k \in 1..Len(Append(q, p)) <=> k \in 1..Len(q) \/ k = Len(q) + 1
    BY <2>1, AppendQueue, EmptySeq
  <2> QED
    BY <2>1, <2>2 DEF Answers, Stays
<1> QED
  BY <1>3, <1>4, <1>5, <1>6 DEF EntryInv, Runs

LEMMA EntryTakes ==
  ASSUME TypeOK, LoginInv, EntryInv, NEW c \in Client, Takes(c) PROVE EntryInv'
<1> DEFINE q == battleQ[c]
           p == Head(q)
           z == Tail(q)
<1>1. /\ Runs(c) /\ q # <<>> /\ q \in Seq(BattlePacket)
      /\ \A e \in Client : battleQ'[e] = IF e = c THEN z ELSE battleQ[e]
      /\ UNCHANGED <<battleId, matching, hasty>>
  <2>1. /\ Runs(c) /\ battleQ[c] # <<>> /\ battleQ[c] \in Seq(BattlePacket)
        /\ battleQ' = [battleQ EXCEPT ![c] = Tail(@)]
        /\ UNCHANGED <<battleId, matching, hasty>>
    BY TakesFrame DEF lobbyVars
  <2> QED
    BY <2>1 DEF TypeOK
<1>2. /\ knows' = [knows EXCEPT ![c] =
                     IF Makes(p) THEN @ \cup {p.id}
                     ELSE IF p.type = "ROOM_LEAVED" THEN @ \ {p.id} ELSE @]
      /\ \A e \in Client : e # c => scene'[e] = scene[e]
  BY TakesEffect DEF TypeOK
<1>3. (Runs(c))'
  BY <1>1, TakesRun
<1>4. /\ p = q[1] /\ 1 \in 1..Len(q) /\ Len(q) \in Nat /\ Len(z) = Len(q) - 1
      /\ \A k \in 1..Len(z) : z[k] = q[k + 1] /\ k + 1 \in 1..Len(q)
  BY <1>1, TailQueue
<1> HIDE DEF p, q, z
<1>5. /\ \A e \in Client : e # c => knows'[e] = knows[e]
      /\ Makes(p) => knows'[c] = knows[c] \cup {p.id}
      /\ ~Makes(p) /\ p.type = "ROOM_LEAVED" => knows'[c] = knows[c] \ {p.id}
      /\ ~Makes(p) /\ p.type # "ROOM_LEAVED" => knows'[c] = knows[c]
  BY <1>2 DEF TypeOK
<1>6. Stays(q, battleId[c])
  BY DEF EntryInv, q
<1>7. Stays(z, battleId[c])
  BY <1>4, <1>6 DEF Stays
<1>8. battleId[c] \in knows[c] => battleId[c] \in knows'[c]
  BY <1>4, <1>5, <1>6 DEF Stays
<1>9. Answers(q, battleId[c]) => battleId[c] \in knows'[c] \/ Answers(z, battleId[c])
  <2> SUFFICES ASSUME NEW k \in 1..Len(q),
                      q[k].type = "LOGIN_OK", q[k].id = battleId[c]
               PROVE  battleId[c] \in knows'[c] \/ Answers(z, battleId[c])
    BY DEF Answers
  <2>1. CASE k = 1
    BY <1>4, <1>5, <2>1 DEF Makes
  <2>2. CASE k # 1
    <3>1. k - 1 \in 1..Len(z) /\ (k - 1) + 1 = k
      BY <1>4, <2>2
    <3> QED
      BY <1>4, <3>1 DEF Answers
  <2> QED
    BY <2>1, <2>2
<1>10. scene'[c] # "crashed"
  BY <1>3 DEF Runs
<1> QED
  BY <1>1, <1>2, <1>5, <1>7, <1>8, <1>9, <1>10 DEF EntryInv, Runs, q

LEMMA EntryLeft ==
  ASSUME TypeOK, MatchInv, EntryInv, NEW c \in Client, Goes(c) PROVE EntryInv'
<1>1. match[c] # 0 /\ Runs(c)
  BY PendingOut, RoomAssumption DEF Goes
<1>2. /\ \A e \in Client :
           /\ battleQ'[e] = IF e = c THEN <<>> ELSE battleQ[e]
           /\ battleId'[e] = IF e = c THEN NoId ELSE battleId[e]
           /\ scene'[e] = scene[e] \/ (e = c /\ scene'[c] \in {"closed", "crashed"})
      /\ scene'[c] \in {"closed", "crashed"}
      /\ scene'[c] = "crashed" => ~HasEntry(c)
      /\ UNCHANGED <<knows, matching, hasty>>
  BY GoesEffect DEF lobbyVars
<1>3. scene'[c] = "crashed" => c \in hasty
  BY <1>1, <1>2 DEF HasEntry, MatchInv, EntryInv
<1>4. Stays(<<>>, NoId)
  BY EmptySeq DEF Stays
<1> QED
  BY <1>2, <1>3, <1>4 DEF EntryInv, Runs

LEMMA EntryFindRoom ==
  ASSUME TypeOK, TypeOK', MatchInv, EntryInv, NEW c \in Client, FindRoom(c)
  PROVE  EntryInv'
<1>1. match[c] \in Room /\ Head(lobbyQ[c]).room = match[c] /\ Runs(c)
  BY NotYetIn DEF FindRoom
<1>2. UNCHANGED <<knows, matching, hasty>>
  BY DEF FindRoom, lobbyVars
<1>3. CASE HasEntry(c)
  <2>1. Join(battleId[c], match[c]) /\ battleId[c] \in Id /\ UNCHANGED <<scene, battleId>>
    BY <1>1, <1>3 DEF FindRoom, HasEntry, TypeOK
  <2>2. \A e \in Client :
          Grows(battleQ[e], battleQ'[e], {"ROOM_ENTERED", "JOIN_OK", "JOIN_FAIL"})
    BY <1>1, <2>1, JoinGrows
  <2>3. "ROOM_LEAVED" \notin {"ROOM_ENTERED", "JOIN_OK", "JOIN_FAIL"}
    OBVIOUS
  <2> QED
    BY <1>2, <2>1, <2>2, <2>3, EntryFrame
<1>4. CASE ~HasEntry(c)
  BY <1>4, GoesSteps, EntryLeft
<1> QED
  BY <1>3, <1>4

LEMMA EntryReady ==
  ASSUME TypeOK, TypeOK', EntryInv, NEW c \in Client, ClickReady(c) PROVE EntryInv'
<1>1. UNCHANGED <<battleId, knows, matching, hasty, scene>>
  BY DEF ClickReady, lobbyVars
<1>2. CASE ReadyNowhere(c)
  BY <1>1, <1>2 DEF ReadyNowhere, EntryInv, Runs
<1>3. ASSUME NEW r \in Room, ReadyInRoom(c, r) PROVE EntryInv'
  <2>1. \A e \in Client : Grows(battleQ[e], battleQ'[e], {"READY", "ROOM_START"})
    BY <1>3, ReadyGrows
  <2>2. "ROOM_LEAVED" \notin {"READY", "ROOM_START"}
    OBVIOUS
  <2> QED
    BY <1>1, <2>1, <2>2, EntryFrame
<1> QED
  BY <1>2, <1>3 DEF ClickReady

LEMMA EntryClose ==
  ASSUME TypeOK, LoginInv, EntryInv, NEW c \in Client, NEW r \in Room, Close(c, r)
  PROVE  EntryInv'
<1> DEFINE p == [type |-> "ROOM_LEAVED", id |-> battleId[c]]
<1>1. \A e \in Client :
        /\ scene'[e] = IF e = c THEN "closed" ELSE scene[e]
        /\ battleId'[e] = IF e = c THEN NoId ELSE battleId[e]
  BY DEF Close, TypeOK
<1>2. UNCHANGED <<knows, matching, hasty>>
  BY DEF Close, lobbyVars
<1>3. p \in BattlePacket /\ p.type = "ROOM_LEAVED" /\ p.id = battleId[c]
  BY PacketType DEF Close, In, TypeOK
<1> HIDE DEF p
<1>4. \A e \in Client :
        \/ e = c /\ battleQ'[e] = <<>>
        \/ e # c /\ battleQ'[e] = battleQ[e]
        \/ e # c /\ battleQ'[e] = Append(battleQ[e], p) /\ battleId[e] # battleId[c]
  BY CloseEffect DEF p
<1>5. Stays(<<>>, NoId)
  BY EmptySeq DEF Stays
<1>6. ASSUME NEW q \in Seq(BattlePacket), NEW id, id # battleId[c]
      PROVE  /\ Answers(q, id) => Answers(Append(q, p), id)
             /\ Stays(q, id) => Stays(Append(q, p), id)
  <2>1. /\ Append(q, p)[Len(q) + 1] = p
        /\ \A k \in 1..Len(q) : Append(q, p)[k] = q[k]
        /\ \A k : k \in 1..Len(Append(q, p)) <=> k \in 1..Len(q) \/ k = Len(q) + 1
    BY <1>3, AppendQueue
  <2> QED
    BY <1>3, <1>6, <2>1 DEF Answers, Stays
<1>7. ASSUME NEW e \in Client, e # c
      PROVE  /\ Answers(battleQ[e], battleId[e]) => Answers(battleQ'[e], battleId[e])
             /\ Stays(battleQ'[e], battleId[e])
  <2>1. battleQ[e] \in Seq(BattlePacket) /\ Stays(battleQ[e], battleId[e])
    BY DEF TypeOK, EntryInv
  <2> QED
    BY <1>4, <1>6, <1>7, <2>1
<1> QED
  BY <1>1, <1>2, <1>4, <1>5, <1>7 DEF EntryInv, Runs

LEMMA EntryNext ==
  ASSUME TypeOK, TypeOK', LoginInv, MatchInv, EntryInv, [Next]_vars PROVE EntryInv'
<1>1. ASSUME UNCHANGED <<battleQ, battleId, knows, matching, hasty, scene>>
      PROVE  EntryInv'
  BY <1>1 DEF EntryInv, Runs
<1>2. ASSUME NEW c \in Client, User(c) \/ Network(c) PROVE EntryInv'
  BY <1>1, <1>2, EntryClickStart, EntryUserInfo, EntryFindRoom, EntryTakes, EntryReady,
     EntryClose, GoesSteps, EntryLeft
  DEF User, Network, Takes, ClickLogin, LobbyLoginOK, lobbyVars
<1> QED
  BY <1>1, <1>2 DEF Next, Pair, vars, queueVars, lobbyVars

(* A client crashes at LC_FIND_ROOM only when its player pressed start      *)
(* before the battle server had answered the log-in: whatever the two       *)
(* connections deliver in between, the client's own entry is not forgotten. *)
THEOREM CrashOnlyIfHastyCorrect == Spec => []CrashOnlyIfHasty
<1> DEFINE Inv == TypeOK /\ LoginInv /\ MatchInv /\ EntryInv
<1>1. Init => Inv
  BY InitType, LoginInit, MatchInit, EntryInit
<1>2. TypeOK' /\ Inv /\ [Next]_vars => Inv'
  BY LoginNext, MatchNext, EntryNext
<1>3. Inv => CrashOnlyIfHasty
  BY DEF EntryInv, CrashOnlyIfHasty
<1> QED
  BY <1>1, <1>2, <1>3, TypeCorrect, PTL DEF Spec

-----------------------------------------------------------------------------
(* ShownInv.                                                                *)
LEMMA ShownInit == Init => ShownInv
BY EmptyQueue DEF Init, ShownInv, ClientShown, RoomShown, Shown, In, Slot

(* The room keeps its players: nothing is announced, the lobby's packets    *)
(* only become fewer.                                                       *)
LEMMA ShownFrame ==
  ASSUME ShownInv, UNCHANGED <<slot, battleId, match, ready, started, scene>>,
         \A c \in Client : /\ Has(battleQ'[c], Entering) <=> Has(battleQ[c], Entering)
                           /\ Has(battleQ'[c], Starting) <=> Has(battleQ[c], Starting)
                           /\ Has(battleQ'[c], Leaving) <=> Has(battleQ[c], Leaving)
                           /\ Has(lobbyQ'[c], Finding) => Has(lobbyQ[c], Finding)
  PROVE  ShownInv'
<1>1. \A c \in Client, r \in Room : In(c, r)' <=> In(c, r)
  BY DEF In, Players
<1>2. \A r \in Room : Complete(r) => Complete(r)'
  BY DEF Complete, Pending
<1>3. ASSUME NEW c \in Client PROVE ClientShown(c)'
  <2>1. Invited(c)' <=> Invited(c)
    BY <1>1 DEF Invited
  <2>2. Alone(c) => Alone(c)'
    BY <1>1, <1>2 DEF Alone, Vacant
  <2>3. ClientShown(c)
    BY DEF ShownInv
  <2> QED
    BY <1>1, <2>1, <2>2, <2>3 DEF ClientShown, Shown
<1>4. ASSUME NEW r \in Room PROVE RoomShown(r)'
  BY <1>2 DEF ShownInv, RoomShown
<1> QED
  BY <1>3, <1>4 DEF ShownInv

LEMMA ShownLobby ==
  ASSUME TypeOK, ShownInv, NEW c \in Client,
         ClickLogin(c) \/ ClickStart(c) \/ LobbyLoginOK(c)
  PROVE  ShownInv'
<1>1. UNCHANGED <<slot, battleId, match, ready, started, scene, battleQ>>
  BY DEF ClickLogin, ClickStart, LobbyLoginOK, queueVars, lobbyVars, roomVars
<1>2. ASSUME NEW p \in LobbyPacket, p.type \notin Finding,
             \/ lobbyQ' = [lobbyQ EXCEPT ![c] = Append(@, p)]
             \/ lobbyQ[c] # <<>> /\ lobbyQ' = [lobbyQ EXCEPT ![c] = Append(Tail(@), p)]
      PROVE  \A e \in Client : Has(lobbyQ'[e], Finding) => Has(lobbyQ[e], Finding)
  BY <1>2, MatchQueue
<1>3. \A t \in LoggingIn : [type |-> t] \in LobbyPacket /\ [type |-> t].type \notin Finding
  BY PacketType DEF LoggingIn, Finding
<1>4. \A e \in Client : Has(lobbyQ'[e], Finding) => Has(lobbyQ[e], Finding)
  <2>1. CASE ClickLogin(c)
    <3>1. lobbyQ' = [lobbyQ EXCEPT ![c] = Append(@, [type |-> "LOGIN_OK"])]
      BY <2>1 DEF ClickLogin
    <3>2. "LOGIN_OK" \in LoggingIn
      BY DEF LoggingIn
    <3> QED
      BY <1>2, <1>3, <3>1, <3>2
  <2>2. CASE ClickStart(c)
    BY <2>2 DEF ClickStart, queueVars
  <2>3. CASE LobbyLoginOK(c)
    <3>1. /\ lobbyQ[c] # <<>>
          /\ lobbyQ' = [lobbyQ EXCEPT ![c] = Append(Tail(@), [type |-> "USERINFO"])]
      BY <2>3 DEF LobbyLoginOK
    <3>2. "USERINFO" \in LoggingIn
      BY DEF LoggingIn
    <3> QED
      BY <1>2, <1>3, <3>1, <3>2
  <2> QED
    BY <2>1, <2>2, <2>3
<1> QED
  BY <1>1, <1>4, ShownFrame

LEMMA ShownPair ==
  ASSUME TypeOK, MatchInv, ShownInv, NEW c \in Client, NEW d \in Client,
         NEW r \in Room, Pair(c, d, r)
  PROVE  ShownInv'
<1>1. /\ \A e \in Client :
           /\ match'[e] = IF e \in {c, d} THEN r ELSE match[e]
           /\ e \notin {c, d} => lobbyQ'[e] = lobbyQ[e]
      /\ UNCHANGED <<slot, battleId, ready, started, scene, battleQ>>
      /\ \A e \in Client : match[e] # r
  BY DEF Pair, roomVars
<1>2. \A e \in {c, d} : match[e] = 0
  BY DEF Pair, MatchInv
<1>3. \A q \in Room : q # 0
  BY RoomAssumption
<1>4. \A e \in Client, q \in Room : In(e, q)' <=> In(e, q)
  BY <1>1 DEF In, Players
<1>5. \A q \in Room : q # r /\ Complete(q) => Complete(q)'
  BY <1>1 DEF Complete, Pending
<1>6. \A e \in Client : ~In(e, r)
  BY <1>1 DEF MatchInv
<1>7. \A i \in Slot : slot[r][i] = NoId
  BY <1>6, InSlot DEF MatchInv
<1>8. ~started[r]
  BY <1>1 DEF ShownInv, RoomShown
<1>9. ASSUME NEW e \in Client PROVE ClientShown(e)'
  <2>1. Invited(e)' <=> Invited(e)
    BY <1>1, <1>4 DEF Invited
  <2>2. Alone(e) => Alone(e)'
    BY <1>1, <1>4, <1>5, <1>6 DEF Alone, Vacant
  <2>3. ClientShown(e)
    BY DEF ShownInv
  <2> QED
    BY <1>1, <1>4, <2>1, <2>2, <2>3 DEF ClientShown, Shown
<1>10. ASSUME NEW q \in Room PROVE RoomShown(q)'
  <2>1. RoomShown(q)
    BY DEF ShownInv
  <2>2. CASE q = r
    BY <1>1, <1>7, <1>8, <2>1, <2>2 DEF RoomShown, Slot
  <2>3. CASE q # r
    <3>1. \A e \in Client : match[e] = q => match'[e] = q
      BY <1>1, <1>2, <1>3
    <3> QED
      BY <1>1, <1>5, <2>1, <2>3, <3>1 DEF RoomShown
  <2> QED
    BY <2>2, <2>3
<1> QED
  BY <1>9, <1>10 DEF ShownInv

(* A client that is given an id: the rooms and what the others know stay.   *)
LEMMA ShownNewId ==
  ASSUME TypeOK, MatchInv, ShownInv, NEW c \in Client, NEW id,
         battleId' = [battleId EXCEPT ![c] = id],
         UNCHANGED <<slot, match, ready, started>>,
         \A e \in Client : Has(lobbyQ'[e], Finding) => Has(lobbyQ[e], Finding),
         \A e \in Client : e # c => scene'[e] = scene[e] /\ battleQ'[e] = battleQ[e],
         \A r \in Room : ~In(c, r),
         \A r \in Room, i \in Slot : slot[r][i] = NoId \/ slot[r][i] # id,
         ~Shown(c)', \A T \in {Entering, Starting, Leaving} : ~Has(battleQ'[c], T)
  PROVE  ShownInv'
<1>1. \A e \in Client : battleId'[e] = IF e = c THEN id ELSE battleId[e]
  BY DEF TypeOK
<1>2. \A e \in Client, r \in Room : In(e, r)' <=> e # c /\ In(e, r)
  BY <1>1 DEF In, Players
<1>3. \A r \in Room : Complete(r) => Complete(r)'
  BY DEF Complete, Pending
<1>4. ASSUME NEW e \in Client PROVE ClientShown(e)'
  <2>1. CASE e = c
    BY <1>2, <2>1 DEF ClientShown
  <2>2. CASE e # c
    <3>1. Invited(e) => Invited(e)'
      BY <1>1, <1>2, <2>2 DEF Invited
    <3>2. Alone(e) => Alone(e)'
      BY <1>2, <1>3, <2>2 DEF Alone, Vacant
    <3>3. ClientShown(e)
      BY DEF ShownInv
    <3> QED
      BY <1>2, <2>2, <3>1, <3>2, <3>3 DEF ClientShown, Shown
  <2> QED
    BY <2>1, <2>2
<1>5. ASSUME NEW r \in Room PROVE RoomShown(r)'
  BY <1>3 DEF ShownInv, RoomShown
<1> QED
  BY <1>4, <1>5 DEF ShownInv

LEMMA ShownUserInfo ==
  ASSUME TypeOK, LoginInv, MatchInv, ShownInv, NEW c \in Client, UserInfo(c)
  PROVE  ShownInv'
<1>1. battleId[c] = NoId /\ battleQ[c] = <<>>
  BY FreshId
<1>2. PICK id \in Id :
        /\ \A e \in Client : battleId[e] # id
        /\ battleId' = [battleId EXCEPT ![c] = id]
        /\ battleQ' = [battleQ EXCEPT ![c] = Append(@, [type |-> "LOGIN_OK", id |-> id])]
  BY FreshId
<1>3. \A r \in Room, i \in Slot : slot[r][i] = NoId \/ slot[r][i] # id
  BY <1>2 DEF MatchInv
<1>4. \A r \in Room : ~In(c, r)
  BY <1>1 DEF In
<1>5. ~Shown(c)
  <2>1. ~Invited(c)
    BY <1>1, <1>4 DEF Invited, NoId
  <2> QED
    BY <2>1 DEF ShownInv, ClientShown
<1>6. \A e \in Client : Has(lobbyQ'[e], Finding) => Has(lobbyQ[e], Finding)
  <2>1. /\ lobbyQ[c] # <<>> /\ lobbyQ' = [lobbyQ EXCEPT ![c] = Tail(@)]
        /\ [type |-> "USERINFO"] \in LobbyPacket
        /\ [type |-> "USERINFO"].type \notin Finding
    BY PacketType DEF UserInfo, LoggingIn, Finding
  <2> QED
    BY <2>1, MatchQueue
<1>7. ASSUME NEW T \in {Entering, Starting, Leaving} PROVE ~Has(battleQ'[c], T)
  <2> DEFINE p == [type |-> "LOGIN_OK", id |-> id]
  <2>1. p \in BattlePacket /\ p.type \notin T /\ battleQ'[c] = Append(battleQ[c], p)
    BY <1>2, PacketType DEF TypeOK, Entering, Starting, Leaving
  <2>2. battleQ[c] \in Seq(BattlePacket)
    BY DEF TypeOK
  <2> HIDE DEF p
  <2>3. Has(Append(battleQ[c], p), T) <=> Has(battleQ[c], T) \/ p.type \in T
    BY <2>1, <2>2, AppendHas
  <2>4. ~Has(battleQ[c], T)
    BY <1>1, EmptyQueue
  <2> QED
    BY <2>1, <2>3, <2>4
<1>8. UNCHANGED <<slot, match, ready, started, scene>>
  BY DEF UserInfo, lobbyVars, roomVars
<1>9. \A e \in Client : e # c => scene'[e] = scene[e] /\ battleQ'[e] = battleQ[e]
  BY <1>2, <1>8 DEF TypeOK
<1>10. ~Shown(c)'
  BY <1>5, <1>8 DEF Shown
<1> QED
  BY <1>2, <1>3, <1>4, <1>6, <1>7, <1>8, <1>9, <1>10, ShownNewId

(* What the packets of an answer are not. *)
LEMMA GrowsShown ==
  ASSUME NEW q \in Seq(BattlePacket), NEW z \in Seq(BattlePacket), NEW T, Grows(q, z, T)
  PROVE  /\ Has(q, Entering) => Has(z, Entering)
         /\ "ROOM_ENTERED" \notin T => (Has(z, Entering) <=> Has(q, Entering))
         /\ "ROOM_START" \notin T => (Has(z, Starting) <=> Has(q, Starting))
         /\ "ROOM_LEAVED" \notin T => (Has(z, Leaving) <=> Has(q, Leaving))
<1>1. Len(q) \in Nat /\ Len(z) \in Nat
  BY LenProperties
<1>2. ASSUME NEW S, Has(q, S) PROVE Has(z, S)
  <2>1. PICK k \in 1..Len(q) : q[k].type \in S
    BY <1>2 DEF Has
  <2>2. k \in 1..Len(z) /\ z[k] = q[k]
    BY <1>1 DEF Grows
  <2> QED
    BY <2>1, <2>2 DEF Has
<1>3. ASSUME NEW t, t \notin T, Has(z, {t}) PROVE Has(q, {t})
  <2>1. PICK k \in 1..Len(z) : z[k].type = t
    BY <1>3 DEF Has
  <2>2. k \in 1..Len(q) /\ z[k] = q[k]
    BY <1>3, <2>1 DEF Grows
  <2> QED
    BY <2>1, <2>2 DEF Has
<1>4. /\ Has(q, {"ROOM_START"}) => Has(z, {"ROOM_START"})
      /\ Has(q, {"ROOM_LEAVED"}) => Has(z, {"ROOM_LEAVED"})
      /\ Has(q, {"ROOM_ENTERED"}) => Has(z, {"ROOM_ENTERED"})
  BY <1>2
<1> QED
  BY <1>3, <1>4 DEF Entering, Starting, Leaving

(* A player joins a room: the others' packets are at most the announcement, *)
(* which only the two it looks for get.                                     *)
LEMMA JoinTells ==
  ASSUME TypeOK, TypeOK', NEW id \in Id, NEW i \in Slot, Announce(id, i), NEW e \in Client
  PROVE  /\ Has(battleQ'[e], Starting) <=> Has(battleQ[e], Starting)
         /\ Has(battleQ'[e], Leaving) <=> Has(battleQ[e], Leaving)
         /\ Has(battleQ'[e], Entering) <=>
              Has(battleQ[e], Entering) \/ (Runs(e) /\ battleId[e] \in Told(id, i))
<1> DEFINE tells == Runs(e) /\ battleId[e] \in Told(id, i)
           p == Entered(id, battleId[e])
           j == [type |-> "JOIN_OK"]
           q == IF tells THEN Append(battleQ[e], p) ELSE battleQ[e]
<1>1. /\ p \in BattlePacket /\ j \in BattlePacket /\ battleQ[e] \in Seq(BattlePacket)
      /\ p.type = "ROOM_ENTERED" /\ j.type = "JOIN_OK"
  BY IdType, PacketType DEF Entered, TypeOK
<1>2. battleQ'[e] = IF battleId[e] = id THEN Append(q, j) ELSE q
  BY AnnounceEffect
<1> HIDE DEF tells, p, j
<1>3. q \in Seq(BattlePacket)
  BY <1>1, AppendProperties
<1>4. ASSUME NEW T
      PROVE  /\ Has(Append(battleQ[e], p), T) <=> Has(battleQ[e], T) \/ "ROOM_ENTERED" \in T
             /\ Has(Append(q, j), T) <=> Has(q, T) \/ "JOIN_OK" \in T
  <2>1. Has(Append(battleQ[e], p), T) <=> Has(battleQ[e], T) \/ p.type \in T
    BY <1>1, AppendHas
  <2> HIDE DEF q
  <2>2. Has(Append(q, j), T) <=> Has(q, T) \/ j.type \in T
    BY <1>1, <1>3, AppendHas
  <2> QED
    BY <1>1, <2>1, <2>2
<1>5. ASSUME NEW T, "JOIN_OK" \notin T
      PROVE  Has(battleQ'[e], T) <=> Has(battleQ[e], T) \/ (tells /\ "ROOM_ENTERED" \in T)
  BY <1>2, <1>4, <1>5
<1> QED
  BY <1>5 DEF tells, Entering, Starting, Leaving

LEMMA ShownJoin ==
  ASSUME TypeOK, TypeOK', LoginInv, MatchInv, ShownInv, NEW c \in Client, FindRoom(c),
         HasEntry(c), NEW r \in Room, NEW i \in Slot, NEW id \in Id,
         r = match[c], id = battleId[c],
         i = 1 => slot[r][0] # NoId, Seated(r, i, id),
         Announce(id, i), UNCHANGED <<ready, started>>
  PROVE  ShownInv'
<1>1. /\ Has(lobbyQ[c], Finding) /\ ~Has(Tail(lobbyQ[c]), Finding)
      /\ r \in Room
      /\ \A q \in Room : ~In(c, q)
      /\ \A q \in Room, j \in Slot : slot[q][j] = NoId \/ slot[q][j] # id
  BY NotYetIn
<1>2. /\ i \in Slot /\ (i = 1 => slot[r][0] # NoId)
      /\ \A q \in Room, j \in Slot :
           slot'[q][j] = IF q = r /\ j = i THEN id ELSE slot[q][j]
  BY DEF Seated
<1>3. /\ \A e \in Client : lobbyQ'[e] = IF e = c THEN Tail(lobbyQ[c]) ELSE lobbyQ[e]
      /\ UNCHANGED <<battleId, match, scene>> /\ Runs(c)
  <2>1. /\ lobbyQ' = [lobbyQ EXCEPT ![c] = Tail(@)]
        /\ UNCHANGED <<battleId, match, scene>> /\ Runs(c)
    BY DEF FindRoom, lobbyVars
  <2> QED
    BY <2>1 DEF TypeOK
<1>4. id \in Id /\ id # NoId
  BY IdType
<1>5. \A e \in Client :
        /\ Has(battleQ'[e], Starting) <=> Has(battleQ[e], Starting)
        /\ Has(battleQ'[e], Leaving) <=> Has(battleQ[e], Leaving)
        /\ Has(battleQ'[e], Entering) <=>
             Has(battleQ[e], Entering) \/ (Runs(e) /\ battleId[e] \in Told(id, i))
  BY <1>2, <1>4, JoinTells
<1>6. Pending(c, r)
  BY <1>1 DEF Pending
<1>7. ~Complete(r) /\ slot[r][1] = NoId /\ ~started[r]
  <2>1. ~Complete(r)
    BY <1>6 DEF Complete
  <2> QED
    BY <2>1 DEF ShownInv, RoomShown
<1>8. /\ \A e \in Client, q \in Room : q # r => (In(e, q)' <=> In(e, q))
      /\ \A e \in Client : In(e, r)' => In(e, r) \/ e = c
      /\ In(c, r)'
  BY <1>1, <1>2, <1>3, <1>4 DEF In, Players, LoginInv
<1>9. \A q \in Room : Complete(q) => Complete(q)'
  BY <1>1, <1>3 DEF Complete, Pending
<1>10. slot[r][0] # NoId => Complete(r)'
  <2> SUFFICES ASSUME slot[r][0] # NoId, NEW e \in Client, Pending(e, r)'
               PROVE  FALSE
    BY DEF Complete
  <2>1. PICK d \in Client : battleId[d] = slot[r][0]
    BY <1>1 DEF MatchInv, Slot
  <2>2. In(d, r)
    BY <2>1, InSlot, <1>1 DEF Slot
  <2>3. match[d] = r /\ ~Has(lobbyQ[d], Finding) /\ d # c
    BY <1>1, <2>2 DEF MatchInv
  <2>4. e # c /\ e # d /\ match[e] = r
    BY <1>1, <1>3, <2>3 DEF Pending
  <2> QED
    BY <1>1, <2>3, <2>4, RoomAssumption DEF MatchInv
<1>11. ASSUME NEW e \in Client PROVE ClientShown(e)'
  <2>1. ClientShown(e)
    BY DEF ShownInv
  <2>2. Invited(e) => Invited(e)'
    <3>1. \A q \in Room : slot[q][1] = battleId[e] /\ In(e, q) => q # r
      BY <1>7 DEF In
    <3> QED
      BY <1>2, <1>3, <1>8, <3>1 DEF Invited, Slot
  <2>3. Alone(e) => Alone(e)'
    <3>1. \A q \in Room : Complete(q) => q # r
      BY <1>7
    <3>2. \A q \in Room : q # r /\ Vacant(q) => Vacant(q)'
      BY <1>2 DEF Vacant
    <3> QED
      BY <1>8, <1>9, <3>1, <3>2 DEF Alone
  <2>4. battleId[e] \in Told(id, i) => Invited(e)'
    <3> SUFFICES ASSUME i = 1, battleId[e] = id PROVE Invited(e)'
      BY <1>3 DEF Told, Invited
    <3>1. e = c
      BY <1>4 DEF LoginInv
    <3> QED
      BY <1>1, <1>2, <1>3, <1>8, <3>1 DEF Invited, Slot
  <2>5. ASSUME NEW q \in Room, In(e, q)', slot'[q][0] = 1, slot'[q][1] # NoId
        PROVE  Shown(e)' \/ Has(battleQ'[e], Entering)
    <3>1. CASE q # r
      BY <1>2, <1>3, <1>5, <1>8, <2>1, <2>5, <3>1 DEF ClientShown, Shown, Slot
    <3>2. CASE q = r
      <4>1. i = 1 /\ slot[r][0] = 1
        BY <1>1, <1>2, <1>7, <2>5, <3>2 DEF Slot
      <4>2. id # 1
        BY <1>1, <4>1 DEF Slot, NoId
      <4>3. battleId[e] \in {1, id} /\ battleId[e] # NoId
        BY <1>2, <1>3, <2>5, <3>2, <4>1 DEF In, Players, Slot
      <4>4. Runs(e)
        BY <4>3 DEF LoginInv
      <4> QED
        BY <1>5, <4>1, <4>2, <4>3, <4>4 DEF Told
    <3> QED
      BY <3>1, <3>2
  <2>6. Has(battleQ'[e], Starting) => \E q \in Room : In(e, q)' /\ started'[q]
    BY <1>5, <1>7, <1>8, <2>1 DEF ClientShown
  <2>7. Shown(e)' <=> Shown(e)
    BY <1>3 DEF Shown
  <2> QED
    BY <1>5, <2>1, <2>2, <2>3, <2>4, <2>5, <2>6, <2>7 DEF ClientShown
<1>12. ASSUME NEW q \in Room PROVE RoomShown(q)'
  <2>1. RoomShown(q)
    BY DEF ShownInv
  <2>2. CASE q # r
    BY <1>2, <1>3, <1>9, <2>1, <2>2 DEF RoomShown, Slot
  <2>3. CASE q = r
    <3>1. /\ ~ready[r][1] /\ (ready[r][0] => slot[r][0] = 1)
          /\ match'[c] = r
      BY <1>3, <1>7, <2>1, <2>3 DEF RoomShown, NoId
    <3>2. CASE i = 1
      BY <1>2, <1>7, <1>10, <2>3, <3>1, <3>2 DEF RoomShown, Slot
    <3>3. CASE i = 0
      <4>1. slot'[r][1] = NoId
        BY <1>2, <1>7, <3>3 DEF Slot
      <4>2. ready[r][0] => Complete(r)'
        BY <1>10, <3>1, IdType DEF NoId
      <4> QED
        BY <1>7, <2>3, <3>1, <4>1, <4>2 DEF RoomShown
    <3> QED
      BY <3>2, <3>3 DEF Slot
  <2> QED
    BY <2>2, <2>3
<1> QED
  BY <1>11, <1>12 DEF ShownInv

(* A client on its way into a room ends: nobody knows yet of the one who    *)
(* may lose the room with it.                                               *)
LEMMA ShownLeft ==
  ASSUME TypeOK, TypeOK', LoginInv, MatchInv, ShownInv, NEW c \in Client, Goes(c)
  PROVE  ShownInv'
<1>1. /\ match[c] \in Room /\ Has(lobbyQ[c], Finding)
      /\ \A r \in Room : ~In(c, r)
      /\ \A r \in Room, i \in Slot : slot[r][i] = NoId \/ slot[r][i] # battleId[c]
  BY PendingOut DEF Goes
<1>2. /\ \A e \in Client :
           /\ lobbyQ'[e] = IF e = c THEN <<>> ELSE lobbyQ[e]
           /\ battleQ'[e] = IF e = c THEN <<>> ELSE battleQ[e]
           /\ battleId'[e] = IF e = c THEN NoId ELSE battleId[e]
           /\ scene'[e] = scene[e] \/ (e = c /\ scene'[c] \in {"closed", "crashed"})
      /\ scene'[c] \in {"closed", "crashed"}
      /\ UNCHANGED <<match, started>>
      /\ \A r \in Room :
           \/ slot'[r] = slot[r] /\ ready'[r] = ready[r]
           \/ /\ r = match[c]
              /\ \A i \in Slot : slot'[r][i] = NoId /\ ~ready'[r][i]
  BY GoesEffect DEF lobbyVars
<1>3. /\ ~Complete(match[c]) /\ slot[match[c]][1] = NoId /\ ~started[match[c]]
  <2>1. Pending(c, match[c])
    BY <1>1 DEF Pending
  <2>2. ~Complete(match[c])
    BY <2>1 DEF Complete
  <2> QED
    BY <1>1, <2>2 DEF ShownInv, RoomShown
<1>4. \A r \in Room : r # match[c] => slot'[r] = slot[r] /\ ready'[r] = ready[r]
  BY <1>2
<1>5. \A e \in Client, r \in Room : In(e, r)' => In(e, r) /\ e # c /\ slot'[r] = slot[r]
  BY <1>1, <1>2 DEF In, Players
<1>6. \A e \in Client, r \in Room : r # match[c] /\ e # c => (In(e, r) => In(e, r)')
  BY <1>2, <1>4 DEF In, Players
<1>7. \A r \in Room : Complete(r) => r # match[c] /\ Complete(r)'
  BY <1>2, <1>3, EmptyQueue DEF Complete, Pending
<1>8. ASSUME NEW e \in Client PROVE ClientShown(e)'
  <2>1. CASE e = c
    <3>1. ~Shown(c)' /\ battleQ'[c] = <<>>
      BY <1>2 DEF Shown
    <3>2. \A q \in Room : ~In(c, q)'
      BY <1>5
    <3> QED
      BY <2>1, <3>1, <3>2, EmptyQueue DEF ClientShown
  <2>2. CASE e # c
    <3>1. ClientShown(e)
      BY DEF ShownInv
    <3>2. Invited(e) => Invited(e)'
      <4>1. CASE battleId[e] = 1
        BY <1>2, <2>2, <4>1 DEF Invited
      <4>2. ASSUME NEW q \in Room, slot[q][1] = battleId[e], In(e, q) PROVE Invited(e)'
        <5>1. q # match[c]
          BY <1>3, <4>2 DEF In
        <5> QED
          BY <1>2, <1>4, <1>6, <2>2, <4>2, <5>1 DEF Invited
      <4> QED
        BY <4>1, <4>2 DEF Invited
    <3>3. Alone(e) => Alone(e)'
      <4> SUFFICES ASSUME NEW q \in Room, In(e, q), Vacant(q), Complete(q) PROVE Alone(e)'
        BY DEF Alone
      <4>1. In(e, q)' /\ Complete(q)' /\ slot'[q] = slot[q]
        BY <1>4, <1>6, <1>7, <2>2
      <4> QED
        BY <4>1 DEF Alone, Vacant
    <3>4. \A q \in Room : In(e, q) /\ started[q] => In(e, q)' /\ started'[q]
      BY <1>2, <1>3, <1>6, <2>2
    <3>5. battleQ'[e] = battleQ[e] /\ (Shown(e)' <=> Shown(e))
      BY <1>2, <2>2 DEF Shown
    <3> QED
      BY <1>5, <3>1, <3>2, <3>3, <3>4, <3>5 DEF ClientShown
  <2> QED
    BY <2>1, <2>2
<1>9. ASSUME NEW r \in Room PROVE RoomShown(r)'
  <2>1. RoomShown(r)
    BY DEF ShownInv
  <2>2. CASE slot'[r] = slot[r] /\ ready'[r] = ready[r]
    BY <1>2, <1>7, <2>1, <2>2 DEF RoomShown
  <2>3. CASE r = match[c] /\ \A i \in Slot : slot'[r][i] = NoId /\ ~ready'[r][i]
    BY <1>2, <1>3, <2>3 DEF RoomShown, Slot
  <2> QED
    BY <1>2, <2>2, <2>3
<1> QED
  BY <1>8, <1>9 DEF ShownInv

LEMMA ShownFindRoom ==
  ASSUME TypeOK, TypeOK', LoginInv, MatchInv, ShownInv, NEW c \in Client, FindRoom(c)
  PROVE  ShownInv'
<1>1. /\ Head(lobbyQ[c]).room = match[c] /\ match[c] \in Room
      /\ \A r \in Room : ~In(c, r)
      /\ lobbyQ[c] # <<>> /\ UNCHANGED match
  BY NotYetIn DEF FindRoom, lobbyVars
<1>2. CASE HasEntry(c)
  <2>1. /\ UNCHANGED <<battleId, scene>>
        /\ lobbyQ' = [lobbyQ EXCEPT ![c] = Tail(@)]
        /\ Join(battleId[c], match[c]) /\ battleId[c] \in Id
    BY <1>1, <1>2 DEF FindRoom, HasEntry, TypeOK
  <2>2. UNCHANGED <<ready, started>>
    BY <2>1 DEF Join, roomVars
  <2>3. \A e \in Client : Has(lobbyQ'[e], Finding) => Has(lobbyQ[e], Finding)
    <3>1. /\ [type |-> "USERINFO"] \in LobbyPacket
          /\ [type |-> "USERINFO"].type \notin Finding
      BY PacketType DEF LoggingIn, Finding
    <3> QED
      BY <1>1, <2>1, <3>1, MatchQueue
  <2>4. CASE UNCHANGED <<battleQ, slot>>
    BY <1>1, <2>1, <2>2, <2>3, <2>4, ShownFrame
  <2>5. CASE UNCHANGED slot /\ battleQ' = To(battleQ, {battleId[c]}, [type |-> "JOIN_FAIL"])
    <3> DEFINE T == {"JOIN_FAIL"}
               p == [type |-> "JOIN_FAIL"]
    <3>1. p \in BattlePacket /\ p.type \in T /\ battleQ \in [Client -> Seq(BattlePacket)]
      BY PacketType DEF TypeOK
    <3>2. battleQ' = To(battleQ, {battleId[c]}, p)
      BY <2>5
    <3>3. "ROOM_ENTERED" \notin T /\ "ROOM_START" \notin T /\ "ROOM_LEAVED" \notin T
      OBVIOUS
    <3> HIDE DEF T, p
    <3>4. \A e \in Client : Grows(battleQ[e], battleQ'[e], T)
      BY <3>1, <3>2, ToGrows
    <3>5. \A e \in Client : battleQ[e] \in Seq(BattlePacket) /\ battleQ'[e] \in Seq(BattlePacket)
      BY DEF TypeOK
    <3>6. \A e \in Client :
            /\ Has(battleQ'[e], Entering) <=> Has(battleQ[e], Entering)
            /\ Has(battleQ'[e], Starting) <=> Has(battleQ[e], Starting)
            /\ Has(battleQ'[e], Leaving) <=> Has(battleQ[e], Leaving)
      BY <3>3, <3>4, <3>5, GrowsShown
    <3> QED
      BY <1>1, <2>1, <2>2, <2>3, <2>5, <3>6, ShownFrame
  <2>6. ASSUME NEW i \in EntersAt(match[c]), Vacant(match[c]),
               slot' = [slot EXCEPT ![match[c]][i] = battleId[c]],
               Announce(battleId[c], i)
        PROVE  ShownInv'
    <3> DEFINE r  == match[c]
               id == battleId[c]
    <3>1. i \in Slot /\ (i = 1 => slot[r][0] # NoId) /\ Seated(r, i, id)
      BY <1>1, <2>6, NewPlayer
    <3>2. /\ r \in Room /\ id \in Id /\ r = match[c] /\ id = battleId[c]
          /\ Announce(id, i)
      BY <1>1, <2>1, <2>6
    <3> HIDE DEF r, id
    <3> QED
      BY <1>2, <2>2, <3>1, <3>2, ShownJoin
  <2> QED
    BY <1>1, <2>1, <2>4, <2>5, <2>6, JoinEffect
<1>3. CASE ~HasEntry(c)
  BY <1>3, GoesSteps, ShownLeft
<1> QED
  BY <1>2, <1>3

LEMMA ShownTakes ==
  ASSUME TypeOK, ShownInv, NEW c \in Client, Takes(c) PROVE ShownInv'
<1> DEFINE q == battleQ[c]
           p == Head(q)
           z == Tail(q)
<1>1. /\ q # <<>> /\ q \in Seq(BattlePacket)
      /\ \A e \in Client : battleQ'[e] = IF e = c THEN z ELSE battleQ[e]
      /\ UNCHANGED <<battleId, match, slot, ready, started, lobbyQ>>
  <2>1. /\ battleQ[c] # <<>> /\ battleQ[c] \in Seq(BattlePacket)
        /\ battleQ' = [battleQ EXCEPT ![c] = Tail(@)]
        /\ UNCHANGED <<battleId, match, slot, ready, started, lobbyQ>>
    BY TakesFrame DEF lobbyVars, roomVars
  <2> QED
    BY <2>1 DEF TypeOK
<1>2. scene' = [scene EXCEPT ![c] = IF p.type = "ROOM_ENTERED" THEN "matching"
                                    ELSE IF p.type = "ROOM_START" THEN "play" ELSE @]
  BY TakesEffect
<1> HIDE DEF p, z, q
<1>3. ASSUME NEW T
      PROVE  /\ Has(z, T) => Has(q, T)
             /\ Has(q, T) => p.type \in T \/ Has(z, T)
             /\ p.type \in T => Has(q, T)
  BY <1>1, TailHas DEF p, z
<1>4. \A e \in Client, r \in Room : In(e, r)' <=> In(e, r)
  BY <1>1 DEF In, Players
<1>5. \A r \in Room : Complete(r)' <=> Complete(r)
  BY <1>1 DEF Complete, Pending
<1>6. /\ Shown(c)' <=> Shown(c) \/ p.type \in Entering \/ p.type \in Starting
      /\ \A e \in Client : e # c => (Shown(e)' <=> Shown(e))
  BY <1>2 DEF Shown, Entering, Starting, TypeOK
<1>7. ASSUME NEW e \in Client PROVE ClientShown(e)'
  <2>1. ClientShown(e)
    BY DEF ShownInv
  <2>2. Invited(e)' <=> Invited(e)
    BY <1>1, <1>4 DEF Invited
  <2>3. Alone(e)' <=> Alone(e)
    BY <1>1, <1>4, <1>5 DEF Alone, Vacant
  <2>4. CASE e # c
    BY <1>1, <1>4, <1>6, <2>1, <2>2, <2>3, <2>4 DEF ClientShown
  <2>5. CASE e = c
    <3>1. battleQ[e] = q /\ battleQ'[e] = z
      BY <1>1, <2>5 DEF q
    <3>2. Shown(e)' \/ Has(battleQ'[e], Entering) \/ Has(battleQ'[e], Starting)
            => Invited(e)'
      BY <1>3, <1>6, <2>1, <2>2, <2>5, <3>1 DEF ClientShown
    <3>3. /\ Has(battleQ'[e], Leaving) => Alone(e)'
          /\ Has(battleQ'[e], Starting) => \E r \in Room : In(e, r)' /\ started'[r]
      BY <1>1, <1>3, <1>4, <2>1, <2>3, <3>1 DEF ClientShown
    <3>4. \A r \in Room : In(e, r)' /\ slot'[r][0] = 1 /\ slot'[r][1] # NoId
                          => Shown(e)' \/ Has(battleQ'[e], Entering)
      BY <1>1, <1>3, <1>4, <1>6, <2>1, <2>5, <3>1 DEF ClientShown
    <3> QED
      BY <3>2, <3>3, <3>4 DEF ClientShown
  <2> QED
    BY <2>4, <2>5
<1>8. ASSUME NEW r \in Room PROVE RoomShown(r)'
  BY <1>1, <1>5 DEF ShownInv, RoomShown
<1> QED
  BY <1>7, <1>8 DEF ShownInv

(* Whoever is shown the matching room and is ready there is client 1, or    *)
(* has come second: so when both are ready the first one is client 1.       *)
LEMMA ShownReady ==
  ASSUME TypeOK, TypeOK', LoginInv, MatchInv, ShownInv, NEW c \in Client,
         ClickReady(c), NEW r \in Room, ReadyInRoom(c, r)
  PROVE  ShownInv'
<1> DEFINE f == [k \in Slot |-> ready[r][k] \/ k \in Marks(c, r)]
           goes == Starts(f) /\ ~started[r]
<1>1. /\ UNCHANGED <<lobbyQ, match, battleId, scene, slot>>
      /\ scene[c] = "matching" /\ battleId[c] \in {1, 2} /\ In(c, r)
  BY DEF ClickReady, MayReady, ReadyInRoom, lobbyVars
<1>2. /\ \A k \in Slot : ready'[r][k] <=> ready[r][k] \/ slot[r][k] = battleId[c]
      /\ \A q \in Room : q # r => ready'[q] = ready[q] /\ started'[q] = started[q]
      /\ started'[r] <=> started[r] \/ goes
      /\ goes => \A k \in Slot : ready'[r][k]
  <2>1. ready' = [ready EXCEPT ![r] = f] /\ started' = [started EXCEPT ![r] = @ \/ goes]
    BY DEF ReadyInRoom
  <2>2. /\ ready'[r] = f
        /\ \A q \in Room : q # r => ready'[q] = ready[q] /\ started'[q] = started[q]
        /\ started'[r] = (started[r] \/ goes)
    BY <2>1 DEF TypeOK
  <2>3. \A k \in Slot : f[k] <=> ready[r][k] \/ slot[r][k] = battleId[c]
    BY DEF Marks
  <2>4. goes => \A k \in Slot : f[k]
    BY DEF Starts
  <2> HIDE DEF f, goes
  <2> QED
    BY <2>2, <2>3, <2>4
<1>3. ASSUME NEW e \in Client
      PROVE  /\ Has(battleQ'[e], Entering) <=> Has(battleQ[e], Entering)
             /\ Has(battleQ'[e], Leaving) <=> Has(battleQ[e], Leaving)
             /\ Has(battleQ'[e], Starting) =>
                  Has(battleQ[e], Starting) \/ (goes /\ battleId[e] \in Players(r))
  <2>1. battleQ[e] \in Seq(BattlePacket) /\ battleQ'[e] \in Seq(BattlePacket)
    BY DEF TypeOK
  <2>2. /\ Grows(battleQ[e], battleQ'[e], {"READY", "ROOM_START"})
        /\ battleId[e] \notin Players(r) => battleQ'[e] = battleQ[e]
        /\ ~goes => Grows(battleQ[e], battleQ'[e], {"READY"})
    BY ReadyGrows
  <2> HIDE DEF goes
  <2>3. \A T : Grows(battleQ[e], battleQ'[e], T) =>
          /\ "ROOM_ENTERED" \notin T => (Has(battleQ'[e], Entering) <=> Has(battleQ[e], Entering))
          /\ "ROOM_START" \notin T => (Has(battleQ'[e], Starting) <=> Has(battleQ[e], Starting))
          /\ "ROOM_LEAVED" \notin T => (Has(battleQ'[e], Leaving) <=> Has(battleQ[e], Leaving))
    BY <2>1, GrowsShown
  <2> QED
    BY <2>2, <2>3
<1> HIDE DEF goes
<1>4. \A e \in Client, q \in Room : In(e, q)' <=> In(e, q)
  BY <1>1 DEF In, Players
<1>5. \A q \in Room : Complete(q)' <=> Complete(q)
  BY <1>1 DEF Complete, Pending
<1>6. battleId[c] = 1 \/ slot[r][1] = battleId[c]
  <2>1. Invited(c)
    BY <1>1 DEF ShownInv, ClientShown, Shown
  <2> QED
    BY <1>1, <2>1 DEF Invited, MatchInv
<1>7. ready'[r][0] => \/ slot[r][0] = 1
                      \/ slot[r][1] = NoId /\ Complete(r) /\ \E e \in Client : match[e] = r
  BY <1>1, <1>2, <1>6 DEF ShownInv, RoomShown, MatchInv, Slot, NoId
<1>8. ready'[r][1] => slot[r][1] \in {1, 2}
  BY <1>1, <1>2 DEF ShownInv, RoomShown, Slot
<1>9. goes => slot[r][0] = 1 /\ slot[r][1] \in {1, 2}
  BY <1>2, <1>7, <1>8 DEF Slot, NoId
<1>10. ASSUME NEW e \in Client PROVE ClientShown(e)'
  <2>1. ClientShown(e)
    BY DEF ShownInv
  <2>2. Invited(e)' <=> Invited(e)
    BY <1>1, <1>4 DEF Invited
  <2>3. Alone(e)' <=> Alone(e)
    BY <1>1, <1>4, <1>5 DEF Alone, Vacant
  <2>4. Shown(e)' <=> Shown(e)
    BY <1>1 DEF Shown
  <2>5. ASSUME goes, battleId[e] \in Players(r) PROVE Invited(e) /\ In(e, r)
    <3>1. In(e, r)
      BY <2>5 DEF In, Players
    <3>2. battleId[e] = slot[r][0] \/ battleId[e] = slot[r][1]
      BY <2>5 DEF Players, Slot
    <3> QED
      BY <1>9, <2>5, <3>1, <3>2 DEF Invited
  <2>6. \A q \in Room : started[q] => started'[q]
    BY <1>2
  <2>7. goes => started'[r]
    BY <1>2
  <2>8. Has(battleQ'[e], Starting) =>
          Invited(e) /\ \E q \in Room : In(e, q)' /\ started'[q]
    BY <1>3, <1>4, <2>1, <2>5, <2>6, <2>7 DEF ClientShown
  <2> QED
    BY <1>1, <1>3, <1>4, <2>1, <2>2, <2>3, <2>4, <2>8 DEF ClientShown
<1>11. ASSUME NEW q \in Room PROVE RoomShown(q)'
  <2>1. RoomShown(q)
    BY DEF ShownInv
  <2>2. CASE q # r
    BY <1>1, <1>2, <1>5, <2>1, <2>2 DEF RoomShown
  <2>3. CASE q = r
    <3>1. match[c] = r
      BY <1>1 DEF MatchInv
    <3>2. goes => slot[r][1] # NoId
      BY <1>9 DEF NoId
    <3>3. started'[r] => /\ Complete(r)
                        /\ \A k \in Slot : slot[r][k] # NoId => ready'[r][k]
      BY <1>2, <2>1, <2>3, <3>2 DEF RoomShown
    <3> QED
      BY <1>1, <1>5, <1>7, <1>8, <2>1, <2>3, <3>1, <3>3 DEF RoomShown
  <2> QED
    BY <2>2, <2>3
<1> QED
  BY <1>10, <1>11 DEF ShownInv

LEMMA ShownClose ==
  ASSUME TypeOK, TypeOK', LoginInv, MatchInv, ShownInv, NEW c \in Client, NEW r \in Room,
         Close(c, r)
  PROVE  ShownInv'
<1> DEFINE p == [type |-> "ROOM_LEAVED", id |-> battleId[c]]
<1>1. /\ In(c, r) /\ battleId[c] # NoId
      /\ \A e \in Client :
           /\ scene'[e] = IF e = c THEN "closed" ELSE scene[e]
           /\ battleId'[e] = IF e = c THEN NoId ELSE battleId[e]
           /\ lobbyQ'[e] = IF e = c THEN <<>> ELSE lobbyQ[e]
      /\ UNCHANGED <<match, started>>
  BY DEF Close, In, TypeOK, lobbyVars
<1>2. \A q \in Room, j \in Slot :
        /\ slot'[q][j] = IF slot[q][j] = battleId[c] THEN NoId ELSE slot[q][j]
        /\ ready'[q][j] = IF slot[q][j] = battleId[c] THEN FALSE ELSE ready[q][j]
  BY CloseSlots
<1>3. \A e \in Client : e # c => battleId[e] # battleId[c]
  BY <1>1 DEF LoginInv
<1>4. ASSUME NEW e \in Client, NEW q \in Room PROVE In(e, q)' <=> e # c /\ In(e, q)
  <2>1. In(e, q)' <=> battleId'[e] # NoId /\ \E j \in Slot : slot'[q][j] = battleId'[e]
    BY DEF In, Players
  <2>2. CASE e = c
    BY <1>1, <2>1, <2>2
  <2>3. CASE e # c
    <3>1. \A j \in Slot : battleId[e] # NoId =>
            (slot'[q][j] = battleId[e] <=> slot[q][j] = battleId[e])
      BY <1>2, <1>3, <2>3
    <3> QED
      BY <1>1, <2>1, <2>3, <3>1, InSlot
  <2> QED
    BY <2>2, <2>3
<1>5. \A q \in Room : Complete(q) => Complete(q)'
  BY <1>1, EmptyQueue DEF Complete, Pending
<1>6. \A q \in Room, j \in Slot : slot'[q][j] = NoId \/ slot'[q][j] = slot[q][j]
  BY <1>2
<1>7. ASSUME NEW e \in Client, e # c
      PROVE  /\ Has(battleQ'[e], Entering) <=> Has(battleQ[e], Entering)
             /\ Has(battleQ'[e], Starting) <=> Has(battleQ[e], Starting)
             /\ Has(battleQ'[e], Leaving) => Has(battleQ[e], Leaving) \/ In(e, r)
  <2>1. battleQ[e] \in Seq(BattlePacket) /\ p \in BattlePacket /\ p.type = "ROOM_LEAVED"
    BY PacketType DEF Close, In, TypeOK
  <2>2. battleQ'[e] = IF Runs(e) /\ battleId[e] \in Players(r) \ {battleId[c]}
                      THEN Append(battleQ[e], p) ELSE battleQ[e]
    BY <1>7, CloseEffect
  <2> HIDE DEF p
  <2>3. \A T : Has(Append(battleQ[e], p), T) <=> Has(battleQ[e], T) \/ p.type \in T
    BY <2>1, AppendHas
  <2>4. battleId[e] \in Players(r) => In(e, r)
    BY DEF In, Players
  <2> QED
    BY <2>1, <2>2, <2>3, <2>4 DEF Entering, Starting
<1>8. ASSUME NEW e \in Client, e # c, In(e, r)
      PROVE  Vacant(r)' /\ Complete(r)'
  <2>1. PICK j \in Slot : slot[r][j] = battleId[c]
    BY <1>1, InSlot
  <2>2. Vacant(r)'
    BY <1>2, <2>1 DEF Vacant
  <2>3. /\ match[c] = r /\ match[e] = r
        /\ ~Has(lobbyQ[c], Finding) /\ ~Has(lobbyQ[e], Finding)
    BY <1>1, <1>8 DEF MatchInv
  <2>4. \A x \in Client : match[x] = r => x = c \/ x = e
    BY <1>8, <2>3, RoomAssumption DEF MatchInv
  <2>5. Complete(r)
    BY <2>3, <2>4 DEF Complete, Pending
  <2> QED
    BY <1>5, <2>2, <2>5
<1>9. ASSUME NEW e \in Client PROVE ClientShown(e)'
  <2>1. CASE e = c
    <3>1. battleQ'[c] = <<>>
      BY CloseEffect
    <3>2. ~Shown(c)' /\ \A q \in Room : ~In(c, q)'
      BY <1>1, <1>4 DEF Shown
    <3> QED
      BY <2>1, <3>1, <3>2, EmptyQueue DEF ClientShown
  <2>2. CASE e # c
    <3>1. ClientShown(e)
      BY DEF ShownInv
    <3>2. Invited(e) => Invited(e)'
      BY <1>1, <1>2, <1>3, <1>4, <2>2 DEF Invited, Slot
    <3>3. Alone(e) => Alone(e)'
      BY <1>4, <1>5, <1>6, <2>2 DEF Alone, Vacant
    <3>4. In(e, r) => Alone(e)'
      BY <1>4, <1>8, <2>2 DEF Alone
    <3>5. Shown(e)' <=> Shown(e)
      BY <1>1, <2>2 DEF Shown
    <3>6. \A q \in Room : slot'[q][0] = 1 => slot[q][0] = 1
      BY <1>6 DEF Slot, NoId
    <3>7. \A q \in Room : slot'[q][1] # NoId => slot[q][1] # NoId
      BY <1>6 DEF Slot
    <3>8. Has(battleQ'[e], Leaving) => Alone(e)'
      BY <1>7, <2>2, <3>1, <3>3, <3>4 DEF ClientShown
    <3>9. Has(battleQ'[e], Starting) => \E q \in Room : In(e, q)' /\ started'[q]
      BY <1>1, <1>4, <1>7, <2>2, <3>1 DEF ClientShown
    <3>10. \A q \in Room : In(e, q)' /\ slot'[q][0] = 1 /\ slot'[q][1] # NoId
                            => Shown(e)' \/ Has(battleQ'[e], Entering)
      BY <1>4, <1>7, <2>2, <3>1, <3>5, <3>6, <3>7 DEF ClientShown
    <3>11. Shown(e)' \/ Has(battleQ'[e], Entering) \/ Has(battleQ'[e], Starting)
             => Invited(e)'
      BY <1>7, <2>2, <3>1, <3>2, <3>5 DEF ClientShown
    <3> QED
      BY <3>8, <3>9, <3>10, <3>11 DEF ClientShown
  <2> QED
    BY <2>1, <2>2
<1>10. ASSUME NEW q \in Room PROVE RoomShown(q)'
  <2>1. RoomShown(q)
    BY DEF ShownInv
  <2>2. ASSUME NEW j \in Slot
        PROVE  /\ slot'[q][j] # NoId => slot[q][j] # NoId /\ ready'[q][j] = ready[q][j]
               /\ ready'[q][j] => ready[q][j] /\ slot'[q][j] = slot[q][j]
    BY <1>1, <1>2
  <2>3. /\ slot'[q][1] # NoId => Complete(q)'
        /\ ready'[q][0] =>
             \/ slot'[q][0] = 1
             \/ slot'[q][1] = NoId /\ Complete(q)' /\ \E e \in Client : match'[e] = q
        /\ ready'[q][1] => slot'[q][1] \in {1, 2}
    BY <1>1, <1>5, <2>1, <2>2 DEF RoomShown, Slot
  <2>4. started'[q] => /\ Complete(q)'
                      /\ \E e \in Client : match'[e] = q
                      /\ \A j \in Slot : slot'[q][j] # NoId => ready'[q][j]
    BY <1>1, <1>5, <2>1, <2>2 DEF RoomShown
  <2> QED
    BY <2>3, <2>4 DEF RoomShown
<1> QED
  BY <1>9, <1>10 DEF ShownInv

LEMMA ShownNext ==
  ASSUME TypeOK, TypeOK', LoginInv, MatchInv, ShownInv, [Next]_vars PROVE ShownInv'
<1>1. ASSUME UNCHANGED <<queueVars, match, slot, ready, started, scene, battleId>>
      PROVE  ShownInv'
  BY <1>1, ShownFrame DEF queueVars
<1>2. ASSUME NEW c \in Client, ClickReady(c) PROVE ShownInv'
  <2>1. CASE ReadyNowhere(c)
    BY <1>1, <1>2, <2>1 DEF ClickReady, ReadyNowhere, queueVars, lobbyVars
  <2> QED
    BY <1>2, <2>1, ShownReady DEF ClickReady
<1>3. ASSUME NEW c \in Client, User(c) \/ Network(c) PROVE ShownInv'
  BY <1>2, <1>3, ShownLobby, ShownUserInfo, ShownFindRoom, ShownTakes, ShownClose,
     GoesSteps, ShownLeft
  DEF User, Network, Takes
<1> QED
  BY <1>1, <1>3, ShownPair DEF Next, vars, lobbyVars, roomVars

SessionInv == TypeOK /\ LoginInv /\ MatchInv /\ ShownInv

LEMMA SessionCorrect == Spec => []SessionInv
<1>1. Init => SessionInv
  BY InitType, LoginInit, MatchInit, ShownInit DEF SessionInv
<1>2. TypeOK' /\ SessionInv /\ [Next]_vars => SessionInv'
  BY LoginNext, MatchNext, ShownNext DEF SessionInv
<1> QED
  BY <1>1, <1>2, TypeCorrect, PTL DEF Spec

(* Only client 1 is ever shown a matching room it is not a player of.       *)
THEOREM StrayOnlyFirstCorrect == Spec => []StrayOnlyFirst
<1>1. SessionInv => StrayOnlyFirst
  BY DEF SessionInv, ShownInv, ClientShown, Invited, StrayOnlyFirst
<1> QED
  BY <1>1, SessionCorrect, PTL

(* When client 1 is the first to join, the announcement brings both players *)
(* to the matching room.                                                    *)
THEOREM AnnouncedSeenCorrect == Spec => []AnnouncedSeen
<1>1. ASSUME SessionInv PROVE AnnouncedSeen
  <2> SUFFICES ASSUME NEW c \in Client, NEW d \in Client, NEW r \in Room,
                      Pair2(c, d, r), slot[r][0] = 1, Idle(c), Idle(d)
               PROVE  Shown(c) /\ Shown(d)
    BY DEF AnnouncedSeen
  <2>1. In(c, r) /\ In(d, r) /\ battleId[c] # battleId[d]
    BY <1>1 DEF Pair2, SessionInv, LoginInv, In
  <2>2. slot[r][1] # NoId
    BY <2>1 DEF In, Players, Slot
  <2>3. ~Has(battleQ[c], Entering) /\ ~Has(battleQ[d], Entering)
    BY EmptyQueue DEF Idle
  <2> QED
    BY <1>1, <2>1, <2>2, <2>3 DEF SessionInv, ShownInv, ClientShown
<1> QED
  BY <1>1, SessionCorrect, PTL

-----------------------------------------------------------------------------
(* StartInv.                                                                *)
LEMMA StartInit == Init => StartInv
<1>1. \A K : Prepared(<<>>, K)
  BY EmptySeq DEF Prepared
<1> QED
  BY <1>1 DEF Init, StartInv, In

LEMMA BothGrows ==
  ASSUME NEW q \in Seq(BattlePacket), NEW z \in Seq(BattlePacket), NEW T, Grows(q, z, T),
         NEW K
  PROVE  /\ \A n \in 0..Len(q) : Both(q, n, K) => Both(z, n, K)
         /\ Both(q, Len(q), K) => Both(z, Len(z), K)
         /\ "ROOM_START" \notin T /\ Prepared(q, K) => Prepared(z, K)
<1>1. Len(q) \in Nat /\ Len(z) \in Nat
  BY LenProperties
<1>2. ASSUME NEW n \in 0..Len(q), NEW m \in 0..Len(z), n <= m, NEW id, Brings(q, n, K, id)
      PROVE  Brings(z, m, K, id)
  BY <1>1, <1>2 DEF Grows, Brings
<1>3. \A n \in 0..Len(q) : Both(q, n, K) => Both(z, n, K)
  BY <1>1, <1>2 DEF Both, Grows
<1>4. Both(q, Len(q), K) => Both(z, Len(z), K)
  BY <1>1, <1>2 DEF Both, Grows
<1>5. ASSUME "ROOM_START" \notin T, Prepared(q, K), NEW k \in 1..Len(z),
             z[k].type = "ROOM_START"
      PROVE  Both(z, k - 1, K) /\ \A j \in 1..(k - 1) : z[j].type # "ROOM_LEAVED"
  <2>1. k \in 1..Len(q) /\ z[k] = q[k]
    BY <1>5 DEF Grows
  <2>2. Both(q, k - 1, K) /\ \A j \in 1..(k - 1) : q[j].type # "ROOM_LEAVED"
    BY <1>5, <2>1 DEF Prepared
  <2>3. k - 1 \in 0..Len(q) /\ \A j \in 1..(k - 1) : j \in 1..Len(q)
    BY <1>1, <2>1
  <2> QED
    BY <1>3, <2>2, <2>3 DEF Grows
<1> QED
  BY <1>3, <1>4, <1>5 DEF Prepared

(* Nothing happens in the rooms, nobody forgets anybody, no match starts.   *)
LEMMA StartFrame ==
  ASSUME TypeOK, TypeOK', StartInv, UNCHANGED knows,
         \A e \in Client, r \in Room : In(e, r)' /\ Full(r)' => In(e, r) /\ Full(r),
         \A e \in Client :
           \/ battleQ'[e] = <<>>
           \/ \E T : Grows(battleQ[e], battleQ'[e], T) /\ "ROOM_START" \notin T,
         \A e \in Client, r \in Room : battleQ'[e] = <<>> => ~In(e, r)' \/ battleQ[e] = <<>>
  PROVE  StartInv'
<1>1. ASSUME NEW e \in Client
      PROVE  /\ \A r \in Room : In(e, r)' /\ Full(r)'
                    => Both(battleQ'[e], Len(battleQ'[e]), knows[e])
             /\ Prepared(battleQ'[e], knows[e])
  <2>1. /\ \A r \in Room : In(e, r)' /\ Full(r)'
                    => Both(battleQ[e], Len(battleQ[e]), knows[e])
        /\ Prepared(battleQ[e], knows[e])
    BY DEF StartInv
  <2>2. CASE battleQ'[e] = <<>>
    <3>1. Prepared(<<>>, knows[e])
      BY EmptySeq DEF Prepared
    <3> QED
      BY <2>1, <2>2, <3>1
  <2>3. ASSUME NEW T, Grows(battleQ[e], battleQ'[e], T), "ROOM_START" \notin T
        PROVE  /\ Both(battleQ[e], Len(battleQ[e]), knows[e])
                    => Both(battleQ'[e], Len(battleQ'[e]), knows[e])
               /\ Prepared(battleQ[e], knows[e]) => Prepared(battleQ'[e], knows[e])
    <3>1. battleQ[e] \in Seq(BattlePacket) /\ battleQ'[e] \in Seq(BattlePacket)
      BY DEF TypeOK
    <3> QED
      BY <2>3, <3>1, BothGrows
  <2> QED
    BY <2>1, <2>2, <2>3
<1> QED
  BY <1>1 DEF StartInv

LEMMA GrowsSame ==
  ASSUME TypeOK, NEW e \in Client
  PROVE  Grows(battleQ[e], battleQ[e], {}) /\ "ROOM_START" \notin {}
<1>1. Len(battleQ[e]) \in Nat
  BY LenProperties DEF TypeOK
<1> QED
  BY <1>1 DEF Grows

LEMMA StartUserInfo ==
  ASSUME TypeOK, TypeOK', LoginInv, MatchInv, StartInv, NEW c \in Client, UserInfo(c)
  PROVE  StartInv'
<1>1. PICK id \in Id :
        /\ \A e \in Client : battleId[e] # id
        /\ battleId' = [battleId EXCEPT ![c] = id]
        /\ battleQ' = [battleQ EXCEPT ![c] = Append(@, [type |-> "LOGIN_OK", id |-> id])]
  BY FreshId
<1>2. battleId[c] = NoId
  BY FreshId
<1>3. \A r \in Room, i \in Slot : slot[r][i] # id
  BY <1>1, IdType DEF MatchInv
<1>4. UNCHANGED <<slot, knows>>
  BY DEF UserInfo, roomVars
<1>5. \A e \in Client, r \in Room : In(e, r)' /\ Full(r)' => In(e, r) /\ Full(r)
  BY <1>1, <1>2, <1>3, <1>4 DEF In, Players, Full, TypeOK
<1>6. ASSUME NEW e \in Client
      PROVE  \E T : Grows(battleQ[e], battleQ'[e], T) /\ "ROOM_START" \notin T
  <2> DEFINE T == {"LOGIN_OK"}
             p == [type |-> "LOGIN_OK", id |-> id]
  <2>1. p \in BattlePacket /\ p.type \in T /\ battleQ[e] \in Seq(BattlePacket)
    BY PacketType DEF TypeOK
  <2>2. battleQ'[e] \in {battleQ[e], Append(battleQ[e], p)}
    BY <1>1 DEF TypeOK
  <2>3. "ROOM_START" \notin T
    OBVIOUS
  <2> HIDE DEF p, T
  <2>4. Grows(battleQ[e], battleQ[e], T) /\ Grows(battleQ[e], Append(battleQ[e], p), T)
    BY <2>1, GrowsAppend
  <2> QED
    BY <2>2, <2>3, <2>4
<1>7. ASSUME NEW e \in Client, NEW r \in Room, battleQ'[e] = <<>>
      PROVE  ~In(e, r)' \/ battleQ[e] = <<>>
  <2>1. CASE e = c
    BY <1>2, <1>5, <2>1 DEF LoginInv
  <2>2. CASE e # c
    BY <1>1, <1>7, <2>2 DEF TypeOK
  <2> QED
    BY <2>1, <2>2
<1> QED
  BY <1>4, <1>5, <1>6, <1>7, StartFrame

(* Only a packet that is taken changes what a client knows. *)
LEMMA StartTakes ==
  ASSUME TypeOK, TypeOK', MatchInv, ShownInv, StartInv, NEW c \in Client, Takes(c)
  PROVE  StartInv'
<1> DEFINE q == battleQ[c]
           p == Head(q)
           z == Tail(q)
<1>1. /\ q # <<>> /\ q \in Seq(BattlePacket)
      /\ \A e \in Client : battleQ'[e] = IF e = c THEN z ELSE battleQ[e]
      /\ UNCHANGED <<battleId, slot>>
  <2>1. /\ battleQ[c] # <<>> /\ battleQ[c] \in Seq(BattlePacket)
        /\ battleQ' = [battleQ EXCEPT ![c] = Tail(@)]
        /\ UNCHANGED <<battleId, slot>>
    BY TakesFrame DEF roomVars
  <2> QED
    BY <2>1 DEF TypeOK
<1>2. knows' = [knows EXCEPT ![c] = IF Makes(p) THEN @ \cup {p.id}
                  ELSE IF p.type = "ROOM_LEAVED" THEN @ \ {p.id} ELSE @]
  BY TakesEffect
<1>3. /\ p = q[1] /\ 1 \in 1..Len(q) /\ Len(q) \in Nat /\ Len(z) = Len(q) - 1
      /\ \A k \in 1..Len(z) : z[k] = q[k + 1] /\ k + 1 \in 1..Len(q)
  BY <1>1, TailQueue
<1> HIDE DEF p, q, z
<1>4. /\ \A e \in Client : e # c => knows'[e] = knows[e]
      /\ Makes(p) => knows'[c] = knows[c] \cup {p.id}
      /\ ~Makes(p) /\ p.type # "ROOM_LEAVED" => knows'[c] = knows[c]
  BY <1>2 DEF TypeOK
<1>5. ASSUME NEW n \in 1..Len(q), p.type # "ROOM_LEAVED", NEW id, Brings(q, n, knows[c], id)
      PROVE  Brings(z, n - 1, knows'[c], id)
  <2>1. CASE id \in knows[c]
    BY <1>4, <1>5, <2>1 DEF Brings
  <2>2. ASSUME NEW k \in 1..n, Makes(q[k]), q[k].id = id
        PROVE  Brings(z, n - 1, knows'[c], id)
    <3>1. CASE k = 1
      BY <1>3, <1>4, <2>2, <3>1 DEF Brings
    <3>2. CASE k # 1
      <4>1. k - 1 \in 1..(n - 1) /\ k - 1 \in 1..Len(z) /\ (k - 1) + 1 = k
        BY <1>3, <3>2
      <4> QED
        BY <1>3, <2>2, <4>1 DEF Brings
    <3> QED
      BY <3>1, <3>2
  <2> QED
    BY <1>5, <2>1, <2>2 DEF Brings
<1>6. \A e \in Client, r \in Room : In(e, r)' /\ Full(r)' <=> In(e, r) /\ Full(r)
  BY <1>1 DEF In, Players, Full
<1>7. ASSUME NEW r \in Room, In(c, r), Full(r)
      PROVE  Both(z, Len(z), knows'[c])
  <2>1. p.type # "ROOM_LEAVED"
    <3> SUFFICES ASSUME p.type = "ROOM_LEAVED" PROVE FALSE
      OBVIOUS
    <3>1. Has(q, Leaving)
      BY <1>3 DEF Has, Leaving
    <3>2. Alone(c)
      BY <3>1 DEF ShownInv, ClientShown, q
    <3> QED
      BY <1>7, <3>2 DEF Alone, MatchInv, Full, Vacant, Slot, NoId
  <2>2. Both(q, Len(q), knows[c])
    BY <1>7 DEF StartInv, q
  <2> QED
    BY <1>3, <1>5, <2>1, <2>2 DEF Both
<1>8. Prepared(z, knows'[c])
  <2> SUFFICES ASSUME NEW k \in 1..Len(z), z[k].type = "ROOM_START"
               PROVE  Both(z, k - 1, knows'[c]) /\
                      \A j \in 1..(k - 1) : z[j].type # "ROOM_LEAVED"
    BY DEF Prepared
  <2>1. q[k + 1].type = "ROOM_START" /\ k + 1 \in 1..Len(q) /\ (k + 1) - 1 = k
    BY <1>3
  <2>2. Prepared(q, knows[c])
    BY DEF StartInv, q
  <2>3. Both(q, k, knows[c]) /\ \A j \in 1..k : q[j].type # "ROOM_LEAVED"
    BY <2>1, <2>2 DEF Prepared
  <2>4. k \in 1..Len(q) /\ p.type # "ROOM_LEAVED"
    BY <1>3, <2>3
  <2>5. Both(z, k - 1, knows'[c])
    BY <1>5, <2>3, <2>4 DEF Both
  <2>6. ASSUME NEW j \in 1..(k - 1) PROVE z[j].type # "ROOM_LEAVED"
    <3>1. j \in 1..Len(z) /\ j + 1 \in 1..k
      BY <1>3
    <3> QED
      BY <1>3, <2>3, <3>1
  <2> QED
    BY <2>5, <2>6
<1>9. ASSUME NEW e \in Client
      PROVE  /\ \A r \in Room : In(e, r)' /\ Full(r)'
                               => Both(battleQ'[e], Len(battleQ'[e]), knows'[e])
             /\ Prepared(battleQ'[e], knows'[e])
  BY <1>1, <1>4, <1>6, <1>7, <1>8 DEF StartInv
<1> QED
  BY <1>9 DEF StartInv

(* A client the announcement is for gets the packet made for it. *)
LEMMA AnnounceBrings ==
  ASSUME TypeOK, TypeOK', NEW id \in Id, NEW i \in Slot, Announce(id, i), NEW e \in Client,
         Runs(e), battleId[e] \in Told(id, i)
  PROVE  \E k \in 1..Len(battleQ'[e]) : battleQ'[e][k] = Entered(id, battleId[e])
<1> DEFINE p == Entered(id, battleId[e])
           j == [type |-> "JOIN_OK"]
           q == battleQ[e]
           y == Append(q, p)
<1>1. p \in BattlePacket /\ j \in BattlePacket /\ q \in Seq(BattlePacket)
  BY IdType, PacketType DEF Entered, TypeOK
<1>2. battleQ'[e] = IF battleId[e] = id THEN Append(y, j) ELSE y
  BY AnnounceEffect
<1> HIDE DEF p, j, q
<1>3. /\ y \in Seq(BattlePacket) /\ Len(y) = Len(q) + 1 /\ Len(q) \in Nat
      /\ y[Len(q) + 1] = p
  BY <1>1, AppendQueue
<1>4. Len(y) \in 1..Len(y) /\ y[Len(y)] = p
  BY <1>3
<1> HIDE DEF y
<1>5. /\ Append(y, j)[Len(y)] = p
      /\ Len(y) \in 1..Len(Append(y, j))
  BY <1>1, <1>3, <1>4, AppendQueue
<1> QED
  BY <1>2, <1>4, <1>5 DEF p

LEMMA StartJoin ==
  ASSUME TypeOK, TypeOK', LoginInv, MatchInv, EntryInv, ShownInv, StartInv,
         NEW c \in Client, FindRoom(c), HasEntry(c),
         NEW r \in Room, NEW i \in Slot, NEW id \in Id,
         r = match[c], id = battleId[c],
         Seated(r, i, id),
         Announce(id, i),
         \A e \in Client :
           Grows(battleQ[e], battleQ'[e], {"ROOM_ENTERED", "JOIN_OK", "JOIN_FAIL"})
  PROVE  StartInv'
<1> DEFINE T == {"ROOM_ENTERED", "JOIN_OK", "JOIN_FAIL"}
<1>1. Pending(c, r)
  BY NotYetIn DEF Pending
<1>2. slot[r][1] = NoId
  <2>1. ~Complete(r)
    BY <1>1 DEF Complete
  <2> QED
    BY <2>1 DEF ShownInv, RoomShown
<1>3. UNCHANGED <<battleId, knows>>
  BY DEF FindRoom
<1>4. \A q \in Room, j \in Slot : slot'[q][j] = IF q = r /\ j = i THEN id ELSE slot[q][j]
  BY DEF Seated
<1>5. ASSUME NEW e \in Client
      PROVE  /\ Both(battleQ[e], Len(battleQ[e]), knows[e])
                   => Both(battleQ'[e], Len(battleQ'[e]), knows[e])
             /\ Prepared(battleQ'[e], knows[e])
             /\ \A x : Answers(battleQ[e], x) => Answers(battleQ'[e], x)
  <2>1. /\ battleQ[e] \in Seq(BattlePacket) /\ battleQ'[e] \in Seq(BattlePacket)
        /\ Grows(battleQ[e], battleQ'[e], T) /\ "ROOM_START" \notin T
        /\ Prepared(battleQ[e], knows[e])
    BY DEF TypeOK, StartInv
  <2> HIDE DEF T
  <2> QED
    BY <2>1, BothGrows, AnswersGrows
<1>6. ASSUME NEW e \in Client, NEW q \in Room, In(e, q)', Full(q)'
      PROVE  Both(battleQ'[e], Len(battleQ'[e]), knows[e])
  <2>1. CASE q # r
    <3>1. In(e, q) /\ Full(q)
      BY <1>3, <1>4, <1>6, <2>1 DEF In, Players, Full, Slot
    <3> QED
      BY <1>5, <3>1 DEF StartInv
  <2>2. CASE q = r
    <3>1. slot'[r][0] = 1 /\ slot'[r][1] = 2
      BY <1>6, <2>2 DEF Full
    <3>2. i = 1 /\ id = 2
      BY <1>2, <1>4, <3>1 DEF Slot, NoId
    <3>3. battleId[e] \in {1, 2} /\ battleId[e] # NoId
      BY <1>3, <1>6, <2>2, <3>1 DEF In, Players, Slot
    <3>4. Runs(e) /\ battleId[e] \in Told(id, i)
      BY <3>2, <3>3 DEF LoginInv, Told
    <3>5. PICK k \in 1..Len(battleQ'[e]) : battleQ'[e][k] = Entered(id, battleId[e])
      BY <3>4, AnnounceBrings
    <3>6. /\ Makes(battleQ'[e][k])
          /\ battleQ'[e][k].id = IF battleId[e] = 1 THEN 2 ELSE 1
      BY <3>2, <3>5 DEF Entered, Makes
    <3>7. battleId[e] \in knows[e] \/ Answers(battleQ'[e], battleId[e])
      BY <1>5, <3>3 DEF EntryInv
    <3>8. Brings(battleQ'[e], Len(battleQ'[e]), knows[e], battleId[e])
      BY <3>7 DEF Brings, Answers, Makes
    <3>9. Brings(battleQ'[e], Len(battleQ'[e]), knows[e], IF battleId[e] = 1 THEN 2 ELSE 1)
      BY <3>6 DEF Brings
    <3> QED
      BY <3>3, <3>8, <3>9 DEF Both
  <2> QED
    BY <2>1, <2>2
<1> QED
  BY <1>3, <1>5, <1>6 DEF StartInv

LEMMA StartLeft ==
  ASSUME TypeOK, TypeOK', MatchInv, StartInv, NEW c \in Client, Goes(c)
  PROVE  StartInv'
<1>1. /\ \A e \in Client :
           /\ battleQ'[e] = IF e = c THEN <<>> ELSE battleQ[e]
           /\ battleId'[e] = IF e = c THEN NoId ELSE battleId[e]
      /\ \A r \in Room : slot'[r] = slot[r] \/ \A i \in Slot : slot'[r][i] = NoId
      /\ UNCHANGED knows
  BY GoesEffect
<1>2. \A e \in Client, r \in Room : In(e, r)' => In(e, r) /\ slot'[r] = slot[r] /\ e # c
  BY <1>1 DEF In, Players
<1>3. \A e \in Client, r \in Room : In(e, r)' /\ Full(r)' => In(e, r) /\ Full(r)
  BY <1>2 DEF Full
<1>4. \A e \in Client :
        \/ battleQ'[e] = <<>>
        \/ \E T : Grows(battleQ[e], battleQ'[e], T) /\ "ROOM_START" \notin T
  BY <1>1, GrowsSame
<1>5. \A e \in Client, r \in Room : battleQ'[e] = <<>> => ~In(e, r)' \/ battleQ[e] = <<>>
  BY <1>1, <1>2
<1> QED
  BY <1>1, <1>3, <1>4, <1>5, StartFrame

LEMMA StartFindRoom ==
  ASSUME TypeOK, TypeOK', LoginInv, MatchInv, EntryInv, ShownInv, StartInv,
         NEW c \in Client, FindRoom(c)
  PROVE  StartInv'
<1>1. /\ Head(lobbyQ[c]).room = match[c] /\ match[c] \in Room
      /\ \A r \in Room : ~In(c, r)
      /\ UNCHANGED knows
  BY NotYetIn DEF FindRoom
<1>2. CASE HasEntry(c)
  <2>1. /\ UNCHANGED battleId
        /\ Join(battleId[c], match[c]) /\ battleId[c] \in Id
    BY <1>1, <1>2 DEF FindRoom, HasEntry, TypeOK
  <2>2. \A e \in Client :
          Grows(battleQ[e], battleQ'[e], {"ROOM_ENTERED", "JOIN_OK", "JOIN_FAIL"})
    BY <1>1, <2>1, JoinGrows
  <2>3. CASE UNCHANGED slot
    <3>1. \A e \in Client, r \in Room : In(e, r)' /\ Full(r)' => In(e, r) /\ Full(r)
      BY <2>1, <2>3 DEF In, Players, Full
    <3>2. "ROOM_START" \notin {"ROOM_ENTERED", "JOIN_OK", "JOIN_FAIL"}
      OBVIOUS
    <3>3. ASSUME NEW e \in Client, battleQ'[e] = <<>> PROVE battleQ[e] = <<>>
      <4>1. Len(battleQ[e]) \in Nat /\ Len(battleQ[e]) <= Len(battleQ'[e])
        BY <2>2, LenProperties DEF TypeOK, Grows
      <4>2. Len(battleQ[e]) = 0
        BY <3>3, <4>1, EmptySeq
      <4> QED
        BY <4>2, EmptySeq DEF TypeOK
    <3> QED
      BY <1>1, <2>2, <3>1, <3>2, <3>3, StartFrame
  <2>4. ASSUME NEW i \in EntersAt(match[c]), Vacant(match[c]),
               slot' = [slot EXCEPT ![match[c]][i] = battleId[c]],
               Announce(battleId[c], i)
        PROVE  StartInv'
    <3> DEFINE r  == match[c]
               id == battleId[c]
    <3>1. i \in Slot /\ Seated(r, i, id)
      BY <1>1, <2>4, NewPlayer
    <3>2. /\ r \in Room /\ id \in Id /\ r = match[c] /\ id = battleId[c]
          /\ Announce(id, i)
      BY <1>1, <2>1, <2>4
    <3> HIDE DEF r, id
    <3> QED
      BY <1>2, <2>2, <3>1, <3>2, StartJoin
  <2> QED
    BY <1>1, <2>1, <2>3, <2>4, JoinEffect
<1>3. CASE ~HasEntry(c)
  BY <1>3, GoesSteps, StartLeft
<1> QED
  BY <1>2, <1>3

(* The room that starts is full, so each of its players has been told of    *)
(* the other, and nobody has left it.                                       *)
LEMMA StartReady ==
  ASSUME TypeOK, TypeOK', LoginInv, MatchInv, ShownInv, ShownInv', StartInv,
         NEW c \in Client, ClickReady(c), NEW r \in Room, ReadyInRoom(c, r)
  PROVE  StartInv'
<1> DEFINE f == [k \in Slot |-> ready[r][k] \/ k \in Marks(c, r)]
           goes == Starts(f) /\ ~started[r]
<1>1. UNCHANGED <<battleId, slot, knows>>
  BY DEF ClickReady
<1>2. goes => Full(r)
  <2> SUFFICES ASSUME goes PROVE Full(r)
    OBVIOUS
  <2>1. ready' = [ready EXCEPT ![r] = f]
    BY DEF ReadyInRoom
  <2>2. ready'[r] = f
    BY <2>1 DEF TypeOK
  <2>3. f[0] /\ f[1]
    BY DEF Starts, Slot
  <2> HIDE DEF f
  <2>4. slot[r][0] = 1 /\ slot[r][1] \in {1, 2}
    BY <1>1, <2>2, <2>3 DEF ShownInv, RoomShown, NoId
  <2> QED
    BY <2>4 DEF Full, MatchInv, Slot, NoId
<1>3. \A e \in Client, q \in Room : In(e, q)' /\ Full(q)' <=> In(e, q) /\ Full(q)
  BY <1>1 DEF In, Players, Full
<1>4. ASSUME NEW e \in Client
      PROVE  /\ \A q \in Room : In(e, q)' /\ Full(q)'
                               => Both(battleQ'[e], Len(battleQ'[e]), knows[e])
             /\ Prepared(battleQ'[e], knows[e])
  <2>1. /\ battleQ[e] \in Seq(BattlePacket) /\ battleQ'[e] \in Seq(BattlePacket)
        /\ \A q \in Room : In(e, q) /\ Full(q) => Both(battleQ[e], Len(battleQ[e]), knows[e])
        /\ Prepared(battleQ[e], knows[e])
    BY DEF TypeOK, StartInv
  <2>2. /\ Grows(battleQ[e], battleQ'[e], {"READY", "ROOM_START"})
        /\ IF goes
           THEN \E q \in Seq(BattlePacket) :
                  /\ Grows(battleQ[e], q, {"READY"})
                  /\ battleQ'[e] = IF Runs(e) /\ battleId[e] \in Players(r)
                                   THEN Append(q, [type |-> "ROOM_START"]) ELSE q
           ELSE Grows(battleQ[e], battleQ'[e], {"READY"})
    BY ReadyGrows
  <2> HIDE DEF goes
  <2>3. Both(battleQ[e], Len(battleQ[e]), knows[e])
          => Both(battleQ'[e], Len(battleQ'[e]), knows[e])
    <3> DEFINE T == {"READY", "ROOM_START"}
    <3>1. Grows(battleQ[e], battleQ'[e], T)
      BY <2>2
    <3> HIDE DEF T
    <3> QED
      BY <2>1, <3>1, BothGrows
  <2>4. ASSUME NEW q \in Seq(BattlePacket), Grows(battleQ[e], q, {"READY"})
        PROVE  /\ Prepared(q, knows[e])
               /\ Both(battleQ[e], Len(battleQ[e]), knows[e]) => Both(q, Len(q), knows[e])
               /\ Has(q, Leaving) => Has(battleQ[e], Leaving)
    <3> DEFINE T == {"READY"}
    <3>1. Grows(battleQ[e], q, T) /\ "ROOM_START" \notin T /\ "ROOM_LEAVED" \notin T
      BY <2>4
    <3> HIDE DEF T
    <3> QED
      BY <2>1, <3>1, BothGrows, GrowsShown
  <2>5. ASSUME goes, battleId[e] \in Players(r), NEW q \in Seq(BattlePacket),
               Grows(battleQ[e], q, {"READY"})
        PROVE  Prepared(Append(q, [type |-> "ROOM_START"]), knows[e])
    <3> DEFINE s == [type |-> "ROOM_START"]
               z == Append(q, s)
    <3>1. In(e, r) /\ Full(r)
      BY <1>2, <2>5 DEF In, Players
    <3>2. Both(q, Len(q), knows[e]) /\ Prepared(q, knows[e])
      BY <2>1, <2>4, <2>5, <3>1
    <3>3. ~Has(q, Leaving)
      <4>1. ~Alone(e)
        BY <3>1 DEF Alone, MatchInv, Full, Vacant, Slot, NoId
      <4> QED
        BY <2>4, <2>5, <4>1 DEF ShownInv, ClientShown
    <3>4. s \in BattlePacket
      BY PacketType
    <3> HIDE DEF s
    <3>5. /\ z \in Seq(BattlePacket) /\ Len(q) \in Nat
          /\ \A k \in 1..Len(q) : z[k] = q[k]
          /\ \A k : k \in 1..Len(z) <=> k \in 1..Len(q) \/ k = Len(q) + 1
      BY <3>4, AppendQueue
    <3> HIDE DEF z
    <3>6. \A n \in 0..Len(q) : Both(q, n, knows[e]) => Both(z, n, knows[e])
      <4>1. \A n \in 0..Len(q) : \A k \in 1..n : z[k] = q[k]
        BY <3>5
      <4> QED
        BY <4>1 DEF Both, Brings
    <3>7. ASSUME NEW k \in 1..Len(z), z[k].type = "ROOM_START"
          PROVE  Both(z, k - 1, knows[e]) /\ \A j \in 1..(k - 1) : z[j].type # "ROOM_LEAVED"
      <4>1. k - 1 \in 0..Len(q) /\ \A j \in 1..(k - 1) : j \in 1..Len(q) /\ z[j] = q[j]
        BY <3>5
      <4>2. Both(q, k - 1, knows[e])
        <5>1. CASE k \in 1..Len(q)
          BY <3>2, <3>5, <3>7, <5>1 DEF Prepared
        <5>2. CASE k = Len(q) + 1
          <6>1. k - 1 = Len(q)
            BY <3>5, <5>2
          <6> QED
            BY <3>2, <6>1
        <5> QED
          BY <3>5, <5>1, <5>2
      <4> QED
        BY <3>3, <3>6, <4>1, <4>2 DEF Has, Leaving
    <3> QED
      BY <3>7 DEF Prepared, z, s
  <2>6. Prepared(battleQ'[e], knows[e])
    BY <2>1, <2>2, <2>4, <2>5
  <2> QED
    BY <1>3, <2>1, <2>3, <2>6
<1> QED
  BY <1>1, <1>4 DEF StartInv

LEMMA StartClose ==
  ASSUME TypeOK, TypeOK', LoginInv, MatchInv, StartInv, NEW c \in Client, NEW r \in Room,
         Close(c, r)
  PROVE  StartInv'
<1> DEFINE p == [type |-> "ROOM_LEAVED", id |-> battleId[c]]
           T == {"ROOM_LEAVED"}
<1>1. /\ battleId[c] # NoId /\ UNCHANGED knows
      /\ \A e \in Client : battleId'[e] = IF e = c THEN NoId ELSE battleId[e]
  BY DEF Close, In, TypeOK
<1>2. \A q \in Room, j \in Slot :
        slot'[q][j] = IF slot[q][j] = battleId[c] THEN NoId ELSE slot[q][j]
  BY CloseSlots
<1>3. \A e \in Client, q \in Room : In(e, q)' /\ Full(q)' => In(e, q) /\ Full(q) /\ e # c
  BY <1>1, <1>2 DEF In, Players, Full, Slot, NoId
<1>4. p \in BattlePacket /\ p.type \in T /\ "ROOM_START" \notin T
  BY PacketType DEF Close, In, TypeOK
<1> HIDE DEF p, T
<1>5. \A e \in Client : \/ e = c /\ battleQ'[e] = <<>>
                        \/ e # c /\ battleQ'[e] \in {battleQ[e], Append(battleQ[e], p)}
  BY CloseEffect DEF p
<1>6. \A e \in Client : /\ battleQ[e] \in Seq(BattlePacket)
                        /\ Grows(battleQ[e], battleQ[e], T)
                        /\ Grows(battleQ[e], Append(battleQ[e], p), T)
  BY <1>4, GrowsAppend DEF TypeOK
<1>7. \A e \in Client, q \in Room : battleQ'[e] = <<>> => ~In(e, q)' \/ battleQ[e] = <<>>
  <2>1. \A q \in Seq(BattlePacket) : Append(q, p) # <<>>
    BY <1>4, AppendQueue, EmptySeq
  <2>2. \A q \in Room : ~In(c, q)'
    BY <1>1 DEF In
  <2> QED
    BY <1>5, <1>6, <2>1, <2>2
<1>8. \A e \in Client :
        \/ battleQ'[e] = <<>>
        \/ \E U : Grows(battleQ[e], battleQ'[e], U) /\ "ROOM_START" \notin U
  BY <1>4, <1>5, <1>6
<1> QED
  BY <1>1, <1>3, <1>7, <1>8, StartFrame

LEMMA StartNext ==
  ASSUME TypeOK, TypeOK', LoginInv, MatchInv, EntryInv, ShownInv, ShownInv', StartInv,
         [Next]_vars
  PROVE  StartInv'
<1>1. ASSUME UNCHANGED <<battleQ, slot, knows, battleId>> PROVE StartInv'
  BY <1>1 DEF StartInv, In, Players, Full
<1>2. ASSUME NEW c \in Client, ClickReady(c) PROVE StartInv'
  <2>1. CASE ReadyNowhere(c)
    BY <1>1, <1>2, <2>1 DEF ClickReady, ReadyNowhere
  <2> QED
    BY <1>2, <2>1, StartReady DEF ClickReady
<1>3. ASSUME NEW c \in Client, ClickLogin(c) \/ ClickStart(c) \/ LobbyLoginOK(c)
      PROVE  StartInv'
  BY <1>1, <1>3 DEF ClickLogin, ClickStart, LobbyLoginOK, queueVars, roomVars
<1>4. ASSUME NEW c \in Client, User(c) \/ Network(c) PROVE StartInv'
  BY <1>2, <1>3, <1>4, StartUserInfo, StartFindRoom, StartTakes, StartClose,
     GoesSteps, StartLeft
  DEF User, Network, Takes
<1> QED
  BY <1>1, <1>4 DEF Next, Pair, vars, queueVars, roomVars

(* Only BC_ROOM_START brings a client to the play scene. *)
LEMMA ToPlay ==
  ASSUME TypeOK, [Next]_vars, NEW c \in Client, scene[c] # "play", scene'[c] = "play"
  PROVE  battleQ[c] # <<>> /\ Head(battleQ[c]).type = "ROOM_START"
<1>1. UNCHANGED scene => FALSE
  OBVIOUS
<1>2. ASSUME NEW d \in Client, NEW x, x # "play", scene' = [scene EXCEPT ![d] = x]
      PROVE  FALSE
  BY <1>2 DEF TypeOK
<1>3. ASSUME NEW d \in Client, Takes(d)
      PROVE  battleQ[c] # <<>> /\ Head(battleQ[c]).type = "ROOM_START"
  <2>1. /\ battleQ[d] # <<>>
        /\ scene' = [scene EXCEPT ![d] =
                       IF Head(battleQ[d]).type = "ROOM_ENTERED" THEN "matching"
                       ELSE IF Head(battleQ[d]).type = "ROOM_START" THEN "play" ELSE @]
    BY <1>3, TakesFrame, TakesEffect
  <2> QED
    BY <2>1 DEF TypeOK
<1>4. ASSUME NEW d \in Client, FindRoom(d) \/ CloseUnjoined(d) PROVE FALSE
  BY <1>1, <1>2, <1>4 DEF FindRoom, CloseUnjoined, EndsUnjoined
<1>5. ASSUME NEW d \in Client, NEW r \in Room, Close(d, r) PROVE FALSE
  BY <1>2, <1>5 DEF Close
<1>6. ASSUME NEW d \in Client,
             ClickLogin(d) \/ ClickStart(d) \/ ClickReady(d) \/ LobbyLoginOK(d) \/ UserInfo(d)
      PROVE  FALSE
  BY <1>1, <1>6 DEF ClickLogin, ClickStart, ClickReady, LobbyLoginOK, UserInfo
<1> QED
  BY <1>1, <1>3, <1>4, <1>5, <1>6 DEF Next, User, Network, Takes, Pair, vars

(* Whatever the order in which the two connections are read, and whoever    *)
(* leaves: a client that goes on to the match has an entry for both of its  *)
(* players, and those still in its room are ready.                          *)
THEOREM PlaysWithBothCorrect == Spec => PlaysWithBoth
<1> DEFINE Inv == TypeOK /\ LoginInv /\ MatchInv /\ EntryInv /\ ShownInv /\ StartInv
<1>1. Init => Inv
  BY InitType, LoginInit, MatchInit, EntryInit, ShownInit, StartInit
<1>2. ASSUME TypeOK', Inv, [Next]_vars PROVE Inv'
  <2>1. LoginInv' /\ MatchInv' /\ EntryInv' /\ ShownInv'
    BY <1>2, LoginNext, MatchNext, EntryNext, ShownNext
  <2> QED
    BY <1>2, <2>1, StartNext
<1>3. ASSUME Inv, [Next]_vars, NEW c \in Client, scene[c] # "play", scene'[c] = "play"
      PROVE  /\ {1, 2} \subseteq knows[c]
             /\ \E r \in Room : /\ In(c, r)
                              /\ \A i \in Slot : slot[r][i] # NoId => ready[r][i]
  <2> DEFINE q == battleQ[c]
  <2>1. q # <<>> /\ Head(q).type = "ROOM_START" /\ q \in Seq(BattlePacket)
    BY <1>3, ToPlay DEF TypeOK
  <2>2. Head(q) = q[1] /\ 1 \in 1..Len(q)
    BY <2>1, TailQueue
  <2>3. Both(q, 1 - 1, knows[c])
    BY <1>3, <2>1, <2>2 DEF StartInv, Prepared
  <2>4. {1, 2} \subseteq knows[c]
    BY <2>3 DEF Both, Brings
  <2>5. Has(q, Starting)
    BY <2>1, <2>2 DEF Has, Starting
  <2>6. PICK r \in Room : In(c, r) /\ started[r]
    BY <1>3, <2>5 DEF ShownInv, ClientShown
  <2>7. \A i \in Slot : slot[r][i] # NoId => ready[r][i]
    BY <1>3, <2>6 DEF ShownInv, RoomShown
  <2> QED
    BY <2>4, <2>6, <2>7
<1> DEFINE A == \A c \in Client : scene[c] # "play" /\ scene'[c] = "play" =>
                  /\ {1, 2} \subseteq knows[c]
                  /\ \E r \in Room : /\ In(c, r)
                                   /\ \A i \in Slot : slot[r][i] # NoId => ready[r][i]
<1>4. Inv /\ [Next]_vars => [A]_vars
  BY <1>3
<1>5. [][A]_vars => PlaysWithBoth
  BY DEF PlaysWithBoth
<1> HIDE DEF Inv, A
<1>6. TypeOK' /\ Inv /\ [Next]_vars => Inv'
  BY <1>2
<1> QED
  BY <1>1, <1>4, <1>5, <1>6, TypeCorrect, PTL DEF Spec
=============================================================================
