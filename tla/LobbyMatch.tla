------------------------------ MODULE LobbyMatch ------------------------------
(***************************************************************************)
(* The lobby server: connections and logins, the list of the users who     *)
(* look for a match, the timer thread that pairs them by rating, the       *)
(* request for a room to the battle server and its answer.                 *)
(*                                                                         *)
(* One worker thread serves all connections, so each packet is one step    *)
(* here; the timer thread pairs users at the same time, and only it takes  *)
(* the lock of the list.  Ratings are small numbers; which account a user  *)
(* logs in to is left out, so a login may be accepted or refused.          *)
(***************************************************************************)
EXTENDS Integers, Sequences, FiniteSets

CONSTANTS
  MaxUser,        \* bound: connections accepted
  Mmr,            \* the ratings a login may find in the database
  mmr_hard_gap,   \* a pair's ratings are closer than this     (code: 100) ...
  MaxWait,        \* bound: seconds of waiting that are told apart
  MaxFinds        \* bound: FIND_ROOM packets of each user

UNSETMMR == -1    \* the rating of a user who has not logged in

Dist(m, n) == IF m < n THEN n - m ELSE m - n

ASSUME BoundAssumption == /\ {MaxUser, mmr_hard_gap} \subseteq Nat
                          /\ MaxFinds \in [1..MaxUser -> Nat]
(* The wait is told apart until it bridges any difference of ratings. *)
ASSUME MmrAssumption ==
  /\ Mmr \subseteq Nat
  /\ MaxWait \in Nat
  /\ \A m, n \in Mmr \cup {UNSETMMR} : Dist(m, n) < MaxWait + mmr_hard_gap

VARIABLES
  conn,       \* userList: "none", "open" or "gone"
  mmr,        \* user_info->mmr
  matchList,  \* g_match_list: the entry of each user who waits
  scanning,   \* the timer thread is in MatchingUser
  raced,      \* the users inserted into the list during that
  asked,      \* requests for a room that are not answered yet
  told,       \* history: LC_FIND_ROOM packets sent to each user
  finds,      \* history: FIND_ROOM packets received from each user
  paired,     \* history: pairs each user has been put in
  stalled,    \* the worker is in the endless loop of error_display
  crashed     \* the process has been stopped by undefined behaviour

userVars  == <<conn, mmr>>
timerVars == <<scanning, raced>>
vars == <<userVars, matchList, timerVars, asked, told, finds, paired, stalled,
          crashed>>

User == 1..MaxUser          \* ids are given in order and never again
NotWaiting == [mmr |-> UNSETMMR, waited |-> -1]
Entry == [mmr : Mmr \cup {UNSETMMR}, waited : 0..MaxWait]

Waiting(u) == matchList[u] # NotWaiting
Serving    == ~stalled /\ ~crashed     \* the worker can take a packet

TypeOK ==
  /\ conn \in [User -> {"none", "open", "gone"}]
  /\ mmr \in [User -> Mmr \cup {UNSETMMR}]
  /\ matchList \in [User -> Entry \cup {NotWaiting}]
  /\ scanning \in BOOLEAN
  /\ raced \subseteq User
  /\ asked \in Seq(User \X User)
  /\ told \in [User -> Nat]
  /\ finds \in [User -> Nat]
  /\ paired \in [User -> Nat]
  /\ stalled \in BOOLEAN
  /\ crashed \in BOOLEAN

Init ==
  /\ conn = [u \in User |-> "none"]
  /\ mmr = [u \in User |-> UNSETMMR]
  /\ matchList = [u \in User |-> NotWaiting]
  /\ scanning = FALSE
  /\ raced = {}
  /\ asked = <<>>
  /\ told = [u \in User |-> 0]
  /\ finds = [u \in User |-> 0]
  /\ paired = [u \in User |-> 0]
  /\ stalled = FALSE
  /\ crashed = FALSE

MayCrash(bad) == crashed' \in IF bad THEN BOOLEAN ELSE {FALSE}

-----------------------------------------------------------------------------
(* The accept loop of main: the next id. *)
ClientAccept(u) ==
  /\ ~crashed
  /\ conn[u] = "none"
  /\ \A v \in User : v < u => conn[v] # "none"
  /\ conn' = [conn EXCEPT ![u] = "open"]
  /\ UNCHANGED <<mmr, matchList, timerVars, asked, told, finds, paired,
                 stalled, crashed>>

(* CL_LOGIN, accepted: the rating comes from the database.  The check that  *)
(* nobody uses the account reads the User objects of all but the newest     *)
(* connection, those deleted at a disconnect too.                           *)
Login(u) ==
  /\ Serving
  /\ conn[u] = "open"
  /\ \E m \in Mmr : mmr' = [mmr EXCEPT ![u] = m]
  /\ MayCrash(\E v, w \in User : v < w /\ conn[v] = "gone" /\ conn[w] # "none")
  /\ UNCHANGED <<conn, matchList, timerVars, asked, told, finds, paired,
                 stalled>>

(* CL_FIND_ROOM.  map::insert keeps an entry that is there.  The worker     *)
(* takes no lock: an insert into the list while the timer thread walks or   *)
(* changes it may be lost or stop the process.                              *)
FindRoom(u) ==
  /\ Serving
  /\ conn[u] = "open"
  /\ finds[u] < MaxFinds[u]
  /\ finds' = [finds EXCEPT ![u] = @ + 1]
  /\ \/ Waiting(u) /\ UNCHANGED <<matchList, raced>>
     \/ /\ ~Waiting(u)
        /\ matchList' = [matchList EXCEPT ![u] = [mmr |-> mmr[u], waited |-> 0]]
        /\ raced' = IF scanning THEN raced \cup {u} ELSE raced
     \/ scanning /\ ~Waiting(u) /\ UNCHANGED <<matchList, raced>>
  /\ MayCrash(scanning /\ ~Waiting(u))
  /\ UNCHANGED <<userVars, scanning, asked, told, paired, stalled>>

(* The worker notices that a client has closed its connection, by a receive *)
(* of no bytes or by error 64; the entry in the list stays.  With any other *)
(* error it comes to error_display before that.                             *)
Disconnect(u) ==
  /\ Serving
  /\ conn[u] = "open"
  /\ \/ conn' = [conn EXCEPT ![u] = "gone"] /\ UNCHANGED stalled
     \/ stalled' = TRUE /\ UNCHANGED conn
  /\ UNCHANGED <<mmr, matchList, timerVars, asked, told, finds, paired, crashed>>

(* A send that was under way when the connection was closed fails: no bytes *)
(* again, so the worker deletes user_info a second time, or an error on     *)
(* which it stalls.                                                         *)
SendFails(u) ==
  /\ Serving
  /\ conn[u] = "gone"
  /\ \/ crashed' \in BOOLEAN /\ UNCHANGED stalled
     \/ stalled' = TRUE /\ UNCHANGED crashed
  /\ UNCHANGED <<userVars, matchList, timerVars, asked, told, finds, paired>>

(* BL_ROOMREADY, the battle server's answer to the oldest request: both     *)
(* users are told, in order; a send to a closed socket never comes back.    *)
(* Mutant: only the first is told.                                          *)
ToldFirst(p) == {p[1]}

Told(p) == IF conn[p[1]] = "gone" THEN {} ELSE
           IF conn[p[2]] = "gone" THEN {p[1]} ELSE {p[1], p[2]}

RoomReady ==
  /\ Serving
  /\ asked # <<>>
  /\ told' = [u \in User |-> IF u \in Told(Head(asked)) THEN told[u] + 1
                                                       ELSE told[u]]
  /\ stalled' = \E i \in 1..2 : conn[Head(asked)[i]] = "gone"
  /\ asked' = IF stalled' THEN asked ELSE Tail(asked)
  /\ UNCHANGED <<userVars, matchList, timerVars, finds, paired, crashed>>

-----------------------------------------------------------------------------
(* The timer thread takes the lock when the list is not empty. *)
BeginScan ==
  /\ ~crashed /\ ~scanning
  /\ \E u \in User : Waiting(u)
  /\ scanning' = TRUE
  /\ raced' = {}
  /\ UNCHANGED <<userVars, matchList, asked, told, finds, paired, stalled,
                 crashed>>

(* The difference of ratings a user accepts grows with the wait.  Mutant:   *)
(* it does not.                                                             *)
GapFixed(u) == mmr_hard_gap

Gap(u) == matchList[u].waited + mmr_hard_gap

(* The pair MatchingUser finds in the part of the list it sees, if any: the *)
(* first user who accepts another, with the first of those, by id.          *)
Accepts(u, seen) == {v \in seen \ {u} :
                       Dist(matchList[v].mmr, matchList[u].mmr) < Gap(u)}

IsFirst(u, s) == u \in s /\ \A v \in s : u <= v

Pairs(seen) ==
  {p \in seen \X seen :
     /\ IsFirst(p[1], {u \in seen : Accepts(u, seen) # {}})
     /\ IsFirst(p[2], Accepts(p[1], seen))}

(* Mutant: only the first of the pair is taken from the list. *)
ErasedFirst(p) == [matchList EXCEPT ![p[1]] = NotWaiting]

Erased(p) == [matchList EXCEPT ![p[1]] = NotWaiting, ![p[2]] = NotWaiting]

(* MatchingUser asks for a room for the pair, erases both and returns; a    *)
(* user inserted meanwhile may be seen or not.                              *)
EndScan ==
  /\ ~crashed /\ scanning
  /\ scanning' = FALSE
  /\ raced' = {}
  /\ \E unseen \in SUBSET raced :
       LET seen == {u \in User : Waiting(u)} \ unseen IN
       IF Pairs(seen) = {}
       THEN UNCHANGED <<matchList, asked, paired>>
       ELSE \E p \in Pairs(seen) :
              /\ asked' = Append(asked, p)
              /\ matchList' = Erased(p)
              /\ paired' = [paired EXCEPT ![p[1]] = @ + 1, ![p[2]] = @ + 1]
  /\ UNCHANGED <<userVars, told, finds, stalled, crashed>>

(* A second passes for everybody in the list. *)
Elapse ==
  /\ ~crashed
  /\ matchList' = [u \in User |->
       IF Waiting(u) /\ matchList[u].waited < MaxWait
       THEN [matchList[u] EXCEPT !.waited = @ + 1] ELSE matchList[u]]
  /\ UNCHANGED <<userVars, timerVars, asked, told, finds, paired, stalled,
                 crashed>>

-----------------------------------------------------------------------------
Packet(u) == \/ ClientAccept(u) \/ Login(u) \/ FindRoom(u)
             \/ Disconnect(u) \/ SendFails(u)

Next == \/ \E u \in User : Packet(u)
        \/ RoomReady \/ BeginScan \/ EndScan \/ Elapse

Spec == Init /\ [][Next]_vars

(* Time passes and the timer thread goes on scanning. *)
FairSpec == Spec /\ WF_vars(Elapse) /\ WF_vars(BeginScan) /\ WF_vars(EndScan)

-----------------------------------------------------------------------------
(* A user is paired at most once for every FIND_ROOM sent, whatever is      *)
(* inserted during a scan: nobody who is in the list is also still owed     *)
(* the match of an earlier pair.                                            *)
PairedOnce ==
  /\ \A u \in User : paired[u] + (IF Waiting(u) THEN 1 ELSE 0) <= finds[u]
  /\ \A k \in 1..Len(asked) : asked[k][1] # asked[k][2]

(* Every pair is on its way to the battle server or both users have been    *)
(* told, unless the worker has stalled: no one of a pair waits in a room    *)
(* for another who has not been told.                                       *)
PairsAreTold ==
  ~stalled =>
    \A u \in User :
      paired[u] = told[u] + Cardinality({k \in 1..Len(asked) :
                                           u \in {asked[k][1], asked[k][2]}})

(* However far apart their ratings are, users do not go on waiting beside   *)
(* each other: again and again at most one is left in the list.             *)
WaitersAreMatched ==
  []<>(crashed \/ Cardinality({u \in User : Waiting(u)}) <= 1)
=============================================================================
