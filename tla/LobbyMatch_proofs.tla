--------------------------- MODULE LobbyMatch_proofs ---------------------------
(***************************************************************************)
(* Theorems about LobbyMatch, for every number of users and whatever       *)
(* ratings and bounds.                                                     *)
(***************************************************************************)
EXTENDS LobbyMatch, SequenceTheorems, FiniteSetTheorems, FunctionTheorems, TLAPS

Bit(b) == IF b THEN 1 ELSE 0

(* What has been paid for with a FIND_ROOM: each pair and the wait. *)
Owed(u) == paired[u] + Bit(Waiting(u)) <= finds[u]

PairOfTwo(p) == p[1] # p[2]

Inv == /\ TypeOK
       /\ \A u \in User : Owed(u)
       /\ \A k \in 1..Len(asked) : PairOfTwo(asked[k])

-----------------------------------------------------------------------------
LEMMA EntryType ==
  /\ \A m \in Mmr \cup {UNSETMMR} :
       /\ [mmr |-> m, waited |-> 0] \in Entry
       /\ [mmr |-> m, waited |-> 0] # NotWaiting
  /\ \A e \in Entry : e.waited < MaxWait =>
       /\ [e EXCEPT !.waited = @ + 1] \in Entry
       /\ [e EXCEPT !.waited = @ + 1] # NotWaiting
<1>1. 0 \in 0..MaxWait /\ MaxWait \in Nat
  BY MmrAssumption
<1>2. ASSUME NEW m \in Mmr \cup {UNSETMMR}
      PROVE  /\ [mmr |-> m, waited |-> 0] \in Entry
             /\ [mmr |-> m, waited |-> 0] # NotWaiting
  BY <1>1 DEF Entry, NotWaiting
<1>3. ASSUME NEW e \in Entry, e.waited < MaxWait
      PROVE  /\ [e EXCEPT !.waited = @ + 1] \in Entry
             /\ [e EXCEPT !.waited = @ + 1] # NotWaiting
  BY <1>1, <1>3 DEF Entry, NotWaiting
<1> QED
  BY <1>2, <1>3

(* The two of a pair MatchingUser finds are different users who wait. *)
LEMMA PairsWait ==
  ASSUME NEW seen \in SUBSET User, NEW p \in Pairs(seen)
  PROVE  p \in seen \X seen /\ PairOfTwo(p)
BY DEF Pairs, IsFirst, Accepts, PairOfTwo

LEMMA InitInv == Init => Inv
<1> SUFFICES ASSUME Init PROVE Inv
  OBVIOUS
<1>1. TypeOK
  <2>1. <<>> \in Seq(User \X User)
    BY EmptySeq
  <2> QED
    BY <2>1 DEF Init, TypeOK
<1>2. ASSUME NEW u \in User PROVE Owed(u)
  BY DEF Init, Owed, Bit, Waiting
<1>3. Len(asked) = 0
  BY EmptySeq DEF Init
<1> QED
  BY <1>1, <1>2, <1>3 DEF Inv

(* Steps that touch neither the list nor the pairs. *)
LEMMA SameList ==
  ASSUME Inv, UNCHANGED <<matchList, asked, finds, paired>>, TypeOK'
  PROVE  Inv'
BY DEF Inv, Owed, Bit, Waiting, PairOfTwo

LEMMA PacketInv ==
  ASSUME Inv, NEW u \in User, ClientAccept(u) \/ Login(u) \/ Disconnect(u) \/ SendFails(u)
  PROVE  Inv'
<1>1. CASE ClientAccept(u)
  BY <1>1, SameList DEF Inv, TypeOK, ClientAccept, timerVars
<1>2. CASE Login(u)
  <2>1. crashed' \in BOOLEAN
    BY <1>2 DEF Login, MayCrash
  <2>2. mmr' \in [User -> Mmr \cup {UNSETMMR}]
    BY <1>2 DEF Inv, TypeOK, Login
  <2> QED
    BY <1>2, <2>1, <2>2, SameList DEF Inv, TypeOK, Login, timerVars
<1>3. CASE Disconnect(u)
  BY <1>3, SameList DEF Inv, TypeOK, Disconnect, timerVars
<1>4. CASE SendFails(u)
  BY <1>4, SameList DEF Inv, TypeOK, SendFails, userVars, timerVars
<1> QED
  BY <1>1, <1>2, <1>3, <1>4

LEMMA FindRoomInv ==
  ASSUME Inv, NEW u \in User, FindRoom(u)
  PROVE  Inv'
<1> DEFINE entry == [mmr |-> mmr[u], waited |-> 0]
<1>1. /\ mmr[u] \in Mmr \cup {UNSETMMR}
      /\ finds \in [User -> Nat] /\ paired \in [User -> Nat]
      /\ matchList \in [User -> Entry \cup {NotWaiting}]
  BY DEF Inv, TypeOK
<1>2. entry \in Entry /\ entry # NotWaiting
  BY <1>1, EntryType
<1> HIDE DEF entry
<1>3. /\ finds' = [finds EXCEPT ![u] = @ + 1]
      /\ UNCHANGED <<userVars, scanning, asked, told, paired, stalled>>
  BY DEF FindRoom
<1>4. \/ UNCHANGED matchList
      \/ ~Waiting(u) /\ matchList' = [matchList EXCEPT ![u] = entry]
  BY DEF FindRoom, entry
<1>5. raced' = raced \/ raced' = raced \cup {u}
  BY DEF FindRoom
<1>6. TypeOK'
  <2>1. crashed' \in BOOLEAN
    BY DEF FindRoom, MayCrash
  <2>2. raced' \subseteq User
    BY <1>5 DEF Inv, TypeOK
  <2>3. matchList' \in [User -> Entry \cup {NotWaiting}]
    BY <1>1, <1>2, <1>4
  <2>4. finds' \in [User -> Nat]
    BY <1>1, <1>3
  <2> QED
    BY <1>3, <2>1, <2>2, <2>3, <2>4 DEF Inv, TypeOK, userVars
<1>7. ASSUME NEW v \in User PROVE Owed(v)'
  <2>1. paired[v] + Bit(Waiting(v)) <= finds[v]
    BY DEF Inv, Owed
  <2>2. paired'[v] = paired[v]
    BY <1>3
  <2>3. CASE v = u
    <3>1. finds'[v] = finds[v] + 1
      BY <1>1, <1>3, <2>3
    <3>2. CASE UNCHANGED matchList
      BY <1>1, <2>1, <2>2, <3>1, <3>2 DEF Owed, Bit, Waiting
    <3>3. CASE ~Waiting(u)
      <4>1. paired[v] <= finds[v]
        BY <1>1, <2>1, <2>3, <3>3 DEF Bit
      <4>2. Bit(Waiting(v)') \in {0, 1}
        BY DEF Bit
      <4>3. paired'[v] + Bit(Waiting(v)') <= finds'[v]
        BY <1>1, <2>2, <3>1, <4>1, <4>2
      <4> QED
        BY <4>3 DEF Owed, Bit
    <3> QED
      BY <1>4, <3>2, <3>3
  <2>4. CASE v # u
    <3>1. finds'[v] = finds[v] /\ matchList'[v] = matchList[v]
      BY <1>1, <1>3, <1>4, <2>4
    <3> QED
      BY <2>1, <2>2, <3>1 DEF Owed, Bit, Waiting
  <2> QED
    BY <2>3, <2>4
<1> QED
  BY <1>3, <1>6, <1>7 DEF Inv, PairOfTwo

LEMMA RoomReadyInv == ASSUME Inv, RoomReady PROVE Inv'
<1>1. /\ asked # <<>> /\ asked \in Seq(User \X User)
      /\ told \in [User -> Nat]
      /\ UNCHANGED <<userVars, matchList, timerVars, finds, paired, crashed>>
      /\ \A k \in 1..Len(asked) : PairOfTwo(asked[k])
  BY DEF RoomReady, Inv, TypeOK
<1>2. /\ Tail(asked) \in Seq(User \X User)
      /\ Len(Tail(asked)) = Len(asked) - 1
      /\ \A k \in 1..Len(Tail(asked)) : Tail(asked)[k] = asked[k + 1]
  BY <1>1, HeadTailProperties
<1>3. Len(asked) \in Nat
  BY <1>1, LenProperties
<1>4. \A k \in 1..Len(Tail(asked)) : PairOfTwo(Tail(asked)[k])
  <2> SUFFICES ASSUME NEW k \in 1..Len(Tail(asked))
               PROVE  PairOfTwo(Tail(asked)[k])
    OBVIOUS
  <2>1. k + 1 \in 1..Len(asked)
    BY <1>2, <1>3
  <2>2. PairOfTwo(asked[k + 1]) /\ Tail(asked)[k] = asked[k + 1]
    BY <1>1, <1>2, <2>1
  <2> QED
    BY <2>2
<1>5. asked' = asked \/ asked' = Tail(asked)
  BY DEF RoomReady
<1>6. asked' \in Seq(User \X User)
  BY <1>1, <1>2, <1>5
<1>7. \A k \in 1..Len(asked') : PairOfTwo(asked'[k])
  BY <1>1, <1>4, <1>5
<1>8. told' \in [User -> Nat] /\ stalled' \in BOOLEAN
  <2>1. ASSUME NEW u \in User
        PROVE  (IF u \in Told(Head(asked)) THEN told[u] + 1 ELSE told[u]) \in Nat
    BY <1>1
  <2> QED
    BY <2>1 DEF RoomReady
<1>9. TypeOK'
  BY <1>1, <1>6, <1>8 DEF Inv, TypeOK, userVars, timerVars
<1>10. ASSUME NEW u \in User PROVE Owed(u)'
  BY <1>1 DEF Inv, Owed, Bit, Waiting
<1> QED
  BY <1>7, <1>9, <1>10 DEF Inv, PairOfTwo

LEMMA EndScanInv == ASSUME Inv, EndScan PROVE Inv'
<1>1. PICK unseen \in SUBSET raced :
        LET seen == {u \in User : Waiting(u)} \ unseen IN
        IF Pairs(seen) = {}
        THEN UNCHANGED <<matchList, asked, paired>>
        ELSE \E p \in Pairs(seen) :
               /\ asked' = Append(asked, p)
               /\ matchList' = Erased(p)
               /\ paired' = [paired EXCEPT ![p[1]] = @ + 1, ![p[2]] = @ + 1]
  BY DEF EndScan
<1> DEFINE seen == {u \in User : Waiting(u)} \ unseen
<1>2. /\ scanning' = FALSE /\ raced' = {}
      /\ UNCHANGED <<userVars, told, finds, stalled, crashed>>
  BY DEF EndScan
<1>3. CASE UNCHANGED <<matchList, asked, paired>>
  BY <1>2, <1>3, SameList DEF Inv, TypeOK, userVars
<1>4. ASSUME NEW p \in Pairs(seen),
             asked' = Append(asked, p),
             matchList' = Erased(p),
             paired' = [paired EXCEPT ![p[1]] = @ + 1, ![p[2]] = @ + 1]
      PROVE  Inv'
  <2>1. /\ p \in User \X User /\ p[1] # p[2]
        /\ Waiting(p[1]) /\ Waiting(p[2])
    BY PairsWait DEF PairOfTwo
  <2>2. /\ paired \in [User -> Nat] /\ finds \in [User -> Nat]
        /\ matchList \in [User -> Entry \cup {NotWaiting}]
        /\ asked \in Seq(User \X User)
    BY DEF Inv, TypeOK
  <2>3. p[1] \in User /\ p[2] \in User
    BY <2>1
  <2>4. \A u \in User :
          /\ paired'[u] = paired[u] + (IF u \in {p[1], p[2]} THEN 1 ELSE 0)
          /\ matchList'[u] = IF u \in {p[1], p[2]} THEN NotWaiting ELSE matchList[u]
    BY <1>4, <2>1, <2>2, <2>3 DEF Erased
  <2>5. paired' \in [User -> Nat]
    BY <1>4, <2>1, <2>2, <2>3
  <2>6. matchList' \in [User -> Entry \cup {NotWaiting}]
    BY <1>4, <2>2 DEF Erased
  <2>7. /\ asked' \in Seq(User \X User)
        /\ Len(asked') = Len(asked) + 1
        /\ \A k \in 1..Len(asked) : asked'[k] = asked[k]
        /\ asked'[Len(asked) + 1] = p
    BY <1>4, <2>1, <2>2, AppendProperties
  <2>8. TypeOK'
    BY <1>2, <2>5, <2>6, <2>7 DEF Inv, TypeOK, userVars
  <2>9. ASSUME NEW u \in User PROVE Owed(u)'
    <3>1. paired[u] + Bit(Waiting(u)) <= finds[u] /\ finds'[u] = finds[u]
      BY <1>2 DEF Inv, Owed
    <3>2. CASE u \in {p[1], p[2]}
      <4>1. Waiting(u) /\ ~Waiting(u)'
        BY <2>1, <2>4, <3>2 DEF Waiting
      <4>2. paired[u] + 1 <= finds[u]
        BY <3>1, <4>1 DEF Bit
      <4>3. paired'[u] = paired[u] + 1
        BY <2>4, <3>2
      <4>4. paired'[u] + 0 <= finds'[u]
        BY <2>2, <3>1, <4>2, <4>3
      <4> QED
        BY <4>1, <4>4 DEF Owed, Bit
    <3>3. CASE u \notin {p[1], p[2]}
      <4>1. paired'[u] = paired[u] + 0 /\ matchList'[u] = matchList[u]
        BY <2>4, <3>3
      <4>2. paired'[u] = paired[u]
        BY <2>2, <4>1
      <4> QED
        BY <3>1, <4>1, <4>2 DEF Owed, Bit, Waiting
    <3> QED
      BY <3>2, <3>3
  <2>10. ASSUME NEW k \in 1..Len(asked') PROVE PairOfTwo(asked'[k])
    <3>1. Len(asked) \in Nat
      BY <2>2, LenProperties
    <3>2. CASE k \in 1..Len(asked)
      BY <2>7, <3>2 DEF Inv
    <3>3. CASE k = Len(asked) + 1
      BY <2>1, <2>7, <3>3 DEF PairOfTwo
    <3> QED
      BY <2>7, <3>1, <3>2, <3>3
  <2> QED
    BY <2>8, <2>9, <2>10 DEF Inv, PairOfTwo
<1> QED
  BY <1>1, <1>3, <1>4

LEMMA ElapseInv == ASSUME Inv, Elapse PROVE Inv'
<1> DEFINE Older(u) == IF Waiting(u) /\ matchList[u].waited < MaxWait
                       THEN [matchList[u] EXCEPT !.waited = @ + 1]
                       ELSE matchList[u]
<1>1. /\ matchList' = [u \in User |-> Older(u)]
      /\ UNCHANGED <<userVars, timerVars, asked, told, finds, paired, stalled,
                     crashed>>
  BY DEF Elapse
<1>2. matchList \in [User -> Entry \cup {NotWaiting}]
  BY DEF Inv, TypeOK
<1>3. ASSUME NEW u \in User
      PROVE  /\ Older(u) \in Entry \cup {NotWaiting}
             /\ Older(u) # NotWaiting <=> Waiting(u)
  <2>1. CASE Waiting(u) /\ matchList[u].waited < MaxWait
    <3>1. matchList[u] \in Entry
      BY <1>2, <2>1 DEF Waiting
    <3> QED
      BY <2>1, <3>1, EntryType
  <2>2. CASE ~(Waiting(u) /\ matchList[u].waited < MaxWait)
    BY <1>2, <2>2 DEF Waiting
  <2> QED
    BY <2>1, <2>2
<1> HIDE DEF Older
<1>4. /\ matchList' \in [User -> Entry \cup {NotWaiting}]
      /\ \A u \in User : Waiting(u)' <=> Waiting(u)
  BY <1>1, <1>3 DEF Waiting
<1>5. TypeOK'
  BY <1>1, <1>4 DEF Inv, TypeOK, userVars, timerVars
<1>6. ASSUME NEW u \in User PROVE Owed(u)'
  <2>1. Bit(Waiting(u)') = Bit(Waiting(u))
    BY <1>4 DEF Bit
  <2> QED
    BY <1>1, <2>1 DEF Inv, Owed, Bit
<1> QED
  BY <1>1, <1>5, <1>6 DEF Inv, PairOfTwo

-----------------------------------------------------------------------------
(* Inv is an inductive invariant of the lobby. *)
THEOREM InvCorrect == Spec => []Inv
<1>1. Init => Inv
  BY InitInv
<1>2. Inv /\ [Next]_vars => Inv'
  <2> SUFFICES ASSUME Inv, [Next]_vars PROVE Inv'
    OBVIOUS
  <2>1. ASSUME NEW u \in User, Packet(u) PROVE Inv'
    BY <2>1, PacketInv, FindRoomInv DEF Packet
  <2>2. CASE BeginScan
    BY <2>2, SameList DEF BeginScan, Inv, TypeOK, userVars
  <2>3. CASE RoomReady \/ EndScan \/ Elapse
    BY <2>3, RoomReadyInv, EndScanInv, ElapseInv
  <2>4. CASE UNCHANGED vars
    BY <2>4, SameList DEF vars, userVars, timerVars, Inv, TypeOK
  <2> QED
    BY <2>1, <2>2, <2>3, <2>4 DEF Next
<1> QED
  BY <1>1, <1>2, PTL DEF Spec

(* The lobby's variables have their types: in particular no entry of the    *)
(* list waits longer than is told apart.                                    *)
THEOREM TypeCorrect == Spec => []TypeOK
<1>1. Inv => TypeOK
  BY DEF Inv
<1> QED
  BY <1>1, InvCorrect, PTL

(* Nobody is paired more often than asked for, in whatever order packets,   *)
(* scans and disconnects come and whatever a racing insert does.            *)
THEOREM PairedOnceCorrect == Spec => []PairedOnce
<1>1. Inv => PairedOnce
  BY DEF Inv, PairedOnce, Owed, Bit, PairOfTwo
<1> QED
  BY <1>1, InvCorrect, PTL

-----------------------------------------------------------------------------
(* The requests of q that are for user u: how many places of the queue.     *)
Requests(q, u) == {k \in 1..Len(q) : u \in {q[k][1], q[k][2]}}

ToldInv == ~stalled => \A u \in User :
             paired[u] = told[u] + Cardinality(Requests(asked, u))

LEMMA RequestsFinite ==
  ASSUME NEW q \in Seq(User \X User), NEW u
  PROVE  /\ IsFiniteSet(Requests(q, u))
         /\ Cardinality(Requests(q, u)) \in Nat
         /\ Len(q) \in Nat
<1>1. Len(q) \in Nat
  BY LenProperties
<1>2. IsFiniteSet(1..Len(q))
  BY <1>1, FS_Interval
<1>3. Requests(q, u) \in SUBSET (1..Len(q))
  BY DEF Requests
<1>4. IsFiniteSet(Requests(q, u))
  BY <1>2, <1>3, FS_Subset
<1> QED
  BY <1>1, <1>4, FS_CardinalityType

(* A new request counts once for each of its pair. *)
LEMMA RequestsAppend ==
  ASSUME NEW q \in Seq(User \X User), NEW p \in User \X User, NEW u
  PROVE  Cardinality(Requests(Append(q, p), u))
           = Cardinality(Requests(q, u)) + Bit(u \in {p[1], p[2]})
<1>1. /\ Len(Append(q, p)) = Len(q) + 1 /\ Len(q) \in Nat
      /\ \A k \in 1..Len(q) : Append(q, p)[k] = q[k]
      /\ Append(q, p)[Len(q) + 1] = p
  BY AppendProperties, LenProperties
<1>2. /\ IsFiniteSet(Requests(q, u)) /\ Cardinality(Requests(q, u)) \in Nat
      /\ Len(q) + 1 \notin Requests(q, u)
  <2>1. Len(q) + 1 \notin Requests(q, u)
    BY <1>1 DEF Requests
  <2> QED
    BY <2>1, RequestsFinite
<1>3. \A k : k \in 1..(Len(q) + 1) <=> k \in 1..Len(q) \/ k = Len(q) + 1
  BY <1>1
<1>4. CASE u \in {p[1], p[2]}
  <2>1. Requests(Append(q, p), u) = Requests(q, u) \cup {Len(q) + 1}
    BY <1>1, <1>3, <1>4 DEF Requests
  <2> QED
    BY <1>2, <1>4, <2>1, FS_AddElement DEF Bit
<1>5. CASE u \notin {p[1], p[2]}
  <2>1. Requests(Append(q, p), u) = Requests(q, u)
    BY <1>1, <1>3, <1>5 DEF Requests
  <2> QED
    BY <1>2, <1>5, <2>1 DEF Bit
<1> QED
  BY <1>4, <1>5

(* The oldest request taken off counts once less for each of its pair: the  *)
(* other places only move up.                                               *)
LEMMA RequestsTail ==
  ASSUME NEW q \in Seq(User \X User), q # <<>>, NEW u
  PROVE  Cardinality(Requests(q, u))
           = Cardinality(Requests(Tail(q), u))
               + Bit(u \in {Head(q)[1], Head(q)[2]})
<1> DEFINE S == Requests(q, u) \ {1}
           T == Requests(Tail(q), u)
           f == [k \in S |-> k - 1]
<1>1. /\ Tail(q) \in Seq(User \X User)
      /\ Len(Tail(q)) = Len(q) - 1
      /\ \A k \in 1..Len(Tail(q)) : Tail(q)[k] = q[k + 1]
      /\ Head(q) = q[1] /\ Len(q) \in Nat /\ Len(q) # 0
  BY HeadTailProperties, LenProperties, EmptySeq
<1>2. /\ IsFiniteSet(Requests(q, u)) /\ Cardinality(Requests(q, u)) \in Nat
  BY RequestsFinite
<1>3. IsFiniteSet(S) /\ Cardinality(S) =
        IF 1 \in Requests(q, u) THEN Cardinality(Requests(q, u)) - 1
                                ELSE Cardinality(Requests(q, u))
  BY <1>2, FS_RemoveElement
<1>4. 1 \in Requests(q, u) <=> u \in {Head(q)[1], Head(q)[2]}
  BY <1>1 DEF Requests
<1>5. \A k : k \in T <=> k \in Int /\ k + 1 \in S
  BY <1>1 DEF Requests
<1>6. \A k \in S : k \in Int /\ k - 1 \in T
  <2>1. \A k \in S : k \in Int /\ (k - 1) + 1 = k
    BY <1>1 DEF Requests
  <2> QED
    BY <1>5, <2>1
<1> HIDE DEF S, T
<1>7. f \in [S -> T] /\ \A k \in S : f[k] = k - 1
  BY <1>6
<1>8. /\ \A a, b \in S : f[a] = f[b] => a = b
      /\ \A t \in T : \E k \in S : f[k] = t
  BY <1>5, <1>6, <1>7
<1> HIDE DEF f
<1>9. f \in Bijection(S, T)
  BY <1>7, <1>8, Fun_IsBij
<1>10. Cardinality(T) = Cardinality(S)
  BY <1>3, <1>9, Fun_ExistsBij, FS_Bijection
<1>11. Cardinality(Requests(q, u)) =
         Cardinality(T) + Bit(u \in {Head(q)[1], Head(q)[2]})
  BY <1>2, <1>3, <1>4, <1>10 DEF Bit
<1> QED
  BY <1>11 DEF T

LEMMA ToldEndScan == ASSUME Inv, ToldInv, EndScan PROVE ToldInv'
<1>1. /\ told' = told /\ stalled' = stalled
      /\ \/ UNCHANGED <<asked, paired>>
         \/ \E seen \in SUBSET User : \E p \in Pairs(seen) :
              /\ asked' = Append(asked, p)
              /\ paired' = [paired EXCEPT ![p[1]] = @ + 1, ![p[2]] = @ + 1]
  <2>1. \A unseen : {u \in User : Waiting(u)} \ unseen \in SUBSET User
    OBVIOUS
  <2> QED
    BY <2>1 DEF EndScan
<1>2. CASE UNCHANGED <<asked, paired>>
  BY <1>1, <1>2 DEF ToldInv
<1>3. ASSUME NEW seen \in SUBSET User, NEW p \in Pairs(seen),
             asked' = Append(asked, p),
             paired' = [paired EXCEPT ![p[1]] = @ + 1, ![p[2]] = @ + 1]
      PROVE  ToldInv'
  <2>1. /\ p \in User \X User /\ p[1] # p[2]
        /\ p[1] \in User /\ p[2] \in User
    BY PairsWait DEF PairOfTwo
  <2>2. /\ paired \in [User -> Nat] /\ told \in [User -> Nat]
        /\ asked \in Seq(User \X User)
    BY DEF Inv, TypeOK
  <2>3. \A u \in User : paired'[u] = paired[u] + Bit(u \in {p[1], p[2]})
    BY <1>3, <2>1, <2>2 DEF Bit
  <2>4. \A u \in User :
          /\ Cardinality(Requests(asked', u))
               = Cardinality(Requests(asked, u)) + Bit(u \in {p[1], p[2]})
          /\ Cardinality(Requests(asked, u)) \in Nat
    BY <1>3, <2>1, <2>2, RequestsAppend, RequestsFinite
  <2>5. \A u \in User : Bit(u \in {p[1], p[2]}) \in Nat
    BY DEF Bit
  <2>6. ASSUME ~stalled, NEW u \in User
        PROVE  paired'[u] = told'[u] + Cardinality(Requests(asked', u))
    BY <1>1, <2>2, <2>3, <2>4, <2>5, <2>6 DEF ToldInv
  <2> QED
    BY <1>1, <2>6 DEF ToldInv
<1> QED
  BY <1>1, <1>2, <1>3

LEMMA ToldRoomReady == ASSUME Inv, ToldInv, RoomReady PROVE ToldInv'
<1> SUFFICES ASSUME ~stalled', NEW u \in User
             PROVE  paired'[u] = told'[u] + Cardinality(Requests(asked', u))
  BY DEF ToldInv
<1> DEFINE p == Head(asked)
<1>1. /\ asked # <<>> /\ asked \in Seq(User \X User)
      /\ told \in [User -> Nat] /\ paired \in [User -> Nat]
      /\ paired' = paired /\ ~stalled
  BY DEF RoomReady, Inv, TypeOK, Serving
<1>2. /\ conn[p[1]] # "gone" /\ conn[p[2]] # "gone"
      /\ asked' = Tail(asked)
  <2>1. 1 \in 1..2 /\ 2 \in 1..2
    OBVIOUS
  <2>2. ~\E i \in 1..2 : conn[p[i]] = "gone"
    BY DEF RoomReady
  <2> QED
    BY <2>1, <2>2 DEF RoomReady
<1>3. Told(p) = {p[1], p[2]}
  BY <1>2 DEF Told
<1>4. told'[u] = told[u] + Bit(u \in {p[1], p[2]})
  BY <1>1, <1>3 DEF RoomReady, Bit
<1>5. Cardinality(Requests(asked, u))
        = Cardinality(Requests(asked', u)) + Bit(u \in {p[1], p[2]})
  BY <1>1, <1>2, RequestsTail
<1>6. Tail(asked) \in Seq(User \X User)
  BY <1>1, HeadTailProperties
<1>7. Cardinality(Requests(asked', u)) \in Nat
  BY <1>2, <1>6, RequestsFinite
<1>8. Bit(u \in {p[1], p[2]}) \in Nat
  BY DEF Bit
<1>9. paired[u] = told[u] + Cardinality(Requests(asked, u))
  BY <1>1 DEF ToldInv
<1> HIDE DEF p
<1> QED
  BY <1>1, <1>4, <1>5, <1>7, <1>8, <1>9

(* Unless the worker hangs in error_display, every pair's request is still   *)
(* to be answered or both users have been told: none of a pair is told alone *)
(* (EndScan, RoomReady with packets, disconnects and failed sends in any     *)
(* order).                                                                   *)
THEOREM PairsAreToldCorrect == Spec => []PairsAreTold
<1>1. Init => ToldInv
  <2>1. \A u : Requests(<<>>, u) = {}
    BY EmptySeq DEF Requests
  <2>2. \A u : Cardinality(Requests(<<>>, u)) = 0
    BY <2>1, FS_EmptySet
  <2> QED
    BY <2>2 DEF Init, ToldInv
<1>2. Inv /\ ToldInv /\ [Next]_vars => ToldInv'
  <2> SUFFICES ASSUME Inv, ToldInv, [Next]_vars PROVE ToldInv'
    OBVIOUS
  <2>1. CASE UNCHANGED <<asked, told, paired>> /\ (stalled => stalled')
    BY <2>1 DEF ToldInv
  <2>2. \/ UNCHANGED <<asked, told, paired>> /\ (stalled => stalled')
        \/ EndScan \/ RoomReady
    BY DEF Next, Packet, ClientAccept, Login, FindRoom, Disconnect, SendFails,
           BeginScan, Elapse, vars
  <2> QED
    BY <2>1, <2>2, ToldEndScan, ToldRoomReady
<1>3. ToldInv => PairsAreTold
  BY DEF ToldInv, PairsAreTold, Requests
<1> QED
  BY <1>1, <1>2, <1>3, InvCorrect, PTL DEF Spec
=============================================================================
