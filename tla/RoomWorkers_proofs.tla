------------------------- MODULE RoomWorkers_proofs -------------------------
(***************************************************************************)
(* Proofs about RoomWorkers, for any number of players, workers, bullets   *)
(* and messages.                                                           *)
(***************************************************************************)
EXTENDS RoomWorkers, SequenceTheorems, FiniteSetTheorems, TLAPS

(* ------------------------------ Sequences ------------------------------ *)

LEMMA EmptyIsSeq == ASSUME NEW S PROVE <<>> \in Seq(S)
  OBVIOUS

(* Taking the first element off. *)
LEMMA TailFacts ==
  ASSUME NEW S, NEW s \in Seq(S), s # <<>>
  PROVE  /\ Tail(s) \in Seq(S)
         /\ Head(s) \in S
         /\ Head(s) = s[1]
         /\ Len(s) \in Nat /\ Len(s) >= 1
         /\ Len(Tail(s)) = Len(s) - 1
         /\ \A i \in 1..Len(Tail(s)) : Tail(s)[i] = s[i + 1]
  BY HeadTailProperties

(* Appending one. *)
LEMMA AppendFacts ==
  ASSUME NEW S, NEW s \in Seq(S), NEW e \in S
  PROVE  /\ Append(s, e) \in Seq(S)
         /\ Len(s) \in Nat
         /\ Len(Append(s, e)) = Len(s) + 1
         /\ \A i \in 1..Len(s) : Append(s, e)[i] = s[i]
         /\ Append(s, e)[Len(s) + 1] = e
  BY AppendProperties

(* One sequence after another. *)
LEMMA ConcatFacts ==
  ASSUME NEW S, NEW s \in Seq(S), NEW t \in Seq(S)
  PROVE  /\ Len(s) \in Nat /\ Len(t) \in Nat
         /\ Len(s \o t) = Len(s) + Len(t)
         /\ \A i \in 1..Len(s) : (s \o t)[i] = s[i]
         /\ \A i \in 1..(Len(s) + Len(t)) :
              i > Len(s) => (s \o t)[i] = t[i - Len(s)]
  OBVIOUS

LEMMA UpToNext ==
  ASSUME NEW n \in Nat, NEW k \in 1..(n + 1)
  PROVE  k = n + 1 \/ k \in 1..n
  OBVIOUS

(* ------------------------------ The types ------------------------------ *)

LEMMA Numbers == /\ MAX_BULLET \in Nat /\ MAX_BULLET >= 1
                 /\ MaxMsg \in Nat /\ MaxFlush \in Nat
  BY BoundAssumption DEF NoBullet

LEMMA Garbled == Garbage \in Message \cup {Garbage}
  OBVIOUS

(* Update counts on the room it found when it began: until it schedules its *)
(* flush, flushes can only become fewer.                                    *)
FlushFits == stage \notin {"idle", "stuck"} => flushDue < MaxFlush

LEMMA InitType == Init => TypeOK /\ FlushFits
<1> SUFFICES ASSUME Init PROVE TypeOK /\ FlushFits
  OBVIOUS
<1>1. pushed \in [Client -> Seq(0..2)] /\ handled \in [Client -> Seq(1..MaxMsg)]
  BY EmptyIsSeq DEF Init
<1>2. batch \in [Worker -> Seq(Packet)]
  BY EmptyIsSeq DEF Init
<1>3. /\ recvQ \in Seq(Message \cup {Garbage})
      /\ copied \in Seq(Message \cup {Garbage})
      /\ sendQ \in Seq(Packet) /\ bulletQ \in Seq(Bullet)
      /\ air \in Seq(Bullet \cup {NoBullet, Unknown})
  BY EmptyIsSeq DEF Init
<1>4. /\ stage \in Stage /\ shot \in Nat /\ flushDue \in 0..MaxFlush
      /\ bullets \in [Bullet -> BOOLEAN] /\ queued \in Nat
  BY Numbers DEF Init, Stage
<1> QED
  BY <1>1, <1>2, <1>3, <1>4 DEF Init, TypeOK, FlushFits

(* The packets of one PushSendMsg per player. *)
LEMMA PushType ==
  ASSUME TypeOK, NEW to, IsFiniteSet(to), Push(to)
  PROVE  sendQ' \in Seq(Packet) /\ queued' \in Nat
<1> DEFINE n == Cardinality(to)
           new == [i \in 1..n |-> queued + i]
<1>1. n \in Nat /\ queued \in Nat
  BY FS_CardinalityType DEF TypeOK
<1>2. new \in Seq(Packet)
  BY <1>1 DEF Packet
<1>3. sendQ \in Seq(Packet)
  BY DEF TypeOK
<1>4. sendQ \o new \in Seq(Packet)
  <2> HIDE DEF new
  <2> QED
    BY <1>2, <1>3
<1> QED
  BY <1>1, <1>4 DEF Push

(* The message Update is at. *)
LEMMA HeadType ==
  ASSUME TypeOK, copied # <<>>
  PROVE  /\ Head(copied) \in Message \cup {Garbage}
         /\ Tail(copied) \in Seq(Message \cup {Garbage})
  BY TailFacts DEF TypeOK

LEMMA DoneType ==
  ASSUME TypeOK, copied # <<>>, NEW m \in Message, Done(m)
  PROVE  /\ copied' \in Seq(Message \cup {Garbage})
         /\ shot' \in Nat
         /\ handled' \in [Client -> Seq(1..MaxMsg)]
<1>1. m.from \in Client /\ m.n \in 1..MaxMsg
  BY DEF Message
<1>2. handled[m.from] \in Seq(1..MaxMsg)
  BY <1>1 DEF TypeOK
<1>3. Append(handled[m.from], m.n) \in Seq(1..MaxMsg)
  BY <1>1, <1>2, AppendFacts
<1>4. copied' \in Seq(Message \cup {Garbage})
  BY HeadType DEF Done, Rest
<1> QED
  BY <1>1, <1>3, <1>4 DEF Done, TypeOK

LEMMA ReceiveType ==
  ASSUME TypeOK, FlushFits, NEW c \in Client, NEW k \in Shots[c], PushMsg(c, k)
  PROVE  TypeOK' /\ FlushFits'
<1> DEFINE m == [from |-> c, n |-> Len(pushed[c]) + 1]
<1>1. k \in 0..2
  BY BoundAssumption
<1>2. pushed[c] \in Seq(0..2)
  BY DEF TypeOK
<1>3. m \in Message
  BY <1>2, Numbers DEF PushMsg, Message
<1>4. pushed' \in [Client -> Seq(0..2)]
  BY <1>1, <1>2, AppendFacts DEF PushMsg, TypeOK
<1>5. recvQ' \in Seq(Message \cup {Garbage})
  <2>1. \A o \in Message \cup {Garbage} : Append(recvQ, o) \in Seq(Message \cup {Garbage})
    BY AppendFacts DEF TypeOK
  <2>2. Earlier \subseteq Message
    BY DEF Earlier
  <2> QED
    BY <1>3, <2>1, <2>2 DEF PushMsg, TypeOK
<1>6. exposed' \subseteq Message
  BY <1>3 DEF PushMsg, TypeOK
<1>7. crashed' \in BOOLEAN /\ recvRaced' \in BOOLEAN
  BY DEF PushMsg, MayCrash, TypeOK, Meets
<1>8. UNCHANGED <<updateVars, queueVars, flushVars, poolVars>>
  BY DEF PushMsg
<1> QED
  BY <1>4, <1>5, <1>6, <1>7, <1>8
  DEF TypeOK, FlushFits, updateVars, queueVars, flushVars, poolVars

(* The steps of Update before and after the batch. *)
LEMMA CopyType ==
  ASSUME TypeOK, FlushFits,
         BeginCopy \/ EndCopy \/ BeginEmpty \/ EndEmpty \/ EndUpdate \/ ProcUnknown
  PROVE  TypeOK' /\ FlushFits'
<1> USE Numbers DEF TypeOK, FlushFits, Stage, recvVars, updateVars, queueVars, flushVars, poolVars
<1>1. CASE BeginCopy
  BY <1>1 DEF BeginCopy
<1>2. CASE EndCopy
  BY <1>2 DEF EndCopy
<1>3. CASE BeginEmpty
  BY <1>3 DEF BeginEmpty
<1>4. CASE EndEmpty
  BY <1>4, EmptyIsSeq DEF EndEmpty, Emptied
<1>5. CASE EndUpdate
  <2>1. flushDue' \in 0..MaxFlush
    BY <1>5 DEF EndUpdate
  <2> QED
    BY <1>5, <2>1 DEF EndUpdate
<1>6. CASE ProcUnknown
  BY <1>6 DEF ProcUnknown
<1> QED
  BY <1>1, <1>2, <1>3, <1>4, <1>5, <1>6

LEMMA PositionType ==
  ASSUME TypeOK, FlushFits, NEW m \in Message, ProcPosition(m)
  PROVE  TypeOK' /\ FlushFits'
<1>1. IsFiniteSet(Client \ {m.from})
  BY ClientAssumption, FS_Difference
<1>2. sendQ' \in Seq(Packet) /\ queued' \in Nat
  BY <1>1, PushType DEF ProcPosition
<1>3. /\ copied' \in Seq(Message \cup {Garbage})
      /\ shot' \in Nat
      /\ handled' \in [Client -> Seq(1..MaxMsg)]
  BY DoneType DEF ProcPosition
<1> QED
  BY <1>2, <1>3
  DEF ProcPosition, TypeOK, FlushFits, recvVars, flushVars, poolVars

(* GetEmptyBullet. *)
LEMMA GetType ==
  ASSUME TypeOK, NEW b \in Free \cup {NoBullet, Unknown}, GetEmptyBullet(b)
  PROVE  /\ bullets' \in [Bullet -> BOOLEAN] /\ bulletQ' \in Seq(Bullet)
         /\ poolRaced' \in BOOLEAN /\ exhausted' \in BOOLEAN /\ crashed' \in BOOLEAN
         /\ b \in Bullet \cup {NoBullet, Unknown}
<1>1. Free \subseteq Bullet
  BY DEF Free
<1>2. \A x \in Bullet : Append(bulletQ, x) \in Seq(Bullet)
  BY AppendFacts DEF TypeOK
<1> QED
  BY <1>1, <1>2 DEF GetEmptyBullet, MayCrash, TypeOK

LEMMA ShootType ==
  ASSUME TypeOK, FlushFits, NEW m \in Message,
         NEW b \in Free \cup {NoBullet, Unknown}, ShootBullet(m, b)
  PROVE  TypeOK' /\ FlushFits'
<1>1. sendQ' \in Seq(Packet) /\ queued' \in Nat
  BY ClientAssumption, PushType DEF ShootBullet
<1>2. /\ copied' \in Seq(Message \cup {Garbage})
      /\ shot' \in Nat
      /\ handled' \in [Client -> Seq(1..MaxMsg)]
  <2>1. CASE Done(m)
    BY <2>1, DoneType DEF ShootBullet
  <2>2. CASE /\ shot + 1 < pushed[m.from][m.n]
             /\ shot' = shot + 1 /\ UNCHANGED <<copied, handled>>
    BY <2>2 DEF TypeOK
  <2> QED
    BY <2>1, <2>2 DEF ShootBullet
<1>3. /\ bullets' \in [Bullet -> BOOLEAN] /\ bulletQ' \in Seq(Bullet)
      /\ poolRaced' \in BOOLEAN /\ exhausted' \in BOOLEAN /\ crashed' \in BOOLEAN
      /\ b \in Bullet \cup {NoBullet, Unknown}
  BY GetType DEF ShootBullet
<1>4. air' \in Seq(Bullet \cup {NoBullet, Unknown})
  BY <1>3, AppendFacts DEF ShootBullet, TypeOK
<1> QED
  BY <1>1, <1>2, <1>3, <1>4
  DEF ShootBullet, TypeOK, FlushFits, recvVars, flushVars

LEMMA FlushType ==
  ASSUME TypeOK, FlushFits, NEW w \in Worker, Flush(w)
  PROVE  TypeOK' /\ FlushFits'
<1>1. CASE BeginFlush(w)
  <2>1. flushDue' \in 0..MaxFlush /\ flushDue' < flushDue
    BY <1>1, Numbers DEF BeginFlush, TypeOK
  <2>2. batch' \in [Worker -> Seq(Packet)] /\ sendQ' \in Seq(Packet)
    BY <1>1, EmptyIsSeq DEF BeginFlush, Taken, Left, TypeOK
  <2>3. crossed' \in BOOLEAN
    BY <1>1 DEF BeginFlush, TypeOK
  <2> QED
    BY <1>1, <2>1, <2>2, <2>3, Numbers
    DEF BeginFlush, TypeOK, FlushFits, recvVars, updateVars, poolVars
<1>2. CASE SendPacket(w)
  <2>1. batch[w] \in Seq(Packet)
    BY DEF TypeOK
  <2>2. Head(batch[w]) \in Packet /\ Tail(batch[w]) \in Seq(Packet)
    BY <1>2, <2>1, TailFacts DEF SendPacket
  <2>3. batch' \in [Worker -> Seq(Packet)] /\ sent' \subseteq Packet
    BY <1>2, <2>2 DEF SendPacket, TypeOK
  <2>4. overtaken' \in BOOLEAN
    BY <1>2 DEF SendPacket, TypeOK
  <2> QED
    BY <1>2, <2>3, <2>4
    DEF SendPacket, TypeOK, FlushFits, recvVars, updateVars, queueVars, poolVars
<1> QED
  BY <1>1, <1>2 DEF Flush

LEMMA ReleaseType ==
  ASSUME TypeOK, FlushFits, NEW w \in Worker, Release(w),
         ~poolRaced => bulletQ # <<>> \/ releasing = {}
  PROVE  TypeOK' /\ FlushFits'
<1>1. CASE BeginRelease(w)
  <2>1. air' \in Seq(Bullet \cup {NoBullet, Unknown})
    BY <1>1, TailFacts DEF BeginRelease, TypeOK
  <2>2. poolRaced' \in BOOLEAN /\ crashed' \in BOOLEAN
    BY <1>1 DEF BeginRelease, TypeOK, MayCrash
  <2> QED
    BY <1>1, <2>1, <2>2
    DEF BeginRelease, TypeOK, FlushFits, recvVars, updateVars, queueVars, flushVars
<1>2. CASE EndRelease(w)
  <2>1. bullets' \in [Bullet -> BOOLEAN] /\ bulletQ' \in Seq(Bullet)
    <3>1. CASE poolRaced
      BY <1>2, <3>1 DEF EndRelease, TypeOK
    <3>2. CASE ~poolRaced
      <4>1. bulletQ # <<>>
        BY <1>2, <3>2 DEF EndRelease
      <4>2. Tail(bulletQ) \in Seq(Bullet)
        BY <4>1, TailFacts DEF TypeOK
      <4> QED
        BY <1>2, <3>2, <4>2 DEF EndRelease, TypeOK
    <3> QED
      BY <3>1, <3>2
  <2> QED
    BY <1>2, <2>1
    DEF EndRelease, TypeOK, FlushFits, recvVars, updateVars, queueVars, flushVars
<1> QED
  BY <1>1, <1>2 DEF Release

(* ------------------------------ The bullets ---------------------------- *)

(* While no threads have met in the pool, at most one is in SetEmptyBullet, *)
(* the queue holds exactly the marked indices, each once, and the events to *)
(* come give the bullets back in the order of the queue.                    *)
OneReleases   == \A v, w \in releasing : v = w
FrontIsThere  == releasing # {} => bulletQ # <<>>
MarkedQueued  == \A b \in Bullet :
                   bullets[b] <=> \E i \in 1..Len(bulletQ) : bulletQ[i] = b
AirIsQueue    == ~exhausted => air = IF releasing = {} THEN bulletQ ELSE Tail(bulletQ)

PoolInv == ~poolRaced => /\ OneReleases
                         /\ FrontIsThere
                         /\ MarkedQueued
                         /\ Distinct(bulletQ)
                         /\ AirIsQueue

LEMMA InitPool == Init => PoolInv
  BY DEF Init, PoolInv, OneReleases, FrontIsThere, MarkedQueued, Distinct, AirIsQueue

LEMMA PoolSame == PoolInv /\ UNCHANGED poolVars => PoolInv'
  BY DEF PoolInv, OneReleases, FrontIsThere, MarkedQueued, Distinct, AirIsQueue,
         poolVars

LEMMA TailDistinct ==
  ASSUME NEW S, NEW s \in Seq(S), s # <<>>, Distinct(s)
  PROVE  Distinct(Tail(s))
<1> SUFFICES ASSUME NEW i \in 1..Len(Tail(s)), NEW j \in 1..Len(Tail(s)),
                    Tail(s)[i] = Tail(s)[j]
             PROVE  i = j
  BY DEF Distinct
<1>1. /\ Len(s) \in Nat /\ Len(Tail(s)) = Len(s) - 1
      /\ Tail(s)[i] = s[i + 1] /\ Tail(s)[j] = s[j + 1]
  BY TailFacts
<1>2. i + 1 \in 1..Len(s) /\ j + 1 \in 1..Len(s)
  BY <1>1
<1>3. i + 1 = j + 1
  BY <1>1, <1>2 DEF Distinct
<1> QED
  BY <1>3

(* A bullet that is shot while nobody is in SetEmptyBullet. *)
LEMMA ShootPool ==
  ASSUME TypeOK, PoolInv, NEW m \in Message,
         NEW b \in Free \cup {NoBullet, Unknown}, ShootBullet(m, b)
  PROVE  PoolInv'
<1> SUFFICES ASSUME ~poolRaced' PROVE PoolInv'
  BY DEF PoolInv
<1>1. ~poolRaced /\ releasing = {} /\ releasing' = releasing
  BY DEF ShootBullet, GetEmptyBullet
<1>2. bulletQ \in Seq(Bullet)
  BY DEF TypeOK
<1>3. air' = Append(air, b)
  BY DEF ShootBullet
<1>4. CASE Free = {}
  <2>1. UNCHANGED <<bullets, bulletQ>> /\ exhausted'
    BY <1>1, <1>4 DEF ShootBullet, GetEmptyBullet
  <2> QED
    BY <1>1, <2>1
    DEF PoolInv, OneReleases, FrontIsThere, MarkedQueued, Distinct, AirIsQueue
<1>5. CASE Free # {}
  <2>1. /\ b \in Bullet /\ ~bullets[b]
        /\ bullets' = [bullets EXCEPT ![b] = TRUE]
        /\ bulletQ' = Append(bulletQ, b)
    BY <1>1, <1>5 DEF ShootBullet, GetEmptyBullet, Free
  <2>2. /\ Len(bulletQ) \in Nat
        /\ Len(bulletQ') = Len(bulletQ) + 1
        /\ \A i \in 1..Len(bulletQ) : bulletQ'[i] = bulletQ[i]
        /\ bulletQ'[Len(bulletQ) + 1] = b
    BY <1>2, <2>1, AppendFacts
  <2>3. OneReleases' /\ FrontIsThere'
    BY <1>1 DEF OneReleases, FrontIsThere
  <2>4. \A i \in 1..Len(bulletQ) : bulletQ[i] # b
    BY <1>1, <2>1 DEF PoolInv, MarkedQueued
  <2>5. MarkedQueued'
    <3> SUFFICES ASSUME NEW c \in Bullet
                 PROVE  bullets'[c] <=> \E i \in 1..Len(bulletQ') : bulletQ'[i] = c
      BY DEF MarkedQueued
    <3>1. CASE c = b
      BY <3>1, <2>1, <2>2 DEF TypeOK
    <3>2. CASE c # b
      <4>1. bullets'[c] <=> bullets[c]
        BY <3>2, <2>1 DEF TypeOK
      <4>2. bullets[c] <=> \E i \in 1..Len(bulletQ) : bulletQ[i] = c
        BY <1>1 DEF PoolInv, MarkedQueued
      <4>3. (\E i \in 1..Len(bulletQ) : bulletQ[i] = c)
              <=> \E i \in 1..Len(bulletQ') : bulletQ'[i] = c
        BY <2>2, <3>2
      <4> QED
        BY <4>1, <4>2, <4>3
    <3> QED
      BY <3>1, <3>2
  <2>6. Distinct(bulletQ)'
    <3> SUFFICES ASSUME NEW i \in 1..Len(bulletQ'), NEW j \in 1..Len(bulletQ'),
                        bulletQ'[i] = bulletQ'[j]
                 PROVE  i = j
      BY DEF Distinct
    <3>1. i = Len(bulletQ) + 1 \/ i \in 1..Len(bulletQ)
      BY <2>2, UpToNext
    <3>2. j = Len(bulletQ) + 1 \/ j \in 1..Len(bulletQ)
      BY <2>2, UpToNext
    <3> QED
      BY <1>1, <2>2, <2>4, <3>1, <3>2 DEF PoolInv, Distinct
  <2>7. AirIsQueue'
    BY <1>1, <1>3, <1>5, <2>1 DEF PoolInv, AirIsQueue, ShootBullet, GetEmptyBullet
  <2> QED
    BY <2>3, <2>5, <2>6, <2>7 DEF PoolInv
<1> QED
  BY <1>4, <1>5

(* A worker goes into SetEmptyBullet and comes out of it. *)
LEMMA ReleasePool ==
  ASSUME TypeOK, PoolInv, NEW w \in Worker, Release(w)
  PROVE  PoolInv'
<1> SUFFICES ASSUME ~poolRaced' PROVE PoolInv'
  BY DEF PoolInv
<1>1. CASE BeginRelease(w)
  <2>1. /\ ~poolRaced /\ releasing = {} /\ bulletQ # <<>>
        /\ releasing' = {w} /\ air' = Tail(air)
        /\ UNCHANGED <<bullets, bulletQ, exhausted>>
    BY <1>1 DEF BeginRelease
  <2> QED
    BY <2>1
    DEF PoolInv, OneReleases, FrontIsThere, MarkedQueued, Distinct, AirIsQueue
<1>2. CASE EndRelease(w)
  <2>1. /\ ~poolRaced /\ w \in releasing /\ releasing' = releasing \ {w}
        /\ UNCHANGED <<air, exhausted>>
        /\ bullets' = [bullets EXCEPT ![Head(bulletQ)] = FALSE]
        /\ bulletQ' = Tail(bulletQ)
    BY <1>2 DEF EndRelease, Front
  <2>2. releasing = {w} /\ releasing' = {} /\ bulletQ # <<>>
    BY <2>1 DEF PoolInv, OneReleases, FrontIsThere
  <2>3. bulletQ \in Seq(Bullet)
    BY DEF TypeOK
  <2>4. /\ Head(bulletQ) \in Bullet /\ Head(bulletQ) = bulletQ[1]
        /\ Len(bulletQ) \in Nat /\ Len(bulletQ) >= 1
        /\ Len(bulletQ') = Len(bulletQ) - 1
        /\ \A i \in 1..Len(bulletQ') : bulletQ'[i] = bulletQ[i + 1]
    BY <2>1, <2>2, <2>3, TailFacts
  <2>5. MarkedQueued'
    <3> SUFFICES ASSUME NEW c \in Bullet
                 PROVE  bullets'[c] <=> \E i \in 1..Len(bulletQ') : bulletQ'[i] = c
      BY DEF MarkedQueued
    <3>1. bullets[c] <=> \E i \in 1..Len(bulletQ) : bulletQ[i] = c
      BY <2>1 DEF PoolInv, MarkedQueued
    <3>2. CASE c = bulletQ[1]
      <4>1. ~bullets'[c]
        BY <2>1, <2>4, <3>2 DEF TypeOK
      <4>2. \A i \in 1..Len(bulletQ') : bulletQ'[i] # c
        <5> SUFFICES ASSUME NEW i \in 1..Len(bulletQ'), bulletQ'[i] = c PROVE FALSE
          OBVIOUS
        <5>1. i + 1 \in 1..Len(bulletQ) /\ 1 \in 1..Len(bulletQ) /\ i + 1 # 1
          BY <2>4
        <5>2. bulletQ[i + 1] = bulletQ[1]
          BY <2>4, <3>2
        <5> QED
          BY <2>1, <5>1, <5>2 DEF PoolInv, Distinct
      <4> QED
        BY <4>1, <4>2
    <3>3. CASE c # bulletQ[1]
      <4>1. bullets'[c] <=> bullets[c]
        BY <2>1, <2>4, <3>3 DEF TypeOK
      <4>2. ASSUME NEW i \in 1..Len(bulletQ), bulletQ[i] = c
            PROVE  \E j \in 1..Len(bulletQ') : bulletQ'[j] = c
        <5>1. i # 1
          BY <4>2, <3>3
        <5>2. i - 1 \in 1..Len(bulletQ')
          BY <5>1, <2>4
        <5>3. bulletQ'[i - 1] = bulletQ[(i - 1) + 1]
          BY <5>2, <2>4
        <5>4. (i - 1) + 1 = i
          OBVIOUS
        <5> QED
          BY <4>2, <5>2, <5>3, <5>4
      <4>3. ASSUME NEW j \in 1..Len(bulletQ'), bulletQ'[j] = c
            PROVE  \E i \in 1..Len(bulletQ) : bulletQ[i] = c
        BY <4>3, <2>4
      <4> QED
        BY <3>1, <4>1, <4>2, <4>3
    <3> QED
      BY <3>2, <3>3
  <2>6. Distinct(bulletQ)'
    <3>1. Distinct(Tail(bulletQ))
      BY <2>1, <2>2, <2>3, TailDistinct DEF PoolInv
    <3> QED
      BY <3>1, <2>1 DEF Distinct
  <2>7. AirIsQueue'
    BY <2>1, <2>2 DEF PoolInv, AirIsQueue
  <2>8. OneReleases' /\ FrontIsThere'
    BY <2>2 DEF OneReleases, FrontIsThere
  <2> QED
    BY <2>5, <2>6, <2>7, <2>8 DEF PoolInv
<1> QED
  BY <1>1, <1>2 DEF Release

Base == TypeOK /\ FlushFits /\ PoolInv

LEMMA InitBase == Init => Base
  BY InitType, InitPool DEF Base

LEMMA StepBase == Base /\ [Next]_vars => Base'
<1> SUFFICES ASSUME Base, [Next]_vars PROVE Base'
  OBVIOUS
<1> USE DEF Base
<1>1. CASE Receive
  BY <1>1, ReceiveType, PoolSame DEF Receive, PushMsg
<1>2. CASE BeginCopy \/ EndCopy \/ BeginEmpty \/ EndEmpty \/ EndUpdate \/ ProcUnknown
  <2>1. UNCHANGED poolVars
    BY <1>2 DEF BeginCopy, EndCopy, BeginEmpty, EndEmpty, EndUpdate, ProcUnknown
  <2> QED
    BY <1>2, <2>1, CopyType, PoolSame
<1>3. ASSUME NEW m \in Message, ProcPosition(m)
      PROVE  Base'
  BY <1>3, PositionType, PoolSame DEF ProcPosition
<1>4. ASSUME NEW m \in Message, NEW b \in Free \cup {NoBullet, Unknown},
             ShootBullet(m, b)
      PROVE  Base'
  BY <1>4, ShootType, ShootPool
<1>5. ASSUME NEW w \in Worker, Flush(w)
      PROVE  Base'
  BY <1>5, FlushType, PoolSame DEF Flush, BeginFlush, SendPacket
<1>6. ASSUME NEW w \in Worker, Release(w)
      PROVE  Base'
  <2>1. ~poolRaced => bulletQ # <<>> \/ releasing = {}
    BY DEF PoolInv, FrontIsThere
  <2> QED
    BY <1>6, <2>1, ReleaseType, ReleasePool
<1>7. CASE UNCHANGED vars
  <2>1. PoolInv'
    BY <1>7, PoolSame DEF vars
  <2>2. TypeOK' /\ FlushFits'
    BY <1>7 DEF TypeOK, FlushFits, vars, recvVars, updateVars, queueVars,
                flushVars, poolVars
  <2> QED
    BY <2>1, <2>2
<1> QED
  BY <1>1, <1>2, <1>3, <1>4, <1>5, <1>6, <1>7 DEF Next, Update

LEMMA BaseHolds == Spec => []Base
  BY InitBase, StepBase, PTL DEF Spec

(* The queues hold messages, packets and bullet indices and the counters    *)
(* stay within their bounds, whatever the threads of the room do.           *)
THEOREM TypeCorrect == Spec => []TypeOK
  BY BaseHolds, PTL DEF Base

(* Two bullets in the air have different indices until the pool runs out or *)
(* two threads meet in it: the bullets of GetEmptyBullet and SetEmptyBullet *)
(* in Room.cpp.                                                             *)
THEOREM BulletsApartCorrect == Spec => []BulletsApart
<1>1. Base => BulletsApart
  <2> SUFFICES ASSUME Base, ~poolRaced, ~exhausted PROVE Distinct(air)
    BY DEF BulletsApart
  <2>1. bulletQ \in Seq(Bullet) /\ Distinct(bulletQ)
    BY DEF Base, TypeOK, PoolInv
  <2>2. CASE releasing = {}
    BY <2>1, <2>2 DEF Base, PoolInv, AirIsQueue
  <2>3. CASE releasing # {}
    <3>1. bulletQ # <<>> /\ air = Tail(bulletQ)
      BY <2>3 DEF Base, PoolInv, AirIsQueue, FrontIsThere
    <3> QED
      BY <2>1, <3>1, TailDistinct
  <2> QED
    BY <2>2, <2>3
<1> QED
  BY <1>1, BaseHolds, PTL

(* ------------------------------ The packets ---------------------------- *)

(* The packets no longer waiting are 1..Gone.  Those waiting are the next   *)
(* ones in order; of the others each has been sent or is in the batch of    *)
(* one worker, in order.                                                    *)
Gone == queued - Len(sendQ)

QueueIsNext  == /\ Gone \in Nat
                /\ \A i \in 1..Len(sendQ) : sendQ[i] = Gone + i
BatchIsOld   == \A w \in Worker : \A i \in 1..Len(batch[w]) : batch[w][i] \in 1..Gone
BatchRises   == \A w \in Worker : \A i, j \in 1..Len(batch[w]) :
                  i < j => batch[w][i] < batch[w][j]
BatchesApart == \A v, w \in Worker :
                  \A i \in 1..Len(batch[v]), j \in 1..Len(batch[w]) :
                    batch[v][i] = batch[w][j] => v = w
SentIsOld    == sent \subseteq 1..Gone
NotYetSent   == \A w \in Worker : \A i \in 1..Len(batch[w]) : batch[w][i] \notin sent
NoneLost     == \A k \in 1..Gone :
                  k \in sent \/ \E w \in Worker : \E i \in 1..Len(batch[w]) : batch[w][i] = k
OneSends     == ~crossed =>
                  \A v, w \in Worker : batch[v] # <<>> /\ batch[w] # <<>> => v = w
SentBefore   == ~crossed =>
                  \A w \in Worker : \A i \in 1..Len(batch[w]) :
                    \A k \in sent : k < batch[w][i]

PacketInv == /\ QueueIsNext /\ BatchIsOld /\ BatchRises /\ BatchesApart
             /\ SentIsOld /\ NotYetSent /\ NoneLost
             /\ OneSends /\ SentBefore /\ SentInOrder

LEMMA InitPackets == Init => PacketInv
  BY DEF Init, PacketInv, Gone, QueueIsNext, BatchIsOld, BatchRises, BatchesApart,
         SentIsOld, NotYetSent, NoneLost, OneSends, SentBefore, SentInOrder

LEMMA PacketsSame ==
  ASSUME PacketInv, UNCHANGED <<sendQ, queued, batch, sent, overtaken, crossed>>
  PROVE  PacketInv'
  BY DEF PacketInv, Gone, QueueIsNext, BatchIsOld, BatchRises, BatchesApart,
         SentIsOld, NotYetSent, NoneLost, OneSends, SentBefore, SentInOrder

(* Packets pushed continue the queue. *)
LEMMA PushPackets ==
  ASSUME TypeOK, PacketInv, NEW to, IsFiniteSet(to), Push(to),
         UNCHANGED <<batch, sent, overtaken, crossed>>
  PROVE  PacketInv'
<1> DEFINE n   == Cardinality(to)
           new == [i \in 1..n |-> queued + i]
<1>1. n \in Nat /\ queued \in Nat /\ sendQ \in Seq(Packet) /\ Len(sendQ) \in Nat
  BY FS_CardinalityType DEF TypeOK
<1>2. new \in Seq(Packet) /\ Len(new) = n
  BY <1>1 DEF Packet
<1>3. /\ sendQ' = sendQ \o new /\ queued' = queued + n
  BY DEF Push
<1>4. /\ Len(sendQ') = Len(sendQ) + n
      /\ \A i \in 1..Len(sendQ) : sendQ'[i] = sendQ[i]
      /\ \A i \in 1..(Len(sendQ) + n) :
           i > Len(sendQ) => sendQ'[i] = new[i - Len(sendQ)]
  <2> HIDE DEF n, new
  <2> QED
    BY <1>1, <1>2, <1>3, ConcatFacts
<1>5. Gone' = Gone
  BY <1>1, <1>3, <1>4 DEF Gone
<1>6. QueueIsNext'
  <2>1. Gone' \in Nat
    BY <1>5 DEF PacketInv, QueueIsNext
  <2>2. ASSUME NEW i \in 1..Len(sendQ') PROVE sendQ'[i] = Gone' + i
    <3>1. CASE i <= Len(sendQ)
      BY <3>1, <1>1, <1>4, <1>5 DEF PacketInv, QueueIsNext
    <3>2. CASE i > Len(sendQ)
      <4>1. sendQ'[i] = new[i - Len(sendQ)]
        BY <3>2, <1>1, <1>4
      <4>2. i - Len(sendQ) \in 1..n
        BY <3>2, <1>1, <1>4
      <4>3. new[i - Len(sendQ)] = queued + (i - Len(sendQ))
        BY <4>2
      <4> QED
        BY <4>1, <4>3, <1>1, <1>4, <1>5 DEF Gone
    <3> QED
      BY <3>1, <3>2, <1>1, <1>4
  <2> QED
    BY <2>1, <2>2 DEF QueueIsNext
<1>7. BatchIsOld' /\ SentIsOld' /\ NoneLost'
  BY <1>5 DEF PacketInv, BatchIsOld, SentIsOld, NoneLost
<1>8. BatchRises' /\ BatchesApart' /\ NotYetSent'
  BY DEF PacketInv, BatchRises, BatchesApart, NotYetSent
<1>9. OneSends' /\ SentBefore' /\ SentInOrder'
  BY DEF PacketInv, OneSends, SentBefore, SentInOrder
<1> QED
  BY <1>6, <1>7, <1>8, <1>9 DEF PacketInv

(* A worker takes the queue. *)
LEMMA TakePackets ==
  ASSUME TypeOK, PacketInv, NEW w \in Worker, BeginFlush(w)
  PROVE  PacketInv'
<1>1. /\ queued \in Nat /\ sendQ \in Seq(Packet) /\ Len(sendQ) \in Nat
      /\ Gone \in Nat /\ queued = Gone + Len(sendQ)
  BY DEF TypeOK, PacketInv, QueueIsNext, Gone
<1>2. /\ sendQ' = <<>> /\ batch' = [batch EXCEPT ![w] = sendQ]
      /\ batch[w] = <<>> /\ UNCHANGED <<queued, sent, overtaken>>
      /\ crossed' = (crossed \/ (sendQ # <<>> /\ \E v \in Worker : batch[v] # <<>>))
  BY DEF BeginFlush, Left, Taken, Busy
<1>3. batch'[w] = sendQ /\ \A v \in Worker : v # w => batch'[v] = batch[v]
  BY <1>2 DEF TypeOK
<1>4. Gone' = queued /\ Gone' \in Nat /\ Gone <= Gone'
  BY <1>1, <1>2 DEF Gone
<1>5. \A i \in 1..Len(sendQ) : sendQ[i] = Gone + i
  BY DEF PacketInv, QueueIsNext
<1>6. QueueIsNext'
  BY <1>2, <1>4 DEF QueueIsNext
<1>7. BatchIsOld'
  <2>1. \A i \in 1..Len(sendQ) : sendQ[i] \in 1..Gone'
    BY <1>1, <1>4, <1>5
  <2>2. \A k \in 1..Gone : k \in 1..Gone'
    BY <1>1, <1>4
  <2> QED
    BY <1>3, <2>1, <2>2 DEF PacketInv, BatchIsOld
<1>8. BatchRises'
  <2>1. \A i, j \in 1..Len(sendQ) : i < j => sendQ[i] < sendQ[j]
    BY <1>1, <1>5
  <2> QED
    BY <1>3, <2>1 DEF PacketInv, BatchRises
<1>9. BatchesApart'
  <2>1. \A v \in Worker : \A i \in 1..Len(batch[v]), j \in 1..Len(sendQ) :
          batch[v][i] # sendQ[j]
    BY <1>1, <1>5 DEF PacketInv, BatchIsOld
  <2> QED
    BY <1>3, <2>1 DEF PacketInv, BatchesApart
<1>10. SentIsOld'
  BY <1>1, <1>2, <1>4 DEF PacketInv, SentIsOld
<1>11. NotYetSent'
  <2>1. \A i \in 1..Len(sendQ) : sendQ[i] \notin sent
    BY <1>1, <1>5 DEF PacketInv, SentIsOld
  <2> QED
    BY <1>2, <1>3, <2>1 DEF PacketInv, NotYetSent
<1>12. NoneLost'
  <2> SUFFICES ASSUME NEW k \in 1..Gone', k \notin sent
               PROVE  \E v \in Worker : \E i \in 1..Len(batch'[v]) : batch'[v][i] = k
    BY <1>2 DEF NoneLost
  <2>1. CASE k <= Gone
    <3>1. k \in 1..Gone
      BY <2>1, <1>1, <1>4
    <3>2. PICK v \in Worker : \E i \in 1..Len(batch[v]) : batch[v][i] = k
      BY <3>1 DEF PacketInv, NoneLost
    <3>3. v # w
      BY <3>2, <1>2
    <3> QED
      BY <3>2, <3>3, <1>3
  <2>2. CASE k > Gone
    <3>1. k - Gone \in 1..Len(sendQ)
      BY <2>2, <1>1, <1>4
    <3>2. sendQ[k - Gone] = Gone + (k - Gone)
      BY <3>1, <1>5
    <3>3. sendQ[k - Gone] = k
      BY <3>2, <1>1, <1>4
    <3> QED
      BY <3>1, <3>3, <1>3
  <2> QED
    BY <2>1, <2>2, <1>1, <1>4
<1>13. CASE crossed'
  BY <1>2, <1>6, <1>7, <1>8, <1>9, <1>10, <1>11, <1>12, <1>13
  DEF PacketInv, OneSends, SentBefore, SentInOrder
<1>14. CASE ~crossed'
  <2>1. ~crossed /\ (sendQ = <<>> \/ \A v \in Worker : batch[v] = <<>>)
    BY <1>2, <1>14
  <2>2. OneSends'
    BY <1>3, <2>1 DEF PacketInv, OneSends
  <2>3. SentBefore'
    <3>1. \A i \in 1..Len(sendQ) : \A k \in sent : k < sendQ[i]
      BY <1>1, <1>5 DEF PacketInv, SentIsOld
    <3> QED
      BY <1>2, <1>3, <2>1, <3>1 DEF PacketInv, SentBefore
  <2>4. SentInOrder'
    BY <1>2, <2>1 DEF PacketInv, SentInOrder
  <2> QED
    BY <1>6, <1>7, <1>8, <1>9, <1>10, <1>11, <1>12, <2>2, <2>3, <2>4 DEF PacketInv
<1> QED
  BY <1>13, <1>14

(* A worker sends the first packet it has taken. *)
LEMMA SendPackets ==
  ASSUME TypeOK, PacketInv, NEW w \in Worker, SendPacket(w)
  PROVE  PacketInv'
<1> DEFINE p == Head(batch[w])
<1>1. /\ batch[w] # <<>> /\ batch' = [batch EXCEPT ![w] = Tail(batch[w])]
      /\ sent' = sent \cup {p} /\ UNCHANGED <<sendQ, queued, crossed>>
      /\ overtaken' = (overtaken \/ \E k \in sent : k > p)
  BY DEF SendPacket, queueVars
<1>2. /\ batch[w] \in Seq(Packet)
      /\ p \in Packet /\ p = batch[w][1]
      /\ Len(batch[w]) \in Nat /\ Len(batch[w]) >= 1
      /\ Len(Tail(batch[w])) = Len(batch[w]) - 1
      /\ \A i \in 1..Len(Tail(batch[w])) : Tail(batch[w])[i] = batch[w][i + 1]
  <2>1. batch[w] \in Seq(Packet)
    BY DEF TypeOK
  <2> QED
    BY <1>1, <2>1, TailFacts
<1>3. batch'[w] = Tail(batch[w]) /\ \A v \in Worker : v # w => batch'[v] = batch[v]
  BY <1>1 DEF TypeOK
<1>4. 1 \in 1..Len(batch[w])
  BY <1>2
<1>5. \A i \in 1..Len(batch'[w]) :
        i + 1 \in 1..Len(batch[w]) /\ batch'[w][i] = batch[w][i + 1]
  BY <1>2, <1>3
<1> HIDE DEF p
<1>6. \A v \in Worker : \A i \in 1..Len(batch'[v]) :
        \E j \in 1..Len(batch[v]) : batch'[v][i] = batch[v][j]
  BY <1>3, <1>5
<1>7. Gone' = Gone
  BY <1>1 DEF Gone
<1>8. QueueIsNext' /\ BatchIsOld' /\ SentIsOld'
  <2>1. QueueIsNext'
    BY <1>1, <1>7 DEF PacketInv, QueueIsNext
  <2>2. BatchIsOld'
    BY <1>6, <1>7 DEF PacketInv, BatchIsOld
  <2>3. p \in 1..Gone
    BY <1>2, <1>4 DEF PacketInv, BatchIsOld
  <2> QED
    BY <1>1, <1>7, <2>1, <2>2, <2>3 DEF PacketInv, SentIsOld
<1>9. BatchRises'
  <2> SUFFICES ASSUME NEW v \in Worker, NEW i \in 1..Len(batch'[v]),
                      NEW j \in 1..Len(batch'[v]), i < j
               PROVE  batch'[v][i] < batch'[v][j]
    BY DEF BatchRises
  <2>1. CASE v = w
    <3>1. i + 1 < j + 1
      BY <1>2, <1>3, <2>1
    <3> QED
      BY <1>5, <2>1, <3>1 DEF PacketInv, BatchRises
  <2>2. CASE v # w
    BY <1>3, <2>2 DEF PacketInv, BatchRises
  <2> QED
    BY <2>1, <2>2
<1>10. BatchesApart'
  BY <1>6 DEF PacketInv, BatchesApart
<1>11. \A v \in Worker : \A i \in 1..Len(batch'[v]) : batch'[v][i] # p
  <2> SUFFICES ASSUME NEW v \in Worker, NEW i \in 1..Len(batch'[v]),
                      batch'[v][i] = p
               PROVE  FALSE
    OBVIOUS
  <2>1. CASE v = w
    <3>1. i + 1 \in 1..Len(batch[w]) /\ 1 < i + 1
      BY <1>5, <2>1
    <3>2. batch[w][1] < batch[w][i + 1]
      BY <1>4, <3>1 DEF PacketInv, BatchRises
    <3> QED
      BY <1>2, <1>5, <2>1, <3>2 DEF Packet
  <2>2. CASE v # w
    BY <1>2, <1>3, <1>4, <2>2 DEF PacketInv, BatchesApart
  <2> QED
    BY <2>1, <2>2
<1>12. NotYetSent'
  <2> SUFFICES ASSUME NEW v \in Worker, NEW i \in 1..Len(batch'[v])
               PROVE  batch'[v][i] \notin sent'
    BY DEF NotYetSent
  <2>1. batch'[v][i] \notin sent
    BY SMTT(30), <1>6 DEF PacketInv, NotYetSent
  <2> QED
    BY <1>1, <1>11, <2>1
<1>13. NoneLost'
  <2> SUFFICES ASSUME NEW k \in 1..Gone, k \notin sent, k # p
               PROVE  \E v \in Worker : \E i \in 1..Len(batch'[v]) : batch'[v][i] = k
    BY <1>1, <1>7 DEF NoneLost
  <2>1. PICK v \in Worker : \E i \in 1..Len(batch[v]) : batch[v][i] = k
    BY DEF PacketInv, NoneLost
  <2>2. PICK i \in 1..Len(batch[v]) : batch[v][i] = k
    BY <2>1
  <2>3. CASE v = w
    <3>1. i # 1
      BY <1>2, <2>2, <2>3
    <3>2. i - 1 \in 1..Len(batch'[w]) /\ (i - 1) + 1 = i
      BY <1>2, <1>3, <2>3, <3>1
    <3>3. batch'[w][i - 1] = k
      BY <1>5, <2>2, <2>3, <3>2
    <3> QED
      BY <3>2, <3>3
  <2>4. CASE v # w
    BY <1>3, <2>2, <2>4
  <2> QED
    BY <2>3, <2>4
<1>14. OneSends'
  <2>1. \A v \in Worker : batch'[v] # <<>> => batch[v] # <<>>
    BY <1>1, <1>3
  <2> QED
    BY <1>1, <2>1 DEF PacketInv, OneSends
<1>15. SentBefore'
  <2> SUFFICES ASSUME ~crossed, NEW v \in Worker, NEW i \in 1..Len(batch'[v]),
                      NEW k \in sent'
               PROVE  k < batch'[v][i]
    BY <1>1 DEF SentBefore
  <2>1. CASE k \in sent
    BY <1>6, <2>1 DEF PacketInv, SentBefore
  <2>2. CASE k = p
    <3>1. CASE v = w
      <4>1. i + 1 \in 1..Len(batch[w])
        BY <1>5, <3>1
      <4>2. 1 < i + 1
        OBVIOUS
      <4>3. batch[w][1] < batch[w][i + 1]
        BY <1>4, <4>1, <4>2 DEF PacketInv, BatchRises
      <4> QED
        BY <1>2, <1>5, <2>2, <3>1, <4>3
    <3>2. CASE v # w
      <4>1. batch[v] = <<>>
        BY <1>1, <3>2 DEF PacketInv, OneSends
      <4>2. Len(batch'[v]) = 0
        BY <1>3, <3>2, <4>1
      <4> QED
        BY <4>2
    <3> QED
      BY <3>1, <3>2
  <2> QED
    BY <1>1, <2>1, <2>2
<1>16. SentInOrder'
  <2> SUFFICES ASSUME ~crossed PROVE ~overtaken'
    BY <1>1 DEF SentInOrder
  <2>1. \A k \in sent : k < p
    BY <1>2, <1>4 DEF PacketInv, SentBefore
  <2>2. \A k \in sent : ~(k > p)
    BY <1>2, <2>1 DEF Packet, TypeOK
  <2> QED
    BY <1>1, <2>2 DEF PacketInv, SentInOrder
<1> QED
  BY <1>8, <1>9, <1>10, <1>12, <1>13, <1>14, <1>15, <1>16 DEF PacketInv

LEMMA StepPackets == Base /\ PacketInv /\ [Next]_vars => PacketInv'
<1> SUFFICES ASSUME Base, PacketInv, [Next]_vars PROVE PacketInv'
  OBVIOUS
<1> USE DEF Base
<1>1. CASE UNCHANGED <<sendQ, queued, batch, sent, overtaken, crossed>>
  BY <1>1, PacketsSame
<1>2. CASE Receive
  BY <1>1, <1>2 DEF Receive, PushMsg, queueVars, flushVars
<1>3. CASE BeginCopy \/ EndCopy \/ BeginEmpty \/ EndEmpty \/ EndUpdate \/ ProcUnknown
  BY <1>1, <1>3
  DEF BeginCopy, EndCopy, BeginEmpty, EndEmpty, EndUpdate, ProcUnknown,
      queueVars, flushVars
<1>4. ASSUME NEW m \in Message, ProcPosition(m)
      PROVE  PacketInv'
  <2>1. IsFiniteSet(Client \ {m.from})
    BY ClientAssumption, FS_Difference
  <2> QED
    BY <1>4, <2>1, PushPackets DEF ProcPosition, flushVars
<1>5. ASSUME NEW m \in Message, NEW b \in Free \cup {NoBullet, Unknown},
             ShootBullet(m, b)
      PROVE  PacketInv'
  BY <1>5, ClientAssumption, PushPackets DEF ShootBullet, flushVars
<1>6. ASSUME NEW w \in Worker, Flush(w)
      PROVE  PacketInv'
  BY <1>6, TakePackets, SendPackets DEF Flush
<1>7. ASSUME NEW w \in Worker, Release(w)
      PROVE  PacketInv'
  BY <1>1, <1>7 DEF Release, BeginRelease, EndRelease, queueVars, flushVars
<1>8. CASE UNCHANGED vars
  BY <1>1, <1>8 DEF vars, queueVars, flushVars
<1> QED
  BY <1>2, <1>3, <1>4, <1>5, <1>6, <1>7, <1>8 DEF Next, Update

LEMMA PacketsHold == Spec => [](Base /\ PacketInv)
  BY InitBase, StepBase, InitPackets, StepPackets, PTL DEF Spec

LEMMA PacketsSentOnce == Base /\ PacketInv => SentOnce
<1> SUFFICES ASSUME Base, PacketInv PROVE SentOnce
  OBVIOUS
<1>1. /\ queued \in Nat /\ Len(sendQ) \in Nat /\ Gone \in Nat
      /\ queued = Gone + Len(sendQ)
      /\ \A i \in 1..Len(sendQ) : sendQ[i] = Gone + i
  BY DEF Base, TypeOK, PacketInv, QueueIsNext, Gone
<1>2. \A k : k \in SeqSet(sendQ) <=> k \in (Gone + 1)..queued
  <2>1. ASSUME NEW k \in SeqSet(sendQ) PROVE k \in (Gone + 1)..queued
    BY <1>1 DEF SeqSet
  <2>2. ASSUME NEW k \in (Gone + 1)..queued PROVE k \in SeqSet(sendQ)
    <3>1. k - Gone \in 1..Len(sendQ) /\ Gone + (k - Gone) = k
      BY <1>1
    <3> QED
      BY <1>1, <3>1 DEF SeqSet
  <2> QED
    BY <2>1, <2>2
<1>3. \A k : k \in Taking \cup sent <=> k \in 1..Gone
  <2>1. ASSUME NEW k \in Taking PROVE k \in 1..Gone
    BY DEF Taking, SeqSet, PacketInv, BatchIsOld
  <2>2. ASSUME NEW k \in sent PROVE k \in 1..Gone
    BY DEF PacketInv, SentIsOld
  <2>3. ASSUME NEW k \in 1..Gone, k \notin sent PROVE k \in Taking
    <3>1. \E w \in Worker : \E i \in 1..Len(batch[w]) : batch[w][i] = k
      BY <2>3 DEF PacketInv, NoneLost
    <3> QED
      BY <3>1 DEF Taking, SeqSet
  <2> QED
    BY <2>1, <2>2, <2>3
<1>4. SeqSet(sendQ) \cup Taking \cup sent = 1..queued
  <2>1. \A k : k \in 1..queued <=> k \in 1..Gone \/ k \in (Gone + 1)..queued
    BY <1>1
  <2> QED
    BY <1>2, <1>3, <2>1, Zenon
<1>5. SeqSet(sendQ) \cap (Taking \cup sent) = {}
  <2>1. \A k : ~(k \in 1..Gone /\ k \in (Gone + 1)..queued)
    BY <1>1
  <2> QED
    BY <1>2, <1>3, <2>1, Zenon
<1>6. Taking \cap sent = {}
  BY DEF Taking, SeqSet, PacketInv, NotYetSent
<1>7. ASSUME NEW v \in Worker, NEW w \in Worker,
             SeqSet(batch[v]) \cap SeqSet(batch[w]) # {}
      PROVE  v = w
  BY <1>7 DEF SeqSet, PacketInv, BatchesApart
<1>8. Distinct(sendQ)
  <2>1. ASSUME NEW i \in 1..Len(sendQ), NEW j \in 1..Len(sendQ),
               Gone + i = Gone + j
        PROVE  i = j
    BY <1>1, <2>1
  <2> QED
    BY <1>1, <2>1 DEF Distinct
<1>9. ASSUME NEW w \in Worker PROVE Distinct(batch[w])
  <2> SUFFICES ASSUME NEW i \in 1..Len(batch[w]), NEW j \in 1..Len(batch[w]), i # j
               PROVE  batch[w][i] # batch[w][j]
    BY DEF Distinct
  <2>1. batch[w][i] \in 1..Gone /\ batch[w][j] \in 1..Gone
    BY DEF PacketInv, BatchIsOld
  <2>2. CASE i < j
    BY <2>1, <2>2 DEF PacketInv, BatchRises
  <2>3. CASE j < i
    BY <2>1, <2>3 DEF PacketInv, BatchRises
  <2> QED
    BY <2>2, <2>3
<1> QED
  BY <1>4, <1>5, <1>6, <1>7, <1>8, <1>9 DEF SentOnce

(* However many workers flush the room, a packet PushSendMsg has queued is  *)
(* waiting, with one worker, or sent: FlushSendMsg in Room.cpp neither      *)
(* loses nor doubles one.                                                   *)
THEOREM SentOnceCorrect == Spec => []SentOnce
  BY PacketsHold, PacketsSentOnce, PTL

(* Packets are sent in the order they were queued as long as no two flushes *)
(* of the room send at once.                                                *)
THEOREM SentInOrderCorrect == Spec => []SentInOrder
<1>1. PacketInv => SentInOrder
  BY DEF PacketInv
<1> QED
  BY <1>1, PacketsHold, PTL

(* ------------------------- The received messages ----------------------- *)

(* While no push has met the copying or the emptying, both queues hold only *)
(* messages that were pushed, those of a client in its order and after the  *)
(* ones worked through; the copy is what the queue began with when it was   *)
(* taken; and what has come since then was exposed.                         *)
Genuine(q) == \A i \in 1..Len(q) : q[i] \in Message /\ q[i].n <= Len(pushed[q[i].from])
Rising(q)  == \A i, j \in 1..Len(q) :
                i < j /\ q[i].from = q[j].from => q[i].n < q[j].n
After(q)   == \A i \in 1..Len(q) : \A j \in 1..Len(handled[q[i].from]) :
                handled[q[i].from][j] < q[i].n
HandledPushed == \A c \in Client : \A j \in 1..Len(handled[c]) :
                   handled[c][j] <= Len(pushed[c])
HandledRises  == \A c \in Client : \A i, j \in 1..Len(handled[c]) :
                   i < j => handled[c][i] < handled[c][j]
NoCopy        == stage \in {"idle", "copying"} => copied = <<>>
CopyIsPrefix  == stage \in {"between", "emptying"} =>
                   /\ \A i \in 1..Len(copied) :
                        i \in 1..Len(recvQ) /\ recvQ[i] = copied[i]
                   /\ \A i \in 1..Len(recvQ) :
                        i \in 1..Len(copied) \/ recvQ[i] \in exposed
CopyFirst     == stage = "handling" =>
                   \A i \in 1..Len(copied), j \in 1..Len(recvQ) :
                     copied[i].from = recvQ[j].from => copied[i].n < recvQ[j].n
Kept          == \A m \in Earlier \ exposed :
                   \/ m \in SeqSet(recvQ) \/ m \in SeqSet(copied)
                   \/ m.n \in SeqSet(handled[m.from])

Orders  == /\ Genuine(recvQ) /\ Genuine(copied)
           /\ Rising(recvQ) /\ Rising(copied)
           /\ After(recvQ) /\ After(copied)
           /\ HandledPushed /\ HandledRises
           /\ NoCopy /\ CopyIsPrefix /\ CopyFirst /\ Kept
RecvInv == ~recvRaced => Orders

LEMMA ElementFacts ==
  ASSUME NEW S, NEW s \in Seq(S), NEW i \in 1..Len(s) PROVE s[i] \in S
  OBVIOUS

LEMMA HandledIsNumber ==
  ASSUME TypeOK, NEW c \in Client, NEW j \in 1..Len(handled[c])
  PROVE  handled[c][j] \in Nat
<1>1. handled[c] \in Seq(1..MaxMsg)
  BY DEF TypeOK
<1>2. handled[c][j] \in 1..MaxMsg
  BY <1>1, ElementFacts
<1> QED
  BY <1>2

LEMMA InitRecv == Init => RecvInv
  BY DEF Init, RecvInv, Orders, Genuine, Rising, After, HandledPushed, HandledRises,
         NoCopy, CopyIsPrefix, CopyFirst, Kept, Earlier, Message

LEMMA RecvSame ==
  ASSUME RecvInv, UNCHANGED <<pushed, recvQ, exposed, recvRaced, copied, stage, handled>>
  PROVE  RecvInv'
<1> SUFFICES ASSUME Orders PROVE Orders'
  BY DEF RecvInv
<1>1. /\ Genuine(recvQ)' /\ Genuine(copied)' /\ Rising(recvQ)' /\ Rising(copied)'
      /\ After(recvQ)' /\ After(copied)' /\ HandledPushed' /\ HandledRises'
  BY DEF Orders, Genuine, Rising, After, HandledPushed, HandledRises
<1>2. NoCopy' /\ CopyIsPrefix' /\ CopyFirst' /\ Kept'
  BY SMTT(30) DEF Orders, NoCopy, CopyIsPrefix, CopyFirst, Kept, Earlier, SeqSet
<1> QED
  BY <1>1, <1>2 DEF Orders

(* One message more at the end of the queue. *)
LEMMA PushRecv ==
  ASSUME TypeOK, RecvInv, NEW c \in Client, NEW k \in Shots[c], PushMsg(c, k)
  PROVE  RecvInv'
<1> DEFINE m == [from |-> c, n |-> Len(pushed[c]) + 1]
<1> SUFFICES ASSUME ~recvRaced' PROVE Orders'
  BY DEF RecvInv
<1>1. ~recvRaced /\ Orders /\ ~Meets
  BY DEF PushMsg, RecvInv
<1>2. pushed[c] \in Seq(0..2) /\ k \in 0..2 /\ recvQ \in Seq(Message \cup {Garbage})
  BY BoundAssumption DEF TypeOK
<1>3. m \in Message /\ m.from = c /\ m.n = Len(pushed[c]) + 1 /\ Len(pushed[c]) \in Nat
  BY <1>2, Numbers DEF PushMsg, Message
<1>4. /\ recvQ' = Append(recvQ, m)
      /\ pushed' = [pushed EXCEPT ![c] = Append(pushed[c], k)]
      /\ exposed' = IF CopyRuns THEN exposed \cup {m} ELSE exposed
      /\ UNCHANGED <<copied, stage, handled>>
  BY <1>1 DEF PushMsg, updateVars
<1> HIDE DEF m
<1>5. /\ Len(recvQ) \in Nat /\ Len(recvQ') = Len(recvQ) + 1
      /\ \A i \in 1..Len(recvQ) : recvQ'[i] = recvQ[i]
      /\ recvQ'[Len(recvQ) + 1] = m
  BY <1>2, <1>3, <1>4, AppendFacts
<1>6. \A i \in 1..Len(recvQ') : i = Len(recvQ) + 1 \/ i \in 1..Len(recvQ)
  BY <1>5, UpToNext
<1>7. /\ Len(pushed'[c]) = Len(pushed[c]) + 1
      /\ \A d \in Client : d # c => pushed'[d] = pushed[d]
  BY <1>2, <1>4, AppendFacts DEF TypeOK
<1>8. \A d \in Client : /\ Len(pushed[d]) \in Nat /\ Len(pushed'[d]) \in Nat
                        /\ Len(pushed[d]) <= Len(pushed'[d])
  <2>1. \A d \in Client : Len(pushed[d]) \in Nat
    BY DEF TypeOK
  <2> QED
    BY <1>7, <2>1
<1>9. \A o \in Message : o.from \in Client /\ o.n \in Nat
  BY Numbers DEF Message
<1>10. \A o \in Message : o.n <= Len(pushed[o.from]) => o.n <= Len(pushed'[o.from])
  BY <1>8, <1>9
<1>11. Genuine(recvQ)' /\ Genuine(copied)'
  <2>1. m.n <= Len(pushed'[m.from])
    BY <1>3, <1>7
  <2>2. ASSUME NEW i \in 1..Len(recvQ')
        PROVE  recvQ'[i] \in Message /\ recvQ'[i].n <= Len(pushed'[recvQ'[i].from])
    BY <1>1, <1>3, <1>5, <1>6, <1>10, <2>1 DEF Orders, Genuine
  <2>3. ASSUME NEW i \in 1..Len(copied)
        PROVE  copied[i] \in Message /\ copied[i].n <= Len(pushed'[copied[i].from])
    BY <1>1, <1>10 DEF Orders, Genuine
  <2> QED
    BY <1>4, <2>2, <2>3 DEF Genuine
<1>12. \A o \in Message : o.from = c /\ o.n <= Len(pushed[o.from]) => o.n < m.n
  BY <1>3, <1>9
<1>13. Rising(recvQ)' /\ Rising(copied)'
  <2>1. ASSUME NEW i \in 1..Len(recvQ'), NEW j \in 1..Len(recvQ'),
               i < j, recvQ'[i].from = recvQ'[j].from
        PROVE  recvQ'[i].n < recvQ'[j].n
    <3>1. i \in 1..Len(recvQ)
      BY <1>5, <1>6, <2>1
    <3>2. recvQ[i] \in Message /\ recvQ[i].n <= Len(pushed[recvQ[i].from])
      BY <1>1, <3>1 DEF Orders, Genuine
    <3>3. CASE j = Len(recvQ) + 1
      BY <1>3, <1>5, <1>12, <2>1, <3>1, <3>2, <3>3
    <3>4. CASE j \in 1..Len(recvQ)
      BY <1>1, <1>5, <2>1, <3>1, <3>4 DEF Orders, Rising
    <3> QED
      BY <1>6, <3>3, <3>4
  <2> QED
    BY <1>1, <1>4, <2>1 DEF Orders, Rising
<1>14. After(recvQ)' /\ After(copied)'
  <2>1. \A j \in 1..Len(handled[c]) : handled[c][j] < m.n
    <3> SUFFICES ASSUME NEW j \in 1..Len(handled[c]) PROVE handled[c][j] < m.n
      OBVIOUS
    <3>1. handled[c][j] <= Len(pushed[c])
      BY <1>1 DEF Orders, HandledPushed
    <3>2. handled[c][j] \in Nat
      BY HandledIsNumber
    <3> QED
      BY <1>3, <3>1, <3>2
  <2>2. ASSUME NEW i \in 1..Len(recvQ'), NEW j \in 1..Len(handled[recvQ'[i].from])
        PROVE  handled[recvQ'[i].from][j] < recvQ'[i].n
    <3>1. CASE i = Len(recvQ) + 1
      BY <1>3, <1>5, <2>1, <3>1
    <3>2. CASE i \in 1..Len(recvQ)
      BY <1>1, <1>5, <3>2 DEF Orders, After
    <3> QED
      BY <1>6, <3>1, <3>2
  <2> QED
    BY <1>1, <1>4, <2>2 DEF Orders, After
<1>15. HandledPushed' /\ HandledRises'
  <2>1. ASSUME NEW d \in Client, NEW j \in 1..Len(handled[d])
        PROVE  handled[d][j] <= Len(pushed'[d])
    <3>1. handled[d][j] <= Len(pushed[d])
      BY <1>1 DEF Orders, HandledPushed
    <3>2. handled[d][j] \in Nat
      BY HandledIsNumber
    <3> QED
      BY <1>8, <3>1, <3>2
  <2> QED
    BY <1>1, <1>4, <2>1 DEF Orders, HandledPushed, HandledRises
<1>16. NoCopy'
  BY <1>1, <1>4 DEF Orders, NoCopy
<1>17. CopyIsPrefix'
  <2> SUFFICES ASSUME stage \in {"between", "emptying"}
               PROVE  /\ \A i \in 1..Len(copied) :
                           i \in 1..Len(recvQ') /\ recvQ'[i] = copied[i]
                      /\ \A i \in 1..Len(recvQ') :
                           i \in 1..Len(copied) \/ recvQ'[i] \in exposed'
    BY <1>4 DEF CopyIsPrefix
  <2>1. /\ \A i \in 1..Len(copied) : i \in 1..Len(recvQ) /\ recvQ[i] = copied[i]
        /\ \A i \in 1..Len(recvQ) : i \in 1..Len(copied) \/ recvQ[i] \in exposed
    BY <1>1 DEF Orders, CopyIsPrefix
  <2>2. exposed' = exposed \cup {m}
    BY <1>4 DEF CopyRuns
  <2>3. \A i \in 1..Len(recvQ) : i \in 1..Len(recvQ')
    BY <1>5
  <2> QED
    BY <1>5, <1>6, <2>1, <2>2, <2>3
<1>18. CopyFirst'
  <2> SUFFICES ASSUME stage = "handling",
                      NEW i \in 1..Len(copied), NEW j \in 1..Len(recvQ'),
                      copied[i].from = recvQ'[j].from
               PROVE  copied[i].n < recvQ'[j].n
    BY <1>4 DEF CopyFirst
  <2>1. copied[i] \in Message /\ copied[i].n <= Len(pushed[copied[i].from])
    BY <1>1 DEF Orders, Genuine
  <2>2. CASE j = Len(recvQ) + 1
    BY <1>3, <1>5, <1>12, <2>1, <2>2
  <2>3. CASE j \in 1..Len(recvQ)
    BY <1>1, <1>5, <2>3 DEF Orders, CopyFirst
  <2> QED
    BY <1>6, <2>2, <2>3
<1>19. Kept'
  <2> SUFFICES ASSUME NEW o \in Message, o.n <= Len(pushed'[o.from]), o \notin exposed'
               PROVE  \/ o \in SeqSet(recvQ') \/ o \in SeqSet(copied)
                      \/ o.n \in SeqSet(handled[o.from])
    BY <1>4 DEF Kept, Earlier, SeqSet
  <2>1. \A x \in SeqSet(recvQ) : x \in SeqSet(recvQ')
    <3>1. \A i \in 1..Len(recvQ) : i \in 1..Len(recvQ')
      BY <1>5
    <3> QED
      BY <1>5, <3>1 DEF SeqSet
  <2>2. m \in SeqSet(recvQ')
    <3>1. Len(recvQ) + 1 \in 1..Len(recvQ')
      BY <1>5
    <3> QED
      BY <1>5, <3>1 DEF SeqSet
  <2>3. CASE o = m
    BY <2>2, <2>3
  <2>4. CASE o # m
    <3>1. o.n <= Len(pushed[o.from])
      <4>1. CASE o.from # c
        BY <4>1, <1>7, <1>9
      <4>2. CASE o.from = c
        <5>1. o.n # Len(pushed[c]) + 1
          BY <2>4, <4>2 DEF m, Message
        <5> QED
          BY <4>2, <5>1, <1>3, <1>7, <1>9
      <4> QED
        BY <4>1, <4>2
    <3>2. o \in Earlier /\ o \notin exposed
      BY <3>1, <1>4 DEF Earlier
    <3> QED
      BY <3>2, <2>1, <1>1 DEF Orders, Kept
  <2> QED
    BY <2>3, <2>4
<1> QED
  BY <1>11, <1>13, <1>14, <1>15, <1>16, <1>17, <1>18, <1>19 DEF Orders

(* The steps of CopyRecvMsgs and the end of Update. *)
LEMMA CopyRecv ==
  ASSUME TypeOK, RecvInv,
         BeginCopy \/ EndCopy \/ BeginEmpty \/ EndEmpty \/ EndUpdate
  PROVE  RecvInv'
<1> SUFFICES ASSUME ~recvRaced, Orders PROVE Orders'
  BY DEF RecvInv, BeginCopy, EndCopy, BeginEmpty, EndEmpty, EndUpdate, recvVars
<1>1. CASE BeginCopy \/ BeginEmpty \/ EndUpdate
  <2>1. UNCHANGED <<pushed, recvQ, exposed, copied, handled>>
    BY <1>1 DEF BeginCopy, BeginEmpty, EndUpdate, recvVars
  <2>2. /\ Genuine(recvQ)' /\ Genuine(copied)' /\ Rising(recvQ)' /\ Rising(copied)'
        /\ After(recvQ)' /\ After(copied)' /\ HandledPushed' /\ HandledRises'
    BY <2>1 DEF Orders, Genuine, Rising, After, HandledPushed, HandledRises
  <2>3. NoCopy' /\ CopyIsPrefix' /\ CopyFirst'
    BY <1>1, <2>1
    DEF Orders, NoCopy, CopyIsPrefix, CopyFirst, BeginCopy, BeginEmpty, EndUpdate
  <2>4. Kept'
    BY <2>1 DEF Orders, Kept, Earlier, SeqSet
  <2> QED
    BY <2>2, <2>3, <2>4 DEF Orders
<1>2. CASE EndCopy
  <2>1. /\ UNCHANGED <<pushed, recvQ, exposed, handled>>
        /\ copied = <<>> /\ copied' = recvQ /\ stage' = "between"
    BY <1>2 DEF EndCopy, recvVars, Orders, NoCopy
  <2>2. /\ Genuine(recvQ)' /\ Genuine(copied)' /\ Rising(recvQ)' /\ Rising(copied)'
        /\ After(recvQ)' /\ After(copied)' /\ HandledPushed' /\ HandledRises'
    BY <2>1 DEF Orders, Genuine, Rising, After, HandledPushed, HandledRises
  <2>3. NoCopy' /\ CopyIsPrefix' /\ CopyFirst'
    BY <2>1 DEF NoCopy, CopyIsPrefix, CopyFirst
  <2>4. Kept'
    BY <2>1 DEF Orders, Kept, Earlier, SeqSet
  <2> QED
    BY <2>2, <2>3, <2>4 DEF Orders
<1>3. CASE EndEmpty
  <2>1. /\ UNCHANGED <<pushed, exposed, copied, handled>>
        /\ recvQ' = <<>> /\ stage = "emptying" /\ stage' = "handling"
    BY <1>3 DEF EndEmpty, Emptied
  <2>2. /\ Genuine(recvQ)' /\ Genuine(copied)' /\ Rising(recvQ)' /\ Rising(copied)'
        /\ After(recvQ)' /\ After(copied)' /\ HandledPushed' /\ HandledRises'
    BY <2>1 DEF Orders, Genuine, Rising, After, HandledPushed, HandledRises
  <2>3. NoCopy' /\ CopyIsPrefix' /\ CopyFirst'
    BY <2>1 DEF NoCopy, CopyIsPrefix, CopyFirst
  <2>4. Kept'
    <3> SUFFICES ASSUME NEW m \in Earlier \ exposed
                 PROVE  m \in SeqSet(copied) \/ m.n \in SeqSet(handled[m.from])
      BY <2>1 DEF Kept, Earlier, SeqSet
    <3>1. ASSUME m \in SeqSet(recvQ) PROVE m \in SeqSet(copied)
      <4>1. PICK i \in 1..Len(recvQ) : recvQ[i] = m
        BY <3>1 DEF SeqSet
      <4>2. i \in 1..Len(copied) /\ recvQ[i] = copied[i]
        BY <2>1, <4>1 DEF Orders, CopyIsPrefix
      <4> QED
        BY <4>1, <4>2 DEF SeqSet
    <3> QED
      BY <3>1 DEF Orders, Kept
  <2> QED
    BY <2>2, <2>3, <2>4 DEF Orders
<1> QED
  BY <1>1, <1>2, <1>3

(* Update is done with the message it is at. *)
LEMMA DoneRecv ==
  ASSUME TypeOK, RecvInv, copied # <<>>, NEW m \in Message, m = Head(copied),
         stage = "handling", Done(m), UNCHANGED <<recvVars, stage>>
  PROVE  RecvInv'
<1> SUFFICES ASSUME ~recvRaced, Orders PROVE Orders'
  BY DEF RecvInv, recvVars
<1>1. /\ UNCHANGED <<pushed, recvQ, exposed, stage>>
      /\ copied' = Tail(copied)
      /\ handled' = [handled EXCEPT ![m.from] = Append(handled[m.from], m.n)]
  BY DEF Done, Rest, recvVars
<1>2. /\ copied \in Seq(Message \cup {Garbage}) /\ m = copied[1]
      /\ Len(copied) \in Nat /\ Len(copied) >= 1
      /\ Len(copied') = Len(copied) - 1
      /\ \A i \in 1..Len(copied') : copied'[i] = copied[i + 1]
  <2>1. copied \in Seq(Message \cup {Garbage})
    BY DEF TypeOK
  <2> QED
    BY <1>1, <2>1, TailFacts
<1>3. /\ 1 \in 1..Len(copied)
      /\ \A i \in 1..Len(copied') : i + 1 \in 1..Len(copied) /\ 1 < i + 1
  BY <1>2
<1>4. m.from \in Client /\ m.n \in 1..MaxMsg
  BY DEF Message
<1>5. handled[m.from] \in Seq(1..MaxMsg) /\ handled \in [Client -> Seq(1..MaxMsg)]
  BY <1>4 DEF TypeOK
<1>6. /\ Len(handled[m.from]) \in Nat
      /\ Len(handled'[m.from]) = Len(handled[m.from]) + 1
      /\ \A j \in 1..Len(handled[m.from]) : handled'[m.from][j] = handled[m.from][j]
      /\ handled'[m.from][Len(handled[m.from]) + 1] = m.n
      /\ \A d \in Client : d # m.from => handled'[d] = handled[d]
  BY <1>1, <1>4, <1>5, AppendFacts
<1>7. \A j \in 1..Len(handled'[m.from]) :
        j = Len(handled[m.from]) + 1 \/ j \in 1..Len(handled[m.from])
  BY <1>6, UpToNext
<1>8. Genuine(recvQ)' /\ Genuine(copied)'
  BY <1>1, <1>2, <1>3 DEF Orders, Genuine
<1>9. Rising(recvQ)'
  BY <1>1 DEF Orders, Rising
<1>10. Rising(copied)'
  <2> SUFFICES ASSUME NEW i \in 1..Len(copied'), NEW j \in 1..Len(copied'),
                      i < j, copied'[i].from = copied'[j].from
               PROVE  copied'[i].n < copied'[j].n
    BY DEF Rising
  <2>1. i + 1 < j + 1
    OBVIOUS
  <2> QED
    BY <1>2, <1>3, <2>1 DEF Orders, Rising
<1>11. After(recvQ)'
  <2> SUFFICES ASSUME NEW i \in 1..Len(recvQ), NEW j \in 1..Len(handled'[recvQ[i].from])
               PROVE  handled'[recvQ[i].from][j] < recvQ[i].n
    BY <1>1 DEF After
  <2>1. recvQ[i].from \in Client
    BY DEF Orders, Genuine, Message
  <2>2. CASE recvQ[i].from # m.from
    BY <1>6, <2>1, <2>2 DEF Orders, After
  <2>3. CASE recvQ[i].from = m.from
    <3>1. m.n < recvQ[i].n
      BY <1>2, <1>3, <2>3 DEF Orders, CopyFirst
    <3>2. CASE j = Len(handled[m.from]) + 1
      BY <1>6, <2>3, <3>1, <3>2
    <3>3. CASE j \in 1..Len(handled[m.from])
      BY <1>6, <2>3, <3>3 DEF Orders, After
    <3> QED
      BY <1>7, <2>3, <3>2, <3>3
  <2> QED
    BY <2>2, <2>3
<1>12. After(copied)'
  <2> SUFFICES ASSUME NEW i \in 1..Len(copied'),
                      NEW j \in 1..Len(handled'[copied'[i].from])
               PROVE  handled'[copied'[i].from][j] < copied'[i].n
    BY DEF After
  <2>1. i + 1 \in 1..Len(copied) /\ 1 < i + 1 /\ copied'[i] = copied[i + 1]
    BY <1>2, <1>3
  <2>2. copied[i + 1].from \in Client
    BY <2>1 DEF Orders, Genuine, Message
  <2>3. CASE copied[i + 1].from # m.from
    BY <1>6, <2>1, <2>2, <2>3 DEF Orders, After
  <2>4. CASE copied[i + 1].from = m.from
    <3>1. m.n < copied[i + 1].n
      BY <1>2, <1>3, <2>1, <2>4 DEF Orders, Rising
    <3>2. CASE j = Len(handled[m.from]) + 1
      BY <1>6, <2>1, <2>4, <3>1, <3>2
    <3>3. CASE j \in 1..Len(handled[m.from])
      <4>1. handled[m.from][j] < copied[i + 1].n
        BY <2>1, <2>4, <3>3 DEF Orders, After
      <4> QED
        BY <1>6, <2>1, <2>4, <3>3, <4>1
    <3> QED
      BY <1>7, <2>1, <2>4, <3>2, <3>3
  <2> QED
    BY <2>3, <2>4
<1>13. m.n <= Len(pushed[m.from])
  BY <1>2, <1>3 DEF Orders, Genuine
<1>14. \A j \in 1..Len(handled[m.from]) : handled[m.from][j] < m.n
  BY <1>2, <1>3 DEF Orders, After
<1>15. HandledPushed'
  <2> SUFFICES ASSUME NEW d \in Client, NEW j \in 1..Len(handled'[d])
               PROVE  handled'[d][j] <= Len(pushed[d])
    BY <1>1 DEF HandledPushed
  <2> QED
    BY <1>6, <1>7, <1>13 DEF Orders, HandledPushed
<1>16. HandledRises'
  <2> SUFFICES ASSUME NEW d \in Client, NEW i \in 1..Len(handled'[d]),
                      NEW j \in 1..Len(handled'[d]), i < j
               PROVE  handled'[d][i] < handled'[d][j]
    BY DEF HandledRises
  <2>1. CASE d # m.from
    BY <1>6, <2>1 DEF Orders, HandledRises
  <2>2. CASE d = m.from
    <3>1. i \in 1..Len(handled[m.from])
      BY <1>6, <1>7, <2>2
    <3>2. CASE j = Len(handled[m.from]) + 1
      BY <1>6, <1>14, <2>2, <3>1, <3>2
    <3>3. CASE j \in 1..Len(handled[m.from])
      BY <1>4, <1>6, <2>2, <3>1, <3>3 DEF Orders, HandledRises
    <3> QED
      BY <1>7, <2>2, <3>2, <3>3
  <2> QED
    BY <2>1, <2>2
<1>17. NoCopy' /\ CopyIsPrefix'
  BY <1>1 DEF NoCopy, CopyIsPrefix
<1>18. CopyFirst'
  BY <1>1, <1>2, <1>3 DEF Orders, CopyFirst
<1>19. Kept'
  <2> SUFFICES ASSUME NEW o \in Earlier \ exposed
               PROVE  \/ o \in SeqSet(recvQ) \/ o \in SeqSet(copied')
                      \/ o.n \in SeqSet(handled'[o.from])
    BY <1>1 DEF Kept, Earlier, SeqSet
  <2>0. o.from \in Client
    BY DEF Earlier, Message
  <2>1. ASSUME o.n \in SeqSet(handled[o.from]) PROVE o.n \in SeqSet(handled'[o.from])
    <3>1. CASE o.from # m.from
      BY <1>6, <2>0, <2>1, <3>1
    <3>2. CASE o.from = m.from
      <4>1. \A j \in 1..Len(handled[m.from]) : j \in 1..Len(handled'[m.from])
        BY <1>6
      <4> QED
        BY <1>6, <2>1, <3>2, <4>1 DEF SeqSet
    <3> QED
      BY <3>1, <3>2
  <2>2. m.n \in SeqSet(handled'[m.from])
    <3>1. Len(handled[m.from]) + 1 \in 1..Len(handled'[m.from])
      BY <1>6
    <3> QED
      BY <1>6, <3>1 DEF SeqSet
  <2>3. ASSUME o \in SeqSet(copied), o # m PROVE o \in SeqSet(copied')
    <3>1. PICK i \in 1..Len(copied) : copied[i] = o
      BY <2>3 DEF SeqSet
    <3>2. i # 1
      BY <1>2, <2>3, <3>1
    <3>3. i - 1 \in 1..Len(copied') /\ (i - 1) + 1 = i
      BY <1>2, <3>2
    <3>4. copied'[i - 1] = o
      BY <1>2, <3>1, <3>3
    <3> QED
      BY <3>3, <3>4 DEF SeqSet
  <2> QED
    BY <2>1, <2>2, <2>3 DEF Orders, Kept
<1> QED
  BY <1>8, <1>9, <1>10, <1>11, <1>12, <1>15, <1>16, <1>17, <1>18, <1>19 DEF Orders

LEMMA StepRecv == Base /\ RecvInv /\ [Next]_vars => RecvInv'
<1> SUFFICES ASSUME Base, RecvInv, [Next]_vars PROVE RecvInv'
  OBVIOUS
<1> USE DEF Base
<1>1. CASE UNCHANGED <<pushed, recvQ, exposed, recvRaced, copied, stage, handled>>
  BY <1>1, RecvSame
<1>2. CASE Receive
  BY <1>2, PushRecv DEF Receive
<1>3. CASE BeginCopy \/ EndCopy \/ BeginEmpty \/ EndEmpty \/ EndUpdate
  BY <1>3, CopyRecv
<1>4. CASE ProcUnknown
  <2>1. recvRaced
    <3> SUFFICES ASSUME ~recvRaced PROVE FALSE
      OBVIOUS
    <3>1. copied # <<>> /\ Head(copied) = Garbage /\ copied \in Seq(Message \cup {Garbage})
      BY <1>4 DEF ProcUnknown, TypeOK
    <3>2. Head(copied) = copied[1] /\ 1 \in 1..Len(copied)
      BY <3>1, TailFacts
    <3>3. Garbage \in Message
      BY <3>1, <3>2 DEF RecvInv, Orders, Genuine
    <3> QED
      BY <3>3 DEF Garbage, Message
  <2> QED
    BY <1>4, <2>1 DEF ProcUnknown, RecvInv, recvVars
<1>5. ASSUME NEW m \in Message, ProcPosition(m)
      PROVE  RecvInv'
  BY <1>5, DoneRecv DEF ProcPosition
<1>6. ASSUME NEW m \in Message, NEW b \in Free \cup {NoBullet, Unknown},
             ShootBullet(m, b)
      PROVE  RecvInv'
  <2>1. CASE Done(m)
    BY <1>6, <2>1, DoneRecv DEF ShootBullet
  <2>2. CASE UNCHANGED <<copied, handled>>
    BY <1>1, <1>6, <2>2 DEF ShootBullet, recvVars
  <2> QED
    BY <1>6, <2>1, <2>2 DEF ShootBullet
<1>7. ASSUME NEW w \in Worker, Flush(w) \/ Release(w)
      PROVE  RecvInv'
  BY <1>1, <1>7
  DEF Flush, BeginFlush, SendPacket, Release, BeginRelease, EndRelease,
      recvVars, updateVars
<1>8. CASE UNCHANGED vars
  BY <1>1, <1>8 DEF vars, recvVars, updateVars
<1> QED
  BY <1>2, <1>3, <1>4, <1>5, <1>6, <1>7, <1>8 DEF Next, Update

LEMMA RecvHolds == Spec => []RecvInv
  BY InitBase, StepBase, InitRecv, StepRecv, PTL DEF Spec

(* ProcMsg meets the messages of a client in the order it sent them, none   *)
(* twice, until a push meets CopyRecvMsgs in the queue.                     *)
THEOREM HandledInOrderCorrect == Spec => []HandledInOrder
<1>1. RecvInv => HandledInOrder
  BY DEF RecvInv, Orders, HandledRises, HandledInOrder
<1> QED
  BY <1>1, RecvHolds, PTL

(* A message that was not pushed while CopyRecvMsgs was running is not lost. *)
THEOREM OnlyExposedLostCorrect == Spec => []OnlyExposedLost
<1>1. RecvInv => OnlyExposedLost
  BY DEF RecvInv, Orders, Kept, OnlyExposedLost, SeqSet
<1> QED
  BY <1>1, RecvHolds, PTL
=============================================================================
