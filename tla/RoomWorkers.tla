----------------------------- MODULE RoomWorkers -----------------------------
(***************************************************************************)
(* The threads of the battle server inside one room while a match is on:   *)
(* workers that push received messages, the one Update that copies, empties *)
(* and works through them, workers that flush the packets it queues, and   *)
(* workers that give bullets back to the pool.                             *)
(*                                                                         *)
(* One action is what a thread does under one lock, or between two calls   *)
(* that others can get in between.  Two threads in one std::queue without  *)
(* a common lock are a data race: the step that makes two threads meet     *)
(* sets recvRaced or poolRaced, may stop the process, and what the queue   *)
(* then holds is left open.                                                *)
(***************************************************************************)
EXTENDS Integers, Sequences, FiniteSets

CONSTANTS
  Client,       \* the two players
  Worker,       \* workers beside the one in Update         (code: 8 in all)
  MAX_BULLET,   \* bullets of a room                              (code: 30)
  Shots,        \* bound: the bullets a message of a client may ask for; none
                \*   is a CB_POSITION_VECTOR, two or one a CB_REQUEST_BULLET
                \*   of type 1 or 2
  MaxMsg,       \* bound: messages of both clients
  MaxFlush      \* bound: flushes scheduled and not begun; Update waits

NoBullet == 999     \* what GetEmptyBullet returns when all are in use
Unknown  == -1      \* an index out of a pool in which threads have met

ASSUME ClientAssumption == IsFiniteSet(Client)
ASSUME BoundAssumption ==
  /\ MAX_BULLET \in 1..NoBullet
  /\ Shots \in [Client -> SUBSET (0..2)]
  /\ MaxMsg \in Nat
  /\ MaxFlush \in Nat \ {0}

VARIABLES
  pushed,     \* client: the bullets each message it has sent asks for
  recvQ,      \* m_recvMsgQueue
  copied,     \* m_copiedRecvMsgs
  stage,      \* where Update is
  shot,       \* bullets already shot for the message Update is at
  sendQ,      \* m_sendMsgQueue
  batch,      \* worker: the part of the queue its flush has still to send
  flushDue,   \* EV_FLUSH_MSG events to come
  bullets,    \* m_bullets
  bulletQ,    \* m_q_bullet
  releasing,  \* the workers in SetEmptyBullet
  crashed,    \* the process has been stopped
  air,        \* the indices of the bullets shot whose EV_MAKE_EMPTY_BULLET
              \*   is to come, first shot first
  exposed,    \* history: messages pushed while CopyRecvMsgs was running
  handled,    \* history: the messages ProcMsg was called with, by client
  queued,     \* history: packets pushed to m_sendMsgQueue
  sent,       \* history: the packets sent
  overtaken,  \* history: a packet was sent after a later one
  crossed,    \* history: two flushes were sending at once
  recvRaced,  \* history: a push met the copying or the emptying
  poolRaced,  \* history: two threads met in the pool, or an empty queue
              \*   was popped
  exhausted   \* history: a bullet was asked for with none left

recvVars == <<pushed, recvQ, exposed, recvRaced>>
updateVars == <<copied, stage, shot, handled>>
queueVars == <<sendQ, queued>>
flushVars == <<batch, flushDue, sent, overtaken, crossed>>
poolVars == <<bullets, bulletQ, releasing, air, poolRaced, exhausted>>
vars == <<recvVars, updateVars, queueVars, flushVars, poolVars, crashed>>

Bullet  == 0..(MAX_BULLET - 1)
Stage   == {"idle", "copying", "between", "emptying", "handling", "stuck"}
Garbage == [from |-> "nobody", n |-> 0]   \* memory no message was written to
Message == [from : Client, n : 1..MaxMsg] \* the n-th message of a client
Packet  == Nat \ {0}                      \* by its place in the order of pushes

TypeOK ==
  /\ pushed \in [Client -> Seq(0..2)]
  /\ recvQ \in Seq(Message \cup {Garbage})
  /\ copied \in Seq(Message \cup {Garbage})
  /\ stage \in Stage
  /\ shot \in Nat
  /\ sendQ \in Seq(Packet)
  /\ batch \in [Worker -> Seq(Packet)]
  /\ flushDue \in 0..MaxFlush
  /\ bullets \in [Bullet -> BOOLEAN]
  /\ bulletQ \in Seq(Bullet)
  /\ releasing \subseteq Worker
  /\ air \in Seq(Bullet \cup {NoBullet, Unknown})
  /\ exposed \subseteq Message
  /\ handled \in [Client -> Seq(1..MaxMsg)]
  /\ queued \in Nat
  /\ sent \subseteq Packet /\ overtaken \in BOOLEAN
  /\ crossed \in BOOLEAN /\ recvRaced \in BOOLEAN
  /\ poolRaced \in BOOLEAN /\ exhausted \in BOOLEAN
  /\ crashed \in BOOLEAN

Init ==
  /\ pushed = [c \in Client |-> <<>>]
  /\ recvQ = <<>> /\ copied = <<>>
  /\ stage = "idle" /\ shot = 0
  /\ sendQ = <<>> /\ batch = [w \in Worker |-> <<>>] /\ flushDue = 0
  /\ bullets = [b \in Bullet |-> FALSE] /\ bulletQ = <<>> /\ releasing = {}
  /\ air = <<>> /\ exposed = {}
  /\ handled = [c \in Client |-> <<>>] /\ sent = {} /\ overtaken = FALSE
  /\ queued = 0
  /\ crossed = FALSE /\ recvRaced = FALSE
  /\ poolRaced = FALSE /\ exhausted = FALSE
  /\ crashed = FALSE

MayCrash(raced) == crashed' \in IF raced THEN BOOLEAN ELSE {FALSE}

-----------------------------------------------------------------------------
(* PushMsg holds g_msg_lock, CopyRecvMsgs holds m_recvMsgQueueLock: a push  *)
(* may come at any moment.  One that meets the copying or the emptying may  *)
(* be kept, be lost, or leave in its place an earlier message of the        *)
(* queue's memory or memory that holds none.                                *)
CopyRuns == stage \in {"copying", "between", "emptying"}
Meets    == stage \in {"copying", "emptying"}
Earlier  == {m \in Message : m.n <= Len(pushed[m.from])}

PushMsg(c, k) ==
  LET m == [from |-> c, n |-> Len(pushed[c]) + 1] IN
  /\ ~crashed
  /\ m.n <= MaxMsg /\ Cardinality(Earlier) < MaxMsg
  /\ pushed' = [pushed EXCEPT ![c] = Append(@, k)]
  /\ exposed' = IF CopyRuns THEN exposed \cup {m} ELSE exposed
  /\ recvRaced' = (recvRaced \/ Meets)
  /\ MayCrash(Meets)
  /\ \/ recvQ' = Append(recvQ, m)
     \/ Meets /\ recvQ' = recvQ
     \/ Meets /\ \E o \in Earlier \cup {Garbage} : recvQ' = Append(recvQ, o)
  /\ UNCHANGED <<updateVars, queueVars, flushVars, poolVars>>

(* Update begins when its event comes: the first critical section of        *)
(* CopyRecvMsgs copies the queue, the second one empties it.                *)
BeginCopy ==
  /\ ~crashed /\ stage = "idle"
  /\ flushDue < MaxFlush
  /\ stage' = "copying"
  /\ UNCHANGED <<recvVars, copied, shot, handled, queueVars, flushVars,
                 poolVars, crashed>>

EndCopy ==
  /\ ~crashed /\ stage = "copying"
  /\ copied' = recvQ
  /\ stage' = "between"
  /\ UNCHANGED <<recvVars, shot, handled, queueVars, flushVars, poolVars,
                 crashed>>

BeginEmpty ==
  /\ ~crashed /\ stage = "between"
  /\ stage' = "emptying"
  /\ UNCHANGED <<recvVars, copied, shot, handled, queueVars, flushVars,
                 poolVars, crashed>>

(* What is left of the queue.  Mutant: one message stays. *)
EmptiedButLast(q) == IF q = <<>> THEN q ELSE <<q[Len(q)]>>

Emptied(q) == <<>>

EndEmpty ==
  /\ ~crashed /\ stage = "emptying"
  /\ recvQ' = Emptied(recvQ)
  /\ stage' = "handling"
  /\ UNCHANGED <<pushed, exposed, recvRaced, copied, shot, handled, queueVars,
                 flushVars, poolVars, crashed>>

-----------------------------------------------------------------------------
(* PushSendMsg, once for each player of a set: under m_sendMsgQueueLock. *)
Push(to) == /\ sendQ' = sendQ \o [i \in 1..Cardinality(to) |-> queued + i]
            /\ queued' = queued + Cardinality(to)

(* Update takes the next message of the batch.  Mutant: ProcMsg throws away *)
(* what is left of it, as ClearCopyMsg does for a READY.                    *)
RestCleared(q) == <<>>

Rest(q) == Tail(q)

Done(m) ==
  /\ copied' = Rest(copied)
  /\ shot' = 0
  /\ handled' = [handled EXCEPT ![m.from] = Append(@, m.n)]

(* ProcMsg, case CB_POSITION_VECTOR: the others are told. *)
ProcPosition(m) ==
  /\ ~crashed /\ stage = "handling"
  /\ copied # <<>> /\ m = Head(copied) /\ m # Garbage
  /\ pushed[m.from][m.n] = 0
  /\ Done(m)
  /\ Push(Client \ {m.from})
  /\ UNCHANGED <<recvVars, stage, flushVars, poolVars, crashed>>

(* GetEmptyBullet: the first free index is marked and queued.  A worker in  *)
(* SetEmptyBullet is not kept out; once threads have met in the pool, or an *)
(* empty queue has been popped, the model follows the pool no further.      *)
(* Mutant: the search goes one entry too far.                               *)
FreeOneMore == {b \in Bullet : ~bullets[b]} \cup {MAX_BULLET}

Free == {b \in Bullet : ~bullets[b]}

GetEmptyBullet(b) ==
  LET raced == poolRaced \/ releasing # {} IN
  /\ poolRaced' = raced
  /\ MayCrash(raced)
  /\ exhausted' = (exhausted \/ b = NoBullet)
  /\ \/ raced /\ b = Unknown /\ UNCHANGED <<bullets, bulletQ>>
     \/ /\ ~raced
        /\ IF Free = {} THEN b = NoBullet /\ UNCHANGED <<bullets, bulletQ>>
           ELSE /\ b \in Free /\ \A o \in Free : b <= o
                /\ bullets' = [bullets EXCEPT ![b] = TRUE]
                /\ bulletQ' = Append(bulletQ, b)

(* Case CB_REQUEST_BULLET, one bullet: an index from the pool, the event    *)
(* that gives one back, a packet to both players.                           *)
ShootBullet(m, b) ==
  /\ ~crashed /\ stage = "handling"
  /\ copied # <<>> /\ m = Head(copied) /\ m # Garbage
  /\ pushed[m.from][m.n] > 0
  /\ GetEmptyBullet(b)
  /\ air' = Append(air, b)
  /\ Push(Client)
  /\ IF shot + 1 < pushed[m.from][m.n]
     THEN shot' = shot + 1 /\ UNCHANGED <<copied, handled>>
     ELSE Done(m)
  /\ UNCHANGED <<recvVars, stage, flushVars, releasing>>

(* The default case is an endless loop: Update never comes back. *)
ProcUnknown ==
  /\ ~crashed /\ stage = "handling"
  /\ copied # <<>> /\ Head(copied) = Garbage
  /\ stage' = "stuck"
  /\ UNCHANGED <<recvVars, copied, shot, handled, queueVars, flushVars,
                 poolVars, crashed>>

(* Update schedules the next one and a flush. *)
EndUpdate ==
  /\ ~crashed /\ stage = "handling" /\ copied = <<>>
  /\ stage' = "idle"
  /\ flushDue' = flushDue + 1
  /\ UNCHANGED <<recvVars, copied, shot, handled, queueVars, batch, sent,
                 overtaken, crossed, poolVars, crashed>>

-----------------------------------------------------------------------------
(* FlushSendMsg, under m_sendMsgQueueLock: the worker takes the queue.      *)
(* Mutants: the last packet stays in the queue; the worker takes it in      *)
(* reverse.                                                                 *)
LeftLast(q)     == IF q = <<>> THEN q ELSE <<q[Len(q)]>>
TakenBackward(q) == [i \in 1..Len(q) |-> q[Len(q) + 1 - i]]

Left(q)  == <<>>
Taken(q) == q

Busy(w) == batch[w] # <<>> \/ w \in releasing

BeginFlush(w) ==
  /\ ~crashed
  /\ flushDue > 0 /\ ~Busy(w)
  /\ flushDue' = flushDue - 1
  /\ batch' = [batch EXCEPT ![w] = Taken(sendQ)]
  /\ sendQ' = Left(sendQ)
  /\ crossed' = (crossed \/ (sendQ # <<>> /\ \E v \in Worker : batch[v] # <<>>))
  /\ UNCHANGED <<recvVars, updateVars, queued, sent, overtaken, poolVars,
                 crashed>>

(* Out of the lock it sends what it has taken, packet by packet. *)
SendPacket(w) ==
  /\ ~crashed
  /\ batch[w] # <<>>
  /\ sent' = sent \cup {Head(batch[w])}
  /\ overtaken' = (overtaken \/ \E k \in sent : k > Head(batch[w]))
  /\ batch' = [batch EXCEPT ![w] = Tail(@)]
  /\ UNCHANGED <<recvVars, updateVars, queueVars, flushDue, crossed, poolVars,
                 crashed>>

(* An EV_MAKE_EMPTY_BULLET event, 5 s after the bullet was shot: the worker *)
(* goes into SetEmptyBullet, which takes no lock.  The two events of one    *)
(* CB_REQUEST_BULLET of type 1 are due within microseconds.                 *)
BeginRelease(w) ==
  LET raced == releasing # {} \/ bulletQ = <<>> IN
  /\ ~crashed
  /\ air # <<>> /\ ~Busy(w)
  /\ air' = Tail(air)
  /\ releasing' = releasing \cup {w}
  /\ poolRaced' = (poolRaced \/ raced)
  /\ MayCrash(raced)
  /\ UNCHANGED <<recvVars, updateVars, queueVars, flushVars, bullets, bulletQ,
                 exhausted>>

(* SetEmptyBullet: the index at the front of the queue is free again.       *)
(* Mutant: the one at its end is.                                           *)
FrontNewest(q) == q[Len(q)]

Front(q) == Head(q)

EndRelease(w) ==
  /\ ~crashed
  /\ w \in releasing
  /\ releasing' = releasing \ {w}
  /\ IF poolRaced THEN UNCHANGED <<bullets, bulletQ>>
     ELSE /\ bullets' = [bullets EXCEPT ![Front(bulletQ)] = FALSE]
          /\ bulletQ' = Tail(bulletQ)
  /\ UNCHANGED <<recvVars, updateVars, queueVars, flushVars, air, poolRaced,
                 exhausted, crashed>>

-----------------------------------------------------------------------------
Receive == \E c \in Client : \E k \in Shots[c] : PushMsg(c, k)
Update  == \/ BeginCopy \/ EndCopy \/ BeginEmpty \/ EndEmpty \/ EndUpdate
           \/ ProcUnknown
           \/ \E m \in Message :
                \/ ProcPosition(m)
                \/ \E b \in Free \cup {NoBullet, Unknown} : ShootBullet(m, b)
Flush(w)   == BeginFlush(w) \/ SendPacket(w)
Release(w) == BeginRelease(w) \/ EndRelease(w)

Next == Receive \/ Update \/ \E w \in Worker : Flush(w) \/ Release(w)

Spec == Init /\ [][Next]_vars

-----------------------------------------------------------------------------
SeqSet(q)   == {q[i] : i \in 1..Len(q)}
Distinct(q) == \A i, j \in 1..Len(q) : q[i] = q[j] => i = j
Taking      == UNION {SeqSet(batch[w]) : w \in Worker}

(* Each packet pushed to m_sendMsgQueue is waiting in it, or taken by one   *)
(* flush, or sent, and never two of these: the flushes of several workers   *)
(* share the queue under its lock without losing or doubling a packet.      *)
SentOnce ==
  /\ SeqSet(sendQ) \cup Taking \cup sent = 1..queued
  /\ SeqSet(sendQ) \cap (Taking \cup sent) = {}
  /\ Taking \cap sent = {}
  /\ \A v, w \in Worker :
       SeqSet(batch[v]) \cap SeqSet(batch[w]) # {} => v = w
  /\ Distinct(sendQ)
  /\ \A w \in Worker : Distinct(batch[w])

(* As long as no two flushes of the room send at once, packets are sent in  *)
(* the order in which the room has queued them.                             *)
SentInOrder == overtaken => crossed

(* As long as no push has met the copying or emptying of the queue, the     *)
(* messages of a client are worked through in the order it sent them, none  *)
(* of them twice.                                                           *)
HandledInOrder ==
  ~recvRaced => \A c \in Client : \A i, j \in 1..Len(handled[c]) :
                  i < j => handled[c][i] < handled[c][j]

(* The only messages the room loses are those pushed while CopyRecvMsgs is  *)
(* running: any other one is in the queue, in the copy, or worked through.  *)
OnlyExposedLost ==
  recvRaced \/
  \A m \in Earlier \ exposed :
    m \in SeqSet(recvQ) \cup SeqSet(copied) \/ m.n \in SeqSet(handled[m.from])

(* As long as the pool has not run out and no two threads have met in it,   *)
(* two bullets in the air never have the same index, though the events that *)
(* free an index do not say which one.                                      *)
BulletsApart ==
  ~poolRaced /\ ~exhausted => Distinct(air)
=============================================================================
