-------------------------- MODULE RecvFraming_proofs --------------------------
(***************************************************************************)
(* Theorems about RecvFraming for the two servers (a buffer for every      *)
(* connection), for every stream of packets and every way TCP cuts it.     *)
(***************************************************************************)
EXTENDS RecvFraming, SequenceTheorems, TLAPS

Servers == SharedBuffer = FALSE

(* The first byte of connection c that has not been handed over. *)
Pos(c) == Begin[c][Len(handed[c])]

(* q is the run of bytes of c that starts with byte n. *)
IsRun(q, c, n) == \A i \in 1..Len(q) : q[i] = <<c, n + i - 1>>

(* The bytes handed over, kept, being processed and not yet received        *)
(* follow each other without a gap; a known length is that of the packet    *)
(* whose bytes are kept, and more of it is missing.                         *)
ConnInv(c) ==
  /\ Len(handed[c]) \in 0..sent[c]
  /\ \A k \in 1..Len(handed[c]) : handed[c][k] = Packet(c, k)
  /\ rcvd[c] <= Begin[c][sent[c]]
  /\ rcvd[c] = Pos(c) + Len(saved[c]) + Len(chunk[c])
  /\ IsRun(saved[c], c, Pos(c))
  /\ IsRun(chunk[c], c, Pos(c) + Len(saved[c]))
  /\ psize[c] = 0 => Len(saved[c]) = 0
  /\ psize[c] # 0 => /\ Len(handed[c]) < MaxSent
                     /\ psize[c] = Begin[c][Len(handed[c]) + 1] - Pos(c)
                     /\ Len(saved[c]) < psize[c]

Inv == TypeOK /\ \A c \in Conn : ConnInv(c)

-----------------------------------------------------------------------------
LEMMA BeginType ==
  ASSUME NEW c \in Conn, NEW k \in 0..MaxSent
  PROVE  Begin[c][k] \in Nat
BY StreamAssumption

LEMMA BeginGrows ==
  ASSUME NEW c \in Conn, NEW j \in 0..MaxSent, NEW k \in 0..MaxSent, j < k
  PROVE  Begin[c][j] < Begin[c][k]
BY StreamAssumption

LEMMA BytesType ==
  ASSUME NEW c \in Conn, NEW n \in Nat, NEW k \in Nat
  PROVE  /\ Bytes(c, n, k) \in Seq(Byte)
         /\ Len(Bytes(c, n, k)) = k
         /\ IsRun(Bytes(c, n, k), c, n)
<1>1. \A i \in 1..k : <<c, n + i - 1>> \in Byte
  BY DEF Byte
<1>2. Bytes(c, n, k) \in [1..k -> Byte]
  BY <1>1 DEF Bytes
<1>3. Bytes(c, n, k) \in Seq(Byte)
  BY <1>2, SeqDef
<1>4. Len(Bytes(c, n, k)) = k
  BY <1>2, <1>3, LenProperties DEF Bytes
<1> QED
  BY <1>3, <1>4 DEF IsRun, Bytes

(* A run of the length of Bytes is Bytes. *)
LEMMA RunIsBytes ==
  ASSUME NEW c \in Conn, NEW n \in Nat, NEW q \in Seq(Byte), IsRun(q, c, n)
  PROVE  q = Bytes(c, n, Len(q))
<1> DEFINE b == Bytes(c, n, Len(q))
<1>1. Len(q) \in Nat
  BY LenProperties
<1>2. b \in Seq(Byte) /\ Len(b) = Len(q) /\ IsRun(b, c, n)
  BY <1>1, BytesType
<1> HIDE DEF b
<1>3. \A i \in 1..Len(q) : q[i] = b[i]
  BY <1>2 DEF IsRun
<1>4. q = b
  BY <1>2, <1>3, SeqEqual
<1> QED
  BY <1>4 DEF b

(* Cutting and joining runs. *)
LEMMA RunConcat ==
  ASSUME NEW c \in Conn, NEW n \in Nat, NEW p \in Seq(Byte), NEW q \in Seq(Byte),
         IsRun(p, c, n), IsRun(q, c, n + Len(p))
  PROVE  IsRun(p \o q, c, n)
<1>1. Len(p) \in Nat /\ Len(q) \in Nat
  BY LenProperties
<1>2. Len(p \o q) = Len(p) + Len(q)
  BY ConcatProperties
<1> SUFFICES ASSUME NEW i \in 1..(Len(p) + Len(q))
             PROVE  (p \o q)[i] = <<c, n + i - 1>>
  BY <1>2 DEF IsRun
<1>3. CASE i <= Len(p)
  BY <1>1, <1>3, ConcatProperties DEF IsRun
<1>4. CASE ~(i <= Len(p))
  <2>1. (p \o q)[i] = q[i - Len(p)]
    BY <1>4, ConcatProperties
  <2>2. i - Len(p) \in 1..Len(q)
    BY <1>1, <1>4
  <2>3. q[i - Len(p)] = <<c, n + Len(p) + (i - Len(p)) - 1>>
    BY <2>2 DEF IsRun
  <2>4. n + Len(p) + (i - Len(p)) - 1 = n + i - 1
    BY <1>1
  <2> QED
    BY <2>1, <2>3, <2>4
<1> QED
  BY <1>3, <1>4

LEMMA RunSubSeq ==
  ASSUME NEW c \in Conn, NEW n \in Nat, NEW q \in Seq(Byte), IsRun(q, c, n),
         NEW a \in 1..(Len(q) + 1), NEW b \in (a - 1)..Len(q)
  PROVE  /\ SubSeq(q, a, b) \in Seq(Byte)
         /\ Len(SubSeq(q, a, b)) = b - a + 1
         /\ IsRun(SubSeq(q, a, b), c, n + a - 1)
<1>1. Len(q) \in Nat /\ \A i \in a..b : q[i] \in Byte
  BY LenProperties, ElementOfSeq
<1>2. a \in Int /\ b \in Int
  BY <1>1
<1>3. /\ SubSeq(q, a, b) \in Seq(Byte)
      /\ Len(SubSeq(q, a, b)) = IF a <= b THEN b - a + 1 ELSE 0
      /\ \A i \in 1..(b - a + 1) : SubSeq(q, a, b)[i] = q[a + i - 1]
  BY <1>1, <1>2, SubSeqProperties
<1>4. Len(SubSeq(q, a, b)) = b - a + 1
  BY <1>1, <1>3
<1>5. ASSUME NEW i \in 1..(b - a + 1)
      PROVE  SubSeq(q, a, b)[i] = <<c, n + a - 1 + i - 1>>
  <2>1. a + i - 1 \in 1..Len(q)
    BY <1>1
  <2>2. q[a + i - 1] = <<c, n + (a + i - 1) - 1>>
    BY <2>1 DEF IsRun
  <2>3. n + (a + i - 1) - 1 = n + a - 1 + i - 1
    BY <1>2
  <2> QED
    BY <1>3, <2>2, <2>3
<1> QED
  BY <1>3, <1>4, <1>5 DEF IsRun

LEMMA CutRun ==
  ASSUME NEW c \in Conn, NEW n \in Nat, NEW q \in Seq(Byte), IsRun(q, c, n),
         NEW k \in 1..Len(q)
  PROVE  /\ SubSeq(q, 1, k) \in Seq(Byte)
         /\ Len(SubSeq(q, 1, k)) = k
         /\ IsRun(SubSeq(q, 1, k), c, n)
         /\ SubSeq(q, k + 1, Len(q)) \in Seq(Byte)
         /\ Len(SubSeq(q, k + 1, Len(q))) = Len(q) - k
         /\ IsRun(SubSeq(q, k + 1, Len(q)), c, n + k)
<1>1. Len(q) \in Nat
  BY LenProperties
<1>2. 1 \in 1..(Len(q) + 1) /\ k \in (1 - 1)..Len(q)
  BY <1>1
<1>3. k - 1 + 1 = k /\ n + 1 - 1 = n
  BY <1>1
<1>4. k + 1 \in 1..(Len(q) + 1)
  BY <1>1
<1>5. Len(q) \in ((k + 1) - 1)..Len(q)
  BY <1>1
<1>6. Len(q) - (k + 1) + 1 = Len(q) - k /\ n + (k + 1) - 1 = n + k
  BY <1>1
<1>7. /\ SubSeq(q, 1, k) \in Seq(Byte)
      /\ Len(SubSeq(q, 1, k)) = k - 1 + 1
      /\ IsRun(SubSeq(q, 1, k), c, n + 1 - 1)
  BY <1>2, RunSubSeq
<1>8. /\ SubSeq(q, k + 1, Len(q)) \in Seq(Byte)
      /\ Len(SubSeq(q, k + 1, Len(q))) = Len(q) - (k + 1) + 1
      /\ IsRun(SubSeq(q, k + 1, Len(q)), c, n + (k + 1) - 1)
  BY <1>4, <1>5, RunSubSeq
<1> QED
  BY <1>3, <1>6, <1>7, <1>8

-----------------------------------------------------------------------------
(* The length read in a turn of the loop is that of the next packet, which  *)
(* has been sent and of which something is missing.                         *)
LEMMA NextLength ==
  ASSUME Servers, Inv, NEW c \in Conn, chunk[c] # <<>>,
         NEW s \in PacketSizes(c)
  PROVE  /\ Len(handed[c]) < sent[c]
         /\ s = Begin[c][Len(handed[c]) + 1] - Pos(c)
         /\ Len(saved[c]) < s
         /\ s \in 1..MAX_PACKET
<1> DEFINE h == Len(handed[c])
<1> USE DEF Servers, BufferOf, Buffer
<1>1. /\ sent[c] \in 0..MaxSent /\ MaxSent \in Nat /\ rcvd[c] \in Nat
      /\ chunk[c] \in Seq(Byte) /\ saved[c] \in Seq(Byte)
      /\ psize[c] \in 0..MAX_PACKET
  BY StreamAssumption DEF Inv, TypeOK
<1>2. Len(chunk[c]) \in Nat \ {0} /\ Len(saved[c]) \in Nat
  BY <1>1, EmptySeq, LenProperties
<1>3. h \in 0..sent[c] /\ h \in 0..MaxSent
  BY <1>1 DEF Inv, ConnInv
<1>4. Begin[c][h] \in Nat /\ Begin[c][sent[c]] \in Nat
  BY <1>1, <1>3, BeginType
<1>5. Begin[c][h] < Begin[c][sent[c]]
  BY SMTT(30), <1>1, <1>2, <1>4 DEF Inv, ConnInv, Pos
<1>6. h < sent[c]
  <2>1. h # sent[c]
    <3>1. SUFFICES ASSUME h = sent[c] PROVE FALSE
      OBVIOUS
    <3>2. Begin[c][h] = Begin[c][sent[c]]
      BY <3>1
    <3> QED
      BY <1>4, <1>5, <3>2
  <2> HIDE DEF h
  <2> QED
    BY <1>1, <1>3, <2>1
<1>7. h + 1 \in 0..MaxSent /\ h \in 0..(MaxSent - 1)
  BY <1>1, <1>3, <1>6
<1>8. Begin[c][h + 1] \in Nat /\ Begin[c][h] < Begin[c][h + 1]
  <2>1. Begin[c][h + 1] \in Nat
    BY <1>7, BeginType
  <2>2. h < h + 1
    BY <1>3
  <2> QED
    BY <1>3, <1>7, <2>1, <2>2, StreamAssumption
<1>9. Begin[c][h + 1] <= Begin[c][h] + MAX_PACKET
  BY <1>7, StreamAssumption
<1>10. CASE psize[c] # 0
  <2>1. s = psize[c]
    BY <1>10 DEF PacketSizes
  <2> QED
    BY <1>1, <1>2, <1>6, <1>10, <2>1 DEF Inv, ConnInv, Pos
<1>11. CASE psize[c] = 0
  <2>1. Len(saved[c]) = 0
    BY <1>11 DEF Inv, ConnInv
  <2>2. Head(chunk[c]) = <<c, Begin[c][h]>>
    <3>1. Head(chunk[c]) = chunk[c][1]
      OBVIOUS
    <3>2. chunk[c][1] = <<c, Begin[c][h] + 0 + 1 - 1>>
      BY <1>2, <2>1 DEF Inv, ConnInv, IsRun, Pos
    <3> QED
      BY <1>4, <3>1, <3>2
  <2>3. {k \in 0..(MaxSent - 1) : Begin[c][k] = Begin[c][h]} = {h}
    <3>1. ASSUME NEW k \in 0..(MaxSent - 1), k # h
          PROVE  Begin[c][k] # Begin[c][h]
      <4>1. k \in 0..MaxSent /\ (k < h \/ h < k)
        BY <1>1, <1>3, <3>1
      <4>2. Begin[c][k] \in Nat
        BY <4>1, BeginType
      <4> QED
        <5>1. CASE k < h
          BY <1>3, <1>4, <4>1, <4>2, <5>1, BeginGrows
        <5>2. CASE h < k
          BY <1>3, <1>4, <4>1, <4>2, <5>2, BeginGrows
        <5> QED
          BY <4>1, <5>1, <5>2
    <3> QED
      BY <1>7, <3>1
  <2>4. Lengths(<<c, Begin[c][h]>>) = {Begin[c][h + 1] - Begin[c][h]}
    BY <2>3 DEF Lengths
  <2>5. s = Begin[c][h + 1] - Begin[c][h]
    BY <1>11, <2>2, <2>4 DEF PacketSizes
  <2> QED
    BY SMTT(30), <1>4, <1>6, <1>8, <1>9, <2>1, <2>5, SizeAssumption DEF Pos
<1> QED
  BY <1>10, <1>11
-----------------------------------------------------------------------------
LEMMA InitInv == ASSUME Servers, Init PROVE Inv
<1> USE DEF Servers, Buffer, BufferOf
<1>1. TypeOK
  <2>1. <<>> \in Seq(Byte) /\ <<>> \in Seq(Seq(Byte))
    BY EmptySeq
  <2> QED
    BY <2>1, StreamAssumption, SizeAssumption DEF Init, TypeOK
<1>2. ASSUME NEW c \in Conn PROVE ConnInv(c)
  <2>1. /\ handed[c] = <<>> /\ saved[c] = <<>> /\ chunk[c] = <<>>
        /\ psize[c] = 0 /\ sent[c] = 0 /\ rcvd[c] = 0
    BY DEF Init
  <2>2. Len(<<>>) = 0
    BY EmptySeq
  <2>3. Begin[c][0] = 0
    BY StreamAssumption
  <2> QED
    BY <2>1, <2>2, <2>3 DEF ConnInv, Pos, IsRun
<1> QED
  BY <1>1, <1>2 DEF Inv

(* A step of connection c leaves the other connections alone. *)
LEMMA OtherConn ==
  ASSUME Servers, Inv, NEW d \in Conn,
         /\ sent'[d] = sent[d] /\ rcvd'[d] = rcvd[d] /\ chunk'[d] = chunk[d]
         /\ psize'[d] = psize[d] /\ saved'[d] = saved[d] /\ handed'[d] = handed[d]
  PROVE  ConnInv(d)'
<1>1. ConnInv(d)
  BY DEF Inv
<1> QED
  BY <1>1 DEF ConnInv, Pos

LEMMA SendInv ==
  ASSUME Servers, Inv, NEW c \in Conn, Send(c)
  PROVE  Inv'
<1> USE DEF Servers, Buffer, BufferOf
<1>1. /\ sent[c] \in 0..MaxSent /\ MaxSent \in Nat /\ sent[c] < MaxSent
      /\ sent' = [sent EXCEPT ![c] = @ + 1] /\ sent \in [Conn -> 0..MaxSent]
      /\ UNCHANGED <<rcvd, chunk, psize, saved, handed>>
  BY StreamAssumption DEF Inv, TypeOK, Send
<1>2. sent[c] + 1 \in 0..MaxSent
  BY <1>1
<1>3. TypeOK'
  BY <1>1, <1>2 DEF Inv, TypeOK
<1>4. ConnInv(c)'
  <2>1. Begin[c][sent[c]] < Begin[c][sent[c] + 1]
    <3>1. sent[c] < sent[c] + 1
      BY <1>1
    <3> QED
      BY <1>1, <1>2, <3>1, BeginGrows
  <2>2. Begin[c][sent[c]] \in Nat /\ Begin[c][sent[c] + 1] \in Nat
    BY <1>1, <1>2, BeginType
  <2>3. rcvd[c] \in Nat /\ rcvd[c] <= Begin[c][sent[c]]
    BY DEF Inv, TypeOK, ConnInv
  <2>4. sent'[c] = sent[c] + 1
    BY <1>1
  <2>5. rcvd[c] <= Begin[c][sent'[c]]
    BY <2>1, <2>2, <2>3, <2>4
  <2>6. Len(handed[c]) \in 0..sent'[c]
    BY <1>1, <2>4 DEF Inv, ConnInv
  <2> QED
    BY <1>1, <2>5, <2>6 DEF Inv, ConnInv, Pos
<1>5. ASSUME NEW d \in Conn, d # c PROVE ConnInv(d)'
  BY <1>1, <1>5, OtherConn
<1> QED
  BY <1>3, <1>4, <1>5 DEF Inv

LEMMA RecvInv ==
  ASSUME Servers, Inv, NEW c \in Conn, Recv(c)
  PROVE  Inv'
<1> USE DEF Servers, Buffer, BufferOf
<1>1. PICK n \in 1..MAX_BUFFER :
        /\ rcvd[c] + n <= Begin[c][sent[c]]
        /\ chunk' = [chunk EXCEPT ![c] = Bytes(c, rcvd[c], n)]
        /\ rcvd' = [rcvd EXCEPT ![c] = @ + n]
  BY DEF Recv
<1>2. /\ chunk[c] = <<>> /\ rcvd[c] \in Nat /\ n \in Nat
      /\ UNCHANGED <<sent, psize, saved, handed>>
      /\ chunk \in [Conn -> Seq(Byte)] /\ rcvd \in [Conn -> Nat]
  BY SizeAssumption DEF Inv, TypeOK, Recv, Idle
<1>3. /\ Bytes(c, rcvd[c], n) \in Seq(Byte) /\ Len(Bytes(c, rcvd[c], n)) = n
      /\ IsRun(Bytes(c, rcvd[c], n), c, rcvd[c])
  BY <1>2, BytesType
<1>4. TypeOK'
  <2>1. rcvd' \in [Conn -> Nat]
    BY <1>1, <1>2
  <2>2. chunk' \in [Conn -> Seq(Byte)]
    BY <1>1, <1>2, <1>3
  <2> QED
    BY <1>2, <2>1, <2>2 DEF Inv, TypeOK
<1>5. ConnInv(c)'
  <2>1. chunk'[c] = Bytes(c, rcvd[c], n) /\ rcvd'[c] = rcvd[c] + n
    BY <1>1, <1>2
  <2>2. Len(chunk[c]) = 0 /\ Len(saved[c]) \in Nat
    <3>1. saved[c] \in Seq(Byte)
      BY DEF Inv, TypeOK
    <3> QED
      BY <1>2, <3>1, EmptySeq, LenProperties
  <2>3. Pos(c) \in Nat
    <3>1. Len(handed[c]) \in 0..MaxSent
      BY StreamAssumption DEF Inv, TypeOK, ConnInv
    <3> QED
      BY <3>1, BeginType DEF Pos
  <2>4. rcvd[c] = Pos(c) + Len(saved[c])
    BY <2>2, <2>3 DEF Inv, ConnInv
  <2>5. rcvd'[c] = Pos(c) + Len(saved[c]) + Len(chunk'[c])
    BY <1>2, <1>3, <2>1, <2>4
  <2>6. IsRun(chunk'[c], c, Pos(c) + Len(saved[c]))
    BY <1>3, <2>1, <2>4
  <2>7. rcvd'[c] <= Begin[c][sent[c]]
    BY <1>1, <2>1
  <2> QED
    BY <1>2, <2>5, <2>6, <2>7 DEF Inv, ConnInv, Pos
<1>6. ASSUME NEW d \in Conn, d # c PROVE ConnInv(d)'
  BY <1>1, <1>2, <1>6, OtherConn
<1> QED
  BY <1>4, <1>5, <1>6 DEF Inv

LEMMA KeepInv ==
  ASSUME Servers, Inv, NEW c \in Conn, Keep(c)
  PROVE  Inv'
<1> USE DEF Servers, Buffer, BufferOf
<1> DEFINE n == Len(saved[c])
           m == Len(chunk[c])
<1>1. PICK s \in PacketSizes(c) :
        /\ ~IsWhole(c, s)
        /\ psize' = [psize EXCEPT ![c] = s]
  BY DEF Keep
<1>2. /\ saved' = [saved EXCEPT ![c] = @ \o chunk[c]]
      /\ chunk' = [chunk EXCEPT ![c] = <<>>]
      /\ UNCHANGED <<sent, rcvd, handed>>
      /\ chunk[c] # <<>>
  BY DEF Keep
<1>3. /\ chunk \in [Conn -> Seq(Byte)] /\ saved \in [Conn -> Seq(Byte)]
      /\ psize \in [Conn -> 0..MAX_PACKET]
      /\ sent[c] \in 0..MaxSent /\ MaxSent \in Nat
  BY StreamAssumption DEF Inv, TypeOK
<1>4. /\ Len(handed[c]) < sent[c]
      /\ s = Begin[c][Len(handed[c]) + 1] - Pos(c)
      /\ s \in 1..MAX_PACKET
  BY <1>2, NextLength
<1>5. n \in Nat /\ m \in Nat
  BY <1>3, LenProperties
<1>6. /\ saved[c] \o chunk[c] \in Seq(Byte)
      /\ Len(saved[c] \o chunk[c]) = n + m
  BY <1>3, ConcatProperties
<1>7. n + m < s
  <2>1. ~(m + n >= s)
    BY <1>1 DEF IsWhole
  <2>2. s \in Nat
    BY <1>4, SizeAssumption
  <2> HIDE DEF n, m
  <2> QED
    BY <1>5, <2>1, <2>2
<1>8. <<>> \in Seq(Byte) /\ Len(<<>>) = 0
  BY EmptySeq
<1>9. TypeOK'
  <2>1. s \in 0..MAX_PACKET
    BY <1>4, SizeAssumption
  <2>2. psize' \in [Conn -> 0..MAX_PACKET]
    BY <1>1, <1>3, <2>1
  <2>3. saved' \in [Conn -> Seq(Byte)] /\ chunk' \in [Conn -> Seq(Byte)]
    BY <1>2, <1>3, <1>6, <1>8
  <2> QED
    BY <1>2, <2>2, <2>3 DEF Inv, TypeOK
<1>10. ConnInv(c)'
  <2>1. /\ saved'[c] = saved[c] \o chunk[c] /\ chunk'[c] = <<>>
        /\ psize'[c] = s
        /\ handed' = handed /\ sent' = sent /\ rcvd' = rcvd
    BY <1>1, <1>2, <1>3
  <2>2. Pos(c) \in Nat
    <3>1. Len(handed[c]) \in 0..MaxSent
      BY StreamAssumption DEF Inv, TypeOK, ConnInv
    <3> QED
      BY <3>1, BeginType DEF Pos
  <2>3. IsRun(saved'[c], c, Pos(c))
    BY <1>3, <2>1, <2>2, RunConcat DEF Inv, ConnInv
  <2>4. IsRun(chunk'[c], c, Pos(c) + Len(saved'[c]))
    BY <1>8, <2>1 DEF IsRun
  <2>5. rcvd[c] = Pos(c) + Len(saved'[c]) + Len(chunk'[c])
    <3>1. rcvd[c] = Pos(c) + n + m
      BY DEF Inv, ConnInv
    <3>2. /\ Len(chunk'[c]) = 0
          /\ Len(saved'[c]) = n + m
      BY <1>6, <1>8, <2>1
    <3> HIDE DEF n, m
    <3> QED
      BY <1>5, <2>2, <3>1, <3>2
  <2>6. s # 0 /\ Len(saved'[c]) < s /\ Len(handed[c]) < MaxSent
    <3>1. Len(handed[c]) \in Nat
      BY <1>3 DEF Inv, ConnInv
    <3> QED
      BY <1>3, <1>4, <1>6, <1>7, <2>1, <3>1, SizeAssumption
  <2>7. psize'[c] # 0 /\ psize'[c] = Begin[c][Len(handed[c]) + 1] - Pos(c)
    BY <1>4, <2>1, <2>6
  <2> QED
    BY <2>1, <2>3, <2>4, <2>5, <2>6, <2>7 DEF Inv, ConnInv, Pos
<1>11. ASSUME NEW d \in Conn, d # c PROVE ConnInv(d)'
  BY <1>1, <1>2, <1>3, <1>11, OtherConn
<1> QED
  BY <1>9, <1>10, <1>11 DEF Inv

LEMMA FinishInv ==
  ASSUME Servers, Inv, NEW c \in Conn, Finish(c)
  PROVE  Inv'
<1> USE DEF Servers, Buffer, BufferOf
<1> DEFINE h == Len(handed[c])
           n == Len(saved[c])
<1>1. PICK s \in PacketSizes(c) :
        /\ IsWhole(c, s)
        /\ handed' = [handed EXCEPT ![c] =
             Append(@, saved[c] \o SubSeq(chunk[c], 1, s - Len(saved[c])))]
        /\ chunk' = [chunk EXCEPT ![c] =
             SubSeq(@, (s - Len(saved[c])) + 1, Len(@))]
  BY DEF Finish
<1> DEFINE k == s - n
           p == saved[c] \o SubSeq(chunk[c], 1, k)
           r == SubSeq(chunk[c], k + 1, Len(chunk[c]))
<1>2. /\ psize' = [psize EXCEPT ![c] = 0] /\ saved' = [saved EXCEPT ![c] = <<>>]
      /\ UNCHANGED <<sent, rcvd>> /\ chunk[c] # <<>>
  BY DEF Finish, Forget
<1>3. /\ chunk \in [Conn -> Seq(Byte)] /\ saved \in [Conn -> Seq(Byte)]
      /\ handed \in [Conn -> Seq(Seq(Byte))]
      /\ psize \in [Conn -> 0..MAX_PACKET]
      /\ sent[c] \in 0..MaxSent /\ MaxSent \in Nat
  BY StreamAssumption DEF Inv, TypeOK
<1>4. /\ h < sent[c] /\ s = Begin[c][h + 1] - Pos(c) /\ n < s
      /\ s \in 1..MAX_PACKET
  BY <1>2, NextLength
<1>5. n \in Nat /\ Len(chunk[c]) \in Nat /\ h \in Nat /\ s \in Nat
  BY <1>3, <1>4, LenProperties, SizeAssumption
<1>6. /\ h \in 0..MaxSent /\ h + 1 \in 0..MaxSent /\ h + 1 \in 0..sent[c]
  BY <1>3, <1>4, <1>5
<1>7. Pos(c) \in Nat /\ Begin[c][h + 1] \in Nat /\ Begin[c][h + 1] = Pos(c) + s
  <2>1. Pos(c) \in Nat /\ Begin[c][h + 1] \in Nat
    BY <1>6, BeginType DEF Pos
  <2> QED
    BY <1>4, <1>5, <2>1
<1>8. k \in 1..Len(chunk[c]) /\ n + k = s
  <2>1. Len(chunk[c]) + n >= s
    BY <1>1 DEF IsWhole
  <2>2. s - n \in 1..Len(chunk[c]) /\ n + (s - n) = s
    <3> HIDE DEF n
    <3> QED
      BY <1>4, <1>5, <2>1
  <2> QED
    BY <2>2
<1>9. /\ saved[c] \in Seq(Byte) /\ IsRun(saved[c], c, Pos(c))
      /\ chunk[c] \in Seq(Byte) /\ IsRun(chunk[c], c, Pos(c) + n)
  BY <1>3 DEF Inv, ConnInv
<1>10. /\ SubSeq(chunk[c], 1, k) \in Seq(Byte)
       /\ Len(SubSeq(chunk[c], 1, k)) = k
       /\ IsRun(SubSeq(chunk[c], 1, k), c, Pos(c) + n)
       /\ r \in Seq(Byte)
       /\ Len(r) = Len(chunk[c]) - k
       /\ IsRun(r, c, Pos(c) + n + k)
  <2>1. Pos(c) + n \in Nat
    BY <1>5, <1>7
  <2> HIDE DEF n, k
  <2> QED
    BY <1>8, <1>9, <2>1, CutRun
<1>11. Pos(c) + n + k = Pos(c) + s
  <2> HIDE DEF n, k
  <2> QED
    BY <1>5, <1>7, <1>8
<1>12. p \in Seq(Byte) /\ Len(p) = s /\ IsRun(p, c, Pos(c))
  <2>1. p \in Seq(Byte) /\ Len(p) = n + k
    BY <1>9, <1>10, ConcatProperties
  <2>2. IsRun(p, c, Pos(c))
    BY <1>7, <1>9, <1>10, RunConcat
  <2> QED
    BY <1>8, <2>1, <2>2
<1>13. p = Packet(c, h + 1)
  <2>1. p = Bytes(c, Pos(c), s)
    BY <1>7, <1>12, RunIsBytes
  <2>2. (h + 1) - 1 = h
    BY <1>5
  <2>3. s = Begin[c][h + 1] - Begin[c][h]
    BY <1>4 DEF Pos
  <2> QED
    BY <2>1, <2>2, <2>3 DEF Packet, Pos
<1>14. /\ handed'[c] = Append(handed[c], p) /\ chunk'[c] = r
       /\ saved'[c] = <<>> /\ psize'[c] = 0 /\ sent' = sent /\ rcvd' = rcvd
  BY <1>1, <1>2, <1>3
<1>15. /\ Append(handed[c], p) \in Seq(Seq(Byte))
       /\ Len(Append(handed[c], p)) = h + 1
       /\ \A i \in 1..h : Append(handed[c], p)[i] = handed[c][i]
       /\ Append(handed[c], p)[h + 1] = p
  BY SMTT(30), <1>3, <1>12, AppendProperties
<1>16. <<>> \in Seq(Byte) /\ Len(<<>>) = 0
  BY EmptySeq
<1>17. TypeOK'
  <2>1. handed' \in [Conn -> Seq(Seq(Byte))]
    BY <1>1, <1>3, <1>15
  <2>2. chunk' \in [Conn -> Seq(Byte)] /\ saved' \in [Conn -> Seq(Byte)]
    BY <1>1, <1>2, <1>3, <1>10, <1>16
  <2>3. 0 \in 0..MAX_PACKET
    BY SizeAssumption
  <2>4. psize' \in [Conn -> 0..MAX_PACKET]
    BY <1>2, <1>3, <2>3
  <2> QED
    BY <1>2, <2>1, <2>2, <2>4 DEF Inv, TypeOK
<1> HIDE DEF p, r, n, k
<1>18. ConnInv(c)'
  <2>1. Len(handed'[c]) = h + 1
    BY <1>14, <1>15
  <2>2. Pos(c)' = Begin[c][h + 1]
    BY <2>1 DEF Pos
  <2>3. ASSUME NEW i \in 1..(h + 1) PROVE handed'[c][i] = Packet(c, i)
    <3>1. CASE i \in 1..h
      BY <1>14, <1>15, <3>1 DEF Inv, ConnInv
    <3>2. CASE i = h + 1
      BY <1>13, <1>14, <1>15, <3>2
    <3> QED
      BY <1>5, <3>1, <3>2
  <2>4. rcvd[c] = Pos(c) + n + Len(chunk[c]) /\ rcvd[c] <= Begin[c][sent[c]]
    BY DEF Inv, ConnInv, n
  <2>5. rcvd[c] = Begin[c][h + 1] + Len(saved'[c]) + Len(chunk'[c])
    <3>1. Len(chunk'[c]) = Len(chunk[c]) - k /\ Len(saved'[c]) = 0
      BY <1>10, <1>14, <1>16
    <3>2. k \in Nat /\ n + k = s /\ Pos(c) + s = Pos(c) + n + k
      BY <1>8, <1>11
    <3>3. rcvd[c] = Pos(c) + n + k + (Len(chunk[c]) - k)
      BY <1>5, <1>7, <2>4, <3>2
    <3> QED
      BY <1>5, <1>7, <3>1, <3>2, <3>3
  <2>6. IsRun(saved'[c], c, Begin[c][h + 1])
    BY <1>14, <1>16 DEF IsRun
  <2>7. IsRun(chunk'[c], c, Begin[c][h + 1] + Len(saved'[c]))
    BY <1>7, <1>10, <1>11, <1>14, <1>16
  <2>8. Len(handed'[c]) \in 0..sent'[c]
    BY <1>6, <1>14, <2>1
  <2>9. \A i \in 1..Len(handed'[c]) : handed'[c][i] = Packet(c, i)
    BY <2>1, <2>3
  <2> QED
    BY <1>14, <1>16, <2>2, <2>4, <2>5, <2>6, <2>7, <2>8, <2>9 DEF ConnInv
<1>19. ASSUME NEW d \in Conn, d # c PROVE ConnInv(d)'
  BY <1>1, <1>2, <1>3, <1>19, OtherConn
<1> QED
  BY <1>17, <1>18, <1>19 DEF Inv

-----------------------------------------------------------------------------
(* Inv is an inductive invariant of the servers' loops. *)
THEOREM InvCorrect == ASSUME Servers PROVE Spec => []Inv
<1>1. Init => Inv
  BY InitInv
<1>2. Inv /\ [Next]_vars => Inv'
  <2> SUFFICES ASSUME Inv, [Next]_vars PROVE Inv'
    OBVIOUS
  <2>1. CASE Next
    BY <2>1, SendInv, RecvInv, FinishInv, KeepInv DEF Next
  <2>2. CASE UNCHANGED vars
    BY <2>2 DEF vars, Inv, TypeOK, ConnInv, Pos
  <2> QED
    BY <2>1, <2>2
<1> QED
  BY <1>1, <1>2, PTL DEF Spec

(* The receivers' buffers and counters have their types. *)
THEOREM TypeCorrect == ASSUME Servers PROVE Spec => []TypeOK
<1>1. Inv => TypeOK
  BY DEF Inv
<1> QED
  BY <1>1, InvCorrect, PTL

(* Every packet given to ProcPacket by a server's receive loop is the next  *)
(* one its peer has sent, whole, for every stream of packets and every way  *)
(* the connection cuts it into receives.                                    *)
THEOREM PacketsIntactCorrect == ASSUME Servers PROVE Spec => []PacketsIntact
<1>1. Inv => PacketsIntact
  <2> SUFFICES ASSUME Inv, NEW c \in Conn
               PROVE  /\ Len(handed[c]) <= sent[c]
                      /\ \A k \in 1..Len(handed[c]) : handed[c][k] = Packet(c, k)
    BY DEF PacketsIntact
  <2>1. sent[c] \in Nat
    BY StreamAssumption DEF Inv, TypeOK
  <2> QED
    BY <2>1 DEF Inv, ConnInv
<1> QED
  BY <1>1, InvCorrect, PTL

(* The buffer a server keeps the bytes of an unfinished packet in is never  *)
(* filled to the length of the longest packet, whatever arrives in a        *)
(* receive.                                                                 *)
THEOREM SavedFitsCorrect == ASSUME Servers PROVE Spec => []SavedFits
<1>1. Inv => SavedFits
  <2> SUFFICES ASSUME Inv, NEW c \in Conn PROVE Len(saved[c]) < MAX_PACKET
    BY DEF SavedFits, Servers, Buffer
  <2>1. /\ saved[c] \in Seq(Byte) /\ psize[c] \in 0..MAX_PACKET
        /\ MAX_PACKET \in Nat \ {0}
    BY SizeAssumption DEF Inv, TypeOK, Servers, Buffer
  <2>2. Len(saved[c]) \in Nat
    BY <2>1, LenProperties
  <2>3. Len(saved[c]) = 0 \/ Len(saved[c]) < psize[c]
    BY DEF Inv, ConnInv
  <2> QED
    BY <2>1, <2>2, <2>3
<1> QED
  BY <1>1, InvCorrect, PTL
=============================================================================
