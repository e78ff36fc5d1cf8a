----------------------------- MODULE RecvFraming -----------------------------
(***************************************************************************)
(* How a receiver cuts the bytes of its TCP connections into packets: the  *)
(* loop of the battle server's EV_RECV, of the lobby server's DoWorker and *)
(* of the client's ProcessData.  A packet's first byte is its length; TCP  *)
(* delivers the bytes in any pieces.  The two servers keep the length and  *)
(* the bytes of an unfinished packet per connection; the client keeps one  *)
(* pair of static buffers for both of its connections (SharedBuffer).      *)
(*                                                                         *)
(* A byte is <<c, n>>, the n-th byte sent on connection c: what a packet   *)
(* says is left out, where its bytes come from is not.                     *)
(***************************************************************************)
EXTENDS Integers, Sequences

CONSTANTS
  Conn,          \* the connections of one receiver
  MaxSent,       \* bound: packets the peer sends on a connection
  Begin,         \* Begin[c][k]: the bytes sent on c before its packet k + 1
  MAX_PACKET,    \* the longest packet: its length is one byte    (code: 255)
  MAX_BUFFER,    \* the bytes one receive takes at most          (code: 256 for
                 \* the battle server, 1024 for the lobby server)
  SharedBuffer   \* FALSE: the servers; TRUE: the client

(* Packets are not empty; Begin grows with every packet sent. *)
ASSUME StreamAssumption ==
  /\ MaxSent \in Nat
  /\ Begin \in [Conn -> [0..MaxSent -> Nat]]
  /\ \A c \in Conn :
       /\ Begin[c][0] = 0
       /\ \A j, k \in 0..MaxSent : j < k => Begin[c][j] < Begin[c][k]
       /\ \A k \in 0..(MaxSent - 1) : Begin[c][k + 1] <= Begin[c][k] + MAX_PACKET
ASSUME SizeAssumption == /\ MAX_PACKET \in Nat \ {0}
                         /\ MAX_BUFFER \in Nat \ {0}
                         /\ SharedBuffer \in BOOLEAN

VARIABLES
  sent,     \* packets the peer has sent on each connection
  rcvd,     \* bytes the receives have taken from each connection
  chunk,    \* buf, num_byte: what is left of the receive being processed
  psize,    \* curr_packet_size: length of the unfinished packet, 0 if unknown
  saved,    \* packet_buf, prev_packet_data: its bytes so far
  handed    \* history: the packets given to ProcPacket, by connection

vars == <<sent, rcvd, chunk, psize, saved, handed>>

Static == "static"
Buffer == IF SharedBuffer THEN {Static} ELSE Conn
BufferOf(c) == IF SharedBuffer THEN Static ELSE c

Byte == Conn \X Nat

(* The bytes n, n + 1, ... of connection c, k of them; the packet k. *)
Bytes(c, n, k) == [i \in 1..k |-> <<c, n + i - 1>>]
Packet(c, k)   == Bytes(c, Begin[c][k - 1], Begin[c][k] - Begin[c][k - 1])

(* What a byte may read as a length: the first byte of a packet is its      *)
(* length, any other byte may have any value.                               *)
Lengths(b) ==
  LET starts == {k \in 0..(MaxSent - 1) : Begin[b[1]][k] = b[2]} IN
  IF starts = {} THEN 0..MAX_PACKET
                 ELSE {Begin[b[1]][k + 1] - Begin[b[1]][k] : k \in starts}

TypeOK ==
  /\ sent \in [Conn -> 0..MaxSent]
  /\ rcvd \in [Conn -> Nat]
  /\ chunk \in [Conn -> Seq(Byte)]
  /\ psize \in [Buffer -> 0..MAX_PACKET]
  /\ saved \in [Buffer -> Seq(Byte)]
  /\ handed \in [Conn -> Seq(Seq(Byte))]

Init ==
  /\ sent = [c \in Conn |-> 0]
  /\ rcvd = [c \in Conn |-> 0]
  /\ chunk = [c \in Conn |-> <<>>]
  /\ psize = [b \in Buffer |-> 0]
  /\ saved = [b \in Buffer |-> <<>>]
  /\ handed = [c \in Conn |-> <<>>]

-----------------------------------------------------------------------------
(* The peer sends its next packet. *)
Send(c) ==
  /\ sent[c] < MaxSent
  /\ sent' = [sent EXCEPT ![c] = @ + 1]
  /\ UNCHANGED <<rcvd, chunk, psize, saved, handed>>

(* A receive takes what has arrived.  The servers post the next receive of  *)
(* a connection when the last one is processed; the client polls its two    *)
(* connections in turn.                                                     *)
Idle(c) == \A d \in Conn : SharedBuffer \/ d = c => chunk[d] = <<>>

Recv(c) ==
  /\ Idle(c)
  /\ \E n \in 1..MAX_BUFFER :
       /\ rcvd[c] + n <= Begin[c][sent[c]]
       /\ chunk' = [chunk EXCEPT ![c] = Bytes(c, rcvd[c], n)]
       /\ rcvd' = [rcvd EXCEPT ![c] = @ + n]
  /\ UNCHANGED <<sent, psize, saved, handed>>

(* One turn of the loop.  The length is the one remembered, or the first    *)
(* byte's.                                                                  *)
PacketSizes(c) ==
  IF psize[BufferOf(c)] = 0 THEN Lengths(Head(chunk[c]))
                            ELSE {psize[BufferOf(c)]}

(* Mutants: the packet is whole with one byte more than it has; the bytes   *)
(* kept are not forgotten with its length.                                  *)
IsWholeLate(c, s) == Len(chunk[c]) + Len(saved[BufferOf(c)]) > s

IsWhole(c, s) == Len(chunk[c]) + Len(saved[BufferOf(c)]) >= s

ForgetLengthOnly(b) == /\ psize' = [psize EXCEPT ![b] = 0]
                       /\ UNCHANGED saved

Forget(b) == /\ psize' = [psize EXCEPT ![b] = 0]
             /\ saved' = [saved EXCEPT ![b] = <<>>]

(* A packet is finished with the first bytes of the chunk and handed over. *)
Finish(c) ==
  LET b == BufferOf(c) IN
  /\ chunk[c] # <<>>
  /\ \E s \in PacketSizes(c) :
       /\ IsWhole(c, s)
       /\ LET k == s - Len(saved[b]) IN
          /\ handed' = [handed EXCEPT ![c] =
                          Append(@, saved[b] \o SubSeq(chunk[c], 1, k))]
          /\ chunk' = [chunk EXCEPT ![c] = SubSeq(@, k + 1, Len(@))]
  /\ Forget(b)
  /\ UNCHANGED <<sent, rcvd>>

(* The chunk ends inside a packet: its bytes are kept. *)
Keep(c) ==
  LET b == BufferOf(c) IN
  /\ chunk[c] # <<>>
  /\ \E s \in PacketSizes(c) :
       /\ ~IsWhole(c, s)
       /\ psize' = [psize EXCEPT ![b] = s]
  /\ saved' = [saved EXCEPT ![b] = @ \o chunk[c]]
  /\ chunk' = [chunk EXCEPT ![c] = <<>>]
  /\ UNCHANGED <<sent, rcvd, handed>>

Next == \E c \in Conn : Send(c) \/ Recv(c) \/ Finish(c) \/ Keep(c)

Spec == Init /\ [][Next]_vars

(* What has arrived is received and processed; the peer need not send. *)
FairSpec == Spec /\ \A c \in Conn : WF_vars(Recv(c) \/ Finish(c) \/ Keep(c))
-----------------------------------------------------------------------------
(* Every packet handed to ProcPacket is one the peer has sent, whole, in    *)
(* order and once, in whatever pieces it has arrived.                       *)
PacketsIntact ==
  \A c \in Conn : /\ Len(handed[c]) <= sent[c]
                  /\ \A k \in 1..Len(handed[c]) : handed[c][k] = Packet(c, k)

(* The bytes kept are fewer than the longest packet has, so packet_buf,     *)
(* MAX_BUFFER (battle) or MAX_PACKET_SIZE (lobby) bytes long, holds them.   *)
SavedFits == \A b \in Buffer : Len(saved[b]) < MAX_PACKET

(* The buffer holds a whole packet or a part of one, never bytes of two.    *)
OnePacketInBuffer ==
  \A b \in Buffer : \A i, j \in 1..Len(saved[b]) :
    saved[b][i][1] = saved[b][j][1]

(* Every packet sent is handed over in the end, without waiting for the     *)
(* next one to push it out.                                                 *)
AllHandedOver ==
  \A c \in Conn : \A k \in 1..MaxSent :
    (sent[c] = k) ~> (Len(handed[c]) >= k)
=============================================================================
