--------------------------- MODULE RecvFramingMC ---------------------------
(* Instances of RecvFraming: two connections, packets of 2, 3 and 4 bytes. *)
EXTENDS RecvFraming

CONSTANTS lobby, battle

Ends(k) == CASE k = 0 -> 0 [] k = 1 -> 2 [] k = 2 -> 6 [] k = 3 -> 9

Streams == [c \in Conn |-> [k \in 0..MaxSent |-> Ends(k)]]
=============================================================================
