----------------------------- MODULE MCReceive ------------------------------
(* ReceivedPackets for TLC: each length and version on both sides of the   *)
(* boundaries of Radix 16, two statuses and a reply of RCON of exactly one *)
(* and two full buffers.                                                   *)
EXTENDS ReceivedPackets

Letters(n) == [i \in 1 .. n |-> 1000 + i]

SomePackets ==
  [kind : {"status"}, text : {Letters(n) : n \in {0, 14, 15, 16, 27, 59}}]
    \union
  [kind : {"handshake"}, version : {15, 16, 255, 256}, text : {Letters(n) : n \in {0, 8, 9}},
   port : {25565}, nextState : {1, 2}]

SomeReplies == [id : {1, -1, 2}, type : {0}, text : {Letters(n) : n \in {0, 1, 18, 20}}]

Bytes  == 0 .. 2000
=============================================================================
