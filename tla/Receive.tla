------------------------------ MODULE Receive -------------------------------
(***************************************************************************)
(* The receive loop that Socket::recieveBytes (MCBackend.cpp:130-167) and  *)
(* RCON::sendConsoleCommand (RCON.cpp:149-182) share: recv into a buffer   *)
(* of 1024 bytes, append, and go on as long as the buffer was full.  TCP   *)
(* hands the peer's bytes over in segments of any size, so recv returns    *)
(* what has arrived so far, and 0 once the peer has closed.                *)
(***************************************************************************)
EXTENDS Integers, Sequences

CONSTANTS
  Byte,     \* values of a byte
  Messages, \* the answers a peer may send
  Chunk     \* size of tempBuffer: 1024

ASSUME ReceiveAssumption ==
  /\ Messages \subseteq Seq(Byte)
  /\ Chunk \in Nat \ {0}

VARIABLES
  message,       \* the answer of this peer
  arrived,       \* how many of its bytes have arrived
  taken,         \* how many of these recv has returned
  leaves,        \* whether this peer closes or resets the connection at last
  peer,          \* "open", "closed" (orderly) or "reset"
  packetBuffer,  \* the bytes collected
  pc             \* "recv", "done" or "failed": returned -1 / false

vars == <<message, arrived, taken, leaves, peer, packetBuffer, pc>>

TypeOK ==
  /\ message \in Messages
  /\ arrived \in 0 .. Len(message)
  /\ taken \in 0 .. arrived
  /\ leaves \in BOOLEAN
  /\ peer \in {"open", "closed", "reset"}
  /\ packetBuffer \in Seq(Byte)
  /\ pc \in {"recv", "done", "failed"}

Init ==
  /\ message \in Messages
  /\ arrived = 0
  /\ taken = 0
  /\ leaves \in BOOLEAN
  /\ peer = "open"
  /\ packetBuffer = << >>
  /\ pc = "recv"

(* The network and the peer *)

Deliver ==
  /\ peer # "reset"
  /\ arrived' \in (arrived + 1) .. Len(message)
  /\ UNCHANGED <<message, taken, leaves, peer, packetBuffer, pc>>

PeerLeaves ==
  /\ leaves
  /\ peer = "open"
  /\ \/ peer' = "closed" /\ arrived = Len(message)
     \/ peer' = "reset"
  /\ UNCHANGED <<message, arrived, taken, leaves, packetBuffer, pc>>

(* The loop *)

\* What the next recv returns: everything there is, up to the buffer's size.
BytesRead == IF arrived - taken < Chunk THEN arrived - taken ELSE Chunk

TempBuffer == SubSeq(message, taken + 1, taken + BytesRead)

TakenCounts == taken + Chunk  \* mutant: the buffer's size, not what recv returned

Taken == taken + BytesRead

AppendedFirst ==  \* mutant: copies to the start of the new buffer
  TempBuffer \o SubSeq(packetBuffer, BytesRead + 1, Len(packetBuffer))

Appended == packetBuffer \o TempBuffer

AlwaysFull == TRUE  \* mutant: a short read does not end the loop

Full == BytesRead = Chunk

\* bytesRead > 0: append, and stop unless the buffer was full.
RecvData ==
  /\ pc = "recv"
  /\ peer # "reset"
  /\ arrived > taken
  /\ packetBuffer' = Appended
  /\ taken' = Taken
  /\ pc' = IF Full THEN "recv" ELSE "done"
  /\ UNCHANGED <<message, arrived, leaves, peer>>

\* bytesRead = 0: nothing to append, and 0 is not 1024.
RecvClosed ==
  /\ pc = "recv"
  /\ peer = "closed"
  /\ arrived = taken
  /\ pc' = "done"
  /\ UNCHANGED <<message, arrived, taken, leaves, peer, packetBuffer>>

\* bytesRead = -1; a reset also discards what has arrived.
RecvError ==
  /\ pc = "recv"
  /\ peer = "reset"
  /\ pc' = "failed"
  /\ UNCHANGED <<message, arrived, taken, leaves, peer, packetBuffer>>

Recv == RecvData \/ RecvClosed \/ RecvError

Next == Deliver \/ PeerLeaves \/ Recv

Spec == Init /\ [][Next]_vars

\* What was sent arrives, a peer that is going to leave leaves, and recv
\* returns when it can.
FairSpec == Spec /\ WF_vars(Deliver) /\ WF_vars(PeerLeaves) /\ WF_vars(Recv)
-----------------------------------------------------------------------------
\* However the answer is cut into segments and reads, what is collected is
\* exactly what was read, in order, no byte lost, doubled or moved: the
\* reallocation and the two memcpy of the loop.
Collected == packetBuffer = SubSeq(message, 1, taken)

\* While the loop goes on it has seen nothing but full buffers, so that bytes
\* are still to come unless the answer ends with one: what keeps recv from
\* waiting for a peer that has said everything.
MoreToCome == pc = "recv" /\ Len(message) % Chunk # 0 => taken < Len(message)

\* The claim of the comments at RCON.cpp:179 and MCBackend.cpp:161, "If less
\* than 1024 bytes were read, we're done": the answer is complete by then.
DoneMeansAll == pc = "done" => packetBuffer = message

\* The loop returns, whenever the peer leaves at last or the answer is not a
\* multiple of the buffer's size.  (One that is blocks the caller for ever.)
Returns == (leaves \/ Len(message) % Chunk # 0) => <>(pc # "recv")
=============================================================================
