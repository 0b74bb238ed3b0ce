------------------------------- MODULE Packet -------------------------------
(***************************************************************************)
(* The packets of the Minecraft protocol as the code writes them, class    *)
(* Packet (MCBackend.cpp:7-73), and as it reads them: getStatus and        *)
(* tpcListener take what they want at fixed offsets (326 and 473).         *)
(* A byte of a VarInt carries a digit below Radix, and Radix on top of it  *)
(* if there are more to come.                                              *)
(***************************************************************************)
EXTENDS Integers, Sequences

CONSTANT Radix  \* 2^7

ASSUME PacketAssumption == Radix \in Nat /\ Radix >= 2

\* The code is called with lengths and small numbers only: a negative value
\* would never be shifted to 0.
addVarInt[value \in Nat] ==
  IF value < Radix THEN <<value>>
  ELSE <<(value % Radix) + Radix>> \o addVarInt[value \div Radix]

addString(str) == addVarInt[Len(str)] \o str

addUShort(value) == <<(value \div 256) % 256, value % 256>>

buildWithoutId(packetId, data) ==  \* mutant: the length leaves out packetId
  addVarInt[Len(data)] \o <<packetId>> \o data

build(packetId, data) ==
  LET packetData == <<packetId>> \o data
  IN  addVarInt[Len(packetData)] \o packetData

TextAfterFour(buffer) ==  \* mutant: off by one
  SubSeq(buffer, 5, Len(buffer))

\* getStatus: std::string(buffer + 5, bytesRecieved - 5).
Text(buffer) == SubSeq(buffer, 6, Len(buffer))

\* tpcListener: buffer[7 + buffer[4]], which may lie outside the buffer.
NextStateReceived(buffer) == Len(buffer) >= 5 /\ Len(buffer) >= 8 + buffer[5]

NextState(buffer) == buffer[8 + buffer[5]]
-----------------------------------------------------------------------------
(* The format of the protocol, digit by digit.                             *)

Power[k \in Nat] == IF k = 0 THEN 1 ELSE Radix * Power[k - 1]

WireSize(n) == CHOOSE k \in 1 .. n + 1 : n < Power[k] /\ (k > 1 => n >= Power[k - 1])

WireVarInt(n) ==
  [i \in 1 .. WireSize(n) |->
     ((n \div Power[i - 1]) % Radix) + (IF i < WireSize(n) THEN Radix ELSE 0)]

WirePacket(id, body) == WireVarInt(Len(body) + 1) \o <<id>> \o body

WireString(str) == WireVarInt(Len(str)) \o str

WireHandshake(s) ==
  WireVarInt(s.version) \o WireString(s.text) \o addUShort(s.port) \o WireVarInt(s.nextState)

\* What Minecraft sends: a server its status, a client its handshake and at
\* once the packet after it.
Wire(s) ==
  IF s.kind = "status"
    THEN WirePacket(0, WireString(s.text))
    ELSE WirePacket(0, WireHandshake(s)) \o <<1, 0>>

\* The answers in which the fixed offsets are those of the protocol: both
\* lengths of a status, or the version of a handshake, take two bytes, and the
\* other VarInts of a handshake one.
AtFixedOffsets(s) ==
  IF s.kind = "status"
    THEN Len(s.text) \in Radix .. Radix * Radix - 4
    ELSE /\ s.version \in Radix .. Radix * Radix - 1
         /\ Len(s.text) + 7 < Radix
=============================================================================
