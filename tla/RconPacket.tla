----------------------------- MODULE RconPacket -----------------------------
(***************************************************************************)
(* The packets of RCON: struct RCON::Packet (RCON.cpp:20-66), and the id   *)
(* that authenticate reads from an answer (RCON.cpp:121-122).  An int is   *)
(* four bytes, the lowest first.                                           *)
(***************************************************************************)
EXTENDS Integers, Sequences

Int32(n) ==
  <<n % 256, (n \div 256) % 256, (n \div 65536) % 256, (n \div 16777216) % 256>>

set(reqId, packetType, data) ==
  [length    |-> 4 + 4 + Len(data) + 2,
   requestId |-> reqId,
   type      |-> packetType,
   payload   |-> data]

\* Fields in a string of length + 4 bytes that were all 0.
serialize(p) ==
  LET written == Int32(p.length) \o Int32(p.requestId) \o Int32(p.type) \o p.payload
  IN  [i \in 1 .. p.length + 4 |-> IF i <= Len(written) THEN written[i] ELSE 0]

\* A size below 0 does not fit std::string, whose constructor throws.
DeserializeThrows(buffer) == Len(buffer) \in {12, 13}

PayloadWhole(buffer) ==  \* mutant: keeps the terminators
  SubSeq(buffer, 13, Len(buffer))

\* What deserialize leaves in payload.
Payload(buffer) ==
  IF Len(buffer) < 12 THEN << >> ELSE SubSeq(buffer, 13, Len(buffer) - 2)

\* The four bytes at offset 4, of a buffer of zeros that recv filled in part.
ResponseId(buffer) ==
  [i \in 1 .. 4 |-> IF i + 4 <= Len(buffer) THEN buffer[i + 4] ELSE 0]

\* The format of the protocol: length, id, type, text and two terminators.
WireReply(id, type, text) ==
  Int32(Len(text) + 10) \o Int32(id) \o Int32(type) \o text \o <<0, 0>>
=============================================================================
