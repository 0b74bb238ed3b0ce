--------------------------- MODULE ReceiveProofs ----------------------------
(* Proofs about Receive and ReceivedPackets, for answers of every length   *)
(* and buffers of every size.                                              *)
EXTENDS ReceivedPackets, PacketProofs, SequenceTheorems, TLAPS

\* Appending the next n elements of s to its first k gives its first k + n.
LEMMA PrefixGrows ==
  ASSUME NEW S, NEW s \in Seq(S), NEW k \in Nat, NEW n \in Nat, k + n <= Len(s)
  PROVE  SubSeq(s, 1, k) \o SubSeq(s, k + 1, k + n) = SubSeq(s, 1, k + n)
<1> DEFINE a == SubSeq(s, 1, k)
           b == SubSeq(s, k + 1, k + n)
           c == SubSeq(s, 1, k + n)
<1>1. /\ a \in Seq(S) /\ Len(a) = k
      /\ \A i \in 1 .. k : a[i] = s[i]
  OBVIOUS
<1>2. /\ b \in Seq(S) /\ Len(b) = n
      /\ \A i \in 1 .. n : b[i] = s[k + i]
  OBVIOUS
<1>3. /\ c \in Seq(S) /\ Len(c) = k + n
      /\ \A i \in 1 .. k + n : c[i] = s[i]
  OBVIOUS
<1>4. a \o b \in Seq(S) /\ Len(a \o b) = Len(c)
  BY <1>1, <1>2, <1>3
<1>5. ASSUME NEW i \in 1 .. Len(c)
      PROVE  (a \o b)[i] = c[i]
  <2>1. CASE i <= k
    BY <1>1, <1>2, <1>3, <2>1
  <2>2. CASE i > k
    <3>1. i - k \in 1 .. n
      BY <1>3, <2>2
    <3> QED
      BY <1>1, <1>2, <1>3, <2>2, <3>1
  <2> QED
    BY <1>3, <2>1, <2>2
<1> QED
  BY <1>3, <1>4, <1>5, SeqEqual
-----------------------------------------------------------------------------
Inv == TypeOK /\ Collected

LEMMA ReceiveInit == Init => Inv
BY ReceiveAssumption DEF Init, Inv, TypeOK, Collected

LEMMA ReceiveNext == Inv /\ [Next]_vars => Inv'
<1> SUFFICES ASSUME Inv, [Next]_vars
             PROVE  Inv'
  OBVIOUS
<1> USE ReceiveAssumption DEF Inv, TypeOK, Collected
<1>0. message \in Seq(Byte) /\ Len(message) \in Nat
  OBVIOUS
<1>1. CASE UNCHANGED vars
  BY <1>1 DEF vars
<1>2. CASE Deliver
  BY <1>0, <1>2 DEF Deliver
<1>3. CASE PeerLeaves
  BY <1>3 DEF PeerLeaves
<1>4. CASE RecvData
  <2> USE DEF Appended, Taken
  <2>1. BytesRead \in Nat /\ taken + BytesRead <= arrived
    BY <1>0, <1>4 DEF RecvData, BytesRead
  <2>2. packetBuffer' = SubSeq(message, 1, taken')
    BY <1>0, <1>4, <2>1, PrefixGrows DEF RecvData, TempBuffer
  <2>3. packetBuffer' \in Seq(Byte)
    <3>1. taken' \in 0 .. Len(message)
      BY <1>0, <1>4, <2>1 DEF RecvData
    <3> QED
      BY <1>0, <2>2, <3>1, SubSeqProperties
  <2>4. taken' \in 0 .. arrived'
    BY <1>0, <1>4, <2>1 DEF RecvData
  <2> QED
    BY <1>4, <2>2, <2>3, <2>4 DEF RecvData
<1>5. CASE RecvClosed \/ RecvError
  BY <1>5 DEF RecvClosed, RecvError
<1> QED
  BY <1>1, <1>2, <1>3, <1>4, <1>5 DEF Next, Recv

\* What the loop has collected is a prefix of the answer, in order and without
\* loss, for every answer, every segmentation and every buffer size.
THEOREM CollectedAlways == Spec => [](TypeOK /\ Collected)
BY ReceiveInit, ReceiveNext, PTL DEF Spec, Inv

LEMMA NextMultiple ==
  ASSUME NEW n \in Nat, NEW d \in Nat \ {0}, n % d = 0
  PROVE  (n + d) % d = 0
<1> DEFINE q == n \div d
<1>1. n = d * q /\ q \in Nat
  OBVIOUS
<1> HIDE DEF q
<1>2. n + d = d * (q + 1)
  BY <1>1
<1>3. \A k \in Nat : (d * k) % d = 0
  OBVIOUS
<1> QED
  BY <1>1, <1>2, <1>3

\* Each read that leaves the loop running took one full buffer.
FullSoFar == pc = "recv" => taken % Chunk = 0

LEMMA FullSoFarNext == Inv /\ FullSoFar /\ [Next]_vars => FullSoFar'
<1> SUFFICES ASSUME Inv, FullSoFar, RecvData, pc' = "recv"
             PROVE  taken' % Chunk = 0
  BY DEF FullSoFar, Next, vars, Deliver, PeerLeaves, Recv, RecvClosed, RecvError
<1>1. taken \in Nat /\ Chunk \in Nat \ {0} /\ taken % Chunk = 0
  BY ReceiveAssumption DEF FullSoFar, RecvData, Inv, TypeOK
<1>2. taken' = taken + Chunk
  BY DEF RecvData, Taken, Full
<1> QED
  BY <1>1, <1>2, NextMultiple

\* As long as the loop runs there is something left to read, unless the answer
\* is a multiple of the buffer's size: recv waits only for what will come.
THEOREM MoreAlways == Spec => []MoreToCome
<1>1. Init => FullSoFar
  BY ReceiveAssumption DEF Init, FullSoFar
<1>2. Inv /\ FullSoFar => MoreToCome
  BY ReceiveAssumption DEF Inv, TypeOK, FullSoFar, MoreToCome
<1> QED
  BY <1>1, <1>2, ReceiveInit, ReceiveNext, FullSoFarNext, PTL DEF Spec

\* What the loop keeps is of the types that its variables declare.
THEOREM ReceiveTypeCorrect == Spec => []TypeOK
BY CollectedAlways, PTL
-----------------------------------------------------------------------------
(* What is read from a prefix of a packet.                                 *)

Elements == Nat \union Byte

LEMMA PrefixParts ==
  ASSUME NEW S, NEW s \in Seq(S), NEW k \in 0 .. Len(s)
  PROVE  /\ SubSeq(s, 1, k) \in Seq(S)
         /\ Len(SubSeq(s, 1, k)) = k
         /\ \A i \in 1 .. k : SubSeq(s, 1, k)[i] = s[i]
OBVIOUS

\* Of a packet that has the text after its first k bytes, what lies between
\* offset k and offset e of any prefix is a prefix of the text.
LEMMA TextOfPrefix ==
  ASSUME NEW S, NEW wire \in Seq(S), NEW text \in Seq(S), NEW k \in Nat,
         k + Len(text) <= Len(wire),
         \A i \in 1 .. Len(text) : wire[k + i] = text[i],
         NEW t \in 0 .. Len(wire), NEW e \in Int, e <= t, e <= k + Len(text)
  PROVE  LET read == SubSeq(SubSeq(wire, 1, t), k + 1, e)
         IN  /\ IsPrefixOf(read, text)
             /\ e = k + Len(text) => read = text
<1> DEFINE buffer == SubSeq(wire, 1, t)
           read == SubSeq(buffer, k + 1, e)
           part == SubSeq(text, 1, Len(read))
<1>1. buffer \in Seq(S) /\ Len(buffer) = t /\ \A i \in 1 .. t : buffer[i] = wire[i]
  BY PrefixParts
<1> HIDE DEF buffer
<1>2. /\ read \in Seq(S)
      /\ Len(read) = IF k + 1 <= e THEN e - k ELSE 0
      /\ \A i \in 1 .. Len(read) : read[i] = buffer[k + i]
  BY <1>1
<1> HIDE DEF read
<1>3. Len(read) \in 0 .. Len(text) /\ (Len(read) > 0 => k + Len(read) = e)
  BY <1>2
<1>4. part \in Seq(S) /\ Len(part) = Len(read) /\ \A i \in 1 .. Len(read) : part[i] = text[i]
  BY <1>3, PrefixParts
<1> HIDE DEF part
<1>5. ASSUME NEW i \in 1 .. Len(read)
      PROVE  read[i] = part[i]
  <2>1. k + i \in 1 .. t /\ i \in 1 .. Len(text)
    BY <1>3
  <2> QED
    BY <1>1, <1>2, <1>4, <2>1
<1>6. read = part
  BY <1>2, <1>4, <1>5, SeqEqual
<1>7. IsPrefixOf(read, text)
  BY <1>3, <1>6 DEF IsPrefixOf, part
<1>8. ASSUME e = k + Len(text)
      PROVE  read = text
  <2>1. Len(read) = Len(text)
    BY <1>2, <1>8
  <2>2. part = text
    BY <1>4, <2>1, SeqEqual
  <2> QED
    BY <1>6, <2>2
<1> QED
  BY <1>7, <1>8 DEF read, buffer

LEMMA SentTypes ==
  ASSUME NEW s \in Sent
  PROVE  /\ WireOf[s] = Wire(s)
         /\ s.text \in Seq(Elements)
         /\ s.kind = "status" \/ s.kind = "handshake"
         /\ s.kind = "handshake" =>
              s.version \in Nat /\ s.port \in Nat /\ s.nextState \in 1 .. 3 /\ s.nextState \in Nat
<1>1. s \in Statuses \union Handshakes
  BY ReceivedPacketsAssumption
<1>2. WireOf[s] = Wire(s)
  BY DEF WireOf
<1>3. CASE s \in Statuses
  <2>1. s.kind = "status" /\ s.text \in Seq(Byte)
    BY <1>3 DEF Statuses
  <2> QED
    BY <1>2, <2>1 DEF Elements
<1>4. CASE s \in Handshakes
  <2>1. s.kind = "handshake" /\ s.text \in Seq(Byte)
    BY <1>4 DEF Handshakes
  <2>2. s.version \in Nat /\ s.port \in Nat /\ s.nextState \in 1 .. 3
    BY <1>4 DEF Handshakes
  <2>3. s.text \in Seq(Elements)
    BY <2>1 DEF Elements
  <2>4. s.nextState \in Nat
    BY <2>2
  <2> QED
    BY <1>2, <2>1, <2>2, <2>3, <2>4
<1> QED
  BY <1>1, <1>3, <1>4

LEMMA ReplyTypes ==
  ASSUME NEW s \in Replies
  PROVE  /\ s.id \in Int /\ s.type \in Int /\ s.text \in Seq(Elements)
         /\ -1 <= s.id /\ s.id < 256
         /\ WireOfReply[s] = WireReply(s.id, s.type, s.text)
<1>1. s.id \in Int /\ -1 <= s.id /\ s.id < 256 /\ s.type \in Int /\ s.text \in Seq(Byte)
  BY ReceivedPacketsAssumption
<1>2. s.text \in Seq(Elements)
  BY <1>1 DEF Elements
<1> QED
  BY <1>1, <1>2 DEF WireOfReply

LEMMA CollectedParts ==
  ASSUME Inv, NEW S, message \in Seq(S)
  PROVE  /\ taken \in 0 .. Len(message)
         /\ packetBuffer = SubSeq(message, 1, taken)
         /\ Len(packetBuffer) = taken
         /\ \A i \in 1 .. taken : packetBuffer[i] = message[i]
<1>1. taken \in 0 .. Len(message) /\ packetBuffer = SubSeq(message, 1, taken)
  BY DEF Inv, TypeOK, Collected
<1> QED
  BY <1>1, PrefixParts

LEMMA DecodedInv == Inv => DecodedRight
<1> SUFFICES ASSUME Inv, NEW s \in Sent, WireOf[s] = message, AtFixedOffsets(s)
             PROVE  IF s.kind = "status"
                      THEN IsPrefixOf(Text(packetBuffer), s.text)
                      ELSE NextStateReceived(packetBuffer) => NextState(packetBuffer) = s.nextState
  BY DEF DecodedRight
<1>1. Nat \subseteq Elements
  BY DEF Elements
<1>2. CASE s.kind = "status"
  <2>1. message = WirePacket(0, WireString(s.text)) /\ Len(s.text) \in Radix .. Radix * Radix - 4
    BY <1>2, SentTypes DEF Wire, AtFixedOffsets
  <2> DEFINE text == s.text
  <2>2. text \in Seq(Elements)
    BY SentTypes
  <2> HIDE DEF text
  <2>3. /\ message \in Seq(Elements)
        /\ Len(message) = 5 + Len(text)
        /\ \A i \in 1 .. Len(text) : message[5 + i] = text[i]
    <3> DEFINE wire == WirePacket(0, WireString(text))
    <3>1. /\ wire \in Seq(Elements)
          /\ Len(wire) = 5 + Len(text)
          /\ \A i \in 1 .. Len(text) : wire[5 + i] = text[i]
      BY <1>1, <2>1, <2>2, StatusParts DEF text
    <3> QED
      BY <2>1, <3>1 DEF text
  <2>4. /\ taken \in 0 .. Len(message) /\ packetBuffer = SubSeq(message, 1, taken)
        /\ Len(packetBuffer) = taken
    BY <2>3, CollectedParts
  <2>5. IsPrefixOf(SubSeq(SubSeq(message, 1, taken), 5 + 1, taken), text)
    <3>1. 5 + Len(text) <= Len(message) /\ taken \in Int /\ taken <= taken /\ taken <= 5 + Len(text)
      BY <2>2, <2>3, <2>4
    <3> QED
      BY <2>2, <2>3, <2>4, <3>1, TextOfPrefix
  <2>6. Text(packetBuffer) = SubSeq(SubSeq(message, 1, taken), 5 + 1, taken)
    BY <2>4 DEF Text
  <2> QED
    BY <1>2, <2>5, <2>6 DEF text
<1>3. CASE s.kind = "handshake"
  <2>1. /\ message \in Seq(Elements)
        /\ Len(message) = Len(s.text) + 10
        /\ message[5] = Len(s.text)
        /\ message[8 + Len(s.text)] = s.nextState
    BY <1>1, <1>3, SentTypes, HandshakeParts
  <2>2. /\ taken \in 0 .. Len(message) /\ Len(packetBuffer) = taken
        /\ \A i \in 1 .. taken : packetBuffer[i] = message[i]
    BY <2>1, CollectedParts
  <2>3. Len(s.text) \in Nat
    BY SentTypes
  <2>4. ASSUME NextStateReceived(packetBuffer)
        PROVE  NextState(packetBuffer) = s.nextState
    <3>1. packetBuffer[5] = Len(s.text)
      BY <2>1, <2>2, <2>4 DEF NextStateReceived
    <3>2. 8 + Len(s.text) \in 1 .. taken
      BY <2>2, <2>3, <2>4, <3>1 DEF NextStateReceived
    <3> QED
      BY <2>1, <2>2, <3>1, <3>2 DEF NextState
  <2> QED
    BY <1>3, <2>4
<1> QED
  BY <1>2, <1>3, SentTypes

\* For every text of any server, and every handshake of the sizes for which
\* its offsets are right, getStatus and tpcListener decode what was sent, or a
\* prefix of it, however the network cut it.
THEOREM DecodedAlways == Spec => []DecodedRight
BY CollectedAlways, DecodedInv, PTL DEF Inv
-----------------------------------------------------------------------------
LEMMA BuildsInv == Inv => BuildsWire
<1> SUFFICES ASSUME Inv
             PROVE  BuildsWire
  OBVIOUS
<1>1. Nat \subseteq Elements /\ 0 \in Elements /\ 0 \in Nat
  BY DEF Elements
<1>2. ASSUME NEW s \in Sent, WireOf[s] = message, s.kind = "status"
      PROVE  build(0, addString(s.text)) = message
  <2>1. s.text \in Seq(Elements)
    BY SentTypes
  <2>2. message = WirePacket(0, WireString(s.text))
    BY <1>2, SentTypes DEF Wire
  <2>3. build(0, addString(s.text)) = WirePacket(0, WireString(s.text))
    BY <1>1, <2>1, BuildIsWire
  <2> QED
    BY <2>2, <2>3
<1>3. ASSUME NEW s \in Sent, WireOf[s] = message, s.kind = "handshake"
      PROVE  build(0, addVarInt[s.version] \o addString(s.text) \o addUShort(s.port)
                        \o addVarInt[s.nextState])
               = SubSeq(message, 1, Len(message) - 2)
  <2> DEFINE body == WireHandshake(s)
             wire == WirePacket(0, body)
             size == Len(WireVarInt(Len(body) + 1))
             built == build(0, addVarInt[s.version] \o addString(s.text) \o addUShort(s.port)
                                 \o addVarInt[s.nextState])
  <2>0. s.version \in Nat /\ s.text \in Seq(Elements) /\ s.port \in Nat /\ s.nextState \in Nat
    BY <1>3, SentTypes
  <2>1. body \in Seq(Elements)
    BY <1>1, <2>0, HandshakeIsWire
  <2>2. message = wire \o <<1, 0>>
    BY <1>3, SentTypes DEF Wire
  <2>3. built = wire
    BY <1>1, <2>0, BuildIsWire
  <2> HIDE DEF body, built
  <2>4. wire \in Seq(Elements)
    <3>1. size \in Nat
      BY <2>1, WireVarIntType
    <3>2. Len(WireVarInt(Len(body) + 1)) = size
      OBVIOUS
    <3> HIDE DEF size
    <3> QED
      BY <1>1, <2>1, <3>1, <3>2, WirePacketParts
  <2> HIDE DEF wire
  <2>5. SubSeq(wire \o <<1, 0>>, 1, Len(wire \o <<1, 0>>) - 2) = wire
    <3>1. <<1, 0>> \in Seq(Elements) /\ Len(<<1, 0>>) = 2
      BY <1>1
    <3> DEFINE z == <<1, 0>>
    <3>2. z \in Seq(Elements) /\ Len(z) = 2
      BY <3>1
    <3> HIDE DEF z
    <3>3. /\ wire \o z \in Seq(Elements) /\ Len(wire \o z) = Len(wire) + 2
          /\ \A i \in 1 .. Len(wire) : (wire \o z)[i] = wire[i]
      <4>1. wire \in Seq(Elements) /\ z \in Seq(Elements)
        BY <2>4, <3>2
      <4>2. /\ wire \o z \in Seq(Elements)
            /\ Len(wire \o z) = Len(wire) + Len(z)
            /\ \A i \in 1 .. Len(wire) : (wire \o z)[i] = wire[i]
        BY <4>1, ConcatParts
      <4> QED
        BY <3>2, <4>2
    <3>4. Len(wire) \in 0 .. Len(wire \o z) /\ Len(wire \o z) - 2 = Len(wire)
      BY <2>4, <3>3
    <3>5. /\ SubSeq(wire \o z, 1, Len(wire)) \in Seq(Elements)
          /\ Len(SubSeq(wire \o z, 1, Len(wire))) = Len(wire)
          /\ \A i \in 1 .. Len(wire) : SubSeq(wire \o z, 1, Len(wire))[i] = wire[i]
      BY <3>3, <3>4, PrefixParts
    <3>6. SubSeq(wire \o z, 1, Len(wire)) = wire
      BY <2>4, <3>5, SeqEqual
    <3> QED
      BY <3>4, <3>6 DEF z
  <2> QED
    BY <2>2, <2>3, <2>5 DEF built
<1>4. ASSUME NEW s \in Replies, WireOfReply[s] = message
      PROVE  serialize(set(s.id, s.type, s.text)) = message
  <2>1. s.id \in Int /\ s.type \in Int /\ s.text \in Seq(Elements)
    BY ReplyTypes
  <2> DEFINE id == s.id
             type == s.type
             text == s.text
  <2>2. id \in Int /\ type \in Int /\ text \in Seq(Elements)
    BY <2>1
  <2>3. message = WireReply(id, type, text)
    BY <1>4 DEF WireOfReply
  <2> HIDE DEF id, type, text
  <2>4. serialize(set(id, type, text)) = WireReply(id, type, text)
    BY <1>1, <2>2, SerializeIsWire
  <2> QED
    BY <2>3, <2>4 DEF id, type, text
<1> QED
  BY <1>2, <1>3, <1>4, SentTypes DEF BuildsWire

\* What class Packet and struct RCON::Packet write is the protocol's format,
\* for every text, version and id.
THEOREM BuildsAlways == Spec => []BuildsWire
BY CollectedAlways, BuildsInv, PTL DEF Inv
-----------------------------------------------------------------------------
\* The lowest byte of an id says which of the ids of a reply it is.
LEMMA IdByItsFirstByte ==
  ASSUME NEW id \in Int, -1 <= id, id < 256, Int32(id)[1] = 1
  PROVE  id = 1
BY DEF Int32

LEMMA RepliesInv == Inv => RepliesRight
<1> SUFFICES ASSUME Inv, NEW s \in Replies, WireOfReply[s] = message,
                    ~DeserializeThrows(packetBuffer)
             PROVE  /\ IsPrefixOf(Payload(packetBuffer), s.text)
                    /\ packetBuffer = message => Payload(packetBuffer) = s.text
                    /\ ResponseId(packetBuffer) = Int32(1) => s.id = 1
  BY DEF RepliesRight
<1> DEFINE id == s.id
           type == s.type
           text == s.text
           wire == WireReply(id, type, text)
<1>1. Nat \subseteq Elements
  BY DEF Elements
<1>2. /\ id \in Int /\ -1 <= id /\ id < 256 /\ type \in Int /\ text \in Seq(Elements)
      /\ message = wire
  BY ReplyTypes
<1> HIDE DEF id, type, text
<1>3. /\ wire \in Seq(Elements) /\ Len(wire) = Len(text) + 14
      /\ \A i \in 1 .. 4 : wire[4 + i] = Int32(id)[i]
      /\ \A i \in 1 .. Len(text) : wire[12 + i] = text[i]
  <2>1. id \in Int /\ type \in Int /\ text \in Seq(Elements)
    BY <1>2
  <2> QED
    BY <1>1, <2>1, ReplyParts
<1> HIDE DEF wire
<1>4. message \in Seq(Elements)
  BY <1>2, <1>3
<1>5. /\ taken \in 0 .. Len(wire) /\ packetBuffer = SubSeq(wire, 1, taken)
      /\ Len(packetBuffer) = taken
      /\ \A i \in 1 .. taken : packetBuffer[i] = wire[i]
  BY <1>2, <1>4, CollectedParts
<1>6. ASSUME taken < 12
      PROVE  /\ IsPrefixOf(Payload(packetBuffer), s.text)
             /\ packetBuffer = message => Payload(packetBuffer) = s.text
  <2>1. Payload(packetBuffer) = << >>
    BY <1>5, <1>6 DEF Payload
  <2>2. IsPrefixOf(<< >>, text)
    BY <1>2 DEF IsPrefixOf
  <2>3. packetBuffer # message
    BY <1>2, <1>3, <1>5, <1>6
  <2> QED
    BY <2>1, <2>2, <2>3 DEF text
<1>7. ASSUME taken >= 12
      PROVE  /\ IsPrefixOf(Payload(packetBuffer), s.text)
             /\ packetBuffer = message => Payload(packetBuffer) = s.text
  <2> DEFINE e == taken - 2
  <2>1. Payload(packetBuffer) = SubSeq(SubSeq(wire, 1, taken), 12 + 1, e)
    BY <1>5, <1>7 DEF Payload
  <2>2. /\ e \in Int /\ e <= taken /\ e <= 12 + Len(text) /\ 12 + Len(text) <= Len(wire)
        /\ packetBuffer = message => e = 12 + Len(text)
    BY <1>2, <1>3, <1>5
  <2> HIDE DEF e
  <2>3. /\ IsPrefixOf(SubSeq(SubSeq(wire, 1, taken), 12 + 1, e), text)
        /\ e = 12 + Len(text) => SubSeq(SubSeq(wire, 1, taken), 12 + 1, e) = text
    <3>1. /\ wire \in Seq(Elements) /\ text \in Seq(Elements)
          /\ \A i \in 1 .. Len(text) : wire[12 + i] = text[i]
          /\ taken \in 0 .. Len(wire)
      BY <1>2, <1>3, <1>5
    <3>2. 12 \in Nat /\ e \in Int /\ e <= taken /\ e <= 12 + Len(text) /\ 12 + Len(text) <= Len(wire)
      BY <2>2
    <3> QED
      BY <3>1, <3>2, TextOfPrefix
  <2> QED
    BY <2>1, <2>2, <2>3 DEF text
<1>8. ASSUME ResponseId(packetBuffer) = Int32(1)
      PROVE  s.id = 1
  <2>1. Int32(1)[1] = 1
    BY DEF Int32
  <2>2. ResponseId(packetBuffer)[1] = IF 5 <= Len(packetBuffer) THEN packetBuffer[5] ELSE 0
    BY DEF ResponseId
  <2>3. 5 <= taken /\ packetBuffer[5] = 1
    BY <1>5, <1>8, <2>1, <2>2
  <2>4. wire[4 + 1] = Int32(id)[1]
    BY <1>3
  <2>5. Int32(id)[1] = 1
    BY <1>5, <2>3, <2>4
  <2> QED
    BY <1>2, <2>5, IdByItsFirstByte DEF id
<1> QED
  BY <1>5, <1>6, <1>7, <1>8

\* Of a reply of RCON, cut anywhere, deserialize keeps a prefix of the text,
\* and authenticate accepts no id but the one it asked for.
THEOREM RepliesAlways == Spec => []RepliesRight
BY CollectedAlways, RepliesInv, PTL DEF Inv
=============================================================================
