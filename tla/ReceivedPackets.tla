-------------------------- MODULE ReceivedPackets ---------------------------
(***************************************************************************)
(* The receive loop over packets: what getStatus, tpcListener and RCON     *)
(* read from the bytes that Receive has collected, when what the peer      *)
(* sends is a packet of Minecraft or a reply of RCON.                      *)
(***************************************************************************)
EXTENDS Receive, Packet, RconPacket

CONSTANTS
  Sent,    \* statuses and handshakes that peers send
  Replies  \* replies that RCON servers send

Statuses == [kind : {"status"}, text : Seq(Byte)]

Handshakes == [kind : {"handshake"}, version : Nat, text : Seq(Byte),
               port : Nat, nextState : 1 .. 3]

\* An RCON server answers with the id of the request, which is 1 or 2, or -1.
ASSUME ReceivedPacketsAssumption ==
  /\ Sent \subseteq Statuses \union Handshakes
  /\ Replies \subseteq [id : {n \in Int : -1 <= n /\ n < 256}, type : Int, text : Seq(Byte)]

WireOf      == [s \in Sent |-> Wire(s)]
WireOfReply == [s \in Replies |-> WireReply(s.id, s.type, s.text)]
Wires == {WireOf[s] : s \in Sent} \union {WireOfReply[s] : s \in Replies}
-----------------------------------------------------------------------------
IsPrefixOf(s, t) == Len(s) <= Len(t) /\ s = SubSeq(t, 1, Len(s))

\* However a packet was cut, getStatus parses a prefix of the text that the
\* server sent (so that a cut one fails to parse and none is misread), and
\* tpcListener reads the client's next state or outside the bytes received:
\* the offsets 5 and 7 + buffer[4], over the receive loop.
DecodedRight ==
  pc = "done" =>
    \A s \in Sent : WireOf[s] = message /\ AtFixedOffsets(s) =>
      IF s.kind = "status"
        THEN IsPrefixOf(Text(packetBuffer), s.text)
        ELSE NextStateReceived(packetBuffer) => NextState(packetBuffer) = s.nextState

\* What class Packet builds is what the protocol demands, for lengths of one
\* and two bytes and versions of up to three: addVarInt, addString, addUShort
\* and build together; and so is what set and serialize make of a text.
BuildsWire ==
  /\ \A s \in Sent : WireOf[s] = message =>
       IF s.kind = "status"
         THEN build(0, addString(s.text)) = message
         ELSE build(0, addVarInt[s.version] \o addString(s.text) \o addUShort(s.port)
                         \o addVarInt[s.nextState])
                = SubSeq(message, 1, Len(message) - 2)
  /\ \A s \in Replies :
       WireOfReply[s] = message => serialize(set(s.id, s.type, s.text)) = message

\* However a reply of RCON was cut, what deserialize takes for its payload is
\* a prefix of the text, all of it if nothing is missing, and authenticate
\* never sees an id of 1 that the server did not send: the offsets 4, 8 and 12
\* and the two bytes less, over the receive loop.
RepliesRight ==
  pc = "done" =>
    \A s \in Replies : WireOfReply[s] = message /\ ~DeserializeThrows(packetBuffer) =>
      /\ IsPrefixOf(Payload(packetBuffer), s.text)
      /\ packetBuffer = message => Payload(packetBuffer) = s.text
      /\ ResponseId(packetBuffer) = Int32(1) => s.id = 1
=============================================================================
