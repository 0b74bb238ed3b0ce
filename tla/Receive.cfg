SPECIFICATION FairSpec
CONSTANTS
  Radix = 16
  Byte <- Bytes
  Messages <- Wires
  Chunk = 32
  Sent <- SomePackets
  Replies <- SomeReplies
INVARIANTS TypeOK Collected MoreToCome DecodedRight BuildsWire RepliesRight
PROPERTIES Returns
CHECK_DEADLOCK FALSE
