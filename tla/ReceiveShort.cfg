SPECIFICATION FairSpec
CONSTANTS
  Radix = 16
  Byte <- Bytes
  Messages <- Wires
  Chunk = 32
  Sent <- SomePackets
  Replies <- SomeReplies
INVARIANTS DoneMeansAll
CHECK_DEADLOCK FALSE
