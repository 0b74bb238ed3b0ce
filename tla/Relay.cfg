SPECIFICATION RelayFairSpec
CONSTANTS
  Message = {m1}
  Listing = {l1}
  Nobody = Nobody
  LongReplies = TRUE
  Block = 2
  MaxTime = 2
INVARIANTS RelayTypeOK RefusedNotExecuted NoneForgotten
PROPERTIES Paced Answered ImplementsDelivery TasksEnd
