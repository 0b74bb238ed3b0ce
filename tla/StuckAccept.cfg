SPECIFICATION FairSpec
CONSTANTS
  p1 = p1
  p2 = p2
  p3 = p3
  NoOne = NoOne
  Self = Self
  Proc <- TwoProcs
  MaxPlayers = 2
  AutoStopAfter = 2
  Skew = 1
  Descs <- WakeOnly
  FreshStates <- IsOffline
  Faults <- AcceptError
PROPERTIES WakesUp
