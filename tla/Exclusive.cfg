SPECIFICATION Spec
CONSTANTS
  p1 = p1
  p2 = p2
  p3 = p3
  NoOne = NoOne
  Self = Self
  Proc <- ThreeProcs
  MaxPlayers = 2
  AutoStopAfter = 3
  Skew = 1
  Descs <- AnyDesc
  FreshStates <- AnyState
  Faults <- Mishaps
INVARIANTS OneActive ProxyYields
PROPERTIES ImplementsSupervised DeadEndsLast
