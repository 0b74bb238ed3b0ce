SPECIFICATION InfoSpec
CONSTANTS
  alice = alice
  bob = bob
  i1 = i1
  i2 = i2
  i3 = i3
  User <- Users
  Interaction = {i1}
  MaxLevel = 2
  NoUser = NoUser
  NoRow = NoRow
PROPERTIES OnlyLowerLevels
CHECK_DEADLOCK FALSE
