SPECIFICATION InfoSpec
CONSTANTS
  alice = alice
  bob = bob
  i1 = i1
  i2 = i2
  i3 = i3
  User <- Users
  Interaction <- Interactions
  MaxLevel = 2
  NoUser = NoUser
  NoRow = NoRow
INVARIANTS InfoTypeOK SetByAdmin AddressKept
PROPERTIES LevelKept
SYMMETRY AnyOrder
CHECK_DEADLOCK FALSE
