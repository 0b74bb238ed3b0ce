SPECIFICATION Spec
CONSTANTS
  home1 = home1
  home1slash = home1slash
  backup1 = backup1
  home2 = home2
  fHome1 = fHome1
  fBackup1 = fBackup1
  fHome2 = fHome2
  Path <- Paths
  Folder <- Folders
  FolderOf <- FolderOfPath
  FileName <- FileNameOfPath
  Number = {0, 1, 2, 3}
  Absent = Absent
  Empty = Empty
  Garbage = {0, 1}
  MaxThreads = 3
INVARIANTS TypeOK RegisteredDisjoint DisjointUnlessNamesakes FirstUnderItsName
PROPERTIES ImplementsDirectory
CHECK_DEADLOCK FALSE
