----------------------------- MODULE MCRegistry -----------------------------
(* Registry for TLC: three folders, two of them with one name, and one of  *)
(* these spelled in two ways; two usable ports.                            *)
EXTENDS Registry, FiniteSets, TLC

CONSTANTS home1, home1slash, backup1, home2, fHome1, fBackup1, fHome2

Paths == {home1, home1slash, backup1, home2}
Folders == {fHome1, fBackup1, fHome2}
FolderOfPath == home1 :> fHome1 @@ home1slash :> fHome1 @@ backup1 :> fBackup1 @@ home2 :> fHome2
FileNameOfPath ==
  home1 :> "Server1" @@ home1slash :> "" @@ backup1 :> "Server1" @@ home2 :> "Server2"
=============================================================================
