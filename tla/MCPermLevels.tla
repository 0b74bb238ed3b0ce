---------------------------- MODULE MCPermLevels ----------------------------
(* PermLevels and ServerInfo for TLC: two users, who may be admins or not. *)
EXTENDS ServerInfo, TLC

CONSTANTS alice, bob, i1, i2, i3

Users == {alice, bob}
Interactions == {i1, i2, i3}
AnyOrder == Permutations(Interactions) \union Permutations(Users)
=============================================================================
