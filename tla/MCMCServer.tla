----------------------------- MODULE MCMCServer -----------------------------
(* MCServer for TLC: two or three processes, short times, few players.     *)
EXTENDS MCServer, TLC

CONSTANTS p1, p2, p3

TwoProcs == {p1, p2}
ThreeProcs == {p1, p2, p3}
AnyOrder == Permutations(ThreeProcs)

AnyDesc == MCServerDesc
\* The start logic of main.cpp, with a server that the thread never stops.
WakeOnly == {[startLogic |-> "PROXY_SERVER", stopLogic |-> "STOP_NONE"]}

AnyState == SERVER_STATE
IsOffline == {"OFFLINE"}

AllFaults == FaultKinds
\* Everything that can go wrong while the thread has the server to itself.
Mishaps == FaultKinds \ {"manual", "restart", "refuse"}
\* Servers that die or are stopped at any moment, in the middle of an answer too.
Deaths == {"bootcrash", "crash", "opstop", "split"}
BootCrash == {"bootcrash"}
AcceptError == {"accept"}
=============================================================================
