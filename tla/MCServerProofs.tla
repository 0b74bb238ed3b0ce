--------------------------- MODULE MCServerProofs ---------------------------
(***************************************************************************)
(* Proofs about MCServer, for every set of processes, every bound and      *)
(* every choice of start logic, stop logic and faults.                     *)
(***************************************************************************)
EXTENDS MCServer, TLAPS

LEMMA TypeInit == Init => TypeOK
BY MinecraftAssumption, MCServerAssumption
   DEF Init, WorldInit, TypeOK, ProcState, PC, Client, Ages, SERVER_STATE, NoReply

\* The world keeps its types whoever moves.
LEMMA TypeWorld ==
  ASSUME TypeOK, WorldNext
  PROVE  /\ proc' \in [Proc -> ProcState]
         /\ players' \in 0 .. MaxPlayers
         /\ port' \in Proc \union {NoOne, Self}
<1> USE MinecraftAssumption DEF TypeOK, ProcState, Become, LeavePort
<1>1. CASE Join
  BY <1>1 DEF Join
<1>2. CASE Leave
  BY <1>2 DEF Leave
<1>3. ASSUME NEW p \in Proc, Progress(p) \/ Crash(p) \/ OperatorStop(p) \/ ManualStart(p)
      PROVE  /\ proc' \in [Proc -> ProcState]
             /\ players' \in 0 .. MaxPlayers
             /\ port' \in Proc \union {NoOne, Self}
  <2>1. CASE Booted(p)
    BY <2>1 DEF Booted
  <2>2. CASE BootFails(p)
    BY <2>2 DEF BootFails
  <2>3. CASE ClosePort(p)
    BY <2>3 DEF ClosePort
  <2>4. CASE Exit(p)
    BY <2>4 DEF Exit
  <2>5. CASE Crash(p)
    BY <2>5 DEF Crash
  <2>6. CASE OperatorStop(p)
    BY <2>6 DEF OperatorStop, Halted
  <2>7. CASE ManualStart(p)
    BY <2>7 DEF ManualStart, Launched
  <2> QED
    BY <1>3, <2>1, <2>2, <2>3, <2>4, <2>5, <2>6, <2>7 DEF Progress
<1> QED
  BY <1>1, <1>2, <1>3 DEF WorldNext

LEMMA TypeNext == TypeOK /\ [Next]_vars => TypeOK'
<1> SUFFICES ASSUME TypeOK, [Next]_vars
             PROVE  TypeOK'
  OBVIOUS
<1> USE MinecraftAssumption, MCServerAssumption
<1>1. CASE UNCHANGED vars
  BY <1>1 DEF TypeOK, vars, world, thread, conn
<1>2. CASE WorldNext /\ UNCHANGED thread
  BY <1>2, TypeWorld DEF TypeOK, thread, conn
<1>3. CASE Update
  <2>0. UNCHANGED initDesc
    BY <1>3 DEF Update
  <2> USE <2>0 DEF TypeOK, world, conn, Goto, PC, Client, SERVER_STATE, Ages, TouchIfOffline, CloseProxy,
              Unbound, Disconnect, NoReply
  <2>1. CASE KeepOnline \/ BindListen \/ BindListenFails
    BY <2>1 DEF KeepOnline, BindListen, BindListenFails
  <2>2. CASE Connect \/ ConnectFails
    BY <2>2 DEF Connect, ConnectFails, AfterNoConnect
  <2>3. CASE Accept \/ AcceptFails \/ ServePing \/ ServeLogin
    BY <2>3 DEF Accept, AcceptFails, ServePing, ServeLogin
  <2>4. CASE ServeJunk
    BY <2>4 DEF ServeJunk
  <2>5. CASE \E p \in Proc : Start(p)
    BY <2>5 DEF Start, Launched, Become, ProcState
  <2>6. CASE StatusAnswer
    BY <2>6 DEF StatusAnswer, Activity
  <2>7. CASE StartFails \/ StatusUseless \/ StatusThrows \/ Continue \/ BeginStop
    BY <2>7 DEF StartFails, StatusUseless, KeptCount, StatusThrows, Continue, BeginStop
  <2>8. CASE RconInit
    BY <2>8 DEF RconInit, Up
  <2>9. CASE RconStop \/ StopThrows
    BY <2>9 DEF RconStop, StopThrows, Halted, Become, ProcState, Up
  <2>10. CASE RconAuthenticate \/ StopFails
    BY <2>10 DEF RconAuthenticate, StopFails, StopSteps
  <2> QED
    BY <1>3, <2>1, <2>2, <2>3, <2>4, <2>5, <2>6, <2>7, <2>8, <2>9, <2>10 DEF Update
<1>4. CASE Clients
  BY <1>4 DEF TypeOK, world, conn, Clients, ClientConnects, ClientSends, Sendable, Client
<1>5. CASE ServerAnswers /\ UNCHANGED initDesc
  BY <1>5 DEF TypeOK, world, ServerAnswers
<1>6. CASE Tick /\ UNCHANGED initDesc
  BY <1>6 DEF TypeOK, world, conn, Tick, Older, Ages
<1>7. CASE Restart /\ UNCHANGED initDesc
  BY <1>7 DEF TypeOK, world, Restart, Disconnect, Ages, PC, Client, NoReply
<1> QED
  BY <1>1, <1>2, <1>3, <1>4, <1>5, <1>6, <1>7 DEF Next, Environment

\* Every variable stays in its range.
THEOREM TypeCorrect == Spec => []TypeOK
BY TypeInit, TypeNext, PTL DEF Spec
-----------------------------------------------------------------------------
(* IdleStop.  It is not inductive: that the idle time is a lower bound of  *)
(* sinceSeen must be carried from the status answer to the stop, both      *)
(* through the count and through the state.                                *)

IdleInv ==
  /\ playerCount = 0 \/ state = "ONLINE_EMPTY" => sinceActivity <= sinceSeen
  /\ pc \in StopSteps => sinceSeen = AutoStopAfter

LEMMA IdleInit == Init => IdleInv
BY MCServerAssumption DEF Init, IdleInv, Ages, StopSteps

LEMMA IdleNext == TypeOK /\ IdleInv /\ [Next]_vars => IdleInv'
<1> SUFFICES ASSUME TypeOK, IdleInv, [Next]_vars
             PROVE  IdleInv'
  OBVIOUS
<1> USE MCServerAssumption DEF TypeOK, IdleInv, Ages, StopSteps
<1>1. CASE UNCHANGED thread
  BY <1>1 DEF thread
<1>2. CASE Update
  <2> USE DEF Goto, TouchIfOffline, CloseProxy, Unbound
  <2>1. CASE KeepOnline \/ BindListen \/ BindListenFails
    BY <2>1 DEF KeepOnline, BindListen, BindListenFails
  <2>2. CASE Connect \/ ConnectFails
    BY <2>2 DEF Connect, ConnectFails, AfterNoConnect
  <2>3. CASE Accept \/ AcceptFails \/ ServePing \/ ServeLogin
    BY <2>3 DEF Accept, AcceptFails, ServePing, ServeLogin
  <2>4. CASE ServeJunk
    BY <2>4 DEF ServeJunk
  <2>5. CASE \E p \in Proc : Start(p)
    BY <2>5 DEF Start
  <2>6. CASE StatusAnswer
    BY <2>6, MinecraftAssumption DEF StatusAnswer, Activity, NoReply
  <2>7. CASE StartFails \/ StatusUseless \/ StatusThrows \/ Continue
    BY <2>7 DEF StartFails, StatusUseless, KeptCount, StatusThrows, Continue
  <2>8. CASE BeginStop
    BY <2>8 DEF BeginStop, IdleLongEnough, Waited
  <2>9. CASE RconInit \/ RconAuthenticate
    BY <2>9 DEF RconInit, RconAuthenticate
  <2>10. CASE RconStop \/ StopThrows
    BY <2>10 DEF RconStop, StopThrows
  <2>11. CASE StopFails
    BY <2>11 DEF StopFails
  <2> QED
    BY <1>2, <2>1, <2>2, <2>3, <2>4, <2>5, <2>6, <2>7, <2>8, <2>9, <2>10, <2>11
       DEF Update
<1>3. CASE Clients
  BY <1>3 DEF Clients, ClientConnects, ClientSends
<1>4. CASE ServerAnswers
  BY <1>4 DEF ServerAnswers
<1>5. CASE Tick
  BY <1>5 DEF Tick, Older
<1>6. CASE Restart
  BY <1>6 DEF Restart
<1> QED
  BY <1>1, <1>2, <1>3, <1>4, <1>5, <1>6 DEF Next, Environment, vars

\* The stop dialogue is entered only after autoStopAfter seconds without a
\* player in any status answer, under every fault.
THEOREM StopsOnlyIdle == Spec => []IdleStop
<1>1. IdleInv => IdleStop
  BY DEF IdleInv, IdleStop
<1> QED
  BY <1>1, TypeCorrect, IdleInit, IdleNext, PTL DEF Spec
-----------------------------------------------------------------------------
(* OneActive and ProxyYields.                                              *)

\* What the thread, in Exclusive surroundings, knows of the world from its
\* own state and pc.
KnowsWorld ==
  /\ \A p \in Proc : port = p <=> p \in Up
  /\ pc \in ProxySteps => port = Self
  /\ port = Self => /\ state = "OFFLINE"
                    /\ initDesc.startLogic = "PROXY_SERVER"
                    /\ pc \in ProxySteps \union {"update"}
                    /\ Active = {}
  /\ pc = "start" => state = "OFFLINE" /\ Active = {}
  /\ \A p \in Proc : proc[p] = "booting" => state = "STARTING" /\ pc # "status"
  /\ initDesc.startLogic = "KEEP_ONLINE" /\ state = "OFFLINE" => Active = {}
  /\ \A p, q \in Active : p = q

LEMMA KnowsInit == Init => KnowsWorld
BY MinecraftAssumption, MCServerAssumption
   DEF Init, WorldInit, KnowsWorld, Up, Active, ProxySteps

\* What processes and players do by themselves contradicts nothing of it: no
\* process becomes active without the thread.
LEMMA KnowsThroughWorld ==
  ASSUME Exclusive, TypeOK, KnowsWorld, WorldNext, UNCHANGED thread
  PROVE  KnowsWorld' /\ Active' \subseteq Active
<1> USE MinecraftAssumption, MCServerAssumption
    DEF TypeOK, KnowsWorld, Up, Active, Become, LeavePort, thread, ProxySteps, ProcState
<1>1. CASE Join \/ Leave
  BY <1>1 DEF Join, Leave
<1>2. ASSUME NEW p \in Proc, Progress(p) \/ Crash(p) \/ OperatorStop(p) \/ ManualStart(p)
      PROVE  KnowsWorld' /\ Active' \subseteq Active
  <2>1. CASE Booted(p)
    BY <2>1 DEF Booted
  <2>2. CASE BootFails(p)
    BY <2>2 DEF BootFails
  <2>3. CASE ClosePort(p)
    BY <2>3 DEF ClosePort
  <2>4. CASE Exit(p)
    BY <2>4 DEF Exit
  <2>5. CASE Crash(p)
    BY <2>5 DEF Crash
  <2>6. CASE OperatorStop(p)
    BY <2>6 DEF OperatorStop, Halted
  <2>7. CASE ManualStart(p)
    BY <2>7 DEF ManualStart, Exclusive
  <2> QED
    BY <1>2, <2>1, <2>2, <2>3, <2>4, <2>5, <2>6, <2>7 DEF Progress
<1> QED
  BY <1>1, <1>2 DEF WorldNext

LEMMA KnowsNext ==
  ASSUME Exclusive, TypeOK, KnowsWorld, [Next]_vars
  PROVE  KnowsWorld'
<1> USE MinecraftAssumption, MCServerAssumption
<1>1. CASE UNCHANGED vars
  BY <1>1 DEF vars, world, thread, KnowsWorld, Up, Active
<1>2. CASE WorldNext /\ UNCHANGED thread
  BY <1>2, KnowsThroughWorld
<1>3. CASE Update
  <2>0. UNCHANGED initDesc
    BY <1>3 DEF Update
  <2> USE <2>0 DEF TypeOK, KnowsWorld, Up, Active, world, Goto, ProxySteps, StopSteps, PC
  <2>1. CASE KeepOnline
    BY <2>1 DEF KeepOnline
  <2>2. CASE BindListen
    BY <2>2 DEF BindListen, ProcState
  <2>3. CASE BindListenFails
    BY <2>3 DEF BindListenFails
  <2>4. CASE Connect
    BY <2>4 DEF Connect, Polls
  <2>5. CASE ConnectFails
    BY <2>5 DEF ConnectFails, AfterNoConnect, Polls, Exclusive, ProcState, SERVER_DESC_START
  <2>6. CASE Accept \/ AcceptFails
    BY <2>6 DEF Accept, AcceptFails
  <2>7. CASE ServePing \/ ServeLogin
    BY <2>7 DEF ServePing, ServeLogin, CloseProxy, Unbound
  <2>8. CASE ServeJunk
    BY <2>8 DEF ServeJunk, CloseProxy, Unbound
  <2>9. ASSUME NEW p \in Proc, Start(p)
        PROVE  KnowsWorld'
    BY <2>9 DEF Start, Launched, Become, ProcState
  <2>10. CASE StartFails
    BY <2>10 DEF StartFails
  <2>11. CASE StatusAnswer
    BY <2>11 DEF StatusAnswer, Activity
  <2>12. CASE StatusUseless \/ StatusThrows \/ Continue
    BY <2>12 DEF StatusUseless, KeptCount, StatusThrows, Continue
  <2>13. CASE BeginStop
    BY <2>13 DEF BeginStop, IdleLongEnough, Waited
  <2>14. CASE RconInit \/ RconAuthenticate \/ StopFails
    BY <2>14 DEF RconInit, RconAuthenticate, StopFails
  <2>15. CASE RconStop \/ StopThrows
    BY <2>15 DEF RconStop, StopThrows, Halted, Become, ProcState
  <2> QED
    BY <1>3, <2>1, <2>2, <2>3, <2>4, <2>5, <2>6, <2>7, <2>8, <2>9, <2>10, <2>11,
       <2>12, <2>13, <2>14, <2>15 DEF Update
<1>4. CASE Clients \/ ((ServerAnswers \/ Tick) /\ UNCHANGED initDesc)
  BY <1>4 DEF Clients, ClientConnects, ClientSends, ServerAnswers, Tick, world, KnowsWorld, Up,
              Active
<1>5. CASE Restart
  BY <1>5 DEF Restart, Exclusive
<1> QED
  BY <1>1, <1>2, <1>3, <1>4, <1>5 DEF Next, Environment

LEMMA Knows == ASSUME Exclusive PROVE Spec => []KnowsWorld
<1>1. TypeOK /\ KnowsWorld /\ [Next]_vars => KnowsWorld'
  BY KnowsNext
<1> QED
  BY <1>1, TypeCorrect, KnowsInit, PTL DEF Spec

\* At no time are two processes of the server booting or open.
THEOREM OneServer == Spec => []OneActive
<1>1. CASE Exclusive
  <2>1. KnowsWorld => OneActive
    BY DEF KnowsWorld, OneActive
  <2> QED
    BY <1>1, <2>1, Knows, PTL
<1>2. CASE ~Exclusive
  <2>1. OneActive
    BY <1>2 DEF OneActive
  <2> QED
    BY <2>1, PTL
<1> QED
  BY <1>1, <1>2

\* The proxy listener never holds the port of a booting or open server.
THEOREM NoSquatting == Spec => []ProxyYields
<1>1. CASE Exclusive
  <2>1. KnowsWorld => ProxyYields
    BY DEF KnowsWorld, ProxyYields
  <2> QED
    BY <1>1, <2>1, Knows, PTL
<1>2. CASE ~Exclusive
  <2>1. ProxyYields
    BY <1>2 DEF ProxyYields
  <2> QED
    BY <2>1, PTL
<1> QED
  BY <1>1, <1>2
-----------------------------------------------------------------------------
(* Dead ends, with every fault of system calls and of the server.          *)

\* The thread listens, and goes on to start, only while it says OFFLINE.
StartsOffline == pc \in ProxySteps \union {"start"} => state = "OFFLINE"

LEMMA StartsOfflineNext == StartsOffline /\ [Next]_vars => StartsOffline'
<1> SUFFICES ASSUME StartsOffline, [Next]_vars
             PROVE  StartsOffline'
  OBVIOUS
<1> USE DEF StartsOffline, ProxySteps
<1>1. CASE UNCHANGED thread
  BY <1>1 DEF thread
<1>2. CASE Update
  <2> USE DEF Goto, CloseProxy
  <2>1. CASE KeepOnline \/ BindListen \/ BindListenFails \/ Connect \/ ConnectFails
    BY <2>1 DEF KeepOnline, BindListen, BindListenFails, Connect, ConnectFails
  <2>2. CASE Accept \/ AcceptFails \/ ServePing \/ ServeLogin \/ ServeJunk
    BY <2>2 DEF Accept, AcceptFails, ServePing, ServeLogin, ServeJunk
  <2>3. CASE (\E p \in Proc : Start(p)) \/ StartFails \/ StatusAnswer \/ StatusUseless \/ StatusThrows
    BY <2>3 DEF Start, StartFails, StatusAnswer, StatusUseless, StatusThrows
  <2>4. CASE Continue \/ BeginStop \/ RconInit \/ RconAuthenticate \/ RconStop \/ StopThrows
    BY <2>4 DEF Continue, BeginStop, RconInit, RconAuthenticate, RconStop, StopThrows
  <2>5. CASE StopFails
    BY <2>5 DEF StopFails
  <2> QED
    BY <1>2, <2>1, <2>2, <2>3, <2>4, <2>5 DEF Update
<1>3. CASE Clients \/ ServerAnswers \/ Tick \/ Restart
  BY <1>3 DEF Clients, ClientConnects, ClientSends, ServerAnswers, Tick, Restart
<1> QED
  BY <1>1, <1>2, <1>3 DEF Next, Environment, vars

Alone == {"manual", "restart"} \intersect Faults = {}

\* Where nothing is active, nothing that happens by itself makes it so, nor
\* takes the port from the thread.
LEMMA NobodyWakes ==
  ASSUME Alone, TypeOK, Active = {}, WorldNext
  PROVE  Active' = {} /\ (port = Self => port' = Self)
<1> USE DEF TypeOK, Active, Up, Become, ProcState
<1>1. CASE Join \/ Leave
  BY <1>1 DEF Join, Leave
<1>2. ASSUME NEW p \in Proc, Progress(p) \/ Crash(p) \/ OperatorStop(p) \/ ManualStart(p)
      PROVE  Active' = {} /\ (port = Self => port' = Self)
  <2>1. CASE Booted(p) \/ BootFails(p) \/ ClosePort(p)
    BY <2>1 DEF Booted, BootFails, ClosePort
  <2>2. CASE Exit(p)
    BY <2>2 DEF Exit
  <2>3. CASE Crash(p) \/ OperatorStop(p) \/ ManualStart(p)
    BY <2>3 DEF Crash, OperatorStop, ManualStart, Alone
  <2> QED
    BY <1>2, <2>1, <2>2, <2>3 DEF Progress
<1> QED
  BY <1>1, <1>2 DEF WorldNext

LEMMA DeadEndNext ==
  ASSUME Alone, TypeOK, StartsOffline, DeadEnd, [Next]_vars
  PROVE  DeadEnd'
<1> USE DEF DeadEnd
<1>0. Active = {} /\ Up = {}
  BY DEF Active, Up
<1>1. CASE UNCHANGED vars
  BY <1>1 DEF vars, world, thread, conn, Active
<1>2. CASE WorldNext /\ UNCHANGED thread
  BY <1>0, <1>2, NobodyWakes DEF thread, conn
<1>3. CASE Update
  <2>0. UNCHANGED initDesc
    BY <1>3 DEF Update
  <2>1. proc' = proc => Active' = {}
    BY <1>0 DEF Active
  <2> USE <2>0 DEF Goto, world, conn, Disconnect
  <2>2. CASE KeepOnline \/ BindListen \/ BindListenFails
    BY <2>1, <2>2, MCServerAssumption DEF KeepOnline, BindListen, BindListenFails
  <2>3. CASE Connect \/ ConnectFails
    BY <2>1, <2>3 DEF Connect, ConnectFails, AfterNoConnect, Polls
  <2>4. CASE Accept \/ AcceptFails \/ ServePing \/ ServeLogin \/ ServeJunk
    BY <2>1, <2>4 DEF StartsOffline, ProxySteps, Accept, AcceptFails, ServePing, ServeLogin,
                      ServeJunk, CloseProxy
  <2>5. CASE (\E p \in Proc : Start(p)) \/ StartFails
    BY <2>5 DEF StartsOffline, Start, StartFails
  <2>6. CASE StatusAnswer \/ StatusUseless \/ StatusThrows
    BY <1>0, <2>1, <2>6 DEF StatusAnswer, StatusUseless, StatusThrows
  <2>7. CASE Continue \/ BeginStop
    BY <2>1, <2>7 DEF Continue, BeginStop, IdleLongEnough
  <2>8. CASE RconInit \/ RconAuthenticate \/ RconStop \/ StopThrows
    BY <1>0, <2>1, <2>8 DEF RconInit, RconAuthenticate, RconStop, StopThrows
  <2>9. CASE StopFails
    BY <2>1, <2>9 DEF StopFails, StopSteps
  <2> QED
    BY <1>3, <2>2, <2>3, <2>4, <2>5, <2>6, <2>7, <2>8, <2>9 DEF Update
<1>4. CASE Clients \/ ((ServerAnswers \/ Tick) /\ UNCHANGED initDesc)
  BY <1>0, <1>4 DEF Clients, ClientConnects, ClientSends, ServerAnswers, Tick, world, conn, Active
<1>5. CASE Restart
  BY <1>5 DEF Restart, Alone
<1> QED
  BY <1>1, <1>2, <1>3, <1>4, <1>5 DEF Next, Environment

LEMMA StartsOfflineInit == Init => StartsOffline
BY DEF Init, StartsOffline, ProxySteps

\* No step leaves a dead end, for any descriptor and whatever calls fail.  That
\* the answer to a poll is no longer on its way is needed: such an answer leads
\* from STARTING to ONLINE_EMPTY, and the poll after it to OFFLINE.
THEOREM DeadEndsStay == Spec => DeadEndsLast
<1>1. TypeOK /\ StartsOffline /\ [Next]_vars => [Alone /\ DeadEnd => DeadEnd']_vars
  BY DeadEndNext
<1> QED
  BY <1>1, TypeCorrect, StartsOfflineInit, StartsOfflineNext, PTL DEF Spec, DeadEndsLast, Alone

\* So a server whose boot failed, or whose listener was forgotten, is down for
\* good: what the runs StuckBoot and StuckAccept show is no accident of timing.
THEOREM DownForGood == ASSUME Alone PROVE Spec => [](DeadEnd => [](Active = {}))
<1>1. TypeOK /\ StartsOffline /\ DeadEnd /\ [Next]_vars => DeadEnd'
  BY DeadEndNext
<1>2. DeadEnd => Active = {}
  BY DEF DeadEnd
<1> QED
  BY <1>1, <1>2, TypeCorrect, StartsOfflineInit, StartsOfflineNext, PTL DEF Spec
-----------------------------------------------------------------------------
(* The refinement of SupervisedServer.                                     *)

LEMMA AbstractInit == Init => Supervised!Init
BY DEF Init, WorldInit, Supervised!Init, Life, Active, StopSteps

\* Steps of the world move life and nothing else.
LEMMA AbstractWorld ==
  ASSUME Exclusive, TypeOK, KnowsWorld, WorldNext, UNCHANGED thread
  PROVE  [Supervised!Next]_Supervised!abstract
<1> SUFFICES Life' = Life \/ Supervised!Open \/ Supervised!Fall
  BY DEF thread, Supervised!Next, Supervised!abstract
<1> USE DEF TypeOK, KnowsWorld, Up, Active, Become, LeavePort, thread, Life, ProcState,
        Supervised!Open, Supervised!Fall
<1>1. CASE Join \/ Leave
  BY <1>1 DEF Join, Leave
<1>2. ASSUME NEW p \in Proc, Progress(p) \/ Crash(p) \/ OperatorStop(p) \/ ManualStart(p)
      PROVE  Life' = Life \/ Supervised!Open \/ Supervised!Fall
  <2>1. CASE Booted(p)
    BY <2>1 DEF Booted
  <2>2. CASE BootFails(p)
    BY <2>2 DEF BootFails
  <2>3. CASE ClosePort(p)
    BY <2>3 DEF ClosePort
  <2>4. CASE Exit(p)
    BY <2>4 DEF Exit
  <2>5. CASE Crash(p)
    BY <2>5 DEF Crash
  <2>6. CASE OperatorStop(p)
    BY <2>6 DEF OperatorStop, Halted
  <2>7. CASE ManualStart(p)
    BY <2>7 DEF ManualStart, Exclusive
  <2> QED
    BY <1>2, <2>1, <2>2, <2>3, <2>4, <2>5, <2>6, <2>7 DEF Progress
<1> QED
  BY <1>1, <1>2 DEF WorldNext

LEMMA AbstractNext ==
  ASSUME Exclusive, TypeOK, KnowsWorld, IdleInv, [Next]_vars
  PROVE  [Supervised!Next]_Supervised!abstract
<1> USE MinecraftAssumption, MCServerAssumption
    DEF Supervised!abstract, Supervised!Next
<1>0. UNCHANGED <<Life, sinceSeen, pc \in StopSteps>> => UNCHANGED Supervised!abstract
  OBVIOUS
<1>1. CASE UNCHANGED vars
  BY <1>1 DEF vars, world, thread, Life, Active
<1>2. CASE WorldNext /\ UNCHANGED thread
  BY <1>2, AbstractWorld
<1>3. CASE Update
  <2> USE DEF world, Goto, StopSteps
  <2>0. proc' = proc => Life' = Life
    BY DEF Life, Active
  <2>1. CASE KeepOnline \/ BindListen \/ BindListenFails \/ Connect \/ ConnectFails
    BY <2>0, <2>1 DEF KeepOnline, BindListen, BindListenFails, Connect, ConnectFails, AfterNoConnect
  <2>2. CASE Accept \/ AcceptFails \/ ServePing \/ ServeLogin
    BY <2>0, <2>2 DEF Accept, AcceptFails, ServePing, ServeLogin, CloseProxy, Unbound
  <2>3. CASE ServeJunk
    BY <2>0, <2>3 DEF ServeJunk, CloseProxy, Unbound
  <2>4. ASSUME NEW p \in Proc, Start(p)
        PROVE  Supervised!Wake
    BY <2>4 DEF Start, Launched, Become, TypeOK, ProcState, KnowsWorld, Life, Active,
                Supervised!Wake
  <2>5. CASE StatusAnswer
    <3>1. CASE reply > 0
      <4>1. Life # "booting"
        BY <2>5 DEF StatusAnswer, KnowsWorld, Life, Active
      <4> QED
        BY <2>0, <2>5, <3>1, <4>1 DEF StatusAnswer, Activity, Supervised!Seen
    <3>2. CASE ~(reply > 0)
      BY <2>0, <2>5, <3>2 DEF StatusAnswer, Activity
    <3> QED
      BY <3>1, <3>2
  <2>6. CASE StartFails \/ StatusUseless \/ StatusThrows \/ Continue
    BY <2>0, <2>6 DEF StartFails, StatusUseless, KeptCount, StatusThrows, Continue
  <2>7. CASE BeginStop
    <3>1. sinceSeen = AutoStopAfter
      BY <2>7 DEF BeginStop, IdleLongEnough, Waited, IdleInv, TypeOK, Ages
    <3> QED
      BY <2>0, <2>7, <3>1 DEF BeginStop, Supervised!BeginStop
  <2>8. CASE RconInit \/ RconAuthenticate
    BY <2>0, <2>8 DEF RconInit, RconAuthenticate
  <2>9. CASE RconStop \/ StopThrows
    <3>1. Life' = Life
      BY <2>0, <2>9 DEF RconStop, StopThrows, Halted, Become, TypeOK, ProcState, Life, Active, Up
    <3> QED
      BY <2>9, <3>1 DEF RconStop, StopThrows, Supervised!EndStop
  <2>10. CASE StopFails
    BY <2>0, <2>10 DEF StopFails, Supervised!EndStop
  <2> QED
    BY <1>3, <2>1, <2>2, <2>3, <2>4, <2>5, <2>6, <2>7, <2>8, <2>9, <2>10 DEF Update
<1>4. CASE Clients
  BY <1>4 DEF Clients, ClientConnects, ClientSends, world, Life, Active
<1>7. CASE ServerAnswers
  BY <1>7 DEF ServerAnswers, world, Life, Active
<1>5. CASE Tick
  BY <1>5 DEF Tick, Older, TypeOK, Ages, world, Life, Active, Supervised!Age
<1>6. CASE Restart
  BY <1>6 DEF Restart, Exclusive
<1> QED
  BY <1>1, <1>2, <1>3, <1>4, <1>5, <1>6, <1>7 DEF Next, Environment

\* In Exclusive surroundings ports, polling and RCON together implement what
\* SupervisedServer promises: one start while the server is down, one stop
\* after an idle time.
THEOREM Implements == ASSUME Exclusive PROVE Spec => ImplementsSupervised
<1>1. TypeOK /\ KnowsWorld /\ IdleInv /\ [Next]_vars => [Supervised!Next]_Supervised!abstract
  BY AbstractNext
<1> QED
  BY <1>1, AbstractInit, TypeCorrect, Knows, IdleInit, IdleNext, PTL
     DEF Spec, ImplementsSupervised, Supervised!Spec
=============================================================================
