----------------------------- MODULE Minecraft -----------------------------
(***************************************************************************)
(* The world a supervising thread of MCBackend works in: the Minecraft     *)
(* server processes it launches, the players on them, and the TCP port     *)
(* they and the thread's own proxy listener compete for.  None of this is  *)
(* in the repository; it is modelled from what MCServer::start, getStatus, *)
(* stop and tpcListener rely on (src/SMTC-MCBackend/SMTC-MCBackend/        *)
(* Libraries/MCBackend/MCBackend.cpp:292-512).                             *)
(*                                                                         *)
(* A process goes                                                          *)
(*     none -> booting -> serving -> halting -> draining -> none           *)
(* It owns the port while serving or halting ("stop" was received, the     *)
(* listener is still open) and is still alive, saving its world, while     *)
(* draining.                                                               *)
(***************************************************************************)
EXTENDS Integers, FiniteSets

CONSTANTS
  Proc,        \* identities of server processes
  MaxPlayers,  \* bound on the players online at once
  NoOne,       \* "nobody listens on the port"
  Faults       \* what may go wrong in this world, see FaultKinds

FaultKinds ==
  { "bootcrash",  \* a booting server dies before it opens its port
    "crash",      \* a server dies while its port is open
    "opstop",     \* somebody other than the thread stops the server
    "refuse",     \* connect fails although a server listens (backlog full)
    "fin",        \* a peer closes in an orderly way in mid exchange: recv = 0
    "badjson",    \* a status answer that is cut short or lacks players.online
    "rcon",       \* a step of the RCON dialogue, or reading its password, fails
    "split",      \* the answer to "stop" arrives in pieces
    "bind",       \* socket, bind or listen fails although the port is free
    "accept",     \* accept fails
    "launch",     \* the start script cannot be run
    "junk",       \* a client that is not a Minecraft client of the usual kind
    "manual",     \* a server is started by hand, behind the thread's back
    "restart" }   \* the backend process is killed and started again

ASSUME MinecraftAssumption ==
  /\ MaxPlayers \in Nat \ {0}
  /\ NoOne \notin Proc
  /\ Faults \subseteq FaultKinds

VARIABLES
  proc,     \* the life of each server process
  players,  \* number of players on the process that owns the port
  port      \* who listens on the server's port

world == <<proc, players, port>>

ProcState == {"none", "booting", "serving", "halting", "draining"}

\* The processes whose port is open, and those that have it or will ask for it.
Up     == {p \in Proc : proc[p] \in {"serving", "halting"}}
Active == {p \in Proc : proc[p] \in {"booting", "serving", "halting"}}

WorldInit ==
  /\ proc = [p \in Proc |-> "none"]
  /\ players = 0
  /\ port = NoOne

Become(p, s) == proc' = [proc EXCEPT ![p] = s]

-----------------------------------------------------------------------------
(* What the supervising thread does to a process.                          *)

\* CreateProcess on the start script: a new process, its port not open yet.
Launched(p) ==
  /\ proc[p] = "none"
  /\ Become(p, "booting")
  /\ UNCHANGED <<players, port>>

\* The console command "stop" arrives at p over RCON.
Halted(p) ==
  /\ proc[p] \in {"serving", "halting"}
  /\ Become(p, "halting")
  /\ UNCHANGED <<players, port>>

-----------------------------------------------------------------------------
(* What processes and players do by themselves.                            *)

Booted(p) ==
  /\ proc[p] = "booting"
  /\ port = NoOne
  /\ Become(p, "serving")
  /\ port' = p
  /\ players' = 0

\* A server that finds its port taken gives up; some fail for other reasons.
BootFails(p) ==
  /\ proc[p] = "booting"
  /\ port # NoOne \/ "bootcrash" \in Faults
  /\ Become(p, "none")
  /\ UNCHANGED <<players, port>>

LeavePort ==
  /\ port' = NoOne
  /\ players' = 0

Crash(p) ==
  /\ "crash" \in Faults
  /\ p \in Up
  /\ Become(p, "none")
  /\ LeavePort

ManualStart(p) ==
  /\ "manual" \in Faults
  /\ Launched(p)

\* An operator in the game, or a request to /rconSend, stops the server.
OperatorStop(p) ==
  /\ "opstop" \in Faults
  /\ proc[p] = "serving"
  /\ Halted(p)

ClosePort(p) ==
  /\ proc[p] = "halting"
  /\ Become(p, "draining")
  /\ LeavePort

Exit(p) ==
  /\ proc[p] = "draining"
  /\ Become(p, "none")
  /\ UNCHANGED <<players, port>>

Join ==
  /\ \E p \in Proc : proc[p] = "serving"
  /\ players < MaxPlayers
  /\ players' = players + 1
  /\ UNCHANGED <<proc, port>>

Leave ==
  /\ players > 0
  /\ players' = players - 1
  /\ UNCHANGED <<proc, port>>

\* Steps a process takes sooner or later by itself.
Progress(p) ==
  \/ Booted(p)
  \/ BootFails(p)
  \/ ClosePort(p)
  \/ Exit(p)

WorldNext ==
  \/ \E p \in Proc : Progress(p) \/ Crash(p) \/ OperatorStop(p) \/ ManualStart(p)
  \/ Join
  \/ Leave
=============================================================================
