-------------------------- MODULE SupervisedServer --------------------------
(***************************************************************************)
(* What an MCServer promises about the Minecraft server it supervises,     *)
(* without ports, sockets, polling or RCON: the server is started only     *)
(* while there is none, and one is told to stop only after Limit seconds   *)
(* in which the thread has not seen a player.                              *)
(***************************************************************************)
EXTENDS Integers

CONSTANT Limit  \* initDesc.autoStopAfter

VARIABLES
  life,      \* of the one server: "down", "booting" or "up"
  quiet,     \* seconds since a player was last seen, up to Limit
  stopping   \* the stop dialogue is under way

abstract == <<life, quiet, stopping>>

Init ==
  /\ life = "down"
  /\ quiet = Limit
  /\ stopping = FALSE

Wake ==
  /\ life = "down" /\ ~stopping
  /\ life' = "booting"
  /\ UNCHANGED <<quiet, stopping>>

Open ==
  /\ life = "booting"
  /\ life' = "up"
  /\ UNCHANGED <<quiet, stopping>>

\* The boot failed, the server crashed, or it closed after a "stop".
Fall ==
  /\ life # "down"
  /\ life' = "down"
  /\ UNCHANGED <<quiet, stopping>>

\* The news of a player may be read just after the server went down.
Seen ==
  /\ life # "booting" /\ ~stopping
  /\ quiet' = 0
  /\ UNCHANGED <<life, stopping>>

Age ==
  /\ quiet < Limit
  /\ quiet' = quiet + 1
  /\ UNCHANGED <<life, stopping>>

BeginStop ==
  /\ quiet = Limit /\ ~stopping
  /\ stopping' = TRUE
  /\ UNCHANGED <<life, quiet>>

\* The command was delivered, or the dialogue failed.
EndStop ==
  /\ stopping
  /\ stopping' = FALSE
  /\ UNCHANGED <<life, quiet>>

Next == Wake \/ Open \/ Fall \/ Seen \/ Age \/ BeginStop \/ EndStop

Spec == Init /\ [][Next]_abstract
=============================================================================
