----------------------------- MODULE Directory ------------------------------
(***************************************************************************)
(* What the REST handlers rely on when they look up a server by its name:  *)
(* a name leads to the server that took it first, for as long as the       *)
(* backend runs, and no two names lead to one port.  Of the threads that   *)
(* run beside the directory nothing is said.                               *)
(***************************************************************************)
EXTENDS Integers

CONSTANT Name

VARIABLES
  entries,  \* a function from the names that are taken to records with a
            \* port and an rconPort
  open      \* names may still be taken

vars == <<entries, open>>

Init ==
  /\ entries = << >>
  /\ open = TRUE

Free(s) ==
  \A n \in DOMAIN entries : entries[n].port # s.port /\ entries[n].rconPort # s.rconPort

\* A name that is new leads to a server with ports of its own.
Take(name) ==
  /\ open
  /\ name \notin DOMAIN entries
  /\ DOMAIN entries' = DOMAIN entries \union {name}
  /\ \A n \in DOMAIN entries : entries'[n] = entries[n]
  /\ entries'[name].port # 0 /\ entries'[name].rconPort # 0
  /\ Free(entries'[name])
  /\ UNCHANGED open

Close ==
  /\ open
  /\ open' = FALSE
  /\ UNCHANGED entries

Next == Close \/ \E name \in Name : Take(name)

Spec == Init /\ [][Next]_vars
=============================================================================
