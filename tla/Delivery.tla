------------------------------ MODULE Delivery ------------------------------
(***************************************************************************)
(* What the users of the bot may rely on when they send something to the   *)
(* server's console: it runs at most once, at any time or never, and what  *)
(* was reported as refused has not run and never will.  "success" and      *)
(* "failed" promise nothing: an empty reply passes for success, and a      *)
(* command whose reply was lost may have run.                              *)
(***************************************************************************)
EXTENDS Integers

CONSTANT Message

VARIABLES
  posted,  \* the messages so far
  runs,    \* how often the server has run each
  told     \* what its sender has been told of it

vars == <<posted, runs, told>>

Outcomes == {"success", "refused", "failed"}

TypeOK ==
  /\ posted \subseteq Message
  /\ runs \in [Message -> {0, 1}]
  /\ told \in [Message -> Outcomes \union {"nothing"}]

Init ==
  /\ posted = {}
  /\ runs = [m \in Message |-> 0]
  /\ told = [m \in Message |-> "nothing"]

Post(m) ==
  /\ m \notin posted
  /\ posted' = posted \union {m}
  /\ UNCHANGED <<runs, told>>

Run(m) ==
  /\ m \in posted
  /\ runs[m] = 0
  /\ told[m] # "refused"
  /\ runs' = [runs EXCEPT ![m] = 1]
  /\ UNCHANGED <<posted, told>>

Tell(m, outcome) ==
  /\ m \in posted
  /\ told[m] = "nothing"
  /\ outcome = "refused" => runs[m] = 0
  /\ told' = [told EXCEPT ![m] = outcome]
  /\ UNCHANGED <<posted, runs>>

Next ==
  \E m \in Message :
    \/ Post(m)
    \/ Run(m)
    \/ \E outcome \in Outcomes : Tell(m, outcome)

Spec == Init /\ [][Next]_vars
=============================================================================
