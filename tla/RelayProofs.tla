---------------------------- MODULE RelayProofs -----------------------------
(* Proofs about Relay, for any tasks and other clients: the guarantees of  *)
(* RconHandler carry over, and together with the bot it implements         *)
(* Delivery.                                                               *)
EXTENDS Relay, RconHandlerProofs

\* Every step of the whole is one of the backend's, or leaves it alone.
LEMMA RelayStep == [RelayNext]_relayVars => [Next]_vars
<1> SUFFICES ASSUME [RelayNext]_relayVars
             PROVE  [Next]_vars
  OBVIOUS
<1>1. CASE UNCHANGED relayVars
  BY <1>1 DEF relayVars
<1>2. ASSUME NEW t \in Task, Arrive(t) \/ Bot(t)
      PROVE  UNCHANGED vars
  BY <1>2 DEF Arrive, Bot, ServerInfo, Response, Rejects, BotEnds
<1>3. ASSUME NEW t \in Task, Serve(t)
      PROVE  [Next]_vars
  BY <1>3 DEF Serve, ServeMessage, ServeListing, ClientRequest, Next, Passes
<1>4. CASE BotEnds
  BY <1>4 DEF BotEnds
<1>5. CASE ServeOther
  BY <1>5 DEF ServeOther, ClientRequest, Next, Passes
<1>6. CASE Work \/ Surroundings \/ Ends
  BY <1>6 DEF Work, Surroundings, Ends, Next
<1> QED
  BY <1>1, <1>2, <1>3, <1>4, <1>5, <1>6 DEF RelayNext

LEMMA RelayRefinesRcon == RelaySpec => Spec
BY RelayStep, PTL DEF RelaySpec, RelayInit, Spec

\* The limiter paces the requests of the bot and of everybody else together.
THEOREM RelayPaces == RelaySpec => Paced
BY RelayRefinesRcon, LimiterPaces, PTL
-----------------------------------------------------------------------------
(* What the dialogue and the world do with the command that is served.     *)

LEMMA DialogueOfCommand ==
  ASSUME TypeOK, RconInv, Dialogue
  PROVE  /\ pc # "idle"
         /\ command = "executed" => command' = "executed"
         /\ pc' = "idle" => answer' \in Answers \ {"none"}
<1> USE DEF TypeOK, RconInv, CommandInv, Answers
<1>1. CASE RconInit \/ ConsoleCommand \/ Send \/ Stick
  BY <1>1 DEF RconInit, ConsoleCommand, Send, Stick, Proceed
<1>2. CASE RconInitFails \/ RconAuthenticateFails
  BY <1>2 DEF RconInitFails, RconAuthenticateFails, FailAndBlock, Reply
<1>3. CASE CustomCommand \/ SendFails \/ ReplyEmpty
  BY <1>3 DEF CustomCommand, SendFails, SendError, ReplyEmpty, Reply
<1>4. CASE ReplyArrives \/ Unstick
  BY <1>4 DEF ReplyArrives, Unstick, SendError, Reply
<1> QED
  BY <1>1, <1>2, <1>3, <1>4, DialogueSteps

LEMMA WorldOfCommand ==
  ASSUME World
  PROVE  /\ pc' = pc
         /\ command = "executed" => command' = "executed"
         /\ command' = "executed" => command \in {"sent", "executed"}
BY DEF World, Initialize, Execute, GoesDown, ComesUp, Tick

LEMMA CountedOnce ==
  ASSUME runs \in [Task -> Nat], serving \in Task, runs[serving] = 0,
         command # "executed", command' = "executed", Counted
  PROVE  /\ runs' \in [Task -> Nat]
         /\ \A t \in Task : runs'[t] = IF t = serving THEN 1 ELSE runs[t]
<1>1. runs' = [runs EXCEPT ![serving] = runs[serving] + 1]
  BY DEF Counted
<1>2. runs' = [runs EXCEPT ![serving] = 1]
  BY <1>1
<1> QED
  BY <1>2

LEMMA CountedServing ==
  ASSUME runs \in [Task -> Nat], serving \in Task,
         runs[serving] = IF command = "executed" THEN 1 ELSE 0,
         command = "executed" => command' = "executed", Counted
  PROVE  /\ runs' \in [Task -> Nat]
         /\ runs'[serving] = IF command' = "executed" THEN 1 ELSE 0
         /\ \A t \in Task \ {serving} : runs'[t] = runs[t]
<1>1. CASE command # "executed" /\ command' = "executed"
  BY <1>1, CountedOnce
<1>2. CASE ~(command # "executed" /\ command' = "executed")
  <2>1. runs' = runs
    BY <1>2 DEF Counted
  <2>2. command' = command \/ (command # "executed" /\ command' # "executed")
    BY <1>2
  <2> QED
    BY <2>1, <2>2
<1> QED
  BY <1>1, <1>2

LEMMA EndOfCommand ==
  ASSUME RunReturns \/ BackendEnds
  PROVE  /\ pc' = "idle"
         /\ command' = "executed" => command \in {"sent", "executed"}
BY DEF RunReturns, Ready, BackendEnds
-----------------------------------------------------------------------------
(* How far the bot, the request and the command of a message are.  The     *)
(* request of a task that is over never changes again; one that is handled *)
(* is the one being served; and only then can its command run.             *)

TaskInv(t) ==
  /\ task[t] \in {"new", "serverInfo"} => req[t] = "none"
  /\ task[t] = "over" => req[t] \in {"none", "success", "refused", "failed"}
  /\ req[t] \in {"none", "sent", "refused"} => runs[t] = 0
  /\ runs[t] \in {0, 1}

ServingInv ==
  pc # "idle" /\ serving \in Task =>
    /\ serving \in Message
    /\ req[serving] = "handling"
    /\ runs[serving] = IF command = "executed" THEN 1 ELSE 0

RelayInv == ServingInv /\ \A t \in Message : TaskInv(t)

LEMMA RelayInvInit == RelayInit => RelayTypeOK /\ RelayInv
BY RconTypeInit DEF RelayInit, RelayTypeOK, RelayInv, ServingInv, TaskInv, Init, Task

Whole == RelayTypeOK /\ RconInv /\ RelayInv

LEMMA BotEndsPreserves ==
  ASSUME Whole, BotEnds
  PROVE  RelayTypeOK' /\ RelayInv'
<1>1. TypeOK'
  BY DEF Whole, RelayTypeOK, TypeOK, BotEnds, vars, limiter
<1> QED
  BY <1>1 DEF Whole, RelayTypeOK, RelayInv, ServingInv, TaskInv, Task, BotEnds, vars

LEMMA BotPreserves ==
  ASSUME Whole, NEW t \in Task, Arrive(t) \/ Bot(t)
  PROVE  RelayTypeOK' /\ RelayInv'
<1> USE DEF Whole, RelayTypeOK, RelayInv, ServingInv, TaskInv, Task, Answers
<1>1. TypeOK' /\ UNCHANGED <<pc, command, serving, runs>>
  BY DEF TypeOK, vars, limiter, Arrive, Bot, ServerInfo, Response, Rejects, BotEnds
<1>2. CASE Arrive(t)
  BY <1>1, <1>2 DEF Arrive
<1>3. CASE ServerInfo(t)
  BY <1>1, <1>3 DEF ServerInfo, Over, Fetch
<1>4. CASE Response(t)
  BY <1>1, <1>4, RelayAssumption DEF Response, Replied, Awaiting, Over, Fetch
<1>5. CASE Rejects(t)
  BY <1>5, BotEndsPreserves DEF Rejects
<1> QED
  BY <1>2, <1>3, <1>4, <1>5 DEF Bot

LEMMA ServePreserves ==
  ASSUME Whole, TypeOK', NEW t \in Task, Serve(t)
  PROVE  RelayTypeOK' /\ RelayInv'
<1> USE DEF Whole, RelayTypeOK, RelayInv, ServingInv, TaskInv, Task, Answers, Answer
<1>1. CASE t \in Message /\ req[t] = "sent" /\ RejectTooSoon /\ Answer(t, answer')
           /\ UNCHANGED <<serving, task, runs>>
  BY <1>1 DEF RejectTooSoon, Ready
<1>2. ASSUME t \in Message, req[t] = "sent", NEW r \in ClientRequest, Refuse(r),
             Answer(t, answer'), UNCHANGED <<serving, task, runs>>
      PROVE  RelayTypeOK' /\ RelayInv'
  BY <1>2 DEF Refuse, Pass, Ready
<1>3. ASSUME t \in Message, req[t] = "sent", NEW r \in ClientRequest, Admit(r),
             req' = [req EXCEPT ![t] = "handling"], serving' = t,
             UNCHANGED <<task, runs>>
      PROVE  RelayTypeOK' /\ RelayInv'
  BY <1>3 DEF Admit, Pass, Ready
<1>4. CASE t \in Listing /\ ServeListing(t)
  BY <1>4, RelayAssumption DEF ServeListing, Ready, FileAnswer, vars
<1> QED
  BY <1>1, <1>2, <1>3, <1>4 DEF Serve, ServeMessage

LEMMA ServeOtherPreserves ==
  ASSUME Whole, TypeOK', ServeOther
  PROVE  RelayTypeOK' /\ RelayInv'
BY RelayAssumption
   DEF Whole, RelayTypeOK, RelayInv, ServingInv, TaskInv, Task, ServeOther

LEMMA WorkPreserves ==
  ASSUME Whole, TypeOK', RconInv', Work
  PROVE  RelayTypeOK' /\ RelayInv'
<1> USE DEF Whole, RelayTypeOK, RelayInv, ServingInv, TaskInv, Task, Answers, Answer,
            Work, Counted
<1>1. /\ pc # "idle"
      /\ command = "executed" => command' = "executed"
      /\ pc' = "idle" => answer' \in Answers \ {"none"}
  BY DialogueOfCommand
<1>2. CASE serving \notin Task
  BY <1>1, <1>2
<1>3. CASE serving \in Task
  <2>1. /\ serving \in Message
        /\ req[serving] = "handling"
        /\ runs[serving] = IF command = "executed" THEN 1 ELSE 0
    BY <1>1, <1>3
  <2>2. /\ runs' \in [Task -> Nat]
        /\ runs'[serving] = IF command' = "executed" THEN 1 ELSE 0
        /\ \A m \in Message \ {serving} : runs'[m] = runs[m]
    BY <1>1, <1>3, <2>1, CountedServing
  <2>3. CASE pc' = "idle"
    <3>1. answer' = "refused" => runs'[serving] = 0
      <4>1. answer' = "refused" => command' = "none"
        BY <2>3 DEF RconInv, CommandInv
      <4> QED
        BY <2>2, <4>1
    <3>2. req' = [req EXCEPT ![serving] = answer'] /\ UNCHANGED <<task, serving>>
      BY <1>3, <2>3
    <3> QED
      BY <1>1, <1>3, <2>1, <2>2, <2>3, <3>1, <3>2
  <2>4. CASE pc' # "idle"
    BY <1>1, <1>3, <2>1, <2>2, <2>4
  <2> QED
    BY <2>3, <2>4
<1> QED
  BY <1>2, <1>3

LEMMA SurroundingsPreserve ==
  ASSUME Whole, TypeOK', Surroundings
  PROVE  RelayTypeOK' /\ RelayInv'
<1> USE DEF Whole, RelayTypeOK, RelayInv, ServingInv, TaskInv, Task, Surroundings, Counted
<1>1. /\ pc' = pc
      /\ command = "executed" => command' = "executed"
      /\ command' = "executed" => command \in {"sent", "executed"}
  BY WorldOfCommand
<1>2. command = "sent" => pc # "idle"
  BY DEF RconInv, CommandInv
<1>3. CASE serving \in Task /\ command # "executed" /\ command' = "executed"
  <2>1. serving \in Message /\ req[serving] = "handling" /\ runs[serving] = 0
    BY <1>1, <1>2, <1>3
  <2> QED
    BY <1>1, <1>2, <1>3, <2>1
<1>4. CASE ~(serving \in Task /\ command # "executed" /\ command' = "executed")
  BY <1>1, <1>2, <1>4
<1> QED
  BY <1>3, <1>4

LEMMA EndsPreserve ==
  ASSUME Whole, TypeOK', Ends
  PROVE  RelayTypeOK' /\ RelayInv'
<1> USE DEF Whole, RelayTypeOK, RelayInv, ServingInv, TaskInv, Task, Answers, Ends, Counted
<1>1. /\ pc' = "idle"
      /\ command' = "executed" => command \in {"sent", "executed"}
  BY EndOfCommand
<1>2. command = "sent" => pc # "idle"
  BY DEF RconInv, CommandInv
<1>3. CASE serving \in Task /\ command # "executed" /\ command' = "executed"
  <2>1. serving \in Message /\ req[serving] = "handling" /\ runs[serving] = 0
    BY <1>1, <1>2, <1>3
  <2> QED
    BY <1>1, <1>3, <2>1
<1>4. CASE ~(serving \in Task /\ command # "executed" /\ command' = "executed")
  BY <1>1, <1>4
<1> QED
  BY <1>3, <1>4

LEMMA WholeNext == Whole /\ [RelayNext]_relayVars => Whole'
<1> SUFFICES ASSUME Whole, [RelayNext]_relayVars
             PROVE  Whole'
  OBVIOUS
<1>1. TypeOK' /\ RconInv'
  BY RelayStep, RconTypeNext, RconInvNext DEF Whole, RelayTypeOK
<1>2. CASE UNCHANGED relayVars
  BY <1>1, <1>2 DEF relayVars, bot, vars, limiter, Whole, RelayTypeOK, RelayInv,
                    ServingInv, TaskInv
<1>3. ASSUME NEW t \in Task, Arrive(t) \/ Bot(t)
      PROVE  Whole'
  BY <1>1, <1>3, BotPreserves DEF Whole
<1>4. ASSUME NEW t \in Task, Serve(t)
      PROVE  Whole'
  BY <1>1, <1>4, ServePreserves DEF Whole
<1>5. CASE BotEnds \/ ServeOther \/ Work \/ Surroundings \/ Ends
  BY <1>1, <1>5, BotEndsPreserves, ServeOtherPreserves, WorkPreserves,
     SurroundingsPreserve, EndsPreserve DEF Whole
<1> QED
  BY <1>2, <1>3, <1>4, <1>5 DEF RelayNext

LEMMA RelayInvariant == RelaySpec => []Whole
<1>1. RelayInit => Whole
  BY RelayInvInit, RconInvInit DEF Whole, RelayInit
<1> QED
  BY <1>1, WholeNext, PTL DEF RelaySpec

\* Every variable of the composition stays in its range.
THEOREM RelayTypeCorrect == RelaySpec => []RelayTypeOK
<1>1. Whole => RelayTypeOK
  BY DEF Whole
<1> QED
  BY <1>1, RelayInvariant, PTL

\* What is answered with an error from 1 to 9 was not executed, whoever sent it.
THEOREM RelayRefuses == RelaySpec => []RefusedNotExecuted
BY RelayRefinesRcon, ErrorsMeanNotExecuted, PTL

-----------------------------------------------------------------------------
(* NoneForgotten.  It needs that the worker is idle unless the web server  *)
(* serves.                                                                 *)

WorkerServes == pc # "idle" => web = "serving"

HeldInv == WorkerServes /\ NoneForgotten

LEMMA DialogueKeepsWeb == Dialogue => web' = web
BY DEF Dialogue, RconInit, RconInitFails, RconAuthenticateFails, ConsoleCommand, CustomCommand,
       Send, SendFails, ReplyEmpty, ReplyArrives, Stick, Unstick, Proceed, FailAndBlock, Reply

LEMMA WorldKeepsWorker ==
  ASSUME World
  PROVE  pc' = pc /\ (web = "serving" => web' = "serving")
BY DEF World, Initialize, Execute, GoesDown, ComesUp, Tick

LEMMA HeldNext ==
  ASSUME Whole, HeldInv, [RelayNext]_relayVars
  PROVE  HeldInv'
<1> USE DEF Whole, RelayTypeOK, HeldInv, WorkerServes, NoneForgotten, Awaiting, Answers
<1>1. CASE UNCHANGED relayVars
  BY <1>1 DEF relayVars, bot, vars
<1>2. CASE BotEnds
  BY <1>2 DEF BotEnds, vars
<1>3. ASSUME NEW t \in Task, Arrive(t) \/ Bot(t)
      PROVE  HeldInv'
  <2>1. CASE Arrive(t)
    BY <2>1 DEF Arrive, vars
  <2>2. CASE ServerInfo(t)
    BY <2>2 DEF ServerInfo, Over, Fetch, vars
  <2>3. CASE Response(t)
    BY <2>3 DEF Response, Replied, Over, Fetch, vars
  <2>4. CASE Rejects(t)
    BY <2>4 DEF Rejects, BotEnds, vars
  <2> QED
    BY <1>3, <2>1, <2>2, <2>3, <2>4 DEF Bot
<1>4. ASSUME NEW t \in Task, Serve(t)
      PROVE  HeldInv'
  <2>1. /\ web' = "serving" /\ pc = "idle" /\ UNCHANGED task
        /\ \/ /\ UNCHANGED pc
              /\ \E a \in Answers \ {"none"} : req' = [req EXCEPT ![t] = a]
           \/ /\ pc' # "idle" /\ serving' = t
              /\ req' = [req EXCEPT ![t] = "handling"]
    BY <1>4 DEF Serve, ServeMessage, ServeListing, Answer, RejectTooSoon, Refuse, Admit, Pass,
                Ready, FileAnswer, vars
  <2> QED
    BY <2>1
<1>5. CASE ServeOther
  BY <1>5 DEF ServeOther, RejectTooSoon, Refuse, Admit, Pass, Ready
<1>6. CASE Work
  <2>1. /\ pc # "idle"
        /\ web' = web
        /\ pc' = "idle" => answer' \in Answers \ {"none"}
    BY <1>6, DialogueOfCommand, DialogueKeepsWeb DEF Work
  <2> QED
    BY <1>6, <2>1 DEF Work, Answer
<1>7. CASE Surroundings
  BY <1>7, WorldKeepsWorker DEF Surroundings
<1>8. CASE Ends
  BY <1>8, EndOfCommand DEF Ends
<1> QED
  BY <1>1, <1>2, <1>3, <1>4, <1>5, <1>6, <1>7, <1>8 DEF RelayNext

\* No request of a handler is forgotten, whatever ends: the safety part of
\* TasksEnd.
THEOREM RelayForgetsNone == RelaySpec => []NoneForgotten
<1>1. RelayInit => HeldInv
  BY DEF RelayInit, Init, HeldInv, WorkerServes, NoneForgotten, Awaiting
<1>2. Whole /\ HeldInv /\ [RelayNext]_relayVars => HeldInv'
  BY HeldNext
<1>3. HeldInv => NoneForgotten
  BY DEF HeldInv
<1> QED
  BY <1>1, <1>2, <1>3, RelayInvariant, PTL DEF RelaySpec
-----------------------------------------------------------------------------
(* The steps of the abstract specification.                                *)

Posted == {t \in Message : task[t] # "new"}
RunsOf == [t \in Message |-> runs[t]]

\* What does not start a task or tell an outcome, and runs nothing, stutters.
LEMMA Stutter ==
  ASSUME Whole, UNCHANGED runs,
         \A t \in Message :
           /\ task'[t] = "new" <=> task[t] = "new"
           /\ task'[t] = "over" /\ req'[t] # "none" <=> task[t] = "over" /\ req[t] # "none"
           /\ task[t] = "over" => req'[t] = req[t]
  PROVE  UNCHANGED Sender!vars
BY DEF Sender!vars, Told

\* A command can run only while its task waits, which has posted it and has
\* been told nothing.
LEMMA CountedRuns ==
  ASSUME Whole, Counted, UNCHANGED <<task, serving>>,
         command' = "executed" /\ command # "executed" => pc # "idle",
         \A t \in Message : task[t] = "over" => req'[t] = req[t]
  PROVE  [Sender!Next]_Sender!vars
<1>1. UNCHANGED <<Posted, Told>>
  BY DEF Posted, Told
<1>2. CASE serving \in Task /\ command # "executed" /\ command' = "executed"
  <2>1. /\ serving \in Message
        /\ req[serving] = "handling"
        /\ runs[serving] = 0
    BY <1>2 DEF Whole, RelayInv, ServingInv
  <2>2. serving \in Posted /\ Told[serving] = "nothing"
    BY <2>1 DEF Whole, RelayInv, TaskInv, Posted, Told
  <2>3. RunsOf' = [RunsOf EXCEPT ![serving] = 1]
    <3>1. \A t \in Message : runs'[t] = IF t = serving THEN 1 ELSE runs[t]
      BY <1>2, <2>1, CountedOnce DEF Whole, RelayTypeOK, Task
    <3> QED
      BY <2>1, <3>1 DEF RunsOf
  <2>4. PICK m \in Message : m = serving
    BY <2>1
  <2>5. Sender!Run(m)
    <3>1. RunsOf[m] = 0
      BY <2>1, <2>4 DEF RunsOf
    <3> QED
      BY <1>1, <2>1, <2>2, <2>3, <2>4, <3>1 DEF Sender!Run, Posted, RunsOf
  <2> QED
    BY <2>5 DEF Sender!Next
<1>3. CASE ~(serving \in Task /\ command # "executed" /\ command' = "executed")
  BY <1>1, <1>3 DEF Counted, Posted, Sender!vars
<1> QED
  BY <1>2, <1>3

LEMMA BotDelivers ==
  ASSUME Whole, NEW t \in Task, Arrive(t) \/ Bot(t) \/ BotEnds
  PROVE  [Sender!Next]_Sender!vars
<1> USE DEF Whole, RelayTypeOK, RelayInv, TaskInv, Task
<1>1. CASE t \in Message /\ Arrive(t)
  <2>1. Sender!Post(t)
    BY <1>1 DEF Arrive, Sender!Post, Told
  <2> QED
    BY <1>1, <2>1 DEF Sender!Next
<1>2. CASE t \in Message /\ Response(t)
  <2>1. t \notin Listing
    BY <1>2, RelayAssumption
  <2>2. /\ task' = [task EXCEPT ![t] = "over"]
        /\ UNCHANGED <<req, runs>>
    BY <1>2, <2>1 DEF Response, Over
  <2>3. req[t] \in {"success", "refused", "failed"} /\ task[t] \in {"call", "secondCall"}
    BY <1>2 DEF Response, Replied, Awaiting
  <2>4. Told' = [Told EXCEPT ![t] = req[t]]
    BY <1>2, <2>2, <2>3 DEF Told
  <2>5. Sender!Tell(t, req[t])
    BY <1>2, <2>2, <2>3, <2>4 DEF Sender!Tell, Told
  <2> QED
    BY <1>2, <2>3, <2>5 DEF Sender!Next, Sender!Outcomes
<1>3. CASE t \in Listing /\ (Arrive(t) \/ Response(t))
  BY <1>3, RelayAssumption, Stutter DEF Arrive, Response, Over, Fetch
<1>4. CASE ServerInfo(t)
  BY <1>4, Stutter DEF ServerInfo, Over, Fetch
<1>5. CASE BotEnds
  BY <1>5, Stutter DEF BotEnds
<1> QED
  BY <1>1, <1>2, <1>3, <1>4, <1>5 DEF Bot, Rejects

\* Each step of the composition is a step of Delivery or a stutter.
LEMMA StepDelivers ==
  ASSUME Whole, [RelayNext]_relayVars
  PROVE  [Sender!Next]_Sender!vars
<1> USE DEF Whole, RelayInv, TaskInv
<1>1. CASE UNCHANGED relayVars
  BY <1>1, Stutter DEF relayVars, bot
<1>2. ASSUME NEW t \in Task, Arrive(t) \/ Bot(t)
      PROVE  [Sender!Next]_Sender!vars
  BY <1>2, BotDelivers
<1>3. ASSUME NEW t \in Task, Serve(t)
      PROVE  [Sender!Next]_Sender!vars
  <2>1. /\ req[t] = "sent"
        /\ UNCHANGED <<task, runs>>
        /\ \E a : req' = [req EXCEPT ![t] = a]
    BY <1>3 DEF Serve, ServeMessage, ServeListing, Answer
  <2> QED
    BY <2>1, Stutter
<1>4. CASE BotEnds
  BY <1>4, Stutter DEF BotEnds, Task
<1>5. CASE ServeOther
  BY <1>5, Stutter DEF ServeOther
<1>6. CASE Work
  <2>1. pc # "idle"
    BY <1>6, DialogueOfCommand DEF Work, RelayTypeOK
  <2>2. \A t \in Message : task[t] = "over" => req'[t] = req[t]
    <3>1. CASE serving \in Task /\ pc' = "idle"
      <4>1. req' = [req EXCEPT ![serving] = answer']
        BY <1>6, <3>1 DEF Work, Answer
      <4>2. req[serving] = "handling" /\ serving \in Message
        BY <2>1, <3>1 DEF ServingInv
      <4>3. \A t \in Message : t # serving => req'[t] = req[t]
        BY <4>1 DEF RelayTypeOK, Task
      <4> QED
        BY <4>2, <4>3
    <3>2. CASE ~(serving \in Task /\ pc' = "idle")
      BY <1>6, <3>2 DEF Work
    <3> QED
      BY <3>1, <3>2
  <2> QED
    BY <1>6, <2>1, <2>2, CountedRuns DEF Work
<1>7. CASE Surroundings
  <2>1. command' = "executed" /\ command # "executed" => pc # "idle"
    BY <1>7, WorldOfCommand DEF Surroundings, RconInv, CommandInv
  <2> QED
    BY <1>7, <2>1, CountedRuns DEF Surroundings
<1>8. CASE Ends
  <2>1. /\ RunReturns \/ BackendEnds
        /\ Counted
        /\ UNCHANGED <<task, serving>>
        /\ req' = [t \in Task |-> IF req[t] \in {"sent", "handling"} THEN "reset" ELSE req[t]]
    BY <1>8 DEF Ends
  <2>2. \A t \in Message : task[t] = "over" => req'[t] = req[t]
    BY <2>1 DEF Task
  <2>3. command' = "executed" /\ command # "executed" => pc # "idle"
    BY <2>1, EndOfCommand DEF RconInv, CommandInv
  <2> QED
    BY <2>1, <2>2, <2>3, CountedRuns
<1> QED
  BY <1>1, <1>2, <1>3, <1>4, <1>5, <1>6, <1>7, <1>8 DEF RelayNext

LEMMA InitDelivers == RelayInit => Sender!Init
BY DEF RelayInit, Sender!Init, Told, Task

\* Bot, worker and server implement Delivery, for any number of messages,
\* requests for files and other clients.
THEOREM RelayDelivers == RelaySpec => ImplementsDelivery
<1>1. RelaySpec => [][Sender!Next]_Sender!vars
  BY RelayInvariant, StepDelivers, PTL DEF RelaySpec
<1> QED
  BY <1>1, InitDelivers, PTL DEF RelaySpec, ImplementsDelivery, Sender!Spec
=============================================================================
