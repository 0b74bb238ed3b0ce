-------------------------------- MODULE Relay -------------------------------
(***************************************************************************)
(* The bot and the backend together: chat messages and slash commands      *)
(* (src/SMTCBot/src/app.js, sendMessage.js, serverManager.js and the       *)
(* commands that forward to the console or read files) over HTTP to the    *)
(* one worker of RconHandler and FileHandler.                              *)
(*                                                                         *)
(* A task is one event of Discord.  Node runs the handlers of several      *)
(* tasks interleaved, one connection each, so that their requests reach    *)
(* the worker in any order, between those of other clients of the backend. *)
(* Whatever rejects in a handler is caught nowhere and ends the bot.       *)
(***************************************************************************)
EXTENDS RconHandler, FileHandler

CONSTANTS
  Message,  \* tasks that send one command to the console: chat messages,
            \* and say, run-command, ban, kick, op, whitelist add, seed, ...
  Listing,  \* list-banned, which reads two files one after the other
  Nobody    \* not a task: another client

Task == Message \union Listing

ASSUME RelayAssumption ==
  /\ Message \intersect Listing = {}
  /\ Nobody \notin Task

VARIABLES
  task,     \* the bot: how far the handler of each task is
  req,      \* its HTTP request, or what the answer to the last one said
  serving,  \* the task whose console command the worker handles, or did last
  runs      \* history: how often the server executed the task's command

bot == <<task, req, serving, runs>>

relayVars == <<vars, bot>>

RelayTypeOK ==
  /\ TypeOK
  /\ task \in [Task -> {"new", "serverInfo", "call", "secondCall", "over", "lost"}]
  /\ req \in [Task -> {"none", "sent", "handling", "reset"} \union Answers]
  /\ serving \in Task \union {Nobody}
  /\ runs \in [Task -> Nat]

RelayInit ==
  /\ Init
  /\ task = [t \in Task |-> "new"]
  /\ req = [t \in Task |-> "none"]
  /\ serving = Nobody
  /\ runs = [t \in Task |-> 0]

Awaiting(t) == task[t] \in {"call", "secondCall"}
-----------------------------------------------------------------------------
(* The bot.                                                                *)

\* MessageCreate or InteractionCreate; getServerInfo queries the database.
Arrive(t) ==
  /\ task[t] = "new"
  /\ task' = [task EXCEPT ![t] = "serverInfo"]
  /\ UNCHANGED <<vars, req, serving, runs>>

\* fetch: without a web server the connection is refused.
Fetch(t, stage) ==
  /\ task' = [task EXCEPT ![t] = stage]
  /\ req' = [req EXCEPT ![t] = IF web = "serving" THEN "sent" ELSE "reset"]

Over(t) ==
  /\ task' = [task EXCEPT ![t] = "over"]
  /\ UNCHANGED req

\* A channel without a server, or the row with its identifier and password.
ServerInfo(t) ==
  /\ task[t] = "serverInfo"
  /\ \/ Over(t)
     \/ Fetch(t, "call")
  /\ UNCHANGED <<vars, serving, runs>>

ReplySuccess(t) == req[t] = "success"  \* mutant: waits for a success

\* The answer is JSON.
Replied(t) == req[t] \in {"success", "refused", "failed"}

\* list-banned reads its second file in any case; the others reply, or in a
\* chat message's case do nothing.
Response(t) ==
  /\ Awaiting(t)
  /\ Replied(t)
  /\ IF t \in Listing /\ task[t] = "call"
       THEN Fetch(t, "secondCall")
       ELSE Over(t)
  /\ UNCHANGED <<vars, serving, runs>>

\* A reply that Discord does not take, a query that fails, an operator.
\* Requests stay where they are.
BotEnds ==
  /\ task' = [t \in Task |-> IF task[t] \in {"new", "over"} THEN task[t] ELSE "lost"]
  /\ UNCHANGED <<vars, req, serving, runs>>

\* fetch rejects, the text of status 500 is not JSON, or a file that was read
\* is not, because it is half written.
Rejects(t) ==
  /\ \/ Awaiting(t) /\ req[t] \in {"reset", "exception"}
     \/ t \in Listing /\ task[t] = "secondCall" /\ req[t] = "success"
  /\ BotEnds

Bot(t) == ServerInfo(t) \/ Response(t) \/ Rejects(t)
-----------------------------------------------------------------------------
(* The backend, with the requests of the bot.                              *)

\* What the bot's table servers may lead to; of the other clients' requests,
\* that leave out something, none is executed either.
ClientRequest ==
  { r \in Request : /\ r.authorization # "absent"
                    /\ r.serverName # "absent"
                    /\ r.message \in {"console", "custom"} }

AnswerUnlessThrown(t, a) ==  \* mutant: an exception gets no answer
  req' = IF a = "exception" THEN req ELSE [req EXCEPT ![t] = a]

Answer(t, a) == req' = [req EXCEPT ![t] = a]

\* The worker takes a bot's console command.
ServeMessage(t) ==
  /\ req[t] = "sent"
  /\ \/ RejectTooSoon /\ Answer(t, answer') /\ UNCHANGED serving
     \/ \E r \in ClientRequest :
          \/ Refuse(r) /\ Answer(t, answer') /\ UNCHANGED serving
          \/ /\ Admit(r)
             /\ req' = [req EXCEPT ![t] = "handling"]
             /\ serving' = t
  /\ UNCHANGED <<task, runs>>

\* The worker takes and answers a request for a file.
ServeListing(t) ==
  /\ Ready
  /\ req[t] = "sent"
  /\ \E r \in FileRequest, file \in File :
       /\ r.filePath = "inside" /\ r.serverName # "absent"
       /\ Answer(t, FileAnswer(r, file))
  /\ UNCHANGED <<vars, task, serving, runs>>

Serve(t) == (t \in Message /\ ServeMessage(t)) \/ (t \in Listing /\ ServeListing(t))

\* The worker takes a request of somebody else.
ServeOther ==
  /\ \/ RejectTooSoon
     \/ \E r \in ClientRequest : Refuse(r) \/ Admit(r)
  /\ serving' = Nobody
  /\ UNCHANGED <<task, req, runs>>

\* Counts the executions of the command that is being served.
Counted ==
  runs' = IF serving \in Task /\ command # "executed" /\ command' = "executed"
            THEN [runs EXCEPT ![serving] = @ + 1] ELSE runs

Work ==
  /\ Dialogue
  /\ Counted
  /\ IF serving \in Task /\ pc' = "idle"
       THEN Answer(serving, answer')
       ELSE UNCHANGED req
  /\ UNCHANGED <<task, serving>>

Surroundings ==
  /\ World
  /\ Counted
  /\ UNCHANGED <<task, req, serving>>

\* The web server or its process ends: open connections are reset.
Ends ==
  /\ RunReturns \/ BackendEnds
  /\ Counted
  /\ req' = [t \in Task |-> IF req[t] \in {"sent", "handling"} THEN "reset" ELSE req[t]]
  /\ UNCHANGED <<task, serving>>

RelayNext ==
  \/ \E t \in Task : Arrive(t) \/ Bot(t) \/ Serve(t)
  \/ BotEnds
  \/ ServeOther \/ Work \/ Surroundings \/ Ends

RelaySpec == RelayInit /\ [][RelayNext]_relayVars

\* Node runs what it has to.  Crow's worker takes requests in the order of
\* their arrival, so that nobody's waits for ever while it takes others.
RelayFairSpec ==
  /\ RelaySpec
  /\ \A t \in Task : WF_relayVars(Bot(t)) /\ SF_relayVars(Serve(t))
  /\ WF_relayVars(Work)
  /\ WF_relayVars(Surroundings /\ Execute)
-----------------------------------------------------------------------------
Told == [t \in Message |-> IF task[t] = "over" /\ req[t] # "none" THEN req[t] ELSE "nothing"]

Sender == INSTANCE Delivery WITH
  posted <- {t \in Message : task[t] # "new"},
  runs   <- [t \in Message |-> runs[t]],
  told   <- Told

\* Bot, worker and server together deliver each message at most once, and
\* what a sender is told was refused is never executed: through every loss of
\* a connection, ends of the bot and of the backend, and other clients.
ImplementsDelivery == Sender!Spec

\* No request is forgotten: what a handler awaits has been sent, waits only at
\* a web server that serves, and is being handled only while the worker is in
\* the dialogue for just this task; so that no call of handleRCON returns
\* without an answer, and none with an answer to a request of somebody else.
NoneForgotten ==
  \A t \in Task :
    /\ Awaiting(t) => req[t] # "none"
    /\ req[t] = "sent" => web = "serving"
    /\ req[t] = "handling" => web = "serving" /\ pc # "idle" /\ serving = t

\* Every call that a handler awaits comes to an end: its task gets its reply,
\* or the bot ends, or the worker is stuck behind a reply that filled its
\* buffer.
TasksEnd ==
  \A t \in Task : Awaiting(t) ~> (task[t] \in {"over", "lost"} \/ pc = "stuck")
=============================================================================
