----------------------------- MODULE RconHandler ----------------------------
(***************************************************************************)
(* The REST handler /rconSend: MCBackend::handleRCON (MCBackend.cpp:       *)
(* 634-756) with the RCON client it drives (RCON.cpp:69-192), the limiter  *)
(* nextMessageSendable, and the life of the web server (initialize,        *)
(* webServerThread).  The web server has one worker thread, so one request *)
(* is handled at a time; each of the calls to RCON may block while the     *)
(* clock runs and the server goes down.                                    *)
(***************************************************************************)
EXTENDS Integers

CONSTANTS
  LongReplies,  \* whether a reply may fill the receive buffer exactly
  Block,        \* seconds without requests after RCON failed: 10
  MaxTime       \* bound on the clock

ASSUME RconHandlerAssumption ==
  /\ LongReplies \in BOOLEAN
  /\ Block \in Nat \ {0}
  /\ MaxTime \in Nat

\* The header and the body of a request, as far as the handler looks.
Request ==
  [ authorization : {"absent", "wrong", "right"},
    serverName    : {"absent", "notAString", "unknown", "known"},
    message       : {"absent", "notAString", "console", "custom"} ]

NoRequest == [authorization |-> "absent", serverName |-> "absent", message |-> "absent"]

VARIABLES
  now,                  \* time(nullptr)
  web,                  \* "off" before initialize, "serving", or "ended":
                        \* run() has returned and set wantsShutdown
  nextMessageSendable,  \* MCBackend::nextMessageSendable
  pc,                   \* the call the worker is in
  request,              \* the request being handled
  curTime,              \* its local curTime
  answer,               \* what the last answer said
  server,               \* "down", "up", or "lost": not up all the time since
                        \* the worker connected
  command,              \* what became of the request's command at the server
  lastPass,             \* history: when a request last passed the limiter
  pause                 \* history: Block once that request failed with 8 or 9

limiter == <<nextMessageSendable, lastPass, pause>>

vars == <<now, web, limiter, pc, request, curTime, answer, server, command>>

PC == {"idle", "init", "authenticate", "sendConsoleCommand", "reply", "stuck"}

\* An answer has status "success", or "failed" with an errorCode: 1 to 9, which
\* refuse the request, or 10, the failure of the command itself.  A status of
\* 500 stands for an exception that Crow caught.
Answers == {"none", "success", "refused", "failed", "exception"}

Never == -1  \* no such time yet

TypeOK ==
  /\ now \in 0 .. MaxTime
  /\ web \in {"off", "serving", "ended"}
  /\ nextMessageSendable \in 0 .. MaxTime + Block
  /\ pc \in PC
  /\ request \in Request
  /\ curTime \in 0 .. MaxTime
  /\ answer \in Answers
  /\ server \in {"down", "up", "lost"}
  /\ command \in {"none", "sent", "executed"}
  /\ lastPass \in Never .. MaxTime
  /\ pause \in {1, Block}

Init ==
  /\ now = 0
  /\ web = "off"
  /\ nextMessageSendable = 0
  /\ pc = "idle"
  /\ request = NoRequest
  /\ curTime = 0
  /\ answer = "none"
  /\ server \in {"down", "up"}
  /\ command = "none"
  /\ lastPass = Never
  /\ pause = 1
-----------------------------------------------------------------------------
(* The limiter and the checks of the request, before anything can block.   *)

\* Errors 2 to 7 are for the others.
Fit(r) ==
  /\ r.authorization # "absent"
  /\ r.serverName = "known"
  /\ r.message \in {"console", "custom"}

Ready == web = "serving" /\ pc = "idle"

TooSoon == now - nextMessageSendable < 0

RejectTooSoon ==
  /\ Ready
  /\ TooSoon
  /\ answer' = "refused"
  /\ command' = "none"
  /\ UNCHANGED <<now, web, limiter, pc, request, curTime, server>>

NextSecondBackwards == now - 1  \* mutant: the wrong sign

NextSecond == now + 1  \* Set to 1 second

\* nextMessageSendable is set before the request is looked at.
Pass ==
  /\ Ready
  /\ ~TooSoon
  /\ nextMessageSendable' = NextSecond
  /\ lastPass' = now
  /\ pause' = 1
  /\ command' = "none"
  /\ UNCHANGED <<now, web, server>>

Refuse(r) ==
  /\ ~Fit(r)
  /\ Pass
  /\ answer' = "refused"
  /\ UNCHANGED <<pc, request, curTime>>

Admit(r) ==
  /\ Fit(r)
  /\ Pass
  /\ request' = r
  /\ curTime' = now
  /\ pc' = "init"
  /\ answer' = "none"

Passes == \E r \in Request : Refuse(r) \/ Admit(r)
-----------------------------------------------------------------------------
(* The dialogue with the server.                                           *)

\* The next call of the dialogue.
Proceed(from, to) ==
  /\ pc = from
  /\ pc' = to
  /\ UNCHANGED <<now, web, limiter, request, curTime, answer, server>>

\* handleRCON returns; its locals are gone.
Reply(a) ==
  /\ pc' = "idle"
  /\ answer' = a
  /\ request' = NoRequest
  /\ curTime' = 0
  /\ UNCHANGED <<now, web, server>>

BlockedUntilPassed == nextMessageSendable  \* mutant: forgets the assignment

BlockedUntil == curTime + Block  \* Block for 10 seconds

FailAndBlock ==
  /\ Reply("refused")
  /\ nextMessageSendable' = BlockedUntil
  /\ pause' = Block
  /\ UNCHANGED <<command, lastPass>>

RconInit ==
  /\ Proceed("init", "authenticate")
  /\ server = "up"
  /\ UNCHANGED command

\* connect fails, or socket does: every dialogue that connected has left its
\* socket open, so that in the end there may be none left.
RconInitFails ==
  /\ pc = "init"
  /\ FailAndBlock

\* send or recv failed, or the id in the response is not that of the request:
\* the password is wrong, or the first segment ends before the id, which may
\* happen with every server and every password.
RconAuthenticateFails ==
  /\ pc = "authenticate"
  /\ FailAndBlock

Authenticated == server = "up" /\ request.authorization = "right"

\* A console command goes to the server, one of createCommand's is called.
ConsoleCommand ==
  /\ Proceed("authenticate", "sendConsoleCommand")
  /\ Authenticated
  /\ request.message = "console"
  /\ UNCHANGED command

CustomCommand ==
  /\ pc = "authenticate"
  /\ Authenticated
  /\ request.message = "custom"
  /\ Reply("success")
  /\ command' = "executed"
  /\ UNCHANGED limiter

\* send also takes what a connection that has just gone will not deliver.
Send ==
  /\ Proceed("sendConsoleCommand", "reply")
  /\ command' = IF server = "up" THEN "sent" ELSE "none"

SendErrorReused == "refused"  \* mutant: the error of authenticate

SendError == "failed"  \* 10

SendFailsRetries ==  \* mutant: connects and sends again, without end
  /\ pc \in {"sendConsoleCommand", "reply"}
  /\ server # "up"
  /\ Proceed(pc, "init")
  /\ UNCHANGED command

\* The connection is gone: send fails, or recv after it with -1.
SendFails ==
  /\ pc \in {"sendConsoleCommand", "reply"}
  /\ server # "up"
  /\ Reply(SendError)
  /\ UNCHANGED <<limiter, command>>

\* A recv that returns 0 passes for an empty reply.
ReplyEmpty ==
  /\ pc = "reply"
  /\ server # "up"
  /\ Reply("success")
  /\ UNCHANGED <<limiter, command>>

\* A reply, or the first segment of it: Packet::deserialize throws if that
\* has 12 or 13 bytes, and ignores less than 12.
ReplyArrives ==
  /\ pc = "reply"
  /\ command = "executed"
  /\ \E a \in {"success", "exception"} : Reply(a)
  /\ UNCHANGED <<limiter, command>>

\* A reply of a multiple of 1024 bytes: recv waits for more, until the
\* connection goes.
Stick ==
  /\ LongReplies
  /\ Proceed("reply", "stuck")
  /\ command = "executed"
  /\ UNCHANGED command

Unstick ==
  /\ pc = "stuck"
  /\ server # "up"
  /\ \E a \in {"success", SendError} : Reply(a)
  /\ UNCHANGED <<limiter, command>>

Dialogue ==
  \/ RconInit \/ RconInitFails
  \/ RconAuthenticateFails \/ ConsoleCommand \/ CustomCommand
  \/ Send \/ SendFails \/ ReplyEmpty \/ ReplyArrives \/ Stick \/ Unstick
-----------------------------------------------------------------------------
(* The life of the web server.                                             *)

\* main: addServer, then initialize starts webServerThread.
Initialize ==
  /\ web = "off"
  /\ web' = "serving"
  /\ UNCHANGED <<now, limiter, pc, request, curTime, answer, server, command>>

\* run() returns, after CTRL+C or deInitialize, once the worker is done.
\* main looks at wantsShutdown nowhere, and the process goes on.
RunReturns ==
  /\ Ready
  /\ web' = "ended"
  /\ UNCHANGED <<now, limiter, pc, request, curTime, answer, server, command>>

\* The process ends and is started again.  A command that was on its way to
\* the server is executed or lost.
BackendEnds ==
  /\ web' = "off"
  /\ nextMessageSendable' = 0
  /\ pc' = "idle"
  /\ request' = NoRequest
  /\ curTime' = 0
  /\ answer' = "none"
  /\ command' \in IF command = "sent" THEN {"none", "executed"} ELSE {command}
  /\ lastPass' = Never
  /\ pause' = 1
  /\ UNCHANGED <<now, server>>
-----------------------------------------------------------------------------
(* The world.                                                              *)

Execute ==
  /\ command = "sent"
  /\ command' = "executed"
  /\ UNCHANGED <<now, web, limiter, pc, request, curTime, answer, server>>

\* Connections end with the server, and what they still carried is lost.
GoesDown ==
  /\ server = "up"
  /\ server' = IF pc \in {"idle", "init"} THEN "down" ELSE "lost"
  /\ command' = IF command = "sent" THEN "none" ELSE command
  /\ UNCHANGED <<now, web, limiter, pc, request, curTime, answer>>

\* One that is up again has none of the old connections.
ComesUp ==
  /\ server # "up"
  /\ pc \in {"idle", "init"}
  /\ server' = "up"
  /\ UNCHANGED <<now, web, limiter, pc, request, curTime, answer, command>>

Tick ==
  /\ now < MaxTime
  /\ now' = now + 1
  /\ UNCHANGED <<web, limiter, pc, request, curTime, answer, server, command>>

World == Initialize \/ Execute \/ GoesDown \/ ComesUp \/ Tick

Next ==
  \/ RejectTooSoon
  \/ Passes
  \/ Dialogue
  \/ World
  \/ RunReturns
  \/ BackendEnds

Spec == Init /\ [][Next]_vars
-----------------------------------------------------------------------------
\* Two requests that pass the limiter of one run of the backend are a second
\* apart, and ten when RCON refused the first, counted from the first one's
\* arrival, however long its calls blocked (when they take ten seconds, nothing is
\* left of the pause): the three assignments to nextMessageSendable.
Paced == [][Passes => now >= lastPass + pause]_vars

\* A request that is answered with one of the errors 1 to 9 was not executed,
\* so that it may be sent again: the order of the calls in handleRCON.
RefusedNotExecuted == pc = "idle" /\ answer = "refused" => command = "none"

\* Every request is answered, unless its reply fills the receive buffer and
\* leaves the worker in recv: whatever goes down meanwhile, each of RCON's
\* calls returns and each of their results leads to an answer of handleRCON.
Answered == (pc # "idle") ~> (pc \in {"idle", "stuck"})
=============================================================================
