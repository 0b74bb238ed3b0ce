------------------------------ MODULE MCServer ------------------------------
(***************************************************************************)
(* One MCServer object and the detached thread that runs its update():     *)
(* the supervision of one Minecraft server.  (src/SMTC-MCBackend/          *)
(* SMTC-MCBackend/Libraries/MCBackend/MCBackend.cpp:292-548.)              *)
(*                                                                         *)
(* The thread loops for ever.  While it takes the server to be OFFLINE it  *)
(* launches it (KEEP_ONLINE) or listens on the server's own port and       *)
(* launches it when a player logs in (PROXY_SERVER); otherwise it asks the *)
(* server for its status and stops it over RCON once it has been empty for *)
(* autoStopAfter seconds (AUTO_STOP).  pc names the call the thread is in: *)
(* every blocking call is a place where the world may move.                *)
(*                                                                         *)
(* Time: the code only ever compares time(nullptr) - lastPlayerActivity    *)
(* with autoStopAfter, so sinceActivity is that difference, counted up to  *)
(* AutoStopAfter and no further.                                           *)
(***************************************************************************)
EXTENDS Minecraft

CONSTANTS
  Descs,          \* the descriptors addServer may have been given
  AutoStopAfter,  \* initDesc.autoStopAfter
  FreshStates,    \* what the never initialised field state may hold at first
  Skew,           \* bound on how far ahead of the clock the never initialised
                  \* field lastPlayerActivity may lie
  Self            \* the thread, as a listener on the port

SERVER_DESC_START == {"START_NONE", "PROXY_SERVER", "KEEP_ONLINE"}
SERVER_DESC_STOP  == {"STOP_NONE", "AUTO_STOP"}

MCServerDesc == [startLogic : SERVER_DESC_START, stopLogic : SERVER_DESC_STOP]

\* A byte that is no enumerator fails every test of the code, as ONLINE_USING
\* does, so these five stand for all 256 values of an indeterminate state.
SERVER_STATE == {"OFFLINE", "STARTING", "STOPPING", "ONLINE_EMPTY", "ONLINE_USING"}

ASSUME MCServerAssumption ==
  /\ Descs \subseteq MCServerDesc
  /\ AutoStopAfter \in Nat
  /\ FreshStates \subseteq SERVER_STATE
  /\ Skew \in Nat
  /\ Self \notin Proc /\ Self # NoOne

VARIABLES
  initDesc,       \* MCServer::initDesc, which never changes
  state,          \* MCServer::state
  playerCount,    \* MCServer::playerCount
  sinceActivity,  \* time(nullptr) - lastPlayerActivity, up to AutoStopAfter
  pc,             \* the call the thread is in
  peer,           \* the other end of its status or RCON connection
  reply,          \* the status answer, a number of players, that the peer has
                  \* sent on it and the thread has not read, or NoReply
  client,         \* the player's connection to the proxy listener
  sinceSeen       \* history: seconds since a status answer reported players,
                  \* up to AutoStopAfter

conn   == <<peer, reply>>
thread == <<initDesc, state, playerCount, sinceActivity, pc, conn, client, sinceSeen>>
vars   == <<world, thread>>

PC == { "update",      \* at the head of the loop
        "accept",      \* tpcListener: bound and listening, in accept
        "recieve",     \* tpcListener: waiting for the client's handshake
        "start",       \* about to call start
        "status",      \* getStatus: waiting for the answer
        "decide",      \* the auto shutdown logic
        "rconInit", "rconAuth", "rconSend",  \* the three calls of stop
        "terminated" } \* an exception left the thread: std::terminate

ProxySteps == {"accept", "recieve"}
StopSteps  == {"rconInit", "rconAuth", "rconSend"}

\* A client of the proxy: absent, connected but silent, or what it sent: a
\* status ping, a login, bytes of another shape, an orderly close, a reset.
Client == {"none", "silent", "status", "login", "junk", "closed", "reset"}

Ages == (-Skew) .. AutoStopAfter

NoReply == -1

TypeOK ==
  /\ proc \in [Proc -> ProcState]
  /\ players \in 0 .. MaxPlayers
  /\ port \in Proc \union {NoOne, Self}
  /\ initDesc \in Descs
  /\ state \in SERVER_STATE
  /\ playerCount \in 0 .. MaxPlayers
  /\ sinceActivity \in Ages
  /\ pc \in PC
  /\ peer \in Proc \union {NoOne, Self}
  /\ reply \in 0 .. MaxPlayers \union {NoReply}
  /\ client \in Client
  /\ sinceSeen \in 0 .. AutoStopAfter

\* MCServer server; in addServer leaves these three fields indeterminate.
Init ==
  /\ WorldInit
  /\ initDesc \in Descs
  /\ state \in FreshStates
  /\ playerCount \in 0 .. MaxPlayers
  /\ sinceActivity \in Ages
  /\ pc = "update"
  /\ peer = NoOne
  /\ reply = NoReply
  /\ client = "none"
  /\ sinceSeen = AutoStopAfter

Goto(from, to) ==
  /\ pc = from
  /\ pc' = to
-----------------------------------------------------------------------------
(* update: the head of the loop.                                           *)

\* lastPlayerActivity = time(nullptr), which update does first when OFFLINE.
TouchIfOffline ==
  sinceActivity' = IF state = "OFFLINE" THEN 0 ELSE sinceActivity

KeepOnline ==
  /\ Goto("update", "start")
  /\ state = "OFFLINE"
  /\ initDesc.startLogic = "KEEP_ONLINE"
  /\ TouchIfOffline
  /\ UNCHANGED <<world, state, playerCount, conn, client, sinceSeen>>

\* tpcListener: bind and listen.  Either failure closes the socket again.
BindListen ==
  /\ Goto("update", "accept")
  /\ state = "OFFLINE"
  /\ initDesc.startLogic = "PROXY_SERVER"
  /\ port = NoOne
  /\ port' = Self
  /\ TouchIfOffline
  /\ UNCHANGED <<proc, players, state, playerCount, conn, client, sinceSeen>>

BindListenFails ==
  /\ pc = "update"
  /\ state = "OFFLINE"
  /\ initDesc.startLogic = "PROXY_SERVER"
  /\ port # NoOne \/ "bind" \in Faults
  /\ TouchIfOffline
  /\ UNCHANGED <<world, state, playerCount, pc, conn, client, sinceSeen>>

\* Neither of the two: update goes on to getStatus.
Polls == state # "OFFLINE" \/ initDesc.startLogic = "START_NONE"

\* getStatus: connect to whoever listens on the port and send the request.
Connect ==
  /\ Goto("update", "status")
  /\ Polls
  /\ port # NoOne
  /\ peer' = port
  /\ TouchIfOffline
  /\ UNCHANGED <<world, state, playerCount, reply, client, sinceSeen>>

Downgraded == "OFFLINE"  \* mutant: also gives up on a server that is booting

AfterNoConnect == IF state # "STARTING" THEN "OFFLINE" ELSE state

ConnectFails ==
  /\ Goto("update", "decide")
  /\ Polls
  /\ port = NoOne \/ "refuse" \in Faults
  /\ state' = AfterNoConnect
  /\ TouchIfOffline
  /\ UNCHANGED <<world, playerCount, conn, client, sinceSeen>>
-----------------------------------------------------------------------------
(* tpcListener: one client of the proxy.                                   *)

Accept ==
  /\ Goto("accept", "recieve")
  /\ client # "none"
  /\ UNCHANGED <<world, state, playerCount, sinceActivity, conn, client, sinceSeen>>

\* Only the invalid client socket is closed: the listener stays open.
AcceptFails ==
  /\ "accept" \in Faults
  /\ Goto("accept", "update")
  /\ client # "none"
  /\ client' = "none"
  /\ UNCHANGED <<world, state, playerCount, sinceActivity, conn, sinceSeen>>

StillBound == port  \* mutant: closes the client's socket only

Unbound == NoOne

CloseProxy ==
  /\ client' = "none"
  /\ port' = Unbound
  /\ UNCHANGED <<proc, players, state, playerCount, sinceActivity, conn, sinceSeen>>

\* nextState 1, or recv = -1: answer if possible, close, and back to the loop.
ServePing ==
  /\ client \in {"status", "reset"}
  /\ Goto("recieve", "update")
  /\ CloseProxy

\* nextState 2: kick the player with "Server will start" and return true.
ServeLogin ==
  /\ client = "login"
  /\ Goto("recieve", "start")
  /\ CloseProxy

\* Bytes of another shape, or none at all: nextState is read at an index that
\* lies outside the handshake or outside the buffer, so it may be anything,
\* and the read itself may fault.
ServeJunk ==
  /\ client \in {"junk", "closed"}
  /\ \E next \in {"update", "start", "terminated"} : Goto("recieve", next)
  /\ CloseProxy
-----------------------------------------------------------------------------
(* start                                                                   *)

Start(p) ==
  /\ Goto("start", "update")
  /\ Launched(p)
  /\ state' = "STARTING"
  /\ UNCHANGED <<playerCount, sinceActivity, conn, client, sinceSeen>>

\* update ignores the false that start returns.
StartFails ==
  /\ "launch" \in Faults
  /\ Goto("start", "update")
  /\ UNCHANGED <<world, state, playerCount, sinceActivity, conn, client, sinceSeen>>
-----------------------------------------------------------------------------
(* getStatus: the answer.                                                  *)

\* The server at the other end answers with its number of players.  What it
\* has sent stays readable whatever becomes of the server afterwards.
ServerAnswers ==
  /\ pc = "status"
  /\ peer \in Up
  /\ reply = NoReply
  /\ reply' = players
  /\ UNCHANGED <<world, state, playerCount, sinceActivity, pc, peer, client, sinceSeen>>

Disconnect ==
  /\ peer' = NoOne
  /\ reply' = NoReply

ActivityForgotten == sinceActivity  \* mutant: counts first, compares afterwards

ActivityAlways ==  \* mutant: every empty answer counts as activity
  IF reply = 0 THEN 0 ELSE sinceActivity

\* The poll that sees the last player leave.
Activity == IF playerCount # 0 /\ reply = 0 THEN 0 ELSE sinceActivity

\* recv: a well formed answer.
StatusAnswer ==
  /\ Goto("status", "decide")
  /\ reply # NoReply
  /\ sinceActivity' = Activity
  /\ playerCount' = reply
  /\ state' = IF reply > 0 THEN "ONLINE_USING" ELSE "ONLINE_EMPTY"
  /\ sinceSeen' = IF reply > 0 THEN 0 ELSE sinceSeen
  /\ Disconnect
  /\ UNCHANGED <<world, client>>

NoCount == -1  \* mutant: no answer is recorded as -1 players

KeptCount == playerCount

\* recv = -1, where a reset also discards an answer that was sent, or JSON
\* without players.online: return false, nothing changed.
StatusUseless ==
  /\ Goto("status", "decide")
  /\ peer \notin Up \/ "badjson" \in Faults
  /\ Disconnect
  /\ playerCount' = KeptCount
  /\ UNCHANGED <<world, state, sinceActivity, client, sinceSeen>>

\* recv = 0, after an orderly close without an answer, where
\* std::string(buffer + 5, 0 - 5) throws; or text that the JSON parser rejects
\* by throwing.  Nothing catches either.
StatusThrows ==
  /\ Goto("status", "terminated")
  /\ \/ reply = NoReply /\ (peer \notin Up \/ "fin" \in Faults)
     \/ "badjson" \in Faults
  /\ Disconnect
  /\ UNCHANGED <<world, state, playerCount, sinceActivity, client, sinceSeen>>
-----------------------------------------------------------------------------
(* update: the auto shutdown logic, and stop.                              *)

AtAll == TRUE  \* mutant: no waiting for autoStopAfter

Waited == ~(sinceActivity < AutoStopAfter)

IdleLongEnough ==
  /\ state = "ONLINE_EMPTY"
  /\ initDesc.stopLogic = "AUTO_STOP"
  /\ Waited

Continue ==
  /\ Goto("decide", "update")
  /\ ~IdleLongEnough
  /\ UNCHANGED <<world, state, playerCount, sinceActivity, conn, client, sinceSeen>>

BeginStop ==
  /\ Goto("decide", "rconInit")
  /\ IdleLongEnough
  /\ state' = "STOPPING"
  /\ UNCHANGED <<world, playerCount, sinceActivity, conn, client, sinceSeen>>

RconInit ==
  /\ Goto("rconInit", "rconAuth")
  /\ \E p \in Up : peer' = p
  /\ UNCHANGED <<world, state, playerCount, sinceActivity, reply, client, sinceSeen>>

RconAuthenticate ==
  /\ Goto("rconAuth", "rconSend")
  /\ peer \in Up
  /\ UNCHANGED <<world, state, playerCount, sinceActivity, conn, client, sinceSeen>>

\* The command arrives.  Whether its answer does makes no difference: update
\* ignores what stop returns.
RconStop ==
  /\ Goto("rconSend", "update")
  /\ peer \in Up
  /\ Halted(peer)
  /\ Disconnect
  /\ UNCHANGED <<state, playerCount, sinceActivity, client, sinceSeen>>

\* The command arrives, and the first segment of its answer has 12 or 13 bytes:
\* Packet::deserialize throws, out of stop and of the thread.
StopThrows ==
  /\ "split" \in Faults
  /\ Goto("rconSend", "terminated")
  /\ IF peer \in Up THEN Halted(peer) ELSE UNCHANGED world
  /\ Disconnect
  /\ UNCHANGED <<state, playerCount, sinceActivity, client, sinceSeen>>

\* Any of the three calls fails; update ignores the false that stop returns.
StopFails ==
  /\ \E s \in StopSteps : Goto(s, "update")
  /\ \/ pc = "rconInit" /\ Up = {}
     \/ pc # "rconInit" /\ peer \notin Up
     \/ "rcon" \in Faults
  /\ Disconnect
  /\ UNCHANGED <<world, state, playerCount, sinceActivity, client, sinceSeen>>
-----------------------------------------------------------------------------
(* The rest of the world.                                                  *)

\* A player picks the server in the client's list: the connection waits in
\* the backlog of the listener until it is accepted.
ClientConnects ==
  /\ pc = "accept"
  /\ client = "none"
  /\ client' = "silent"
  /\ UNCHANGED <<world, state, playerCount, sinceActivity, pc, conn, sinceSeen>>

ClientSends(what) ==
  /\ client = "silent"
  /\ client' = what
  /\ UNCHANGED <<world, state, playerCount, sinceActivity, pc, conn, sinceSeen>>

Sendable ==
  {"status", "login"} \union
    (IF "junk" \in Faults THEN {"junk", "closed", "reset"} ELSE {})

Older(age) == IF age < AutoStopAfter THEN age + 1 ELSE age

Tick ==
  /\ sinceActivity' = Older(sinceActivity)
  /\ sinceSeen' = Older(sinceSeen)
  /\ UNCHANGED <<world, state, playerCount, pc, conn, client>>

\* The process is killed, or died of an exception, and main runs again: the
\* sockets are gone, the fields are indeterminate again, the servers live on.
Restart ==
  /\ "restart" \in Faults
  /\ pc' = "update"
  /\ state' \in FreshStates
  /\ playerCount' \in 0 .. MaxPlayers
  /\ sinceActivity' \in Ages
  /\ Disconnect
  /\ client' = "none"
  /\ sinceSeen' = AutoStopAfter
  /\ port' = IF port = Self THEN NoOne ELSE port
  /\ UNCHANGED <<proc, players>>

Update ==
  /\ \/ KeepOnline \/ BindListen \/ BindListenFails \/ Connect \/ ConnectFails
     \/ Accept \/ AcceptFails \/ ServePing \/ ServeLogin \/ ServeJunk
     \/ (\E p \in Proc : Start(p)) \/ StartFails
     \/ StatusAnswer \/ StatusUseless \/ StatusThrows
     \/ Continue \/ BeginStop
     \/ RconInit \/ RconAuthenticate \/ RconStop \/ StopThrows \/ StopFails
  /\ UNCHANGED initDesc

Clients ==
  /\ \/ ClientConnects
     \/ \E what \in Sendable : ClientSends(what)
  /\ UNCHANGED initDesc

Environment ==
  \/ WorldNext /\ UNCHANGED thread
  \/ Clients
  \/ (ServerAnswers \/ Tick \/ Restart) /\ UNCHANGED initDesc

Next == Update \/ Environment

Spec == Init /\ [][Next]_vars
-----------------------------------------------------------------------------
(* Fairness.  The thread is never blocked for ever by the operating        *)
(* system, time passes, servers finish booting and closing, one that stays *)
(* up answers a status request, a connected client sends something or      *)
(* hangs up, and players keep trying: there is always a next client, and   *)
(* again and again one that logs in.                                       *)

Fairness ==
  /\ WF_vars(Update)
  /\ WF_vars(Tick /\ UNCHANGED initDesc)
  /\ WF_vars(ServerAnswers /\ UNCHANGED initDesc)
  /\ \A p \in Proc : WF_vars(Progress(p) /\ UNCHANGED thread)
  /\ WF_vars(Clients)
  /\ SF_vars(ClientSends("login") /\ UNCHANGED initDesc)

FairSpec == Spec /\ Fairness
-----------------------------------------------------------------------------
(* Safety.                                                                 *)

\* The thread is the only one that starts the server, does so with all it
\* knows, and is not misled about an open port: the surroundings in which the
\* next properties are promised.  With KEEP_ONLINE nothing but the failed
\* connect protects from a second launch; the proxy has to get the port first.
Exclusive ==
  /\ {"manual", "restart"} \intersect Faults = {}
  /\ \/ "refuse" \notin Faults
     \/ \A desc \in Descs : desc.startLogic = "PROXY_SERVER"

\* At no time are two processes of this server booting or open.  Hangs on the
\* state # STARTING guard of getStatus, on the order of update's tests and on
\* the proxy needing the port: MCServer::update, getStatus and start.
OneActive == Exclusive => \A p, q \in Active : p = q

\* The proxy listener never holds the port of a server that is booting (which
\* would make the boot fail) or up: MCServer::update and tpcListener.
ProxyYields == Exclusive => (pc \in ProxySteps => Active = {})

\* The stop dialogue is entered only when no status answer has reported a
\* player for autoStopAfter seconds, whatever fails, whatever the fields held
\* at first and however polls, joins and the clock interleave: the bookkeeping
\* of lastPlayerActivity in MCServer::getStatus and update.
IdleStop == pc \in StopSteps => sinceSeen = AutoStopAfter

Life ==
  IF Active = {} THEN "down"
  ELSE IF \E p \in Proc : proc[p] = "booting" THEN "booting" ELSE "up"

Supervised ==
  INSTANCE SupervisedServer
  WITH Limit <- AutoStopAfter, life <- Life, quiet <- sinceSeen,
       stopping <- pc \in StopSteps

\* Ports, polling and RCON together implement the one-server promise of
\* SupervisedServer, in Exclusive surroundings: MCServer::update as a whole.
ImplementsSupervised == Supervised!Spec

\* Nobody is up or will be, and the thread waits for a boot that is over, with
\* no answer left to read that a server sent before it went down, or it waits
\* for the port, which the listener that it forgot still holds.
DeadEnd ==
  /\ Active = {}
  /\ \/ state = "STARTING" /\ reply = NoReply
     \/ /\ port = Self /\ pc = "update"
        /\ state = "OFFLINE" /\ initDesc.startLogic = "PROXY_SERVER"

\* Unless somebody starts the server by hand or the backend again, what has
\* come to a dead end stays there, whatever players, clock and failing calls do:
\* neither a failed connect nor a failed bind of update leads out of it, and
\* only an answer that is still to be read leads out of STARTING.
DeadEndsLast ==
  [][{"manual", "restart"} \intersect Faults = {} /\ DeadEnd => DeadEnd']_vars

-----------------------------------------------------------------------------
(* Liveness.                                                               *)

\* The comment in update, "If a player tries to connect, kick and start
\* server", with players that keep trying: the server is up again and again.
WakesUp == initDesc.startLogic = "PROXY_SERVER" => []<>(Active # {})

\* A server that the thread has to keep or to wake, and that is down for good
\* although every call of the thread's own succeeds, is down for one of two
\* reasons: the thread waits for a boot that is over, or an exception has ended
\* it.  Everything else in MCServer::update and getStatus leads back to a
\* launch, at whatever point of them the server dies or is stopped.
DownOnlyIfStuck ==
  initDesc.startLogic # "START_NONE" =>
    (<>[](Active = {}) => <>[](state = "STARTING" \/ pc = "terminated"))

\* No server stays open and empty for ever under AUTO_STOP: polling, the
\* idle time and the stop dialogue, MCServer::update, getStatus and stop.
AutoStops == initDesc.stopLogic = "AUTO_STOP" => ~ <>[](Up # {} /\ players = 0)
=============================================================================
