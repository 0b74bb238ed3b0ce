# Verification of SMTC-MCBackend

TLA+ models, TLC runs and TLAPS proofs for SMTC-MCBackend, a C++ program that
supervises Minecraft servers and exposes their consoles over REST, and for
SMTCBot, the Discord bot that uses it.

## 1. The system

`M` is `src/SMTC-MCBackend/SMTC-MCBackend/Libraries/MCBackend/MCBackend.cpp`,
`R` is `.../Libraries/RCON/RCON.cpp`, `bot/` is `src/SMTCBot/`.

| Component | State | Operations | Talks to | What is hard | What makes it correct |
|---|---|---|---|---|---|
| Supervision thread, one per server (`MCServer::update`, M:513, with `getStatus`, `start`, `stop`, `tpcListener`) | `state`, `playerCount`, `lastPlayerActivity`, its sockets | poll the status, launch, listen as a proxy on the server's own port, stop over RCON | the Minecraft process (its port, its status answers, RCON), players | the process boots, crashes, closes its port and exits between any two calls; the port is shared with the proxy; failed calls are ignored; fields are never initialised | one server at a time; the proxy never holds the port of a live server; a stop only after an idle time; a server that is wanted comes back; an empty one is stopped |
| Receive loop (`Socket::recieveBytes` M:130, the loop in `RCON::sendConsoleCommand` R:149) | the collected bytes | `recv` into 1024 bytes, append, again if full | TCP | segmentation, closing and reset peers, an answer that fills the buffer | what was read is a prefix of the answer; the loop returns |
| Packets (`Packet`, M:7; status header and handshake read by fixed offsets, M:326, M:473) | none | encode, decode | Minecraft protocol | lengths of more than one byte shift the offsets | what is built follows the protocol; nothing wrong is read from a part of a packet |
| RCON client (`RCON`, R:69-192) | the socket | `init`, `authenticate`, `sendConsoleCommand` | Minecraft | the peer goes away between the three calls | a command runs at most once |
| Registry (`MCBackend::addServer` M:565, `initWithFolder` M:195) | `servers`, the threads launched | add a server | `server.properties`, the supervision threads | files that change between calls, two paths with one name, missing lines | servers share no port |
| `/rconSend` (`handleRCON` M:634) | `nextMessageSendable` | check, pace, RCON dialogue, answer | RCON client, bot | one worker; calls that block while the clock runs | pacing; an error means not executed; every request is answered |
| `/readFile` (`handleReadFile` M:757) | none | read a file below a server's folder | bot | two reads of files that change, behind a worker that may be blocked | every request is answered |
| Life cycle (`main`, `initialize` M:606, `deInitialize` M:619, `webServerThread`) | `wantsShutdown`, `commands` | start, stop | all of the above | order of WSAStartup and the first thread; a web server that ends while the process goes on | nothing is used before it is set up |
| Bot: commands and permission levels (`bot/src/commandManager.js`, `bot/commands/`) | table `users` | look up the level, dispatch, `levels set` | SQLite, Discord | callbacks of several commands interleave; statements run in any order | levels are set by admins and are not lost |
| Bot: relay (`bot/src/app.js`, `sendMessage.js`, `serverManager.js`) | the handlers in flight | send a chat message or a slash command to the console, read files | `/rconSend`, `/readFile` | interleaved handlers, bursts against the limiter, a backend that is down or ends, rejections that nobody catches | each message runs at most once, never after it was refused; no handler waits for ever |
| Bot: utility commands | table `servers` (`set-info`) | one request or row each | relay, SQLite | a row that changes after it was read | the public address is shown to those who may see it; otherwise as for the relay |
| Vendored Crow, Asio, nlohmann json | - | - | - | - | - |

Every component is listed in `PROJECT.json`, with the modules that model it.
The hazards there are listed with the line where they bite.

How they interact: `main` calls `addServer`, which copies an `MCServer` into a
detached thread (the supervision thread; nothing is shared with it afterwards)
and another copy into the map `servers`. Crow's one worker thread runs the two
REST handlers, which read the map. The supervision thread and the handlers meet
only at the Minecraft server. The bot meets the backend only through REST.

## 2. Modules

    Minecraft  <-- MCServer  <-- MCMCServer             (TLC)
                      |  ^------ MCServerProofs         (TLAPS)
                      |-- INSTANCE SupervisedServer     (abstract)
    Receive, Packet, RconPacket <-- ReceivedPackets <-- MCReceive (TLC)
               ^------ PacketProofs <--- | ---+         (TLAPS)
                       ReceivedPackets <-- ReceiveProofs (TLAPS)
    Registry    <-- MCRegistry (TLC), RegistryProofs    (TLAPS)
       |-- INSTANCE Directory                           (abstract)
    RconHandler <-- RconHandlerProofs <---+             (TLAPS)
        ^                                 |
    RconHandler, FileHandler <-- Relay <-- RelayProofs  (TLAPS)
                                   |-- INSTANCE Delivery (abstract)
    PermLevels  <-- PermLevelsProofs <----+             (TLAPS)
        ^                                 |
    ServerInfo  <-- MCPermLevels (TLC), ServerInfoProofs (TLAPS)

`Relay.cfg` runs `Relay` itself; all other runs use an MC module.

**Minecraft** (external). A server process and its surroundings, as `src/` uses
them: a process is absent, booting, up, closing (its port is shut, it still
saves the world) or gone again; it takes the port when it has booted; players
join and leave while it is up. Everything that goes wrong is named in `Faults`:
a boot that fails, a crash, an operator who stops or starts a server by hand,
failing system calls, a restarted backend. Nothing in `src/` says how long any
of these steps takes, so they take any time.

**MCServer**. One thread in `update`. `pc` names the blocking call it is in, so
the world can move at every call: `update`, `accept` and `recieve` (the proxy),
`start`, `status`, `decide`, and the three calls of `stop`. One action for each
outcome of each call: `Connect`/`ConnectFails`, `StatusAnswer`/`StatusUseless`/
`StatusThrows`, `BindListen`/`BindListenFails`, and so on. `conn` is the
thread's connection to the server: its other end (`peer`) and the answer that is
on its way (`reply`). That the server answers a poll (`ServerAnswers`) and that
the thread reads the answer (`StatusAnswer`) are two steps: an answer outlives
the server that sent it, and takes the thread out of STARTING even then. A peer
that goes away without an answer may reset the connection (recv = -1) or close
it (recv = 0, and M:326 throws). An exception that leaves the thread, there or
in the stop dialogue (`StopThrows`, R:66), ends it: `pc` is `terminated`, and
only `Restart` goes on. `initDesc` is the
descriptor (start and stop logic), chosen at the start from `Descs`. Time is
`sinceActivity`, the only thing the code computes from the clock, counted up to
`autoStopAfter`. The fields that `addServer` leaves uninitialised (`state`,
`playerCount`, `lastPlayerActivity`) start with any value; `Skew` bounds how far
in the future the last may lie. `sinceSeen` is a history variable: seconds since
a status answer last reported players.

**SupervisedServer** (abstract). What the thread promises as a whole: a server
is down, booting or up; it is woken only when down; it is told to stop only
after `Limit` quiet seconds. The mapping is `Life` (from the processes),
`sinceSeen` and the stop steps of `pc`. `DeadEnd`, in `MCServer`, names the
states behind the two findings about it: nobody is up or will be, and the thread
waits in STARTING with no answer left to read, or for a port that its own
listener holds. An answer may be read just after the server went down, so
`SupervisedServer` lets players be seen then too, but not while a server boots.

**Receive**. The loop and the segmentation by TCP. `BytesRead` is what recv
returns: all that has arrived, up to `Chunk`.

**Packet**. What class `Packet` builds, and what `getStatus` and `tpcListener`
read at fixed offsets, beside closed formulas of the protocol's format (`Wire`).
`Radix` stands for 2^7. **RconPacket** does the same for `RCON::Packet` and for
the id that `authenticate` reads (R:20-66, 121). **ReceivedPackets** sends
packets of both kinds through the receive loop, and says what is read from the
bytes collected; `MCReceive` chooses the packets that TLC tries.

**Registry**. `addServer` with all that it calls. A path is a value with a
folder and a `filename()`; several paths may lead to one folder or have one
name. The contents of `server.properties` are an input of each call. A field
whose line is missing holds any value of `Garbage`; a line without a value makes
`std::stoi` throw, which ends the program.

**Directory** (abstract). What the REST handlers take the map for: a name leads
to the server that took it first, for as long as the backend runs, and no two
names lead to one port. The mapping is the map itself; a launch whose name is
taken is a stutter.

**RconHandler**. One worker, one request at a time: the limiter, the checks
(`Fit`), then `init`, `authenticate`, `sendConsoleCommand`, with the clock and
the server moving at each. Of an answer the model keeps its class: success,
refused (errors 1 to 9), failed (error 10), or an exception that Crow turned
into status 500. `command` is what became of the request's command at the
server: sent, executed, or lost with the connection. `web` is the life of the
web server: `initialize` starts it, `run()` may return, after which the process
goes on without it since `main` never reads `wantsShutdown`, and the process may
end at any call and be started again, with the limiter reset.

**FileHandler**. `/readFile` as a function: an answer for every request and
every state of the file. The answer is an exception where the conversion of the
path (M:777), `exists` (M:835) or `dump` of a text that is not UTF-8 (M:860)
throws. Its state is that of the worker it shares.

**Relay**. Bot, backend and server in one. A task is one event of Discord; its
handler queries the database, fetches, awaits the answer and replies or does
nothing, and Node interleaves the handlers, one connection each. A `Message`
sends one console command (a chat message, `say`, `ban`, `seed`, ...), a
`Listing` reads two files one after the other (`list-banned`). `Serve` lets the
worker take any of the requests that have arrived, `ServeOther` one of another
client, `Work` is a step of the dialogue, which ends with the answer to the task
that is being served. Connections that are open when the web server ends are
reset. A fetch that rejects, an answer that is not JSON, or a file that is read
half written and then parsed ends the bot (`Rejects`), and so may anything else
at any time (`BotEnds`).

**Delivery** (abstract). What a user of the bot may rely on: his message runs at
most once, and not at all once he was told that it was refused. Of "success" and
of error 10 it promises nothing: recv = 0 passes for an empty reply, and a
command whose reply was lost may have run. The mapping takes a message as posted
when its event has arrived, and its outcome from the answer its handler got.

**PermLevels**. The table `users` and the interactions in flight. Executing a
statement and running its callback are two steps. The insert of a new user has
no callback, and is a queue of its own. `levels set` compares levels with a
parameter that its caller does not pass; the model has no such test, as
comparing with `undefined` never refuses.

**ServerInfo**. The same commands with the row of their channel's server, which
`runCommand` reads after the level: `set-info`, whose UPDATE is executed later,
and `get-public-ip`, which decides on the row and the level it was handed and
replies after a fetch. `everExposed` and `peak` are history: whether the address
was exposed, and the highest level of the user, since the command arrived.

`PROJECT.json` maps each definition to the lines it stands for. Operators with
the comment "mutant" are wrong variants of a definition, each a plausible bug of
the code that breaks the property it is paired with.

## 3. What the runs check

| Run | Question | Result |
|---|---|---|
| Exclusive | With every descriptor and every mishap except a second starter or a refused connect: is there ever a second server (`OneActive`), does the proxy ever hold a live server's port (`ProxyYields`), does the thread implement `SupervisedServer`, and does it ever leave a `DeadEnd` (`DeadEndsLast`)? | holds; never |
| AllFaults | With every fault, restarts included: types, and is a server told to stop only after an idle time (`IdleStop`)? | holds |
| Live | Servers that fail to boot, die or are stopped at any moment, in the middle of an answer too: is a server down for good only if the thread waits in STARTING or was ended by an exception (`DownOnlyIfStuck`), and is every open empty server stopped (`AutoStops`)? | holds |
| StuckBoot | "If a player tries to connect, kick and start server" (M:528), when a boot may fail | violated: `getStatus` keeps STARTING while connect fails, for ever |
| StuckAccept | the same, when `accept` may fail | violated: the listener is not closed and holds the port |
| Receive | Over the protocol's packets: collected bytes are a prefix, in order; the loop is in recv only while bytes are to come, unless the answer ends with a full buffer (`MoreToCome`), and returns; nothing wrong is read from a piece of a packet whose lengths fit the fixed offsets (`DecodedRight`) or of an RCON reply (`RepliesRight`); `Packet` and `RCON::Packet` build what their protocols demand (`BuildsWire`) | holds |
| ReceiveShort | "If less than 1024 bytes were read, we're done" (M:161, R:179) | violated: a segment is not an answer |
| Registry | Servers of the map share no port; nor do threads with different names; the map keeps the first of a name, for good (`ImplementsDirectory`) | holds |
| RegistryNamesakes | "Check that the server doesnt interfere with others" (M:574) for all threads | violated: a namesake's thread runs but is not in the map |
| Relay | Whatever ends, is lost or interleaved: pacing (`Paced`), errors 1 to 9 mean not executed (`RefusedNotExecuted`), no request of the bot is forgotten (`NoneForgotten`), every request is answered or waits behind a reply that fills the buffer (`Answered`), messages run at most once and not after a refusal (`ImplementsDelivery`), and no handler of the bot waits for ever (`TasksEnd`) | holds |
| PermLevels | Only an admin's command sets a level; a level set is not reset by the insert of a new user; the public address goes only to one who was entitled to it at some time since he asked (`AddressKept`) | holds |
| LevelsEqual | "You cannot modify the permission level of a user with equal or higher permission level than yourself." (`bot/commands/levels/set.js:42`) | violated: `levels.js:56` does not pass the executor's level, and comparisons with `undefined` are false |

StuckBoot and StuckAccept run with PROXY_SERVER, as `main.cpp` does, and
STOP_NONE: a thread that stops its server may also be ended by an exception on
the way, which would hide what the two runs are about. One fault each, and with
none the same property holds.

`Exclusive` as a constant condition: `OneActive` and `ProxyYields` are promised
only while nobody else starts the server and the thread is not restarted, and,
for KEEP_ONLINE, while connect fails only if no one listens. Outside they are
false of the code: with KEEP_ONLINE nothing but the failed connect stands
between an open server and a second launch, and a restarted backend knows
nothing of a booting server.

### Bounds

- Exclusive, AllFaults: three processes, so that two can overlap while a third
  is launched; two players, so that the count can fall without reaching 0;
  `AutoStopAfter` 3 and `Skew` 1, so that the idle time can start in the
  future, pass, be interrupted and end. Live: two processes and 2 seconds. A
  process that has exited may be launched again: ids are reused, so histories
  are not bounded by their number.
- Receive: a `Chunk` of 32 and a `Radix` of 16; statuses of 5 to 64 bytes, two
  of them exactly one and two full buffers, handshakes, and RCON replies on both
  sides of a full buffer, with lengths and versions on both sides of each
  boundary of `Radix`, in all segmentations. Letters lie above all other bytes,
  so that a shifted text is seen.
- Registry: four paths, of which two share a folder and two a name; port values
  0 to 3; three launches, the least that show a conflict with an unregistered
  thread.
- Relay: one message and one listing, beside any number of requests of other
  clients, which interleave with them at every step; `Block` 2 and a clock of 2
  seconds, so that a pause of one second and a longer one both begin and end
  within it. With a `Block` of its own the ten seconds lose nothing: the proof of
  `Paced` is for every value. Two messages at once hold as well, without the
  liveness properties (405 000 states); the proof of `ImplementsDelivery` is for
  any number.
- PermLevels: two users, who can set each other's levels, and three
  interactions (one in LevelsEqual), two of which can be of one user; levels from -1 (the option has
  no minimum) to 2, the highest that any command asks for.

`Registry` and `PermLevels` end when their bounded inputs are used up, and the
receive loop when it returns, so these runs do not check for deadlock; all
others do.

### Fairness

`MCServer!FairSpec`: the thread is scheduled and its calls return (connect and
recv on a socket whose peer is gone do); the clock runs; a server that boots,
closes or exits finishes that, or fails; one that stays up answers a status
request; a client that has connected to the proxy sends something or hangs up;
and players keep logging in. The one about connected clients is an assumption
about them, not about this code: a client that connects and stays silent keeps
the thread in `recv` (M:466) and nothing else happens. The one about answers
concerns Minecraft in the same way. No fairness
is put on faults, nor on the success of calls that may fail. `Receive`: what was
sent arrives, and a peer that is going to leave leaves.

`Relay!RelayFairSpec`: Node runs what it has to (WF of each handler's steps);
the worker's calls return (WF of `Work`; each outcome of a call needs its cause,
and a peer that is gone makes send or recv fail); a server executes what it
received (WF of `Execute`). Crow hands requests to its one worker in the order
of their arrival, so a request is not overtaken for ever: SF of `Serve`, since
the worker is busy with others in between. Nothing makes the server come up, the
web server start again, the bot stay alive, or a reply that fills the buffer
end.

## 4. What is proved

For every value of the constants that satisfies the named assumptions (types,
and that the ids differ):

- **MCServerProofs**. `TypeCorrect`. `StopsOnlyIdle` by `IdleInv`: the counted
  idle time is a lower bound of the time since players were seen, whenever the
  last count was 0 or the state says empty. `IdleStop` alone is not inductive:
  the step to `rconInit` looks at `sinceActivity`, which says something of
  `sinceSeen` only through the count and the state that survive a failed poll.
  `OneServer` and `NoSquatting` by `KnowsWorld`: what the thread, in exclusive
  surroundings, may conclude about the world from its own pc and state, for
  instance that a booting process means STARTING and that no poll is under way,
  and that the proxy's port means that nothing is active. `Implements`: each step maps to a step of
  `SupervisedServer` or to a stutter, under both invariants. `DeadEndsStay`: no
  step leaves a `DeadEnd`. It needs `StartsOffline`: a thread in the proxy or at
  the launch says OFFLINE, so that none that waits in STARTING can be there; and
  with no process up and no answer on its way, none can come. From it `DownForGood`, under `Alone` (nobody starts the server by
  hand, no restart): what `StuckBoot` and `StuckAccept` show is then final, for
  every configuration and whatever calls fail or succeed later.
- **PacketProofs**. `AddVarIntIsWire`: the recursive `addVarInt` of the code
  writes the VarInt of the protocol, which `Packet` defines digit by digit, for
  every number. From it `StringIsWire` for `addString` and `HandshakeIsWire` for
  the four calls of the handshake, and with `BuildFrames`, that `build` puts
  length and id before the body, `BuildIsWire`: what is sent is the protocol's
  status packet for every text, and its handshake for every version, address,
  port and next state. For RCON, `SerializeIsWire`. The induction over numbers is by the
  least counterexample (`LeastNumber`, `NumberInduction`), stated for subsets of
  Nat, since the provers cannot instantiate the library's induction with an
  operator; that the recursive functions have a solution at all is proved by the
  same means (`PowerDef`).
- **ReceiveProofs**. `CollectedAlways`, `MoreAlways`, `ReceiveTypeCorrect`, for
  every answer, segmentation and size. On them and on `PacketProofs` rest
  `DecodedAlways`, `BuildsAlways` and `RepliesAlways`, now for all packets of
  Minecraft and all replies of RCON, not only those of `MCReceive`: what is
  collected is a prefix of the packet, and the layout of the packet says what
  stands at the fixed offsets of a prefix.
- **RegistryProofs**. `RegistryTypeCorrect`; `PortsRegisteredOnce`, by
  `KeyedByName`: an entry's key is the name of its own path, so that two entries
  never agree on the path, and the comparison that `addServer` skips for equal
  paths is never needed. `FirstOfItsName`: an entry is the first launch of its
  name. `ThreadsShareNoPort`: while names differ every launch is in the map, and
  the map's entries do not interfere. `MapIsDirectory`: a call that adds an entry
  takes its name in `Directory`, all others stutter. That the new ports are free
  again needs `KeyedByName`: `addServer` compares with entries of other paths only.
- **RconHandlerProofs**. `LimiterPaces` by `LimiterInv` (between requests
  `nextMessageSendable` is at least the last pass plus its pause; during one,
  `curTime` is that pass) and `ErrorsMeanNotExecuted` by `CommandInv` (what a
  command can be at each call of the dialogue). `RefusedNotExecuted` alone says
  nothing of the calls in between.
- **RelayProofs**. Every step of `Relay` is one of `RconHandler` or leaves it
  alone (`RelayRefinesRcon`), so that its guarantees carry over (`RelayPaces`,
  `RelayRefuses`) with no second proof. `RelayTypeCorrect` and `RelayDelivers` rest on `Whole`: the worker serves at most one task, whose request is then
  "handling" and has not run unless `command` says so; a request that waits or
  was refused belongs to a task that has not run. `ImplementsDelivery` is proved
  step by step: arrivals post, executions run, replies tell, all else stutters.
  `RelayForgetsNone` needs besides that the worker is idle unless the web server
  serves (`WorkerServes`).
- **PermLevelsProofs**. `SetOnlyByAdmin` by `AdminInv`: the row a callback holds
  is at most the highest level its user has had meanwhile; types are inductive
  only together with it, since the target of a write must exist.
  `LevelsAreKept`.
- **ServerInfoProofs**. Every step of `ServerInfo` is one of `PermLevels` or
  leaves it alone, so that its theorems carry over (`InfoSetsByAdmin`,
  `InfoKeepsLevels`). `AddressIsKept` by `AddressInv`: what an interaction knows
  of the row was so since it arrived, and a level it holds is at most the peak.

Only model-checked: all liveness (`DownOnlyIfStuck`, `AutoStops`, `Returns`,
`Answered`, `TasksEnd`), which the prover does not handle under fairness. What
does not need fairness in three of them is proved: `DeadEndsStay` (the exception
of STARTING in `DownOnlyIfStuck` is real), `MoreAlways` and `RelayForgetsNone`
leave of `Returns` and `TasksEnd` only that what is possible happens. The
violations are counterexamples and need no proof.

## 5. What is not modelled

- The vendored Crow, Asio and nlohmann json: third-party code, and nearly all
  lines of the repository (about 200 000 of 207 000), so that what is mapped is
  a small share of the tree and most of the program's own code. What matters of
  Crow (one worker, an exception becomes status 500) is in `RconHandler`.
- `deInitialize` and `createCommand`, which nothing calls: a custom command is
  one step of `RconHandler`.
- How texts are formatted, tables laid out and replies shortened, in all
  commands. Of the row in `servers` only `exposePublicIp`: the other columns are
  texts.
- The build for anything but Windows: the project files build for Windows only,
  and `MCBackend.cpp` uses Winsock's names. The macro `closesocket` at R:13 would
  close nothing.
- That Discord drops a command's reply after three seconds: it shows as an end
  of the bot, at any moment.
- The bytes of packets within the thread: MCServer has the outcomes of decoding,
  which stand for all lengths outside the range in which the offsets are right.
- `stop` for a folder without an `rcon.password` line: the command goes to a
  socket that this call did not open, and fails like any other RCON dialogue.
- Two threads on one Minecraft: `addServer` accepts a folder twice (equal paths
  are not compared); `MCServer` models one thread.
- Players who join between the empty answer and the stop command, and a boot
  that counts as idle time: no text of the repository promises otherwise.
- "Block for 10 seconds" (M:723, 732): the pause is counted from the arrival of
  the request, with the `curTime` read before connect, so that less than ten
  seconds are left when the failure is answered. `Paced` says what holds.

## 6. Plan

Done: the modules above. Next, in this order:

1. **Two supervisors**: two `MCServer` instances over one `Minecraft` for a
   folder added twice, and a server whose namesake took its port, composed with
   `Registry`.
2. Properties where the text promises something: an empty `server-port` (M:267),
   unfilled keys (M:275).
