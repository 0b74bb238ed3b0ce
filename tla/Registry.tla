------------------------------ MODULE Registry ------------------------------
(***************************************************************************)
(* MCBackend's registry of servers: addServer with MCServerDesc::checkData *)
(* and MCServer::initWithFolder (MCBackend.cpp:180-291 and 565-605), the   *)
(* threads it launches.  What a call finds in the folder is an input of    *)
(* that call: an operator may edit server.properties between two calls.    *)
(*                                                                         *)
(* A path is what the caller writes; several paths may spell one folder,   *)
(* and filename() of different paths may be the same name ("" for every    *)
(* path that ends in a slash).                                             *)
(***************************************************************************)
EXTENDS Integers, Sequences

CONSTANTS
  Path,        \* values of MCServerDesc::serverFolder
  Folder,      \* folders on the disk
  FolderOf,    \* the folder a path leads to
  FileName,    \* serverFolder.filename(), the key in the map
  Number,      \* values of the port lines
  Absent,      \* there is no such line in server.properties
  Empty,       \* the line has no value
  Garbage,     \* what a never initialised field may hold
  MaxThreads   \* bound on the successful calls of addServer

Name == {FileName[path] : path \in Path}

ASSUME RegistryAssumption ==
  /\ FolderOf \in [Path -> Folder]
  /\ DOMAIN FileName = Path
  /\ Number \subseteq Nat
  /\ Garbage \subseteq Nat
  /\ Absent \notin Number /\ Empty \notin Number /\ Absent # Empty
  /\ MaxThreads \in Nat

VARIABLES
  servers,   \* MCBackend::servers, as a function from its keys
  launched,  \* the update threads, each with its own copy of the MCServer
  backend    \* "running", or "terminated" by an uncaught exception

vars == <<servers, launched, backend>>

Line == Number \union {Absent, Empty}

\* ready: the folder, its server.properties and its start script are all
\* there; ip: server.properties has a server-ip line, even an empty one.
Contents == [ready : BOOLEAN, ip : BOOLEAN, port : Line, rcon : Line]

\* The fields of an MCServer that addServer compares.
Server == [path : Path, port : Number \union Garbage, rconPort : Number \union Garbage]

TypeOK ==
  /\ DOMAIN servers \subseteq Name
  /\ \A name \in DOMAIN servers : servers[name] \in Server
  /\ launched \in Seq(Server)
  /\ Len(launched) <= MaxThreads
  /\ backend \in {"running", "terminated"}

Init ==
  /\ servers = << >>
  /\ launched = << >>
  /\ backend = "running"
-----------------------------------------------------------------------------
(* initWithFolder: the port lines.                                         *)

LoadedAsIs(line) == {line}  \* mutant: keeps "no such line" as the port

Loaded(line) == IF line = Absent THEN Garbage ELSE {line}

\* On "" std::stoi throws std::invalid_argument.
Unreadable(file) == Empty \in {file.port, file.rcon}

\* The MCServer objects that initWithFolder may leave behind for path.
Read(path, file) ==
  [path : {path}, port : Loaded(file.port), rconPort : Loaded(file.rcon)]

\* "... is undefined": initWithFolder returns false.
Undefined(server, file) ==
  \/ server.rconPort = 0
  \/ ~file.ip
  \/ server.port = 0
-----------------------------------------------------------------------------
(* addServer.                                                              *)

InterferesPortOnly(server) ==  \* mutant: no check of the RCON ports
  \E name \in DOMAIN servers :
    /\ servers[name].path # server.path
    /\ servers[name].port = server.port

\* The loop over the servers added so far.
Interferes(server) ==
  \E name \in DOMAIN servers :
    /\ servers[name].path # server.path
    /\ \/ servers[name].port = server.port
       \/ servers[name].rconPort = server.rconPort

KeepsNone(name) == FALSE  \* mutant: insert_or_assign

\* emplace does nothing when the map has the key already.
Keeps(name) == name \in DOMAIN servers

Emplace(name, server) ==
  servers' = [n \in DOMAIN servers \union {name} |->
                IF n # name \/ Keeps(n) THEN servers[n] ELSE server]

AddServer(path, file) ==
  \E server \in Read(path, file) :
    /\ backend = "running"
    /\ file.ready /\ ~Unreadable(file)
    /\ ~Undefined(server, file) /\ ~Interferes(server)
    /\ Len(launched) < MaxThreads
    /\ launched' = Append(launched, server)
    /\ Emplace(FileName[path], server)
    /\ UNCHANGED backend

\* false: nothing is added.
AddServerRefuses(path, file) ==
  /\ backend = "running"
  /\ \/ ~file.ready
     \/ /\ ~Unreadable(file)
        /\ \E server \in Read(path, file) : Undefined(server, file) \/ Interferes(server)
  /\ UNCHANGED vars

\* The exception of std::stoi leaves addServer and main.
AddServerThrows(file) ==
  /\ backend = "running"
  /\ file.ready
  /\ Unreadable(file)
  /\ backend' = "terminated"
  /\ UNCHANGED <<servers, launched>>

Next ==
  \E path \in Path, file \in Contents :
    AddServer(path, file) \/ AddServerRefuses(path, file) \/ AddServerThrows(file)

Spec == Init /\ [][Next]_vars
-----------------------------------------------------------------------------
(* Properties.                                                             *)

Disjoint(s, t) == s.port # t.port /\ s.rconPort # t.rconPort

\* No two servers of the map share a port or an RCON port, in whatever order
\* they were added and however their files changed: the loop of addServer.
RegisteredDisjoint ==
  \A m, n \in DOMAIN servers : m # n => Disjoint(servers[m], servers[n])

\* As long as no two threads were launched under one name, no two threads
\* share a port either: each of them is in the map that addServer consults.
NamesDiffer ==
  \A i, j \in 1 .. Len(launched) :
    i # j => FileName[launched[i].path] # FileName[launched[j].path]

DisjointUnlessNamesakes ==
  NamesDiffer =>
    \A i, j \in 1 .. Len(launched) : i # j => Disjoint(launched[i], launched[j])

\* The server of the map is the one whose thread was launched first under its
\* name, and stays it: what the REST handlers address never changes.
FirstUnderItsName ==
  \A name \in DOMAIN servers :
    \E i \in 1 .. Len(launched) :
      /\ launched[i] = servers[name]
      /\ \A j \in 1 .. i - 1 : FileName[launched[j].path] # name

Handlers ==
  INSTANCE Directory WITH entries <- servers, open <- backend = "running"

\* The map implements the directory that handleRCON and handleReadFile take it
\* for: entries never change, vanish or clash, however often a folder is added
\* again and whatever its files say by then; addServer and initWithFolder.
ImplementsDirectory == Handlers!Spec

\* The claim of the comment at MCBackend.cpp:574, "Check that the server
\* doesnt interfere with others": threads of different folders share no port.
ThreadsDisjoint ==
  \A i, j \in 1 .. Len(launched) :
    FolderOf[launched[i].path] # FolderOf[launched[j].path]
      => Disjoint(launched[i], launched[j])
=============================================================================
