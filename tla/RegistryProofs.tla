--------------------------- MODULE RegistryProofs ---------------------------
(* Proofs about Registry, for all paths, files and numbers of servers.     *)
EXTENDS Registry, TLAPS

LEMMA RegistryTypeInit == Init => TypeOK
BY RegistryAssumption DEF Init, TypeOK, Name

\* What initWithFolder leaves behind is a server of the path it was given.
LEMMA ReadIsServer ==
  ASSUME NEW path \in Path, NEW file \in Contents, ~Unreadable(file),
         NEW server \in Read(path, file)
  PROVE  server \in Server /\ server.path = path
<1>1. file.port # Empty /\ file.rcon # Empty
  BY DEF Unreadable
<1>2. Loaded(file.port) \union Loaded(file.rcon) \subseteq Number \union Garbage
  BY <1>1, RegistryAssumption DEF Loaded, Contents, Line
<1> QED
  BY <1>2 DEF Read, Server

\* One call of addServer: the map after it, entry by entry.
LEMMA EmplaceEffect ==
  ASSUME NEW name, NEW server, Emplace(name, server)
  PROVE  /\ DOMAIN servers' = DOMAIN servers \union {name}
         /\ \A n \in DOMAIN servers : servers'[n] = servers[n]
         /\ name \notin DOMAIN servers => servers'[name] = server
BY DEF Emplace, Keeps

LEMMA RegistryTypeNext == TypeOK /\ [Next]_vars => TypeOK'
<1> SUFFICES ASSUME TypeOK, [Next]_vars
             PROVE  TypeOK'
  OBVIOUS
<1>1. CASE UNCHANGED vars
  BY <1>1 DEF TypeOK, vars
<1>2. ASSUME NEW path \in Path, NEW file \in Contents, AddServer(path, file)
      PROVE  TypeOK'
  <2>1. PICK server \in Read(path, file) :
          /\ ~Unreadable(file) /\ Len(launched) < MaxThreads
          /\ launched' = Append(launched, server)
          /\ Emplace(FileName[path], server)
          /\ UNCHANGED backend
    BY <1>2 DEF AddServer
  <2>2. server \in Server
    BY <2>1, ReadIsServer
  <2>3. FileName[path] \in Name
    BY DEF Name
  <2>4. DOMAIN servers' \subseteq Name /\ \A n \in DOMAIN servers' : servers'[n] \in Server
    <3>1. /\ DOMAIN servers' = DOMAIN servers \union {FileName[path]}
          /\ \A n \in DOMAIN servers : servers'[n] = servers[n]
          /\ FileName[path] \notin DOMAIN servers => servers'[FileName[path]] = server
      BY <2>1, EmplaceEffect
    <3> QED
      BY <2>2, <2>3, <3>1 DEF TypeOK
  <2>5. launched' \in Seq(Server) /\ Len(launched') <= MaxThreads
    BY <2>1, <2>2, RegistryAssumption DEF TypeOK
  <2> QED
    BY <2>1, <2>4, <2>5 DEF TypeOK
<1>3. ASSUME NEW path \in Path, NEW file \in Contents, AddServerRefuses(path, file)
      PROVE  TypeOK'
  BY <1>3 DEF TypeOK, vars, AddServerRefuses
<1>4. ASSUME NEW file \in Contents, AddServerThrows(file)
      PROVE  TypeOK'
  BY <1>4 DEF TypeOK, AddServerThrows
<1> QED
  BY <1>1, <1>2, <1>3, <1>4 DEF Next

\* Every variable stays in its range.
THEOREM RegistryTypeCorrect == Spec => []TypeOK
BY RegistryTypeInit, RegistryTypeNext, PTL DEF Spec
-----------------------------------------------------------------------------
(* RegisteredDisjoint.  The check of addServer passes over entries with    *)
(* the path of the new server, so the proof needs that such an entry has   *)
(* the new server's key: then emplace adds nothing.                        *)

KeyedByName == \A name \in DOMAIN servers : FileName[servers[name].path] = name

RegistryInv == KeyedByName /\ RegisteredDisjoint

LEMMA RegistryInvNext == TypeOK /\ RegistryInv /\ [Next]_vars => RegistryInv'
<1> SUFFICES ASSUME TypeOK, RegistryInv, [Next]_vars
             PROVE  RegistryInv'
  OBVIOUS
<1> USE DEF RegistryInv, KeyedByName, RegisteredDisjoint
<1>1. CASE UNCHANGED servers
  BY <1>1
<1>2. ASSUME NEW path \in Path, NEW file \in Contents, AddServer(path, file)
      PROVE  RegistryInv'
  <2>1. PICK server \in Read(path, file) :
          /\ ~Unreadable(file) /\ ~Interferes(server)
          /\ Emplace(FileName[path], server)
    BY <1>2 DEF AddServer
  <2>2. server \in Server /\ server.path = path
    BY <2>1, ReadIsServer
  <2>3. CASE FileName[path] \in DOMAIN servers
    <3>0. Emplace(FileName[path], server)
      BY <2>1
    <3>1. /\ DOMAIN servers' = DOMAIN servers \union {FileName[path]}
          /\ \A n \in DOMAIN servers : servers'[n] = servers[n]
      BY <3>0, EmplaceEffect
    <3>2. DOMAIN servers' = DOMAIN servers
      BY <2>3, <3>1
    <3> QED
      BY <3>1, <3>2 DEF Disjoint
  <2>4. CASE FileName[path] \notin DOMAIN servers
    <3>1. \A n \in DOMAIN servers : servers[n].path # path
      BY <2>4
    <3>2. \A n \in DOMAIN servers : Disjoint(servers[n], server) /\ Disjoint(server, servers[n])
      BY <2>1, <2>2, <3>1 DEF Interferes, Disjoint
    <3>3. /\ DOMAIN servers' = DOMAIN servers \union {FileName[path]}
          /\ \A n \in DOMAIN servers : servers'[n] = servers[n]
          /\ servers'[FileName[path]] = server
      BY <2>1, <2>4, EmplaceEffect
    <3> QED
      BY <2>2, <3>2, <3>3
  <2> QED
    BY <2>3, <2>4
<1> QED
  BY <1>1, <1>2 DEF Next, vars, AddServerRefuses, AddServerThrows

\* No two servers of the map share a port or an RCON port.
THEOREM PortsRegisteredOnce == Spec => []RegisteredDisjoint
<1>1. Init => RegistryInv
  BY DEF Init, RegistryInv, KeyedByName, RegisteredDisjoint
<1> QED
  BY <1>1, RegistryTypeCorrect, RegistryInvNext, PTL DEF Spec, RegistryInv
-----------------------------------------------------------------------------
(* The threads.  Each name that was launched is a key, so that an entry    *)
(* that emplace adds is the first of its name.                             *)

LaunchedIsKeyed == \A i \in 1 .. Len(launched) : FileName[launched[i].path] \in DOMAIN servers

ThreadsInv == LaunchedIsKeyed /\ FirstUnderItsName /\ DisjointUnlessNamesakes

\* While no two threads share a name, the map has every one of them.
LEMMA NamedOnceIsInMap ==
  ASSUME KeyedByName, LaunchedIsKeyed, FirstUnderItsName, NamesDiffer,
         NEW i \in 1 .. Len(launched)
  PROVE  \E n \in DOMAIN servers : n = FileName[launched[i].path] /\ servers[n] = launched[i]
<1> DEFINE n == FileName[launched[i].path]
<1>1. n \in DOMAIN servers
  BY DEF LaunchedIsKeyed
<1>2. PICK k \in 1 .. Len(launched) : launched[k] = servers[n]
  BY <1>1, Zenon DEF FirstUnderItsName
<1>3. FileName[launched[k].path] = n
  BY <1>1, <1>2 DEF KeyedByName
<1>4. k = i
  BY <1>3 DEF NamesDiffer
<1> QED
  BY <1>1, <1>2, <1>4

LEMMA ThreadsInvNext ==
  TypeOK /\ RegistryInv /\ ThreadsInv /\ [Next]_vars => ThreadsInv'
<1> SUFFICES ASSUME TypeOK, RegistryInv, ThreadsInv, [Next]_vars
             PROVE  ThreadsInv'
  OBVIOUS
<1>1. CASE UNCHANGED <<servers, launched>>
  BY <1>1 DEF ThreadsInv, LaunchedIsKeyed, FirstUnderItsName, DisjointUnlessNamesakes, NamesDiffer
<1>2. ASSUME NEW path \in Path, NEW file \in Contents, AddServer(path, file)
      PROVE  ThreadsInv'
  <2> DEFINE name == FileName[path]
             new == Len(launched) + 1
  <2>1. PICK server \in Read(path, file) :
          /\ ~Unreadable(file) /\ ~Interferes(server)
          /\ launched' = Append(launched, server)
          /\ Emplace(name, server)
    BY <1>2 DEF AddServer
  <2>2. server \in Server /\ server.path = path
    BY <2>1, ReadIsServer
  <2>3. /\ DOMAIN servers' = DOMAIN servers \union {name}
        /\ \A n \in DOMAIN servers : servers'[n] = servers[n]
        /\ name \notin DOMAIN servers => servers'[name] = server
    BY <2>1, EmplaceEffect
  <2>4. /\ Len(launched) \in Nat
        /\ Len(launched') = new
        /\ launched'[new] = server
        /\ \A i \in 1 .. Len(launched) : launched'[i] = launched[i]
    BY <2>1, <2>2 DEF TypeOK
  <2>5. LaunchedIsKeyed'
    BY <2>2, <2>3, <2>4 DEF ThreadsInv, LaunchedIsKeyed
  <2>6. FirstUnderItsName'
    <3>1. ASSUME NEW n \in DOMAIN servers
          PROVE  \E i \in 1 .. Len(launched') :
                   /\ launched'[i] = servers'[n]
                   /\ \A j \in 1 .. i - 1 : FileName[launched'[j].path] # n
      <4>1. PICK i \in 1 .. Len(launched) :
              launched[i] = servers[n] /\ \A j \in 1 .. i - 1 : FileName[launched[j].path] # n
        BY DEF ThreadsInv, FirstUnderItsName
      <4> QED
        BY <2>3, <2>4, <4>1
    <3>2. name \notin DOMAIN servers =>
            \A j \in 1 .. new - 1 : FileName[launched'[j].path] # name
      BY <2>4 DEF ThreadsInv, LaunchedIsKeyed
    <3>3. new \in 1 .. Len(launched')
      BY <2>4
    <3> QED
      BY <2>3, <2>4, <3>1, <3>2, <3>3 DEF FirstUnderItsName
  <2>7. DisjointUnlessNamesakes'
    <3> SUFFICES ASSUME NamesDiffer'
                 PROVE  \A i, j \in 1 .. Len(launched') :
                          i # j => Disjoint(launched'[i], launched'[j])
      BY DEF DisjointUnlessNamesakes, Disjoint
    <3>1. NamesDiffer
      BY <2>4 DEF NamesDiffer
    <3>2. ASSUME NEW i \in 1 .. Len(launched)
          PROVE  Disjoint(launched[i], server) /\ Disjoint(server, launched[i])
      <4>1. PICK n \in DOMAIN servers : n = FileName[launched[i].path] /\ servers[n] = launched[i]
        BY <3>1, NamedOnceIsInMap DEF RegistryInv, ThreadsInv
      <4>2. FileName[launched[i].path] # FileName[server.path]
        BY <2>4 DEF NamesDiffer
      <4> QED
        BY <2>1, <2>2, <4>1, <4>2 DEF Interferes, Disjoint
    <3>3. \A i, j \in 1 .. Len(launched) : i # j => Disjoint(launched[i], launched[j])
      BY <3>1 DEF ThreadsInv, DisjointUnlessNamesakes
    <3> QED
      BY <2>4, <3>2, <3>3
  <2> QED
    BY <2>5, <2>6, <2>7 DEF ThreadsInv
<1> QED
  BY <1>1, <1>2 DEF Next, vars, AddServerRefuses, AddServerThrows

LEMMA ThreadsInvariant == Spec => []ThreadsInv
<1>1. Init => RegistryInv /\ ThreadsInv
  BY DEF Init, RegistryInv, KeyedByName, RegisteredDisjoint, ThreadsInv, LaunchedIsKeyed,
         FirstUnderItsName, DisjointUnlessNamesakes
<1> QED
  BY <1>1, RegistryTypeCorrect, RegistryInvNext, ThreadsInvNext, PTL DEF Spec

\* The map's entry of a name is the first thread launched under it.
THEOREM FirstOfItsName == Spec => []FirstUnderItsName
BY ThreadsInvariant, PTL DEF ThreadsInv

\* Threads with different names share no port, whatever the map is asked.
THEOREM ThreadsShareNoPort == Spec => []DisjointUnlessNamesakes
BY ThreadsInvariant, PTL DEF ThreadsInv
-----------------------------------------------------------------------------
(* The refinement of Directory.  The call that adds an entry finds no      *)
(* entry of its path, which would have its key, so that the comparison     *)
(* that the code skips for equal paths skips nothing.                      *)

MapIsFunction == servers = [n \in DOMAIN servers |-> servers[n]]

LEMMA MapIsFunctionNext == MapIsFunction /\ [Next]_vars => MapIsFunction'
BY DEF MapIsFunction, Next, vars, AddServer, AddServerRefuses, AddServerThrows, Emplace

LEMMA AddIsTake ==
  ASSUME TypeOK, MapIsFunction, KeyedByName, NEW path \in Path, NEW file \in Contents, AddServer(path, file)
  PROVE  [Handlers!Next]_Handlers!vars
<1> DEFINE name == FileName[path]
<1>1. PICK server \in Read(path, file) :
        /\ backend = "running" /\ UNCHANGED backend
        /\ ~Unreadable(file) /\ ~Undefined(server, file) /\ ~Interferes(server)
        /\ Emplace(name, server)
  BY DEF AddServer
<1>2. server \in Server /\ server.path = path
  BY <1>1, ReadIsServer
<1>3. name \in Name
  BY DEF Name
<1>4. CASE name \in DOMAIN servers
  <2>1. servers' = [n \in DOMAIN servers |-> servers[n]]
    BY <1>1, <1>4 DEF Emplace, Keeps
  <2>2. servers' = servers
    BY <2>1 DEF MapIsFunction
  <2> QED
    BY <1>1, <2>2 DEF Handlers!vars
<1>5. CASE name \notin DOMAIN servers
  <2>1. Handlers!Free(server)
    BY <1>1, <1>2, <1>5 DEF KeyedByName, Interferes, Handlers!Free
  <2>2. /\ DOMAIN servers' = DOMAIN servers \union {name}
        /\ \A n \in DOMAIN servers : servers'[n] = servers[n]
        /\ servers'[name] = server
    BY <1>1, <1>5, EmplaceEffect
  <2>3. Handlers!Take(name)
    BY <1>1, <1>5, <2>1, <2>2 DEF Undefined, Handlers!Take
  <2> QED
    BY <1>3, <2>3 DEF Handlers!Next
<1> QED
  BY <1>4, <1>5

LEMMA StepIsDirectory ==
  ASSUME TypeOK, MapIsFunction, KeyedByName, [Next]_vars
  PROVE  [Handlers!Next]_Handlers!vars
<1>1. CASE UNCHANGED vars
  BY <1>1 DEF vars, Handlers!vars
<1>2. ASSUME NEW path \in Path, NEW file \in Contents, AddServer(path, file)
      PROVE  [Handlers!Next]_Handlers!vars
  BY <1>2, AddIsTake
<1>3. ASSUME NEW path \in Path, NEW file \in Contents, AddServerRefuses(path, file)
      PROVE  [Handlers!Next]_Handlers!vars
  BY <1>3 DEF AddServerRefuses, vars, Handlers!vars
<1>4. ASSUME NEW file \in Contents, AddServerThrows(file)
      PROVE  [Handlers!Next]_Handlers!vars
  BY <1>4 DEF AddServerThrows, Handlers!Next, Handlers!Close
<1> QED
  BY <1>1, <1>2, <1>3, <1>4 DEF Next

\* The map is a directory in which a name, once taken, leads to the same
\* server for good, with usable ports of its own.
THEOREM MapIsDirectory == Spec => ImplementsDirectory
<1>1. Init => RegistryInv /\ MapIsFunction /\ Handlers!Init
  BY DEF Init, RegistryInv, MapIsFunction, KeyedByName, RegisteredDisjoint, Handlers!Init
<1>2. TypeOK /\ MapIsFunction /\ RegistryInv /\ [Next]_vars => [Handlers!Next]_Handlers!vars
  BY StepIsDirectory DEF RegistryInv
<1> QED
  BY <1>1, <1>2, RegistryTypeCorrect, RegistryInvNext, MapIsFunctionNext, PTL
     DEF Spec, ImplementsDirectory, Handlers!Spec
=============================================================================
