------------------------- MODULE UnixFdServerProofs -------------------------
(***************************************************************************)
(* Proofs about the descriptor servers of a publisher, for any number of   *)
(* servers, pools and clients: what a worker sends is open, a pool that is *)
(* gone leaves nothing, and only a server that is being stopped answers a  *)
(* client of another.                                                      *)
(***************************************************************************)
EXTENDS UnixFdServer, TLAPS, FunctionTheorems, FiniteSetTheorems, WellFoundedInduction

----------------------------------------------------------------------------
(***************************************************************************)
(* A fact about numbers.                                                   *)
(***************************************************************************)

\* A set of natural numbers that is not empty has a least element.
LEMMA LeastNatural ==
  ASSUME NEW S \in SUBSET Nat, S # {}
  PROVE  \E m \in S : \A k \in S : m <= k
<1>1. IsWellFoundedOn(OpToRel(<, Nat), Nat)
  BY NatLessThanWellFounded
<1>2. PICK m \in S : \A k \in S : ~(<<k, m>> \in OpToRel(<, Nat))
  BY <1>1, WFMin
<1>3. ASSUME NEW k \in S PROVE m <= k
  <2>1. k \in Nat /\ m \in Nat
    OBVIOUS
  <2>2. ~(k < m)
    <3>1. <<k, m>> \in Nat \X Nat
      BY <2>1
    <3>2. <<k, m>>[1] = k /\ <<k, m>>[2] = m
      OBVIOUS
    <3>3. ~(<<k, m>>[1] < <<k, m>>[2])
      BY <1>2, <3>1, Zenon DEF OpToRel
    <3> QED BY <3>2, <3>3
  <2> QED BY <2>1, <2>2
<1> QED BY <1>3

----------------------------------------------------------------------------

Building == {"new", "exported"}                              \* no server yet
Listed   == {"started", "flagged", "shut"}                   \* its number is open
Serving  == Listed \cup {"closed", "joining"}                \* the worker may run
Owners   == Building \cup Serving \cup {"stopped", "unshared", "gone"}

Types ==
  /\ DOMAIN mode \in Layouts
  /\ owner \in [Servers -> Owners]
  /\ vmm \in [Servers -> SUBSET Objects]
  /\ running \in [Servers -> BOOLEAN]
  /\ paths \subseteq Servers /\ fds \subseteq Servers
  /\ listen_fd \in [Servers -> Numbers \cup {NoNumber}]
  /\ table \in [Numbers -> Servers \cup {NoServer}]
  /\ worker \in [Servers -> {"none", "test", "read", "enter", "wait", "serve", "exited"}]
  /\ number \in [Servers -> Numbers \cup {NoNumber}]
  /\ target \in [Servers -> Servers \cup {NoServer}]
  /\ client \in [Servers -> Clients \cup {NoClient}]
  /\ state \in [Clients -> {"idle", "queued", "accepted", "served", "failed", "dead"}]
  /\ wanted \in [Clients -> Servers \cup {NoServer}]
  /\ got \in [Clients -> Servers \cup {NoServer}]

\* What a block has, by where its owner is.
OwnerOf(s) ==
  /\ owner[s] \in {"exported"} \cup Serving => s \in fds /\ vmm[s] = Objects
  /\ owner[s] \in {"new", "unshared", "gone"} => s \notin fds
  /\ owner[s] \in {"new", "gone"} => vmm[s] = {}
  /\ owner[s] \notin Serving => s \notin paths /\ worker[s] \in {"none", "exited"}
  /\ running[s] <=> owner[s] = "started"

\* The numbers in use and the servers that listen are in one-to-one
\* correspondence.
NumberOf(s) ==
  owner[s] \in Listed => listen_fd[s] \in Numbers /\ table[listen_fd[s]] = s

TableIsListed ==
  \A n \in Numbers : \A s \in Servers :
    table[n] = s => owner[s] \in Listed /\ listen_fd[s] = n

\* The worker of a server that is not being stopped deals with its own socket.
WorkerOf(s) ==
  owner[s] = "started" =>
    /\ worker[s] = "enter" => number[s] = listen_fd[s]
    /\ worker[s] = "wait" => target[s] = s
    /\ worker[s] = "serve" /\ state[client[s]] = "accepted" => wanted[client[s]] = s

\* The connection a worker serves has been accepted, if it still exists.
ServedOf(s) ==
  worker[s] = "serve" => client[s] \in Clients /\ state[client[s]] \notin {"idle", "queued"}

\* A client has its descriptor from a server that had been started.
GotOf(c) ==
  got[c] # NoServer =>
    /\ state[c] = "served" /\ owner[got[c]] \notin Building
    /\ owner[got[c]] = "started" => got[c] = wanted[c]

IInv == /\ Types /\ TableIsListed
        /\ \A s \in Servers : OwnerOf(s) /\ NumberOf(s) /\ WorkerOf(s) /\ ServedOf(s)
        /\ \A c \in Clients : GotOf(c)

ServerInv == \A s \in Servers : OwnerOf(s)
Numbering == TableIsListed /\ \A s \in Servers : NumberOf(s)
Traffic   == /\ \A s \in Servers : WorkerOf(s) /\ ServedOf(s)
             /\ \A c \in Clients : GotOf(c)

----------------------------------------------------------------------------
(***************************************************************************)
(* Descriptor numbers.                                                     *)
(***************************************************************************)

FreeNumbers == {m \in Numbers : table[m] = NoServer}

\* There is a number for every server: one that has none yet finds one free.
LEMMA NumberIsFree ==
  ASSUME Types, Numbering, NEW s \in Servers, owner[s] \notin Listed
  PROVE  Min(FreeNumbers) \in FreeNumbers
<1>1. FreeNumbers # {}
  <2> SUFFICES ASSUME FreeNumbers = {} PROVE FALSE
    OBVIOUS
  <2>1. table \in [Numbers -> Servers \ {s}]
    <3>1. \A n \in Numbers : table[n] \in Servers /\ table[n] # s
      BY DEF FreeNumbers, Types, Numbering, TableIsListed
    <3> QED BY <3>1 DEF Types
  <2>2. \A m, n \in Numbers : table[m] = table[n] => m = n
    <3>1. \A n \in Numbers : listen_fd[table[n]] = n
      BY <2>1 DEF Numbering, TableIsListed
    <3> QED BY <3>1
  <2>3. table \in Injection(Numbers, Servers \ {s})
    BY <2>1, <2>2, Fun_IsInj
  <2>4. /\ IsFiniteSet(Servers \ {s})
        /\ Cardinality(Servers \ {s}) = Cardinality(Servers) - 1
        /\ Cardinality(Servers) \in Nat
    BY ServerAssumption, FS_RemoveElement, FS_CardinalityType
  <2>5. Cardinality(Numbers) <= Cardinality(Servers \ {s})
    BY <2>3, <2>4, FS_Injection
  <2>6. Cardinality(Numbers) = Cardinality(Servers)
    <3>1. Cardinality(1..Cardinality(Servers)) =
            IF 1 > Cardinality(Servers) THEN 0 ELSE Cardinality(Servers) - 1 + 1
      BY <2>4, FS_Interval
    <3> QED BY <2>4, <3>1 DEF Numbers
  <2> QED BY <2>4, <2>5, <2>6
<1>2. FreeNumbers \in SUBSET Nat
  BY ServerAssumption, FS_CardinalityType DEF FreeNumbers, Numbers
<1>3. PICK m \in FreeNumbers : \A k \in FreeNumbers : m <= k
  BY <1>1, <1>2, LeastNatural
<1>4. Min(FreeNumbers) = CHOOSE x \in FreeNumbers : \A y \in FreeNumbers : x <= y
  BY DEF Min
<1> QED BY <1>3, <1>4

\* A step that opens and closes no number keeps the numbering.
LEMMA NumbersFrame ==
  ASSUME Numbering, table' = table,
         \A u \in Servers : /\ owner'[u] \in Listed <=> owner[u] \in Listed
                            /\ owner[u] \in Listed => listen_fd'[u] = listen_fd[u]
  PROVE  Numbering'
<1>1. TableIsListed'
  BY DEF Numbering, TableIsListed
<1>2. ASSUME NEW u \in Servers PROVE NumberOf(u)'
  BY DEF Numbering, NumberOf
<1> QED BY <1>1, <1>2 DEF Numbering

----------------------------------------------------------------------------
(***************************************************************************)
(* Steps of the threads that build and destroy pools.                      *)
(***************************************************************************)

\* A step that does not concern server u keeps what its block has.
LEMMA OwnerFrame ==
  ASSUME NEW u \in Servers, OwnerOf(u), owner'[u] = owner[u], vmm'[u] = vmm[u],
         running'[u] = running[u], u \in fds' <=> u \in fds, u \in paths' <=> u \in paths,
         worker[u] \in {"none", "exited"} => worker'[u] \in {"none", "exited"}
  PROVE  OwnerOf(u)'
BY DEF OwnerOf

\* A step of the owner of s does not disturb what workers and clients are at.
LEMMA TrafficFrame ==
  ASSUME Types, Traffic, NEW s \in Servers,
         \A u \in Servers \ {s} : /\ owner'[u] = owner[u] /\ worker'[u] = worker[u]
                                  /\ listen_fd'[u] = listen_fd[u],
         UNCHANGED <<number, target, client, state, wanted, got>>,
         worker'[s] = worker[s] \/ worker'[s] = "test",
         owner'[s] \in Building => owner[s] \in Building,
         owner'[s] = "started" => worker'[s] = "test" /\ owner[s] \in Building
  PROVE  Traffic'
<1>1. \A u \in Servers \ {s} : WorkerOf(u)' /\ ServedOf(u)'
  BY DEF Traffic, WorkerOf, ServedOf
<1>2. WorkerOf(s)' /\ ServedOf(s)'
  BY DEF Traffic, WorkerOf, ServedOf
<1>3. ASSUME NEW c \in Clients PROVE GotOf(c)'
  <2>1. got[c] # NoServer => got[c] \in Servers
    BY DEF Types
  <2> QED BY <2>1 DEF Traffic, GotOf
<1> QED BY <1>1, <1>2, <1>3 DEF Traffic

Build(s) == Export(s) \/ ExportFails(s) \/ Start(s) \/ StartFails(s)

\* Building a block, and failing to.
LEMMA BuildTypes ==
  ASSUME Types, Numbering, NEW s \in Servers, Build(s)
  PROVE  Types'
<1> USE DEF Building, Listed, Serving, Owners
<1>1. CASE Export(s)
  BY <1>1 DEF Export, Types, kernelVars, workerVars, clientVars
<1>2. CASE ExportFails(s)
  <2>1. PICK made \in SUBSET Objects : vmm' = [vmm EXCEPT ![s] = made]
    BY <1>2 DEF ExportFails, Objects
  <2>2. DOMAIN mode' = DOMAIN mode
    BY <1>2 DEF ExportFails
  <2> QED BY <1>2, <2>1, <2>2 DEF ExportFails, Types, kernelVars, workerVars, clientVars
<1>3. CASE Start(s)
  <2>1. PICK n \in Numbers : /\ table' = [table EXCEPT ![n] = s]
                             /\ listen_fd' = [listen_fd EXCEPT ![s] = n]
    BY <1>3, NumberIsFree DEF Start, FreeNumbers
  <2>2. DOMAIN mode' = DOMAIN mode
    BY <1>3 DEF Start
  <2> QED BY <1>3, <2>1, <2>2 DEF Start, Types, clientVars
<1>4. CASE StartFails(s)
  <2>1. DOMAIN mode' = DOMAIN mode
    BY <1>4 DEF StartFails
  <2> QED BY <1>4, <2>1 DEF StartFails, Types, kernelVars, workerVars, clientVars
<1> QED BY <1>1, <1>2, <1>3, <1>4 DEF Build

\* Destroying a block.
LEMMA StopTypes ==
  ASSUME Types, NEW s \in Servers, Stop(s)
  PROVE  Types'
<1> USE DEF Building, Listed, Serving, Owners, Advance, kernelVars, workerVars, clientVars
<1>1. CASE StopFlag(s)
  BY <1>1 DEF StopFlag, Types
<1>2. CASE StopShutdown(s)
  BY <1>2 DEF StopShutdown, Types
<1>3. CASE StopClose(s)
  BY <1>3 DEF StopClose, Types
<1>4. CASE StopForget(s)
  BY <1>4 DEF StopForget, Types
<1>5. CASE StopJoin(s)
  BY <1>5 DEF StopJoin, Types
<1>6. CASE CloseShareable(s)
  BY <1>6 DEF CloseShareable, Types
<1>7. CASE ReleaseMemory(s)
  BY <1>7 DEF ReleaseMemory, Types
<1> QED BY <1>1, <1>2, <1>3, <1>4, <1>5, <1>6, <1>7 DEF Stop

\* What the other servers have stays; what s has follows its owner.
LEMMA OwnerStep ==
  ASSUME Types, ServerInv, NEW s \in Servers, Build(s) \/ Stop(s)
  PROVE  ServerInv'
<1>1. ASSUME NEW u \in Servers \ {s} PROVE OwnerOf(u)'
  <2>1. /\ owner'[u] = owner[u] /\ vmm'[u] = vmm[u] /\ running'[u] = running[u]
        /\ worker'[u] = worker[u]
    BY DEF Types, Build, Stop, Export, ExportFails, Start, StartFails, Advance, StopFlag,
       StopShutdown, StopClose, StopForget, StopJoin, CloseShareable, ReleaseMemory, workerVars
  <2>2. (u \in fds' <=> u \in fds) /\ (u \in paths' <=> u \in paths)
    BY DEF Types, Build, Stop, Export, ExportFails, Start, StartFails, Advance, StopFlag,
       StopShutdown, StopClose, StopForget, StopJoin, CloseShareable, ReleaseMemory
  <2> QED BY <2>1, <2>2, OwnerFrame DEF ServerInv
<1>2. OwnerOf(s)'
  <2>0. OwnerOf(s)
    BY DEF ServerInv
  <2> USE DEF Building, Listed, Serving, Owners, Advance, kernelVars, workerVars
  <2>1. CASE Export(s)
    BY <2>0, <2>1 DEF Export, Types, OwnerOf
  <2>2. CASE ExportFails(s)
    BY <2>0, <2>2 DEF ExportFails, Types, OwnerOf
  <2>3. CASE Start(s)
    BY <2>0, <2>3 DEF Start, Types, OwnerOf
  <2>4. CASE StartFails(s)
    BY <2>0, <2>4 DEF StartFails, Types, OwnerOf
  <2>5. CASE StopFlag(s)
    BY <2>0, <2>5 DEF StopFlag, Types, OwnerOf
  <2>6. CASE StopShutdown(s) \/ StopClose(s) \/ StopForget(s)
    BY <2>0, <2>6 DEF StopShutdown, StopClose, StopForget, Types, OwnerOf
  <2>7. CASE StopJoin(s)
    BY <2>0, <2>7 DEF StopJoin, Types, OwnerOf
  <2>8. CASE CloseShareable(s)
    BY <2>0, <2>8 DEF CloseShareable, Types, OwnerOf
  <2>9. CASE ReleaseMemory(s)
    BY <2>0, <2>9 DEF ReleaseMemory, Types, OwnerOf
  <2> QED BY <2>1, <2>2, <2>3, <2>4, <2>5, <2>6, <2>7, <2>8, <2>9 DEF Build, Stop
<1> QED BY <1>1, <1>2 DEF ServerInv

\* A number is given to one server, and taken back when that server is stopped.
LEMMA NumberingStep ==
  ASSUME Types, Numbering, NEW s \in Servers, Build(s) \/ Stop(s)
  PROVE  Numbering'
<1>o. \A u \in Servers \ {s} : owner'[u] = owner[u] /\ listen_fd'[u] = listen_fd[u]
  BY DEF Types, Build, Stop, Export, ExportFails, Start, StartFails, Advance, StopFlag,
     StopShutdown, StopClose, StopForget, StopJoin, CloseShareable, ReleaseMemory
<1>1. CASE Start(s)
  <2>0. owner[s] = "exported" /\ owner'[s] = "started"
    BY <1>1 DEF Start, Types
  <2>1. PICK n \in FreeNumbers : /\ table' = [table EXCEPT ![n] = s]
                                 /\ listen_fd' = [listen_fd EXCEPT ![s] = n]
    BY <1>1, <2>0, NumberIsFree DEF Start, FreeNumbers, Listed
  <2>2. /\ n \in Numbers /\ table[n] = NoServer /\ table'[n] = s /\ listen_fd'[s] = n
        /\ \A m \in Numbers \ {n} : table'[m] = table[m]
    BY <2>1 DEF FreeNumbers, Types
  <2>3. \A m \in Numbers : table[m] # s
    BY <2>0 DEF Numbering, TableIsListed, Listed
  <2>4. TableIsListed'
    BY <1>o, <2>0, <2>2, <2>3 DEF Numbering, TableIsListed, Listed
  <2>5. NumberOf(s)'
    BY <2>2 DEF NumberOf
  <2>6. ASSUME NEW u \in Servers \ {s} PROVE NumberOf(u)'
    <3>1. owner[u] \in Listed => listen_fd[u] # n
      BY <2>2, ServerAssumption DEF Numbering, NumberOf
    <3> QED BY <1>o, <2>2, <3>1 DEF Numbering, NumberOf
  <2> QED BY <2>4, <2>5, <2>6 DEF Numbering
<1>2. CASE StopClose(s)
  <2>0. owner[s] = "shut" /\ owner'[s] = "closed"
    BY <1>2 DEF StopClose, Advance, Types
  <2>1. PICK n \in Numbers : n = listen_fd[s] /\ table[n] = s
    BY <2>0 DEF Numbering, NumberOf, Listed
  <2>2. table'[n] = NoServer /\ \A m \in Numbers \ {n} : table'[m] = table[m]
    BY <1>2, <2>1 DEF StopClose, Types
  <2>3. \A m \in Numbers \ {n} : table[m] # s
    BY <2>1 DEF Numbering, TableIsListed
  <2>4. TableIsListed'
    BY <1>o, <2>2, <2>3, ServerAssumption DEF Numbering, TableIsListed
  <2>5. NumberOf(s)'
    BY <2>0 DEF NumberOf, Listed
  <2>6. ASSUME NEW u \in Servers \ {s} PROVE NumberOf(u)'
    <3>1. owner[u] \in Listed => listen_fd[u] # n
      BY <2>1 DEF Numbering, NumberOf
    <3> QED BY <1>o, <2>2, <3>1 DEF Numbering, NumberOf
  <2> QED BY <2>4, <2>5, <2>6 DEF Numbering
<1>3. CASE Export(s) \/ ExportFails(s) \/ StartFails(s)
  <2>1. table' = table /\ owner[s] \notin Listed /\ owner'[s] \notin Listed
    BY <1>3 DEF Export, ExportFails, StartFails, Types, Listed, kernelVars
  <2> QED BY <1>o, <2>1, NumbersFrame
<1>4. CASE StopFlag(s) \/ StopShutdown(s)
  <2>1. table' = table /\ listen_fd' = listen_fd /\ owner[s] \in Listed /\ owner'[s] \in Listed
    BY <1>4 DEF StopFlag, StopShutdown, Advance, Types, Listed, kernelVars
  <2> QED BY <1>o, <2>1, NumbersFrame
<1>5. CASE StopForget(s) \/ StopJoin(s) \/ CloseShareable(s) \/ ReleaseMemory(s)
  <2>1. table' = table /\ owner[s] \notin Listed /\ owner'[s] \notin Listed
    BY <1>5 DEF StopForget, StopJoin, CloseShareable, ReleaseMemory, Advance, Types, Listed,
       kernelVars
  <2> QED BY <1>o, <2>1, NumbersFrame
<1> QED BY <1>1, <1>2, <1>3, <1>4, <1>5 DEF Build, Stop

\* Building and stopping leave workers and clients where they are.
LEMMA TrafficOwnerStep ==
  ASSUME Types, Traffic, NEW s \in Servers, Build(s) \/ Stop(s)
  PROVE  Traffic'
<1>1. \A u \in Servers \ {s} : /\ owner'[u] = owner[u] /\ worker'[u] = worker[u]
                               /\ listen_fd'[u] = listen_fd[u]
  BY DEF Types, Build, Stop, Export, ExportFails, Start, StartFails, Advance, StopFlag,
     StopShutdown, StopClose, StopForget, StopJoin, CloseShareable, ReleaseMemory, workerVars
<1>2. UNCHANGED <<number, target, client, state, wanted, got>>
  BY DEF Build, Stop, Export, ExportFails, Start, StartFails, Advance, StopFlag,
     StopShutdown, StopClose, StopForget, StopJoin, CloseShareable, ReleaseMemory, workerVars,
     clientVars
<1>3. /\ worker'[s] = worker[s] \/ worker'[s] = "test"
      /\ owner'[s] \in Building => owner[s] \in Building
      /\ owner'[s] = "started" => worker'[s] = "test" /\ owner[s] \in Building
  BY DEF Types, Building, Build, Stop, Export, ExportFails, Start, StartFails, Advance, StopFlag,
     StopShutdown, StopClose, StopForget, StopJoin, CloseShareable, ReleaseMemory, workerVars
<1> QED BY <1>1, <1>2, <1>3, TrafficFrame

----------------------------------------------------------------------------
(***************************************************************************)
(* Steps of the workers, the clients and the kernel.                       *)
(***************************************************************************)

\* Steps that are not the owner's keep blocks and numbers as they are.
LEMMA BlocksFrame ==
  ASSUME ServerInv, Numbering,
         UNCHANGED <<owner, vmm, running, listen_fd, paths, fds, table>>,
         \A u \in Servers : worker[u] \in {"none", "exited"} => worker'[u] \in {"none", "exited"}
  PROVE  ServerInv' /\ Numbering'
<1>1. ServerInv'
  BY OwnerFrame DEF ServerInv
<1>2. Numbering'
  BY NumbersFrame
<1> QED BY <1>1, <1>2

\* A client that a step does not concern keeps what it got.
LEMMA GotFrame ==
  ASSUME NEW c \in Clients, GotOf(c), owner' = owner, got'[c] = got[c],
         state[c] = "served" => state'[c] = "served" /\ wanted'[c] = wanted[c]
  PROVE  GotOf(c)'
BY DEF GotOf

\* A step that a worker takes before it has a connection.
LEMMA WorkerMoves ==
  ASSUME Types, ServerInv, Numbering, Traffic, NEW s \in Servers,
         TestRunning(s) \/ ReadListenFd(s) \/ EnterAccept(s) \/ AcceptWoken(s) \/ AcceptFails(s)
  PROVE  Types' /\ ServerInv' /\ Numbering' /\ Traffic'
<1>1. UNCHANGED <<ownerVars, kernelVars, client, clientVars>>
  BY DEF TestRunning, ReadListenFd, EnterAccept, AcceptWoken, AcceptFails, LeaveAccept
<1>2. /\ worker[s] \in {"test", "read", "enter", "wait"}
      /\ worker'[s] \in {"test", "read", "enter", "wait", "exited"}
      /\ \A u \in Servers \ {s} : /\ worker'[u] = worker[u] /\ number'[u] = number[u]
                                  /\ target'[u] = target[u]
      /\ worker' \in [Servers -> {"none", "test", "read", "enter", "wait", "serve", "exited"}]
  BY DEF Types, TestRunning, ReadListenFd, EnterAccept, AcceptWoken, AcceptFails, LeaveAccept, Goto
<1>3. /\ number' \in [Servers -> Numbers \cup {NoNumber}]
      /\ target' \in [Servers -> Servers \cup {NoServer}]
  BY DEF Types, TestRunning, ReadListenFd, EnterAccept, AcceptWoken, AcceptFails, LeaveAccept
<1>4. Types'
  BY <1>1, <1>2, <1>3 DEF Types, ownerVars, kernelVars, clientVars
<1>5. ServerInv' /\ Numbering'
  BY <1>1, <1>2, BlocksFrame DEF ownerVars, kernelVars
<1>6. WorkerOf(s)' /\ ServedOf(s)'
  <2>1. /\ worker'[s] = "enter" => number'[s] = listen_fd[s]
        /\ worker'[s] = "wait" => worker[s] = "enter" /\ target'[s] = table[number[s]]
    BY DEF Types, TestRunning, ReadListenFd, EnterAccept, AcceptWoken, AcceptFails, LeaveAccept, Goto
  <2>2. owner[s] = "started" /\ worker[s] = "enter" => table[number[s]] = s
    BY DEF Traffic, WorkerOf, Numbering, NumberOf, Listed
  <2> QED BY <1>1, <1>2, <2>1, <2>2 DEF WorkerOf, ServedOf, ownerVars
<1>7. \A u \in Servers \ {s} : WorkerOf(u)' /\ ServedOf(u)'
  BY <1>1, <1>2 DEF Traffic, WorkerOf, ServedOf, ownerVars, clientVars
<1>8. \A c \in Clients : GotOf(c)'
  BY <1>1 DEF Traffic, GotOf, ownerVars, clientVars
<1> QED BY <1>4, <1>5, <1>6, <1>7, <1>8 DEF Traffic

\* accept() returns a connection: on a server that is not being stopped, one of
\* its own.
LEMMA AcceptStep ==
  ASSUME Types, ServerInv, Numbering, Traffic, NEW s \in Servers, NEW c \in Clients,
         AcceptClient(s, c)
  PROVE  Types' /\ ServerInv' /\ Numbering' /\ Traffic'
<1>1. /\ UNCHANGED <<ownerVars, kernelVars, number, got>>
      /\ worker[s] = "wait" /\ state[c] \in {"queued", "dead"} /\ wanted[c] = target[s]
  BY DEF AcceptClient, Backlog
<1>2. /\ worker'[s] = "serve" /\ client'[s] = c
      /\ \A u \in Servers \ {s} : /\ worker'[u] = worker[u] /\ client'[u] = client[u]
                                  /\ target'[u] = target[u]
      /\ state'[c] = (IF state[c] = "dead" THEN "dead" ELSE "accepted")
      /\ wanted'[c] = (IF state[c] = "dead" THEN NoServer ELSE wanted[c])
      /\ \A d \in Clients \ {c} : state'[d] = state[d] /\ wanted'[d] = wanted[d]
  BY DEF Types, AcceptClient, Goto
<1>3. Types'
  BY <1>1 DEF Types, AcceptClient, Goto, ownerVars, kernelVars
<1>4. ServerInv' /\ Numbering'
  BY <1>1, <1>2, BlocksFrame DEF ownerVars, kernelVars
<1>5. WorkerOf(s)'
  <2>1. owner[s] = "started" => wanted[c] = s
    BY <1>1 DEF Traffic, WorkerOf
  <2> QED BY <1>1, <1>2, <2>1 DEF WorkerOf, ownerVars
<1>6. ServedOf(s)'
  BY <1>2 DEF ServedOf
<1>7. ASSUME NEW u \in Servers \ {s} PROVE WorkerOf(u)' /\ ServedOf(u)'
  <2>0. WorkerOf(u) /\ ServedOf(u)
    BY DEF Traffic
  <2>1. worker[u] = "serve" => client[u] \in Clients /\ state[client[u]] \notin {"idle", "queued"}
    BY <2>0 DEF ServedOf
  <2>2. worker[u] = "serve" =>
          /\ state'[client[u]] = state[client[u]]
          /\ state[client[u]] = "accepted" => wanted'[client[u]] = wanted[client[u]]
    BY <1>1, <1>2, <2>1
  <2> QED BY <1>1, <1>2, <2>0, <2>1, <2>2 DEF WorkerOf, ServedOf, ownerVars
<1>8. ASSUME NEW d \in Clients PROVE GotOf(d)'
  BY <1>1, <1>2, GotFrame DEF Traffic, ownerVars
<1> QED BY <1>3, <1>4, <1>5, <1>6, <1>7, <1>8 DEF Traffic

\* A connection is answered, closed, or takes the process with it.
LEMMA ServeStep ==
  ASSUME Types, ServerInv, Numbering, Traffic, NEW s \in Servers,
         SendFd(s) \/ SendFails(s) \/ SendToDead(s)
  PROVE  Types' /\ ServerInv' /\ Numbering' /\ Traffic'
<1>1. /\ UNCHANGED <<ownerVars, kernelVars, number, target, wanted>>
      /\ worker[s] = "serve" /\ ServeDone(s)
  BY DEF SendFd, SendFails, SendToDead
<1>2. PICK c \in Clients : c = client[s] /\ state[c] \notin {"idle", "queued"}
  BY <1>1 DEF Traffic, ServedOf
<1>3. /\ worker'[s] = "test"
      /\ \A u \in Servers \ {s} : worker'[u] = worker[u] /\ client'[u] = client[u]
      /\ worker' \in [Servers -> {"none", "test", "read", "enter", "wait", "serve", "exited"}]
      /\ client' \in [Servers -> Clients \cup {NoClient}]
  BY <1>1 DEF Types, ServeDone, Goto
<1>4. /\ state' \in [Clients -> {"idle", "queued", "accepted", "served", "failed", "dead"}]
      /\ \A d \in Clients : /\ state'[d] = "accepted" => state[d] = "accepted"
                            /\ state[d] \notin {"idle", "queued"} =>
                                 state'[d] \notin {"idle", "queued"}
                            /\ state[d] = "served" => state'[d] = "served"
  <2>1. CASE SendFd(s) \/ SendFails(s)
    BY <1>2, <2>1 DEF Types, SendFd, SendFails
  <2>2. CASE SendToDead(s)
    BY <2>2 DEF Types, SendToDead, Reset
  <2> QED BY <2>1, <2>2
<1>5. \/ got' = got
      \/ got' = [got EXCEPT ![c] = s] /\ state'[c] = "served" /\ state[c] = "accepted"
  BY <1>2 DEF Types, SendFd, SendFails, SendToDead
<1>6. Types'
  BY <1>1, <1>3, <1>4, <1>5 DEF Types, ownerVars, kernelVars
<1>7. ServerInv' /\ Numbering'
  BY <1>1, <1>3, BlocksFrame DEF ownerVars, kernelVars
<1>8. WorkerOf(s)' /\ ServedOf(s)'
  BY <1>3 DEF WorkerOf, ServedOf
<1>9. ASSUME NEW u \in Servers \ {s} PROVE WorkerOf(u)' /\ ServedOf(u)'
  <2>0. WorkerOf(u) /\ ServedOf(u)
    BY DEF Traffic
  <2> QED BY <1>1, <1>3, <1>4, <2>0 DEF WorkerOf, ServedOf, ownerVars
<1>10. ASSUME NEW d \in Clients PROVE GotOf(d)'
  <2>1. CASE got'[d] = got[d]
    BY <1>1, <1>4, <2>1, GotFrame DEF Traffic, ownerVars
  <2>2. CASE got'[d] # got[d]
    <3>1. d = c /\ got'[d] = s /\ state'[c] = "served" /\ state[c] = "accepted"
      BY <1>5, <2>2 DEF Types
    <3>2. owner[s] \in Serving
      BY <1>1 DEF ServerInv, OwnerOf
    <3>3. owner[s] = "started" => wanted[c] = s
      BY <1>1, <1>2, <3>1 DEF Traffic, WorkerOf
    <3> QED BY <1>1, <3>1, <3>2, <3>3 DEF GotOf, ownerVars, Serving, Listed, Building
  <2> QED BY <2>1, <2>2
<1> QED BY <1>6, <1>7, <1>8, <1>9, <1>10 DEF Traffic

\* Clients come and go, and a socket nobody refers to is freed.
LEMMA ClientStep ==
  ASSUME Types, ServerInv, Numbering, Traffic,
         \/ \E c \in Clients : ClientDies(c) \/ \E s \in Servers : Connect(c, s)
         \/ \E s \in Servers : FreeSocket(s)
  PROVE  Types' /\ ServerInv' /\ Numbering' /\ Traffic'
<1>1. UNCHANGED <<ownerVars, table, workerVars, got>>
  BY DEF ClientDies, Connect, FreeSocket, kernelVars
<1>2. /\ state' \in [Clients -> {"idle", "queued", "accepted", "served", "failed", "dead"}]
      /\ wanted' \in [Clients -> Servers \cup {NoServer}]
  BY DEF Types, ClientDies, Connect, FreeSocket, Reset
<1>3. \A d \in Clients :
        /\ state'[d] = "accepted" => state[d] = "accepted" /\ wanted'[d] = wanted[d]
        /\ state[d] \notin {"idle", "queued"} => state'[d] \notin {"idle", "queued"}
        /\ state[d] = "served" => state'[d] = "served" /\ wanted'[d] = wanted[d]
  BY DEF Types, ClientDies, Connect, FreeSocket, Reset
<1>4. Types'
  BY <1>1, <1>2 DEF Types, ownerVars, workerVars
<1>5. ServerInv' /\ Numbering'
  BY <1>1, BlocksFrame DEF ownerVars, workerVars
<1>6. ASSUME NEW u \in Servers PROVE WorkerOf(u)' /\ ServedOf(u)'
  <2>0. WorkerOf(u) /\ ServedOf(u)
    BY DEF Traffic
  <2> QED BY <1>1, <1>3, <2>0 DEF WorkerOf, ServedOf, ownerVars, workerVars
<1>7. ASSUME NEW d \in Clients PROVE GotOf(d)'
  BY <1>1, <1>3, GotFrame DEF Traffic, ownerVars
<1> QED BY <1>4, <1>5, <1>6, <1>7 DEF Traffic

----------------------------------------------------------------------------
(***************************************************************************)
(* Theorems.                                                               *)
(***************************************************************************)

\* Initially no block is made and nobody has connected.
LEMMA InvariantInit == Init => Types /\ ServerInv /\ Numbering /\ Traffic
<1> SUFFICES ASSUME Init PROVE Types /\ ServerInv /\ Numbering /\ Traffic
  OBVIOUS
<1>1. Types
  BY DEF Init, Types, Owners, Building
<1>2. ServerInv
  BY DEF Init, ServerInv, OwnerOf, Serving, Listed
<1>3. Numbering
  BY ServerAssumption DEF Init, Numbering, TableIsListed, NumberOf, Listed
<1>4. Traffic
  BY DEF Init, Traffic, WorkerOf, ServedOf, GotOf
<1> QED BY <1>1, <1>2, <1>3, <1>4

\* Every step keeps all parts of the invariant.
LEMMA InvariantStep ==
  ASSUME Types, ServerInv, Numbering, Traffic, [Next]_vars
  PROVE  Types' /\ ServerInv' /\ Numbering' /\ Traffic'
<1>1. ASSUME NEW s \in Servers, Build(s) \/ Stop(s)
      PROVE  Types' /\ ServerInv' /\ Numbering' /\ Traffic'
  BY <1>1, BuildTypes, StopTypes, OwnerStep, NumberingStep, TrafficOwnerStep
<1>2. ASSUME NEW s \in Servers, Work(s) \/ AcceptFails(s)
      PROVE  Types' /\ ServerInv' /\ Numbering' /\ Traffic'
  BY <1>2, WorkerMoves, AcceptStep, ServeStep DEF Work
<1>3. ASSUME NEW p \in DOMAIN mode, DestroyPool(p)
      PROVE  Types' /\ ServerInv' /\ Numbering' /\ Traffic'
  <2>1. /\ UNCHANGED <<owner, vmm, running, listen_fd, paths, fds, kernelVars, workerVars, clientVars>>
        /\ DOMAIN mode' = DOMAIN mode
    BY <1>3 DEF DestroyPool
  <2>2. Types'
    BY <2>1 DEF Types, kernelVars, workerVars, clientVars
  <2>3. ServerInv' /\ Numbering'
    BY <2>1, BlocksFrame DEF kernelVars, workerVars
  <2>4. Traffic'
    BY <2>1 DEF Traffic, WorkerOf, ServedOf, GotOf, workerVars, clientVars
  <2> QED BY <2>2, <2>3, <2>4
<1>4. CASE UNCHANGED vars
  <2>1. Types' /\ Traffic'
    BY <1>4 DEF vars, Types, Traffic, WorkerOf, ServedOf, GotOf
  <2>2. ServerInv' /\ Numbering'
    BY <1>4, BlocksFrame DEF vars
  <2> QED BY <2>1, <2>2
<1> QED BY <1>1, <1>2, <1>3, <1>4, ClientStep DEF Next, Build

\* The inductive invariant of the descriptor servers, for every number of
\* servers, pools and clients.
THEOREM ServersInvariant == Spec => []IInv
<1>1. Types /\ ServerInv /\ Numbering /\ Traffic /\ [Next]_vars
        => (Types /\ ServerInv /\ Numbering /\ Traffic)'
  BY InvariantStep
<1>2. Types /\ ServerInv /\ Numbering /\ Traffic => IInv
  BY DEF IInv, ServerInv, Numbering, Traffic
<1> QED BY <1>1, <1>2, InvariantInit, PTL DEF Spec

\* A worker sends the open descriptor of its own, whole block: stop() joins it
\* before the descriptor is closed and the memory released.
THEOREM WorkersSendOpenDescriptors == Spec => []SendsOpenDescriptor
<1>1. IInv => SendsOpenDescriptor
  <2> SUFFICES ASSUME IInv, NEW s \in Servers, worker[s] = "serve"
               PROVE  s \in fds /\ vmm[s] = Objects
    BY DEF SendsOpenDescriptor
  <2>1. OwnerOf(s)
    BY DEF IInv
  <2>2. owner[s] \in Serving
    BY <2>1 DEF OwnerOf
  <2> QED BY <2>1, <2>2 DEF OwnerOf
<1> QED BY <1>1, ServersInvariant, PTL

\* A pool that is gone, or was never completed, has left nothing behind.
THEOREM DestroyedPoolsLeaveNothing == Spec => []DestroyedPoolLeavesNothing
<1>1. IInv => DestroyedPoolLeavesNothing
  <2> SUFFICES ASSUME IInv, NEW p \in DOMAIN mode, NEW s \in Members(p),
                      owner[s] \in {"new", "gone"}
               PROVE  /\ vmm[s] = {} /\ s \notin fds \cup paths
                      /\ \A n \in Numbers : table[n] # s
                      /\ worker[s] \in {"none", "exited"}
    BY DEF DestroyedPoolLeavesNothing
  <2>1. s \in Servers
    <3>1. p \in Seq(Servers)
      BY ServerAssumption DEF IInv, Types
    <3> QED BY <3>1 DEF Members
  <2>2. OwnerOf(s) /\ TableIsListed
    BY <2>1 DEF IInv
  <2>3. \A n \in Numbers : table[n] # s
    BY <2>1, <2>2 DEF TableIsListed, Listed
  <2> QED BY <2>2, <2>3 DEF OwnerOf, Serving, Listed
<1> QED BY <1>1, ServersInvariant, PTL

\* A client is answered by another server than the one it connected to only
\* while that server is being stopped.
THEOREM StraysOnlyWhileStopping == Spec => []StrayOnlyWhileStopping
<1>1. IInv => StrayOnlyWhileStopping
  <2> SUFFICES ASSUME IInv PROVE StrayOnlyWhileStopping
    OBVIOUS
  <2>1. ASSUME NEW s \in Servers, worker[s] = "serve", state[client[s]] = "accepted",
               wanted[client[s]] # s
        PROVE  ~running[s]
    BY <2>1 DEF IInv, WorkerOf, OwnerOf
  <2>2. ASSUME NEW c \in Clients
        PROVE  got[c] \in {NoServer, wanted[c]} \/ ~running[got[c]]
    <3>1. got[c] \in Servers \cup {NoServer} /\ GotOf(c)
      BY DEF IInv, Types
    <3>2. got[c] \in Servers => OwnerOf(got[c])
      BY DEF IInv
    <3> QED BY <3>1, <3>2 DEF GotOf, OwnerOf
  <2> QED BY <2>1, <2>2 DEF StrayOnlyWhileStopping
<1> QED BY <1>1, ServersInvariant, PTL
=============================================================================
