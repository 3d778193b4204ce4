---------------------------- MODULE UnixFdServer ----------------------------
(***************************************************************************)
(* The VMM-FD backend of one publisher process.  A pool's thread allocates *)
(* the memory of its blocks in turn, exports it, and starts a UnixFdServer *)
(* that hands the block's shareable descriptor to whoever connects; it     *)
(* destroys them again in the same order.  A server's worker accepts and   *)
(* sends.  Subscribers connect, receive, or die.                           *)
(*                                                                         *)
(* The kernel is modelled as far as the code depends on it: a descriptor   *)
(* NUMBER is a name that is looked up when a call is entered and is given  *)
(* out again once closed, the socket behind it is an object.               *)
(***************************************************************************)
EXTENDS Integers, Sequences, FiniteSets, FiniteSetsExt

CONSTANTS
  Servers,   \* the UnixFdServer of one block each, and its block
  Layouts,   \* sets of pools; a pool is the sequence of its blocks
  NoServer,
  Clients,   \* one connection of a subscriber each
  NoClient

ASSUME ServerAssumption ==
  /\ IsFiniteSet(Servers) /\ NoServer \notin Servers
  /\ IsFiniteSet(Clients) /\ NoClient \notin Clients
  /\ \A pools \in Layouts : \A p \in pools : p \in Seq(Servers)

Numbers  == 1..Cardinality(Servers)
NoNumber == -1

VARIABLES
  alive,      \* the publisher process
  mode,       \* per pool: what its thread does to its blocks
  owner,      \* per server: where that thread is with the block
  vmm,        \* per server: the driver objects of its VmmFdBlockState
  running,    \* running_
  listen_fd,  \* listen_fd_
  paths,      \* servers whose path is linked
  fds,        \* servers whose shareable_fd is open
  table,      \* the process's descriptor table: number -> server's socket
  socket,     \* per server: its listening socket
  worker,     \* per server: where run() is
  number,     \* per server: the number its worker passes to accept()
  target,     \* per server: the server whose socket its worker waits on
  client,     \* per server: the connection its worker has accepted
  state,      \* per client
  wanted,     \* per client: the server whose path it connected to
  got         \* per client: the server whose descriptor it received

ownerVars  == <<mode, owner, vmm, running, listen_fd, paths, fds>>
kernelVars == <<table, socket>>
workerVars == <<worker, number, target, client>>
clientVars == <<state, wanted, got>>
vars == <<alive, mode, owner, vmm, running, listen_fd, paths, fds, table, socket,
          worker, number, target, client, state, wanted, got>>

Objects == {"address", "allocation", "mapping"}

Init ==
  /\ alive = TRUE
  /\ \E pools \in Layouts : mode = [p \in pools |-> "building"]
  /\ owner = [s \in Servers |-> "new"]
  /\ vmm = [s \in Servers |-> {}]
  /\ running = [s \in Servers |-> FALSE]
  /\ listen_fd = [s \in Servers |-> NoNumber]
  /\ paths = {} /\ fds = {}
  /\ table = [n \in Numbers |-> NoServer]
  /\ socket = [s \in Servers |-> "none"]
  /\ worker = [s \in Servers |-> "none"]
  /\ number = [s \in Servers |-> NoNumber]
  /\ target = [s \in Servers |-> NoServer]
  /\ client = [s \in Servers |-> NoClient]
  /\ state = [c \in Clients |-> "idle"]
  /\ wanted = [c \in Clients |-> NoServer]
  /\ got = [c \in Clients |-> NoServer]

\* Connections waiting to be accepted on the socket of server s; one whose
\* subscriber has died since stays in the queue.
Backlog(s) == {c \in Clients : state[c] \in {"queued", "dead"} /\ wanted[c] = s}

----------------------------------------------------------------------------
(***************************************************************************)
(* The thread of a pool: allocate_vmm_fd_memory and destroy_vmm_fd_memory. *)
(***************************************************************************)
Members(p) == {p[i] : i \in DOMAIN p}
PoolOf(s)  == CHOOSE p \in DOMAIN mode : s \in Members(p)

\* The blocks of the pool of s in front of s.
Before(s) == LET p == PoolOf(s) IN
  {p[i] : i \in {j \in DOMAIN p : \A k \in 1..j : p[k] # s}}

\* The loop over the blocks has come to s.
Turn(s, doing, done) ==
  /\ alive /\ mode[PoolOf(s)] = doing
  /\ \A b \in Before(s) : owner[b] = done

\* Address range, physical memory, mapping and access rights; the memory is
\* exported as a descriptor.
Export(s) ==
  /\ Turn(s, "building", "started") /\ owner[s] = "new"
  /\ owner' = [owner EXCEPT ![s] = "exported"]
  /\ vmm' = [vmm EXCEPT ![s] = Objects]
  /\ fds' = fds \cup {s}
  /\ UNCHANGED <<alive, mode, running, listen_fd, paths, kernelVars, workerVars, clientVars>>

\* Mutant: the objects belong to nobody until the block is complete.
MutExportFails(s) ==
  /\ Turn(s, "building", "started") /\ owner[s] = "new"
  /\ owner' = [owner EXCEPT ![s] = "gone"]
  /\ vmm' = [vmm EXCEPT ![s] = {"address"}]
  /\ mode' = [mode EXCEPT ![PoolOf(s)] = "down"]
  /\ UNCHANGED <<alive, running, listen_fd, paths, fds, kernelVars, workerVars, clientVars>>

\* One of those calls fails.  The blocks before s are destroyed, then the
\* state of s, which has what the calls before it have made and no server.
ExportFails(s) ==
  /\ Turn(s, "building", "started") /\ owner[s] = "new"
  /\ owner' = [owner EXCEPT ![s] = "stopped"]
  /\ \E made \in {{}, {"address"}, {"address", "allocation"}, Objects} :
       vmm' = [vmm EXCEPT ![s] = made]
  /\ mode' = [mode EXCEPT ![PoolOf(s)] = "down"]
  /\ UNCHANGED <<alive, running, listen_fd, paths, fds, kernelVars, workerVars, clientVars>>

\* start(): socket, bind, listen and the worker thread.  The kernel gives
\* out the lowest free number.
Start(s) ==
  /\ Turn(s, "building", "started") /\ owner[s] = "exported"
  /\ LET n == Min({m \in Numbers : table[m] = NoServer}) IN
       /\ table' = [table EXCEPT ![n] = s]
       /\ listen_fd' = [listen_fd EXCEPT ![s] = n]
  /\ socket' = [socket EXCEPT ![s] = "listening"]
  /\ owner' = [owner EXCEPT ![s] = "started"]
  /\ LET p == PoolOf(s) IN
       mode' = [mode EXCEPT ![p] = IF s = p[Len(p)] THEN "up" ELSE @]
  /\ running' = [running EXCEPT ![s] = TRUE]
  /\ paths' = paths \cup {s}
  /\ worker' = [worker EXCEPT ![s] = "test"]
  /\ UNCHANGED <<alive, vmm, fds, number, target, client, clientVars>>

\* start() fails, with the path bound or not; the state's destructor stops
\* the server that never ran.
StartFails(s) ==
  /\ Turn(s, "building", "started") /\ owner[s] = "exported"
  /\ owner' = [owner EXCEPT ![s] = "joining"]
  /\ mode' = [mode EXCEPT ![PoolOf(s)] = "down"]
  /\ paths' \in {paths, paths \cup {s}}
  /\ UNCHANGED <<alive, vmm, running, listen_fd, fds, kernelVars, workerVars, clientVars>>

\* The pool is reset or destroyed.
DestroyPool(p) ==
  /\ alive /\ mode[p] = "up"
  /\ mode' = [mode EXCEPT ![p] = "down"]
  /\ UNCHANGED <<alive, owner, vmm, running, listen_fd, paths, fds, kernelVars,
                 workerVars, clientVars>>

\* One step of ~VmmFdBlockState.
Advance(s, from, to) ==
  /\ Turn(s, "down", "gone")
  /\ owner[s] = from /\ owner' = [owner EXCEPT ![s] = to]
  /\ UNCHANGED <<alive, mode, workerVars, clientVars>>

\* Mutant: the flag stays up until the worker is joined.
MutStopFlag(s) ==
  /\ Advance(s, "started", "flagged")
  /\ UNCHANGED <<vmm, running, listen_fd, paths, fds, kernelVars>>

StopFlag(s) ==
  /\ Advance(s, "started", "flagged")
  /\ running' = [running EXCEPT ![s] = FALSE]
  /\ UNCHANGED <<vmm, listen_fd, paths, fds, kernelVars>>

\* Mutant: stop() relies on close() to wake the worker.
MutStopShutdown(s) ==
  /\ Advance(s, "flagged", "shut")
  /\ UNCHANGED <<vmm, running, listen_fd, paths, fds, kernelVars>>

\* shutdown() refuses further connections and ends a waiting accept().
StopShutdown(s) ==
  /\ Advance(s, "flagged", "shut")
  /\ socket' = [socket EXCEPT ![s] = "shut"]
  /\ UNCHANGED <<vmm, running, listen_fd, paths, fds, table>>

StopClose(s) ==
  /\ Advance(s, "shut", "closed")
  /\ table' = [table EXCEPT ![listen_fd[s]] = NoServer]
  /\ UNCHANGED <<vmm, running, listen_fd, paths, fds, socket>>

\* The store races the worker's read of listen_fd_.
StopForget(s) ==
  /\ Advance(s, "closed", "joining")
  /\ listen_fd' = [listen_fd EXCEPT ![s] = NoNumber]
  /\ UNCHANGED <<vmm, running, paths, fds, kernelVars>>

\* Mutant: the worker is detached instead of joined.
MutStopJoin(s) ==
  /\ Advance(s, "joining", "stopped")
  /\ paths' = paths \ {s}
  /\ UNCHANGED <<vmm, running, listen_fd, fds, kernelVars>>

StopJoin(s) ==
  /\ Advance(s, "joining", "stopped")
  /\ worker[s] \in {"none", "exited"}
  /\ paths' = paths \ {s}
  /\ UNCHANGED <<vmm, running, listen_fd, fds, kernelVars>>

\* The shareable descriptor is closed after the server has stopped ...
CloseShareable(s) ==
  /\ Advance(s, "stopped", "unshared")
  /\ fds' = fds \ {s}
  /\ UNCHANGED <<vmm, running, listen_fd, paths, kernelVars>>

\* ... and then the memory is unmapped and released.
ReleaseMemory(s) ==
  /\ Advance(s, "unshared", "gone")
  /\ vmm' = [vmm EXCEPT ![s] = {}]
  /\ UNCHANGED <<running, listen_fd, paths, fds, kernelVars>>

----------------------------------------------------------------------------
(***************************************************************************)
(* The worker.                                                             *)
(***************************************************************************)
Goto(s, w) == worker' = [worker EXCEPT ![s] = w]

TestRunning(s) ==
  /\ alive /\ worker[s] = "test"
  /\ Goto(s, IF running[s] THEN "read" ELSE "exited")
  /\ UNCHANGED <<alive, ownerVars, kernelVars, number, target, client, clientVars>>

ReadListenFd(s) ==
  /\ alive /\ worker[s] = "read"
  /\ number' = [number EXCEPT ![s] = listen_fd[s]]
  /\ Goto(s, "enter")
  /\ UNCHANGED <<alive, ownerVars, kernelVars, target, client, clientVars>>

\* The number is looked up when accept() is entered.
EnterAccept(s) ==
  /\ alive /\ worker[s] = "enter"
  /\ IF number[s] = NoNumber \/ table[number[s]] = NoServer
     THEN Goto(s, "test") /\ UNCHANGED target
     ELSE /\ target' = [target EXCEPT ![s] = table[number[s]]]
          /\ Goto(s, "wait")
  /\ UNCHANGED <<alive, ownerVars, kernelVars, number, client, clientVars>>

\* accept() returns a connection of the socket it was entered with ...
AcceptClient(s, c) ==
  /\ alive /\ worker[s] = "wait" /\ c \in Backlog(target[s])
  /\ state' = [state EXCEPT ![c] = IF @ = "dead" THEN "dead" ELSE "accepted"]
  /\ wanted' = [wanted EXCEPT ![c] = IF state[c] = "dead" THEN NoServer ELSE @]
  /\ client' = [client EXCEPT ![s] = c]
  /\ target' = [target EXCEPT ![s] = NoServer]
  /\ Goto(s, "serve")
  /\ UNCHANGED <<alive, ownerVars, kernelVars, number, got>>

LeaveAccept(s) ==
  /\ target' = [target EXCEPT ![s] = NoServer]
  /\ Goto(s, "test")
  /\ UNCHANGED <<alive, ownerVars, kernelVars, number, client, clientVars>>

\* ... or an error because the socket is shut down and its queue empty ...
AcceptWoken(s) ==
  /\ alive /\ worker[s] = "wait"
  /\ socket[target[s]] = "shut" /\ Backlog(target[s]) = {}
  /\ LeaveAccept(s)

\* ... or any other: interrupted, no descriptor left, connection aborted.
AcceptFails(s) ==
  /\ alive /\ worker[s] = "wait"
  /\ LeaveAccept(s)

ServeDone(s) ==
  /\ client' = [client EXCEPT ![s] = NoClient]
  /\ Goto(s, "test")

\* sendmsg() with the descriptor, then close() of the connection.
SendFd(s) ==
  /\ alive /\ worker[s] = "serve" /\ state[client[s]] = "accepted"
  /\ state' = [state EXCEPT ![client[s]] = "served"]
  /\ got' = [got EXCEPT ![client[s]] = s]
  /\ ServeDone(s)
  /\ UNCHANGED <<alive, ownerVars, kernelVars, number, target, wanted>>

\* Mutant: the connection is only closed when the descriptor was sent.
MutSendFails(s) ==
  /\ alive /\ worker[s] = "serve" /\ state[client[s]] = "accepted"
  /\ ServeDone(s)
  /\ UNCHANGED <<alive, ownerVars, kernelVars, number, target, clientVars>>

\* The connection is closed without the descriptor; the subscriber reads EOF.
SendFails(s) ==
  /\ alive /\ worker[s] = "serve" /\ state[client[s]] = "accepted"
  /\ state' = [state EXCEPT ![client[s]] = "failed"]
  /\ ServeDone(s)
  /\ UNCHANGED <<alive, ownerVars, kernelVars, number, target, wanted, got>>

\* Connections a vanished process leaves behind are reset.
Reset(clients) ==
  state' = [c \in Clients |-> IF c \in clients /\ state[c] \in {"queued", "accepted"}
                              THEN "failed" ELSE state[c]]

\* The peer is gone: sendmsg() is called without MSG_NOSIGNAL, so the process
\* gets SIGPIPE, which nothing in the repository's nodes handles.
SendToDead(s) ==
  /\ alive /\ worker[s] = "serve" /\ state[client[s]] = "dead"
  /\ alive' = FALSE
  /\ Reset(Clients)
  /\ ServeDone(s)
  /\ UNCHANGED <<ownerVars, kernelVars, number, target, wanted, got>>

\* The kernel frees a socket no number and no accept() refers to any more.
FreeSocket(s) ==
  /\ alive /\ socket[s] = "shut"
  /\ \A n \in Numbers : table[n] # s
  /\ \A w \in Servers : target[w] # s
  /\ socket' = [socket EXCEPT ![s] = "closed"]
  /\ Reset(Backlog(s))
  /\ UNCHANGED <<alive, ownerVars, table, workerVars, wanted, got>>

----------------------------------------------------------------------------
(***************************************************************************)
(* Subscribers: request_fd_from_publisher.                                 *)
(***************************************************************************)

\* connect() to the path; what follows is a recvmsg() that waits.
Connect(c, s) ==
  /\ alive /\ state[c] = "idle"
  /\ s \in paths /\ socket[s] = "listening"
  /\ state' = [state EXCEPT ![c] = "queued"]
  /\ wanted' = [wanted EXCEPT ![c] = s]
  /\ UNCHANGED <<alive, ownerVars, kernelVars, workerVars, got>>

\* The subscriber process dies while it waits.
ClientDies(c) ==
  /\ alive /\ state[c] \in {"queued", "accepted"}
  /\ state' = [state EXCEPT ![c] = "dead"]
  /\ wanted' = [wanted EXCEPT ![c] = IF state[c] = "accepted" THEN NoServer ELSE @]
  /\ UNCHANGED <<alive, ownerVars, kernelVars, workerVars, got>>

Stop(s) == \/ StopFlag(s) \/ StopShutdown(s) \/ StopClose(s) \/ StopForget(s)
           \/ StopJoin(s) \/ CloseShareable(s) \/ ReleaseMemory(s)
Work(s) == \/ TestRunning(s) \/ ReadListenFd(s) \/ EnterAccept(s)
           \/ (\E c \in Clients : AcceptClient(s, c)) \/ AcceptWoken(s)
           \/ SendFd(s) \/ SendFails(s) \/ SendToDead(s)

Next ==
  \/ \E s \in Servers :
       \/ Export(s) \/ ExportFails(s) \/ Start(s) \/ StartFails(s) \/ Stop(s)
       \/ Work(s) \/ AcceptFails(s) \/ FreeSocket(s)
  \/ \E p \in DOMAIN mode : DestroyPool(p)
  \/ \E c \in Clients : ClientDies(c) \/ \E s \in Servers : Connect(c, s)

Spec == Init /\ [][Next]_vars

(***************************************************************************)
(* Fairness.  A thread that has begun to destroy its pool, the workers and *)
(* the kernel run on.  Nobody has to destroy a pool or to connect.         *)
(* accept() need not fail, and does not fail for ever while a connection   *)
(* waits: run() tries again after every error, so it then returns one.     *)
(***************************************************************************)
Fairness ==
  \A s \in Servers : /\ WF_vars(Stop(s))
                     /\ WF_vars(Work(s)) /\ WF_vars(FreeSocket(s))
                     /\ SF_vars(\E c \in Clients : AcceptClient(s, c))

FairSpec == Spec /\ Fairness

----------------------------------------------------------------------------
(***************************************************************************)
(* Properties.                                                             *)
(***************************************************************************)

\* The descriptor a worker sends is the open shareable_fd of its block, with
\* the memory behind it whole, and never a number that has been closed or
\* given to something else: the server starts last, and the state closes the
\* descriptor only when stop() has joined the worker.
SendsOpenDescriptor ==
  \A s \in Servers : alive /\ worker[s] = "serve" => s \in fds /\ vmm[s] = Objects

\* A pool whose allocation failed at any call of any block, or that was
\* destroyed, leaves nothing once its thread is done: no address range or
\* memory, no descriptor, no path a subscriber could find, no listening
\* number and no thread.
DestroyedPoolLeavesNothing ==
  \A p \in DOMAIN mode :
    mode[p] = "down" /\ (\A s \in Members(p) : owner[s] \in {"new", "gone"}) =>
      \A s \in Members(p) :
        /\ vmm[s] = {} /\ s \notin fds \cup paths
        /\ \A n \in Numbers : table[n] # s
        /\ worker[s] \in {"none", "exited"}

\* A connection may be accepted by the worker of another server, which then
\* sends its own block, but only by one that is being stopped: stop() lowers
\* running_ before it closes the number the worker is about to use.
StrayOnlyWhileStopping ==
  /\ \A s \in Servers :
       LET c == client[s] IN
       worker[s] = "serve" /\ state[c] = "accepted" /\ wanted[c] # s => ~running[s]
  /\ \A c \in Clients : got[c] \in {NoServer, wanted[c]} \/ ~running[got[c]]

\* A subscriber that has connected does not wait for ever: it receives a
\* descriptor or its connection is closed, even if the server is stopped.
ClientsAnswered ==
  \A c \in Clients : state[c] = "queued" ~> state[c] \in {"served", "failed", "dead"}

\* The worker of s waits on the socket of another server.
Strayed(s) == target[s] \notin {s, NoServer}

\* Destroying a pool ends, whatever its clients do: shutdown() ends the
\* accept() each worker waits in.  The one exception is a worker that has
\* strayed to the socket of another pool's server, which nobody shuts down:
\* stop() then joins a thread that only a client of that server can wake.
StopCompletes ==
  \A s \in Servers :
    mode[PoolOf(s)] = "down" ~>
      \/ owner[s] \in {"new", "gone"} \/ ~alive
      \/ \E w \in Before(s) \cup {s} : Strayed(w)
=============================================================================
