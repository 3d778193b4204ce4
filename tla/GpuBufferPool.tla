--------------------------- MODULE GpuBufferPool ---------------------------
(***************************************************************************)
(* The publisher process: GpuBufferManager, its GpuBufferPool and the      *)
(* PublishBlocks of its threads, through initialise, reset, round-robin    *)
(* reservation, the three mutex sections of prepare_publish, cancel and    *)
(* quarantine.                                                             *)
(*                                                                         *)
(* A block's metadata appears as BlockLease promises it: a block is        *)
(* claimed or not, subscribers refer to it or not, its grace period runs   *)
(* or is over.  A block's process-wide id names its metadata object too,   *)
(* because every object is created under a fresh id.                       *)
(***************************************************************************)
EXTENDS Integers, FiniteSets

CONSTANTS
  Threads,      \* publisher threads, each with at most one PublishBlock
  NoThread,     \* mutex_ is free
  BlockCount,   \* block_count_
  MaxBlockId,   \* numeric_limits<uint32_t>::max(): ids are below it
  StaleIds,     \* names a dead process with the same pid may have left behind
  Deliveries    \* model bound: subscribers that take a publication

ASSUME PoolAssumption ==
  /\ IsFiniteSet(Threads) /\ NoThread \notin Threads
  /\ BlockCount \in Nat \ {0} /\ MaxBlockId \in Nat \ {0}
  /\ Deliveries \in Nat
  /\ StaleIds \subseteq 0..(MaxBlockId - 1)

Ids     == 0..(MaxBlockId - 1)
Indices == 0..(BlockCount - 1)
NoId    == -1
NoBlock == [id |-> NoId, memory |-> FALSE, event |-> FALSE]
NoRes   == [id |-> NoId, index |-> 0]

VARIABLES
  blocks,        \* blocks_: one record per index, or none at all
  initialised,   \* initialised_
  next_block,    \* next_block_
  next_id,       \* next_process_block_id
  ctl,           \* where initialise() is; "idle" outside of it
  shm,           \* ids of the metadata names this process has linked
  stale,         \* ids of the names left by a dead process with this pid
  mutex,         \* mutex_, held across a reservation's scan
  claimed,       \* blocks whose publisher reservation has not been released
  subs,          \* subscriber references per block
  due,           \* subscribers that will still take the current publication
  fresh,         \* blocks whose last publication is within the grace period
  recorded,      \* blocks whose ready event is recorded for the current uid
  stage,         \* per thread: its place in the life of a PublishBlock
  res,           \* per thread: reservation_
  offset         \* per thread: loop variable of reserve_for_publish

poolVars == <<blocks, initialised, next_block, next_id, ctl, shm, stale>>
leaseVars == <<claimed, subs, due, fresh, recorded>>
threadVars == <<stage, res, offset>>
vars == <<blocks, initialised, next_block, next_id, ctl, shm, stale, mutex,
          claimed, subs, due, fresh, recorded, stage, res, offset>>

Stages == {"none", "scan", "held", "recorded", "built"}

TypeOK ==
  /\ blocks \in [Indices -> [id : Ids \cup {NoId}, memory : BOOLEAN, event : BOOLEAN]]
                \cup {<<>>}
  /\ initialised \in BOOLEAN
  /\ next_block \in Indices
  /\ next_id \in 0..MaxBlockId
  /\ ctl \in {"idle", "create", "allocate", "events", "open"}
  /\ shm \subseteq Ids /\ stale \subseteq Ids
  /\ mutex \in Threads \cup {NoThread}
  /\ claimed \subseteq Ids /\ fresh \subseteq Ids /\ recorded \subseteq Ids
  /\ subs \in [Ids -> 0..(2 * Deliveries)]
  /\ due \in [Ids -> 0..Deliveries]
  /\ stage \in [Threads -> Stages]
  /\ res \in [Threads -> [id : Ids \cup {NoId}, index : Indices]]
  /\ offset \in [Threads -> 0..BlockCount]

Init ==
  /\ blocks = <<>>
  /\ initialised = FALSE
  /\ next_block = 0
  /\ next_id = 0
  /\ ctl = "idle"
  /\ shm = {} /\ stale = StaleIds
  /\ mutex = NoThread
  /\ claimed = {} /\ fresh = {} /\ recorded = {}
  /\ subs = [m \in Ids |-> 0]
  /\ due = [m \in Ids |-> 0]
  /\ stage = [t \in Threads |-> "none"]
  /\ res = [t \in Threads |-> NoRes]
  /\ offset = [t \in Threads |-> 0]

----------------------------------------------------------------------------
(***************************************************************************)
(* initialise() and reset().  Only destroy_blocks takes the mutex; what    *)
(* initialise() builds is out of reach of the threads as long as           *)
(* initialised_ is false.                                                  *)
(***************************************************************************)

BlockIds == {blocks[i].id : i \in DOMAIN blocks} \ {NoId}

\* Events, memory and names of every block go, then the blocks themselves.
DestroyBlocks ==
  /\ mutex = NoThread
  /\ shm' = shm \ BlockIds
  /\ blocks' = <<>>
  /\ next_block' = 0
  /\ initialised' = FALSE
  /\ ctl' = "idle"

Reset ==
  /\ ctl = "idle" /\ blocks # <<>>
  /\ DestroyBlocks
  /\ UNCHANGED <<next_id, stale, mutex, leaseVars, threadVars>>

\* GpuBufferManager::initialise resets first; then the CUDA context is
\* retained (if that fails the reset is all that has happened) and the block
\* objects are made, without ids.
InitialiseBegin ==
  /\ ctl = "idle" /\ mutex = NoThread
  /\ shm' = shm \ BlockIds
  /\ blocks' = [i \in Indices |-> NoBlock]
  /\ next_block' = 0
  /\ initialised' = FALSE
  /\ ctl' = "create"
  /\ UNCHANGED <<next_id, stale, mutex, leaseVars, threadVars>>

\* Mutant: initialise() returns false without destroy_blocks().
MutCreateFailed ==
  /\ ctl = "create"
  /\ blocks' = <<>> /\ ctl' = "idle"
  /\ next_id' \in {next_id, next_id + 1} \cap 0..MaxBlockId
  /\ UNCHANGED <<initialised, next_block, shm, stale, mutex, leaseVars, threadVars>>

\* No id is left, or the metadata object cannot be created.
CreateFailed ==
  /\ ctl = "create"
  /\ next_id' = IF next_id = MaxBlockId THEN next_id ELSE next_id + 1
  /\ DestroyBlocks
  /\ UNCHANGED <<stale, mutex, leaseVars, threadVars>>

\* The next block gets a fresh id and its metadata object.  A name left by a
\* dead process with this pid is unlinked and created anew.
CreateMetadata ==
  /\ ctl = "create" /\ next_id # MaxBlockId
  /\ \E i \in Indices :
       /\ blocks[i].id = NoId /\ \A j \in Indices : j < i => blocks[j].id # NoId
       /\ blocks' = [blocks EXCEPT ![i].id = next_id]
       /\ ctl' = IF i = BlockCount - 1 THEN "allocate" ELSE "create"
  /\ next_id' = next_id + 1
  /\ shm' = shm \cup {next_id}
  /\ stale' = stale \ {next_id}
  /\ UNCHANGED <<initialised, next_block, mutex, leaseVars, threadVars>>

\* allocate_blocks(): memory for every block ...
AllocateMemory ==
  /\ ctl = "allocate"
  /\ blocks' = [i \in Indices |-> [blocks[i] EXCEPT !.memory = TRUE]]
  /\ ctl' = "events"
  /\ UNCHANGED <<initialised, next_block, next_id, shm, stale, mutex, leaseVars,
                 threadVars>>

\* ... then a ready event for every block.  initialised_ is set without the
\* mutex: from here on threads reserve blocks.
CreateEvents ==
  /\ ctl = "events"
  /\ blocks' = [i \in Indices |-> [blocks[i] EXCEPT !.event = TRUE]]
  /\ ctl' = "open"
  /\ initialised' = TRUE
  /\ UNCHANGED <<next_block, next_id, shm, stale, mutex, leaseVars, threadVars>>

\* The last assignment of initialise(), which a thread's scan may precede or
\* surround.
RestartScan ==
  /\ ctl = "open"
  /\ next_block' = 0
  /\ ctl' = "idle"
  /\ UNCHANGED <<blocks, initialised, next_id, shm, stale, mutex, leaseVars, threadVars>>

AllocateFailed ==
  /\ ctl \in {"allocate", "events"}
  /\ DestroyBlocks
  /\ UNCHANGED <<next_id, stale, mutex, leaseVars, threadVars>>

----------------------------------------------------------------------------
(***************************************************************************)
(* reserve_for_publish: one step per block it looks at, mutex held.        *)
(***************************************************************************)

\* The thread's PublishBlock is gone.
DropBlock(t) ==
  /\ stage' = [stage EXCEPT ![t] = "none"]
  /\ res' = [res EXCEPT ![t] = NoRes]
  /\ UNCHANGED offset

ReserveBegin(t) ==
  /\ stage[t] = "none" /\ mutex = NoThread /\ initialised
  /\ mutex' = t
  /\ stage' = [stage EXCEPT ![t] = "scan"]
  /\ UNCHANGED <<poolVars, leaseVars, res, offset>>

\* BufferRef::reserve_for_publish succeeds.
Reservable(m) == m \notin claimed /\ subs[m] = 0 /\ m \notin fresh

\* Subscribers of the old uid that come between the claim and the new uid
\* still get their reference (BlockLease grants it); later ones are refused.
LateSubscribers(m) ==
  /\ \E k \in 0..due[m] : subs' = [subs EXCEPT ![m] = subs[m] + k]
  /\ due' = [due EXCEPT ![m] = 0]

\* Mutant: the scan starts at block 0 every time.
MutNextStart(index) == 0

\* Where the scan after a hit at index starts.
NextStart(index) == (index + 1) % BlockCount

\* The block is free: it is claimed, its uid advances, and the next scan
\* starts behind it.
ScanHit(t) ==
  LET index == (next_block + offset[t]) % BlockCount IN
  /\ stage[t] = "scan" /\ offset[t] < BlockCount
  /\ Reservable(blocks[index].id)
  /\ claimed' = claimed \cup {blocks[index].id}
  /\ recorded' = recorded \ {blocks[index].id}
  /\ LateSubscribers(blocks[index].id)
  /\ res' = [res EXCEPT ![t] = [id |-> blocks[index].id, index |-> index]]
  /\ stage' = [stage EXCEPT ![t] = "held"]
  /\ offset' = [offset EXCEPT ![t] = 0]
  /\ next_block' = NextStart(index)
  /\ mutex' = NoThread
  /\ UNCHANGED <<blocks, initialised, next_id, ctl, shm, stale, fresh>>

ScanMiss(t) ==
  /\ stage[t] = "scan" /\ offset[t] < BlockCount
  /\ ~Reservable(blocks[(next_block + offset[t]) % BlockCount].id)
  /\ offset' = [offset EXCEPT ![t] = offset[t] + 1]
  /\ UNCHANGED <<poolVars, mutex, leaseVars, stage, res>>

ScanFails(t) ==
  /\ stage[t] = "scan" /\ offset[t] = BlockCount
  /\ stage' = [stage EXCEPT ![t] = "none"]
  /\ offset' = [offset EXCEPT ![t] = 0]
  /\ mutex' = NoThread
  /\ UNCHANGED <<poolVars, leaseVars, res>>

----------------------------------------------------------------------------
(***************************************************************************)
(* prepare_publish: record_ready, try_build_descriptor, commit, each under *)
(* the mutex, with the mutex free in between; cancel, without the mutex.   *)
(***************************************************************************)

\* Mutant: the block's id is not compared, only its place in the pool.
MutOwns(r) == initialised /\ r.id # NoId /\ r.index \in DOMAIN blocks

\* The reservation is one of the blocks the pool has now, not of the blocks
\* it had before a reset.
Owns(r) ==
  /\ initialised /\ r.id # NoId
  /\ r.index \in DOMAIN blocks /\ blocks[r.index].id = r.id

\* Mutant: a failed prepare_publish releases the publisher's reservation, the
\* way cancel() does.
MutQuarantine(t) ==
  /\ DropBlock(t)
  /\ claimed' = claimed \ {res[t].id}
  /\ UNCHANGED <<poolVars, mutex, subs, due, fresh, recorded>>

\* A step of prepare_publish failed: the PublishBlock gives up its owner
\* pointer, the reservation stays claimed.
Quarantine(t) ==
  /\ DropBlock(t)
  /\ UNCHANGED <<poolVars, mutex, leaseVars>>

RecordReady(t) ==
  /\ stage[t] = "held" /\ mutex = NoThread
  /\ Owns(res[t]) /\ blocks[res[t].index].event
  /\ recorded' = recorded \cup {blocks[res[t].index].id}
  /\ stage' = [stage EXCEPT ![t] = "recorded"]
  /\ UNCHANGED <<poolVars, mutex, claimed, subs, due, fresh, res, offset>>

BuildDescriptor(t) ==
  /\ stage[t] = "recorded" /\ mutex = NoThread
  /\ Owns(res[t]) /\ blocks[res[t].index].event
  /\ stage' = [stage EXCEPT ![t] = "built"]
  /\ UNCHANGED <<poolVars, mutex, leaseVars, res, offset>>

\* record_ready or try_build_descriptor failed: the pool was reset under the
\* reservation, the driver refused to record, or memory ran out.
PrepareFails(t) ==
  /\ stage[t] \in {"held", "recorded"} /\ mutex = NoThread
  /\ Quarantine(t)

\* commit_publish, and prepare_publish returns the descriptor.
Commit(t) ==
  /\ stage[t] = "built" /\ mutex = NoThread
  /\ Owns(res[t])
  /\ claimed' = claimed \ {res[t].id}
  /\ fresh' = fresh \cup {res[t].id}
  /\ due' = [due EXCEPT ![res[t].id] = Deliveries]
  /\ DropBlock(t)
  /\ UNCHANGED <<poolVars, mutex, subs, recorded>>

CommitFails(t) ==
  /\ stage[t] = "built" /\ mutex = NoThread
  /\ ~Owns(res[t])
  /\ Quarantine(t)

\* Mutant: a successful cancel leaves the owner pointer in place.
MutCancel(t) ==
  /\ stage[t] = "held"
  /\ claimed' = claimed \ {res[t].id}
  /\ UNCHANGED <<poolVars, mutex, subs, due, fresh, recorded, threadVars>>

\* cancel(), the destructor and the move assignment of a PublishBlock; also
\* valid after a reset, because the reservation keeps the metadata mapped.
Cancel(t) ==
  /\ stage[t] = "held"
  /\ claimed' = claimed \ {res[t].id}
  /\ DropBlock(t)
  /\ UNCHANGED <<poolVars, mutex, subs, due, fresh, recorded>>

----------------------------------------------------------------------------
(***************************************************************************)
(* The rest of the world: subscribers and time.                            *)
(***************************************************************************)

SubscriberAcquire(m) ==
  /\ due[m] > 0
  /\ due' = [due EXCEPT ![m] = due[m] - 1]
  /\ subs' = [subs EXCEPT ![m] = subs[m] + 1]
  /\ UNCHANGED <<poolVars, mutex, claimed, fresh, recorded, threadVars>>

SubscriberRelease(m) ==
  /\ subs[m] > 0
  /\ subs' = [subs EXCEPT ![m] = subs[m] - 1]
  /\ UNCHANGED <<poolVars, mutex, claimed, due, fresh, recorded, threadVars>>

GraceExpires(m) ==
  /\ m \in fresh
  /\ fresh' = fresh \ {m}
  /\ UNCHANGED <<poolVars, mutex, claimed, subs, due, recorded, threadVars>>

Manager == \/ Reset \/ InitialiseBegin \/ CreateFailed \/ CreateMetadata
           \/ AllocateMemory \/ CreateEvents \/ RestartScan \/ AllocateFailed

Scan(t) == ScanHit(t) \/ ScanMiss(t) \/ ScanFails(t)
Prepare(t) == RecordReady(t) \/ BuildDescriptor(t) \/ Commit(t) \/ CommitFails(t)

Next ==
  \/ Manager
  \/ \E t \in Threads :
       ReserveBegin(t) \/ Scan(t) \/ Prepare(t) \/ PrepareFails(t) \/ Cancel(t)
  \/ \E m \in Ids : SubscriberAcquire(m) \/ SubscriberRelease(m) \/ GraceExpires(m)

Spec == Init /\ [][Next]_vars

(***************************************************************************)
(* Fairness.  The publisher's timer keeps calling acquire_for_publish and  *)
(* its callback goes on to prepare the block; time passes; subscribers     *)
(* release what they hold; initialise() runs to its end.  All of it weak:  *)
(* the mutex need not be fair.  Nothing is assumed of resets, failures,    *)
(* cancellations and deliveries.                                           *)
(***************************************************************************)
Fairness ==
  /\ WF_vars(CreateMetadata \/ AllocateMemory \/ CreateEvents \/ RestartScan
             \/ CreateFailed)
  /\ \A t \in Threads : /\ WF_vars(ReserveBegin(t))
                        /\ WF_vars(Scan(t))
                        /\ WF_vars(Prepare(t))
  /\ \A m \in Ids : WF_vars(SubscriberRelease(m)) /\ WF_vars(GraceExpires(m))

FairSpec == Spec /\ Fairness

----------------------------------------------------------------------------
(***************************************************************************)
(* Properties.                                                             *)
(***************************************************************************)

\* initialise() is all or nothing: outside of it, a pool that is not open has
\* no block and leaves no metadata name behind, whatever step failed; an open
\* pool has BlockCount distinct blocks, each with memory, ready event and a
\* linked name (destroy_blocks on every error path of initialise).
PoolAllOrNothing ==
  /\ ctl = "idle" /\ ~initialised => blocks = <<>> /\ shm = {}
  /\ initialised =>
       /\ Cardinality(BlockIds) = BlockCount /\ shm = BlockIds
       /\ \A i \in Indices : blocks[i].memory /\ blocks[i].event

\* Two PublishBlocks never refer to the same block, and a PublishBlock that
\* has not been prepared yet keeps its block claimed, even across a reset.
ReservationsDisjoint ==
  \A t \in Threads : res[t].id # NoId =>
    /\ res[t].id \in claimed
    /\ \A s \in Threads \ {t} : res[s].id # res[t].id

\* What prepare_publish returns names a block of the pool as it is now, with
\* memory behind it and its ready event recorded since this reservation
\* began, whatever resets and initialisations took place between its three
\* critical sections.
DescriptorIsUsable ==
  [][\A m \in fresh' \ fresh :
       /\ initialised /\ m \in recorded
       /\ \E i \in Indices : /\ blocks[i].id = m
                            /\ blocks[i].memory /\ blocks[i].event]_vars

\* A quarantined block is not used again in the pool it belongs to: only the
\* PublishBlock that holds a block ends its claim, and once the GPU has been
\* told of it, by recording its ready event, it does so by publishing it.  What
\* a failed prepare_publish leaves behind stays claimed, whoever cancels,
\* resets or reserves afterwards ("The block will not be reused until
\* GpuBufferManager is reset").
QuarantineIsFinal ==
  [][\A m \in claimed \ claimed' :
       /\ \E t \in Threads : res[t].id = m
       /\ m \in recorded => m \in fresh']_vars

\* The round robin starves no block: in a pool that stays open, every block
\* is reserved again and again unless it stays claimed for good.
EveryBlockServes ==
  <>[]initialised =>
    \A i \in Indices :
      \/ []<>(\E t \in Threads : res[t].id # NoId /\ res[t].index = i)
      \/ <>[](i \in DOMAIN blocks /\ blocks[i].id \in claimed)
============================================================================
