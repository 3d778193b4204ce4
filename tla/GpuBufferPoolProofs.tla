------------------------ MODULE GpuBufferPoolProofs ------------------------
(***************************************************************************)
(* Proofs about the publisher's pool, for any number of blocks, ids,       *)
(* threads and subscribers: initialise() is all or nothing, reservations   *)
(* exclude each other across resets, and a published descriptor is usable. *)
(***************************************************************************)
EXTENDS GpuBufferPool, TLAPS, FunctionTheorems, FiniteSetTheorems

Block == [id : Ids \cup {NoId}, memory : BOOLEAN, event : BOOLEAN]

\* How far initialise() is tells what the blocks have.
BlocksFollowCtl ==
  /\ blocks = <<>> <=> ctl = "idle" /\ ~initialised
  /\ ctl \in {"create", "allocate", "events"} => ~initialised
  /\ ctl = "open" => initialised
  /\ blocks # <<>> => \A i \in Indices :
       /\ ctl # "create" => blocks[i].id # NoId
       /\ ctl = "events" \/ initialised => blocks[i].memory
       /\ initialised => blocks[i].event

\* Ids are given out in order, so that no two blocks share one.
IdsFresh ==
  blocks # <<>> => \A i \in Indices :
    /\ blocks[i].id < next_id
    /\ \A j \in Indices : blocks[i].id = blocks[j].id => i = j \/ blocks[i].id = NoId

\* The names of this process are the ones of its blocks.
NamesLinked == shm = BlockIds

\* A scan owns the mutex of an open pool; what a PublishBlock holds is claimed,
\* and recorded once record_ready has run, not before.
ThreadsInv ==
  \A t \in Threads :
    /\ stage[t] = "scan" => mutex = t /\ initialised
    /\ stage[t] \in {"none", "scan"} => res[t].id = NoId
    /\ stage[t] \in {"held", "recorded", "built"} => res[t].id \in claimed
    /\ stage[t] \in {"recorded", "built"} => res[t].id \in recorded
    /\ stage[t] = "held" => res[t].id \notin recorded

\* No two PublishBlocks hold one block.
HeldOnce ==
  \A s, t \in Threads : res[s].id = res[t].id => s = t \/ res[s].id = NoId

\* A block is not handed out again before all takers of its last publication
\* have come or can come no more.
TakersBounded ==
  \A m \in Ids :
    /\ subs[m] + due[m] <= 2 * Deliveries
    /\ m \in claimed => due[m] = 0 /\ subs[m] <= Deliveries

IInv == /\ TypeOK /\ BlocksFollowCtl /\ IdsFresh /\ NamesLinked
        /\ ThreadsInv /\ HeldOnce /\ TakersBounded

\* The part of the type invariant that is about the pool itself.
PoolType ==
  /\ blocks \in [Indices -> Block] \cup {<<>>}
  /\ initialised \in BOOLEAN
  /\ next_block \in Indices
  /\ next_id \in 0..MaxBlockId
  /\ ctl \in {"idle", "create", "allocate", "events", "open"}
  /\ shm \subseteq Ids /\ stale \subseteq Ids

PoolInv == PoolType /\ BlocksFollowCtl /\ IdsFresh /\ NamesLinked

----------------------------------------------------------------------------
(***************************************************************************)
(* Facts about the blocks.                                                 *)
(***************************************************************************)

\* A pool without blocks has no block ids; a pool with blocks has the index 0.
LEMMA NoBlocks ==
  /\ DOMAIN <<>> = {} /\ 0 \in Indices
  /\ \A f \in [Indices -> Block] : f # <<>> /\ DOMAIN f = Indices
<1>1. 0 \in Indices
  BY PoolAssumption DEF Indices
<1>2. DOMAIN <<>> = {}
  OBVIOUS
<1> QED BY <1>1, <1>2

\* The scan's index is an index, wherever it started.
LEMMA IndexWraps ==
  ASSUME NEW n \in Nat
  PROVE  n % BlockCount \in Indices
BY PoolAssumption DEF Indices

\* Which ids the pool has.
LEMMA BlockIdsAre ==
  ASSUME blocks \in [Indices -> Block]
  PROVE  \A m : m \in BlockIds <=> m # NoId /\ \E i \in Indices : blocks[i].id = m
BY DEF BlockIds

\* ... none, when it has no blocks.
LEMMA NoBlockIds ==
  ASSUME blocks = <<>>
  PROVE  BlockIds = {}
BY NoBlocks DEF BlockIds

\* The blocks of an open pool are complete.
LEMMA OpenPool ==
  ASSUME PoolInv, initialised
  PROVE  /\ blocks \in [Indices -> Block] /\ shm = BlockIds
         /\ \A i \in Indices : blocks[i].id \in Ids /\ blocks[i].memory /\ blocks[i].event
         /\ \A i, j \in Indices : blocks[i].id = blocks[j].id => i = j
<1>1. blocks # <<>> /\ blocks \in [Indices -> Block] /\ ctl # "create"
  BY DEF PoolInv, PoolType, BlocksFollowCtl
<1>2. \A i \in Indices : blocks[i] \in Block /\ blocks[i].id # NoId
  BY <1>1 DEF PoolInv, BlocksFollowCtl
<1>3. \A i \in Indices : blocks[i].id \in Ids
  BY <1>2 DEF Block
<1>4. \A i \in Indices : blocks[i].memory /\ blocks[i].event
  BY <1>1 DEF PoolInv, BlocksFollowCtl
<1>5. \A i, j \in Indices : blocks[i].id = blocks[j].id => i = j
  BY <1>1, <1>2 DEF PoolInv, IdsFresh
<1> QED BY <1>1, <1>3, <1>4, <1>5 DEF PoolInv, NamesLinked

\* ... and as many as the pool was asked for.
LEMMA OpenPoolCount ==
  ASSUME PoolInv, initialised
  PROVE  Cardinality(BlockIds) = BlockCount
<1> DEFINE f == [i \in Indices |-> blocks[i].id]
<1>1. /\ blocks \in [Indices -> Block] /\ \A i \in Indices : blocks[i].id \in Ids
      /\ \A i, j \in Indices : blocks[i].id = blocks[j].id => i = j
  BY OpenPool
<1>2. \A m : m \in BlockIds <=> \E i \in Indices : f[i] = m
  <2>1. NoId \notin Ids
    BY PoolAssumption DEF Ids, NoId
  <2> QED BY <1>1, <2>1, BlockIdsAre
<1>3. f \in [Indices -> BlockIds]
  BY <1>2
<1>4. \A i, j \in Indices : f[i] = f[j] => i = j
  BY <1>1
<1>5. \A m \in BlockIds : \E i \in Indices : f[i] = m
  BY <1>2
<1> HIDE DEF f
<1>6. f \in Injection(Indices, BlockIds) /\ f \in Surjection(Indices, BlockIds)
  BY <1>3, <1>4, <1>5, Fun_IsInj, Fun_IsSurj
<1>7. IsFiniteSet(Indices) /\ Cardinality(Indices) = BlockCount
  <2>1. /\ IsFiniteSet(0..(BlockCount - 1)) /\ 0 \in Int /\ BlockCount - 1 \in Int
        /\ Cardinality(0..(BlockCount - 1)) =
             IF 0 > BlockCount - 1 THEN 0 ELSE (BlockCount - 1) - 0 + 1
    BY PoolAssumption, FS_Interval
  <2> QED BY <2>1, PoolAssumption DEF Indices
<1> QED BY <1>6, <1>7, FS_Surjection

----------------------------------------------------------------------------
(***************************************************************************)
(* initialise() and reset().                                               *)
(***************************************************************************)

\* destroy_blocks leaves no block and no name.
LEMMA DestroyLeavesNothing ==
  ASSUME PoolInv, DestroyBlocks, next_id' \in 0..MaxBlockId, stale' = stale
  PROVE  PoolInv'
<1>1. blocks' = <<>> /\ shm' = {} /\ next_block' = 0 /\ ~initialised' /\ ctl' = "idle"
  BY DEF DestroyBlocks, PoolInv, NamesLinked
<1>2. initialised' \in BOOLEAN
  BY DEF DestroyBlocks
<1>3. PoolType'
  BY <1>1, <1>2, NoBlocks DEF PoolInv, PoolType
<1>4. BlocksFollowCtl' /\ IdsFresh'
  BY <1>1 DEF BlocksFollowCtl, IdsFresh
<1>5. NamesLinked'
  BY <1>1, NoBlocks DEF NamesLinked, BlockIds
<1> QED BY <1>3, <1>4, <1>5 DEF PoolInv

\* Every step of initialise() and reset(), and every failure of one, leaves a
\* pool whose blocks match how far it got.
LEMMA PoolStep == PoolInv /\ Manager => PoolInv'
<1> SUFFICES ASSUME PoolInv, Manager PROVE PoolInv'
  OBVIOUS
<1>0. PoolType /\ BlocksFollowCtl /\ IdsFresh /\ NamesLinked
  BY DEF PoolInv
<1>n. NoId \notin Ids /\ NoId \in Int /\ NoId < 0 /\ Ids \subseteq Int
  BY PoolAssumption DEF Ids, NoId
<1>1. CASE Reset \/ AllocateFailed
  BY <1>0, <1>1, DestroyLeavesNothing DEF Reset, AllocateFailed, PoolType
<1>2. CASE CreateFailed
  <2>1. next_id' \in 0..MaxBlockId
    BY <1>0, <1>2, PoolAssumption DEF CreateFailed, PoolType
  <2> QED BY <1>2, <2>1, DestroyLeavesNothing DEF CreateFailed
<1>3. CASE InitialiseBegin
  <2>1. /\ blocks' = [i \in Indices |-> NoBlock] /\ shm' = {} /\ next_block' = 0
        /\ ctl' = "create" /\ next_id' = next_id /\ stale' = stale
    BY <1>0, <1>3 DEF InitialiseBegin, NamesLinked
  <2>2. initialised' = FALSE
    BY <1>3 DEF InitialiseBegin
  <2>3. NoBlock \in Block /\ NoBlock.id = NoId
    BY DEF NoBlock, Block
  <2>4. blocks' \in [Indices -> Block] /\ \A i \in Indices : blocks'[i].id = NoId
    BY <2>1, <2>3
  <2>5. PoolType'
    BY <1>0, <2>1, <2>2, <2>4, NoBlocks DEF PoolType
  <2>6. BlocksFollowCtl'
    BY <2>1, <2>2, <2>4, NoBlocks DEF BlocksFollowCtl
  <2>7. IdsFresh'
    BY <1>0, <1>n, <2>1, <2>4 DEF IdsFresh, PoolType
  <2>8. NamesLinked'
    BY <2>1, <2>4 DEF NamesLinked, BlockIds
  <2> QED BY <2>5, <2>6, <2>7, <2>8 DEF PoolInv
<1>4. CASE CreateMetadata
  <2>0. blocks \in [Indices -> Block] /\ blocks # <<>> /\ ~initialised /\ ctl = "create"
    BY <1>0, <1>4 DEF CreateMetadata, PoolType, BlocksFollowCtl
  <2>1. PICK i \in Indices :
          /\ blocks[i].id = NoId /\ \A j \in Indices : j < i => blocks[j].id # NoId
          /\ blocks' = [blocks EXCEPT ![i].id = next_id]
          /\ ctl' = IF i = BlockCount - 1 THEN "allocate" ELSE "create"
    BY <1>4 DEF CreateMetadata
  <2>2. /\ next_id \in Ids /\ next_id' = next_id + 1 /\ next_id' \in 0..MaxBlockId
        /\ shm' = shm \cup {next_id} /\ stale' = stale \ {next_id}
        /\ next_block' = next_block /\ initialised' = initialised
    BY <1>0, <1>4, PoolAssumption DEF CreateMetadata, PoolType, Ids
  <2>3. /\ blocks' \in [Indices -> Block] /\ blocks'[i].id = next_id
        /\ \A j \in Indices \ {i} : blocks'[j] = blocks[j]
    BY <2>0, <2>1, <2>2 DEF Block
  <2>4. PoolType'
    BY <1>0, <2>1, <2>2, <2>3 DEF PoolType
  <2>5. BlocksFollowCtl'
    <3>1. blocks' # <<>>
      BY <2>3, NoBlocks
    <3>2. \A j \in Indices : ctl' # "create" => blocks'[j].id # NoId
      <4> SUFFICES ASSUME NEW j \in Indices, ctl' # "create" PROVE blocks'[j].id # NoId
        OBVIOUS
      <4>1. i = BlockCount - 1
        BY <2>1
      <4>2. j < i \/ j = i
        BY <4>1, PoolAssumption DEF Indices
      <4> QED BY <1>n, <2>1, <2>2, <2>3, <4>2
    <3>3. ctl' \in {"create", "allocate"} /\ ~initialised'
      BY <2>0, <2>1, <2>2
    <3> QED BY <3>1, <3>2, <3>3 DEF BlocksFollowCtl
  <2>6. IdsFresh'
    <3>1. \A j \in Indices : blocks[j].id < next_id /\ blocks[j].id \in Int
      BY <1>0, <1>n, <2>0 DEF IdsFresh, Block
    <3>2. next_id \in Int /\ next_id < next_id'
      BY <1>n, <2>2
    <3>3. \A j \in Indices : blocks'[j].id < next_id'
      BY <2>2, <2>3, <3>1, <3>2
    <3>4. \A j, k \in Indices : blocks'[j].id = blocks'[k].id => j = k \/ blocks'[j].id = NoId
      <4>1. \A j \in Indices \ {i} : blocks'[j].id # next_id
        BY <2>3, <3>1, <3>2
      <4>2. \A j, k \in Indices : blocks[j].id = blocks[k].id => j = k \/ blocks[j].id = NoId
        BY <1>0, <2>0 DEF IdsFresh
      <4> QED BY <2>3, <4>1, <4>2
    <3> QED BY <3>3, <3>4 DEF IdsFresh
  <2>7. NamesLinked'
    <3>1. \A m : m \in BlockIds <=> m # NoId /\ \E j \in Indices : blocks[j].id = m
      BY <2>0, BlockIdsAre
    <3>2. \A m : m \in BlockIds' <=> m # NoId /\ \E j \in Indices : blocks'[j].id = m
      BY <2>3 DEF BlockIds
    <3>3. \A m : m \in BlockIds' <=> m \in BlockIds \/ m = next_id
      BY <1>n, <2>1, <2>2, <2>3, <3>1, <3>2
    <3> QED BY <1>0, <2>2, <3>3 DEF NamesLinked
  <2> QED BY <2>4, <2>5, <2>6, <2>7 DEF PoolInv
<1>5. ASSUME blocks' \in [Indices -> Block], blocks # <<>>,
             \A i \in Indices : blocks'[i].id = blocks[i].id,
             next_id' = next_id, shm' = shm
      PROVE  IdsFresh' /\ NamesLinked'
  <2>1. blocks \in [Indices -> Block]
    BY <1>0, <1>5 DEF PoolType
  <2>2. IdsFresh'
    <3>1. \A i \in Indices : /\ blocks[i].id < next_id
                             /\ \A j \in Indices : blocks[i].id = blocks[j].id =>
                                  i = j \/ blocks[i].id = NoId
      BY <1>0, <1>5 DEF IdsFresh
    <3>2. \A i \in Indices : blocks'[i].id < next_id'
      BY <1>5, <3>1
    <3>3. \A i, j \in Indices : blocks'[i].id = blocks'[j].id => i = j \/ blocks'[i].id = NoId
      BY <1>5, <3>1
    <3> QED BY <3>2, <3>3 DEF IdsFresh
  <2>3. \A m : m \in BlockIds <=> m # NoId /\ \E j \in Indices : blocks[j].id = m
    BY <2>1, BlockIdsAre
  <2>4. \A m : m \in BlockIds' <=> m # NoId /\ \E j \in Indices : blocks'[j].id = m
    BY <1>5 DEF BlockIds
  <2>5. BlockIds' = BlockIds
    <3>1. \A m : m \in BlockIds' <=> m \in BlockIds
      BY <1>5, <2>3, <2>4
    <3> QED BY <3>1, SetExtensionality
  <2> QED BY <1>0, <1>5, <2>2, <2>5 DEF NamesLinked
<1>6. CASE AllocateMemory
  <2>0. blocks \in [Indices -> Block] /\ blocks # <<>> /\ ~initialised /\ ctl = "allocate"
    BY <1>0, <1>6 DEF AllocateMemory, PoolType, BlocksFollowCtl
  <2>1. /\ initialised' = initialised /\ next_block' = next_block /\ next_id' = next_id
        /\ shm' = shm /\ stale' = stale /\ ctl' = "events"
        /\ blocks' = [i \in Indices |-> [blocks[i] EXCEPT !.memory = TRUE]]
    BY <1>6 DEF AllocateMemory
  <2>2. /\ blocks' \in [Indices -> Block]
        /\ \A i \in Indices : blocks'[i].id = blocks[i].id /\ blocks'[i].memory
    BY <2>0, <2>1 DEF Block
  <2>3. PoolType'
    BY <1>0, <2>1, <2>2 DEF PoolType
  <2>4. BlocksFollowCtl'
    <3>1. blocks' # <<>> /\ ~initialised'
      BY <2>0, <2>1, <2>2, NoBlocks
    <3>2. \A i \in Indices : blocks[i].id # NoId
      BY <1>0, <2>0 DEF BlocksFollowCtl
    <3> QED BY <2>1, <2>2, <3>1, <3>2 DEF BlocksFollowCtl
  <2> QED BY <1>5, <2>0, <2>1, <2>2, <2>3, <2>4 DEF PoolInv
<1>7. CASE CreateEvents
  <2>0. blocks \in [Indices -> Block] /\ blocks # <<>> /\ ctl = "events"
    BY <1>0, <1>7 DEF CreateEvents, PoolType, BlocksFollowCtl
  <2>1. /\ next_block' = next_block /\ next_id' = next_id
        /\ shm' = shm /\ stale' = stale /\ ctl' = "open" /\ initialised' = TRUE
        /\ blocks' = [i \in Indices |-> [blocks[i] EXCEPT !.event = TRUE]]
    BY <1>7 DEF CreateEvents
  <2>2. /\ blocks' \in [Indices -> Block]
        /\ \A i \in Indices : /\ blocks'[i].id = blocks[i].id
                              /\ blocks'[i].memory = blocks[i].memory /\ blocks'[i].event
    BY <2>0, <2>1 DEF Block
  <2>3. PoolType'
    BY <1>0, <2>1, <2>2 DEF PoolType
  <2>4. BlocksFollowCtl'
    <3>1. blocks' # <<>> /\ initialised'
      BY <2>0, <2>1, <2>2, NoBlocks
    <3>2. \A i \in Indices : blocks[i].id # NoId /\ blocks[i].memory
      BY <1>0, <2>0 DEF BlocksFollowCtl
    <3> QED BY <2>1, <2>2, <3>1, <3>2 DEF BlocksFollowCtl
  <2> QED BY <1>5, <2>0, <2>1, <2>2, <2>3, <2>4 DEF PoolInv
<1>8. CASE RestartScan
  <2>1. /\ blocks' = blocks /\ initialised' = initialised /\ next_id' = next_id /\ shm' = shm
        /\ stale' = stale /\ ctl' = "idle" /\ next_block' = 0 /\ ctl = "open"
    BY <1>8 DEF RestartScan
  <2>2. PoolType'
    BY <1>0, <2>1, NoBlocks DEF PoolType
  <2>3. BlocksFollowCtl'
    BY <1>0, <2>1 DEF BlocksFollowCtl
  <2>4. IdsFresh' /\ NamesLinked'
    BY <1>0, <2>1 DEF IdsFresh, NamesLinked, BlockIds
  <2> QED BY <2>2, <2>3, <2>4 DEF PoolInv
<1> QED BY <1>1, <1>2, <1>3, <1>4, <1>6, <1>7, <1>8 DEF Manager

\* The steps of the threads and of the world leave the pool as it is, but for
\* the start of the next scan.
LEMMA PoolFrame ==
  ASSUME PoolInv, next_block' \in Indices,
         UNCHANGED <<blocks, initialised, next_id, ctl, shm, stale>>
  PROVE  PoolInv'
<1>1. PoolType'
  BY DEF PoolInv, PoolType
<1>2. BlocksFollowCtl' /\ IdsFresh' /\ NamesLinked'
  BY DEF PoolInv, BlocksFollowCtl, IdsFresh, NamesLinked, BlockIds
<1> QED BY <1>1, <1>2 DEF PoolInv

----------------------------------------------------------------------------
(***************************************************************************)
(* Reservations.                                                           *)
(***************************************************************************)

\* The part of the type invariant that is about threads and leases.
LeaseType ==
  /\ mutex \in Threads \cup {NoThread}
  /\ claimed \subseteq Ids /\ fresh \subseteq Ids /\ recorded \subseteq Ids
  /\ subs \in [Ids -> 0..(2 * Deliveries)]
  /\ due \in [Ids -> 0..Deliveries]
  /\ stage \in [Threads -> Stages]
  /\ res \in [Threads -> [id : Ids \cup {NoId}, index : Indices]]
  /\ offset \in [Threads -> 0..BlockCount]

LeaseInv == LeaseType /\ ThreadsInv /\ HeldOnce /\ TakersBounded

\* The invariant is the one of the pool and the one of its leases.
LEMMA IInvParts == IInv <=> PoolInv /\ LeaseInv
<1>1. TypeOK <=> PoolType /\ LeaseType
  BY DEF TypeOK, PoolType, LeaseType, Block
<1> QED BY <1>1 DEF IInv, PoolInv, LeaseInv

\* A manager step closes the pool only when no thread scans it.
LEMMA LeaseManagerStep ==
  ASSUME PoolInv, LeaseInv, Manager
  PROVE  LeaseInv'
<1>1. UNCHANGED <<mutex, leaseVars, threadVars>>
  BY DEF Manager, Reset, InitialiseBegin, CreateFailed, CreateMetadata, AllocateMemory,
     CreateEvents, RestartScan, AllocateFailed, DestroyBlocks
<1>2. mutex = NoThread \/ initialised' \/ ~initialised
  BY DEF Manager, Reset, InitialiseBegin, CreateFailed, CreateMetadata, AllocateMemory,
     CreateEvents, RestartScan, AllocateFailed, DestroyBlocks
<1>3. \A t \in Threads : stage[t] = "scan" => initialised'
  BY <1>2, PoolAssumption DEF LeaseInv, ThreadsInv
<1>4. LeaseType' /\ HeldOnce' /\ TakersBounded'
  BY <1>1 DEF LeaseInv, LeaseType, HeldOnce, TakersBounded, leaseVars, threadVars
<1>5. ThreadsInv'
  BY <1>1, <1>3 DEF LeaseInv, ThreadsInv, leaseVars, threadVars
<1> QED BY <1>4, <1>5 DEF LeaseInv

\* A thread that ends its reservation, or fails to get one, disturbs no other.
LEMMA LeaseDrop ==
  ASSUME LeaseInv, NEW t \in Threads, DropBlock(t), initialised' = initialised,
         mutex' = mutex, recorded' = recorded,
         claimed' = claimed \/ claimed' = claimed \ {res[t].id}
  PROVE  ThreadsInv' /\ HeldOnce'
<1>1. /\ stage'[t] = "none" /\ res'[t].id = NoId
      /\ \A s \in Threads \ {t} : stage'[s] = stage[s] /\ res'[s] = res[s]
  BY DEF DropBlock, LeaseInv, LeaseType, NoRes
<1>2. HeldOnce'
  BY <1>1 DEF LeaseInv, HeldOnce
<1>3. ASSUME NEW s \in Threads \ {t}, stage[s] \in {"held", "recorded", "built"}
      PROVE  res[s].id \in claimed'
  <2>1. res[s].id \in claimed /\ claimed \subseteq Ids
    BY <1>3 DEF LeaseInv, ThreadsInv, LeaseType
  <2>2. res[s].id # NoId
    BY <2>1, PoolAssumption DEF Ids, NoId
  <2>3. res[s].id # res[t].id
    BY <2>2 DEF LeaseInv, HeldOnce
  <2> QED BY <2>1, <2>3
<1>4. ThreadsInv'
  BY <1>1, <1>3 DEF LeaseInv, ThreadsInv
<1> QED BY <1>2, <1>4

\* Every step of a thread keeps reservations apart and claimed.
LEMMA LeaseThreadStep ==
  ASSUME PoolInv, LeaseInv, NEW t \in Threads,
         ReserveBegin(t) \/ Scan(t) \/ Prepare(t) \/ PrepareFails(t) \/ Cancel(t)
  PROVE  LeaseInv' /\ PoolInv'
<1>0. LeaseType /\ ThreadsInv /\ HeldOnce /\ TakersBounded
  BY DEF LeaseInv
<1>p. PoolType
  BY DEF PoolInv
<1>n. NoId \notin Ids
  BY PoolAssumption DEF Ids, NoId
<1>r. NoRes \in [id : Ids \cup {NoId}, index : Indices]
  BY NoBlocks DEF NoRes
<1>1. CASE ReserveBegin(t)
  <2>1. /\ UNCHANGED <<poolVars, leaseVars, res, offset>> /\ mutex = NoThread /\ mutex' = t
        /\ stage[t] = "none" /\ stage'[t] = "scan" /\ stage' \in [Threads -> Stages]
        /\ \A s \in Threads \ {t} : stage'[s] = stage[s]
    BY <1>0, <1>1 DEF ReserveBegin, LeaseType, Stages
  <2>2. initialised' /\ \A s \in Threads : stage[s] # "scan"
    BY <1>0, <1>1, PoolAssumption DEF ReserveBegin, ThreadsInv, poolVars
  <2>3. LeaseType' /\ HeldOnce' /\ TakersBounded'
    BY <1>0, <2>1 DEF LeaseType, HeldOnce, TakersBounded, leaseVars
  <2>4. ThreadsInv'
    BY <1>0, <2>1, <2>2 DEF ThreadsInv, leaseVars
  <2>5. PoolInv'
    BY <1>p, <2>1, PoolFrame DEF poolVars, PoolType
  <2> QED BY <2>3, <2>4, <2>5 DEF LeaseInv
<1>2. CASE ScanHit(t)
  <2>0. PICK n \in Nat : n = next_block + offset[t]
    BY <1>0, <1>p DEF LeaseType, PoolType, Indices
  <2>1. PICK index \in Indices : index = n % BlockCount
    BY IndexWraps
  <2>2. initialised
    BY <1>0, <1>2 DEF ScanHit, ThreadsInv
  <2>3. PICK m \in Ids : m = blocks[index].id
    BY <2>2, OpenPool
  <2>4. /\ stage[t] = "scan" /\ Reservable(m) /\ claimed' = claimed \cup {m}
        /\ recorded' = recorded \ {m} /\ LateSubscribers(m)
        /\ res' = [res EXCEPT ![t] = [id |-> m, index |-> index]]
        /\ stage' = [stage EXCEPT ![t] = "held"]
        /\ offset' = [offset EXCEPT ![t] = 0]
        /\ next_block' = NextStart(index) /\ mutex' = NoThread
        /\ UNCHANGED <<blocks, initialised, next_id, ctl, shm, stale, fresh>>
    BY <1>2, <2>0, <2>1, <2>3 DEF ScanHit
  <2>5. PoolInv'
    <3>1. next_block' \in Indices
      BY <2>4, IndexWraps DEF NextStart, Indices
    <3> QED BY <2>4, <3>1, PoolFrame
  <2>6. /\ res'[t].id = m /\ stage'[t] = "held"
        /\ \A s \in Threads \ {t} : res'[s] = res[s] /\ stage'[s] = stage[s]
    BY <1>0, <2>4 DEF LeaseType
  <2>7. PICK k \in 0..due[m] : /\ subs' = [subs EXCEPT ![m] = subs[m] + k]
                               /\ due' = [due EXCEPT ![m] = 0]
    BY <2>4 DEF LateSubscribers
  <2>8. k \in 0..Deliveries /\ subs[m] = 0 /\ m \notin claimed
    BY <1>0, <2>3, <2>4, <2>7, PoolAssumption DEF LeaseType, Reservable
  <2>9. /\ subs'[m] = k /\ due'[m] = 0
        /\ \A l \in Ids \ {m} : subs'[l] = subs[l] /\ due'[l] = due[l]
        /\ subs' \in [Ids -> 0..(2 * Deliveries)] /\ due' \in [Ids -> 0..Deliveries]
    <3>1. k \in 0..(2 * Deliveries) /\ subs[m] + k = k /\ 0 \in 0..Deliveries
      BY <2>8, PoolAssumption
    <3> QED BY <1>0, <2>7, <3>1 DEF LeaseType
  <2>10. LeaseType'
    <3>1. offset' \in [Threads -> 0..BlockCount] /\ stage' \in [Threads -> Stages]
      BY <1>0, <2>4, PoolAssumption DEF LeaseType, Stages
    <3>2. res' \in [Threads -> [id : Ids \cup {NoId}, index : Indices]]
      BY <1>0, <2>4 DEF LeaseType
    <3>3. claimed' \subseteq Ids /\ recorded' \subseteq Ids /\ fresh' \subseteq Ids
      BY <1>0, <2>4 DEF LeaseType
    <3> QED BY <2>4, <2>9, <3>1, <3>2, <3>3 DEF LeaseType
  <2>11. \A s \in Threads : res[s].id # m
    BY <1>0, <1>n, <2>8 DEF ThreadsInv, LeaseType, Stages
  <2>12. HeldOnce'
    BY <1>0, <2>6, <2>11 DEF HeldOnce
  <2>13. ThreadsInv'
    <3>1. \A s \in Threads \ {t} : stage[s] # "scan"
      BY <1>0, <2>4 DEF ThreadsInv
    <3> QED BY <1>0, <2>4, <2>6, <2>11, <3>1 DEF ThreadsInv
  <2>14. TakersBounded'
    <3>1. subs'[m] + due'[m] <= 2 * Deliveries /\ due'[m] = 0 /\ subs'[m] <= Deliveries
      BY <2>8, <2>9, PoolAssumption
    <3> QED BY <1>0, <2>4, <2>9, <3>1 DEF TakersBounded
  <2> QED BY <2>5, <2>10, <2>12, <2>13, <2>14 DEF LeaseInv
<1>3. CASE ScanMiss(t)
  <2>1. /\ UNCHANGED <<poolVars, mutex, leaseVars, stage, res>>
        /\ offset' \in [Threads -> 0..BlockCount]
    BY <1>0, <1>3, PoolAssumption DEF ScanMiss, LeaseType
  <2>2. LeaseInv'
    BY <1>0, <2>1 DEF LeaseInv, LeaseType, ThreadsInv, HeldOnce, TakersBounded, leaseVars, poolVars
  <2>3. PoolInv'
    BY <1>p, <2>1, PoolFrame DEF poolVars, PoolType
  <2> QED BY <2>2, <2>3
<1>4. CASE ScanFails(t)
  <2>1. /\ UNCHANGED <<poolVars, leaseVars, res>> /\ mutex' = NoThread /\ stage[t] = "scan"
        /\ offset' \in [Threads -> 0..BlockCount] /\ stage' \in [Threads -> Stages]
        /\ stage'[t] = "none" /\ \A s \in Threads \ {t} : stage'[s] = stage[s]
    BY <1>0, <1>4, PoolAssumption DEF ScanFails, LeaseType, Stages
  <2>2. \A s \in Threads \ {t} : stage[s] # "scan"
    BY <1>0, <2>1 DEF ThreadsInv
  <2>3. LeaseType' /\ HeldOnce' /\ TakersBounded'
    BY <1>0, <2>1 DEF LeaseType, HeldOnce, TakersBounded, leaseVars
  <2>4. ThreadsInv'
    BY <1>0, <2>1, <2>2 DEF ThreadsInv, leaseVars, poolVars
  <2>5. PoolInv'
    BY <1>p, <2>1, PoolFrame DEF poolVars, PoolType
  <2> QED BY <2>3, <2>4, <2>5 DEF LeaseInv
<1>5. CASE RecordReady(t)
  <2>1. PICK m \in claimed : m = res[t].id
    BY <1>0, <1>5 DEF RecordReady, ThreadsInv
  <2>2. /\ recorded' = recorded \cup {m} /\ stage' = [stage EXCEPT ![t] = "recorded"]
        /\ stage[t] = "held" /\ UNCHANGED <<poolVars, mutex, claimed, subs, due, fresh, res, offset>>
    BY <1>5, <2>1 DEF RecordReady, Owns
  <2>3. /\ stage' \in [Threads -> Stages] /\ stage'[t] = "recorded"
        /\ \A s \in Threads \ {t} : stage'[s] = stage[s]
    BY <1>0, <2>2 DEF LeaseType, Stages
  <2>4. LeaseType' /\ HeldOnce' /\ TakersBounded'
    BY <1>0, <2>2, <2>3 DEF LeaseType, HeldOnce, TakersBounded
  <2>7. \A s \in Threads \ {t} : res[s].id # m
    BY <1>0, <1>n, <2>1 DEF HeldOnce, LeaseType
  <2>5. ThreadsInv'
    BY <1>0, <2>1, <2>2, <2>3, <2>7 DEF ThreadsInv, poolVars
  <2>6. PoolInv'
    BY <1>p, <2>2, PoolFrame DEF poolVars, PoolType
  <2> QED BY <2>4, <2>5, <2>6 DEF LeaseInv
<1>6. CASE BuildDescriptor(t)
  <2>1. /\ stage' \in [Threads -> Stages] /\ stage'[t] = "built" /\ stage[t] = "recorded"
        /\ \A s \in Threads \ {t} : stage'[s] = stage[s]
        /\ UNCHANGED <<poolVars, mutex, leaseVars, res, offset>>
    BY <1>0, <1>6 DEF BuildDescriptor, LeaseType, Stages
  <2>2. LeaseType' /\ HeldOnce' /\ TakersBounded'
    BY <1>0, <2>1 DEF LeaseType, HeldOnce, TakersBounded, leaseVars
  <2>3. ThreadsInv'
    BY <1>0, <2>1 DEF ThreadsInv, poolVars, leaseVars
  <2>4. PoolInv'
    BY <1>p, <2>1, PoolFrame DEF poolVars, PoolType
  <2> QED BY <2>2, <2>3, <2>4 DEF LeaseInv
<1>7. ASSUME DropBlock(t) PROVE /\ stage' \in [Threads -> Stages] /\ offset' = offset
                                /\ res' \in [Threads -> [id : Ids \cup {NoId}, index : Indices]]
  BY <1>0, <1>7, <1>r DEF DropBlock, LeaseType, Stages
<1>8. CASE PrepareFails(t) \/ CommitFails(t)
  <2>1. DropBlock(t) /\ UNCHANGED <<poolVars, mutex, leaseVars>>
    BY <1>8 DEF PrepareFails, CommitFails, Quarantine
  <2>2. LeaseType' /\ TakersBounded'
    BY <1>0, <1>7, <2>1 DEF LeaseType, TakersBounded, leaseVars
  <2>3. ThreadsInv' /\ HeldOnce'
    BY <2>1, LeaseDrop DEF leaseVars, poolVars
  <2>4. PoolInv'
    BY <1>p, <2>1, PoolFrame DEF poolVars, PoolType
  <2> QED BY <2>2, <2>3, <2>4 DEF LeaseInv
<1>9. CASE Cancel(t)
  <2>1. /\ DropBlock(t) /\ UNCHANGED <<poolVars, mutex, subs, due, fresh, recorded>>
        /\ claimed' = claimed \ {res[t].id}
    BY <1>9 DEF Cancel
  <2>2. LeaseType' /\ TakersBounded'
    BY <1>0, <1>7, <2>1 DEF LeaseType, TakersBounded
  <2>3. ThreadsInv' /\ HeldOnce'
    BY <2>1, LeaseDrop DEF poolVars
  <2>4. PoolInv'
    BY <1>p, <2>1, PoolFrame DEF poolVars, PoolType
  <2> QED BY <2>2, <2>3, <2>4 DEF LeaseInv
<1>10. CASE Commit(t)
  <2>0. PICK m \in Ids : m = res[t].id /\ m \in claimed
    BY <1>0, <1>10 DEF Commit, ThreadsInv, LeaseType
  <2>1. /\ DropBlock(t) /\ UNCHANGED <<poolVars, mutex, subs, recorded>>
        /\ claimed' = claimed \ {res[t].id} /\ fresh' = fresh \cup {m}
        /\ due' = [due EXCEPT ![m] = Deliveries]
    BY <1>10, <2>0 DEF Commit
  <2>2. /\ due' \in [Ids -> 0..Deliveries] /\ due'[m] = Deliveries
        /\ \A l \in Ids \ {m} : due'[l] = due[l]
    BY <1>0, <2>1, PoolAssumption DEF LeaseType
  <2>3. LeaseType'
    BY <1>0, <1>7, <2>1, <2>2 DEF LeaseType
  <2>4. TakersBounded'
    <3>1. subs[m] \in Nat /\ subs[m] <= Deliveries
      BY <1>0, <2>0 DEF TakersBounded, LeaseType
    <3>2. subs'[m] + due'[m] <= 2 * Deliveries /\ m \notin claimed'
      BY <2>0, <2>1, <2>2, <3>1, PoolAssumption
    <3> QED BY <1>0, <2>1, <2>2, <3>2 DEF TakersBounded
  <2>5. ThreadsInv' /\ HeldOnce'
    BY <2>1, LeaseDrop DEF poolVars
  <2>6. PoolInv'
    BY <1>p, <2>1, PoolFrame DEF poolVars, PoolType
  <2> QED BY <2>3, <2>4, <2>5, <2>6 DEF LeaseInv
<1> QED BY <1>1, <1>2, <1>3, <1>4, <1>5, <1>6, <1>8, <1>9, <1>10 DEF Scan, Prepare

\* Subscribers and time change only who may take a block.
LEMMA LeaseWorldStep ==
  ASSUME PoolInv, LeaseInv, NEW m \in Ids,
         SubscriberAcquire(m) \/ SubscriberRelease(m) \/ GraceExpires(m)
  PROVE  LeaseInv' /\ PoolInv'
<1>0. LeaseType /\ ThreadsInv /\ HeldOnce /\ TakersBounded
  BY DEF LeaseInv
<1>1. UNCHANGED <<poolVars, mutex, claimed, recorded, threadVars>>
  BY DEF SubscriberAcquire, SubscriberRelease, GraceExpires
<1>2. PoolInv'
  BY <1>1, PoolFrame DEF poolVars, PoolInv, PoolType
<1>3. ThreadsInv' /\ HeldOnce'
  BY <1>0, <1>1 DEF ThreadsInv, HeldOnce, poolVars, threadVars
<1>4. /\ subs[m] \in Nat /\ due[m] \in Nat /\ due[m] <= Deliveries
      /\ subs[m] + due[m] <= 2 * Deliveries
      /\ m \in claimed => due[m] = 0 /\ subs[m] <= Deliveries
  BY <1>0, PoolAssumption DEF LeaseType, TakersBounded
<1>5. CASE SubscriberAcquire(m)
  <2>1. /\ due[m] > 0 /\ fresh' = fresh /\ due' = [due EXCEPT ![m] = due[m] - 1]
        /\ subs' = [subs EXCEPT ![m] = subs[m] + 1]
    BY <1>5 DEF SubscriberAcquire
  <2>2. due[m] - 1 \in 0..Deliveries /\ subs[m] + 1 \in 0..(2 * Deliveries)
    BY <1>4, <2>1, PoolAssumption
  <2>3. /\ due' \in [Ids -> 0..Deliveries] /\ subs' \in [Ids -> 0..(2 * Deliveries)]
        /\ due'[m] = due[m] - 1 /\ subs'[m] = subs[m] + 1
        /\ \A l \in Ids \ {m} : due'[l] = due[l] /\ subs'[l] = subs[l]
    BY <1>0, <2>1, <2>2 DEF LeaseType
  <2>4. subs'[m] + due'[m] <= 2 * Deliveries /\ m \notin claimed
    BY <1>4, <2>1, <2>3, PoolAssumption
  <2>5. LeaseType'
    BY <1>0, <1>1, <2>1, <2>3 DEF LeaseType, threadVars
  <2>6. TakersBounded'
    BY <1>0, <1>1, <2>3, <2>4 DEF TakersBounded
  <2> QED BY <1>2, <1>3, <2>5, <2>6 DEF LeaseInv
<1>6. CASE SubscriberRelease(m)
  <2>1. /\ subs[m] > 0 /\ fresh' = fresh /\ due' = due
        /\ subs' = [subs EXCEPT ![m] = subs[m] - 1]
    BY <1>6 DEF SubscriberRelease
  <2>2. subs[m] - 1 \in 0..(2 * Deliveries)
    BY <1>4, <2>1, PoolAssumption
  <2>3. /\ subs' \in [Ids -> 0..(2 * Deliveries)] /\ subs'[m] = subs[m] - 1
        /\ \A l \in Ids \ {m} : subs'[l] = subs[l]
    BY <1>0, <2>1, <2>2 DEF LeaseType
  <2>4. /\ subs'[m] + due'[m] <= 2 * Deliveries
        /\ m \in claimed => due'[m] = 0 /\ subs'[m] <= Deliveries
    BY <1>4, <2>1, <2>3, PoolAssumption
  <2>5. LeaseType'
    BY <1>0, <1>1, <2>1, <2>3 DEF LeaseType, threadVars
  <2>6. TakersBounded'
    BY <1>0, <1>1, <2>1, <2>3, <2>4 DEF TakersBounded
  <2> QED BY <1>2, <1>3, <2>5, <2>6 DEF LeaseInv
<1>7. CASE GraceExpires(m)
  <2>1. fresh' = fresh \ {m} /\ subs' = subs /\ due' = due
    BY <1>7 DEF GraceExpires
  <2>2. LeaseType' /\ TakersBounded'
    BY <1>0, <1>1, <2>1 DEF LeaseType, TakersBounded, threadVars
  <2> QED BY <1>2, <1>3, <2>2 DEF LeaseInv
<1> QED BY <1>5, <1>6, <1>7

----------------------------------------------------------------------------
(***************************************************************************)
(* Theorems.                                                               *)
(***************************************************************************)

\* The pool starts empty, with nothing reserved.
LEMMA InvariantInit == Init => PoolInv /\ LeaseInv
<1> SUFFICES ASSUME Init PROVE PoolInv /\ LeaseInv
  OBVIOUS
<1>1. blocks = <<>> /\ shm = {} /\ ctl = "idle" /\ ~initialised
  BY DEF Init
<1>2. PoolType
  <2>1. initialised \in BOOLEAN /\ stale \subseteq Ids
    BY PoolAssumption DEF Init, Ids
  <2>2. next_id \in 0..MaxBlockId
    BY PoolAssumption DEF Init
  <2>3. next_block \in Indices
    BY NoBlocks DEF Init
  <2> QED BY <1>1, <2>1, <2>2, <2>3 DEF PoolType
<1>3. BlocksFollowCtl /\ IdsFresh /\ NamesLinked
  BY <1>1, NoBlockIds DEF BlocksFollowCtl, IdsFresh, NamesLinked
<1>4. NoRes \in [id : Ids \cup {NoId}, index : Indices] /\ NoRes.id = NoId
  BY NoBlocks DEF NoRes
<1>5. LeaseType
  <2>1. /\ subs \in [Ids -> 0..(2 * Deliveries)] /\ due \in [Ids -> 0..Deliveries]
        /\ offset \in [Threads -> 0..BlockCount]
    BY PoolAssumption DEF Init
  <2>2. /\ stage \in [Threads -> Stages]
        /\ res \in [Threads -> [id : Ids \cup {NoId}, index : Indices]]
    BY <1>4 DEF Init, Stages
  <2> QED BY <2>1, <2>2 DEF Init, LeaseType
<1>6. ThreadsInv /\ HeldOnce
  BY <1>4 DEF Init, ThreadsInv, HeldOnce
<1>7. TakersBounded
  BY PoolAssumption DEF Init, TakersBounded
<1> QED BY <1>2, <1>3, <1>5, <1>6, <1>7 DEF PoolInv, LeaseInv

\* Every step keeps both halves of the invariant.
LEMMA InvariantStep == PoolInv /\ LeaseInv /\ [Next]_vars => PoolInv' /\ LeaseInv'
<1> SUFFICES ASSUME PoolInv, LeaseInv, [Next]_vars PROVE PoolInv' /\ LeaseInv'
  OBVIOUS
<1>1. CASE Manager
  BY <1>1, PoolStep, LeaseManagerStep
<1>2. ASSUME NEW t \in Threads,
             ReserveBegin(t) \/ Scan(t) \/ Prepare(t) \/ PrepareFails(t) \/ Cancel(t)
      PROVE  PoolInv' /\ LeaseInv'
  BY <1>2, LeaseThreadStep
<1>3. ASSUME NEW m \in Ids, SubscriberAcquire(m) \/ SubscriberRelease(m) \/ GraceExpires(m)
      PROVE  PoolInv' /\ LeaseInv'
  BY <1>3, LeaseWorldStep
<1>4. CASE UNCHANGED vars
  <2>1. PoolInv'
    BY <1>4, PoolFrame DEF vars, PoolInv, PoolType
  <2>2. LeaseInv'
    BY <1>4 DEF vars, LeaseInv, LeaseType, ThreadsInv, HeldOnce, TakersBounded
  <2> QED BY <2>1, <2>2
<1> QED BY <1>1, <1>2, <1>3, <1>4 DEF Next

\* The inductive invariant of the publisher's pool, for every number of blocks,
\* ids, threads and subscribers.
THEOREM PoolInvariant == Spec => []IInv
<1>1. Spec => [](PoolInv /\ LeaseInv)
  BY InvariantInit, InvariantStep, PTL DEF Spec
<1>2. PoolInv /\ LeaseInv => IInv
  BY IInvParts
<1> QED BY <1>1, <1>2, PTL

\* The pool's state keeps its types: ids stay below the limit at which
\* next_process_block_id gives out no more, indices within blocks_.
THEOREM PoolTypeCorrect == Spec => []TypeOK
<1>1. IInv => TypeOK
  BY DEF IInv
<1> QED BY <1>1, PoolInvariant, PTL

\* initialise() is all or nothing on every error path: a closed pool has no
\* block and no name, an open one BlockCount distinct complete blocks.
THEOREM PoolIsAllOrNothing == Spec => []PoolAllOrNothing
<1>1. IInv => PoolAllOrNothing
  <2> SUFFICES ASSUME IInv PROVE PoolAllOrNothing
    OBVIOUS
  <2>0. PoolInv
    BY IInvParts
  <2>1. ctl = "idle" /\ ~initialised => blocks = <<>> /\ shm = {}
    BY <2>0, NoBlockIds DEF PoolInv, BlocksFollowCtl, NamesLinked
  <2>2. initialised =>
          /\ Cardinality(BlockIds) = BlockCount /\ shm = BlockIds
          /\ \A i \in Indices : blocks[i].memory /\ blocks[i].event
    BY <2>0, OpenPool, OpenPoolCount
  <2> QED BY <2>1, <2>2 DEF PoolAllOrNothing
<1> QED BY <1>1, PoolInvariant, PTL

\* Two PublishBlocks never hold one block, and what they hold stays claimed,
\* also across a reset of the pool.
THEOREM ReservationsAreDisjoint == Spec => []ReservationsDisjoint
<1>1. IInv => ReservationsDisjoint
  <2> SUFFICES ASSUME IInv, NEW t \in Threads, res[t].id # NoId
               PROVE  /\ res[t].id \in claimed
                      /\ \A s \in Threads \ {t} : res[s].id # res[t].id
    BY DEF ReservationsDisjoint
  <2>1. stage[t] \in {"held", "recorded", "built"}
    BY DEF IInv, TypeOK, Stages, ThreadsInv
  <2> QED BY <2>1 DEF IInv, ThreadsInv, HeldOnce
<1> QED BY <1>1, PoolInvariant, PTL

\* A descriptor that prepare_publish returns names a complete block of the pool
\* as it is, whose ready event was recorded under this very reservation: a block
\* starts a grace period only in such a step.
THEOREM DescriptorsAreUsable == Spec => DescriptorIsUsable
<1>1. IInv /\ [Next]_vars =>
        [\A m \in fresh' \ fresh :
           /\ initialised /\ m \in recorded
           /\ \E i \in Indices : /\ blocks[i].id = m
                                /\ blocks[i].memory /\ blocks[i].event]_vars
  <2> SUFFICES ASSUME IInv, Next, NEW m \in fresh' \ fresh
               PROVE  /\ initialised /\ m \in recorded
                      /\ \E i \in Indices : /\ blocks[i].id = m
                                           /\ blocks[i].memory /\ blocks[i].event
    OBVIOUS
  <2>1. PICK t \in Threads : Commit(t)
    BY DEF Next, Manager, Reset, InitialiseBegin, CreateFailed, CreateMetadata, AllocateMemory,
       CreateEvents, RestartScan, AllocateFailed, ReserveBegin, Scan, ScanHit, ScanMiss,
       ScanFails, Prepare, RecordReady, BuildDescriptor, CommitFails, Quarantine, PrepareFails,
       Cancel, SubscriberAcquire, SubscriberRelease, GraceExpires, leaseVars
  <2>2. m = res[t].id /\ Owns(res[t]) /\ stage[t] = "built"
    BY <2>1 DEF Commit
  <2>3. initialised /\ res[t].index \in Indices /\ blocks[res[t].index].id = m
    BY <2>2 DEF Owns, IInv, TypeOK
  <2>4. m \in recorded
    BY <2>2 DEF IInv, ThreadsInv
  <2>5. \A i \in Indices : blocks[i].memory /\ blocks[i].event
    BY <2>3, IInvParts, OpenPool
  <2> QED BY <2>3, <2>4, <2>5
<1> QED BY <1>1, PoolInvariant, PTL DEF Spec, DescriptorIsUsable

\* A claim ends only in a commit or in a cancel() by the PublishBlock that holds
\* it, the latter before a ready event is recorded: no step gives a block back
\* that a failed prepare_publish left behind.
THEOREM QuarantineIsForGood == Spec => QuarantineIsFinal
<1>1. IInv /\ [Next]_vars =>
        [\A m \in claimed \ claimed' :
           /\ \E t \in Threads : res[t].id = m
           /\ m \in recorded => m \in fresh']_vars
  <2> SUFFICES ASSUME IInv, Next, NEW m \in claimed \ claimed'
               PROVE  /\ \E t \in Threads : res[t].id = m
                      /\ m \in recorded => m \in fresh'
    OBVIOUS
  <2>1. PICK t \in Threads : Commit(t) \/ Cancel(t)
    BY DEF Next, Manager, Reset, InitialiseBegin, CreateFailed, CreateMetadata, AllocateMemory,
       CreateEvents, RestartScan, AllocateFailed, ReserveBegin, Scan, ScanHit, ScanMiss,
       ScanFails, Prepare, RecordReady, BuildDescriptor, CommitFails, Quarantine, PrepareFails,
       SubscriberAcquire, SubscriberRelease, GraceExpires, leaseVars
  <2>2. CASE Commit(t)
    BY <2>2 DEF Commit
  <2>3. CASE Cancel(t)
    <3>1. m = res[t].id /\ stage[t] = "held"
      BY <2>3 DEF Cancel
    <3>2. m \notin recorded
      BY <3>1 DEF IInv, ThreadsInv
    <3> QED BY <3>1, <3>2
  <2> QED BY <2>1, <2>2, <2>3
<1> QED BY <1>1, PoolInvariant, PTL DEF Spec, QuarantineIsFinal
=============================================================================
