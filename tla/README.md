# Formal model of ros2_cuda_ipc

`ros2_cuda_ipc` passes GPU buffers between ROS 2 processes without copying them:
a publisher writes a block of CUDA memory, sends a small descriptor through the
middleware, and each subscriber process maps the block, makes its own stream
wait for the publisher's event, reads, and gives the block back. This directory
holds TLA+ modules for the protocol, TLC configurations that check them on small
instances, and TLAPS proofs. Paths below are relative to the repository root;
`core/` stands for `ros2_cuda_ipc_core/`.

## 1. The system

| Component | State | Operations |
|---|---|---|
| **Block metadata, `BufferRef`** (`core/src/buffer_metadata/`) | one shared-memory object per block: three atomics `uid` (64 bit), `refcount` (32 bit), `publish_timestamp_us` | publisher: `reserve_for_publish`, `commit_publish`, `cancel_publish`; subscriber: `acquire`, `release` |
| **`GpuBufferPool`, `GpuBufferManager`, `PublishBlock`** (`core/src/publisher/`) | `blocks_`, `initialised_`, `next_block_`, a mutex, the process-wide block id counter; a `PublishBlock` owns one reservation | `initialise`, `reset`, `reserve_for_publish` (round robin), `record_ready`, `try_build_descriptor`, `commit`, `cancel`, quarantine; orphan cleanup in `/dev/shm` |
| **`BufferMapper`, `BufferMetadataCache`** (`core/src/subscriber/`) | mappings of metadata objects, keyed by (pid, block id) | `map`, `get_or_attach` |
| **`IpcHandleCache`, importer** | one import per key (device, pid, block id, socket path, event handle), shared and kept until `clear` | `find`, `insert_or_discard_duplicate`, `clear`, `import`, `release_imported_resources` |
| **`ReadHandle`, `DeferredReleaseQueue`** | a publication or a bound read; the queue, its worker thread, the retained failures | `make_publication`, `make_bound`, `release`, `enqueue`, `run` |
| **VMM-FD backend, `UnixFdServer`** (`core/src/backend/`) | address range, allocation, mapping, file descriptor and a socket server thread per block | `allocate_vmm_fd_memory` block by block, `start`, serve, `stop`, `destroy_vmm_fd_memory` |
| **CUDA context helpers** | per-thread context stack, shared primary contexts | push, pop, retain, release |
| **Message conversion; typed image and point cloud handles** | a typed handle owns the read and a layout | field copies; `from_message` with its validation |
| **Python bindings** | a `GpuImage` that is available, consumed or closed; read handles | descriptor parsing, `map`, `dlpack`, `from_message`, `close`, capsule destructors |
| **Example nodes, transport plugins** (`examples/multi_process_image_fanout`, `utils/gpu_image_transport`) | a stream, device or pinned buffers with the size they were made for, the last result; one pool or mapper | callbacks: prepare device and stream, read, validate, make room, launch, wait, publish |

How they interact. A publisher callback takes a `PublishBlock` (pool mutex, then
`BufferRef` on shared memory), enqueues its writes, calls `prepare_publish`
(ready event, descriptor, commit) and publishes the descriptor. The middleware
may deliver it late, more than once, or not at all. A subscriber thread looks
the locator up in the metadata cache or attaches it, acquires a reference, finds
or imports the memory, binds the publication to its stream and reads. The
destructor of the `ReadHandle` records a completion event and hands reference
and import to the worker, which releases them when the event has passed.
Publisher and subscribers share only the three atomics and the CUDA event.

What is hard here:

* the block protocol is lock-free between processes, its uid, count and timestamp
  are separate atomics, and it has no reply channel;
* messages outlive the publication they describe and even the process that sent
  them; pids and names are reused;
* `prepare_publish` takes the pool mutex three times, `cancel` not at all, and
  `initialise`/`reset` may run between any two of these sections;
* GPU work is asynchronous, so a destructor must not free what is still read;
* every CUDA or POSIX call may fail halfway through a sequence.

What makes each part correct:

* **block**: the counter counts exactly the references; a reservation is
  exclusive and for a fresh uid; a block is won only when nobody refers to it and
  its grace period is over; a reference is never more than one generation old;
* **pool**: initialisation is all or nothing; two reservations never share a
  block; a descriptor names a block that exists, with its ready event recorded;
  a quarantined block is not used again; no block starves;
* **publisher to reader**: from the moment a consumer's kernel starts until its
  reference is returned, the block holds the image the message was sent with;
* **mapper**: what is accepted is of the incarnation that sent it, and at most one
  publication further than the message; every reference acquired is owned or given
  back; one import per block; a
  current descriptor is accepted;
* **VMM-FD backend**: a failed or destroyed pool leaves nothing behind; a worker
  sends only its own open descriptor, to clients of its own path; clients are
  answered; destruction ends;
* **import**: a failure anywhere leaves nothing behind; what is used is whole and
  what nobody uses is released, once;
* **typed handles, Python**: a lease has one owner until its release; every element
  that shape and strides of a tensor, an image or a cloud address is inside the
  `byte_size` its message declared, of a block that is still leased;
* **nodes**: the stream never has work for a buffer that is gone or too small;
  kernels and copies stay inside the image's `byte_size`; a result is of its own image;
* **reads**: reference and import outlive the GPU work; the work follows the
  ready event; each read has one owner; every release completes.

## 2. Modules

| Module | Models |
|---|---|
| `BlockLease` | abstract specification of one block: claimed or free, generations, leases |
| `BufferRef` | `buffer_ref.cpp`, one step per atomic access, one block |
| `GpuBufferPool` | `gpu_buffer_pool.cpp`, `gpu_buffer_manager.cpp` |
| `BufferMapper` | `buffer_mapper.cpp`, `buffer_metadata_cache.cpp`, `ipc_handle_cache.cpp`, orphan cleanup |
| `ReadHandle` | `read_handle.cpp` with the GPU as one FIFO per stream |
| `PublisherNode` | `gpu_image_publisher.cpp` end to end: `PublishBlock`, the GPU stream with the ready event, messages, subscribers' leases and reads |
| `UnixFdServer` | `memory_backend.cpp`: allocation, export, socket servers and destruction; `request_fd_from_publisher` |
| `VmmImport` | `memory_importer.cpp` call by call, `ipc_handle_cache.cpp`, `cuda_driver_context.cpp` |
| `DlpackExport` | ownership in `native_module.cpp`, `image_read_handle.cpp` and `pointcloud2_read_handle.cpp`, stream and version arguments of `_api.py` |
| `TensorLayout` | descriptor parsing and validation of `native_module.cpp`, `project_to_tensor`, the checks of `pointcloud2_read_handle.cpp` |
| `ImageLayout` | `image_read_handle.cpp`: which images are accepted, and the bytes that kernels and copies then read |
| `ConsumerNode` | `encoder_like_node.cpp`, `inference_like_node.cpp`, `preview_node.cpp`, `gpu_image_transport_base.cpp`, `gpu_image_transport.cpp`, `gpu_image_transport_compressed.cpp` |
| `MC*` | the instances TLC checks |
| `BufferRefProofs`, `GpuBufferPoolProofs`, `BufferMapperProofs`, `ReadHandleProofs`, `UnixFdServerProofs`, `VmmImportProofs`, `PublisherNodeProofs` | inductive invariant, lemmas and theorems about the module of that name |
| `SubscriberProofs` | the same for `DlpackExport` and `ConsumerNode`, with the lemmas on layouts that both need |

The definition-by-definition correspondence is in `PROJECT.json` under `map`.
Each module's `Mut*` operators are deliberately broken versions of a definition;
each property has one that makes TLC find it violated.

### BufferRef and BlockLease

`uid`, `refcount` and `ts` are the shared atomics. `ppc`/`rpc` say which access a
thread performs next; `puid`, `pnow`, `ruid`, `robs` are its locals. `msgs` is the
set of uids sent: a subscriber may take any of them at any time, which covers
delay, reordering and duplication. `mutex` is the pool mutex, held by
`reserve_for_publish` and `commit_publish` and not by `cancel_publish`. `leaked`
counts references whose process is gone or that were quarantined, and stay
counted. `Decremented` is arithmetic modulo `RefMax + 1`, as `fetch_sub` is. A
clock at most `MaxClock` drives the grace period.

`BlockLease` is what the protocol promises: `Claim` of a free block, `Advance` to
the next generation, `Finish`, `Grant` of a lease to somebody who asks for the
current generation, `Drop`. The refinement mapping counts a reader as a lease
once its recheck of the uid has succeeded; `Claim` of the abstract block is the
successful compare-and-swap, `Advance` the store of the uid. A claim that finds
the last uid is bound to fail (the code stores 0 over the counter and returns
nothing) and maps to a stutter.

### GpuBufferPool

Blocks carry their process-wide id, which names the metadata object too. The
lease state of a block (`claimed`, `subs`, `fresh`) is the view `BlockLease`
justifies; `due` says how many subscribers will still take the current
publication, `LateSubscribers` adds those that get in between claim and new uid.
`ScanHit`, `ScanMiss` and `ScanFails` are the iterations of the round robin under
the mutex; `RecordReady`, `BuildDescriptor` and `Commit` are the three mutex
sections of `prepare_publish`, each with `Owns` as its guard, and a failure of
any of them quarantines. `initialise` is broken at each of its fallible steps;
`RestartScan` is the assignment to `next_block_` after `initialised_` is already
true, which happens outside the mutex. `destroy_blocks` takes the mutex, so
`Reset` and `InitialiseBegin` happen between any two mutex sections of the other
threads but not within one. One thread at a time initialises or resets.
A quarantined block is one in `claimed` that no thread's `res` names:
`QuarantineIsFinal` says that nothing takes it out of there.

### BufferMapper

One locator (pid, block id) and the publisher incarnations that use it in turn.
`stage` walks a thread through `get_or_attach` (lookup under the lock, attach
without, insert under the lock), `acquire`, `find`, `import`, `share`. The
publisher's reservation and the subscriber's `acquire` take one step per atomic
access, as in `BufferRef`: `Claim` raises the counter and `StoreUid` moves the uid
afterwards, `AcquireRef`, `IncrementRef`, `RecheckUid` and `UndoRef` fit in anywhere
(finding 1). `claim` is the publisher's unit in the counter; a publisher that dies
with one leaves it there. `Commit` sends the descriptor, `Cancel` may follow a reset.
The grace period is left out, which allows a block to be claimed earlier.
`Crash` leaves the name behind, `Withdraw` unlinks it, `Restart` replaces it.
`CleanupCheck` and `CleanupUnlink` are the two halves of the orphan cleanup of
another publisher, `doomed` the incarnation that the first half has found dead.
`valid` and `outcome` are history variables for `CurrentDescriptorAccepted`.

### ReadHandle

`gpu` has one FIFO per stream with the wait, work and record operations of each
handle; `GpuStep` executes the head when it can. `CU_STREAM_LEGACY` and
`CU_STREAM_PER_THREAD` are one name that the driver resolves by the current
context, so `WaitQueue` (where the wait goes) and `WorkQueue` (where work and
record go) are separate. `DeferredReleaseQueue` appears with its condition
variable: the push, `notify_one`, sleeping and the re-test are separate steps.
Failures of event record, queueing and waiting retain the handle.

### UnixFdServer

The blocks of one pool or of two (`Layouts`), each with its `VmmFdBlockState`. The
thread of a pool goes through its blocks in turn (`Turn`): `Export` makes address
range, memory, mapping and descriptor, `Start` the server; `ExportFails` and
`StartFails` leave what the calls before have made, to be destroyed after the blocks
in front. Destruction is step by step, in the order of `~VmmFdBlockState`: `stop`,
descriptor, memory. `owner` is where that thread is with a block, `worker` where
`run` is. The kernel is
there as far as the code depends on it: `table` maps descriptor numbers to
sockets, the lowest free number is given out next, and `accept` looks its number
up when it is entered and then waits on the socket. Reading `listen_fd_` and
entering `accept` are two steps, as are the four assignments and calls of `stop`.
A failing `start` and the stop of a server that never ran are included; a thread
that cannot be created is not. The checks before the first block (driver,
granularity) leave nothing to destroy.

### PublisherNode

The image publisher, its stream and the subscribers of its images in one module.
`node` is where `on_timer` is; `uid`, `phase` and `pinned` are the block as
`BlockLease` has it, and `BlocksKeepTheirPromise` shows that every step of the node
and of the subscribers is a step of that specification for each block, so the result
composes with the proof that `BufferRef` implements it. `stream` is the FIFO of
`stream_`; a write takes two steps, and between them the block holds neither image.
`issued` and `completed` count the records of a block's ready event;
`cuStreamWaitEvent` captures the last record enqueued (`Wait`), as CUDA specifies.
`LaunchFails` cancels the reservation, with or without the kernel in the stream:
`cudaGetLastError` may report an earlier error. `PrepareFails` quarantines. The
publisher may be destroyed, leave by an exception or be killed with work in its
stream; what it had not written then is in `lost`. Messages stay in `msgs`, to be
taken late, twice or never. `late` marks a lease that was granted between a claim and
the next uid (finding 1).

### VmmImport

One key. `pc` walks a thread through the nine calls of `import`; `RolledBack` says
what the branch of each failing call gives back, `Leave` what leaving the scope
does. `Construct`, `ConstructThrows`, `ControlBlockThrows`, `Share`, `ShareThrows`
are the outcomes of `insert_or_discard_duplicate`; the shared pointers to an
object are `cache` and `result`. An object is named after the thread that built
it, so a thread does not build a second one while its first is in use. Clean-up
calls of the driver are taken to succeed.

### DlpackExport

For every successful `map`: the image, its publication, the export context, the
managed tensor, the capsule and its name, the framework, the early-bound read and the
typed handle (image or point cloud) that takes it, with the layout of a message that
need not be the one that was mapped. `size` is the `byte_size` of the mapped message,
which is all that the checks see; `extent` is what the import has really mapped
(`MapBlock`): a cached import is found by a key without the size, so the two are
independent. `layout` is what the owner addresses; `TensorLayout` decides which
messages are accepted at each point, with words of `WordMax` and counts of
`StepModulus`, and says which bytes that makes reachable. Calls hold the
interpreter lock and are single steps, except a throwing `dlpack`, whose handler and unwinding are two. Frameworks and the
collector act between any two steps.

### ImageLayout and ConsumerNode

The five consumers do the same things in the same order, so one module has their
callback and an operator per node for what differs: which images it processes
(`EncoderAccepts`, ...), the size of the result (`EncoderRoom`), when the buffer of
an earlier callback is used again (`EncoderKeeps`) and the calls of `on_image`
(`EncoderCalls`). `node` is chosen in `NodeInit`. Every call succeeds or fails
(`CallFails`, `StateFails`, `MakeRoomFails`, ...), and a callback that returns early
leaves in `gpu` what it has launched. `heap` says of each allocation its size, its
place and the frames its contents come from; `report` is the last message with the
frames it was computed from and the number of bytes taken from the host buffer. The
compressed transport hands the copy to `cv::Mat`, which refuses a step shorter than a
row and throws; the exception leaves `spin` and `main` destroys the node
(`PublishThrows`), as does any exception of `publish`. An unknown format and a failing
`imencode` publish nothing (`PublishSkipped`). The executor runs one callback at a time. A failing
`cudaStreamSynchronize` means that the work has failed, so none is left; `cudaFree`
is not taken to wait for the stream, although it often does.

`ImageLayout` keeps the arithmetic: the extent that `sanity_check` computes in 128
bits, the cast of the preview's step to 32 bits (`StepModulus`), and the set of
offsets each kernel or copy reads, from its index computations.

## 3. Runs

| Run | Question | Result |
|---|---|---|
| `block` | all interleavings of 2 publisher threads and 3 subscribers: count exact, references at most one generation old, reservations exclusive, blocks won only when unreferenced and after the grace period, nothing wraps; `BufferRef` implements `BlockLease` | holds |
| `block_stale` | can a reservation coexist with a valid reference of an older uid | yes: finding 1 |
| `pool` | two threads reserve, prepare and cancel against `initialise`/`reset`, with failures; does a quarantined block stay out of use | holds |
| `pool_progress` | is every block of an open pool reserved again and again | holds |
| `reads` | references and imports outlive reads, reads follow the ready event, one owner, every release completes | holds |
| `reads_special_stream` | do reads follow the ready event when the caller has another device current | no: finding 2 |
| `mapper` | both caches under claims, publications, crash, restart, clean-up and duplicate threads: references of the right process and at most one publication old, balanced; one import; current descriptors accepted; names taken by a clean-up only from what was dead at its check and its successors | holds |
| `publisher` | from reservation to read, with failing launches and preparations, late messages, killed processes and destruction under pending work: does a read see the image of its message; does each block keep `BlockLease` | holds, but for the two cases the property names |
| `fd_server` | blocks of one pool or two allocated, served and destroyed under failing calls and a connecting or dying subscriber: nothing left behind, only open descriptors sent, only a stopping worker strays, clients are answered, destruction ends unless a worker has strayed | holds |
| `import` | imports with failures, sharing, clearing: nothing left behind, used is whole, unused is released, retains balance up to one per throw of `retain_primary` | holds |
| `dlpack` | export, typing, closing, collection in any order, with some 870 image and 970 cloud messages: one owner per lease, what is reachable is leased and inside the declared `byte_size`, leases returned | holds |
| `nodes` | five consumers on images of changing size, device and layout, with failing calls: pending work stays in live buffers, reads inside the image's `byte_size`, results of their own image, nothing leaked | holds |

Bounds.

* `BufferRef`: three readers and `RefMax = 3` make the counter reach its limit
  with a publisher's unit in it; two publisher threads contend; `UidMax = 5`
  leaves four generations, so a message can be several generations old and the
  overflow path is reached; `Grace = 2` and `MaxClock = 4` let two publications
  pass their grace period; one crash.
* `GpuBufferPool`: two blocks and four ids give two initialisations and then
  exhaustion of the id space, so indices of an old reservation meet a new pool.
  The progress run has three blocks, the least with which a scan can skip over a
  block in front of another, and one initialisation.
* `BufferMapper`: two threads are enough for every pair of racing lookups,
  acquires, insertions and imports; two incarnations give stale messages of an earlier
  process. With three publications of the first a message can be two behind its block
  when its reference is counted, so the bound of one could be missed; with
  `uid = msg.uid` in place of the bound the run fails, so the window is reached. Two
  publications of the second let the cache be stale within it too. The run switches
  deadlock checking off because publishers may all be gone before anything was sent.
* `ReadHandle`: two handles on one stream or on different ones, two pieces of
  work each; handles are reused. Three handles with one piece of work were also
  checked (9.6 million states) and gave the same result.
* `PublisherNode`: two blocks let one be written while the other is read; two
  subscribers let one hold a block that another reads late; two generations and two
  images are enough for a read to meet the next write on its block. Deadlock checking
  is off because the publisher ends.
* `UnixFdServer`: two blocks, as one pool (a failure at the second destroys the first)
  and as two (destruction of one runs while the other serves). Two servers are also the least with which a number can be reused, and
  one client shows both the stray answer and the wait for one. The safety
  properties of the server were also checked with two clients, one of which waits behind
  the other. Nobody starts a server again after its stop, as in the code, so runs end
  and deadlock checking is off.
* `VmmImport`: three threads give an importer, a duplicate and a user at once; one
  throw of `retain_primary` keeps the count of retains finite. Deadlock checking is
  off because a double release ends the process.
* `ConsumerNode`: four messages give a failed callback, a resized or moved one and
  two more to meet what they left. The images differ in size, in device, in padding
  (with and without the padding of the last row), and include a short block,
  overlapping rows, a planar layout, wide elements and an unknown dtype;
  `StepModulus = 16` makes the step of a four-column image wrap in the preview and a
  wide stride unfit for a transport's message. Deadlock checking is
  off because the node is destroyed in the end.
* `DlpackExport`: one map, since maps share only the interpreter lock, whose holder
  runs to the end of its call. Words have 5 bits and counts 2, so that products and
  addresses reach every limit the code tests; the layouts are tight, padded, planar,
  overlapping and broadcast in blocks that just fit or are a byte short, and cloud
  fields start and end on both sides of the point. `Extents` has a mapping smaller and one
  larger than most messages say. The pointer range `1..3` has values
  inside and on both sides.

Fairness is weak with one exception. In `GpuBufferPool` the node's timer keeps calling
`acquire_for_publish`, its callback proceeds, subscribers release what they hold
and time passes; the mutex need not be fair, and nothing is assumed of failures
or resets, so the progress property speaks of a pool that stays open and of
blocks that are not quarantined. In `ReadHandle` the worker thread, a thread inside a release and
the GPUs run on. Nobody is assumed to map or to destroy a handle. In
`UnixFdServer` workers, the kernel and a thread that destroys its pool run on; the
exception is `accept`, which is strongly fair: it may fail any number of times
(the loop tries again) but not for ever while a connection waits. In
`DlpackExport` objects are collected and frameworks call the deleter in the end.

## 4. Findings

1. **A claim and its uid are two stores** (`buffer_ref.cpp:126`, `138`). A
   subscriber can increment and pass its recheck in between; it then holds a
   valid reference while the publisher writes the next generation.
   `test_buffer_ref.cpp:121` asserts that this cannot happen.
   `StaleLeaseBound` says how far it goes: one generation, never more, and the
   block is not won again before the reference is dropped. The grace period
   makes it unlikely in practice, because the message has to be that old.
2. **The ready wait is enqueued outside the pushed context**
   (`read_handle.cpp:242-249`): a special stream is resolved against whatever
   context the caller has current, so on a host with two devices the reads are
   not ordered behind the publisher's writes.

Smaller observations that the models contain and the passing properties allow
for, without a run of their own:

* `buffer_ref.cpp:132`: after the last of 2^64 uids the counter is set to 0 over
  subscribers' references. `RefcountExact` says that this is the only way in
  which the counter is not the total the protocol document defines.
* `buffer_mapper.cpp:54-79`: on a cache hit the message's `byte_size` is neither in
  the key nor compared with the `allocation_size` of the import, and every later check
  is against `byte_size` (the error at `image_tensor_descriptor.hpp:92` calls that "the
  mapped allocation"). A message that declares more than its publisher allocated can
  so describe data beyond the mapping; the library's publishers always send the size
  of their pool. `ReachableDataIsLeased` states what holds for any message and what
  only for a true `byte_size`; `ConsumerNode` takes `byte_size` to be true.
* `gpu_buffer_pool.cpp:85-89`: the orphan cleanup checks the pid and then unlinks; a
  publisher that gets the reused pid in between loses the name of a block it serves,
  although `future_work.md:15-16` has names without an owner cleaned.
  `OnlyEarlierCheckUnlinks` says that this is the only way to lose it.
* `memory_backend.cpp:144`, `163`: the worker may read `listen_fd_` before `stop`
  closes it and enter `accept` after another socket got the number. It then sends
  its own block to that server's client, or waits there while `stop` waits for it;
  `StrayOnlyWhileStopping` and `StopCompletes` delimit both effects.
* `memory_backend.cpp:213`: the answer to a subscriber that has died raises SIGPIPE
  in a publisher that does not ignore it (`SendToDead`).
* `cuda_driver_context.cpp:189`, `ipc_handle_cache.cpp:75`: the constructor of
  `shared_ptr` deletes the pointer when it throws, so the handlers around it release a
  second time (`RetainThrows`, `GuardUnwinds`), although the header of the first says
  at 113-114 that the path "balances the retain". The first path also loses the received
  file descriptor (`memory_importer.cpp:125`). `NothingOrphaned` therefore allows for one
  retain per throw, and nothing here shows the balance that the header promises.
* `native_module.cpp:507`, `522`: when `PyCapsule_New` fails, the handler calls the
  deleter, and the `unique_ptr` that still owns the export context deletes it again
  while the stack unwinds (`Unwind`), although the comment at 495 says that the failure
  "destroys read safely". `LeaseHasOneOwner` excepts this and says that nothing else is
  deleted twice.
* `gpu_image_publisher.cpp:96-106`: the destructor waits neither for the stream nor for
  readers. `ReadSeesItsImage` says what that can spoil: images still to be written.
* `gpu_image_transport_compressed.cpp:131`, `gpu_image_transport.cpp:65`: the messages
  treat every row as interleaved channels; strides of columns and channels are not
  looked at, so a planar image is published as if it were interleaved. A row stride
  shorter than that ends the compressed node with an exception.
* `native_module.cpp:346-349`: `from_message` leaves the read bound when it refuses the
  descriptor and empties it when it refuses the layout.
* `native_module.cpp:487`: an allocation that fails after the publication has been
  bound leaves the image available without a publication (`ExportOwnerFails`).

## 5. Proofs

What TLC shows on small instances is proved here for every value of the constants:
any number of threads, blocks, subscribers, servers, clients and handles, any widths
and any bounds.

| Module | Theorem | States |
|---|---|---|
| `BufferRefProofs` | `InductiveInvariant` | `IInv` |
| | `TypeCorrect`, `RefcountIsExact`, `LeaseBound`, `ExclusiveReservation` | the invariants of `block` |
| | `ClaimFindsFreeBlock`, `GraceIsRespected` | its action properties |
| | `ProtocolImplementsLease` | the atomics implement `BlockLease` |
| `PublisherNodeProofs` | `PublisherInvariant`, `PublisherTypeCorrect` | `IInv`, `TypeOK` |
| | `ReadsSeeTheirImage` | `ReadSeesItsImage`, end to end |
| | `BlocksImplementLease` | each block of the node implements `BlockLease` |
| `GpuBufferPoolProofs` | `PoolInvariant`, `PoolTypeCorrect` | `IInv`, `TypeOK` |
| | `PoolIsAllOrNothing`, `ReservationsAreDisjoint` | `PoolAllOrNothing`, `ReservationsDisjoint` |
| | `DescriptorsAreUsable`, `QuarantineIsForGood` | the action properties `DescriptorIsUsable`, `QuarantineIsFinal` |
| `BufferMapperProofs` | `MapperInvariant`, `MapperTypeCorrect` | `IInv`, `TypeOK` |
| | `MapperReadsWhatWasSent`, `MapperAcceptsCurrent` | `ReadsWhatWasSent`, `CurrentDescriptorAccepted` |
| | `MapperReferencesBalance`, `MapperSharesImports` | `ReferencesBalance`, `OneImportPerBlock` |
| | `NamesKeptFromLaterChecks` | the action property `OnlyEarlierCheckUnlinks` |
| `ReadHandleProofs` | `ReadInvariant`, `ReadTypeCorrect` | `IInv`, `TypeOK` |
| | `ReferencesOutliveReads`, `ItemsHaveOneOwner` | `ReferenceOutlivesReads`, `OneOwner` |
| | `ReadsWaitForReady` | `ReadsFollowReady`, if no caller has another device current |
| `UnixFdServerProofs` | `ServersInvariant` | `IInv` |
| | `WorkersSendOpenDescriptors`, `DestroyedPoolsLeaveNothing`, `StraysOnlyWhileStopping` | the safety properties of `fd_server` |
| `VmmImportProofs` | `ImportInvariant`, `ImportTypeCorrect` | `IInv`, `TypeOK` |
| | `FailureLeavesNothing`, `UsersSeeWholeResource`, `ImportsAreReleased` | the other properties of `import` |
| `SubscriberProofs` | `ExportInvariant`, `ExportTypeCorrect` | `ExportInv`, `ExportTypeOK` of `DlpackExport` |
| | `OneOwnerPerLease`, `DataIsLeased` | `LeaseHasOneOwner`, `ReachableDataIsLeased` |
| | `NodeInvariant`, `NodeTypeCorrect` | `NodeInv`, `NodeTypeOK` of `ConsumerNode` |
| | `WorkFits`, `ReportsAreOwn`, `BuffersAreOwned` | `PendingWorkFits`, `ReportIsOfItsImage`, `NodeOwnsItsBuffers` |

Assumptions. All are on constants, and TLC evaluates them in the runs:
`ThreadsAssumption`, `WidthAssumption`, `PublisherAssumption`, `PoolAssumption`,
`MapperAssumption`, `ReadAssumption`, `ServerAssumption`, `ImportAssumption`,
`NodeAssumption`, `MapsAssumption`. They say that sets of threads, handles, servers and
clients are finite, that the model values for "none" are not members of them, and that
bounds are naturals, positive where the code needs one of the thing. `Blocks` and `Subs`
of `PublisherNode` need not even be finite. Four more are about layouts:
`StepAssumption` (the modulus of a 32-bit count is positive), `WordAssumption` (a word
holds the product of two counts, as 64 bits do for 32), `ImagesAssumption` and
`MessagesAssumption` (the fields of messages are integers; what the message definitions
declare unsigned is not negative). No theorem assumes that a layout makes sense: that is
what the checks of the code are there for. One theorem has a further hypothesis,
`"there" \notin Callers` of `ReadsWaitForReady`: without it the statement is false,
which is finding 2.

Every inductive invariant was checked by TLC on the instance of its run, with the
infinite ranges of its types cut to finite ones. What the conjuncts are for:

**BufferRef.** `TypeOK` and `RefcountExact`: the counter is the number of claiming
publishers, of counted readers and of leaked units while the uid can advance. A failed
compare-and-swap changes nothing, so every change of the counter is matched by one thread
entering or leaving `Claimed` or `Counted`; `OwnersMove` and `ReadersMove` reduce that to
`CountMove`, a cardinality changing by one. `MutexInv`: which control points imply that
the thread holds the pool mutex; without it two threads could read the clock and the
timestamp and publish in between, and `GraceRespected` would fail. `PublisherInv`: at
most one thread claims, and what its locals say about `uid` and `ts`; the claim needs the
counter to be 0, hence by `RefcountExact` nobody else claims, which is why exclusivity
and the count are proved together. `MessageInv`: uids sent are at most the current one,
and smaller than a reserved one. `ReaderInv`: a reader past its recheck has the current
uid or, if it got in between claim and store, the one before, and then nobody is between
claim and store again; this is what makes `StaleLeaseBound` inductive. The refinement
uses the same invariant: `OwnerIs` identifies the claiming thread, `LeaseStep` has one
step per action, each a step of the abstract block or a stutter.

**PublisherNode.** The property speaks of memory, the reason lies in the stream.
`NodeFollowsBlock`: where `on_timer` is says what phase its block is in.
`GenerationOf`, `WritesInOrder`, `RecordsInOrder`: no memory, write or record is of a
generation the block has not reached, the stream holds at most one write per
generation, in order, and records complete in the order of their numbers.
`MessagesCommitted`: a generation that is being written has no message.
`ImagesFollow`: the image of a message is in the block, still in the stream, written over
by a later generation, or lost with the publisher; and a record behind its write is
among those issued. `LeaseOf`: a lease that was not late keeps its block free at the
generation of its message, a late one lets it advance once. `ReadOf`: a waiting
subscriber's captured record covers all writes up to its message, so at the start of
the kernel they are done. `LostAtEnd`: what is pending when the publisher ends is what is
lost. `BlocksImplementLease` needs only the first of these; together with
`ProtocolImplementsLease` it connects the end-to-end result with the atomics.

**GpuBufferPool.** `BlocksFollowCtl` says what the blocks have by how far `initialise`
is; `IdsFresh` that ids are given out in order; `NamesLinked` that the names of the
process are those of its blocks. `ThreadsInv` and `HeldOnce` are about reservations that
survive a reset: what a `PublishBlock` holds stays claimed under an id no later block
gets, so an old reservation never meets a new block, and its ready event is recorded
exactly from `record_ready` on, so a `cancel` never ends the claim of a block the GPU
has been told of. `TakersBounded` bounds the
subscribers of a block.

**BufferMapper.** `UidsInRange` and `MessagesInRange` place every uid in the range of its
incarnation; the ranges are disjoint (`RangesDisjoint`), so a comparison of uids tells
incarnations apart (`UidNamesSender`), which gives `MappingIsSenders` for every mapping
that has passed one. `OneClaimAhead` says how far the uid may be ahead of a counted
reference's message: a reference that is past its recheck keeps the counter above 0,
so at most the claim it got in behind can still move the uid. `ClaimsHaveUids` bounds
the uid of a claim, and `UnitMoves` and `UidMoves` name what the steps do to both.
`DoomedIsDead`: a process that a cleaner has found dead does not serve, only a successor
may. `ValidIsCurrent` tells when a descriptor is current
throughout. `OfferedImportsAreFresh` keeps an import that is being offered apart from
the cached ones, and a counting argument (`FreshImport`) shows that names for imports do
not run out.

**ReadHandle.** `StreamsInOrder`: the completion record of a handle is in the queue once,
on its own stream, with its reads in front of it once it is released.
`WorkerPastEvent`: when the worker has seen the event, nothing of the handle is left on
the GPU. `HeldWhilePlaced`: reference and resource are held exactly as long as the handle
is bound, queued, retained or with the worker. `WaitBeforeWork`, for `ReadsFollowReady`,
is a second invariant on top: until the ready event has passed, the wait is in front of
every read.

**UnixFdServer.** `OwnerOf` says what a block has by where its owner is; `TableIsListed`
and `NumberOf` make descriptor numbers and listening servers a bijection, so a new
server finds a free number (`NumberIsFree`, by pigeonhole) and nobody's number is given
out twice. `WorkerOf`: the worker of a server that is not being stopped is on its own
socket; a stray answer needs a server that has left this state. `ServedOf` and `GotOf`
carry that through accept and send to the client.

**VmmImport.** `LocalsFollowCalls`: what `import` holds is a function of the call it is
at, so the roll-back of each call is complete (`RollBackIsComplete`).
`ObjectsAreWhole`, `ReferencesAreLive`, `ObjectsAreReferred`: an object is whole as long
as the cache, its builder or a user refers to it, and gone otherwise. `RetainsBalance`
counts wrappers against retains, with `lost` for the throws.

**DlpackExport.** `OwnerOf` lists, by how far a map has been handed on, everything that
exists of it: publication, context, managed tensor, capsule, read, view; exactly one of
these holds the lease. An action that hands a map on replaces one disjunct by another
(`OwnerStep`), and maps do not touch each other (`OthersStay`). `UnwindsDeleted` is the
state between a handler and its unwinding, and the only way to `undefined`. `LayoutOf`
says of each layout which checks it has passed. That the checks suffice is arithmetic and
separate: `TensorDataFits`, `ImageDataFits` and `CloudDataFits` bound the offset of every
element by the one of the last, because products of naturals grow with their factors
(`ProductGrows`), for any number of rows, columns and channels and for strides that
overlap or broadcast. A tensor's addresses do not wrap because `project_to_tensor` tests
the block against the end of the address space.

**ConsumerNode.** `ReadsFit` is the same arithmetic for the kernels and copies of the
nodes. Around it: `BuffersOwned` (allocations are those of the fields), `ScratchFollowsStream`
(stream, scalar, device and stage of the callback belong together; this is what a
failing allocation has to restore), `KnownFits` (what is remembered of a buffer describes
it, or is forgotten with it) and `RoomFits`. `PendingOwned` says of all pending work, of
whatever callback, that it is for the buffers the fields name now: buffers change only
when nothing is pending, because encoder and inference wait before they free, and the
other nodes have left no callback without waiting. `CallsInOrder` counts how much of its
program a callback has issued by its next call (`Issued`); the last pieces of pending work
are those, in order, and what has been executed of them is in the buffers
(`EnqueueInOrder`, `ExecuteInOrder`). So work that failed callbacks left in the stream is
in front of this one's, and its result cannot be reported: the scalar is cleared and
the buffer filled after it.

Only model-checked is liveness (`EveryBlockServes`, `ReleasesComplete`,
`ClientsAnswered`, `StopCompletes`, `LeasesReturn`), which needs fairness and is outside
the prover's reach. Every invariant and
action property of a run that passes has its theorem. The type invariants of
`GpuBufferPool` and `ReadHandle` are proved and not among the properties of the runs.

## 6. What is not modelled, and why

* Memory order. Steps interleave sequentially. The accesses to `refcount` are
  read-modify-write operations with acquire/release order; a subscriber that
  increments after a publisher's claim of the next generation synchronises with
  the commit of the previous one, so the bound of one generation does not rest on
  stronger order than the code asks for. The models do not show this themselves.
* Failure of the pool mutex itself; failure of `shm_unlink` other than ENOENT.
* Handles without a CUDA context, which only tests construct.
* The implicit synchronisation of the legacy stream with other streams: leaving it
  out allows more behaviours. `CU_STREAM_PER_THREAD` is treated like the legacy
  stream.
* `initial_uid` is random; `BufferMapper` takes the uid ranges of two incarnations
  to be disjoint. Its mutant shows what happens otherwise.
* In `BufferMapper` imports succeed or fail as a whole (`VmmImport` has the calls);
  the grace period and the counter's limit are in `BufferRef` only.
* In `GpuBufferPool` the allocation of blocks succeeds or fails as a whole;
  `UnixFdServer` has the calls and shows that a failure leaves nothing.
* Driver calls that clean up and fail: the code logs and goes on.
* What the kernels compute; launch files and build files: no protocol state.
* What OpenCV does with a frame beyond the check of its step; compression parameters.
* Headers, encodings and field names, which nothing in the protocol depends on; sizes
  rounded up to the driver's granularity.
* The proof-of-concept programs under `utils/cuda_ipc_poc`: experiments with the CUDA
  calls that precede the library and are no part of it.
* Allocation of CUDA events in the nodes: they are destroyed on every path.

## 7. Plan

Modelled so far: every component above. What a later step could add to the models
is small: `CudaContext` guards moved between scopes, and the failure of an event's
creation inside `InterprocessEvent::create`.

Proofs: every invariant and action property that a run expects to hold is proved for
all constants. What is left are the liveness properties, which need another tool, and
that `VmmImport` refines the atomic import of `BufferMapper` and `UnixFdServer` the atomic
allocation of `GpuBufferPool`, which section 6 mentions and no module states: the two sides
do not share the variables a refinement mapping would need.
