---------------------------- MODULE PublisherNode ----------------------------
(***************************************************************************)
(* The image publisher of the fan-out example, from end to end: its timer  *)
(* callback reserves a block, launches the kernel that fills it, records   *)
(* the block's ready event, commits and publishes; subscriber processes    *)
(* take the message at any later time, lease the block, wait for the ready *)
(* event on the GPU and read.  A block's metadata is taken as BlockLease   *)
(* promises it (BufferRef implements that promise), and each block is      *)
(* shown to keep to it.                                                    *)
(*                                                                         *)
(* The GPU executes the publisher's stream in order; a write takes two     *)
(* steps, between which the block holds neither image.  Subscribers may be *)
(* killed with a lease, and the publisher may be destroyed or killed while *)
(* its stream still has work.                                              *)
(***************************************************************************)
EXTENDS Naturals, Sequences

CONSTANTS
  Blocks, NoBlock,
  Subs,            \* subscriber processes, each with one read at a time
  MaxUid,          \* model bound: generations of a block
  MaxFrames        \* model bound: images published

ASSUME PublisherAssumption ==
  NoBlock \notin Blocks /\ MaxUid \in Nat \ {0} /\ MaxFrames \in Nat \ {0}

VARIABLES
  node,        \* where the publisher process is
  cur,         \* the block of the PublishBlock of on_timer
  uid,         \* per block: the uid in its metadata
  phase,       \* per block: "free", "claimed", "writing" (with the new uid)
  pinned,      \* per block: a killed subscriber's reference is never returned
  mem,         \* per block: the image in its memory
  stream,      \* stream_: operations not yet executed
  issued,      \* per block: records of its ready event enqueued so far
  completed,   \* per block: the last of them that has executed
  frame_index, \* the image on_timer draws next
  msgs,        \* messages published; delivered late, twice or never
  sub,         \* per subscriber: where its read is
  held,        \* per subscriber: the message it reads
  want,        \* per subscriber: the record cuStreamWaitEvent has captured
  late,        \* per subscriber: leased between a claim and its new uid
  lost         \* images whose write was pending when the publisher ended

nodeVars == <<node, cur, frame_index>>
leaseVars == <<uid, phase, pinned>>
gpuVars == <<mem, stream, issued, completed>>
subVars == <<sub, held, want, late>>
vars == <<node, cur, uid, phase, pinned, mem, stream, issued, completed,
          frame_index, msgs, sub, held, want, late, lost>>

Torn     == MaxFrames + 1          \* part of one image and part of another
Images   == [uid : 0..MaxUid, frame : 0..Torn]
Messages == [block : Blocks, uid : 1..MaxUid, frame : 0..MaxFrames]
NoMsg    == [block |-> NoBlock, uid |-> 0, frame |-> 0]
Ops      == [op : {"write", "writing", "record"}, block : Blocks,
             uid : 1..MaxUid, frame : 0..MaxFrames, seq : 0..MaxUid]

TypeOK ==
  /\ node \in {"starting", "idle", "claimed", "acquired", "launched", "recorded",
               "committed", "thrown", "gone"}
  /\ cur \in Blocks \cup {NoBlock}
  /\ (cur # NoBlock) => phase[cur] # "free" \/ node \in {"committed", "gone"}
  /\ uid \in [Blocks -> 0..MaxUid]
  /\ phase \in [Blocks -> {"free", "claimed", "writing"}]
  /\ pinned \in [Blocks -> BOOLEAN]
  /\ mem \in [Blocks -> Images]
  /\ stream \in Seq(Ops)
  /\ \A i \in DOMAIN stream : stream[i].op = "writing" => i = 1
  /\ issued \in [Blocks -> 0..MaxUid] /\ completed \in [Blocks -> 0..MaxUid]
  /\ \A b \in Blocks : completed[b] <= issued[b]
  /\ frame_index \in 0..MaxFrames
  /\ msgs \subseteq Messages
  /\ sub \in [Subs -> {"idle", "leased", "waiting", "reading"}]
  /\ held \in [Subs -> Messages \cup {NoMsg}]
  /\ \A s \in Subs : held[s] \in msgs \cup {NoMsg} /\ (held[s] = NoMsg <=> sub[s] = "idle")
  /\ want \in [Subs -> 0..MaxUid]
  /\ late \in [Subs -> BOOLEAN]
  /\ lost \subseteq Blocks \X (1..MaxUid)

Init ==
  /\ node = "starting" /\ cur = NoBlock /\ frame_index = 0
  /\ uid = [b \in Blocks |-> 0] /\ phase = [b \in Blocks |-> "free"]
  /\ pinned = [b \in Blocks |-> FALSE]
  /\ mem = [b \in Blocks |-> [uid |-> 0, frame |-> 0]]
  /\ stream = <<>>
  /\ issued = [b \in Blocks |-> 0] /\ completed = [b \in Blocks |-> 0]
  /\ msgs = {} /\ lost = {}
  /\ sub = [s \in Subs |-> "idle"] /\ held = [s \in Subs |-> NoMsg]
  /\ want = [s \in Subs |-> 0] /\ late = [s \in Subs |-> FALSE]

----------------------------------------------------------------------------
(***************************************************************************)
(* The publisher node.                                                     *)
(***************************************************************************)

\* Parameters are valid; manager, stream, publisher and timer exist.
Construct ==
  /\ node = "starting"
  /\ node' = "idle"
  /\ UNCHANGED <<cur, frame_index, leaseVars, gpuVars, msgs, subVars, lost>>

\* One of them cannot be made: the stream and the manager go again.
ConstructFails ==
  /\ node = "starting"
  /\ node' = "gone"
  /\ UNCHANGED <<cur, frame_index, leaseVars, gpuVars, msgs, subVars, lost>>

Leased(b) == \E s \in Subs : held[s].block = b

\* Mutant: a block with readers is claimed.
MutAcquire(b) ==
  /\ node = "idle" /\ frame_index < MaxFrames
  /\ phase[b] = "free" /\ uid[b] < MaxUid
  /\ node' = "claimed" /\ cur' = b
  /\ phase' = [phase EXCEPT ![b] = "claimed"]
  /\ UNCHANGED <<frame_index, uid, pinned, gpuVars, msgs, subVars, lost>>

\* on_timer: acquire_for_publish claims a block nobody refers to.  (Without
\* one on_timer warns and returns.)
Acquire(b) ==
  /\ node = "idle" /\ frame_index < MaxFrames
  /\ phase[b] = "free" /\ ~pinned[b] /\ ~Leased(b) /\ uid[b] < MaxUid
  /\ node' = "claimed" /\ cur' = b
  /\ phase' = [phase EXCEPT ![b] = "claimed"]
  /\ UNCHANGED <<frame_index, uid, pinned, gpuVars, msgs, subVars, lost>>

\* ... and stores the block's next uid.
NextUid ==
  /\ node = "claimed"
  /\ node' = "acquired"
  /\ uid' = [uid EXCEPT ![cur] = @ + 1]
  /\ phase' = [phase EXCEPT ![cur] = "writing"]
  /\ UNCHANGED <<cur, frame_index, pinned, gpuVars, msgs, subVars, lost>>

\* An operation on the current block for stream_.
Op(op, n) == [op |-> op, block |-> cur, uid |-> uid[cur], frame |-> frame_index, seq |-> n]

Launch ==
  /\ node = "acquired"
  /\ node' = "launched"
  /\ stream' = Append(stream, Op("write", 0))
  /\ UNCHANGED <<cur, frame_index, leaseVars, mem, issued, completed, msgs, subVars, lost>>

\* Mutant: the cancelled reservation stays the current one.
MutLaunchFails ==
  /\ node = "acquired"
  /\ node' = "idle"
  /\ phase' = [phase EXCEPT ![cur] = "free"]
  /\ UNCHANGED <<cur, frame_index, uid, pinned, gpuVars, msgs, subVars, lost>>

\* The launch reports an error: its own, or one cudaGetLastError has kept
\* from earlier, with the kernel launched.  The PublishBlock is destroyed,
\* and cancel() makes the block available at once.
LaunchFails ==
  /\ node = "acquired"
  /\ node' = "idle" /\ cur' = NoBlock
  /\ phase' = [phase EXCEPT ![cur] = "free"]
  /\ stream' \in {stream, Append(stream, Op("write", 0))}
  /\ UNCHANGED <<frame_index, uid, pinned, mem, issued, completed, msgs, subVars, lost>>

\* Mutant: the ready event is recorded on a stream without work.
MutRecordReady ==
  /\ node = "launched"
  /\ node' = "recorded"
  /\ issued' = [issued EXCEPT ![cur] = @ + 1]
  /\ completed' = [completed EXCEPT ![cur] = @ + 1]
  /\ UNCHANGED <<cur, frame_index, leaseVars, mem, stream, msgs, subVars, lost>>

\* prepare_publish: the ready event is recorded behind the kernel ...
RecordReady ==
  /\ node = "launched"
  /\ node' = "recorded"
  /\ issued' = [issued EXCEPT ![cur] = @ + 1]
  /\ stream' = Append(stream, Op("record", issued[cur] + 1))
  /\ UNCHANGED <<cur, frame_index, leaseVars, mem, completed, msgs, subVars, lost>>

\* ... the descriptor is built and the reservation committed.
Commit ==
  /\ node = "recorded"
  /\ node' = "committed"
  /\ phase' = [phase EXCEPT ![cur] = "free"]
  /\ UNCHANGED <<cur, frame_index, uid, pinned, gpuVars, msgs, subVars, lost>>

\* Any of the three fails: the block is quarantined, its kernel may be running.
PrepareFails ==
  /\ node \in {"launched", "recorded"}
  /\ node' = "idle" /\ cur' = NoBlock
  /\ UNCHANGED <<frame_index, leaseVars, gpuVars, msgs, subVars, lost>>

\* The descriptor and the image's layout go out.
Publish ==
  /\ node = "committed"
  /\ node' = "idle" /\ cur' = NoBlock
  /\ msgs' = msgs \cup {[block |-> cur, uid |-> uid[cur], frame |-> frame_index]}
  /\ frame_index' = frame_index + 1
  /\ UNCHANGED <<leaseVars, gpuVars, subVars, lost>>

\* publish() throws out of the callback and out of spin().
PublishThrows ==
  /\ node = "committed"
  /\ node' = "thrown" /\ cur' = NoBlock
  /\ UNCHANGED <<frame_index, leaseVars, gpuVars, msgs, subVars, lost>>

\* Images the stream still has to write, or is writing.
Unwritten == {<<stream[i].block, stream[i].uid>> :
                i \in {j \in DOMAIN stream : stream[j].op # "record"}}

\* The destructor: cudaStreamDestroy does not wait for the stream's work,
\* and manager_.reset() destroys the events and unmaps the blocks.
Destroy ==
  /\ node \in {"idle", "thrown"}
  /\ node' = "gone"
  /\ lost' = Unwritten
  /\ UNCHANGED <<cur, frame_index, leaseVars, gpuVars, msgs, subVars>>

\* The process is killed between any two steps.
Killed ==
  /\ node # "gone"
  /\ node' = "gone"
  /\ lost' = Unwritten
  /\ UNCHANGED <<cur, frame_index, leaseVars, gpuVars, msgs, subVars>>

----------------------------------------------------------------------------
(***************************************************************************)
(* The GPU, and the subscribers.                                           *)
(***************************************************************************)

StreamStep ==
  /\ stream # <<>>
  /\ LET o == Head(stream) IN
       \/ /\ o.op = "write"
          /\ mem' = [mem EXCEPT ![o.block] = [uid |-> o.uid, frame |-> Torn]]
          /\ stream' = [stream EXCEPT ![1].op = "writing"]
          /\ UNCHANGED completed
       \/ /\ o.op = "writing"
          /\ mem' = [mem EXCEPT ![o.block] = [uid |-> o.uid, frame |-> o.frame]]
          /\ stream' = Tail(stream)
          /\ UNCHANGED completed
       \/ /\ o.op = "record"
          /\ completed' = [completed EXCEPT ![o.block] = o.seq]
          /\ stream' = Tail(stream)
          /\ UNCHANGED mem
  /\ UNCHANGED <<nodeVars, leaseVars, issued, msgs, subVars, lost>>

\* Work behind an unmapped block or of a killed process never executes.
Abandon ==
  /\ node = "gone" /\ stream # <<>>
  /\ stream' = <<>>
  /\ UNCHANGED <<nodeVars, leaseVars, mem, issued, completed, msgs, subVars, lost>>

\* A subscriber maps a message: the uid is current and the block is not
\* being written with it.
Grant(s, m) ==
  /\ sub[s] = "idle" /\ m \in msgs
  /\ uid[m.block] = m.uid /\ phase[m.block] # "writing"
  /\ sub' = [sub EXCEPT ![s] = "leased"]
  /\ held' = [held EXCEPT ![s] = m]
  /\ late' = [late EXCEPT ![s] = phase[m.block] = "claimed"]
  /\ UNCHANGED <<nodeVars, leaseVars, gpuVars, msgs, want, lost>>

\* make_bound: cuStreamWaitEvent captures the event's last record.
Wait(s) ==
  /\ sub[s] = "leased"
  /\ sub' = [sub EXCEPT ![s] = "waiting"]
  /\ want' = [want EXCEPT ![s] = issued[held[s].block]]
  /\ UNCHANGED <<nodeVars, leaseVars, gpuVars, msgs, held, late, lost>>

\* The consumer's kernel starts; an event of a publisher that has ended
\* holds nobody up.
StartRead(s) ==
  /\ sub[s] = "waiting"
  /\ completed[held[s].block] >= want[s] \/ node = "gone"
  /\ sub' = [sub EXCEPT ![s] = "reading"]
  /\ UNCHANGED <<nodeVars, leaseVars, gpuVars, msgs, held, want, late, lost>>

\* The kernel has ended and the deferred release returns the reference; or
\* the image was never bound.
Return(s) ==
  /\ sub[s] \in {"leased", "reading"}
  /\ sub' = [sub EXCEPT ![s] = "idle"]
  /\ held' = [held EXCEPT ![s] = NoMsg]
  /\ want' = [want EXCEPT ![s] = 0] /\ late' = [late EXCEPT ![s] = FALSE]
  /\ UNCHANGED <<nodeVars, leaseVars, gpuVars, msgs, lost>>

\* A subscriber is killed and another takes its place.
SubKilled(s) ==
  /\ sub[s] # "idle"
  /\ pinned' = [pinned EXCEPT ![held[s].block] = TRUE]
  /\ sub' = [sub EXCEPT ![s] = "idle"]
  /\ held' = [held EXCEPT ![s] = NoMsg]
  /\ want' = [want EXCEPT ![s] = 0] /\ late' = [late EXCEPT ![s] = FALSE]
  /\ UNCHANGED <<nodeVars, uid, phase, gpuVars, msgs, lost>>

NodeStep ==
  \/ Construct \/ ConstructFails
  \/ \E b \in Blocks : Acquire(b)
  \/ NextUid \/ Launch \/ LaunchFails \/ RecordReady \/ Commit \/ PrepareFails
  \/ Publish \/ PublishThrows \/ Destroy \/ Killed

SubStep(s) ==
  \/ \E m \in msgs : Grant(s, m)
  \/ Wait(s) \/ StartRead(s) \/ Return(s) \/ SubKilled(s)

Next == NodeStep \/ StreamStep \/ Abandon \/ \E s \in Subs : SubStep(s)

Spec == Init /\ [][Next]_vars

----------------------------------------------------------------------------
(***************************************************************************)
(* Properties.                                                             *)
(***************************************************************************)

\* As long as a consumer's kernel reads a block, the block holds the image
\* the message was published with, whole: the ready event orders the read
\* behind the write, the reference keeps the block from being reserved
\* again, and neither a cancelled nor a quarantined reservation lets a
\* pending kernel write into it.  There are two exceptions.  A subscriber
\* that got its reference between a claim and the store of the next uid may
\* meet the image of the very next generation, in part or whole; and so may
\* one whose image was still in the stream when the publisher ended.
ReadSeesItsImage ==
  \A s \in Subs : sub[s] = "reading" =>
    LET m == held[s] IN
      \/ mem[m.block] = [uid |-> m.uid, frame |-> m.frame]
      \/ late[s] /\ mem[m.block].uid \in {m.uid, m.uid + 1}
      \/ <<m.block, m.uid>> \in lost

Lease(b) == INSTANCE BlockLease WITH
  Readers <- Subs, Publishers <- {"publisher"}, NoThread <- "nobody",
  InitGens <- {0}, GenMax <- MaxUid,
  gen <- uid[b], phase <- phase[b],
  owner <- IF phase[b] = "free" THEN "nobody" ELSE "publisher",
  leases <- [s \in Subs |-> IF held[s].block = b THEN held[s].uid ELSE 0],
  pinned <- pinned[b]

\* Every block of the running node keeps to the promise of its metadata,
\* whatever fails, and whoever is killed: one owner, one generation at a
\* time, no new lease while it is written, no claim while it is leased.
BlocksKeepTheirPromise ==
  /\ \A b \in Blocks : Lease(b)!LeaseInit
  /\ [][\A b \in Blocks : [Lease(b)!LeaseNext]_(Lease(b)!leaseVars)]_vars
=============================================================================
