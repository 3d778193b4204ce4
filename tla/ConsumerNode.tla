---------------------------- MODULE ConsumerNode ----------------------------
(***************************************************************************)
(* A node that consumes GPU images: encoder, inference, preview, or CPU    *)
(* transport, raw or compressed.  Its callback prepares device and stream, *)
(* reads the message, checks the layout, makes room for the result,        *)
(* enqueues CUDA calls one by one, waits and publishes.  Every call may    *)
(* fail, and a failure leaves the callback with whatever the stream still  *)
(* has to do.                                                              *)
(*                                                                         *)
(* An image is read from the block its own message names, of which bytes,  *)
(* its byte_size, is taken to be the size; DlpackExport says when it may   *)
(* not be.                                                                 *)
(*                                                                         *)
(* A failing cudaStreamSynchronize reports that the work has failed, so    *)
(* none of it is left.  cudaFree is not assumed to wait for the stream.    *)
(***************************************************************************)
EXTENDS ImageLayout, Sequences, FiniteSets

CONSTANTS
  Images,       \* images the node may be sent
  Devices,      \* CUDA devices; a transport node lives on the first
  MaxFrames,    \* bound on the messages received
  CopyEveryN    \* copy_every_n of the preview

ASSUME NodeAssumption ==
  /\ Devices \subseteq Nat /\ 0 \in Devices /\ IsFiniteSet(Devices)
  /\ MaxFrames \in Nat /\ CopyEveryN \in Nat \ {0}

\* The fields of a message and the index of its device are unsigned.
ASSUME ImagesAssumption ==
  Images \subseteq [device : Nat, rows : Nat, cols : Nat, channels : Nat, h : Nat, w : Nat,
                   c : Nat, elem : Nat, bytes : Nat]

NoStream == -1
Null     == 0
Ids      == 1..3          \* allocations: two in use and one being replaced
Host     == -1
Free     == [bytes |-> -1, place |-> Host, holds |-> {}]
Nodes    == {"encoder", "inference", "preview", "raw", "compressed"}

VARIABLES
  node,         \* which node this is
  pc,           \* "idle", the stage of the callback, or "down"
  next,         \* the next call of on_image, once it has room for the result
  image,        \* the image of the callback
  frames,       \* messages delivered so far; the last one is being handled
  received,     \* received_: the images read
  device,       \* the thread's current device
  device_id,    \* current_device_id_
  stream,       \* stream_: the device it was created on
  scratch,      \* device_checksum_ or device_stats_
  dest,         \* device_luma_, device_gray_, msg.data or pinned_host_buffer_
  known,        \* output_width_ and _height_, gray_element_count_ or capacity
  heap,         \* the allocations
  gpu,          \* work the stream still has to do
  host,         \* host_checksum_, host_stats_: the frames it was computed from
  report        \* the last message published: its frame, image and size, and the
                \* frames and of how many bytes of the buffer it is made

bufferVars == <<scratch, dest, known, heap>>
streamVars == <<device, device_id, stream>>
nodeVars == <<node, pc, next, image, frames, received, streamVars, bufferVars, gpu, host, report>>

NoReport == [frame |-> 0, made |-> {}]

----------------------------------------------------------------------------
(***************************************************************************)
(* What tells the nodes apart: which images they process, the size of the  *)
(* result, what they remember of it, and the calls of on_image in order.   *)
(***************************************************************************)
Transport == node \in {"raw", "compressed"}

EncoderAccepts(i)   == sanity_check(i) /\ SupportedRgba8(i) /\ i.rows >= 2 /\ i.cols >= 2
InferenceAccepts(i) == sanity_check(i) /\ SupportedRgba8(i)
PreviewAccepts(i)   == received % CopyEveryN = 0 /\ sanity_check(i) /\ SupportedRgba8(i)
TransportAccepts(i) == sanity_check(i) /\ i.bytes # 0

Accepts(i) == CASE node = "encoder"   -> EncoderAccepts(i)
                [] node = "inference" -> InferenceAccepts(i)
                [] node = "preview"   -> PreviewAccepts(i)
                [] Transport          -> TransportAccepts(i)

\* The size of the result and what is remembered of it.
EncoderRoom(i)   == [bytes |-> (i.cols \div 2) * (i.rows \div 2),
                     known |-> <<i.cols \div 2, i.rows \div 2>>]
InferenceRoom(i) == [bytes |-> i.rows * i.cols * 4, known |-> <<i.rows * i.cols>>]
PreviewRoom(i)   == [bytes |-> Step(i) * i.rows, known |-> <<>>]
TransportRoom(i) == [bytes |-> i.bytes, known |-> <<i.bytes>>]

Room(i) == CASE node = "encoder"   -> EncoderRoom(i)
             [] node = "inference" -> InferenceRoom(i)
             [] node = "preview"   -> PreviewRoom(i)
             [] Transport          -> TransportRoom(i)

EncoderKeeps(i)   == dest # Null /\ known = EncoderRoom(i).known
InferenceKeeps(i) == dest # Null /\ known = InferenceRoom(i).known
TransportKeeps(i) == known # <<>> /\ i.bytes <= known[1]

\* The buffer of an earlier callback is used again.
Keeps(i) == CASE node = "encoder"   -> EncoderKeeps(i)
              [] node = "inference" -> InferenceKeeps(i)
              [] node = "preview"   -> FALSE
              [] Transport          -> TransportKeeps(i)

\* Mutant: the checksum is not cleared.
MutEncoderCalls ==
  <<"events", "record", "convert", "reduce", "record", "sync", "copy", "publish">>

EncoderCalls ==
  <<"events", "clear", "record", "convert", "reduce", "record", "sync", "copy", "publish">>
InferenceCalls ==
  <<"events", "record", "convert", "clear", "reduce", "finalize", "record", "sync",
    "copy", "publish">>
PreviewCalls   == <<"events", "convert", "sync", "publish">>
TransportCalls == <<"convert", "sync", "publish">>

Calls == CASE node = "encoder"   -> EncoderCalls
           [] node = "inference" -> InferenceCalls
           [] node = "preview"   -> PreviewCalls
           [] Transport          -> TransportCalls

Reads(i) == CASE node = "encoder"   -> LumaReads(i)
              [] node = "inference" -> GrayReads(i)
              [] node = "preview"   -> PreviewReads(i)
              [] Transport          -> TransportReads(i)

\* The nodes that allocate a scalar with the stream and clean up by themselves.
OnDevice == node \in {"encoder", "inference"}

----------------------------------------------------------------------------
NodeInit ==
  /\ node \in Nodes
  /\ pc = "idle" /\ next = 1 /\ image \in Images /\ frames = 0 /\ received = 0
  /\ device = 0 /\ device_id = -1
  /\ stream = IF Transport THEN 0 ELSE NoStream
  /\ scratch = Null /\ dest = Null /\ known = <<>>
  /\ heap = [a \in Ids |-> Free]
  /\ gpu = <<>> /\ host = {} /\ report = NoReport

----------------------------------------------------------------------------
(***************************************************************************)
(* Allocation.  A new allocation is none that pending work refers to.      *)
(***************************************************************************)
Live == {a \in Ids : heap[a].bytes # -1}
Pending == {gpu[k].dst : k \in 1..Len(gpu)} \cup {gpu[k].src : k \in 1..Len(gpu)}
Fresh == CHOOSE a \in Ids : a \notin Live \cup Pending

Block(bytes, place) == [bytes |-> bytes, place |-> place, holds |-> {}]
Freed(f, as) == [a \in Ids |-> IF a \in as THEN Free ELSE f[a]]

\* The callback returns; a message that was not published goes with it.
Return ==
  /\ pc' = "idle" /\ next' = 1
  /\ IF node = "preview"
     THEN dest' = Null /\ heap' = Freed(heap, {dest}) /\ UNCHANGED <<scratch, known>>
     ELSE UNCHANGED bufferVars

----------------------------------------------------------------------------
(***************************************************************************)
(* Device and stream.                                                      *)
(***************************************************************************)
Receive(i) ==
  /\ pc = "idle" /\ frames < MaxFrames
  /\ image' = i /\ frames' = frames + 1
  /\ pc' = IF Transport THEN "read" ELSE "state"
  /\ UNCHANGED <<node, next, received, streamVars, bufferVars, gpu, host, report>>

StateKept ==
  /\ pc = "state" /\ stream # NoStream /\ device_id = image.device
  /\ pc' = "read"
  /\ UNCHANGED <<node, next, image, frames, received, streamVars, bufferVars, gpu, host, report>>

\* cleanup_cuda_state: the stream is drained (the result is not looked at:
\* either the work is done or it has failed) before the buffers go.  Whether
\* the old device could be selected is not looked at either.
Cleanup ==
  /\ dest' = Null /\ scratch' = Null /\ known' = <<>>
  /\ heap' = Freed(heap, {dest, scratch})
  /\ stream' = NoStream /\ device_id' = -1
  /\ gpu' = <<>>

\* The image is on another device, or the stream is missing.
StateChanged ==
  /\ pc = "state" /\ ~(stream # NoStream /\ device_id = image.device)
  /\ pc' = "device"
  /\ IF OnDevice
     THEN Cleanup /\ device' \in {device} \cup ({device_id} \ {-1})
     ELSE stream' = NoStream /\ UNCHANGED <<device, device_id, bufferVars, gpu>>
  /\ UNCHANGED <<node, next, image, frames, received, host, report>>

SetDevice ==
  /\ pc = "device" /\ pc' = "create"
  /\ device' = image.device
  /\ UNCHANGED <<node, next, image, frames, received, device_id, stream, bufferVars, gpu,
                 host, report>>

CreateStream ==
  /\ pc = "create"
  /\ stream' = device
  /\ IF OnDevice
     THEN pc' = "scratch" /\ UNCHANGED device_id
     ELSE pc' = "read" /\ device_id' = image.device
  /\ UNCHANGED <<node, next, image, frames, received, device, bufferVars, gpu,
                 host, report>>

StateFails ==
  /\ pc \in {"device", "create"}
  /\ Return
  /\ UNCHANGED <<node, image, frames, received, streamVars, gpu, host, report>>

AllocateScratch ==
  /\ pc = "scratch" /\ pc' = "read"
  /\ scratch' = Fresh /\ heap' = [heap EXCEPT ![Fresh] = Block(1, device)]
  /\ device_id' = image.device
  /\ UNCHANGED <<node, next, image, frames, received, device, stream, dest, known, gpu,
                 host, report>>

\* Mutant: the stream is kept when the scalar cannot be allocated.
MutAllocateScratchFails ==
  /\ pc = "scratch" /\ pc' = "idle"
  /\ device_id' = image.device
  /\ UNCHANGED <<node, next, image, frames, received, device, stream, bufferVars, gpu,
                 host, report>>

AllocateScratchFails ==
  /\ pc = "scratch" /\ pc' = "idle"
  /\ stream' = NoStream
  /\ UNCHANGED <<node, next, image, frames, received, device, device_id, bufferVars, gpu,
                 host, report>>

----------------------------------------------------------------------------
(***************************************************************************)
(* The read and the room for its result.                                   *)
(***************************************************************************)

\* The mapper binds the block to a stream of its own device only.
Read ==
  /\ pc = "read" /\ pc' = "check"
  /\ stream = image.device /\ sanity_check(image)
  /\ UNCHANGED <<node, next, image, frames, received, streamVars, bufferVars, gpu, host, report>>

ReadFails ==
  /\ pc = "read" /\ Return
  /\ UNCHANGED <<node, image, frames, received, streamVars, gpu, host, report>>

\* on_image counts the image and returns unless it can process it.
Check ==
  /\ pc = "check"
  /\ received' = received + 1
  /\ IF Accepts(image) THEN pc' = "room" /\ UNCHANGED <<next, bufferVars>> ELSE Return
  /\ UNCHANGED <<node, image, frames, streamVars, gpu, host, report>>

KeepRoom ==
  /\ pc = "room" /\ Keeps(image)
  /\ pc' = "calls"
  /\ UNCHANGED <<node, next, image, frames, received, streamVars, bufferVars, gpu, host, report>>

\* What precedes the free: encoder and inference synchronise.
Drained == OnDevice => gpu = <<>>

Place == IF OnDevice THEN device ELSE Host

\* The old buffer is freed and a new one allocated ...
MakeRoom ==
  LET a == CHOOSE b \in Ids : b \notin (Live \ {dest}) \cup Pending IN
  /\ pc = "room" /\ ~Keeps(image) /\ Drained
  /\ pc' = "calls"
  /\ dest' = a /\ heap' = [Freed(heap, {dest}) EXCEPT ![a] = Block(Room(image).bytes, Place)]
  /\ known' = Room(image).known
  /\ UNCHANGED <<node, next, image, frames, received, streamVars, scratch, gpu, host, report>>

\* The transport's capacity is reset with its buffer; the other nodes test the
\* pointer before they trust what they remember.
Forget == IF Transport THEN <<>> ELSE known

\* ... or only freed: the allocation failed ...
MakeRoomFails ==
  /\ pc = "room" /\ ~Keeps(image) /\ Drained /\ node # "preview"
  /\ pc' = "idle"
  /\ dest' = Null /\ heap' = Freed(heap, {dest}) /\ known' = Forget
  /\ UNCHANGED <<node, next, image, frames, received, streamVars, scratch, gpu, host, report>>

\* ... or neither: the wait or the free failed.
ReplaceFails ==
  /\ pc = "room" /\ ~Keeps(image) /\ OnDevice
  /\ gpu' = <<>>
  /\ Return
  /\ UNCHANGED <<node, image, frames, received, streamVars, host, report>>

----------------------------------------------------------------------------
(***************************************************************************)
(* The calls of on_image.                                                  *)
(***************************************************************************)
Call == IF pc = "calls" THEN Calls[next] ELSE "none"

Enqueue(work) == gpu' = Append(gpu, work)
Work(op, dst, src) ==
  [op |-> op, dst |-> dst, src |-> src, image |-> image, frame |-> frames]

Launch ==
  /\ Call \in {"events", "record", "clear", "convert", "reduce", "finalize"}
  /\ next' = next + 1
  /\ CASE Call = "clear"   -> Enqueue(Work("clear", scratch, Null))
       [] Call = "convert" -> Enqueue(Work("fill", dest, Null))
       [] Call = "reduce"  -> Enqueue(Work("sum", scratch, dest))
       [] OTHER            -> UNCHANGED gpu
  /\ UNCHANGED <<node, pc, image, frames, received, streamVars, bufferVars, host, report>>

Synchronise ==
  /\ Call = "sync" /\ gpu = <<>>
  /\ next' = next + 1
  /\ UNCHANGED <<node, pc, image, frames, received, streamVars, bufferVars, gpu, host, report>>

CopyResult ==
  /\ Call = "copy"
  /\ next' = next + 1
  /\ host' = heap[scratch].holds
  /\ UNCHANGED <<node, pc, image, frames, received, streamVars, bufferVars, gpu, report>>

CallFails ==
  /\ Call \notin {"none", "publish"}
  /\ gpu' = IF Call = "sync" THEN <<>> ELSE gpu
  /\ Return
  /\ UNCHANGED <<node, image, frames, received, streamVars, host, report>>

\* publish_frame of the raw transport drops an image whose row stride is zero or
\* no uint32, or whose last row is not padded; the one of the compressed
\* transport also drops elements other than U8.
RawPublishable(i) == i.h # 0 /\ i.h < StepModulus /\ i.h * i.rows <= i.bytes

CompressedPublishable(i) ==
  i.h # 0 /\ i.h < StepModulus /\ i.h * i.rows <= i.bytes /\ i.elem = 1

Publishable == CASE node = "raw"        -> RawPublishable(image)
                 [] node = "compressed" -> CompressedPublishable(image)
                 [] OTHER               -> TRUE

\* cv::Mat refuses a step that is shorter than a row of interleaved channels.
MatRow(i) == i.cols * i.channels
Encodable == node = "compressed" => MatRow(image) <= image.h

\* The bytes of the host buffer that end up in the message.
Taken == CASE node = "raw"        -> image.h * image.rows
           [] node = "compressed" -> (image.rows - 1) * image.h + MatRow(image)
           [] node = "preview"    -> Room(image).bytes
           [] OTHER               -> 0

Publish ==
  /\ Call = "publish" /\ Publishable /\ Encodable
  /\ report' = [frame |-> frames, image |-> image, size |-> known, taken |-> Taken,
                made |-> IF OnDevice THEN host ELSE heap[dest].holds]
  /\ Return
  /\ UNCHANGED <<node, image, frames, received, streamVars, gpu, host>>

\* publish_frame returns without a message; compressed_format may be one that
\* select_extension does not know, and imencode may fail.
PublishSkipped ==
  /\ Call = "publish" /\ (Publishable => node = "compressed")
  /\ Return
  /\ UNCHANGED <<node, image, frames, received, streamVars, gpu, host, report>>

\* The GPU executes the next piece of work.
GpuStep ==
  /\ gpu # <<>>
  /\ LET work == Head(gpu) IN
     heap' = [heap EXCEPT ![work.dst].holds =
                CASE work.op = "fill"  -> {work.frame}
                  [] work.op = "clear" -> {}
                  [] work.op = "sum"   -> @ \cup heap[work.src].holds]
  /\ gpu' = Tail(gpu)
  /\ UNCHANGED <<node, pc, next, image, frames, received, streamVars,
                 scratch, dest, known, host, report>>

\* The destructor; the transports and the preview have no work left by then.
Destruct ==
  /\ pc' = "down"
  /\ IF OnDevice
     THEN Cleanup
     ELSE /\ dest' = Null /\ known' = <<>> /\ heap' = Freed(heap, {dest})
          /\ stream' = NoStream /\ UNCHANGED <<device_id, scratch, gpu>>
  /\ UNCHANGED <<node, next, image, frames, received, device, host, report>>

Destroy == pc = "idle" /\ Destruct

\* publish() throws, or cv::Mat does because a row does not fit its step: the
\* exception leaves the callback and spin(), and main destroys the node.
PublishThrows == Call = "publish" /\ Publishable /\ Destruct

NodeNext ==
  \/ \E i \in Images : Receive(i)
  \/ StateKept \/ StateChanged \/ SetDevice \/ CreateStream \/ StateFails
  \/ AllocateScratch \/ AllocateScratchFails
  \/ Read \/ ReadFails \/ Check \/ KeepRoom \/ MakeRoom \/ MakeRoomFails \/ ReplaceFails
  \/ Launch \/ Synchronise \/ CopyResult \/ CallFails
  \/ Publish \/ PublishSkipped \/ PublishThrows
  \/ GpuStep \/ Destroy

NodeSpec == NodeInit /\ [][NodeNext]_nodeVars

----------------------------------------------------------------------------
(***************************************************************************)
(* Properties.                                                             *)
(***************************************************************************)

\* Whatever the stream still has to do, also after calls failed, sizes changed
\* and the device was switched, reads inside the byte_size of its image (what the node
\* accepts bounds what its kernels and copies touch) and writes into buffers that
\* exist, are large enough and are on the image's device or the host.
PendingWorkFits ==
  \A k \in 1..Len(gpu) :
    LET work == gpu[k] IN
    /\ work.op = "fill" => /\ \A o \in Reads(work.image) : o < work.image.bytes
                           /\ Room(work.image).bytes <= heap[work.dst].bytes
    /\ work.op = "sum" => work.src \in Live
    /\ work.dst \in Live /\ heap[work.dst].place \in {work.image.device, Host}

\* A published result was computed from the pixels of its own image and of no
\* other, and the size remembered for it is that image's, whatever earlier
\* callbacks, failed ones included, left in the buffers and fields: a message
\* takes no byte of a larger buffer behind those copied for it.
ReportIsOfItsImage ==
  report # NoReport =>
    /\ report.made = {report.frame}
    /\ report.taken <= Room(report.image).bytes
    /\ OnDevice => report.size = Room(report.image).known

\* Between callbacks the node owns exactly the allocations its fields point to,
\* with the scalar present whenever the stream is; afterwards it owns none.
NodeOwnsItsBuffers ==
  pc \in {"idle", "down"} =>
    /\ Live = {scratch, dest} \ {Null}
    /\ OnDevice => (stream = NoStream <=> scratch = Null)
    /\ pc = "down" => Live = {}
=============================================================================
