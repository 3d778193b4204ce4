----------------------------- MODULE ReadHandle -----------------------------
(***************************************************************************)
(* GPU reads of one subscriber process: a mapped publication is bound to a *)
(* consumer stream, the consumer enqueues work, the ReadHandle is          *)
(* destroyed, and the worker of the DeferredReleaseQueue gives the buffer  *)
(* reference back once the completion event has passed.                    *)
(*                                                                         *)
(* The GPU is a FIFO of operations per stream.  A special stream           *)
(* (CU_STREAM_LEGACY, CU_STREAM_PER_THREAD) is a name only: the driver     *)
(* resolves it by the context that is current in the calling thread.       *)
(***************************************************************************)
EXTENDS Naturals, Sequences, FiniteSets

CONSTANTS
  Handles,      \* publications under way at a time; reused when released
  NoHandle,
  Streams,      \* streams created on the device of the imported memory
  Callers,      \* context current in the caller of map(): "here", "there", "none"
  MaxWork,      \* model bound: operations a read has on its stream
  MaxRetained   \* model bound: reads whose release failed

ASSUME ReadAssumption ==
  /\ IsFiniteSet(Handles) /\ NoHandle \notin Handles
  /\ Callers \subseteq {"here", "there", "none"}
  /\ MaxWork \in Nat \ {0} /\ MaxRetained \in Nat

Special   == "special"                       \* a special stream, as passed
Resolved  == {"special here", "special there"}
Arguments == Streams \cup {Special}
Queues    == Streams \cup Resolved
Ops       == {"wait", "work", "record"} \X Handles

VARIABLES
  place,     \* per handle: who owns the publication now
  queue,     \* per handle: the stream its work and its record go to
  event,     \* per handle: the completion event
  refs,      \* handles whose BufferRef is held
  resources, \* handles that share the imported resource
  ready,     \* handles whose ready event has passed on the publisher's stream
  gpu,       \* per stream: operations not yet executed
  items,     \* items_ of the DeferredReleaseQueue
  notifying, \* handles whose thread is between its push and notify_one()
  worker,    \* where run() is
  current    \* the item run() has popped

handleVars == <<place, queue, event, refs, resources>>
workerVars == <<items, notifying, worker, current>>
vars == <<place, queue, event, refs, resources, ready, gpu, items, notifying,
          worker, current>>

Places == {"none", "publication", "bound", "recorded", "queued", "retained"}

TypeOK ==
  /\ place \in [Handles -> Places]
  /\ queue \in [Handles -> Queues]
  /\ event \in [Handles -> {"none", "created", "pending", "done"}]
  /\ refs \subseteq Handles /\ resources \subseteq Handles /\ ready \subseteq Handles
  /\ gpu \in [Queues -> Seq(Ops)]
  /\ items \in Seq(Handles) /\ Len(items) <= Cardinality(Handles)
  /\ notifying \subseteq Handles
  /\ worker \in {"check", "asleep", "wait", "event", "resource", "ref"}
  /\ current \in Handles \cup {NoHandle}
  /\ current = NoHandle <=> worker \in {"check", "asleep"}

Init ==
  /\ place = [h \in Handles |-> "none"]
  /\ queue = [h \in Handles |-> "special here"]
  /\ event = [h \in Handles |-> "none"]
  /\ refs = {} /\ resources = {} /\ ready = {}
  /\ gpu = [q \in Queues |-> <<>>]
  /\ items = <<>> /\ notifying = {}
  /\ worker = "check" /\ current = NoHandle

Pending(h, kind) ==
  \E q \in Queues : \E i \in DOMAIN gpu[q] : gpu[q][i] = <<kind, h>>

----------------------------------------------------------------------------
(***************************************************************************)
(* Publications and handles.                                               *)
(***************************************************************************)

\* map_descriptor and make_publication have a reference and a resource.
MakePublication(h) ==
  /\ place[h] = "none" /\ h \notin notifying
  /\ \A kind \in {"wait", "work", "record"} : ~Pending(h, kind)
  /\ place' = [place EXCEPT ![h] = "publication"]
  /\ refs' = refs \cup {h} /\ resources' = resources \cup {h}
  /\ ready' = ready \ {h}
  /\ UNCHANGED <<queue, event, gpu, workerVars>>

\* make_bound was not called, or failed (it leaves the publication as it
\* was), and the publication is destroyed.
DropPublication(h) ==
  /\ place[h] = "publication"
  /\ place' = [place EXCEPT ![h] = "none"]
  /\ refs' = refs \ {h} /\ resources' = resources \ {h}
  /\ UNCHANGED <<queue, event, ready, gpu, workerVars>>

\* The stream cuStreamWaitEvent acts on: enqueue_ready_event has popped the
\* resource's context again, so a special stream is the caller's.
WaitQueue(s, c) ==
  IF s # Special THEN s ELSE IF c = "there" THEN "special there" ELSE "special here"

\* The stream of the consumer's work, launched on the device that holds the
\* memory, and of cuEventRecord, called with the resource's context pushed.
WorkQueue(s) == IF s # Special THEN s ELSE "special here"

\* Mutant: the wait for the ready event is left out.
MutMakeBound(h, s, c) ==
  /\ place[h] = "publication" /\ ~(s = Special /\ c = "none")
  /\ place' = [place EXCEPT ![h] = "bound"]
  /\ queue' = [queue EXCEPT ![h] = WorkQueue(s)]
  /\ event' = [event EXCEPT ![h] = "created"]
  /\ UNCHANGED <<refs, resources, ready, gpu, workerVars>>

\* make_bound: completion event, ready wait, transfer of ownership.  With no
\* current context a special stream is refused by the driver.
MakeBound(h, s, c) ==
  /\ place[h] = "publication" /\ ~(s = Special /\ c = "none")
  /\ place' = [place EXCEPT ![h] = "bound"]
  /\ queue' = [queue EXCEPT ![h] = WorkQueue(s)]
  /\ event' = [event EXCEPT ![h] = "created"]
  /\ gpu' = [gpu EXCEPT ![WaitQueue(s, c)] = Append(@, <<"wait", h>>)]
  /\ UNCHANGED <<refs, resources, ready, workerVars>>

\* The consumer enqueues a read of the block.
ConsumerWork(h) ==
  /\ place[h] = "bound"
  /\ Cardinality({i \in DOMAIN gpu[queue[h]] : gpu[queue[h]][i] = <<"work", h>>}) < MaxWork
  /\ gpu' = [gpu EXCEPT ![queue[h]] = Append(@, <<"work", h>>)]
  /\ UNCHANGED <<handleVars, ready, workerVars>>

----------------------------------------------------------------------------
(***************************************************************************)
(* ReadHandle::Impl::release.                                              *)
(***************************************************************************)

\* The completion event is recorded behind the consumer's work.
ReleaseRecord(h) ==
  /\ place[h] = "bound"
  /\ place' = [place EXCEPT ![h] = "recorded"]
  /\ event' = [event EXCEPT ![h] = "pending"]
  /\ gpu' = [gpu EXCEPT ![queue[h]] = Append(@, <<"record", h>>)]
  /\ UNCHANGED <<queue, refs, resources, ready, workerVars>>

Retained == {h \in Handles : place[h] = "retained"}

\* The item and all it owns are kept for good.
Retain(h) ==
  /\ Cardinality(Retained) < MaxRetained
  /\ place' = [place EXCEPT ![h] = "retained"]

\* The context cannot be pushed or the event cannot be recorded.
ReleaseFails(h) ==
  /\ place[h] = "bound"
  /\ Retain(h)
  /\ UNCHANGED <<queue, event, refs, resources, ready, gpu, workerVars>>

\* enqueue(): the item goes into items_ under the queue's mutex ...
Enqueue(h) ==
  /\ place[h] = "recorded"
  /\ place' = [place EXCEPT ![h] = "queued"]
  /\ items' = Append(items, h)
  /\ notifying' = notifying \cup {h}
  /\ UNCHANGED <<queue, event, refs, resources, ready, gpu, worker, current>>

\* ... or memory runs out, and the item is leaked.
EnqueueFails(h) ==
  /\ place[h] = "recorded"
  /\ Retain(h)
  /\ UNCHANGED <<queue, event, refs, resources, ready, gpu, workerVars>>

\* Mutant: the notification wakes nobody.
MutNotify(h) ==
  /\ h \in notifying
  /\ notifying' = notifying \ {h}
  /\ UNCHANGED <<handleVars, ready, gpu, items, worker, current>>

\* notify_one(), after the mutex has been released.
Notify(h) ==
  /\ h \in notifying
  /\ notifying' = notifying \ {h}
  /\ worker' = IF worker = "asleep" THEN "check" ELSE worker
  /\ UNCHANGED <<handleVars, ready, gpu, items, current>>

----------------------------------------------------------------------------
(***************************************************************************)
(* DeferredReleaseQueue::run, the only worker.                             *)
(***************************************************************************)

WorkerSleep ==
  /\ worker = "check" /\ items = <<>>
  /\ worker' = "asleep"
  /\ UNCHANGED <<handleVars, ready, gpu, items, notifying, current>>

\* Mutant: the item is read but left in the queue.
MutWorkerPop ==
  /\ worker = "check" /\ items # <<>>
  /\ current' = Head(items)
  /\ worker' = "wait"
  /\ UNCHANGED <<handleVars, ready, gpu, items, notifying>>

WorkerPop ==
  /\ worker = "check" /\ items # <<>>
  /\ current' = Head(items) /\ items' = Tail(items)
  /\ worker' = "wait"
  /\ UNCHANGED <<handleVars, ready, gpu, notifying>>

\* Mutant: the worker polls the event instead of waiting for it.
MutWorkerSync ==
  /\ worker = "wait"
  /\ worker' = "event"
  /\ UNCHANGED <<handleVars, ready, gpu, items, notifying, current>>

\* cuEventSynchronize returns once the latest record has executed; at once
\* if there is none.
WorkerSync ==
  /\ worker = "wait" /\ event[current] # "pending"
  /\ worker' = "event"
  /\ UNCHANGED <<handleVars, ready, gpu, items, notifying, current>>

\* The context cannot be pushed or cuEventSynchronize reports an error.
WorkerFails ==
  /\ worker = "wait"
  /\ Retain(current)
  /\ worker' = "check" /\ current' = NoHandle
  /\ UNCHANGED <<queue, event, refs, resources, ready, gpu, items, notifying>>

WorkerDropEvent ==
  /\ worker = "event"
  /\ event' = [event EXCEPT ![current] = "none"]
  /\ worker' = "resource"
  /\ UNCHANGED <<place, queue, refs, resources, ready, gpu, items, notifying, current>>

WorkerDropResource ==
  /\ worker = "resource"
  /\ resources' = resources \ {current}
  /\ worker' = "ref"
  /\ UNCHANGED <<place, queue, event, refs, ready, gpu, items, notifying, current>>

WorkerDropRef ==
  /\ worker = "ref"
  /\ refs' = refs \ {current}
  /\ place' = [place EXCEPT ![current] = "none"]
  /\ worker' = "check" /\ current' = NoHandle
  /\ UNCHANGED <<queue, event, resources, ready, gpu, items, notifying>>

----------------------------------------------------------------------------
(***************************************************************************)
(* The GPUs.                                                               *)
(***************************************************************************)

\* The publisher's work completes and its ready event passes.
ReadySignals(h) ==
  /\ h \in refs \ ready
  /\ ready' = ready \cup {h}
  /\ UNCHANGED <<handleVars, gpu, workerVars>>

GpuStep(q) ==
  /\ gpu[q] # <<>>
  /\ LET kind == Head(gpu[q])[1]
         h == Head(gpu[q])[2]
     IN /\ kind = "wait" => h \in ready
        /\ event' = IF kind = "record" THEN [event EXCEPT ![h] = "done"] ELSE event
  /\ gpu' = [gpu EXCEPT ![q] = Tail(@)]
  /\ UNCHANGED <<place, queue, refs, resources, ready, workerVars>>

Release(h) == ReleaseRecord(h) \/ ReleaseFails(h)
Submit(h)  == Enqueue(h) \/ EnqueueFails(h)
Worker == \/ WorkerSleep \/ WorkerPop \/ WorkerSync \/ WorkerFails
          \/ WorkerDropEvent \/ WorkerDropResource \/ WorkerDropRef

Next ==
  \/ \E h \in Handles :
       \/ MakePublication(h) \/ DropPublication(h) \/ ConsumerWork(h)
       \/ Release(h) \/ Submit(h) \/ Notify(h) \/ ReadySignals(h)
       \/ \E s \in Arguments, c \in Callers : MakeBound(h, s, c)
  \/ Worker
  \/ \E q \in Queues : GpuStep(q)

Spec == Init /\ [][Next]_vars

(***************************************************************************)
(* Fairness.  A release that has begun and the worker thread run on; the   *)
(* GPUs execute what is enqueued, the publisher's as well.  Nobody is      *)
(* bound to map, to enqueue work or to destroy a handle.                   *)
(***************************************************************************)
Fairness ==
  /\ \A h \in Handles :
       WF_vars(Submit(h)) /\ WF_vars(Notify(h)) /\ WF_vars(ReadySignals(h))
  /\ WF_vars(Worker)
  /\ \A q \in Queues : WF_vars(GpuStep(q))

FairSpec == Spec /\ Fairness

----------------------------------------------------------------------------
(***************************************************************************)
(* Properties.                                                             *)
(***************************************************************************)

\* As long as the GPU has a consumer's read before it, the handle's buffer
\* reference (so no publisher reuses the block) and its imported resource
\* (so the memory stays mapped) are held, wherever the handle is and
\* whichever step of its release failed.
ReferenceOutlivesReads ==
  \A h \in Handles : Pending(h, "work") => h \in refs \cap resources

\* The GPU executes a consumer's read only after the publisher's ready event
\* has passed: "the handle waits for producer publication on the stream
\* supplied to the mapper".
ReadsFollowReady ==
  [][\A q \in Queues, h \in Handles :
       gpu[q] # <<>> /\ Head(gpu[q]) = <<"work", h>> /\ gpu'[q] = Tail(gpu[q])
         => h \in ready]_vars

\* An item has one owner: the queue holds it once or the worker holds it.
OneOwner ==
  /\ \A i, j \in DOMAIN items : items[i] = items[j] => i = j
  /\ \A i \in DOMAIN items : items[i] # current /\ place[items[i]] = "queued"
  /\ current # NoHandle => place[current] = "queued"

\* A read whose completion has been recorded is not forgotten: its reference
\* comes back or it is retained as failed, though the worker serves one item
\* at a time and may go to sleep while an item is being added.
ReleasesComplete ==
  \A h \in Handles : place[h] = "recorded" ~> place[h] \in {"none", "retained"}
============================================================================
