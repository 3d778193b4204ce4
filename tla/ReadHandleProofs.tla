-------------------------- MODULE ReadHandleProofs --------------------------
(***************************************************************************)
(* Proofs that a reference outlives the reads it protects, for any number  *)
(* of handles, streams and operations and any failures on the way.         *)
(***************************************************************************)
EXTENDS ReadHandle, Integers, TLAPS, SequenceTheorems, FunctionTheorems,
        FiniteSetTheorems

\* Where an operation of handle h waits on stream q.
Positions(q, kind, h) == {i \in DOMAIN gpu[q] : gpu[q][i] = <<kind, h>>}

Bound    == {"bound", "recorded", "queued", "retained"}  \* work may be pending
Released == {"recorded", "queued", "retained"}           \* the record may be pending

\* The completion event of a handle is recorded once, on its own stream, and is
\* not done before the record has executed.
RecordOf(h) ==
  \A q \in Queues : \A i \in Positions(q, "record", h) :
    /\ q = queue[h] /\ event[h] = "pending" /\ place[h] \in Released
    /\ \A j \in Positions(q, "record", h) : i = j

\* Reads are on the handle's own stream; once released, in front of its record.
WorkOf(h) ==
  \A q \in Queues : \A i \in Positions(q, "work", h) :
    /\ q = queue[h] /\ place[h] \in Bound
    /\ place[h] \in {"recorded", "queued"} =>
         \E j \in Positions(q, "record", h) : i < j

StreamsInOrder == \A h \in Handles : RecordOf(h) /\ WorkOf(h)

\* Past its event the worker's item has nothing left on the GPU.
WorkerPastEvent ==
  worker \in {"event", "resource", "ref"} =>
    \A q \in Queues, kind \in {"work", "record"} : Positions(q, kind, current) = {}

\* A reference is held as long as the handle is anywhere, and so is the
\* resource, which the worker drops first.
HeldWhilePlaced ==
  \A h \in Handles :
    /\ h \in refs <=> place[h] # "none"
    /\ h \in resources <=> place[h] # "none" /\ ~(worker = "ref" /\ current = h)

IInv == /\ TypeOK /\ OneOwner /\ StreamsInOrder
        /\ WorkerPastEvent /\ HeldWhilePlaced

\* The ready wait of a handle is in front of its reads until the event passes.
WaitOf(h) ==
  h \notin ready =>
    /\ place[h] = "bound" => Positions(queue[h], "wait", h) # {}
    /\ \A q \in Queues : \A i \in Positions(q, "work", h) :
         \E j \in Positions(q, "wait", h) : j < i

WaitBeforeWork == \A h \in Handles : WaitOf(h)

----------------------------------------------------------------------------
(***************************************************************************)
(* Operations on streams.                                                  *)
(***************************************************************************)

\* A position is an index of the stream.
LEMMA PositionsType ==
  ASSUME gpu \in [Queues -> Seq(Ops)], NEW q \in Queues, NEW kind, NEW h
  PROVE  Positions(q, kind, h) \subseteq 1..Len(gpu[q]) /\ Len(gpu[q]) \in Nat
<1>1. gpu[q] \in Seq(Ops)
  OBVIOUS
<1> QED BY <1>1, LenProperties DEF Positions

\* Enqueueing an operation adds one position behind all others.
LEMMA GpuAppend ==
  ASSUME gpu \in [Queues -> Seq(Ops)], NEW q \in Queues, NEW op \in Ops,
         gpu' = [gpu EXCEPT ![q] = Append(@, op)]
  PROVE  /\ gpu' \in [Queues -> Seq(Ops)]
         /\ \A p \in Queues : \A kind, h, i : i \in Positions(p, kind, h)' <=>
              \/ i \in Positions(p, kind, h)
              \/ p = q /\ op = <<kind, h>> /\ i = Len(gpu[q]) + 1
<1>1. /\ Append(gpu[q], op) \in Seq(Ops) /\ Len(Append(gpu[q], op)) = Len(gpu[q]) + 1
      /\ \A i \in 1..Len(gpu[q]) : Append(gpu[q], op)[i] = gpu[q][i]
      /\ Append(gpu[q], op)[Len(gpu[q]) + 1] = op
  BY AppendProperties
<1>2. /\ gpu'[q] = Append(gpu[q], op) /\ \A p \in Queues \ {q} : gpu'[p] = gpu[p]
      /\ gpu' \in [Queues -> Seq(Ops)]
  BY <1>1
<1>3. ASSUME NEW p \in Queues, NEW kind, NEW h
      PROVE  \A i : i \in Positions(p, kind, h)' <=>
               \/ i \in Positions(p, kind, h)
               \/ p = q /\ op = <<kind, h>> /\ i = Len(gpu[q]) + 1
  <2>1. CASE p # q
    BY <1>2, <2>1 DEF Positions
  <2>2. CASE p = q
    <3>1. /\ DOMAIN gpu[q] = 1..Len(gpu[q]) /\ Len(gpu[q]) \in Nat
          /\ DOMAIN gpu'[q] = 1..(Len(gpu[q]) + 1)
      <4>1. gpu[q] \in Seq(Ops) /\ gpu'[q] \in Seq(Ops)
        BY <1>1, <1>2
      <4> QED BY <1>1, <1>2, <4>1, LenProperties
    <3>2. \A i \in 1..(Len(gpu[q]) + 1) :
            gpu'[q][i] = IF i = Len(gpu[q]) + 1 THEN op ELSE gpu[q][i]
      BY <1>1, <1>2, <3>1
    <3>3. \A i : i \in Positions(q, kind, h)' <=>
            \/ i \in Positions(q, kind, h)
            \/ i = Len(gpu[q]) + 1 /\ op = <<kind, h>>
      <4>1. \A i : i \in Positions(q, kind, h) <=> i \in 1..Len(gpu[q]) /\ gpu[q][i] = <<kind, h>>
        BY <3>1 DEF Positions
      <4>2. \A i : i \in Positions(q, kind, h)' <=>
              i \in 1..(Len(gpu[q]) + 1) /\ gpu'[q][i] = <<kind, h>>
        BY <3>1 DEF Positions
      <4>3. \A i : i \in 1..(Len(gpu[q]) + 1) <=> i \in 1..Len(gpu[q]) \/ i = Len(gpu[q]) + 1
        BY <3>1
      <4>4. Len(gpu[q]) + 1 \notin 1..Len(gpu[q])
        BY <3>1
      <4> QED BY <3>2, <4>1, <4>2, <4>3, <4>4
    <3> QED BY <2>2, <3>3
  <2> QED BY <2>1, <2>2
<1> QED BY <1>2, <1>3

\* A step that puts an operation of a handle on a stream.
Enqueued(q, kind, h) == gpu' = [gpu EXCEPT ![q] = Append(@, <<kind, h>>)]

\* The same for the handle whose operation it is, and for all others.
LEMMA GpuEnqueue ==
  ASSUME gpu \in [Queues -> Seq(Ops)], NEW q \in Queues, NEW h \in Handles,
         NEW kind \in {"wait", "work", "record"},
         Enqueued(q, kind, h)
  PROVE  /\ Positions(q, kind, h)' = Positions(q, kind, h) \cup {Len(gpu[q]) + 1}
         /\ \A p \in Queues \ {q} : Positions(p, kind, h)' = Positions(p, kind, h)
         /\ \A p \in Queues : \A k, g : k # kind \/ g # h =>
              Positions(p, k, g)' = Positions(p, k, g)
<1>1. <<kind, h>> \in Ops
  BY DEF Ops
<1>2. \A p \in Queues : \A k, g, i : i \in Positions(p, k, g)' <=>
        \/ i \in Positions(p, k, g)
        \/ p = q /\ <<kind, h>> = <<k, g>> /\ i = Len(gpu[q]) + 1
  BY <1>1, GpuAppend DEF Enqueued
<1>3. \A k, g : k # kind \/ g # h => <<kind, h>> # <<k, g>>
  OBVIOUS
<1>4. ASSUME NEW p \in Queues, NEW k, NEW g, p # q \/ k # kind \/ g # h
      PROVE  Positions(p, k, g)' = Positions(p, k, g)
  <2>1. ~(p = q /\ <<kind, h>> = <<k, g>>)
    BY <1>3, <1>4
  <2>2. \A i : i \in Positions(p, k, g)' <=> i \in Positions(p, k, g)
    BY <1>2, <2>1
  <2> QED BY <2>2, SetExtensionality
<1>5. Positions(q, kind, h)' = Positions(q, kind, h) \cup {Len(gpu[q]) + 1}
  <2>1. \A i : i \in Positions(q, kind, h)' <=>
          i \in Positions(q, kind, h) \cup {Len(gpu[q]) + 1}
    BY <1>2
  <2> QED BY <2>1, SetExtensionality
<1> QED BY <1>4, <1>5

\* Executing the head of a stream moves every other operation one position up.
LEMMA GpuPop ==
  ASSUME gpu \in [Queues -> Seq(Ops)], NEW q \in Queues, gpu[q] # <<>>,
         gpu' = [gpu EXCEPT ![q] = Tail(@)]
  PROVE  /\ gpu' \in [Queues -> Seq(Ops)]
         /\ Head(gpu[q]) \in Ops
         /\ \A kind, h : 1 \in Positions(q, kind, h) <=> Head(gpu[q]) = <<kind, h>>
         /\ \A p \in Queues \ {q} : \A kind, h :
              Positions(p, kind, h)' = Positions(p, kind, h)
         /\ \A kind, h : Positions(q, kind, h)'
              = {i \in Nat \ {0} : i + 1 \in Positions(q, kind, h)}
<1>1. /\ Tail(gpu[q]) \in Seq(Ops) /\ Len(Tail(gpu[q])) = Len(gpu[q]) - 1
      /\ \A i \in 1..Len(Tail(gpu[q])) : Tail(gpu[q])[i] = gpu[q][i + 1]
      /\ Head(gpu[q]) \in Ops /\ Head(gpu[q]) = gpu[q][1]
  BY HeadTailProperties
<1>2. /\ gpu'[q] = Tail(gpu[q]) /\ \A p \in Queues \ {q} : gpu'[p] = gpu[p]
      /\ gpu' \in [Queues -> Seq(Ops)]
  BY <1>1
<1>3. \A p \in Queues \ {q} : \A kind, h : Positions(p, kind, h)' = Positions(p, kind, h)
  BY <1>2 DEF Positions
<1>4. /\ DOMAIN gpu[q] = 1..Len(gpu[q]) /\ Len(gpu[q]) \in Nat \ {0}
      /\ DOMAIN gpu'[q] = 1..(Len(gpu[q]) - 1)
  <2>1. gpu[q] \in Seq(Ops) /\ gpu'[q] \in Seq(Ops)
    BY <1>1, <1>2
  <2> QED BY <1>1, <1>2, <2>1, LenProperties, EmptySeq
<1>5. ASSUME NEW kind, NEW h
      PROVE  /\ 1 \in Positions(q, kind, h) <=> Head(gpu[q]) = <<kind, h>>
             /\ Positions(q, kind, h)' = {i \in Nat \ {0} : i + 1 \in Positions(q, kind, h)}
  <2>1. 1 \in Positions(q, kind, h) <=> Head(gpu[q]) = <<kind, h>>
    BY <1>1, <1>4 DEF Positions
  <2>2. \A i : i \in Positions(q, kind, h)' <=> i \in Nat \ {0} /\ i + 1 \in Positions(q, kind, h)
    BY <1>1, <1>2, <1>4 DEF Positions
  <2> QED BY <2>1, <2>2
<1> QED BY <1>1, <1>2, <1>3, <1>5

\* A pending operation has a position.
LEMMA PendingHasPosition ==
  ASSUME NEW h, NEW kind
  PROVE  Pending(h, kind) <=> \E q \in Queues : Positions(q, kind, h) # {}
BY DEF Pending, Positions

----------------------------------------------------------------------------
(***************************************************************************)
(* The queue of the worker.                                                *)
(***************************************************************************)

\* Handles that are in the queue once each are at most as many as there are.
LEMMA ItemsBound ==
  ASSUME NEW s \in Seq(Handles), \A i, j \in DOMAIN s : s[i] = s[j] => i = j
  PROVE  Len(s) <= Cardinality(Handles)
<1>1. PICK n \in Nat : n = Len(s)
  BY LenProperties
<1>2. s \in [1..n -> Handles] /\ DOMAIN s = 1..n
  BY <1>1, LenProperties
<1>3. s \in Injection(1..n, Handles)
  BY <1>2, Fun_IsInj
<1>4. Cardinality(1..n) <= Cardinality(Handles)
  BY <1>3, ReadAssumption, FS_Injection
<1>5. Cardinality(1..n) = n
  <2>1. Cardinality(1..n) = IF 1 > n THEN 0 ELSE n - 1 + 1
    BY FS_Interval
  <2> QED BY <2>1
<1> QED BY <1>1, <1>4, <1>5

----------------------------------------------------------------------------
(***************************************************************************)
(* The inductive invariant, part by part.                                  *)
(***************************************************************************)

\* The operation a GPU step executes.
LEMMA GpuHead ==
  ASSUME TypeOK, NEW q \in Queues, GpuStep(q)
  PROVE  \E kind \in {"wait", "work", "record"}, h \in Handles :
           /\ Head(gpu[q]) = <<kind, h>>
           /\ kind = "wait" => h \in ready
           /\ event' = IF kind = "record" THEN [event EXCEPT ![h] = "done"] ELSE event
<1>1. Head(gpu[q]) \in Ops
  BY GpuPop DEF TypeOK, GpuStep
<1>2. PICK kind \in {"wait", "work", "record"}, h \in Handles : Head(gpu[q]) = <<kind, h>>
  BY <1>1 DEF Ops
<1>3. Head(gpu[q])[1] = kind /\ Head(gpu[q])[2] = h
  BY <1>2
<1> QED BY <1>2, <1>3 DEF GpuStep

\* The streams that bind and record name are streams.
LEMMA QueuesType ==
  ASSUME NEW s \in Arguments, NEW c
  PROVE  WaitQueue(s, c) \in Queues /\ WorkQueue(s) \in Queues
BY DEF Arguments, Queues, Resolved, WaitQueue, WorkQueue

\* Every step keeps the types; the queue of the worker never holds more items
\* than there are handles, because none is in it twice.
LEMMA TypeStep == IInv /\ [Next]_vars => TypeOK'
<1> SUFFICES ASSUME IInv, [Next]_vars PROVE TypeOK'
  OBVIOUS
<1>0. TypeOK /\ OneOwner
  BY DEF IInv
<1> USE <1>0, ReadAssumption DEF TypeOK, handleVars, workerVars
<1>1. ASSUME NEW h \in Handles,
             \/ MakePublication(h) \/ DropPublication(h) \/ ReleaseFails(h)
             \/ EnqueueFails(h) \/ ReadySignals(h)
      PROVE  TypeOK'
  BY <1>1 DEF MakePublication, DropPublication, ReleaseFails, EnqueueFails, Retain,
     ReadySignals, Places
<1>2. ASSUME NEW h \in Handles, NEW s \in Arguments, NEW c \in Callers, MakeBound(h, s, c)
      PROVE  TypeOK'
  <2>1. gpu' \in [Queues -> Seq(Ops)]
    <3>1. <<"wait", h>> \in Ops
      BY DEF Ops
    <3> QED BY <1>2, <3>1, QueuesType, GpuAppend DEF MakeBound
  <2> QED BY <1>2, <2>1, QueuesType DEF MakeBound, Places
<1>3. ASSUME NEW h \in Handles, ConsumerWork(h) \/ ReleaseRecord(h) PROVE TypeOK'
  <2>1. gpu' \in [Queues -> Seq(Ops)]
    <3>1. <<"work", h>> \in Ops /\ <<"record", h>> \in Ops /\ queue[h] \in Queues
      BY DEF Ops
    <3> QED BY <1>3, <3>1, GpuAppend DEF ConsumerWork, ReleaseRecord
  <2> QED BY <1>3, <2>1 DEF ConsumerWork, ReleaseRecord, Places
<1>4. ASSUME NEW h \in Handles, Enqueue(h) PROVE TypeOK'
  <2>1. /\ items' \in Seq(Handles) /\ Len(items') = Len(items) + 1
        /\ \A i \in 1..Len(items) : items'[i] = items[i]
        /\ items'[Len(items) + 1] = h
    BY <1>4, AppendProperties DEF Enqueue
  <2>2. Len(items) \in Nat /\ DOMAIN items = 1..Len(items) /\ DOMAIN items' = 1..(Len(items) + 1)
    BY <2>1, LenProperties
  <2>3. \A i \in 1..Len(items) : items[i] # h
    BY <1>4, <2>2 DEF OneOwner, Enqueue
  <2>4. \A i, j \in DOMAIN items' : items'[i] = items'[j] => i = j
    <3>1. \A i \in DOMAIN items' : i \in 1..Len(items) \/ i = Len(items) + 1
      BY <2>2
    <3> HIDE DEF TypeOK
    <3> QED BY <2>1, <2>2, <2>3, <3>1 DEF OneOwner
  <2>5. Len(items') <= Cardinality(Handles)
    BY <2>1, <2>4, ItemsBound
  <2> QED BY <1>4, <2>1, <2>5 DEF Enqueue, Places
<1>5. ASSUME NEW h \in Handles, Notify(h) PROVE TypeOK'
  BY <1>5 DEF Notify
<1>6. CASE WorkerPop
  <2>1. /\ Head(items) \in Handles /\ Tail(items) \in Seq(Handles)
        /\ Len(Tail(items)) = Len(items) - 1
    BY <1>6, HeadTailProperties DEF WorkerPop
  <2>2. Len(items) \in Nat /\ Cardinality(Handles) \in Nat
    BY LenProperties, FS_CardinalityType
  <2>3. Len(items') <= Cardinality(Handles)
    BY <1>6, <2>1, <2>2 DEF WorkerPop
  <2> QED BY <1>6, <2>1, <2>3 DEF WorkerPop
<1>7. CASE WorkerSleep \/ WorkerSync \/ WorkerFails
  <2>1. CASE WorkerSleep
    BY <2>1 DEF WorkerSleep
  <2>2. CASE WorkerSync
    BY <2>2 DEF WorkerSync
  <2>3. CASE WorkerFails
    BY <2>3 DEF WorkerFails, Retain, Places
  <2> QED BY <1>7, <2>1, <2>2, <2>3
<1>8. CASE WorkerDropEvent \/ WorkerDropResource \/ WorkerDropRef
  <2>1. CASE WorkerDropEvent
    BY <2>1 DEF WorkerDropEvent
  <2>2. CASE WorkerDropResource
    BY <2>2 DEF WorkerDropResource
  <2>3. CASE WorkerDropRef
    BY <2>3 DEF WorkerDropRef, Places
  <2> QED BY <1>8, <2>1, <2>2, <2>3
<1>9. ASSUME NEW q \in Queues, GpuStep(q) PROVE TypeOK'
  <2>1. gpu' \in [Queues -> Seq(Ops)]
    BY <1>9, GpuPop DEF GpuStep
  <2>2. event' \in [Handles -> {"none", "created", "pending", "done"}]
    BY <1>9, GpuHead
  <2> QED BY <1>9, <2>1, <2>2 DEF GpuStep
<1>10. CASE UNCHANGED vars
  BY <1>10 DEF vars
<1> QED BY <1>1, <1>2, <1>3, <1>4, <1>5, <1>6, <1>7, <1>8, <1>9, <1>10
        DEF Next, Release, Submit, Worker

\* An item is in the queue once or with the worker, whatever the other threads do.
LEMMA OwnerStep == IInv /\ [Next]_vars => OneOwner'
<1> SUFFICES ASSUME IInv, [Next]_vars PROVE OneOwner'
  OBVIOUS
<1>0. TypeOK /\ OneOwner
  BY DEF IInv
<1>k. ASSUME items' = items, current' = current,
             \A h \in Handles : place[h] = "queued" => place'[h] = "queued"
      PROVE  OneOwner'
  <2>1. \A i \in DOMAIN items : items[i] \in Handles
    BY <1>0, LenProperties, ElementOfSeq DEF TypeOK
  <2>2. current # NoHandle => current \in Handles
    BY <1>0 DEF TypeOK
  <2> QED BY <1>0, <1>k, <2>1, <2>2 DEF OneOwner
<1> USE DEF handleVars, workerVars
<1>1. ASSUME NEW h \in Handles,
             \/ MakePublication(h) \/ DropPublication(h) \/ ReleaseFails(h) \/ ReleaseRecord(h)
             \/ EnqueueFails(h) \/ ReadySignals(h) \/ ConsumerWork(h) \/ Notify(h)
             \/ \E s \in Arguments, c \in Callers : MakeBound(h, s, c)
      PROVE  OneOwner'
  <2>1. items' = items /\ current' = current
    BY <1>1 DEF MakePublication, DropPublication, ReleaseFails, ReleaseRecord, EnqueueFails,
       ReadySignals, ConsumerWork, Notify, MakeBound
  <2>2. \A g \in Handles : place[g] = "queued" => place'[g] = "queued"
    BY <1>0, <1>1 DEF TypeOK, MakePublication, DropPublication, ReleaseFails, ReleaseRecord,
       EnqueueFails, Retain, ReadySignals, ConsumerWork, Notify, MakeBound
  <2> QED BY <1>k, <2>1, <2>2
<1>2. ASSUME NEW h \in Handles, Enqueue(h) PROVE OneOwner'
  <2>1. /\ items' = Append(items, h) /\ place[h] = "recorded" /\ current' = current
        /\ place'[h] = "queued" /\ \A g \in Handles \ {h} : place'[g] = place[g]
    BY <1>0, <1>2 DEF Enqueue, TypeOK
  <2>2. /\ Len(items') = Len(items) + 1 /\ items' \in Seq(Handles)
        /\ \A i \in 1..Len(items) : items'[i] = items[i]
        /\ items'[Len(items) + 1] = h
    BY <1>0, <2>1, AppendProperties DEF TypeOK
  <2>3. Len(items) \in Nat /\ DOMAIN items = 1..Len(items) /\ DOMAIN items' = 1..(Len(items) + 1)
    BY <1>0, <2>2, LenProperties DEF TypeOK
  <2>4. \A i \in 1..Len(items) : items[i] # h /\ items[i] \in Handles
    BY <1>0, <2>1, <2>3, ElementOfSeq DEF OneOwner, TypeOK
  <2>5. \A i \in DOMAIN items' : i \in 1..Len(items) \/ i = Len(items) + 1
    BY <2>3
  <2>6. \A i, j \in DOMAIN items' : items'[i] = items'[j] => i = j
    BY <1>0, <2>2, <2>3, <2>4, <2>5 DEF OneOwner
  <2>7. current # h /\ current # NoHandle => place'[current] = "queued"
    BY <1>0, <2>1 DEF OneOwner, TypeOK
  <2>8. current # h
    BY <1>0, <2>1, ReadAssumption DEF OneOwner
  <2>9. \A i \in DOMAIN items' : items'[i] # current' /\ place'[items'[i]] = "queued"
    BY <1>0, <2>1, <2>2, <2>3, <2>4, <2>5, <2>8 DEF OneOwner
  <2> QED BY <2>1, <2>6, <2>7, <2>8, <2>9 DEF OneOwner
<1>3. CASE WorkerPop
  <2>1. /\ items # <<>> /\ current' = Head(items) /\ items' = Tail(items) /\ place' = place
    BY <1>3 DEF WorkerPop
  <2>2. /\ Len(items') = Len(items) - 1 /\ items' \in Seq(Handles) /\ Head(items) \in Handles
        /\ \A i \in 1..Len(items') : items'[i] = items[i + 1]
        /\ Head(items) = items[1]
    BY <1>0, <2>1, HeadTailProperties DEF TypeOK
  <2>3. /\ Len(items) \in Nat \ {0} /\ DOMAIN items = 1..Len(items)
        /\ DOMAIN items' = 1..(Len(items) - 1)
    BY <1>0, <2>1, <2>2, LenProperties, EmptySeq DEF TypeOK
  <2>4. \A i \in DOMAIN items' : i + 1 \in DOMAIN items /\ i + 1 # 1 /\ 1 \in DOMAIN items
    BY <2>3
  <2>5. \A i \in DOMAIN items' : items'[i] = items[i + 1]
    BY <2>2, <2>3
  <2>6. \A i, j \in DOMAIN items' : items'[i] = items'[j] => i = j
    <3> SUFFICES ASSUME NEW i \in DOMAIN items', NEW j \in DOMAIN items', items'[i] = items'[j]
                 PROVE  i = j
      OBVIOUS
    <3>1. i + 1 = j + 1
      BY <1>0, <2>4, <2>5 DEF OneOwner
    <3> QED BY <2>3, <3>1
  <2>7. \A i \in DOMAIN items' : items'[i] # current' /\ place'[items'[i]] = "queued"
    BY <1>0, <2>1, <2>2, <2>4, <2>5 DEF OneOwner
  <2>8. place'[current'] = "queued"
    BY <1>0, <2>1, <2>2, <2>3 DEF OneOwner
  <2> QED BY <2>6, <2>7, <2>8 DEF OneOwner
<1>4. CASE WorkerFails \/ WorkerDropRef
  <2>1. /\ items' = items /\ current' = NoHandle /\ current \in Handles
        /\ \A g \in Handles \ {current} : place'[g] = place[g]
    BY <1>0, <1>4, ReadAssumption DEF WorkerFails, WorkerDropRef, Retain, TypeOK
  <2>2. \A i \in DOMAIN items : items[i] \in Handles /\ items[i] # NoHandle /\ items[i] # current
    BY <1>0, LenProperties, ElementOfSeq, ReadAssumption DEF TypeOK, OneOwner
  <2> QED BY <1>0, <2>1, <2>2 DEF OneOwner
<1>5. CASE WorkerSleep \/ WorkerSync \/ WorkerDropEvent \/ WorkerDropResource
  <2>1. items' = items /\ current' = current /\ place' = place
    BY <1>5 DEF WorkerSleep, WorkerSync, WorkerDropEvent, WorkerDropResource
  <2> QED BY <1>k, <2>1
<1>6. ASSUME NEW q \in Queues, GpuStep(q) PROVE OneOwner'
  <2>1. items' = items /\ current' = current /\ place' = place
    BY <1>6 DEF GpuStep
  <2> QED BY <1>k, <2>1
<1>7. CASE UNCHANGED vars
  BY <1>k, <1>7 DEF vars
<1> QED BY <1>1, <1>2, <1>3, <1>4, <1>5, <1>6, <1>7 DEF Next, Release, Submit, Worker

\* References and resources follow the place of the handle.
LEMMA HeldStep == IInv /\ [Next]_vars => HeldWhilePlaced'
<1> SUFFICES ASSUME IInv, [Next]_vars PROVE HeldWhilePlaced'
  OBVIOUS
<1>0. TypeOK /\ OneOwner /\ HeldWhilePlaced
  BY DEF IInv
<1>c. /\ current # NoHandle => current \in Handles /\ place[current] = "queued"
      /\ worker \in {"wait", "event", "resource", "ref"} => current \in Handles
  BY <1>0 DEF TypeOK, OneOwner
<1> USE <1>0, <1>c DEF HeldWhilePlaced, handleVars, workerVars
<1>1. ASSUME NEW h \in Handles,
             \/ MakePublication(h) \/ DropPublication(h) \/ ReleaseFails(h) \/ ReleaseRecord(h)
             \/ EnqueueFails(h) \/ Enqueue(h)
             \/ \E s \in Arguments, c \in Callers : MakeBound(h, s, c)
      PROVE  HeldWhilePlaced'
  <2>1. /\ worker' = worker /\ current' = current /\ place[h] # "queued"
        /\ \A g \in Handles \ {h} : place'[g] = place[g]
    BY <1>1 DEF TypeOK, MakePublication, DropPublication, ReleaseFails, ReleaseRecord,
       EnqueueFails, Retain, Enqueue, MakeBound
  <2>2. current # h
    BY <2>1, ReadAssumption
  <2>3. \/ place'[h] # "none" /\ refs' = refs \cup {h} /\ resources' = resources \cup {h}
        \/ place'[h] = "none" /\ refs' = refs \ {h} /\ resources' = resources \ {h}
        \/ place'[h] # "none" /\ place[h] # "none" /\ refs' = refs /\ resources' = resources
    BY <1>1 DEF TypeOK, MakePublication, DropPublication, ReleaseFails, ReleaseRecord,
       EnqueueFails, Retain, Enqueue, MakeBound
  <2> QED BY <2>1, <2>2, <2>3
<1>2. ASSUME NEW h \in Handles, ReadySignals(h) \/ ConsumerWork(h) \/ Notify(h)
      PROVE  HeldWhilePlaced'
  <2>1. /\ place' = place /\ refs' = refs /\ resources' = resources /\ current' = current
        /\ worker' = "ref" <=> worker = "ref"
    BY <1>2 DEF ReadySignals, ConsumerWork, Notify
  <2> QED BY <2>1
<1>3. CASE WorkerSleep \/ WorkerPop \/ WorkerSync \/ WorkerDropEvent
  <2>1. /\ place' = place /\ refs' = refs /\ resources' = resources
        /\ worker' # "ref" /\ worker # "ref"
    BY <1>3 DEF WorkerSleep, WorkerPop, WorkerSync, WorkerDropEvent
  <2> QED BY <2>1
<1>4. CASE WorkerFails
  BY <1>4 DEF WorkerFails, Retain, TypeOK
<1>5. CASE WorkerDropResource
  BY <1>5 DEF WorkerDropResource
<1>6. CASE WorkerDropRef
  BY <1>6 DEF WorkerDropRef, TypeOK
<1>7. ASSUME NEW q \in Queues, GpuStep(q) PROVE HeldWhilePlaced'
  BY <1>7 DEF GpuStep
<1>8. CASE UNCHANGED vars
  BY <1>8 DEF vars
<1> QED BY <1>1, <1>2, <1>3, <1>4, <1>5, <1>6, <1>7, <1>8 DEF Next, Release, Submit, Worker

----------------------------------------------------------------------------
(***************************************************************************)
(* Reads and records on the streams.                                       *)
(***************************************************************************)

\* A handle that is not bound has no read and no record pending.
LEMMA QuietUnlessBound ==
  ASSUME StreamsInOrder, NEW h \in Handles, place[h] \notin Bound
  PROVE  \A q \in Queues, kind \in {"work", "record"} : Positions(q, kind, h) = {}
BY DEF StreamsInOrder, RecordOf, WorkOf, Bound, Released

\* Nothing to order where nothing is pending.
LEMMA QuietInOrder ==
  ASSUME NEW h \in Handles,
         \A q \in Queues, kind \in {"work", "record"} : Positions(q, kind, h)' = {}
  PROVE  RecordOf(h)' /\ WorkOf(h)'
<1>1. \A q \in Queues : Positions(q, "work", h)' = {} /\ Positions(q, "record", h)' = {}
  OBVIOUS
<1> QED BY <1>1 DEF RecordOf, WorkOf

\* A step that leaves a handle's operations, stream and event alone keeps them
\* in order, also when it hands the handle on to the queue or retains it.
LEMMA OrderFrame ==
  ASSUME StreamsInOrder, NEW h \in Handles,
         \A q \in Queues, kind \in {"work", "record"} :
           Positions(q, kind, h)' = Positions(q, kind, h),
         queue'[h] = queue[h], event'[h] = event[h],
         \/ place'[h] = place[h]
         \/ place'[h] = "retained"
         \/ place[h] = "recorded" /\ place'[h] = "queued"
  PROVE  RecordOf(h)' /\ WorkOf(h)'
<1>1. \A q \in Queues : /\ Positions(q, "work", h)' = Positions(q, "work", h)
                        /\ Positions(q, "record", h)' = Positions(q, "record", h)
  OBVIOUS
<1>2. RecordOf(h) /\ WorkOf(h)
  BY DEF StreamsInOrder
<1>3. RecordOf(h)'
  BY <1>1, <1>2 DEF RecordOf, Released
<1>4. WorkOf(h)'
  BY <1>1, <1>2 DEF WorkOf, Bound
<1> QED BY <1>3, <1>4

\* Reads stay in front of the record that completes them, on every stream and
\* whichever handles share it.
LEMMA OrderStep == IInv /\ [Next]_vars => StreamsInOrder'
<1> SUFFICES ASSUME IInv, [Next]_vars PROVE StreamsInOrder'
  OBVIOUS
<1>0. TypeOK /\ OneOwner /\ StreamsInOrder /\ WorkerPastEvent
  BY DEF IInv
<1>c. worker \in {"wait", "event", "resource", "ref"} =>
        current \in Handles /\ place[current] = "queued"
  BY <1>0 DEF TypeOK, OneOwner
<1>g. gpu \in [Queues -> Seq(Ops)]
  BY <1>0 DEF TypeOK
<1> USE DEF handleVars, workerVars
<1>1. ASSUME NEW h \in Handles, MakePublication(h) \/ DropPublication(h)
      PROVE  StreamsInOrder'
  <2>1. /\ gpu' = gpu /\ queue' = queue /\ event' = event /\ place[h] \notin Bound
        /\ \A g \in Handles \ {h} : place'[g] = place[g]
    BY <1>0, <1>1 DEF MakePublication, DropPublication, TypeOK, Bound
  <2>2. \A q, kind, g : Positions(q, kind, g)' = Positions(q, kind, g)
    BY <2>1 DEF Positions
  <2>3. RecordOf(h)' /\ WorkOf(h)'
    BY <1>0, <2>1, <2>2, QuietUnlessBound, QuietInOrder
  <2>4. \A g \in Handles \ {h} : RecordOf(g)' /\ WorkOf(g)'
    BY <1>0, <2>1, <2>2, OrderFrame
  <2> QED BY <2>3, <2>4 DEF StreamsInOrder
<1>2. ASSUME NEW h \in Handles, NEW s \in Arguments, NEW c \in Callers, MakeBound(h, s, c)
      PROVE  StreamsInOrder'
  <2>1. /\ \A g \in Handles \ {h} : /\ place'[g] = place[g] /\ queue'[g] = queue[g]
                                    /\ event'[g] = event[g]
        /\ place[h] \notin Bound
    BY <1>0, <1>2 DEF MakeBound, TypeOK, Bound
  <2>2. \A g : \A q \in Queues, kind \in {"work", "record"} :
          Positions(q, kind, g)' = Positions(q, kind, g)
    <3>1. PICK w \in Queues : Enqueued(w, "wait", h)
      BY <1>2, QueuesType DEF MakeBound, Enqueued
    <3>2. \A q \in Queues : \A k, g : k # "wait" \/ g # h =>
            Positions(q, k, g)' = Positions(q, k, g)
      BY <1>g, <3>1, GpuEnqueue
    <3> QED BY <3>2
  <2>3. RecordOf(h)' /\ WorkOf(h)'
    BY <1>0, <2>1, <2>2, QuietUnlessBound, QuietInOrder
  <2>4. \A g \in Handles \ {h} : RecordOf(g)' /\ WorkOf(g)'
    BY <1>0, <2>1, <2>2, OrderFrame
  <2> QED BY <2>3, <2>4 DEF StreamsInOrder
<1>3. ASSUME NEW h \in Handles, ConsumerWork(h) PROVE StreamsInOrder'
  <2>1. PICK w \in Queues :
        /\ place' = place /\ queue' = queue /\ event' = event /\ place[h] = "bound"
        /\ queue[h] = w /\ Enqueued(w, "work", h)
    BY <1>0, <1>3 DEF ConsumerWork, TypeOK, Enqueued
  <2>2. /\ Positions(w, "work", h)' =
             Positions(w, "work", h) \cup {Len(gpu[w]) + 1}
        /\ \A p \in Queues \ {w} : Positions(p, "work", h)' = Positions(p, "work", h)
        /\ \A p \in Queues : \A k, g : k # "work" \/ g # h =>
             Positions(p, k, g)' = Positions(p, k, g)
    BY <1>g, <2>1, GpuEnqueue
  <2>3. RecordOf(h)' /\ WorkOf(h)'
    <3>1. RecordOf(h) /\ WorkOf(h)
      BY <1>0 DEF StreamsInOrder
    <3>2. \A q \in Queues : Positions(q, "record", h)' = Positions(q, "record", h)
      BY <2>2
    <3>3. \A q \in Queues : \A i \in Positions(q, "work", h)' :
            i \in Positions(q, "work", h) \/ q = w
      BY <2>2
    <3>4. RecordOf(h)'
      BY <2>1, <3>1, <3>2 DEF RecordOf
    <3>5. WorkOf(h)'
      BY <2>1, <3>1, <3>3 DEF WorkOf, Bound
    <3> QED BY <3>4, <3>5
  <2>4. \A g \in Handles \ {h} : RecordOf(g)' /\ WorkOf(g)'
    <3>1. \A g \in Handles \ {h}, q \in Queues, kind \in {"work", "record"} :
            Positions(q, kind, g)' = Positions(q, kind, g)
      BY <2>2
    <3> QED BY <1>0, <2>1, <3>1, OrderFrame
  <2> QED BY <2>3, <2>4 DEF StreamsInOrder
<1>4. ASSUME NEW h \in Handles, ReleaseRecord(h) PROVE StreamsInOrder'
  <2>1. PICK w \in Queues :
        /\ queue' = queue /\ place[h] = "bound" /\ queue[h] = w /\ Enqueued(w, "record", h)
        /\ place'[h] = "recorded" /\ event'[h] = "pending"
        /\ \A g \in Handles \ {h} : place'[g] = place[g] /\ event'[g] = event[g]
    BY <1>0, <1>4 DEF ReleaseRecord, TypeOK, Enqueued
  <2>2. /\ Positions(w, "record", h)' =
             Positions(w, "record", h) \cup {Len(gpu[w]) + 1}
        /\ \A p \in Queues \ {w} : Positions(p, "record", h)' = Positions(p, "record", h)
        /\ \A p \in Queues : \A k, g : k # "record" \/ g # h =>
             Positions(p, k, g)' = Positions(p, k, g)
    BY <1>g, <2>1, GpuEnqueue
  <2>3. RecordOf(h)' /\ WorkOf(h)'
    <3>1. RecordOf(h) /\ WorkOf(h)
      BY <1>0 DEF StreamsInOrder
    <3>2. \A q \in Queues : Positions(q, "record", h) = {}
      BY <2>1, <3>1 DEF RecordOf, Released
    <3>3. /\ Positions(w, "record", h)' = {Len(gpu[w]) + 1}
          /\ \A q \in Queues \ {w} : Positions(q, "record", h)' = {}
      BY <2>1, <2>2, <3>2
    <3>4. \A q \in Queues : Positions(q, "work", h)' = Positions(q, "work", h)
      BY <2>2
    <3>5. \A i \in Positions(w, "work", h) : i < Len(gpu[w]) + 1
      <4>1. /\ Positions(w, "work", h) \subseteq 1..Len(gpu[w])
            /\ Len(gpu[w]) \in Nat
        BY <1>0, <2>1, PositionsType DEF TypeOK
      <4> QED BY <4>1
    <3>6. RecordOf(h)'
      BY <2>1, <3>3 DEF RecordOf, Released
    <3>7. WorkOf(h)'
      <4> SUFFICES ASSUME NEW q \in Queues, NEW i \in Positions(q, "work", h)'
                   PROVE  q = w /\ \E j \in Positions(q, "record", h)' : i < j
        BY <2>1 DEF WorkOf, Bound
      <4>1. i \in Positions(q, "work", h) /\ q = w
        BY <2>1, <3>1, <3>4 DEF WorkOf
      <4>2. PICK n : n = Len(gpu[w]) + 1
        OBVIOUS
      <4>3. Positions(w, "record", h)' = {n}
        BY <3>3, <4>2
      <4>4. i < n
        BY <3>5, <4>1, <4>2
      <4> QED BY <2>1, <4>1, <4>3, <4>4
    <3> QED BY <3>6, <3>7
  <2>4. \A g \in Handles \ {h} : RecordOf(g)' /\ WorkOf(g)'
    <3>1. \A g \in Handles \ {h}, q \in Queues, kind \in {"work", "record"} :
            Positions(q, kind, g)' = Positions(q, kind, g)
      BY <2>2
    <3> QED BY <1>0, <2>1, <3>1, OrderFrame
  <2> QED BY <2>3, <2>4 DEF StreamsInOrder
<1>5. ASSUME /\ gpu' = gpu /\ queue' = queue /\ event' = event
             /\ \A h \in Handles :
                  \/ place'[h] = place[h] \/ place'[h] = "retained"
                  \/ place[h] = "recorded" /\ place'[h] = "queued"
      PROVE  StreamsInOrder'
  <2>1. \A q, kind, g : Positions(q, kind, g)' = Positions(q, kind, g)
    BY <1>5 DEF Positions
  <2> QED BY <1>0, <1>5, <2>1, OrderFrame DEF StreamsInOrder
<1>6. ASSUME NEW h \in Handles,
             \/ ReleaseFails(h) \/ Enqueue(h) \/ EnqueueFails(h) \/ Notify(h) \/ ReadySignals(h)
      PROVE  StreamsInOrder'
  BY <1>0, <1>5, <1>6 DEF ReleaseFails, Retain, Enqueue, EnqueueFails, Notify, ReadySignals, TypeOK
<1>7. CASE WorkerSleep \/ WorkerPop \/ WorkerSync \/ WorkerDropResource
  BY <1>5, <1>7 DEF WorkerSleep, WorkerPop, WorkerSync, WorkerDropResource
<1>8. CASE WorkerFails
  BY <1>0, <1>5, <1>8 DEF WorkerFails, Retain, TypeOK
<1>9. CASE WorkerDropEvent \/ WorkerDropRef
  <2>0. PICK h \in Handles : h = current /\ worker \in {"event", "ref"}
    BY <1>9, <1>c DEF WorkerDropEvent, WorkerDropRef
  <2>1. /\ gpu' = gpu /\ queue' = queue
        /\ \A g \in Handles \ {h} : place'[g] = place[g] /\ event'[g] = event[g]
    BY <1>0, <1>9, <2>0 DEF WorkerDropEvent, WorkerDropRef, TypeOK
  <2>2. \A q, kind, g : Positions(q, kind, g)' = Positions(q, kind, g)
    BY <2>1 DEF Positions
  <2>3. RecordOf(h)' /\ WorkOf(h)'
    <3>1. \A q \in Queues, kind \in {"work", "record"} : Positions(q, kind, h)' = {}
      BY <1>0, <2>0, <2>2 DEF WorkerPastEvent
    <3> QED BY <3>1, QuietInOrder
  <2>4. \A g \in Handles \ {h} : RecordOf(g)' /\ WorkOf(g)'
    BY <1>0, <2>1, <2>2, OrderFrame
  <2> QED BY <2>3, <2>4 DEF StreamsInOrder
<1>10. ASSUME NEW q \in Queues, GpuStep(q) PROVE StreamsInOrder'
  <2> SUFFICES ASSUME NEW h \in Handles PROVE RecordOf(h)' /\ WorkOf(h)'
    BY DEF StreamsInOrder
  <2>0. RecordOf(h) /\ WorkOf(h)
    BY <1>0 DEF StreamsInOrder
  <2>1. queue' = queue /\ place' = place
    BY <1>10 DEF GpuStep
  <2>2. /\ \A kind, g : 1 \in Positions(q, kind, g) <=> Head(gpu[q]) = <<kind, g>>
        /\ \A p \in Queues \ {q} : \A kind, g : Positions(p, kind, g)' = Positions(p, kind, g)
        /\ \A kind, g : Positions(q, kind, g)' = {i \in Nat \ {0} : i + 1 \in Positions(q, kind, g)}
    BY <1>0, <1>10, GpuPop DEF GpuStep, TypeOK
  <2>3. \A kind : Positions(q, kind, h) \subseteq Nat \ {0}
    <3> TAKE kind
    <3>1. Positions(q, kind, h) \subseteq 1..Len(gpu[q]) /\ Len(gpu[q]) \in Nat
      BY <1>0, PositionsType DEF TypeOK
    <3> QED BY <3>1
  <2>4. Head(gpu[q]) # <<"record", h>> => event'[h] = event[h]
    BY <1>0, <1>10, GpuHead DEF TypeOK
  <2>5. CASE Head(gpu[q]) = <<"record", h>>
    <3>1. 1 \in Positions(q, "record", h) /\ q = queue[h]
      BY <2>0, <2>2, <2>5 DEF RecordOf
    <3>2. Positions(q, "record", h) = {1}
      BY <2>0, <3>1 DEF RecordOf
    <3>3. \A p \in Queues : Positions(p, "record", h)' = {}
      <4>1. Positions(q, "record", h)' = {}
        BY <2>2, <3>2
      <4>2. \A p \in Queues \ {q} : Positions(p, "record", h) = {}
        BY <2>0, <3>1 DEF RecordOf
      <4> QED BY <2>2, <4>1, <4>2
    <3>4. RecordOf(h)'
      BY <3>3 DEF RecordOf
    <3>5. \A p \in Queues : \A i \in Positions(p, "work", h)' :
            p = queue[h] /\ place[h] \in Bound /\ place[h] \notin {"recorded", "queued"}
      <4>1. \A i \in Positions(q, "work", h) : place[h] \notin {"recorded", "queued"}
        BY <2>0, <2>3, <3>2 DEF WorkOf
      <4> QED BY <2>0, <2>2, <3>1, <4>1 DEF WorkOf
    <3> QED BY <2>1, <3>4, <3>5 DEF WorkOf
  <2>6. CASE Head(gpu[q]) # <<"record", h>>
    <3>1. 1 \notin Positions(q, "record", h)
      BY <2>2, <2>6
    <3>2. RecordOf(h)'
      <4> SUFFICES ASSUME NEW p \in Queues, NEW i \in Positions(p, "record", h)'
                   PROVE  /\ p = queue[h] /\ event[h] = "pending" /\ place[h] \in Released
                          /\ \A j \in Positions(p, "record", h)' : i = j
        BY <2>1, <2>4, <2>6 DEF RecordOf
      <4>1. CASE p = q
        <5>1. i \in Nat /\ i + 1 \in Positions(q, "record", h)
          BY <2>2, <4>1
        <5>2. \A j \in Positions(p, "record", h)' :
                j \in Nat /\ j + 1 \in Positions(q, "record", h)
          BY <2>2, <4>1
        <5>3. \A j \in Positions(p, "record", h)' : i + 1 = j + 1
          BY <2>0, <5>1, <5>2 DEF RecordOf
        <5> QED BY <2>0, <4>1, <5>1, <5>2, <5>3 DEF RecordOf
      <4>2. CASE p # q
        BY <2>0, <2>2, <4>2 DEF RecordOf
      <4> QED BY <4>1, <4>2
    <3>3. WorkOf(h)'
      <4> SUFFICES ASSUME NEW p \in Queues, NEW i \in Positions(p, "work", h)'
                   PROVE  /\ p = queue[h] /\ place[h] \in Bound
                          /\ place[h] \in {"recorded", "queued"} =>
                               \E j \in Positions(p, "record", h)' : i < j
        BY <2>1 DEF WorkOf
      <4>1. CASE p = q
        <5>1. i \in Nat \ {0} /\ i + 1 \in Positions(q, "work", h)
          BY <2>2, <4>1
        <5>2. p = queue[h] /\ place[h] \in Bound
          BY <2>0, <4>1, <5>1 DEF WorkOf
        <5>3. ASSUME place[h] \in {"recorded", "queued"}
              PROVE  \E j \in Positions(p, "record", h)' : i < j
          <6>1. PICK j \in Positions(q, "record", h) : i + 1 < j
            BY <2>0, <5>1, <5>3 DEF WorkOf
          <6>2. j \in Nat /\ j - 1 \in Nat \ {0} /\ (j - 1) + 1 = j /\ i < j - 1
            BY <2>3, <5>1, <6>1
          <6>3. j - 1 \in Positions(q, "record", h)'
            BY <2>2, <6>1, <6>2
          <6> QED BY <4>1, <6>2, <6>3
        <5> QED BY <5>2, <5>3
      <4>2. CASE p # q
        BY <2>0, <2>2, <4>2 DEF WorkOf
      <4> QED BY <4>1, <4>2
    <3> QED BY <3>2, <3>3
  <2> QED BY <2>5, <2>6
<1>11. CASE UNCHANGED vars
  BY <1>5, <1>11 DEF vars
<1> QED BY <1>1, <1>2, <1>3, <1>4, <1>6, <1>7, <1>8, <1>9, <1>10, <1>11
        DEF Next, Release, Submit, Worker

\* The worker passes its event only when the item's reads have executed, and no
\* step puts a new one behind it.
LEMMA PastEventStep == IInv /\ [Next]_vars => WorkerPastEvent'
<1> SUFFICES ASSUME IInv, [Next]_vars PROVE WorkerPastEvent'
  OBVIOUS
<1>0. TypeOK /\ OneOwner /\ StreamsInOrder /\ WorkerPastEvent
  BY DEF IInv
<1>c. worker \in {"wait", "event", "resource", "ref"} =>
        current \in Handles /\ place[current] = "queued"
  BY <1>0 DEF TypeOK, OneOwner
<1>g. gpu \in [Queues -> Seq(Ops)]
  BY <1>0 DEF TypeOK
<1> USE DEF handleVars, workerVars
<1>1. ASSUME current' = current,
             worker' \in {"event", "resource", "ref"} => worker \in {"event", "resource", "ref"},
             \A h \in Handles : place[h] = "queued" =>
               \A q \in Queues, kind \in {"work", "record"} :
                 Positions(q, kind, h) = {} => Positions(q, kind, h)' = {}
      PROVE  WorkerPastEvent'
  <2> SUFFICES ASSUME worker' \in {"event", "resource", "ref"},
                      NEW q \in Queues, NEW kind \in {"work", "record"}
               PROVE  Positions(q, kind, current)' = {}
    BY DEF WorkerPastEvent
  <2>1. PICK h \in Handles : h = current /\ place[h] = "queued"
    BY <1>1, <1>c
  <2>2. Positions(q, kind, h) = {}
    BY <1>0, <1>1, <2>1 DEF WorkerPastEvent
  <2>3. Positions(q, kind, h)' = {}
    BY <1>1, <2>1, <2>2
  <2> QED BY <1>1, <2>1, <2>3
<1>2. ASSUME current' = current, gpu' = gpu,
             worker' \in {"event", "resource", "ref"} => worker \in {"event", "resource", "ref"}
      PROVE  WorkerPastEvent'
  <2>1. \A q, kind, h : Positions(q, kind, h)' = Positions(q, kind, h)
    BY <1>2 DEF Positions
  <2> QED BY <1>1, <1>2, <2>1
<1>3. ASSUME NEW h \in Handles,
             \/ MakePublication(h) \/ DropPublication(h) \/ ReleaseFails(h) \/ EnqueueFails(h)
             \/ ReadySignals(h) \/ Enqueue(h) \/ Notify(h)
      PROVE  WorkerPastEvent'
  BY <1>2, <1>3 DEF MakePublication, DropPublication, ReleaseFails, EnqueueFails,
     ReadySignals, Enqueue, Notify
<1>4. ASSUME NEW h \in Handles, NEW s \in Arguments, NEW c \in Callers, MakeBound(h, s, c)
      PROVE  WorkerPastEvent'
  <2>1. current' = current /\ worker' = worker
    BY <1>4 DEF MakeBound
  <2>2. PICK w \in Queues : Enqueued(w, "wait", h)
    BY <1>4, QueuesType DEF MakeBound, Enqueued
  <2>3. \A q \in Queues : \A k, g : k # "wait" \/ g # h =>
          Positions(q, k, g)' = Positions(q, k, g)
    BY <1>g, <2>2, GpuEnqueue
  <2> QED BY <1>1, <2>1, <2>3
<1>5. ASSUME NEW h \in Handles, ConsumerWork(h) \/ ReleaseRecord(h) PROVE WorkerPastEvent'
  <2>1. PICK w \in Queues :
          current' = current /\ worker' = worker /\ place[h] = "bound" /\ queue[h] = w
    BY <1>0, <1>5 DEF ConsumerWork, ReleaseRecord, TypeOK
  <2>2. \A p \in Queues : \A k, g : g # h => Positions(p, k, g)' = Positions(p, k, g)
    <3>1. CASE ConsumerWork(h)
      <4>1. Enqueued(w, "work", h)
        BY <2>1, <3>1 DEF ConsumerWork, Enqueued
      <4>2. \A p \in Queues : \A k, g : k # "work" \/ g # h =>
              Positions(p, k, g)' = Positions(p, k, g)
        BY <1>g, <4>1, GpuEnqueue
      <4> QED BY <4>2
    <3>2. CASE ReleaseRecord(h)
      <4>1. Enqueued(w, "record", h)
        BY <2>1, <3>2 DEF ReleaseRecord, Enqueued
      <4>2. \A p \in Queues : \A k, g : k # "record" \/ g # h =>
              Positions(p, k, g)' = Positions(p, k, g)
        BY <1>g, <4>1, GpuEnqueue
      <4> QED BY <4>2
    <3> QED BY <1>5, <3>1, <3>2
  <2>3. \A g \in Handles : place[g] = "queued" => g # h
    BY <2>1
  <2> QED BY <1>1, <2>1, <2>2, <2>3
<1>6. CASE WorkerSync
  <2>1. PICK h \in Handles : /\ h = current /\ place[h] = "queued" /\ event[h] # "pending"
    BY <1>6, <1>c DEF WorkerSync
  <2>2. \A q \in Queues : Positions(q, "record", h) = {}
    BY <1>0, <2>1 DEF StreamsInOrder, RecordOf
  <2>3. \A q \in Queues : Positions(q, "work", h) = {}
    BY <1>0, <2>1, <2>2 DEF StreamsInOrder, WorkOf
  <2>4. gpu' = gpu /\ current' = h
    BY <1>6, <2>1 DEF WorkerSync
  <2>5. \A q, kind : Positions(q, kind, h)' = Positions(q, kind, h)
    BY <2>4 DEF Positions
  <2>6. \A q \in Queues, kind \in {"work", "record"} : Positions(q, kind, h)' = {}
    BY <2>2, <2>3, <2>5
  <2> QED BY <2>4, <2>6 DEF WorkerPastEvent
<1>7. CASE WorkerDropEvent \/ WorkerDropResource
  BY <1>2, <1>7 DEF WorkerDropEvent, WorkerDropResource
<1>8. CASE WorkerSleep \/ WorkerPop \/ WorkerFails \/ WorkerDropRef
  <2>1. worker' \notin {"event", "resource", "ref"}
    BY <1>8 DEF WorkerSleep, WorkerPop, WorkerFails, WorkerDropRef
  <2> QED BY <2>1 DEF WorkerPastEvent
<1>9. ASSUME NEW q \in Queues, GpuStep(q) PROVE WorkerPastEvent'
  <2>1. current' = current /\ worker' = worker
    BY <1>9 DEF GpuStep
  <2>2. /\ \A p \in Queues \ {q} : \A kind, g : Positions(p, kind, g)' = Positions(p, kind, g)
        /\ \A kind, g : Positions(q, kind, g)' = {i \in Nat \ {0} : i + 1 \in Positions(q, kind, g)}
    BY <1>0, <1>9, GpuPop DEF GpuStep, TypeOK
  <2>3. \A h, kind : Positions(q, kind, h) = {} => Positions(q, kind, h)' = {}
    BY <2>2
  <2> QED BY <1>1, <2>1, <2>2, <2>3
<1>10. CASE UNCHANGED vars
  BY <1>2, <1>10 DEF vars
<1> QED BY <1>3, <1>4, <1>5, <1>6, <1>7, <1>8, <1>9, <1>10 DEF Next, Release, Submit, Worker

----------------------------------------------------------------------------
(***************************************************************************)
(* Theorems.                                                               *)
(***************************************************************************)

\* Initially nothing is mapped and every stream is empty.
LEMMA InvariantInit == Init => IInv
<1> SUFFICES ASSUME Init PROVE IInv
  OBVIOUS
<1>1. \A q \in Queues : gpu[q] = << >>
  BY DEF Init
<1>2. \A q \in Queues : \A kind, h : Positions(q, kind, h) = {}
  BY <1>1 DEF Positions
<1>3. TypeOK
  <2>1. gpu \in [Queues -> Seq(Ops)]
    BY EmptySeq DEF Init
  <2>2. items \in Seq(Handles) /\ Len(items) = 0 /\ Cardinality(Handles) \in Nat
    BY EmptySeq, FS_CardinalityType, ReadAssumption DEF Init
  <2>3. /\ place \in [Handles -> Places] /\ queue \in [Handles -> Queues]
        /\ event \in [Handles -> {"none", "created", "pending", "done"}]
    BY DEF Init, Places, Queues, Resolved
  <2>4. Len(items) <= Cardinality(Handles)
    BY <2>2
  <2>5. /\ refs = {} /\ resources = {} /\ ready = {} /\ notifying = {}
        /\ worker = "check" /\ current = NoHandle
    BY DEF Init
  <2> QED BY <2>1, <2>2, <2>3, <2>4, <2>5 DEF TypeOK
<1>4. OneOwner
  <2>1. items \in Seq(Handles) /\ Len(items) = 0
    BY EmptySeq DEF Init
  <2>2. DOMAIN items = {}
    BY <2>1, LenProperties
  <2> QED BY <2>2 DEF Init, OneOwner
<1>5. StreamsInOrder /\ WorkerPastEvent
  BY <1>2 DEF StreamsInOrder, RecordOf, WorkOf, WorkerPastEvent, Init
<1>6. HeldWhilePlaced
  BY DEF HeldWhilePlaced, Init
<1> QED BY <1>3, <1>4, <1>5, <1>6 DEF IInv

\* The inductive invariant of the subscriber's reads, for every number of
\* handles and streams.
THEOREM ReadInvariant == Spec => []IInv
<1>1. IInv /\ [Next]_vars => IInv'
  BY TypeStep, OwnerStep, OrderStep, PastEventStep, HeldStep DEF IInv
<1> QED BY <1>1, InvariantInit, PTL DEF Spec

\* The state of the subscriber's reads keeps its types; items_ holds at most one
\* entry per handle, however long the worker is held up.
THEOREM ReadTypeCorrect == Spec => []TypeOK
<1>1. IInv => TypeOK
  BY DEF IInv
<1> QED BY <1>1, ReadInvariant, PTL

\* As long as the GPU has a consumer's read before it, the buffer reference and
\* the imported resource are held: release() and the worker give nothing back
\* early, whichever of their steps fails.
THEOREM ReferencesOutliveReads == Spec => []ReferenceOutlivesReads
<1>1. IInv => ReferenceOutlivesReads
  <2> SUFFICES ASSUME IInv, NEW h \in Handles, Pending(h, "work")
               PROVE  h \in refs \cap resources
    BY DEF ReferenceOutlivesReads
  <2>1. PICK q \in Queues : Positions(q, "work", h) # {}
    BY PendingHasPosition
  <2>2. place[h] \in Bound
    BY <2>1 DEF IInv, StreamsInOrder, WorkOf
  <2>3. ~(worker = "ref" /\ current = h)
    BY <2>1 DEF IInv, WorkerPastEvent
  <2> QED BY <2>2, <2>3 DEF IInv, HeldWhilePlaced, Bound
<1> QED BY <1>1, ReadInvariant, PTL

\* An item of the DeferredReleaseQueue is in items_ once or with the worker.
THEOREM ItemsHaveOneOwner == Spec => []OneOwner
<1>1. IInv => OneOwner
  BY DEF IInv
<1> QED BY <1>1, ReadInvariant, PTL

----------------------------------------------------------------------------
(***************************************************************************)
(* The wait for the ready event.  map() leaves no context pushed, so on a  *)
(* special stream the wait is the caller's; the theorem is about callers   *)
(* whose context is the one of the imported memory, or none.               *)
(***************************************************************************)

\* A step that leaves a handle's waits and reads alone, and does not bind it or
\* take the ready event back, keeps the wait in front.
LEMMA WaitFrame ==
  ASSUME NEW h \in Handles, WaitOf(h),
         \A q \in Queues, kind \in {"wait", "work"} :
           Positions(q, kind, h)' = Positions(q, kind, h),
         queue'[h] = queue[h], queue[h] \in Queues,
         place'[h] = "bound" => place[h] = "bound",
         h \in ready => h \in ready'
  PROVE  WaitOf(h)'
<1>1. \A q \in Queues : /\ Positions(q, "wait", h)' = Positions(q, "wait", h)
                        /\ Positions(q, "work", h)' = Positions(q, "work", h)
  OBVIOUS
<1> QED BY <1>1 DEF WaitOf

\* The wait stays in front of the reads when the caller's special stream is the
\* one of the imported memory.
LEMMA WaitStep ==
  ASSUME "there" \notin Callers, IInv, WaitBeforeWork, [Next]_vars
  PROVE  WaitBeforeWork'
<1>0. TypeOK /\ OneOwner /\ StreamsInOrder
  BY DEF IInv
<1>c. worker \in {"wait", "event", "resource", "ref"} =>
        current \in Handles /\ place[current] = "queued"
  BY <1>0 DEF TypeOK, OneOwner
<1>g. gpu \in [Queues -> Seq(Ops)] /\ \A h \in Handles : queue[h] \in Queues
  BY <1>0 DEF TypeOK
<1> USE DEF handleVars, workerVars
<1>1. ASSUME gpu' = gpu, queue' = queue,
             \A h \in Handles : /\ place'[h] = "bound" => place[h] = "bound"
                                /\ h \in ready => h \in ready'
      PROVE  WaitBeforeWork'
  <2>1. \A q, kind, h : Positions(q, kind, h)' = Positions(q, kind, h)
    BY <1>1 DEF Positions
  <2> QED BY <1>1, <1>g, <2>1, WaitFrame DEF WaitBeforeWork
<1>2. ASSUME NEW h \in Handles, MakePublication(h) PROVE WaitBeforeWork'
  <2>1. /\ gpu' = gpu /\ queue' = queue /\ ready' = ready \ {h}
        /\ place'[h] = "publication" /\ \A g \in Handles \ {h} : place'[g] = place[g]
        /\ \A kind \in {"wait", "work", "record"} : ~Pending(h, kind)
    BY <1>0, <1>2 DEF MakePublication, TypeOK
  <2>2. \A q, kind, g : Positions(q, kind, g)' = Positions(q, kind, g)
    BY <2>1 DEF Positions
  <2>3. \A q \in Queues : Positions(q, "work", h) = {}
    BY <2>1, PendingHasPosition
  <2>4. WaitOf(h)'
    BY <2>1, <2>2, <2>3 DEF WaitOf
  <2>5. \A g \in Handles \ {h} : WaitOf(g)'
    BY <1>g, <2>1, <2>2, WaitFrame DEF WaitBeforeWork
  <2> QED BY <2>4, <2>5 DEF WaitBeforeWork
<1>3. ASSUME NEW h \in Handles, NEW s \in Arguments, NEW c \in Callers, MakeBound(h, s, c)
      PROVE  WaitBeforeWork'
  <2>1. PICK w \in Queues : /\ Enqueued(w, "wait", h)
                            /\ queue'[h] = w
    <3>1. c # "there"
      OBVIOUS
    <3>2. WaitQueue(s, c) = WorkQueue(s) /\ WorkQueue(s) \in Queues
      BY <3>1, QueuesType DEF WaitQueue, WorkQueue
    <3> QED BY <1>0, <1>3, <3>2 DEF MakeBound, TypeOK, Enqueued
  <2>2. /\ ready' = ready /\ place[h] = "publication"
        /\ \A g \in Handles \ {h} : place'[g] = place[g] /\ queue'[g] = queue[g]
    BY <1>0, <1>3 DEF MakeBound, TypeOK
  <2>3. /\ Positions(w, "wait", h)' = Positions(w, "wait", h) \cup {Len(gpu[w]) + 1}
        /\ \A p \in Queues : \A k, g : k # "wait" \/ g # h =>
             Positions(p, k, g)' = Positions(p, k, g)
    BY <1>g, <2>1, GpuEnqueue
  <2>4. WaitOf(h)'
    <3>1. \A q \in Queues : Positions(q, "work", h) = {}
      BY <1>0, <2>2, QuietUnlessBound DEF Bound
    <3>2. \A q \in Queues : Positions(q, "work", h)' = {}
      BY <2>3, <3>1
    <3> QED BY <2>1, <2>3, <3>2 DEF WaitOf
  <2>5. ASSUME NEW g \in Handles \ {h} PROVE WaitOf(g)'
    <3>1. \A q \in Queues, kind \in {"wait", "work"} :
            Positions(q, kind, g)' = Positions(q, kind, g)
      BY <2>3
    <3> QED BY <1>g, <2>2, <3>1, WaitFrame DEF WaitBeforeWork
  <2> QED BY <2>4, <2>5 DEF WaitBeforeWork
<1>4. ASSUME NEW h \in Handles, ConsumerWork(h) PROVE WaitBeforeWork'
  <2>1. PICK w \in Queues : /\ place' = place /\ queue' = queue /\ ready' = ready
                            /\ place[h] = "bound" /\ queue[h] = w
                            /\ Enqueued(w, "work", h)
    BY <1>g, <1>4 DEF ConsumerWork, Enqueued
  <2>2. /\ Positions(w, "work", h)' =
             Positions(w, "work", h) \cup {Len(gpu[w]) + 1}
        /\ \A p \in Queues \ {w} : Positions(p, "work", h)' = Positions(p, "work", h)
        /\ \A p \in Queues : \A k, g : k # "work" \/ g # h =>
             Positions(p, k, g)' = Positions(p, k, g)
    BY <1>g, <2>1, GpuEnqueue
  <2>3. WaitOf(h)'
    <3> SUFFICES ASSUME h \notin ready PROVE WaitOf(h)'
      BY <2>1 DEF WaitOf
    <3>0. /\ Positions(w, "wait", h) # {}
          /\ \A q \in Queues : \A i \in Positions(q, "work", h) :
               \E j \in Positions(q, "wait", h) : j < i
      BY <2>1 DEF WaitBeforeWork, WaitOf
    <3>1. \A q \in Queues : Positions(q, "wait", h)' = Positions(q, "wait", h)
      BY <2>2
    <3>2. PICK n : n = Len(gpu[w]) + 1
      OBVIOUS
    <3>3. \A j \in Positions(w, "wait", h) : j < n
      <4>1. /\ Positions(w, "wait", h) \subseteq 1..Len(gpu[w])
            /\ Len(gpu[w]) \in Nat
        BY <1>g, PositionsType
      <4> QED BY <3>2, <4>1
    <3>4. \A q \in Queues : \A i \in Positions(q, "work", h)' :
            \/ i \in Positions(q, "work", h)
            \/ q = w /\ i = n
      BY <2>1, <2>2, <3>2
    <3>5. \A q \in Queues : \A i \in Positions(q, "work", h)' :
            \E j \in Positions(q, "wait", h) : j < i
      BY <3>0, <3>3, <3>4
    <3> QED BY <1>g, <2>1, <3>0, <3>1, <3>5 DEF WaitOf
  <2>4. ASSUME NEW g \in Handles \ {h} PROVE WaitOf(g)'
    <3>1. \A q \in Queues, kind \in {"wait", "work"} :
            Positions(q, kind, g)' = Positions(q, kind, g)
      BY <2>2
    <3> QED BY <1>g, <2>1, <3>1, WaitFrame DEF WaitBeforeWork
  <2> QED BY <2>3, <2>4 DEF WaitBeforeWork
<1>5. ASSUME NEW h \in Handles, ReleaseRecord(h) PROVE WaitBeforeWork'
  <2>1. PICK w \in Queues :
        /\ queue' = queue /\ ready' = ready /\ Enqueued(w, "record", h)
        /\ \A g \in Handles : place'[g] = "bound" => place[g] = "bound"
    BY <1>0, <1>5 DEF ReleaseRecord, TypeOK, Enqueued
  <2>2. \A p \in Queues : \A k, g : k # "record" \/ g # h =>
          Positions(p, k, g)' = Positions(p, k, g)
    BY <1>g, <2>1, GpuEnqueue
  <2>3. ASSUME NEW g \in Handles PROVE WaitOf(g)'
    <3>1. \A q \in Queues, kind \in {"wait", "work"} :
            Positions(q, kind, g)' = Positions(q, kind, g)
      BY <2>2
    <3> QED BY <1>g, <2>1, <3>1, WaitFrame DEF WaitBeforeWork
  <2> QED BY <2>3 DEF WaitBeforeWork
<1>6. ASSUME NEW h \in Handles,
             \/ DropPublication(h) \/ ReleaseFails(h) \/ Enqueue(h) \/ EnqueueFails(h)
             \/ Notify(h) \/ ReadySignals(h)
      PROVE  WaitBeforeWork'
  BY <1>0, <1>1, <1>6 DEF DropPublication, ReleaseFails, Retain, Enqueue, EnqueueFails, Notify,
     ReadySignals, TypeOK
<1>7. CASE Worker
  BY <1>0, <1>1, <1>7 DEF Worker, WorkerSleep, WorkerPop, WorkerSync, WorkerFails, Retain,
     WorkerDropEvent, WorkerDropResource, WorkerDropRef, TypeOK
<1>8. ASSUME NEW q \in Queues, GpuStep(q) PROVE WaitBeforeWork'
  <2> SUFFICES ASSUME NEW h \in Handles, h \notin ready PROVE WaitOf(h)'
    BY <1>8 DEF WaitBeforeWork, WaitOf, GpuStep
  <2>0. /\ place[h] = "bound" => Positions(queue[h], "wait", h) # {}
        /\ \A p \in Queues : \A i \in Positions(p, "work", h) :
             \E j \in Positions(p, "wait", h) : j < i
    BY DEF WaitBeforeWork, WaitOf
  <2>1. queue' = queue /\ place' = place /\ queue[h] \in Queues
    BY <1>8, <1>g DEF GpuStep
  <2>2. /\ \A kind, g : 1 \in Positions(q, kind, g) <=> Head(gpu[q]) = <<kind, g>>
        /\ \A p \in Queues \ {q} : \A kind, g : Positions(p, kind, g)' = Positions(p, kind, g)
        /\ \A kind, g : Positions(q, kind, g)' = {i \in Nat \ {0} : i + 1 \in Positions(q, kind, g)}
    BY <1>g, <1>8, GpuPop DEF GpuStep
  <2>3. Head(gpu[q]) # <<"wait", h>>
    BY <1>0, <1>8, GpuHead
  <2>4. Positions(q, "wait", h) \subseteq Nat \ {0, 1}
    <3>1. Positions(q, "wait", h) \subseteq 1..Len(gpu[q]) /\ Len(gpu[q]) \in Nat
      BY <1>g, PositionsType
    <3>2. 1 \notin Positions(q, "wait", h)
      BY <2>2, <2>3
    <3> QED BY <3>1, <3>2
  <2>5. \A j \in Positions(q, "wait", h) :
          /\ j - 1 \in Positions(q, "wait", h)'
          /\ \A i \in Nat : j < i + 1 => j - 1 < i
    <3> SUFFICES ASSUME NEW j \in Positions(q, "wait", h)
                 PROVE  /\ j - 1 \in Positions(q, "wait", h)'
                        /\ \A i \in Nat : j < i + 1 => j - 1 < i
      OBVIOUS
    <3>1. j \in Nat /\ j - 1 \in Nat \ {0} /\ (j - 1) + 1 = j
      BY <2>4
    <3> QED BY <2>2, <3>1
  <2>w. PICK w \in Queues : w = queue[h] /\ w = queue'[h]
    BY <2>1
  <2>6. place[h] = "bound" => Positions(w, "wait", h)' # {}
    <3>1. CASE w = q
      BY <2>0, <2>5, <2>w, <3>1
    <3>2. CASE w # q
      BY <2>0, <2>2, <2>w, <3>2
    <3> QED BY <3>1, <3>2
  <2>7. ASSUME NEW p \in Queues, NEW i \in Positions(p, "work", h)'
        PROVE  \E j \in Positions(p, "wait", h)' : j < i
    <3>1. CASE p = q
      <4>1. i \in Nat /\ i + 1 \in Positions(q, "work", h)
        BY <2>2, <3>1
      <4>2. PICK j \in Positions(q, "wait", h) : j < i + 1
        BY <2>0, <4>1
      <4> QED BY <2>5, <3>1, <4>1, <4>2
    <3>2. CASE p # q
      BY <2>0, <2>2, <3>2
    <3> QED BY <3>1, <3>2
  <2> QED BY <2>1, <2>6, <2>7, <2>w DEF WaitOf
<1>9. CASE UNCHANGED vars
  BY <1>1, <1>9 DEF vars
<1> QED BY <1>2, <1>3, <1>4, <1>5, <1>6, <1>7, <1>8, <1>9 DEF Next, Release, Submit

\* The GPU executes no read of a block before the publisher's ready event has
\* passed, for callers whose special stream is the one of the imported memory.
\* The violation run shows that the assumption is needed.
THEOREM ReadsWaitForReady ==
  ASSUME "there" \notin Callers
  PROVE  Spec => ReadsFollowReady
<1>1. Init => WaitBeforeWork
  <2> SUFFICES ASSUME Init PROVE WaitBeforeWork
    OBVIOUS
  <2>1. \A q \in Queues : gpu[q] = << >>
    BY DEF Init
  <2>2. \A q \in Queues : \A kind, h : Positions(q, kind, h) = {}
    BY <2>1 DEF Positions
  <2> QED BY <2>2 DEF Init, WaitBeforeWork, WaitOf
<1>2. IInv /\ WaitBeforeWork /\ [Next]_vars => WaitBeforeWork'
  BY WaitStep
<1>3. IInv /\ WaitBeforeWork => \A q \in Queues, h \in Handles :
        gpu[q] # << >> /\ Head(gpu[q]) = <<"work", h>> => h \in ready
  <2> SUFFICES ASSUME IInv, WaitBeforeWork, NEW q \in Queues, NEW h \in Handles,
                      gpu[q] # << >>, Head(gpu[q]) = <<"work", h>>, h \notin ready
               PROVE  FALSE
    OBVIOUS
  <2>1. gpu[q] \in Seq(Ops) /\ gpu \in [Queues -> Seq(Ops)]
    BY DEF IInv, TypeOK
  <2>2. 1 \in Positions(q, "work", h)
    BY <2>1, HeadTailProperties, LenProperties, EmptySeq DEF Positions
  <2>3. PICK j \in Positions(q, "wait", h) : j < 1
    BY <2>2 DEF WaitBeforeWork, WaitOf
  <2>4. Positions(q, "wait", h) \subseteq 1..Len(gpu[q]) /\ Len(gpu[q]) \in Nat
    BY <2>1, PositionsType
  <2> QED BY <2>3, <2>4
<1>4. IInv /\ WaitBeforeWork /\ [Next]_vars =>
        [\A q \in Queues, h \in Handles :
           gpu[q] # << >> /\ Head(gpu[q]) = <<"work", h>> /\ gpu'[q] = Tail(gpu[q])
             => h \in ready]_vars
  BY <1>3
<1> QED BY <1>1, <1>2, <1>4, ReadInvariant, PTL DEF Spec, ReadsFollowReady
=============================================================================
