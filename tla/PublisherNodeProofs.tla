------------------------ MODULE PublisherNodeProofs ------------------------
(***************************************************************************)
(* Proofs about the image publisher and its readers, for any number of     *)
(* blocks, subscribers, generations and images: what a kernel reads is the *)
(* image of its message, and every block keeps the promise of BlockLease.  *)
(***************************************************************************)
EXTENDS PublisherNode, SequenceTheorems, TLAPS

\* Where the stream has work on block b.
Writes(b)  == {i \in DOMAIN stream : stream[i].block = b /\ stream[i].op # "record"}
Records(b) == {i \in DOMAIN stream : stream[i].block = b /\ stream[i].op = "record"}

Reserved == {"acquired", "launched", "recorded"}
Busy     == {"claimed", "committed"} \cup Reserved

\* Where on_timer is tells what it has made of its block.
NodeFollowsBlock ==
  /\ node \in {"starting", "idle", "thrown"} => cur = NoBlock
  /\ node \in Busy => cur \in Blocks /\ frame_index < MaxFrames
  /\ node = "claimed" => phase[cur] = "claimed" /\ uid[cur] < MaxUid
  /\ node \in Reserved => phase[cur] = "writing"
  /\ node = "committed" => phase[cur] = "free"
  /\ node \in Reserved \cup {"committed"} => uid[cur] > 0

\* Nothing is of a generation that the block has not reached; what a new
\* generation has is what on_timer has done so far.
GenerationOf(b) ==
  /\ mem[b].uid <= uid[b] /\ issued[b] <= uid[b]
  /\ \A i \in Writes(b) : stream[i].uid <= uid[b]
  /\ node \in {"acquired", "launched"} /\ cur = b => issued[b] < uid[b]
  /\ node = "acquired" /\ cur = b =>
       mem[b].uid < uid[b] /\ \A i \in Writes(b) : stream[i].uid < uid[b]

\* The stream writes the generations of a block in order, one after the other.
WritesInOrder(b) ==
  /\ \A i \in Writes(b) :
       /\ stream[i].op = "write" => mem[b].uid < stream[i].uid
       /\ stream[i].op = "writing" => mem[b] = [uid |-> stream[i].uid, frame |-> Torn]
  /\ \A i, j \in Writes(b) : i < j => stream[i].uid < stream[j].uid

\* The records of a ready event complete in the order they were issued.
RecordsInOrder(b) ==
  /\ \A i \in Records(b) : completed[b] < stream[i].seq /\ stream[i].seq <= issued[b]
  /\ \A i, j \in Records(b) : i < j => stream[i].seq < stream[j].seq

BlockInv == \A b \in Blocks : GenerationOf(b) /\ WritesInOrder(b) /\ RecordsInOrder(b)

\* A message is of a generation that was committed.
MessagesCommitted ==
  \A m \in msgs :
    /\ m.uid <= uid[m.block]
    /\ phase[m.block] = "writing" \/ (node = "committed" /\ cur = m.block) =>
         m.uid < uid[m.block]

\* The message that on_timer is about to send.
Upcoming == [block |-> cur, uid |-> uid[cur], frame |-> frame_index]

\* An image that was launched is in the block, is to be written, has been
\* written over, or was lost with the publisher.
ImageOf(m) ==
  \/ mem[m.block].uid > m.uid
  \/ mem[m.block] = [uid |-> m.uid, frame |-> m.frame]
  \/ \E i \in Writes(m.block) : stream[i].uid = m.uid /\ stream[i].frame = m.frame
  \/ <<m.block, m.uid>> \in lost

\* Whoever waits for the records issued so far, up to number n, waits for every
\* write of this and of earlier generations.
Covered(m, n) ==
  \A i \in Writes(m.block) : stream[i].uid <= m.uid =>
    \E j \in Records(m.block) : i < j /\ stream[j].seq <= n

ImagesFollow ==
  /\ \A m \in msgs : ImageOf(m) /\ Covered(m, issued[m.block])
  /\ node \in {"launched", "recorded", "committed"} => ImageOf(Upcoming)
  /\ node \in {"recorded", "committed"} => Covered(Upcoming, issued[cur])

\* A lease keeps the block from being claimed; one that came late lets the claim
\* that was there already move on, once.
LeaseOf(s) ==
  sub[s] # "idle" =>
    LET m == held[s] IN
      \/ ~late[s] /\ phase[m.block] = "free" /\ uid[m.block] = m.uid
      \/ late[s] /\ phase[m.block] = "claimed" /\ uid[m.block] = m.uid
      \/ late[s] /\ phase[m.block] # "claimed" /\ uid[m.block] = m.uid + 1

\* What a subscriber knows of the stream, waiting and reading.
ReadOf(s) ==
  /\ sub[s] = "waiting" => Covered(held[s], want[s])
  /\ sub[s] = "reading" =>
       \/ \A i \in Writes(held[s].block) : stream[i].uid > held[s].uid
       \/ <<held[s].block, held[s].uid>> \in lost

SubInv == \A s \in Subs : LeaseOf(s) /\ ReadOf(s)

\* Only the end of the publisher loses images, and then all that are pending;
\* one that could not be constructed had none.
LostAtEnd ==
  /\ IF node = "gone" THEN Unwritten \subseteq lost ELSE lost = {}
  /\ node = "starting" => stream = <<>>

IInv == /\ TypeOK /\ NodeFollowsBlock /\ BlockInv /\ MessagesCommitted
        /\ ImagesFollow /\ SubInv /\ LostAtEnd

----------------------------------------------------------------------------
(***************************************************************************)
(* Operations of the stream.                                               *)
(***************************************************************************)

\* Enqueueing puts an operation behind the ones there are.
LEMMA EnqueueOp ==
  ASSUME stream \in Seq(Ops), NEW o \in Ops, stream' = Append(stream, o)
  PROVE  /\ stream' \in Seq(Ops)
         /\ DOMAIN stream = 1..Len(stream) /\ Len(stream) \in Nat
         /\ DOMAIN stream' = 1..(Len(stream) + 1)
         /\ \A i \in DOMAIN stream : stream'[i] = stream[i]
         /\ stream'[Len(stream) + 1] = o
<1>1. DOMAIN stream = 1..Len(stream) /\ Len(stream) \in Nat
  BY LenProperties
<1>2. /\ stream' \in Seq(Ops) /\ Len(stream') = Len(stream) + 1
      /\ \A i \in 1..Len(stream) : stream'[i] = stream[i]
      /\ stream'[Len(stream) + 1] = o
  BY AppendProperties
<1>3. DOMAIN stream' = 1..Len(stream')
  BY <1>2, LenProperties
<1> QED BY <1>1, <1>2, <1>3

Enqueues(o) == stream' = Append(stream, o)

\* Writes and records of a block when an operation is enqueued.
LEMMA EnqueuedWork ==
  ASSUME stream \in Seq(Ops), NEW o \in Ops, Enqueues(o), NEW b
  PROVE  /\ \A i \in Writes(b)' :
              \/ i \in Writes(b) /\ stream'[i] = stream[i]
              \/ i = Len(stream) + 1 /\ stream'[i] = o /\ o.block = b /\ o.op # "record"
         /\ \A i \in Records(b)' :
              \/ i \in Records(b) /\ stream'[i] = stream[i]
              \/ i = Len(stream) + 1 /\ stream'[i] = o /\ o.block = b /\ o.op = "record"
         /\ \A i \in Writes(b) : i \in Writes(b)' /\ stream'[i] = stream[i] /\ i < Len(stream) + 1
         /\ \A i \in Records(b) : i \in Records(b)' /\ stream'[i] = stream[i] /\ i < Len(stream) + 1
         /\ o.block = b /\ o.op # "record" => Len(stream) + 1 \in Writes(b)'
         /\ o.block = b /\ o.op = "record" => Len(stream) + 1 \in Records(b)'
         /\ Len(stream) \in Nat
BY EnqueueOp DEF Enqueues, Writes, Records

\* What the stream does with its first operation: it begins a write, or it ends
\* the operation and moves on by one.
Moves(k) ==
  /\ \A i : i \in DOMAIN stream' <=> i \in Nat \ {0} /\ i + k \in DOMAIN stream
  /\ \A i \in DOMAIN stream' :
       /\ stream'[i].block = stream[i + k].block /\ stream'[i].uid = stream[i + k].uid
       /\ stream'[i].frame = stream[i + k].frame /\ stream'[i].seq = stream[i + k].seq
       /\ stream'[i].op = "record" <=> stream[i + k].op = "record"
       /\ i + k > 1 => stream'[i].op = stream[i + k].op

\* The head of the stream is begun.
LEMMA BeginMoves ==
  ASSUME stream \in Seq(Ops), stream # <<>>, stream[1].op = "write",
         stream' = [stream EXCEPT ![1].op = "writing"]
  PROVE  /\ stream' \in Seq(Ops) /\ Moves(0)
         /\ 1 \in DOMAIN stream /\ stream[1] \in Ops /\ stream'[1].op = "writing"
<1>1. DOMAIN stream = 1..Len(stream) /\ Len(stream) \in Nat /\ 1 \in DOMAIN stream
  BY LenProperties, EmptySeq
<1>2. \A i \in DOMAIN stream : stream[i] \in Ops
  BY ElementOfSeq, <1>1
<1>3. DOMAIN stream' = DOMAIN stream
  OBVIOUS
<1>4. stream'[1] = [stream[1] EXCEPT !.op = "writing"]
      /\ \A i \in DOMAIN stream : i # 1 => stream'[i] = stream[i]
  BY <1>1
<1>5. /\ stream'[1] \in Ops /\ stream'[1].op = "writing"
      /\ stream'[1].block = stream[1].block /\ stream'[1].uid = stream[1].uid
      /\ stream'[1].frame = stream[1].frame /\ stream'[1].seq = stream[1].seq
  BY <1>1, <1>2, <1>4 DEF Ops
<1>6. stream' = [stream EXCEPT ![1] = stream'[1]]
  BY <1>1, <1>4
<1>7. stream' \in Seq(Ops)
  BY <1>1, <1>5, <1>6, ExceptSeq
<1>8. Moves(0)
  BY <1>1, <1>3, <1>4, <1>5 DEF Moves
<1> QED BY <1>1, <1>2, <1>5, <1>7, <1>8

\* The head of the stream has executed.
LEMMA EndMoves ==
  ASSUME stream \in Seq(Ops), stream # <<>>, stream' = Tail(stream)
  PROVE  /\ stream' \in Seq(Ops) /\ Moves(1)
         /\ 1 \in DOMAIN stream /\ stream[1] \in Ops
<1>1. DOMAIN stream = 1..Len(stream) /\ Len(stream) \in Nat /\ 1 \in DOMAIN stream
  BY LenProperties, EmptySeq
<1>2. stream[1] \in Ops
  BY ElementOfSeq, <1>1
<1>3. /\ stream' \in Seq(Ops) /\ Len(stream') = Len(stream) - 1
      /\ \A i \in 1..Len(stream') : stream'[i] = stream[i + 1]
  BY HeadTailProperties
<1>4. DOMAIN stream' = 1..Len(stream')
  BY <1>3, LenProperties
<1>5. Moves(1)
  BY <1>1, <1>3, <1>4 DEF Moves
<1> QED BY <1>1, <1>2, <1>3, <1>5

----------------------------------------------------------------------------
(***************************************************************************)
(* Types, and the course of on_timer.                                      *)
(***************************************************************************)

\* An operation on_timer enqueues is one.
LEMMA OpType ==
  ASSUME TypeOK, NodeFollowsBlock, node \in Reserved,
         NEW op \in {"write", "record"}, NEW n \in 0..MaxUid
  PROVE  Op(op, n) \in Ops
<1>1. cur \in Blocks /\ uid[cur] > 0 /\ uid[cur] \in 0..MaxUid /\ frame_index \in 0..MaxFrames
  BY DEF NodeFollowsBlock, Busy, Reserved, TypeOK
<1>2. MaxUid \in Nat /\ uid[cur] \in 1..MaxUid
  BY <1>1, PublisherAssumption
<1> QED BY <1>1, <1>2 DEF Op, Ops

\* An operation is in its place in the stream, with its type.
LEMMA OpAt ==
  ASSUME TypeOK
  PROVE  \A i \in DOMAIN stream : stream[i] \in Ops
BY LenProperties, ElementOfSeq DEF TypeOK

\* Enqueueing behind the stream begins nothing.
LEMMA EnqueueBeginsNothing ==
  ASSUME TypeOK, NEW o \in Ops, o.op # "writing", stream' = Append(stream, o)
  PROVE  /\ stream' \in Seq(Ops)
         /\ \A i \in DOMAIN stream' : stream'[i].op = "writing" => i = 1
<1>1. stream \in Seq(Ops) /\ \A i \in DOMAIN stream : stream[i].op = "writing" => i = 1
  BY DEF TypeOK
<1> QED BY <1>1, EnqueueOp

\* The type invariant is preserved by the publisher's steps.
LEMMA NodeTypeStep ==
  ASSUME TypeOK, NodeFollowsBlock, BlockInv, NodeStep
  PROVE  TypeOK'
<1> USE PublisherAssumption
<1>0. MaxUid \in Nat /\ MaxFrames \in Nat
  OBVIOUS
<1>1. CASE Construct
  BY <1>1 DEF Construct, TypeOK, leaseVars, gpuVars, subVars
<1>2. CASE ConstructFails
  BY <1>2 DEF ConstructFails, TypeOK, leaseVars, gpuVars, subVars
<1>3. CASE \E b \in Blocks : Acquire(b)
  BY <1>3 DEF Acquire, TypeOK, gpuVars, subVars
<1>4. CASE NextUid
  <2>1. cur \in Blocks /\ uid[cur] < MaxUid
    BY <1>4 DEF NextUid, NodeFollowsBlock, Busy
  <2> QED BY <1>0, <1>4, <2>1 DEF NextUid, TypeOK, gpuVars, subVars
<1>5. CASE Launch
  <2>1. Op("write", 0) \in Ops /\ Op("write", 0).op = "write"
    BY <1>5, OpType DEF Launch, Reserved, Op
  <2>2. stream' \in Seq(Ops) /\ \A i \in DOMAIN stream' : stream'[i].op = "writing" => i = 1
    BY <1>5, <2>1, EnqueueBeginsNothing DEF Launch
  <2> QED BY <1>5, <2>2 DEF Launch, TypeOK, leaseVars, subVars
<1>6. CASE LaunchFails
  <2>1. Op("write", 0) \in Ops /\ Op("write", 0).op = "write"
    BY <1>6, OpType DEF LaunchFails, Reserved, Op
  <2>2. stream' \in Seq(Ops) /\ \A i \in DOMAIN stream' : stream'[i].op = "writing" => i = 1
    BY <1>6, <2>1, EnqueueBeginsNothing DEF LaunchFails, TypeOK
  <2> QED BY <1>6, <2>2 DEF LaunchFails, TypeOK, subVars
<1>7. CASE RecordReady
  <2>1. cur \in Blocks /\ issued[cur] < uid[cur] /\ uid[cur] \in 0..MaxUid /\ issued[cur] \in 0..MaxUid
    BY <1>7 DEF RecordReady, NodeFollowsBlock, Busy, Reserved, BlockInv, GenerationOf, TypeOK
  <2>2. issued[cur] + 1 \in 0..MaxUid
    BY <2>1
  <2>3. Op("record", issued[cur] + 1) \in Ops /\ Op("record", issued[cur] + 1).op = "record"
    BY <1>7, <2>2, OpType DEF RecordReady, Reserved, Op
  <2>4. stream' \in Seq(Ops) /\ \A i \in DOMAIN stream' : stream'[i].op = "writing" => i = 1
    BY <1>7, <2>3, EnqueueBeginsNothing DEF RecordReady
  <2>5. issued' \in [Blocks -> 0..MaxUid] /\ \A b \in Blocks : completed'[b] <= issued'[b]
    BY <1>7, <2>1, <2>2 DEF RecordReady, TypeOK
  <2> QED BY <1>7, <2>4, <2>5 DEF RecordReady, TypeOK, leaseVars, subVars
<1>8. CASE Commit
  BY <1>8 DEF Commit, TypeOK, gpuVars, subVars
<1>9. CASE PrepareFails
  BY <1>9 DEF PrepareFails, TypeOK, leaseVars, gpuVars, subVars
<1>10. CASE Publish
  <2>1. /\ cur \in Blocks /\ frame_index < MaxFrames /\ uid[cur] > 0
        /\ uid[cur] \in 0..MaxUid /\ frame_index \in 0..MaxFrames
    BY <1>10 DEF Publish, NodeFollowsBlock, Busy, TypeOK
  <2>2. uid[cur] \in 1..MaxUid /\ frame_index' \in 0..MaxFrames
    BY <2>1, <1>0, <1>10 DEF Publish
  <2>3. msgs' \subseteq Messages /\ msgs \subseteq msgs'
    BY <1>10, <2>1, <2>2 DEF Publish, Messages, TypeOK
  <2> QED BY <1>10, <2>2, <2>3 DEF Publish, TypeOK, leaseVars, gpuVars, subVars
<1>11. CASE PublishThrows
  BY <1>11 DEF PublishThrows, TypeOK, leaseVars, gpuVars, subVars
<1>12. CASE Destroy \/ Killed
  <2>1. Unwritten \subseteq Blocks \X (1..MaxUid)
    BY OpAt DEF Unwritten, Ops
  <2> QED BY <1>12, <2>1 DEF Destroy, Killed, TypeOK, leaseVars, gpuVars, subVars
<1> QED BY <1>1, <1>2, <1>3, <1>4, <1>5, <1>6, <1>7, <1>8, <1>9, <1>10, <1>11, <1>12 DEF NodeStep

\* Where on_timer is keeps telling what it has made of its block.
LEMMA NodeCourse ==
  ASSUME TypeOK, NodeFollowsBlock, [Next]_vars
  PROVE  NodeFollowsBlock'
<1> USE PublisherAssumption DEF NodeFollowsBlock, Busy, Reserved
<1>1. CASE NodeStep
  <2>1. CASE \E b \in Blocks : Acquire(b)
    BY <1>1, <2>1 DEF Acquire, TypeOK
  <2>2. CASE NextUid
    BY <2>2 DEF NextUid, TypeOK
  <2>3. CASE Launch \/ RecordReady
    BY <2>3 DEF Launch, RecordReady, leaseVars
  <2>4. CASE LaunchFails \/ PrepareFails
    BY <2>4 DEF LaunchFails, PrepareFails
  <2>5. CASE Commit
    BY <2>5 DEF Commit, TypeOK
  <2>6. CASE Publish \/ PublishThrows
    BY <2>6 DEF Publish, PublishThrows
  <2>7. CASE Construct \/ ConstructFails \/ Destroy \/ Killed
    BY <2>7 DEF Construct, ConstructFails, Destroy, Killed
  <2> QED BY <1>1, <2>1, <2>2, <2>3, <2>4, <2>5, <2>6, <2>7 DEF NodeStep
<1>2. CASE StreamStep \/ Abandon \/ (\E s \in Subs : SubStep(s)) \/ UNCHANGED vars
  <2>1. UNCHANGED <<node, cur, frame_index, uid, phase>>
    BY <1>2 DEF StreamStep, Abandon, SubStep, Grant, Wait, StartRead, Return, SubKilled,
                nodeVars, leaseVars, vars
  <2> QED BY <2>1
<1> QED BY <1>1, <1>2 DEF Next

\* The stream's head, as StreamStep sees it.
LEMMA HeadIsFirst ==
  ASSUME TypeOK, stream # <<>>
  PROVE  Head(stream) = stream[1]
BY EmptySeq, LenProperties DEF TypeOK

\* The three things the stream does, by its moves.
LEMMA StreamCases ==
  ASSUME TypeOK, StreamStep
  PROVE  /\ 1 \in DOMAIN stream /\ stream[1] \in Ops /\ stream' \in Seq(Ops)
         /\ \/ /\ stream[1].op = "write" /\ Moves(0) /\ stream'[1].op = "writing"
               /\ mem' = [mem EXCEPT ![stream[1].block] = [uid |-> stream[1].uid, frame |-> Torn]]
               /\ UNCHANGED completed
            \/ /\ stream[1].op = "writing" /\ Moves(1)
               /\ mem' = [mem EXCEPT ![stream[1].block] =
                            [uid |-> stream[1].uid, frame |-> stream[1].frame]]
               /\ UNCHANGED completed
            \/ /\ stream[1].op = "record" /\ Moves(1)
               /\ completed' = [completed EXCEPT ![stream[1].block] = stream[1].seq]
               /\ UNCHANGED mem
         /\ UNCHANGED <<node, cur, frame_index, uid, phase, pinned, issued, msgs,
                        sub, held, want, late, lost>>
<1>1. stream \in Seq(Ops) /\ stream # <<>> /\ Head(stream) = stream[1]
  BY HeadIsFirst DEF StreamStep, TypeOK
<1>2. UNCHANGED <<node, cur, frame_index, uid, phase, pinned, issued, msgs,
                  sub, held, want, late, lost>>
  BY DEF StreamStep, nodeVars, leaseVars, subVars
<1>3. CASE /\ stream[1].op = "write"
           /\ mem' = [mem EXCEPT ![stream[1].block] = [uid |-> stream[1].uid, frame |-> Torn]]
           /\ stream' = [stream EXCEPT ![1].op = "writing"]
           /\ UNCHANGED completed
  BY <1>1, <1>2, <1>3, BeginMoves
<1>4. CASE /\ stream[1].op = "writing"
           /\ mem' = [mem EXCEPT ![stream[1].block] =
                        [uid |-> stream[1].uid, frame |-> stream[1].frame]]
           /\ stream' = Tail(stream)
           /\ UNCHANGED completed
  BY <1>1, <1>2, <1>4, EndMoves
<1>5. CASE /\ stream[1].op = "record"
           /\ completed' = [completed EXCEPT ![stream[1].block] = stream[1].seq]
           /\ stream' = Tail(stream)
           /\ UNCHANGED mem
  BY <1>1, <1>2, <1>5, EndMoves
<1> QED BY <1>1, <1>3, <1>4, <1>5 DEF StreamStep

\* The type invariant is preserved by the GPU.
LEMMA StreamTypeStep ==
  ASSUME TypeOK, BlockInv, StreamStep \/ Abandon
  PROVE  TypeOK'
<1> USE PublisherAssumption
<1>1. CASE StreamStep
  <2>1. stream[1].block \in Blocks /\ stream[1].uid \in 0..MaxUid /\ stream[1].frame \in 0..Torn
        /\ stream[1].seq \in 0..MaxUid /\ Torn \in 0..Torn
    BY <1>1, StreamCases DEF Ops, Torn
  <2>2. mem' \in [Blocks -> Images]
    <3>1. /\ [uid |-> stream[1].uid, frame |-> Torn] \in Images
          /\ [uid |-> stream[1].uid, frame |-> stream[1].frame] \in Images
      BY <2>1 DEF Images
    <3>2. mem \in [Blocks -> Images]
      BY DEF TypeOK
    <3> QED BY <1>1, <2>1, <3>1, <3>2, StreamCases
  <2>3. stream[1].op = "record" => stream[1].seq <= issued[stream[1].block]
    BY <1>1, <2>1, StreamCases DEF BlockInv, RecordsInOrder, Records
  <2>4. /\ completed' \in [Blocks -> 0..MaxUid]
        /\ \A b \in Blocks : completed'[b] <= issued'[b]
    BY <1>1, <2>1, <2>3, StreamCases DEF TypeOK
  <2>5. \A i \in DOMAIN stream' : stream'[i].op = "writing" => i = 1
    <3>1. \A i \in DOMAIN stream : stream[i].op = "writing" => i = 1
      BY DEF TypeOK
    <3>2. CASE Moves(0)
      BY <3>1, <3>2 DEF Moves
    <3>3. CASE Moves(1)
      BY <3>1, <3>3 DEF Moves
    <3> QED BY <1>1, <3>2, <3>3, StreamCases
  <2>6. /\ stream' \in Seq(Ops)
        /\ UNCHANGED <<node, cur, frame_index, uid, phase, pinned, issued, msgs,
                       sub, held, want, late, lost>>
    BY <1>1, StreamCases
  <2> QED BY <2>2, <2>4, <2>5, <2>6 DEF TypeOK
<1>2. CASE Abandon
  <2>1. stream' \in Seq(Ops) /\ DOMAIN stream' = {}
    BY <1>2, EmptySeq DEF Abandon
  <2> QED BY <1>2, <2>1 DEF Abandon, TypeOK, nodeVars, leaseVars, subVars
<1> QED BY <1>1, <1>2

\* No message is the absent one.
LEMMA MessageIsOne ==
  ASSUME NEW m \in Messages
  PROVE  m # NoMsg /\ m.block \in Blocks /\ m.block # NoBlock /\ m.uid \in 1..MaxUid
         /\ m.frame \in 0..MaxFrames /\ m.uid \in Nat
BY PublisherAssumption DEF Messages, NoMsg

\* A subscriber that is not idle reads a message.
LEMMA HeldIsSent ==
  ASSUME TypeOK, NEW s \in Subs, sub[s] # "idle"
  PROVE  held[s] \in msgs /\ held[s] \in Messages
BY DEF TypeOK

\* The type invariant is preserved by the subscribers.
LEMMA SubTypeStep ==
  ASSUME TypeOK, NEW s \in Subs, SubStep(s)
  PROVE  TypeOK'
<1> USE PublisherAssumption
<1>1. CASE \E m \in msgs : Grant(s, m)
  <2>1. PICK m \in msgs : Grant(s, m)
    BY <1>1
  <2>2. m \in Messages /\ m # NoMsg
    BY <2>1, MessageIsOne DEF TypeOK
  <2>3. /\ held' \in [Subs -> Messages \cup {NoMsg}]
        /\ \A u \in Subs : held'[u] \in msgs \cup {NoMsg} /\ (held'[u] = NoMsg <=> sub'[u] = "idle")
    BY <2>1, <2>2 DEF Grant, TypeOK
  <2>4. /\ sub' \in [Subs -> {"idle", "leased", "waiting", "reading"}]
        /\ late' \in [Subs -> BOOLEAN]
    BY <2>1 DEF Grant, TypeOK
  <2> QED BY <2>1, <2>3, <2>4 DEF Grant, TypeOK, nodeVars, leaseVars, gpuVars
<1>2. CASE Wait(s)
  <2>1. held[s].block \in Blocks
    BY <1>2, HeldIsSent, MessageIsOne DEF Wait
  <2>2. want' \in [Subs -> 0..MaxUid]
    BY <1>2, <2>1 DEF Wait, TypeOK
  <2> QED BY <1>2, <2>2 DEF Wait, TypeOK, nodeVars, leaseVars, gpuVars
<1>3. CASE StartRead(s)
  BY <1>3 DEF StartRead, TypeOK, nodeVars, leaseVars, gpuVars
<1>4. CASE Return(s)
  BY <1>4 DEF Return, TypeOK, nodeVars, leaseVars, gpuVars
<1>5. CASE SubKilled(s)
  <2>1. held[s].block \in Blocks
    BY <1>5, HeldIsSent, MessageIsOne DEF SubKilled
  <2> QED BY <1>5, <2>1 DEF SubKilled, TypeOK, nodeVars, gpuVars
<1> QED BY <1>1, <1>2, <1>3, <1>4, <1>5 DEF SubStep

----------------------------------------------------------------------------
(***************************************************************************)
(* Generations, writes and records of the blocks.                          *)
(***************************************************************************)

\* The work that is left after a move was there before.
LEMMA MovedWork ==
  ASSUME stream \in Seq(Ops), NEW k \in {0, 1}, Moves(k), NEW b
  PROVE  /\ \A i \in Writes(b)' :
              /\ i + k \in Writes(b) /\ i \in Nat \ {0}
              /\ stream'[i].uid = stream[i + k].uid /\ stream'[i].frame = stream[i + k].frame
              /\ i + k > 1 => stream'[i].op = stream[i + k].op
         /\ \A i \in Records(b)' :
              i + k \in Records(b) /\ i \in Nat \ {0} /\ stream'[i].seq = stream[i + k].seq
         /\ \A i \in Writes(b) : i - k > 0 =>
              /\ i - k \in Writes(b)'
              /\ stream'[i - k].uid = stream[i].uid /\ stream'[i - k].frame = stream[i].frame
         /\ \A i \in Records(b) : i - k > 0 =>
              i - k \in Records(b)' /\ stream'[i - k].seq = stream[i].seq
<1>1. DOMAIN stream = 1..Len(stream) /\ Len(stream) \in Nat
  BY LenProperties
<1>2. \A i \in DOMAIN stream : i - k > 0 => i - k \in DOMAIN stream' /\ (i - k) + k = i
  BY <1>1 DEF Moves
<1>3. \A i \in DOMAIN stream' : i + k \in DOMAIN stream /\ i \in Nat \ {0}
  BY DEF Moves
<1> QED BY <1>2, <1>3 DEF Moves, Writes, Records

\* The types of a block's work.
LEMMA WorkType ==
  ASSUME TypeOK, NEW b \in Blocks
  PROVE  /\ \A i \in Writes(b) : i \in Nat \ {0} /\ stream[i] \in Ops /\ stream[i].uid \in 1..MaxUid
              /\ stream[i].frame \in 0..MaxFrames /\ (stream[i].op = "write" \/ stream[i].op = "writing")
         /\ \A i \in Records(b) : i \in Nat \ {0} /\ stream[i] \in Ops /\ stream[i].seq \in 0..MaxUid
         /\ uid[b] \in 0..MaxUid /\ mem[b].uid \in 0..MaxUid /\ mem[b] \in Images
         /\ issued[b] \in 0..MaxUid /\ completed[b] \in 0..MaxUid
<1>1. stream \in Seq(Ops) /\ DOMAIN stream = 1..Len(stream) /\ Len(stream) \in Nat
  BY LenProperties DEF TypeOK
<1>2. /\ \A i \in Writes(b) : i \in DOMAIN stream /\ stream[i].op # "record"
      /\ \A i \in Records(b) : i \in DOMAIN stream
  BY DEF Writes, Records
<1>3. \A i \in DOMAIN stream : i \in Nat \ {0} /\ stream[i] \in Ops
  BY <1>1, OpAt
<1>4. mem[b] \in Images /\ uid[b] \in 0..MaxUid /\ issued[b] \in 0..MaxUid /\ completed[b] \in 0..MaxUid
  BY DEF TypeOK
<1>5. \A o \in Ops : /\ o.uid \in 1..MaxUid /\ o.frame \in 0..MaxFrames /\ o.seq \in 0..MaxUid
                     /\ o.op \in {"write", "writing", "record"}
  BY DEF Ops
<1>6. mem[b].uid \in 0..MaxUid
  BY <1>4 DEF Images
<1> QED BY <1>2, <1>3, <1>4, <1>5, <1>6

\* As long as the GPU and its queue stay as they are, so does the order in them.
LEMMA OrderFrame ==
  ASSUME UNCHANGED <<mem, stream, issued, completed>>, NEW b \in Blocks, GenerationOf(b),
         WritesInOrder(b), RecordsInOrder(b)
  PROVE  /\ WritesInOrder(b)' /\ RecordsInOrder(b)'
         /\ \A c : Writes(c)' = Writes(c) /\ Records(c)' = Records(c)
BY DEF WritesInOrder, RecordsInOrder, Writes, Records

\* A new write goes to the last generation of its block.
LEMMA LaunchedOrder ==
  ASSUME TypeOK, NodeFollowsBlock, BlockInv, node = "acquired",
         Enqueues(Op("write", 0)), UNCHANGED <<uid, mem, issued, completed>>,
         node' \in {"launched", "idle"}, node' = "idle" \/ cur' = cur, NEW b \in Blocks
  PROVE  GenerationOf(b)' /\ WritesInOrder(b)' /\ RecordsInOrder(b)'
<1>0. stream \in Seq(Ops) /\ cur \in Blocks
  BY DEF TypeOK, NodeFollowsBlock, Busy, Reserved
<1>1. Op("write", 0) \in Ops
  BY OpType, PublisherAssumption DEF Reserved
<1>2. /\ Op("write", 0).op = "write" /\ Op("write", 0).block = cur /\ Op("write", 0).uid = uid[cur]
  BY DEF Op
<1>3. PICK o \in Ops : /\ Enqueues(o)
                       /\ o.op = "write" /\ o.block = cur /\ o.uid = uid[cur]
  BY <1>1, <1>2
<1>4. GenerationOf(b) /\ WritesInOrder(b) /\ RecordsInOrder(b)
  BY DEF BlockInv
<1>5. /\ \A i \in Writes(b)' :
           \/ i \in Writes(b) /\ stream'[i] = stream[i]
           \/ i = Len(stream) + 1 /\ stream'[i] = o /\ o.block = b
      /\ \A i \in Records(b)' : i \in Records(b) /\ stream'[i] = stream[i]
      /\ \A i \in Writes(b) : i < Len(stream) + 1
      /\ Len(stream) \in Nat
  <2>1. stream \in Seq(Ops) /\ Enqueues(o) /\ o.op # "record"
    BY <1>0, <1>3
  <2> QED BY <2>1, EnqueuedWork
<1>6. cur = b => mem[b].uid < uid[b] /\ issued[b] < uid[b] /\ \A i \in Writes(b) : stream[i].uid < uid[b]
  BY <1>4 DEF GenerationOf
<1>t. /\ \A i \in Writes(b) : i \in Nat \ {0} /\ stream[i].uid \in 1..MaxUid
      /\ uid[b] \in 0..MaxUid /\ mem[b].uid \in 0..MaxUid
  BY WorkType
<1>7. GenerationOf(b)'
  BY <1>3, <1>4, <1>5, <1>6, <1>t DEF GenerationOf
<1>8. WritesInOrder(b)'
  <2>1. \A i \in Writes(b)' :
          /\ stream'[i].op = "write" => mem[b].uid < stream'[i].uid
          /\ stream'[i].op = "writing" => mem[b] = [uid |-> stream'[i].uid, frame |-> Torn]
    BY <1>3, <1>4, <1>5, <1>6 DEF WritesInOrder
  <2>2. \A i, j \in Writes(b)' : i < j => stream'[i].uid < stream'[j].uid
    <3> SUFFICES ASSUME NEW i \in Writes(b)', NEW j \in Writes(b)', i < j
                 PROVE  stream'[i].uid < stream'[j].uid
      OBVIOUS
    <3>1. i \in Writes(b) /\ stream'[i] = stream[i]
      BY <1>5, <1>t
    <3>2. CASE j \in Writes(b) /\ stream'[j] = stream[j]
      BY <3>1, <3>2, <1>4 DEF WritesInOrder
    <3>3. CASE stream'[j] = o /\ o.block = b
      BY <3>1, <3>3, <1>3, <1>6
    <3> QED BY <1>5, <3>2, <3>3
  <2> QED BY <2>1, <2>2 DEF WritesInOrder
<1>9. RecordsInOrder(b)'
  BY <1>4, <1>5 DEF RecordsInOrder
<1> QED BY <1>7, <1>8, <1>9

\* A new record of the ready event is the last one.
LEMMA RecordedOrder ==
  ASSUME TypeOK, NodeFollowsBlock, BlockInv, RecordReady, NEW b \in Blocks
  PROVE  GenerationOf(b)' /\ WritesInOrder(b)' /\ RecordsInOrder(b)'
<1>0. stream \in Seq(Ops) /\ cur \in Blocks /\ cur' = cur /\ node' = "recorded"
      /\ UNCHANGED <<uid, mem, completed>> /\ issued[cur] \in Nat
      /\ issued \in [Blocks -> 0..MaxUid] /\ issued' = [issued EXCEPT ![cur] = @ + 1]
  BY PublisherAssumption DEF RecordReady, TypeOK, NodeFollowsBlock, Busy, Reserved, leaseVars
<1>g. issued[cur] < uid[cur] /\ uid[cur] \in 0..MaxUid
  BY <1>0 DEF BlockInv, GenerationOf, RecordReady, TypeOK
<1>1. Op("record", issued[cur] + 1) \in Ops
  BY <1>0, <1>g, OpType, PublisherAssumption DEF Reserved, RecordReady
<1>2. PICK o \in Ops : /\ stream' = Append(stream, o)
                       /\ o.op = "record" /\ o.block = cur /\ o.seq = issued[cur] + 1
  BY <1>1 DEF RecordReady, Op
<1>4. GenerationOf(b) /\ WritesInOrder(b) /\ RecordsInOrder(b)
  BY DEF BlockInv
<1>5. /\ \A i \in Records(b)' :
           \/ i \in Records(b) /\ stream'[i] = stream[i]
           \/ i = Len(stream) + 1 /\ stream'[i] = o /\ o.block = b
      /\ \A i \in Writes(b)' : i \in Writes(b) /\ stream'[i] = stream[i]
      /\ \A i \in Records(b) : i < Len(stream) + 1
      /\ Len(stream) \in Nat
  <2>1. stream \in Seq(Ops) /\ Enqueues(o) /\ o.op = "record"
    BY <1>0, <1>2 DEF Enqueues
  <2> QED BY <2>1, EnqueuedWork
<1>t. /\ \A i \in Records(b) : i \in Nat \ {0} /\ stream[i].seq \in 0..MaxUid
      /\ uid[b] \in 0..MaxUid /\ issued[b] \in 0..MaxUid /\ completed[b] \in 0..MaxUid
      /\ completed[b] <= issued[b]
  BY WorkType DEF TypeOK
<1>6. issued'[b] = IF b = cur THEN issued[b] + 1 ELSE issued[b]
  BY <1>0
<1>7. GenerationOf(b)'
  BY <1>0, <1>g, <1>4, <1>5, <1>6, <1>t DEF GenerationOf
<1>8. WritesInOrder(b)'
  BY <1>0, <1>4, <1>5 DEF WritesInOrder
<1>9. RecordsInOrder(b)'
  <2>1. \A i \in Records(b)' : completed[b] < stream'[i].seq /\ stream'[i].seq <= issued'[b]
    BY <1>2, <1>4, <1>5, <1>6, <1>t DEF RecordsInOrder
  <2>2. \A i, j \in Records(b)' : i < j => stream'[i].seq < stream'[j].seq
    <3> SUFFICES ASSUME NEW i \in Records(b)', NEW j \in Records(b)', i < j
                 PROVE  stream'[i].seq < stream'[j].seq
      OBVIOUS
    <3>1. i \in Records(b) /\ stream'[i] = stream[i]
      BY <1>5, <1>t
    <3>2. CASE j \in Records(b) /\ stream'[j] = stream[j]
      BY <3>1, <3>2, <1>4 DEF RecordsInOrder
    <3>3. CASE stream'[j] = o /\ o.block = b
      BY <3>1, <3>3, <1>2, <1>4, <1>t DEF RecordsInOrder
    <3> QED BY <1>5, <3>2, <3>3
  <2> QED BY <1>0, <2>1, <2>2 DEF RecordsInOrder
<1> QED BY <1>7, <1>8, <1>9

\* The publisher keeps generations and orders.
LEMMA NodeBlockStep ==
  ASSUME TypeOK, NodeFollowsBlock, BlockInv, NodeStep
  PROVE  BlockInv'
<1> SUFFICES ASSUME NEW b \in Blocks
             PROVE  GenerationOf(b)' /\ WritesInOrder(b)' /\ RecordsInOrder(b)'
  BY DEF BlockInv
<1>0. GenerationOf(b) /\ WritesInOrder(b) /\ RecordsInOrder(b)
  BY DEF BlockInv
<1>1. CASE NextUid
  <2>1. UNCHANGED <<mem, stream, issued, completed, cur>>
    BY <1>1 DEF NextUid, gpuVars
  <2>2. /\ WritesInOrder(b)' /\ RecordsInOrder(b)' /\ Writes(b)' = Writes(b)
    BY <1>0, <2>1, OrderFrame
  <2>3. uid'[b] = (IF cur = b THEN uid[b] + 1 ELSE uid[b]) /\ node' = "acquired" /\ cur \in Blocks
    BY <1>1 DEF NextUid, TypeOK, NodeFollowsBlock, Busy
  <2>4. /\ \A i \in Writes(b) : stream[i].uid \in 1..MaxUid
        /\ uid[b] \in 0..MaxUid /\ mem[b].uid \in 0..MaxUid /\ issued[b] \in 0..MaxUid
    BY WorkType
  <2>5. GenerationOf(b)'
    BY <1>0, <2>1, <2>2, <2>3, <2>4, PublisherAssumption DEF GenerationOf
  <2> QED BY <2>2, <2>5
<1>2. CASE Launch
  BY <1>2, LaunchedOrder DEF Launch, Enqueues, leaseVars
<1>3. CASE LaunchFails /\ stream' # stream
  BY <1>3, LaunchedOrder DEF LaunchFails, Enqueues
<1>4. CASE RecordReady
  BY <1>4, RecordedOrder
<1>5. CASE \/ Construct \/ ConstructFails \/ (\E c \in Blocks : Acquire(c))
           \/ (LaunchFails /\ stream' = stream) \/ Commit \/ PrepareFails
           \/ Publish \/ PublishThrows \/ Destroy \/ Killed
  <2>1. /\ UNCHANGED <<mem, stream, issued, completed, uid>>
        /\ node' \notin {"acquired", "launched"}
    BY <1>5 DEF Construct, ConstructFails, Acquire, LaunchFails, Commit, PrepareFails,
                Publish, PublishThrows, Destroy, Killed, gpuVars, leaseVars
  <2>2. /\ WritesInOrder(b)' /\ RecordsInOrder(b)' /\ Writes(b)' = Writes(b)
    BY <1>0, <2>1, OrderFrame
  <2>3. GenerationOf(b)'
    BY <1>0, <2>1, <2>2 DEF GenerationOf
  <2> QED BY <2>2, <2>3
<1> QED BY <1>1, <1>2, <1>3, <1>4, <1>5 DEF NodeStep

\* The GPU keeps them: it takes the operations in order.
LEMMA StreamBlockStep ==
  ASSUME TypeOK, BlockInv, StreamStep, NEW b \in Blocks
  PROVE  GenerationOf(b)' /\ WritesInOrder(b)' /\ RecordsInOrder(b)'
<1>0. GenerationOf(b) /\ WritesInOrder(b) /\ RecordsInOrder(b) /\ stream \in Seq(Ops)
  BY DEF BlockInv, TypeOK
<1>1. /\ 1 \in DOMAIN stream /\ stream[1] \in Ops
      /\ UNCHANGED <<node, cur, uid, issued>>
      /\ mem \in [Blocks -> Images] /\ completed \in [Blocks -> 0..MaxUid]
  BY StreamCases DEF TypeOK
<1>t. /\ \A i \in Writes(b) : i \in Nat \ {0} /\ stream[i].uid \in 1..MaxUid
      /\ \A i \in Writes(b) : stream[i].op = "write" \/ stream[i].op = "writing"
      /\ \A i \in Writes(b) : stream[i].op = "writing" => i = 1
      /\ \A i \in Records(b) : i \in Nat \ {0} /\ stream[i].seq \in 0..MaxUid
      /\ uid[b] \in 0..MaxUid /\ mem[b].uid \in 0..MaxUid /\ completed[b] \in 0..MaxUid
      /\ issued[b] \in 0..MaxUid
  BY WorkType DEF TypeOK, Writes
<1>2. stream[1].block = b /\ stream[1].op # "record" => 1 \in Writes(b)
  BY <1>1 DEF Writes
<1>3. stream[1].block = b /\ stream[1].op = "record" => 1 \in Records(b)
  BY <1>1 DEF Records
<1>4. CASE /\ stream[1].op = "write" /\ Moves(0) /\ stream'[1].op = "writing"
           /\ mem' = [mem EXCEPT ![stream[1].block] = [uid |-> stream[1].uid, frame |-> Torn]]
           /\ UNCHANGED completed
  <2>1. mem'[b] = IF stream[1].block = b THEN [uid |-> stream[1].uid, frame |-> Torn] ELSE mem[b]
    BY <1>1, <1>4
  <2>2. /\ \A i \in Writes(b)' :
             /\ i \in Writes(b) /\ stream'[i].uid = stream[i].uid
             /\ i > 1 => stream'[i].op = stream[i].op
        /\ \A i \in Records(b)' : i \in Records(b) /\ stream'[i].seq = stream[i].seq
    BY <1>0, <1>4, <1>t, MovedWork
  <2>3. GenerationOf(b)'
    BY <1>0, <1>1, <1>2, <1>4, <1>t, <2>1, <2>2 DEF GenerationOf
  <2>4. RecordsInOrder(b)'
    BY <1>0, <1>1, <1>4, <2>2 DEF RecordsInOrder
  <2>5. WritesInOrder(b)'
    <3>1. ASSUME NEW i \in Writes(b)'
          PROVE  /\ stream'[i].op = "write" => mem'[b].uid < stream'[i].uid
                 /\ stream'[i].op = "writing" => mem'[b] = [uid |-> stream'[i].uid, frame |-> Torn]
      <4>1. i \in Writes(b) /\ i \in Nat \ {0}
        BY <3>1, <2>2, <1>t
      <4>2. CASE i = 1
        BY <4>1, <4>2, <2>1, <2>2, <3>1, <1>4 DEF Writes
      <4>3. CASE i > 1 /\ stream[1].block = b
        BY <4>1, <4>3, <2>1, <2>2, <3>1, <1>0, <1>2, <1>4, <1>t DEF WritesInOrder
      <4>4. CASE i > 1 /\ stream[1].block # b
        BY <4>1, <4>4, <2>1, <2>2, <3>1, <1>0, <1>t DEF WritesInOrder
      <4> QED BY <4>1, <4>2, <4>3, <4>4
    <3>2. \A i, j \in Writes(b)' : i < j => stream'[i].uid < stream'[j].uid
      BY <1>0, <2>2 DEF WritesInOrder
    <3> QED BY <3>1, <3>2 DEF WritesInOrder
  <2> QED BY <2>3, <2>4, <2>5
<1>5. CASE /\ stream[1].op = "writing" /\ Moves(1)
           /\ mem' = [mem EXCEPT ![stream[1].block] =
                        [uid |-> stream[1].uid, frame |-> stream[1].frame]]
           /\ UNCHANGED completed
  <2>1. mem'[b].uid = IF stream[1].block = b THEN stream[1].uid ELSE mem[b].uid
    BY <1>1, <1>5
  <2>2. /\ \A i \in Writes(b)' :
             /\ i + 1 \in Writes(b) /\ i \in Nat \ {0} /\ stream'[i].uid = stream[i + 1].uid
             /\ stream'[i].op = stream[i + 1].op
        /\ \A i \in Records(b)' :
             i + 1 \in Records(b) /\ i \in Nat \ {0} /\ stream'[i].seq = stream[i + 1].seq
    BY <1>0, <1>5, MovedWork
  <2>3. GenerationOf(b)'
    BY <1>0, <1>1, <1>2, <1>5, <1>t, <2>1, <2>2 DEF GenerationOf
  <2>4. RecordsInOrder(b)'
    <3>1. \A i \in Records(b)' : completed[b] < stream'[i].seq /\ stream'[i].seq <= issued'[b]
      BY <1>0, <1>1, <2>2 DEF RecordsInOrder
    <3>2. \A i, j \in Records(b)' : i < j => stream'[i].seq < stream'[j].seq
      BY <1>0, <2>2 DEF RecordsInOrder
    <3> QED BY <3>1, <3>2, <1>5 DEF RecordsInOrder
  <2>5. WritesInOrder(b)'
    <3>1. ASSUME NEW i \in Writes(b)'
          PROVE  /\ stream'[i].op = "write" /\ mem'[b].uid < stream'[i].uid
      <4>1. i + 1 \in Writes(b) /\ i + 1 > 1
        BY <3>1, <2>2
      <4>2. stream[i + 1].op = "write" /\ stream'[i].op = "write"
        BY <4>1, <1>t, <3>1, <2>2
      <4>3. CASE stream[1].block = b
        BY <4>1, <4>3, <3>1, <2>1, <2>2, <1>0, <1>2, <1>5, <1>t DEF WritesInOrder
      <4>4. CASE stream[1].block # b
        BY <4>1, <4>2, <4>4, <3>1, <2>1, <2>2, <1>0 DEF WritesInOrder
      <4> QED BY <4>2, <4>3, <4>4
    <3>2. \A i, j \in Writes(b)' : i < j => stream'[i].uid < stream'[j].uid
      BY <1>0, <2>2 DEF WritesInOrder
    <3> QED BY <3>1, <3>2 DEF WritesInOrder
  <2> QED BY <2>3, <2>4, <2>5
<1>6. CASE /\ stream[1].op = "record" /\ Moves(1)
           /\ completed' = [completed EXCEPT ![stream[1].block] = stream[1].seq]
           /\ UNCHANGED mem
  <2>1. completed'[b] = IF stream[1].block = b THEN stream[1].seq ELSE completed[b]
    BY <1>1, <1>6
  <2>2. /\ \A i \in Writes(b)' :
             /\ i + 1 \in Writes(b) /\ i \in Nat \ {0} /\ stream'[i].uid = stream[i + 1].uid
             /\ stream'[i].op = stream[i + 1].op
        /\ \A i \in Records(b)' :
             i + 1 \in Records(b) /\ i \in Nat \ {0} /\ stream'[i].seq = stream[i + 1].seq
    BY <1>0, <1>6, MovedWork
  <2>3. GenerationOf(b)'
    BY <1>0, <1>1, <1>6, <2>2 DEF GenerationOf
  <2>4. RecordsInOrder(b)'
    <3>1. \A i \in Records(b)' : completed'[b] < stream'[i].seq /\ stream'[i].seq <= issued'[b]
      BY <1>0, <1>1, <1>3, <1>6, <1>t, <2>1, <2>2 DEF RecordsInOrder
    <3>2. \A i, j \in Records(b)' : i < j => stream'[i].seq < stream'[j].seq
      BY <1>0, <2>2 DEF RecordsInOrder
    <3> QED BY <3>1, <3>2 DEF RecordsInOrder
  <2>5. WritesInOrder(b)'
    <3>1. \A i \in Writes(b)' :
            /\ stream'[i].op = "write" => mem[b].uid < stream'[i].uid
            /\ stream'[i].op = "writing" => mem[b] = [uid |-> stream'[i].uid, frame |-> Torn]
      BY <1>0, <2>2 DEF WritesInOrder
    <3>2. \A i, j \in Writes(b)' : i < j => stream'[i].uid < stream'[j].uid
      BY <1>0, <2>2 DEF WritesInOrder
    <3> QED BY <3>1, <3>2, <1>6 DEF WritesInOrder
  <2> QED BY <2>3, <2>4, <2>5
<1> QED BY <1>4, <1>5, <1>6, StreamCases

\* Steps of the subscribers leave publisher and GPU alone; only the death of one
\* pins a block.
LEMMA SubFrame ==
  ASSUME (\E s \in Subs : SubStep(s)) \/ UNCHANGED vars
  PROVE  UNCHANGED <<node, cur, frame_index, uid, phase, mem, stream, issued, completed,
                     msgs, lost>>
BY DEF SubStep, Grant, Wait, StartRead, Return, SubKilled, nodeVars, leaseVars, gpuVars, vars

\* Generations and orders are kept by every step.
LEMMA BlockStep ==
  ASSUME TypeOK, NodeFollowsBlock, BlockInv, [Next]_vars
  PROVE  BlockInv'
<1>1. CASE NodeStep
  BY <1>1, NodeBlockStep
<1>2. CASE StreamStep
  BY <1>2, StreamBlockStep DEF BlockInv
<1>3. CASE Abandon
  <2>1. \A b \in Blocks : Writes(b)' = {} /\ Records(b)' = {}
    BY <1>3 DEF Abandon, Writes, Records
  <2>2. UNCHANGED <<node, cur, uid, mem, issued, completed>>
    BY <1>3 DEF Abandon, nodeVars, leaseVars
  <2> QED BY <2>1, <2>2 DEF BlockInv, GenerationOf, WritesInOrder, RecordsInOrder
<1>4. CASE (\E s \in Subs : SubStep(s)) \/ UNCHANGED vars
  <2>1. UNCHANGED <<node, cur, uid, mem, stream, issued, completed>>
    BY <1>4, SubFrame
  <2> SUFFICES ASSUME NEW b \in Blocks
               PROVE  GenerationOf(b)' /\ WritesInOrder(b)' /\ RecordsInOrder(b)'
    BY DEF BlockInv
  <2>2. GenerationOf(b) /\ WritesInOrder(b) /\ RecordsInOrder(b)
    BY DEF BlockInv
  <2>3. WritesInOrder(b)' /\ RecordsInOrder(b)' /\ Writes(b)' = Writes(b)
    BY <2>1, <2>2, OrderFrame
  <2> QED BY <2>1, <2>2, <2>3 DEF GenerationOf
<1> QED BY <1>1, <1>2, <1>3, <1>4 DEF Next

\* The type invariant is preserved by every step.
LEMMA TypeStep ==
  ASSUME TypeOK, NodeFollowsBlock, BlockInv, [Next]_vars
  PROVE  TypeOK'
<1>1. CASE UNCHANGED vars
  BY <1>1 DEF vars, TypeOK
<1> QED BY <1>1, NodeTypeStep, StreamTypeStep, SubTypeStep DEF Next

----------------------------------------------------------------------------
(***************************************************************************)
(* Messages and the images they announce.                                  *)
(***************************************************************************)

\* Messages stay messages of committed generations.
LEMMA MessageStep ==
  ASSUME TypeOK, NodeFollowsBlock, MessagesCommitted, [Next]_vars
  PROVE  MessagesCommitted'
<1>t. /\ \A m \in msgs : m.block \in Blocks /\ m.uid \in Nat
      /\ uid \in [Blocks -> 0..MaxUid] /\ phase \in [Blocks -> {"free", "claimed", "writing"}]
  BY MessageIsOne DEF TypeOK
<1>1. CASE NextUid
  <2>1. /\ cur \in Blocks /\ node' = "acquired" /\ msgs' = msgs
        /\ uid' = [uid EXCEPT ![cur] = @ + 1] /\ phase' = [phase EXCEPT ![cur] = "writing"]
    BY <1>1 DEF NextUid, NodeFollowsBlock, Busy
  <2>2. \A b \in Blocks : uid[b] \in Nat
    BY <1>t, PublisherAssumption
  <2> QED BY <1>t, <2>1, <2>2 DEF MessagesCommitted
<1>2. CASE \E b \in Blocks : Acquire(b)
  BY <1>2, <1>t DEF Acquire, MessagesCommitted
<1>3. CASE LaunchFails \/ Commit
  <2>1. /\ cur \in Blocks /\ phase[cur] = "writing" /\ UNCHANGED <<msgs, uid>>
        /\ phase' = [phase EXCEPT ![cur] = "free"] /\ (node' = "committed" => cur' = cur)
    BY <1>3 DEF LaunchFails, Commit, NodeFollowsBlock, Busy, Reserved
  <2> QED BY <1>t, <2>1 DEF MessagesCommitted
<1>4. CASE Publish
  <2>1. /\ cur \in Blocks /\ phase[cur] = "free" /\ UNCHANGED <<uid, phase>> /\ node' = "idle"
        /\ msgs' = msgs \cup {[block |-> cur, uid |-> uid[cur], frame |-> frame_index]}
    BY <1>4 DEF Publish, NodeFollowsBlock, Busy, leaseVars
  <2>2. uid[cur] <= uid[cur]
    BY <1>t, <2>1, PublisherAssumption
  <2> QED BY <1>t, <2>1, <2>2 DEF MessagesCommitted
<1>5. CASE \/ Construct \/ ConstructFails \/ Launch \/ RecordReady \/ PrepareFails
           \/ PublishThrows \/ Destroy \/ Killed
  <2>1. UNCHANGED <<uid, phase, msgs>> /\ node' # "committed"
    BY <1>5 DEF Construct, ConstructFails, Launch, RecordReady, PrepareFails, PublishThrows,
                Destroy, Killed, leaseVars
  <2> QED BY <2>1 DEF MessagesCommitted
<1>6. CASE StreamStep \/ Abandon \/ (\E s \in Subs : SubStep(s)) \/ UNCHANGED vars
  <2>1. UNCHANGED <<node, cur, uid, phase, msgs>>
    BY <1>6, SubFrame DEF StreamStep, Abandon, nodeVars, leaseVars
  <2> QED BY <2>1 DEF MessagesCommitted
<1> QED BY <1>1, <1>2, <1>3, <1>4, <1>5, <1>6 DEF Next, NodeStep

\* Nothing happens on the GPU: images and coverage stay.
LEMMA ImageFrame ==
  ASSUME UNCHANGED <<mem, stream>>, lost \subseteq lost', NEW m
  PROVE  /\ ImageOf(m) => ImageOf(m)'
         /\ \A n : Covered(m, n) => Covered(m, n)'
BY DEF ImageOf, Covered, Writes, Records

\* What is enqueued behind an image leaves it as it is, and what is enqueued for
\* a later generation needs no earlier record.
LEMMA ImageEnqueue ==
  ASSUME stream \in Seq(Ops), NEW o \in Ops, Enqueues(o), UNCHANGED <<mem, lost>>,
         NEW m, m.uid \in Nat,
         o.op # "record" /\ o.block = m.block => o.uid > m.uid
  PROVE  /\ ImageOf(m) => ImageOf(m)'
         /\ \A n : Covered(m, n) => Covered(m, n)'
<1>o. o.uid \in Nat
  BY PublisherAssumption DEF Ops
<1>1. PICK b : b = m.block
  OBVIOUS
<1>2. /\ \A i \in Writes(b)' :
           \/ i \in Writes(b) /\ stream'[i] = stream[i]
           \/ stream'[i] = o /\ o.block = b /\ o.op # "record"
      /\ \A i \in Writes(b) : i \in Writes(b)' /\ stream'[i] = stream[i]
      /\ \A i \in Records(b) : i \in Records(b)' /\ stream'[i] = stream[i]
  BY EnqueuedWork
<1>3. ImageOf(m) => ImageOf(m)'
  BY <1>1, <1>2 DEF ImageOf
<1>4. ASSUME NEW n, Covered(m, n)
      PROVE  Covered(m, n)'
  BY <1>o, <1>1, <1>2, <1>4 DEF Covered
<1> QED BY <1>3, <1>4

\* The GPU takes an image from the stream into the block, or over another.
LEMMA ImageExecute ==
  ASSUME TypeOK, BlockInv, StreamStep, NEW m, m.block \in Blocks, m.uid \in Nat,
         m.frame \in 0..MaxFrames, ImageOf(m)
  PROVE  ImageOf(m)'
<1>1. PICK b \in Blocks : b = m.block
  OBVIOUS
<1>2. WritesInOrder(b) /\ stream \in Seq(Ops) /\ mem \in [Blocks -> Images]
  BY DEF BlockInv, TypeOK
<1>3. 1 \in DOMAIN stream /\ stream[1] \in Ops /\ UNCHANGED lost
  BY StreamCases
<1>4. stream[1].block = b /\ stream[1].op # "record" => 1 \in Writes(b)
  BY <1>3 DEF Writes
<1>t. /\ \A i \in Writes(b) : i \in Nat \ {0} /\ stream[i].uid \in 1..MaxUid
      /\ mem[b].uid \in 0..MaxUid /\ MaxUid \in Nat /\ MaxFrames \in Nat
  BY WorkType, PublisherAssumption
<1>5. CASE /\ stream[1].op = "write" /\ Moves(0)
           /\ mem' = [mem EXCEPT ![stream[1].block] = [uid |-> stream[1].uid, frame |-> Torn]]
  <2>1. mem'[b] = IF stream[1].block = b THEN [uid |-> stream[1].uid, frame |-> Torn] ELSE mem[b]
    BY <1>2, <1>3, <1>5
  <2>2. stream[1].block = b => mem[b].uid < mem'[b].uid
    BY <1>2, <1>4, <1>5, <2>1 DEF WritesInOrder
  <2>3. \A i \in Writes(b) : /\ i \in Writes(b)'
                             /\ stream'[i].uid = stream[i].uid /\ stream'[i].frame = stream[i].frame
    <3>1. \A i \in Writes(b) : i - 0 > 0 /\ i - 0 = i
      BY <1>t
    <3> QED BY <1>2, <1>5, <3>1, MovedWork
  <2>4. mem'[b].uid \in Nat
    BY <1>t, <1>4, <1>5, <2>1
  <2>5. CASE mem[b].uid > m.uid
    BY <2>5, <1>1, <1>t, <2>1, <2>2, <2>4 DEF ImageOf
  <2>6. CASE mem[b] = [uid |-> m.uid, frame |-> m.frame]
    <3>1. mem[b].uid = m.uid
      BY <2>6
    <3> QED BY <3>1, <2>6, <1>1, <1>t, <2>1, <2>2, <2>4 DEF ImageOf
  <2>7. CASE \E i \in Writes(b) : stream[i].uid = m.uid /\ stream[i].frame = m.frame
    BY <2>7, <1>1, <2>3 DEF ImageOf
  <2>8. CASE <<b, m.uid>> \in lost
    BY <2>8, <1>1, <1>3 DEF ImageOf
  <2> QED BY <1>1, <2>5, <2>6, <2>7, <2>8 DEF ImageOf
<1>6. CASE /\ stream[1].op = "writing" /\ Moves(1)
           /\ mem' = [mem EXCEPT ![stream[1].block] =
                        [uid |-> stream[1].uid, frame |-> stream[1].frame]]
  <2>1. mem'[b] = IF stream[1].block = b
                    THEN [uid |-> stream[1].uid, frame |-> stream[1].frame] ELSE mem[b]
    BY <1>2, <1>3, <1>6
  <2>2. stream[1].block = b => mem[b] = [uid |-> stream[1].uid, frame |-> Torn]
    BY <1>2, <1>4, <1>6 DEF WritesInOrder
  <2>3. \A i \in Writes(b) : i # 1 =>
          /\ i - 1 \in Writes(b)'
          /\ stream'[i - 1].uid = stream[i].uid /\ stream'[i - 1].frame = stream[i].frame
    <3>1. \A i \in Writes(b) : i # 1 => i - 1 > 0
      BY <1>t
    <3> QED BY <1>2, <1>6, <3>1, MovedWork
  <2>4. CASE mem[b].uid > m.uid
    <3>1. mem'[b].uid = mem[b].uid
      BY <2>1, <2>2
    <3> QED BY <3>1, <2>4, <1>1 DEF ImageOf
  <2>5. CASE mem[b] = [uid |-> m.uid, frame |-> m.frame]
    <3>1. mem[b].frame = m.frame /\ m.frame # Torn
      BY <2>5, <1>t DEF Torn
    <3>2. stream[1].block # b
      BY <3>1, <2>2
    <3> QED BY <3>2, <2>1, <2>5, <1>1 DEF ImageOf
  <2>6. ASSUME NEW i \in Writes(b), stream[i].uid = m.uid, stream[i].frame = m.frame
        PROVE  ImageOf(m)'
    <3>1. CASE i = 1
      <4>1. stream[1].block = b
        BY <3>1, <2>6 DEF Writes
      <4> QED BY <3>1, <4>1, <2>1, <2>6, <1>1 DEF ImageOf
    <3>2. CASE i # 1
      BY <3>2, <2>3, <2>6, <1>1 DEF ImageOf
    <3> QED BY <3>1, <3>2
  <2>7. CASE <<b, m.uid>> \in lost
    BY <2>7, <1>1, <1>3 DEF ImageOf
  <2> QED BY <1>1, <2>4, <2>5, <2>6, <2>7 DEF ImageOf
<1>7. CASE stream[1].op = "record" /\ Moves(1) /\ UNCHANGED mem
  <2>1. \A i \in Writes(b) :
          /\ i - 1 \in Writes(b)'
          /\ stream'[i - 1].uid = stream[i].uid /\ stream'[i - 1].frame = stream[i].frame
    <3>1. \A i \in Writes(b) : i - 1 > 0
      BY <1>t, <1>7 DEF Writes
    <3> QED BY <1>2, <1>7, <3>1, MovedWork
  <2> QED BY <1>1, <1>3, <1>7, <2>1 DEF ImageOf
<1> QED BY <1>5, <1>6, <1>7, StreamCases

\* A record is behind the writes it covers until they have executed.
LEMMA CoverExecute ==
  ASSUME TypeOK, StreamStep, NEW m, m.block \in Blocks, NEW n, Covered(m, n)
  PROVE  Covered(m, n)'
<1>1. PICK b \in Blocks : b = m.block
  OBVIOUS
<1>2. PICK k \in {0, 1} : Moves(k)
  BY StreamCases
<1>3. /\ \A i \in Writes(b)' : i + k \in Writes(b) /\ i \in Nat \ {0} /\ stream'[i].uid = stream[i + k].uid
      /\ \A j \in Records(b) : j - k > 0 =>
           j - k \in Records(b)' /\ stream'[j - k].seq = stream[j].seq
  BY <1>2, MovedWork DEF TypeOK
<1>4. \A j \in Records(b) : j \in Nat
  BY WorkType
<1> SUFFICES ASSUME NEW i \in Writes(b)', stream'[i].uid <= m.uid
             PROVE  \E j \in Records(b)' : i < j /\ stream'[j].seq <= n
  BY <1>1 DEF Covered
<1>5. PICK j \in Records(b) : i + k < j /\ stream[j].seq <= n
  BY <1>1, <1>3 DEF Covered
<1>6. j - k > 0 /\ i < j - k
  BY <1>3, <1>4, <1>5
<1> QED BY <1>3, <1>5, <1>6

\* The message about to be sent has the type of one.
LEMMA UpcomingType ==
  ASSUME TypeOK, NodeFollowsBlock, node \in {"launched", "recorded", "committed"}
  PROVE  /\ Upcoming.block = cur /\ Upcoming.uid = uid[cur] /\ Upcoming.frame = frame_index
         /\ cur \in Blocks /\ uid[cur] \in Nat /\ frame_index \in 0..MaxFrames
BY PublisherAssumption DEF Upcoming, TypeOK, NodeFollowsBlock, Busy, Reserved

\* What on_timer enqueues for its block is of a generation without message.
LEMMA EnqueuedIsNew ==
  ASSUME TypeOK, NodeFollowsBlock, MessagesCommitted, node \in Reserved, NEW m \in msgs
  PROVE  /\ m.block \in Blocks /\ m.uid \in Nat /\ m.frame \in 0..MaxFrames
         /\ cur = m.block => uid[cur] > m.uid
<1>1. m.block \in Blocks /\ m.uid \in Nat /\ m.frame \in 0..MaxFrames
  BY MessageIsOne DEF TypeOK
<1>2. phase[cur] = "writing"
  BY DEF NodeFollowsBlock
<1>3. uid[m.block] \in Nat
  BY <1>1, PublisherAssumption DEF TypeOK
<1> QED BY <1>1, <1>2, <1>3 DEF MessagesCommitted

\* The writes of on_timer.
LEMMA LaunchImages ==
  ASSUME TypeOK, NodeFollowsBlock, MessagesCommitted, ImagesFollow,
         Launch \/ (LaunchFails /\ stream' # stream)
  PROVE  ImagesFollow'
<1>1. /\ node = "acquired" /\ node' \in {"launched", "idle"} /\ Enqueues(Op("write", 0))
      /\ UNCHANGED <<uid, mem, issued, msgs, lost, frame_index>> /\ stream \in Seq(Ops)
      /\ (node' = "launched" => cur' = cur) /\ cur \in Blocks
  BY DEF Launch, LaunchFails, Enqueues, leaseVars, TypeOK, NodeFollowsBlock, Busy, Reserved
<1>2. Op("write", 0) \in Ops
  BY <1>1, OpType, PublisherAssumption DEF Reserved
<1>3. PICK o \in Ops : /\ Enqueues(o) /\ o.op = "write" /\ o.block = cur
                       /\ o.uid = uid[cur] /\ o.frame = frame_index
  BY <1>1, <1>2 DEF Op
<1>4. ASSUME NEW m \in msgs
      PROVE  ImageOf(m)' /\ Covered(m, issued[m.block])'
  <2>1. m.uid \in Nat /\ (o.block = m.block => o.uid > m.uid)
    BY <1>1, <1>3, EnqueuedIsNew DEF Reserved
  <2>2. PICK n : n = issued[m.block]
    OBVIOUS
  <2>3. ImageOf(m) /\ Covered(m, n)
    BY <2>2 DEF ImagesFollow
  <2>4. ImageOf(m)' /\ Covered(m, n)'
    BY <1>1, <1>3, <2>1, <2>3, ImageEnqueue
  <2> QED BY <1>1, <2>2, <2>4 DEF Covered
<1>5. ASSUME node' = "launched"
      PROVE  ImageOf(Upcoming)'
  <2>1. PICK b : b = cur
    OBVIOUS
  <2>2. Len(stream) + 1 \in Writes(b)'
    BY <1>1, <1>3, <2>1, EnqueuedWork
  <2>3. stream'[Len(stream) + 1] = o
    BY <1>1, <1>3, EnqueueOp DEF Enqueues
  <2> QED BY <1>1, <1>3, <1>5, <2>1, <2>2, <2>3 DEF ImageOf, Upcoming
<1> QED BY <1>1, <1>4, <1>5 DEF ImagesFollow

\* The record behind the write covers it.
LEMMA RecordImages ==
  ASSUME TypeOK, NodeFollowsBlock, BlockInv, MessagesCommitted, ImagesFollow, RecordReady
  PROVE  ImagesFollow'
<1>1. /\ node = "launched" /\ node' = "recorded" /\ cur \in Blocks /\ stream \in Seq(Ops)
      /\ UNCHANGED <<cur, uid, mem, msgs, lost, frame_index>>
      /\ issued \in [Blocks -> 0..MaxUid] /\ issued' = [issued EXCEPT ![cur] = @ + 1]
  BY DEF RecordReady, leaseVars, TypeOK, NodeFollowsBlock, Busy, Reserved
<1>g. issued[cur] < uid[cur] /\ uid[cur] \in 0..MaxUid /\ issued[cur] \in Nat
  BY <1>1, PublisherAssumption DEF BlockInv, GenerationOf, TypeOK
<1>2. Op("record", issued[cur] + 1) \in Ops
  BY <1>1, <1>g, OpType, PublisherAssumption DEF Reserved
<1>3. PICK o \in Ops : /\ Enqueues(o) /\ o.op = "record" /\ o.block = cur
                       /\ o.seq = issued[cur] + 1
  BY <1>2 DEF RecordReady, Op, Enqueues
<1>4. ASSUME NEW m \in msgs
      PROVE  ImageOf(m)' /\ Covered(m, issued[m.block])'
  <2>1. m.uid \in Nat /\ m.block \in Blocks
    BY <1>1, EnqueuedIsNew DEF Reserved
  <2>2. PICK n \in Nat : n = issued[m.block]
    BY <1>1, <2>1, PublisherAssumption
  <2>3. ImageOf(m) /\ Covered(m, n)
    BY <2>2 DEF ImagesFollow
  <2>4. ImageOf(m)' /\ Covered(m, n)'
    BY <1>1, <1>3, <2>1, <2>3, ImageEnqueue
  <2>5. PICK n2 \in Nat : n2 = issued'[m.block] /\ n <= n2
    <3>1. issued'[m.block] = IF cur = m.block THEN n + 1 ELSE n
      BY <1>1, <2>1, <2>2
    <3> QED BY <2>2, <3>1
  <2>6. \A j \in Records(m.block)' : stream'[j].seq \in Nat
    <3>1. PICK b \in Blocks : b = m.block
      BY <2>1
    <3>2. \A j \in Records(b)' : (j \in Records(b) /\ stream'[j] = stream[j]) \/ stream'[j] = o
      BY <1>1, <1>3, EnqueuedWork
    <3>3. \A j \in Records(b) : stream[j].seq \in Nat
      BY WorkType, PublisherAssumption
    <3> QED BY <3>1, <3>2, <3>3, <1>3, <1>g
  <2>7. Covered(m, n2)'
    BY <2>2, <2>4, <2>5, <2>6 DEF Covered
  <2> QED BY <2>4, <2>5, <2>7 DEF Covered
<1>5. ImageOf(Upcoming)'
  <2>1. PICK m : m = Upcoming
    OBVIOUS
  <2>2. m.uid \in Nat /\ ImageOf(m)
    BY <1>1, <2>1, UpcomingType DEF ImagesFollow
  <2>3. ImageOf(m)' /\ Upcoming' = m
    BY <1>1, <1>3, <2>1, <2>2, ImageEnqueue DEF Upcoming
  <2> QED BY <2>3 DEF ImageOf
<1>6. Covered(Upcoming, issued[cur])'
  <2>1. /\ Len(stream) + 1 \in Records(cur)' /\ stream'[Len(stream) + 1] = o
        /\ \A i \in Writes(cur)' : i \in Writes(cur) /\ i < Len(stream) + 1
    BY <1>1, <1>3, EnqueueOp, EnqueuedWork DEF Enqueues
  <2>2. o.seq <= issued'[cur] /\ Upcoming'.block = cur
    BY <1>1, <1>3, <1>g DEF Upcoming
  <2> QED BY <1>1, <2>1, <2>2 DEF Covered
<1> QED BY <1>1, <1>4, <1>5, <1>6 DEF ImagesFollow

\* Images follow their messages through every step.
LEMMA ImagesStep ==
  ASSUME TypeOK, NodeFollowsBlock, BlockInv, MessagesCommitted, ImagesFollow, LostAtEnd,
         [Next]_vars
  PROVE  ImagesFollow'
<1>1. CASE Launch \/ (LaunchFails /\ stream' # stream)
  BY <1>1, LaunchImages
<1>2. CASE RecordReady
  BY <1>2, RecordImages
<1>3. CASE \/ Construct \/ ConstructFails \/ (\E b \in Blocks : Acquire(b)) \/ NextUid
           \/ (LaunchFails /\ stream' = stream) \/ PrepareFails \/ PublishThrows
           \/ Destroy \/ Killed
  <2>1. /\ UNCHANGED <<mem, stream, issued, msgs>>
        /\ node' \notin {"launched", "recorded", "committed"}
        /\ lost \subseteq lost'
    BY <1>3 DEF Construct, ConstructFails, Acquire, NextUid, LaunchFails, PrepareFails,
                PublishThrows, Destroy, Killed, gpuVars, LostAtEnd
  <2>2. ASSUME NEW m \in msgs
        PROVE  ImageOf(m)' /\ Covered(m, issued[m.block])'
    <3>1. PICK n : n = issued[m.block]
      OBVIOUS
    <3>2. ImageOf(m)' /\ Covered(m, n)'
      BY <2>1, <3>1, ImageFrame DEF ImagesFollow
    <3> QED BY <2>1, <3>1, <3>2 DEF Covered
  <2> QED BY <2>1, <2>2 DEF ImagesFollow
<1>4. CASE Commit \/ Publish
  <2>1. UNCHANGED <<mem, stream, issued, uid, lost>> /\ node \in {"recorded", "committed"}
    BY <1>4 DEF Commit, Publish, gpuVars, leaseVars
  <2>2. PICK m : m = Upcoming
    OBVIOUS
  <2>3. ASSUME NEW d, ImageOf(d), Covered(d, issued[d.block])
        PROVE  ImageOf(d)' /\ Covered(d, issued[d.block])'
    <3>1. PICK n : n = issued[d.block]
      OBVIOUS
    <3>2. ImageOf(d)' /\ Covered(d, n)'
      BY <2>1, <2>3, <3>1, ImageFrame
    <3> QED BY <2>1, <3>1, <3>2 DEF Covered
  <2>4. ImageOf(m) /\ Covered(m, issued[m.block]) /\ m.block = cur
    BY <2>1, <2>2 DEF ImagesFollow, Upcoming
  <2>5. ImageOf(m)' /\ Covered(m, issued[m.block])'
    BY <2>3, <2>4
  <2>6. \A d \in msgs : ImageOf(d)' /\ Covered(d, issued[d.block])'
    BY <2>3 DEF ImagesFollow
  <2>7. CASE Commit
    <3>1. msgs' = msgs /\ node' = "committed" /\ Upcoming' = m /\ cur' = cur
      BY <2>2, <2>7 DEF Commit, Upcoming
    <3>2. ImageOf(Upcoming)' /\ Covered(Upcoming, issued[cur])'
      BY <2>4, <2>5, <3>1 DEF ImageOf, Covered
    <3> QED BY <2>6, <3>1, <3>2 DEF ImagesFollow
  <2>8. CASE Publish
    <3>1. msgs' = msgs \cup {m} /\ node' = "idle"
      BY <2>2, <2>8 DEF Publish, Upcoming
    <3> QED BY <2>5, <2>6, <3>1 DEF ImagesFollow
  <2> QED BY <1>4, <2>7, <2>8
<1>5. CASE StreamStep
  <2>1. UNCHANGED <<node, cur, uid, frame_index, issued, msgs>>
    BY <1>5, StreamCases
  <2>2. ASSUME NEW m, m.block \in Blocks, m.uid \in Nat, m.frame \in 0..MaxFrames
        PROVE  /\ ImageOf(m) => ImageOf(m)'
               /\ Covered(m, issued[m.block]) => Covered(m, issued[m.block])'
    <3>1. PICK n : n = issued[m.block]
      OBVIOUS
    <3>2. ImageOf(m) => ImageOf(m)'
      BY <1>5, <2>2, ImageExecute
    <3>3. Covered(m, n) => Covered(m, n)'
      BY <1>5, <2>2, CoverExecute
    <3> QED BY <2>1, <3>1, <3>2, <3>3 DEF Covered
  <2>3. \A m \in msgs : ImageOf(m)' /\ Covered(m, issued[m.block])'
    <3>1. \A m \in msgs : m.block \in Blocks /\ m.uid \in Nat /\ m.frame \in 0..MaxFrames
      BY MessageIsOne DEF TypeOK
    <3> QED BY <2>2, <3>1 DEF ImagesFollow
  <2>4. PICK m : m = Upcoming
    OBVIOUS
  <2>5. Upcoming' = m
    BY <2>1, <2>4 DEF Upcoming
  <2>6. ASSUME node \in {"launched", "recorded", "committed"}
        PROVE  /\ ImageOf(m)'
               /\ node \in {"recorded", "committed"} => Covered(m, issued[m.block])' /\ m.block = cur
    BY <2>2, <2>4, <2>6, UpcomingType DEF ImagesFollow
  <2>7. /\ node' \in {"launched", "recorded", "committed"} => ImageOf(Upcoming)'
        /\ node' \in {"recorded", "committed"} => Covered(Upcoming, issued[cur])'
    BY <2>1, <2>5, <2>6 DEF ImageOf, Covered
  <2> QED BY <2>1, <2>3, <2>7 DEF ImagesFollow
<1>6. CASE Abandon
  <2>1. /\ node = "gone" /\ stream' = <<>>
        /\ UNCHANGED <<node, mem, issued, msgs, lost>>
    BY <1>6 DEF Abandon, nodeVars
  <2>2. \A b : Writes(b)' = {}
    BY <2>1 DEF Writes
  <2>3. \A m : \A i \in Writes(m.block) : stream[i].uid = m.uid => <<m.block, m.uid>> \in lost
    BY <2>1 DEF Writes, LostAtEnd, Unwritten
  <2>4. \A m \in msgs : ImageOf(m)' /\ Covered(m, issued[m.block])'
    BY <2>1, <2>2, <2>3 DEF ImagesFollow, ImageOf, Covered
  <2> QED BY <2>1, <2>4 DEF ImagesFollow
<1>7. CASE (\E s \in Subs : SubStep(s)) \/ UNCHANGED vars
  <2>1. UNCHANGED <<node, cur, frame_index, uid, mem, stream, issued, msgs, lost>>
    BY <1>7, SubFrame
  <2> QED BY <2>1 DEF ImagesFollow, ImageOf, Covered, Upcoming, Writes, Records
<1> QED BY <1>1, <1>2, <1>3, <1>4, <1>5, <1>6, <1>7 DEF Next, NodeStep

----------------------------------------------------------------------------
(***************************************************************************)
(* Leases and reads.                                                       *)
(***************************************************************************)

\* Images are lost when the publisher ends, all that are pending.
LEMMA LostStep ==
  ASSUME TypeOK, LostAtEnd, [Next]_vars
  PROVE  LostAtEnd'
<1>1. CASE Destroy \/ Killed
  <2>1. node' = "gone" /\ lost' = Unwritten /\ stream' = stream
    BY <1>1 DEF Destroy, Killed, gpuVars
  <2> QED BY <2>1 DEF LostAtEnd, Unwritten
<1>2. CASE ConstructFails
  <2>1. node' = "gone" /\ stream' = <<>>
    BY <1>2 DEF ConstructFails, LostAtEnd, gpuVars
  <2>2. Unwritten' = {}
    BY <2>1 DEF Unwritten
  <2> QED BY <2>1, <2>2 DEF LostAtEnd
<1>3. CASE /\ NodeStep
           /\ ~(ConstructFails \/ Destroy \/ Killed)
  <2>1. node # "gone" /\ node' \notin {"gone", "starting"} /\ lost' = lost
    BY <1>3 DEF NodeStep, Construct, Acquire, NextUid, Launch, LaunchFails, RecordReady,
                Commit, PrepareFails, Publish, PublishThrows
  <2> QED BY <2>1 DEF LostAtEnd
<1>4. CASE StreamStep
  <2>1. UNCHANGED <<node, lost>>
    BY <1>4, StreamCases
  <2>2. Unwritten' \subseteq Unwritten
    <3>1. PICK k \in {0, 1} : Moves(k)
      BY <1>4, StreamCases
    <3> QED BY <3>1 DEF Unwritten, Moves
  <2>3. node # "starting"
    BY <1>4 DEF StreamStep, LostAtEnd
  <2> QED BY <2>1, <2>2, <2>3 DEF LostAtEnd
<1>5. CASE Abandon
  <2>1. UNCHANGED <<node, lost>> /\ stream' = <<>>
    BY <1>5 DEF Abandon, nodeVars
  <2>2. Unwritten' = {}
    BY <2>1 DEF Unwritten
  <2> QED BY <2>1, <2>2 DEF LostAtEnd
<1>6. CASE (\E s \in Subs : SubStep(s)) \/ UNCHANGED vars
  <2>1. UNCHANGED <<node, lost, stream>>
    BY <1>6, SubFrame
  <2> QED BY <2>1 DEF LostAtEnd, Unwritten
<1> QED BY <1>1, <1>2, <1>3, <1>4, <1>5, <1>6 DEF Next

\* The publisher respects the leases.
LEMMA LeaseNodeStep ==
  ASSUME TypeOK, NodeFollowsBlock, NodeStep, NEW s \in Subs, LeaseOf(s)
  PROVE  LeaseOf(s)'
<1>1. UNCHANGED <<sub, held, late>>
  BY DEF NodeStep, Construct, ConstructFails, Acquire, NextUid, Launch, LaunchFails,
         RecordReady, Commit, PrepareFails, Publish, PublishThrows, Destroy, Killed, subVars
<1> SUFFICES ASSUME sub[s] # "idle"
             PROVE  LeaseOf(s)'
  BY <1>1 DEF LeaseOf
<1>2. PICK m \in Messages : m = held[s]
  BY HeldIsSent
<1>3. m.block \in Blocks /\ m.uid \in Nat
  BY MessageIsOne
<1>4. uid \in [Blocks -> 0..MaxUid] /\ phase \in [Blocks -> {"free", "claimed", "writing"}]
      /\ late[s] \in BOOLEAN
  BY DEF TypeOK
<1>5. CASE \E b \in Blocks : Acquire(b)
  <2>1. PICK b \in Blocks : Acquire(b)
    BY <1>5
  <2>2. b # m.block
    BY <1>2, <2>1 DEF Acquire, Leased
  <2>3. uid' = uid /\ phase'[m.block] = phase[m.block]
    BY <1>3, <1>4, <2>1, <2>2 DEF Acquire
  <2> QED BY <1>1, <1>2, <2>3 DEF LeaseOf
<1>6. CASE NextUid
  <2>1. /\ cur \in Blocks /\ phase[cur] = "claimed"
        /\ uid' = [uid EXCEPT ![cur] = @ + 1] /\ phase' = [phase EXCEPT ![cur] = "writing"]
    BY <1>6 DEF NextUid, NodeFollowsBlock, Busy
  <2> QED BY <1>1, <1>2, <1>3, <1>4, <2>1 DEF LeaseOf
<1>7. CASE LaunchFails \/ Commit
  <2>1. /\ cur \in Blocks /\ phase[cur] = "writing" /\ uid' = uid
        /\ phase' = [phase EXCEPT ![cur] = "free"]
    BY <1>7 DEF LaunchFails, Commit, NodeFollowsBlock, Busy, Reserved
  <2> QED BY <1>1, <1>2, <1>3, <1>4, <2>1 DEF LeaseOf
<1>8. CASE \/ Construct \/ ConstructFails \/ Launch \/ RecordReady \/ PrepareFails
           \/ Publish \/ PublishThrows \/ Destroy \/ Killed
  <2>1. UNCHANGED <<uid, phase>>
    BY <1>8 DEF Construct, ConstructFails, Launch, RecordReady, PrepareFails, Publish,
                PublishThrows, Destroy, Killed, leaseVars
  <2> QED BY <1>1, <2>1 DEF LeaseOf
<1> QED BY <1>5, <1>6, <1>7, <1>8 DEF NodeStep

\* A subscriber's lease is of the current generation, or late.
LEMMA LeaseSubStep ==
  ASSUME TypeOK, NEW t \in Subs, SubStep(t), NEW s \in Subs, LeaseOf(s)
  PROVE  LeaseOf(s)'
<1>1. UNCHANGED <<uid, phase>>
  BY SubFrame
<1>t. /\ sub \in [Subs -> {"idle", "leased", "waiting", "reading"}]
      /\ held \in [Subs -> Messages \cup {NoMsg}] /\ late \in [Subs -> BOOLEAN]
  BY DEF TypeOK
<1>2. CASE \E m \in msgs : Grant(t, m)
  <2>1. PICK m \in msgs : Grant(t, m)
    BY <1>2
  <2>2. m.block \in Blocks /\ phase[m.block] \in {"free", "claimed", "writing"}
    BY MessageIsOne DEF TypeOK
  <2> QED BY <1>1, <1>t, <2>1, <2>2 DEF Grant, LeaseOf
<1>3. CASE Wait(t) \/ StartRead(t)
  BY <1>1, <1>t, <1>3 DEF Wait, StartRead, LeaseOf
<1>4. CASE Return(t) \/ SubKilled(t)
  BY <1>1, <1>t, <1>4 DEF Return, SubKilled, LeaseOf
<1> QED BY <1>2, <1>3, <1>4 DEF SubStep

\* What a subscriber knows of the stream, by message and record number: the
\* writes up to its message are covered, or done.
Done(m) ==
  \/ \A i \in Writes(m.block) : stream[i].uid > m.uid
  \/ <<m.block, m.uid>> \in lost

\* No step on the publisher's side undoes what a subscriber knows.
LEMMA KnowledgeStep ==
  ASSUME IInv, NodeStep \/ StreamStep \/ Abandon, NEW m \in msgs, NEW n
  PROVE  /\ Covered(m, n) => Covered(m, n)'
         /\ Done(m) => Done(m)'
<1>0. /\ TypeOK /\ NodeFollowsBlock /\ MessagesCommitted /\ LostAtEnd
      /\ stream \in Seq(Ops)
  BY DEF IInv, TypeOK
<1>m. m.block \in Blocks /\ m.uid \in Nat
  BY <1>0, MessageIsOne DEF TypeOK
<1>1. CASE \/ Construct \/ ConstructFails \/ (\E b \in Blocks : Acquire(b)) \/ NextUid
           \/ (LaunchFails /\ stream' = stream) \/ Commit \/ PrepareFails
           \/ Publish \/ PublishThrows \/ Destroy \/ Killed
  <2>1. UNCHANGED <<mem, stream>> /\ lost \subseteq lost'
    BY <1>0, <1>1 DEF Construct, ConstructFails, Acquire, NextUid, LaunchFails, Commit,
                      PrepareFails, Publish, PublishThrows, Destroy, Killed, gpuVars, LostAtEnd
  <2>2. Writes(m.block)' = Writes(m.block)
    BY <2>1 DEF Writes
  <2> QED BY <2>1, <2>2, ImageFrame DEF Done
<1>2. CASE Launch \/ (LaunchFails /\ stream' # stream) \/ RecordReady
  <2>1. /\ node \in Reserved /\ UNCHANGED <<mem, lost>>
        /\ \/ Enqueues(Op("write", 0))
           \/ Enqueues(Op("record", issued[cur] + 1)) /\ node = "launched"
    BY <1>2 DEF Launch, LaunchFails, RecordReady, Enqueues, Reserved
  <2>2. PICK o \in Ops : Enqueues(o) /\ o.block = cur /\ o.uid = uid[cur]
    <3>1. CASE Enqueues(Op("write", 0))
      BY <1>0, <2>1, <3>1, OpType, PublisherAssumption DEF Op
    <3>2. CASE Enqueues(Op("record", issued[cur] + 1)) /\ node = "launched"
      <4>1. cur \in Blocks
        BY <1>0, <2>1 DEF NodeFollowsBlock, Busy
      <4>2. issued[cur] < uid[cur] /\ uid[cur] \in 0..MaxUid /\ issued[cur] \in 0..MaxUid
        BY <3>2, <4>1 DEF IInv, BlockInv, GenerationOf, TypeOK
      <4>3. Op("record", issued[cur] + 1) \in Ops
        BY <1>0, <2>1, <4>2, OpType, PublisherAssumption
      <4> QED BY <3>2, <4>3 DEF Op
    <3> QED BY <2>1, <3>1, <3>2
  <2>3. o.block = m.block => o.uid > m.uid
    BY <1>0, <2>1, <2>2, EnqueuedIsNew
  <2>4. Covered(m, n) => Covered(m, n)'
    BY <1>0, <1>m, <2>1, <2>2, <2>3, ImageEnqueue
  <2>5. PICK b : b = m.block
    OBVIOUS
  <2>6. \A i \in Writes(b)' : (i \in Writes(b) /\ stream'[i] = stream[i]) \/ (stream'[i] = o /\ o.block = b)
    BY <1>0, <2>2, EnqueuedWork
  <2>7. Done(m) => Done(m)'
    BY <2>1, <2>3, <2>5, <2>6 DEF Done
  <2> QED BY <2>4, <2>7
<1>3. CASE StreamStep
  <2>1. Covered(m, n) => Covered(m, n)'
    BY <1>0, <1>m, <1>3, CoverExecute
  <2>2. PICK k \in {0, 1} : Moves(k)
    BY <1>0, <1>3, StreamCases
  <2>3. PICK b : b = m.block
    OBVIOUS
  <2>4. \A i \in Writes(b)' : i + k \in Writes(b) /\ stream'[i].uid = stream[i + k].uid
    BY <1>0, <2>2, MovedWork
  <2>5. lost' = lost
    BY <1>0, <1>3, StreamCases
  <2>6. Done(m) => Done(m)'
    BY <2>3, <2>4, <2>5 DEF Done
  <2> QED BY <2>1, <2>6
<1>4. CASE Abandon
  <2>1. Writes(m.block)' = {}
    BY <1>4 DEF Abandon, Writes
  <2> QED BY <2>1 DEF Covered, Done
<1> QED BY <1>1, <1>2, <1>3, <1>4 DEF NodeStep

\* A kernel starts when the writes up to its message have executed or are lost.
LEMMA StartIsDone ==
  ASSUME IInv, NEW s \in Subs, StartRead(s)
  PROVE  Done(held[s])
<1>1. sub[s] = "waiting" /\ TypeOK /\ held[s] \in msgs
  BY HeldIsSent DEF IInv, StartRead
<1>2. PICK m \in msgs : m = held[s]
  BY <1>1
<1>3. m.block \in Blocks /\ m.uid \in Nat /\ m.frame \in 0..MaxFrames /\ m \in Messages
  BY <1>1, MessageIsOne DEF TypeOK
<1>4. PICK b \in Blocks : b = m.block
  BY <1>3
<1>t. /\ \A i \in Writes(b) : stream[i].uid \in Nat
      /\ \A i \in Records(b) : stream[i].seq \in Nat
      /\ completed[b] \in Nat /\ want[s] \in Nat /\ mem[b].uid \in Nat /\ MaxFrames \in Nat
  <2>1. want[s] \in 0..MaxUid
    BY <1>1 DEF TypeOK
  <2> QED BY <1>1, <2>1, WorkType, PublisherAssumption
<1>5. CASE completed[b] >= want[s]
  <2>1. Covered(m, want[s])
    BY <1>1, <1>2 DEF IInv, SubInv, ReadOf
  <2>2. \A j \in Records(b) : completed[b] < stream[j].seq
    BY DEF IInv, BlockInv, RecordsInOrder
  <2>3. \A j \in Records(b) : ~(stream[j].seq <= want[s])
    BY <1>t, <1>5, <2>2
  <2>4. \A i \in Writes(b) : ~(stream[i].uid <= m.uid)
    BY <1>4, <2>1, <2>3 DEF Covered
  <2> QED BY <1>2, <1>3, <1>4, <1>t, <2>4 DEF Done
<1>6. CASE node = "gone"
  <2>1. ImageOf(m) /\ Unwritten \subseteq lost /\ WritesInOrder(b)
    BY <1>2, <1>6 DEF IInv, ImagesFollow, LostAtEnd, BlockInv
  <2>2. \A i \in Writes(b) : stream[i].op = "write" \/ stream[i].op = "writing"
    BY <1>1, WorkType
  <2>w. ASSUME NEW i \in Writes(b)
        PROVE  mem[b].uid < stream[i].uid \/ (mem[b].uid = stream[i].uid /\ mem[b].frame = Torn)
    <3>1. CASE stream[i].op = "write"
      BY <3>1, <2>1 DEF WritesInOrder
    <3>2. CASE stream[i].op = "writing"
      <4>1. mem[b] = [uid |-> stream[i].uid, frame |-> Torn]
        BY <3>2, <2>1 DEF WritesInOrder
      <4> QED BY <4>1
    <3> QED BY <2>2, <3>1, <3>2
  <2>3. CASE mem[b].uid > m.uid
    <3>1. \A i \in Writes(b) : stream[i].uid > m.uid
      BY <2>w, <2>3, <1>3, <1>t
    <3> QED BY <3>1, <1>2, <1>4 DEF Done
  <2>4. CASE mem[b] = [uid |-> m.uid, frame |-> m.frame]
    <3>1. mem[b].uid = m.uid /\ mem[b].frame = m.frame /\ m.frame # Torn
      BY <2>4, <1>3, <1>t DEF Torn
    <3>2. \A i \in Writes(b) : stream[i].uid > m.uid
      BY <2>w, <3>1, <1>3, <1>t
    <3> QED BY <3>2, <1>2, <1>4 DEF Done
  <2>5. CASE \E i \in Writes(b) : stream[i].uid = m.uid
    <3>1. <<m.block, m.uid>> \in Unwritten
      BY <2>5, <1>4 DEF Writes, Unwritten
    <3> QED BY <2>1, <3>1, <1>2 DEF Done
  <2>6. CASE <<b, m.uid>> \in lost
    BY <2>6, <1>2, <1>4 DEF Done
  <2> QED BY <1>4, <2>1, <2>3, <2>4, <2>5, <2>6 DEF ImageOf
<1> QED BY <1>2, <1>4, <1>5, <1>6 DEF StartRead

\* Subscribers keep what they know.
LEMMA SubInvStep ==
  ASSUME IInv, [Next]_vars
  PROVE  SubInv'
<1> SUFFICES ASSUME NEW s \in Subs
             PROVE  LeaseOf(s)' /\ ReadOf(s)'
  BY DEF SubInv
<1>0. TypeOK /\ NodeFollowsBlock /\ LeaseOf(s) /\ ReadOf(s)
  BY DEF IInv, SubInv
<1>1. CASE NodeStep \/ StreamStep \/ Abandon
  <2>1. UNCHANGED <<sub, held, want, late>>
    BY <1>1 DEF NodeStep, Construct, ConstructFails, Acquire, NextUid, Launch, LaunchFails,
                RecordReady, Commit, PrepareFails, Publish, PublishThrows, Destroy, Killed,
                StreamStep, Abandon, subVars
  <2>2. LeaseOf(s)'
    <3>1. CASE NodeStep
      BY <1>0, <3>1, LeaseNodeStep
    <3>2. CASE StreamStep \/ Abandon
      BY <1>0, <2>1, <3>2 DEF StreamStep, Abandon, leaseVars, LeaseOf
    <3> QED BY <1>1, <3>1, <3>2
  <2>3. ReadOf(s)'
    <3>1. CASE sub[s] \in {"waiting", "reading"}
      <4>1. PICK m \in msgs : m = held[s]
        BY <1>0, <3>1, HeldIsSent
      <4>2. PICK n : n = want[s]
        OBVIOUS
      <4>3. (Covered(m, n) => Covered(m, n)') /\ (Done(m) => Done(m)')
        BY <1>1, KnowledgeStep
      <4>4. /\ sub[s] = "waiting" => Covered(m, n)
            /\ sub[s] = "reading" => Done(m)
        BY <1>0, <4>1, <4>2 DEF ReadOf, Done
      <4>5. /\ sub[s] = "waiting" => Covered(m, n)'
            /\ sub[s] = "reading" => Done(m)'
        BY <4>3, <4>4
      <4> QED BY <2>1, <4>1, <4>2, <4>5 DEF ReadOf, Done, Covered
    <3>2. CASE sub[s] \notin {"waiting", "reading"}
      BY <2>1, <3>2 DEF ReadOf
    <3> QED BY <3>1, <3>2
  <2> QED BY <2>2, <2>3
<1>2. CASE \E t \in Subs : SubStep(t)
  <2>1. PICK t \in Subs : SubStep(t)
    BY <1>2
  <2>2. LeaseOf(s)'
    BY <1>0, <2>1, LeaseSubStep
  <2>3. UNCHANGED <<stream, lost, issued, uid, phase>>
    BY <1>2, SubFrame
  <2>t. /\ sub \in [Subs -> {"idle", "leased", "waiting", "reading"}]
        /\ held \in [Subs -> Messages \cup {NoMsg}] /\ want \in [Subs -> 0..MaxUid]
    BY <1>0 DEF TypeOK
  <2>4. ReadOf(s)'
    <3>1. CASE s # t
      <4>1. sub'[s] = sub[s] /\ held'[s] = held[s] /\ want'[s] = want[s]
        BY <2>1, <2>t, <3>1 DEF SubStep, Grant, Wait, StartRead, Return, SubKilled
      <4> QED BY <1>0, <2>3, <4>1 DEF ReadOf, Covered, Writes, Records
    <3>2. CASE s = t /\ (\E m \in msgs : Grant(t, m))
      BY <2>t, <3>2 DEF Grant, ReadOf
    <3>3. CASE s = t /\ Wait(t)
      <4>1. /\ sub'[s] = "waiting" /\ held' = held /\ want'[s] = issued[held[s].block]
        BY <2>t, <3>3 DEF Wait
      <4>2. held[s] \in msgs
        BY <1>0, <3>3, HeldIsSent DEF Wait
      <4>3. Covered(held[s], issued[held[s].block])
        BY <4>2 DEF IInv, ImagesFollow
      <4> QED BY <2>3, <4>1, <4>3 DEF ReadOf, Covered, Writes, Records
    <3>4. CASE s = t /\ StartRead(t)
      <4>1. Done(held[s]) /\ sub'[s] = "reading" /\ held' = held
        BY <2>t, <3>4, StartIsDone DEF StartRead
      <4> QED BY <2>3, <4>1 DEF ReadOf, Done, Writes
    <3>5. CASE s = t /\ (Return(t) \/ SubKilled(t))
      BY <2>t, <3>5 DEF Return, SubKilled, ReadOf
    <3> QED BY <2>1, <3>1, <3>2, <3>3, <3>4, <3>5 DEF SubStep
  <2> QED BY <2>2, <2>4
<1>3. CASE UNCHANGED vars
  BY <1>0, <1>3 DEF vars, LeaseOf, ReadOf, Covered, Writes, Records
<1> QED BY <1>1, <1>2, <1>3 DEF Next

----------------------------------------------------------------------------
(***************************************************************************)
(* The theorems.                                                           *)
(***************************************************************************)

\* A publisher that is starting satisfies the invariant.
LEMMA InvariantInit == Init => IInv
<1> SUFFICES ASSUME Init PROVE IInv
  OBVIOUS
<1> USE PublisherAssumption
<1>0. stream = <<>> /\ DOMAIN stream = {} /\ stream \in Seq(Ops)
  BY EmptySeq DEF Init
<1>1. TypeOK
  <2>1. mem \in [Blocks -> Images]
    BY DEF Init, Images, Torn
  <2> QED BY <1>0, <2>1 DEF Init, TypeOK
<1>2. NodeFollowsBlock /\ MessagesCommitted /\ ImagesFollow /\ SubInv
  BY DEF Init, NodeFollowsBlock, Busy, Reserved, MessagesCommitted, ImagesFollow, SubInv,
         LeaseOf, ReadOf
<1>3. \A b \in Blocks : Writes(b) = {} /\ Records(b) = {}
  BY <1>0 DEF Writes, Records
<1>4. /\ \A b \in Blocks : mem[b].uid = 0 /\ uid[b] = 0 /\ issued[b] = 0
      /\ node \notin {"acquired", "launched"}
  BY DEF Init
<1>5. ASSUME NEW b \in Blocks
      PROVE  GenerationOf(b)
  BY <1>3, <1>4 DEF GenerationOf
<1>6. \A b \in Blocks : WritesInOrder(b) /\ RecordsInOrder(b)
  BY <1>3 DEF WritesInOrder, RecordsInOrder
<1>7. LostAtEnd
  BY <1>0 DEF Init, LostAtEnd
<1> QED BY <1>1, <1>2, <1>5, <1>6, <1>7 DEF IInv, BlockInv

\* Every step of publisher, GPU and subscribers preserves it.
LEMMA InvariantStep == IInv /\ [Next]_vars => IInv'
<1> SUFFICES ASSUME IInv, [Next]_vars PROVE IInv'
  OBVIOUS
<1>1. TypeOK /\ NodeFollowsBlock /\ BlockInv /\ MessagesCommitted /\ ImagesFollow /\ LostAtEnd
  BY DEF IInv
<1>2. TypeOK' /\ NodeFollowsBlock' /\ BlockInv'
  BY <1>1, TypeStep, NodeCourse, BlockStep
<1>3. MessagesCommitted' /\ ImagesFollow' /\ LostAtEnd'
  BY <1>1, MessageStep, ImagesStep, LostStep
<1>4. SubInv'
  BY SubInvStep
<1> QED BY <1>2, <1>3, <1>4 DEF IInv

\* The inductive invariant of publisher, stream and subscribers, for every number
\* of blocks, subscribers, generations and images.
THEOREM PublisherInvariant == Spec => []IInv
BY InvariantInit, InvariantStep, PTL DEF Spec

\* The state of publisher, stream and subscribers keeps its types: a block that
\* on_timer names is not free unless it is published or the node is gone, only the
\* first operation of the stream is half done, and no event completes a record that
\* was not issued.
THEOREM PublisherTypeCorrect == Spec => []TypeOK
<1>1. IInv => TypeOK
  BY DEF IInv
<1> QED BY <1>1, PublisherInvariant, PTL

\* A consumer's kernel reads the image its message was published with, whole, but
\* for a lease that slipped in between a claim and its uid, and for an image that
\* was in the stream when the publisher ended.
THEOREM ReadsSeeTheirImage == Spec => []ReadSeesItsImage
<1>1. ASSUME IInv, NEW s \in Subs, sub[s] = "reading"
      PROVE  LET m == held[s] IN
               \/ mem[m.block] = [uid |-> m.uid, frame |-> m.frame]
               \/ late[s] /\ mem[m.block].uid \in {m.uid, m.uid + 1}
               \/ <<m.block, m.uid>> \in lost
  <2>1. PICK m \in msgs : m = held[s]
    BY <1>1, HeldIsSent DEF IInv
  <2>2. m.block \in Blocks /\ m.uid \in Nat
    BY <1>1, <2>1, MessageIsOne DEF IInv, TypeOK
  <2>3. ImageOf(m) /\ Done(m)
    BY <1>1, <2>1 DEF IInv, ImagesFollow, SubInv, ReadOf, Done
  <2>4. mem[m.block].uid <= uid[m.block] /\ uid[m.block] \in Nat /\ mem[m.block].uid \in Nat
    BY <1>1, <2>2, WorkType, PublisherAssumption DEF IInv, BlockInv, GenerationOf
  <2>5. uid[m.block] = m.uid \/ (late[s] /\ uid[m.block] = m.uid + 1)
    BY <1>1, <2>1 DEF IInv, SubInv, LeaseOf
  <2>6. CASE mem[m.block].uid > m.uid
    BY <2>1, <2>2, <2>4, <2>5, <2>6
  <2>7. ASSUME NEW i \in Writes(m.block), stream[i].uid = m.uid
        PROVE  <<m.block, m.uid>> \in lost
    BY <2>2, <2>3, <2>7 DEF Done
  <2> QED BY <2>1, <2>3, <2>6, <2>7 DEF ImageOf
<1>2. IInv => ReadSeesItsImage
  BY <1>1 DEF ReadSeesItsImage
<1> QED BY <1>2, PublisherInvariant, PTL

----------------------------------------------------------------------------
(***************************************************************************)
(* Each block keeps to BlockLease.                                         *)
(***************************************************************************)

\* The leases on block b, as the abstract block sees them.
LeasesOn(b) == [s \in Subs |-> IF held[s].block = b THEN held[s].uid ELSE 0]

\* A step that leaves the metadata of a block alone is none of the abstract block.
LEMMA LeaseStutter ==
  ASSUME NEW b \in Blocks, uid'[b] = uid[b], phase'[b] = phase[b], pinned'[b] = pinned[b],
         LeasesOn(b)' = LeasesOn(b)
  PROVE  [Lease(b)!LeaseNext]_(Lease(b)!leaseVars)
BY DEF Lease!leaseVars, LeasesOn

\* Leases follow what the subscribers hold.
LEMMA LeasesFrame ==
  ASSUME NEW b, UNCHANGED held
  PROVE  LeasesOn(b)' = LeasesOn(b)
BY DEF LeasesOn

\* The publisher's steps, for one block.
LEMMA LeaseNodeStepOf ==
  ASSUME IInv, NodeStep, NEW b \in Blocks
  PROVE  [Lease(b)!LeaseNext]_(Lease(b)!leaseVars)
<1>0. TypeOK /\ NodeFollowsBlock
  BY DEF IInv
<1>1. /\ UNCHANGED <<held, pinned>>
      /\ uid \in [Blocks -> 0..MaxUid] /\ phase \in [Blocks -> {"free", "claimed", "writing"}]
  BY <1>0 DEF TypeOK, NodeStep, Construct, ConstructFails, Acquire, NextUid, Launch, LaunchFails,
              RecordReady, Commit, PrepareFails, Publish, PublishThrows, Destroy, Killed,
              subVars, leaseVars
<1>2. LeasesOn(b)' = LeasesOn(b)
  BY <1>1, LeasesFrame
<1>3. CASE \E c \in Blocks : Acquire(c)
  <2>1. PICK c \in Blocks : Acquire(c)
    BY <1>3
  <2>2. CASE c = b
    <3>1. /\ phase[b] = "free" /\ phase'[b] = "claimed" /\ uid'[b] = uid[b]
          /\ uid[b] # MaxUid /\ ~pinned[b]
      BY <1>1, <2>1, <2>2, PublisherAssumption DEF Acquire
    <3>2. \A s \in Subs : LeasesOn(b)[s] = 0
      BY <2>1, <2>2 DEF Acquire, Leased, LeasesOn
    <3>3. Lease(b)!Claim("publisher")
      BY <1>1, <1>2, <3>1, <3>2 DEF Lease!Claim, LeasesOn
    <3> QED BY <3>3 DEF Lease!LeaseNext
  <2>3. CASE c # b
    BY <1>1, <1>2, <2>1, <2>3, LeaseStutter DEF Acquire
  <2> QED BY <2>2, <2>3
<1>4. CASE NextUid
  <2>1. cur \in Blocks /\ phase[cur] = "claimed"
    BY <1>0, <1>4 DEF NextUid, NodeFollowsBlock, Busy
  <2>2. CASE cur = b
    <3>1. phase[b] = "claimed" /\ phase'[b] = "writing" /\ uid'[b] = uid[b] + 1
      BY <1>1, <1>4, <2>1, <2>2 DEF NextUid
    <3>2. Lease(b)!Advance("publisher")
      BY <1>1, <1>2, <3>1 DEF Lease!Advance, LeasesOn
    <3> QED BY <3>2 DEF Lease!LeaseNext
  <2>3. CASE cur # b
    BY <1>1, <1>2, <1>4, <2>1, <2>3, LeaseStutter DEF NextUid
  <2> QED BY <2>2, <2>3
<1>5. CASE LaunchFails \/ Commit
  <2>1. cur \in Blocks /\ phase[cur] = "writing" /\ uid' = uid /\ phase' = [phase EXCEPT ![cur] = "free"]
    BY <1>0, <1>5 DEF LaunchFails, Commit, NodeFollowsBlock, Busy, Reserved
  <2>2. CASE cur = b
    <3>1. phase[b] = "writing" /\ phase'[b] = "free"
      BY <1>1, <2>1, <2>2
    <3>2. Lease(b)!Finish("publisher")
      BY <1>1, <1>2, <2>1, <3>1 DEF Lease!Finish, LeasesOn
    <3> QED BY <3>2 DEF Lease!LeaseNext
  <2>3. CASE cur # b
    BY <1>1, <1>2, <2>1, <2>3, LeaseStutter
  <2> QED BY <2>2, <2>3
<1>6. CASE \/ Construct \/ ConstructFails \/ Launch \/ RecordReady \/ PrepareFails
           \/ Publish \/ PublishThrows \/ Destroy \/ Killed
  <2>1. UNCHANGED <<uid, phase>>
    BY <1>6 DEF Construct, ConstructFails, Launch, RecordReady, PrepareFails, Publish,
                PublishThrows, Destroy, Killed, leaseVars
  <2> QED BY <1>1, <1>2, <2>1, LeaseStutter
<1> QED BY <1>3, <1>4, <1>5, <1>6 DEF NodeStep

\* The subscribers' steps, for one block.
LEMMA LeaseSubStepOf ==
  ASSUME TypeOK, NEW s \in Subs, SubStep(s), NEW b \in Blocks
  PROVE  [Lease(b)!LeaseNext]_(Lease(b)!leaseVars)
<1>1. /\ UNCHANGED <<uid, phase>> /\ held \in [Subs -> Messages \cup {NoMsg}]
      /\ pinned \in [Blocks -> BOOLEAN]
  BY SubFrame DEF TypeOK
<1>2. \A c \in Blocks : NoMsg.block # c
  BY PublisherAssumption DEF NoMsg
<1>3. CASE \E m \in msgs : Grant(s, m)
  <2>1. PICK m \in msgs : Grant(s, m)
    BY <1>3
  <2>2. held[s] = NoMsg /\ pinned' = pinned /\ held' = [held EXCEPT ![s] = m]
    BY <2>1 DEF Grant, TypeOK, leaseVars
  <2>3. CASE m.block = b
    <3>1. uid[b] = m.uid /\ phase[b] # "writing"
      BY <2>1, <2>3 DEF Grant
    <3>2. LeasesOn(b)[s] = 0 /\ LeasesOn(b)' = [LeasesOn(b) EXCEPT ![s] = uid[b]]
      BY <1>1, <1>2, <2>2, <2>3, <3>1 DEF LeasesOn
    <3>3. Lease(b)!Grant(s)
      BY <1>1, <2>2, <3>1, <3>2 DEF Lease!Grant, LeasesOn
    <3> QED BY <3>3 DEF Lease!LeaseNext
  <2>4. CASE m.block # b
    <3>1. LeasesOn(b)' = LeasesOn(b)
      BY <1>1, <1>2, <2>2, <2>4 DEF LeasesOn
    <3> QED BY <1>1, <2>2, <3>1, LeaseStutter
  <2> QED BY <2>3, <2>4
<1>4. CASE Wait(s) \/ StartRead(s)
  <2>1. UNCHANGED <<held, pinned>>
    BY <1>4 DEF Wait, StartRead, leaseVars
  <2> QED BY <1>1, <2>1, LeasesFrame, LeaseStutter
<1>5. CASE Return(s) \/ SubKilled(s)
  <2>1. /\ held' = [held EXCEPT ![s] = NoMsg] /\ held[s].block \in Blocks
        /\ pinned' = pinned \/ pinned' = [pinned EXCEPT ![held[s].block] = TRUE]
    BY <1>5, HeldIsSent, MessageIsOne DEF Return, SubKilled, leaseVars
  <2>2. CASE held[s].block = b
    <3>1. LeasesOn(b)' = [LeasesOn(b) EXCEPT ![s] = 0]
      BY <1>1, <1>2, <2>1 DEF LeasesOn
    <3>2. pinned'[b] \in {pinned[b], TRUE}
      BY <1>1, <2>1, <2>2
    <3>3. Lease(b)!Drop(s)
      BY <1>1, <3>1, <3>2 DEF Lease!Drop, LeasesOn
    <3> QED BY <3>3 DEF Lease!LeaseNext
  <2>3. CASE held[s].block # b
    <3>1. LeasesOn(b)' = LeasesOn(b)
      BY <1>1, <1>2, <2>1, <2>3 DEF LeasesOn
    <3>2. pinned'[b] = pinned[b]
      BY <1>1, <2>1, <2>3
    <3> QED BY <1>1, <3>1, <3>2, LeaseStutter
  <2> QED BY <2>2, <2>3
<1> QED BY <1>3, <1>4, <1>5 DEF SubStep

\* Every block of the running node implements the abstract block, whatever the
\* node's callbacks fail at and whoever is killed.
THEOREM BlocksImplementLease == Spec => BlocksKeepTheirPromise
<1>1. ASSUME Init, NEW b \in Blocks
      PROVE  Lease(b)!LeaseInit
  <2>1. uid[b] = 0 /\ phase[b] = "free" /\ pinned[b] = FALSE
    BY <1>1 DEF Init
  <2>2. LeasesOn(b) = [s \in Subs |-> 0]
    BY <1>1, PublisherAssumption DEF Init, LeasesOn, NoMsg
  <2> QED BY <2>1, <2>2 DEF Lease!LeaseInit, LeasesOn
<1>2. ASSUME IInv, [Next]_vars, NEW b \in Blocks
      PROVE  [Lease(b)!LeaseNext]_(Lease(b)!leaseVars)
  <2>1. CASE StreamStep \/ Abandon \/ UNCHANGED vars
    <3>1. UNCHANGED <<uid, phase, pinned, held>>
      BY <2>1 DEF StreamStep, Abandon, leaseVars, subVars, vars
    <3> QED BY <3>1, LeasesFrame, LeaseStutter
  <2> QED BY <1>2, <2>1, LeaseNodeStepOf, LeaseSubStepOf DEF Next, IInv
<1>3. Init => \A b \in Blocks : Lease(b)!LeaseInit
  BY <1>1
<1>4. IInv /\ [Next]_vars => [\A b \in Blocks : [Lease(b)!LeaseNext]_(Lease(b)!leaseVars)]_vars
  BY <1>2
<1> QED BY <1>3, <1>4, PublisherInvariant, PTL DEF Spec, BlocksKeepTheirPromise
=============================================================================
