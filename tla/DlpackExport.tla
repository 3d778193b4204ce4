---------------------------- MODULE DlpackExport ----------------------------
(***************************************************************************)
(* The Python bindings and the typed handles: who owns the lease of a      *)
(* mapped block, from the mapping to the framework tensor, and which data  *)
(* each owner can reach.  One element of Maps is one successful map() and  *)
(* the lease it acquired.                                                  *)
(*                                                                         *)
(* Late binding: PyDLPackImage keeps a MappedPublication; __dlpack__ binds *)
(* it to the consumer's stream and moves it into an export context that    *)
(* the managed tensor, its capsule and finally the framework refer to.     *)
(* Early binding: PyReadHandle owns the read, PyImageReadHandle takes it   *)
(* with the layout of a message, which need not be the one that was        *)
(* mapped; a point cloud handle, in C++, does the same.                    *)
(*                                                                         *)
(* The interpreter runs one call at a time and no call below releases its  *)
(* lock after the mapping, so each is one step; frameworks, which call the *)
(* deleter from any thread, and the collector run between any two.         *)
(* Refused calls that change nothing are stuttering steps.                 *)
(*                                                                         *)
(* byte_size of a message is what every later check uses, but nothing      *)
(* compares it with the block: the IpcHandleCache finds the import of a    *)
(* block without it, so a hit yields the mapping made for the byte_size of *)
(* another message.  size is the one, extent the other.                    *)
(***************************************************************************)
EXTENDS TensorLayout, FiniteSets

CONSTANTS
  Maps,         \* leases acquired from Python
  None,         \* None
  UintptrMax,   \* _UINTPTR_MAX
  Messages,     \* image messages from Python, with any integers in them
  Clouds,       \* point cloud messages
  Sizes,        \* byte_size of the messages mapped early
  Extents,      \* bytes mapped by imports, found in the cache or new
  Data          \* where blocks are mapped

ASSUME MapsAssumption ==
  /\ IsFiniteSet(Maps) /\ UintptrMax \in Nat \ {0} /\ None \notin Int
  /\ Sizes \subseteq Int /\ Extents \subseteq Nat /\ Data \in 1..WordMax

\* Python passes any integers, the element size comes from the dtype; the fields of
\* a point cloud are unsigned.
ASSUME MessagesAssumption ==
  /\ Messages \subseteq [device : Int, rows : Int, cols : Int, channels : Int, h : Int,
                        w : Int, c : Int, elem : Nat, bytes : Int]
  /\ Clouds \subseteq [height : Nat, width : Nat, point_step : Nat, row_step : Nat,
                      fields : SUBSET [offset : Nat, elem : Nat, count : Nat]]

VARIABLES
  state_,       \* per map: PyDLPackImage::state_
  publication,  \* per map: publication_, which a commit leaves empty
  context,      \* per map: the DlpackExportContext and its owner
  managed,      \* per map: the DLManagedTensor
  capsule,      \* per map: the capsule's name
  framework,    \* per map: whether a framework has taken the tensor
  bound,        \* per map: the stream its read is bound to
  read,         \* per map: PyReadHandle
  typed,        \* per map: PyImageReadHandle or PointCloud2ReadHandle
  size,         \* per map: byte_size of the message that was mapped
  extent,       \* per map: bytes mapped of the block itself
  layout,       \* per map: the layout of its image, its tensor or its cloud
  lease,        \* per map: the block reference
  unwinding,    \* maps whose dlpack() is throwing, with its context still owned
  undefined     \* an object has been deleted twice

exportVars == <<context, managed, capsule, framework, bound>>
earlyVars  == <<read, typed>>
layoutVars == <<size, extent, layout>>
vars == <<state_, publication, context, managed, capsule, framework, bound,
          read, typed, size, extent, layout, lease, unwinding, undefined>>

Names     == {"dltensor", "dltensor_versioned"}
UsedNames == {"used_dltensor", "used_dltensor_versioned"}

NoLayout  == [elem |-> 0]

Init ==
  /\ state_ = [i \in Maps |-> "none"]
  /\ publication = [i \in Maps |-> "none"]
  /\ context = [i \in Maps |-> "none"]
  /\ managed = [i \in Maps |-> "none"]
  /\ capsule = [i \in Maps |-> "none"]
  /\ framework = [i \in Maps |-> "none"]
  /\ bound = [i \in Maps |-> 0]
  /\ read = [i \in Maps |-> "none"]
  /\ typed = [i \in Maps |-> "none"]
  /\ size = [i \in Maps |-> 0] /\ extent = [i \in Maps |-> 0] /\ layout = [i \in Maps |-> NoLayout]
  /\ lease = [i \in Maps |-> "none"]
  /\ unwinding = {} /\ undefined = FALSE

Set(f, i, v) == [f EXCEPT ![i] = v]
\* The interpreter lock is free.
Running(i) == ~undefined /\ unwinding = {} /\ i \in Maps

----------------------------------------------------------------------------
(***************************************************************************)
(* The late-binding image.                                                 *)
(***************************************************************************)

\* BufferMapper::map_descriptor hands out an import of the block, new or cached,
\* with the byte_size n of the message.
MapBlock(i, n) ==
  /\ size' = Set(size, i, n)
  /\ \E e \in Extents : extent' = Set(extent, i, e)

MapImage(i, m) ==
  /\ Running(i) /\ lease[i] = "none"
  /\ Parsed(m) /\ validate_image_descriptor(m)
  /\ state_' = Set(state_, i, "available")
  /\ publication' = Set(publication, i, "valid")
  /\ lease' = Set(lease, i, "held")
  /\ MapBlock(i, m.bytes) /\ layout' = Set(layout, i, m)
  /\ UNCHANGED <<exportVars, earlyVars, undefined, unwinding>>

\* The deleter: context with its read, then the managed tensor.
Deleter(i) ==
  /\ context' = Set(context, i, "deleted") /\ managed' = Set(managed, i, "deleted")
  /\ lease' = Set(lease, i, "released")
  /\ undefined' = (context[i] = "deleted")

Streams == (-2..UintptrMax + 1) \cup {None}
Refused == -1

\* None is the legacy default stream; -1, other negative values, the ambiguous
\* 0 and what does not fit a pointer are refused.
StreamPointer(stream) ==
  IF stream = None THEN 1
  ELSE IF stream <= 0 \/ stream > UintptrMax THEN Refused ELSE stream

\* The legacy ABI unless the consumer offers version 1 or later.
VersionedName(major) == IF major >= 1 THEN "dltensor_versioned" ELSE "dltensor"

\* What __dlpack__ asks for before anything is bound: the image has not been
\* exported or closed (neither another device nor a copy is asked for), the
\* stream is usable, the layout is that of a tensor in byte_size bytes.
Exportable(i, pointer) ==
  /\ Running(i) /\ state_[i] = "available"
  /\ pointer \notin {Refused, 0}
  /\ publication[i] = "valid"
  /\ Projectable(layout[i], Data, size[i])

\* Mutant: the image keeps its publication beside the exported read.
MutExport(i, stream, major) ==
  LET pointer == StreamPointer(stream) IN
  /\ Exportable(i, pointer)
  /\ state_' = Set(state_, i, "consumed")
  /\ context' = Set(context, i, "live") /\ managed' = Set(managed, i, "live")
  /\ capsule' = Set(capsule, i, VersionedName(major))
  /\ bound' = Set(bound, i, pointer)
  /\ layout' = Set(layout, i, Tensor(layout[i], Data))
  /\ UNCHANGED <<size, extent, publication, framework, earlyVars, lease, undefined, unwinding>>

Export(i, stream, major) ==
  LET pointer == StreamPointer(stream) IN
  /\ Exportable(i, pointer)
  /\ publication' = Set(publication, i, "none")
  /\ state_' = Set(state_, i, "consumed")
  /\ context' = Set(context, i, "live") /\ managed' = Set(managed, i, "live")
  /\ capsule' = Set(capsule, i, VersionedName(major))
  /\ bound' = Set(bound, i, pointer)
  /\ layout' = Set(layout, i, Tensor(layout[i], Data))
  /\ UNCHANGED <<size, extent, framework, earlyVars, lease, undefined, unwinding>>

\* The allocation of the context's owner fails after make_bound has committed:
\* the read is destroyed while the stack unwinds and the image stays available
\* with a publication that has nothing left in it.
ExportOwnerFails(i, stream) ==
  /\ Exportable(i, StreamPointer(stream))
  /\ publication' = Set(publication, i, "committed")
  /\ lease' = Set(lease, i, "released")
  /\ UNCHANGED <<state_, exportVars, earlyVars, layoutVars, undefined, unwinding>>

\* PyCapsule_New fails: the handler calls the managed tensor's deleter and
\* throws on.
ExportCapsuleFails(i, stream) ==
  /\ Exportable(i, StreamPointer(stream))
  /\ publication' = Set(publication, i, "none")
  /\ state_' = Set(state_, i, "closed")
  /\ Deleter(i)
  /\ unwinding' = unwinding \cup {i}
  /\ UNCHANGED <<capsule, framework, bound, earlyVars, layoutVars>>

\* The frame's capsule_context, which was not released, deletes the context.
Unwind(i) ==
  /\ i \in unwinding /\ ~undefined
  /\ unwinding' = unwinding \ {i}
  /\ undefined' = (context[i] = "deleted")
  /\ context' = Set(context, i, "deleted")
  /\ UNCHANGED <<state_, publication, managed, capsule, framework, bound, earlyVars, layoutVars, lease>>

\* publication_.reset()
ResetPublication(i) ==
  /\ publication' = Set(publication, i, "none")
  /\ lease' = IF publication[i] = "valid" THEN Set(lease, i, "released") ELSE lease

Close(i) ==
  /\ Running(i) /\ state_[i] = "available"
  /\ ResetPublication(i)
  /\ state_' = Set(state_, i, "closed")
  /\ UNCHANGED <<exportVars, earlyVars, layoutVars, undefined, unwinding>>

CollectImage(i) ==
  /\ Running(i) /\ state_[i] \in {"available", "consumed", "closed"}
  /\ ResetPublication(i)
  /\ state_' = Set(state_, i, "collected")
  /\ UNCHANGED <<exportVars, earlyVars, layoutVars, undefined, unwinding>>

----------------------------------------------------------------------------
(***************************************************************************)
(* The exported tensor.                                                    *)
(***************************************************************************)

\* A framework takes the tensor and renames the capsule.
Consume(i) ==
  /\ Running(i) /\ capsule[i] \in Names
  /\ framework' = Set(framework, i, "holds")
  /\ capsule' = Set(capsule, i, IF capsule[i] = "dltensor" THEN "used_dltensor"
                                ELSE "used_dltensor_versioned")
  /\ UNCHANGED <<state_, publication, context, managed, bound, earlyVars, layoutVars, lease, undefined, unwinding>>

\* The framework's last array is gone.
FrameworkDeletes(i) ==
  /\ Running(i) /\ framework[i] = "holds"
  /\ framework' = Set(framework, i, "done")
  /\ Deleter(i)
  /\ UNCHANGED <<state_, publication, capsule, bound, earlyVars, layoutVars, unwinding>>

\* Mutant: only the legacy name is recognised.
MutCapsuleDestructorLegacy(i) ==
  /\ Running(i) /\ capsule[i] \in Names \cup UsedNames
  /\ capsule' = Set(capsule, i, "destroyed")
  /\ IF capsule[i] = "dltensor" THEN Deleter(i)
     ELSE UNCHANGED <<context, managed, lease, undefined>>
  /\ UNCHANGED <<state_, publication, framework, bound, earlyVars, layoutVars, unwinding>>

\* A capsule that no framework has renamed still owns the tensor.
CapsuleDestructor(i) ==
  /\ Running(i) /\ capsule[i] \in Names \cup UsedNames
  /\ capsule' = Set(capsule, i, "destroyed")
  /\ IF capsule[i] \in Names THEN Deleter(i)
     ELSE UNCHANGED <<context, managed, lease, undefined>>
  /\ UNCHANGED <<state_, publication, framework, bound, earlyVars, layoutVars, unwinding>>

----------------------------------------------------------------------------
(***************************************************************************)
(* The early-bound read handles.                                           *)
(***************************************************************************)
MapRead(i, stream, n) ==
  /\ Running(i) /\ lease[i] = "none" /\ StreamPointer(stream) # Refused
  /\ n \in 0..WordMax
  /\ read' = Set(read, i, "bound")
  /\ bound' = Set(bound, i, StreamPointer(stream))
  /\ lease' = Set(lease, i, "held")
  /\ MapBlock(i, n)
  /\ UNCHANGED <<state_, publication, context, managed, capsule, framework, typed, layout,
                 undefined, unwinding>>

\* close(), or the object is collected.
CloseRead(i) ==
  /\ Running(i) /\ read[i] = "bound"
  /\ read' = Set(read, i, "empty")
  /\ lease' = Set(lease, i, "released")
  /\ UNCHANGED <<state_, publication, exportVars, typed, layoutVars, undefined, unwinding>>

\* from_message has taken the read: the typed handle has it ...
Typed(i, kind, m) ==
  /\ Running(i) /\ read[i] = "bound"
  /\ read' = Set(read, i, "empty") /\ typed' = Set(typed, i, kind)
  /\ layout' = Set(layout, i, m)
  /\ UNCHANGED <<state_, publication, exportVars, size, extent, lease, undefined, unwinding>>

\* ... or it is destroyed because the metadata does not fit.
Rejected(i) ==
  /\ Running(i) /\ read[i] = "bound"
  /\ read' = Set(read, i, "empty")
  /\ lease' = Set(lease, i, "released")
  /\ UNCHANGED <<state_, publication, exportVars, typed, layoutVars, undefined, unwinding>>

\* A message that is refused before the read is touched leaves it bound.
TypeableImage(i, m) == read[i] = "bound" /\ Parsed(m) /\ validate_image_descriptor(m)

\* Mutant: the layout is only checked against its own message's byte_size.
MutImageFits(i, m) == sanity_check(m)

\* sanity_check of the handle: the layout against the byte_size that was mapped.
ImageFits(i, m) == sanity_check([m EXCEPT !.bytes = size[i]])

TypeImage(i, m) == TypeableImage(i, m) /\ ImageFits(i, m) /\ Typed(i, "image", m)
TypeImageRejected(i, m) == TypeableImage(i, m) /\ ~ImageFits(i, m) /\ Rejected(i)
TypeCloud(i, p) == Typed(i, "cloud", p) /\ CloudFits(p, size[i])
TypeCloudRejected(i, p) == Rejected(i) /\ ~CloudFits(p, size[i])

CloseTyped(i) ==
  /\ Running(i) /\ typed[i] \in {"image", "cloud"}
  /\ typed' = Set(typed, i, "empty")
  /\ lease' = Set(lease, i, "released")
  /\ UNCHANGED <<state_, publication, exportVars, read, layoutVars, undefined, unwinding>>

Finalise(i) == CollectImage(i) \/ CapsuleDestructor(i) \/ FrameworkDeletes(i)
               \/ CloseRead(i) \/ CloseTyped(i)

Next == \E i \in Maps :
  \/ Close(i) \/ Consume(i) \/ Finalise(i) \/ Unwind(i)
  \/ \E m \in Messages : MapImage(i, m) \/ TypeImage(i, m) \/ TypeImageRejected(i, m)
  \/ \E p \in Clouds : TypeCloud(i, p) \/ TypeCloudRejected(i, p)
  \/ \E stream \in Streams :
       \/ \E n \in Sizes : MapRead(i, stream, n)
       \/ ExportOwnerFails(i, stream) \/ ExportCapsuleFails(i, stream)
       \/ \E major \in 0..1 : Export(i, stream, major)

Spec == Init /\ [][Next]_vars

(***************************************************************************)
(* Fairness: the interpreter collects every object that nothing refers to, *)
(* programs drop what they map, frameworks call the deleter in the end.    *)
(***************************************************************************)
FairSpec == Spec /\ \A i \in Maps : WF_vars(Finalise(i)) /\ WF_vars(Unwind(i))

----------------------------------------------------------------------------
(***************************************************************************)
(* Properties.                                                             *)
(***************************************************************************)

\* An offset is one that the mapped message describes, and one of the mapped block
\* itself if that is as large as the message says.
Described(i, o) == o < size[i] /\ (size[i] <= extent[i] => o < extent[i])

\* Data that can still be reached is there: a tensor that a framework or a
\* capsule refers to is alive, and like a typed handle it has its block leased;
\* every element that shape and strides address lies in the byte_size bytes that
\* the mapped message gave the block, whatever other integers messages had and
\* whatever has been closed, collected or combined with another message in the
\* meantime.  That is inside the block if the message's byte_size is true, which
\* nothing checks; the library's publishers always send the size of their pool.
ReachableDataIsLeased ==
  \A i \in Maps :
    /\ framework[i] = "holds" \/ capsule[i] \in Names =>
         /\ context[i] = "live" /\ managed[i] = "live" /\ lease[i] = "held"
         /\ \A a \in TensorBytes(layout[i]) : a \in Data..WordMax /\ Described(i, a - Data)
    /\ typed[i] = "image" =>
         lease[i] = "held" /\ \A o \in ImageBytes(layout[i]) : Described(i, o)
    /\ typed[i] = "cloud" =>
         lease[i] = "held" /\ \A o \in CloudBytes(layout[i]) : Described(i, o)

Owners(i) == {o \in 1..4 : \/ o = 1 /\ publication[i] = "valid"
                           \/ o = 2 /\ context[i] = "live"
                           \/ o = 3 /\ read[i] = "bound"
                           \/ o = 4 /\ typed[i] \in {"image", "cloud"}}

\* The lease of a map has exactly one owner from its acquisition to its
\* release, through export, typing and every failure, and no owner is deleted
\* twice but the context of an export whose capsule could not be created: the
\* handler's deleter and the unwinding frame both delete that one.
LeaseHasOneOwner ==
  /\ \A i \in Maps : Cardinality(Owners(i)) = IF lease[i] = "held" THEN 1 ELSE 0
  /\ undefined => \E i \in Maps : context[i] = "deleted" /\ capsule[i] = "none"

\* Every lease is released in the end, also when a capsule is never consumed
\* or outlives the image.
LeasesReturn == \A i \in Maps : lease[i] = "held" ~> lease[i] = "released" \/ undefined
=============================================================================
