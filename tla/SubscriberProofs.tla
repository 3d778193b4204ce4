-------------------------- MODULE SubscriberProofs --------------------------
(***************************************************************************)
(* Proofs about the users of a mapped image: the bindings and the typed    *)
(* handles (DlpackExport) and the nodes (ConsumerNode).  Both compute what *)
(* they touch from the same layouts, so the bounds are proved once.        *)
(***************************************************************************)
EXTENDS ConsumerNode, DlpackExport, TLAPS, FiniteSetTheorems

----------------------------------------------------------------------------
(***************************************************************************)
(* The bindings: the invariant.                                            *)
(***************************************************************************)
ExportTypeOK ==
  /\ state_ \in [Maps -> {"none", "available", "consumed", "closed", "collected"}]
  /\ publication \in [Maps -> {"none", "valid", "committed"}]
  /\ context \in [Maps -> {"none", "live", "deleted"}]
  /\ managed \in [Maps -> {"none", "live", "deleted"}]
  /\ capsule \in [Maps -> Names \cup UsedNames \cup {"none", "destroyed"}]
  /\ framework \in [Maps -> {"none", "holds", "done"}]
  /\ bound \in [Maps -> 0..UintptrMax]
  /\ read \in [Maps -> {"none", "bound", "empty"}]
  /\ typed \in [Maps -> {"none", "image", "cloud", "empty"}]
  /\ size \in [Maps -> 0..WordMax] /\ extent \in [Maps -> Nat]
  /\ layout = [i \in Maps |-> layout[i]]
  /\ lease \in [Maps -> {"none", "held", "released"}]
  /\ unwinding \subseteq Maps /\ undefined \in BOOLEAN

\* Nothing has been mapped.
Unmapped(i) ==
  /\ state_[i] = "none" /\ publication[i] = "none" /\ read[i] = "none" /\ typed[i] = "none"
  /\ context[i] = "none" /\ capsule[i] = "none" /\ framework[i] = "none"

\* A late-binding image, not exported yet.
Published(i) ==
  /\ state_[i] = "available" /\ publication[i] = "valid"
  /\ read[i] = "none" /\ typed[i] = "none"
  /\ context[i] = "none" /\ capsule[i] = "none" /\ framework[i] = "none"

\* An exported one: either the capsule or the framework has the tensor.
Exported(i) ==
  /\ state_[i] \in {"consumed", "collected"} /\ publication[i] = "none"
  /\ read[i] = "none" /\ typed[i] = "none"
  /\ context[i] = "live"
  /\ \/ capsule[i] \in Names /\ framework[i] = "none"
     \/ capsule[i] \in UsedNames \cup {"destroyed"} /\ framework[i] = "holds"

Early(i) ==
  /\ state_[i] = "none" /\ publication[i] = "none"
  /\ context[i] = "none" /\ capsule[i] = "none" /\ framework[i] = "none"

\* An early-bound read, with the read handle or with a typed one.
Bound(i)  == Early(i) /\ read[i] = "bound" /\ typed[i] = "none"
Viewed(i) == Early(i) /\ read[i] = "empty" /\ typed[i] \in {"image", "cloud"}

\* Whatever owned the lease is gone.
Over(i) ==
  /\ publication[i] # "valid" /\ context[i] # "live"
  /\ read[i] # "bound" /\ typed[i] \notin {"image", "cloud"}
  /\ capsule[i] \notin Names /\ framework[i] # "holds"

\* Where the lease of a map is: its owner by what its objects are.
OwnerOf(i) ==
  /\ lease[i] = "none" => Unmapped(i)
  /\ lease[i] = "held" => Published(i) \/ Exported(i) \/ Bound(i) \/ Viewed(i)
  /\ lease[i] = "released" => Over(i)
  /\ managed[i] = context[i]

\* A context is deleted without a capsule where the handler of an export has run.
UnwindsDeleted ==
  /\ \A i \in unwinding : context[i] = "deleted" /\ capsule[i] = "none"
  /\ undefined => \E i \in Maps : context[i] = "deleted" /\ capsule[i] = "none"

\* What has been checked of the layout that a map has at the time.
LayoutOf(i) ==
  /\ publication[i] = "valid" =>
       layout[i] \in Messages /\ Parsed(layout[i]) /\ validate_image_descriptor(layout[i])
  /\ framework[i] = "holds" \/ capsule[i] \in Names =>
       \E m \in Messages : /\ Parsed(m) /\ Projectable(m, Data, size[i])
                         /\ layout[i] = Tensor(m, Data)
  /\ typed[i] = "image" =>
       layout[i] \in Messages /\ Parsed(layout[i]) /\ ImageFits(i, layout[i])
  /\ typed[i] = "cloud" => layout[i] \in Clouds /\ CloudFits(layout[i], size[i])

AllOwned    == \A i \in Maps : OwnerOf(i)
AllLayouts  == \A i \in Maps : LayoutOf(i)
ExportInv == ExportTypeOK /\ AllOwned /\ UnwindsDeleted /\ AllLayouts

----------------------------------------------------------------------------
(***************************************************************************)
(* Layouts: products of naturals, and what a checked layout bounds.        *)
(***************************************************************************)

\* A product grows with its first factor.
LEMMA ProductGrows ==
  ASSUME NEW a \in Nat, NEW b \in Nat, NEW c \in Nat, a <= b
  PROVE  a * c \in Nat /\ b * c \in Nat /\ a * c <= b * c
OBVIOUS

\* A divisor times an exact quotient is the dividend.
LEMMA ExactQuotient ==
  ASSUME NEW a \in Nat, NEW e \in Nat \ {0}, a % e = 0
  PROVE  a \div e \in Nat /\ e * (a \div e) = a
OBVIOUS

\* Elements of strides in bytes or in elements: the same offset.
LEMMA ScaledOffset ==
  ASSUME NEW e \in Nat, NEW x \in Nat, NEW y \in Nat, NEW z \in Nat,
         NEW p \in Nat, NEW q \in Nat, NEW r \in Nat
  PROVE  e * (x * p + y * q + z * r) = x * (e * p) + y * (e * q) + z * (e * r)
<1>1. e * (x * p + y * q + z * r) = e * (x * p) + e * (y * q) + e * (z * r)
  OBVIOUS
<1>2. e * (x * p) = x * (e * p) /\ e * (y * q) = y * (e * q) /\ e * (z * r) = z * (e * r)
  OBVIOUS
<1> QED BY <1>1, <1>2

\* The records that describe images.
ImageRecords == [device : Int, rows : Int, cols : Int, channels : Int, h : Int,
                 w : Int, c : Int, elem : Nat, bytes : Int]

\* An element of an image that has one lies before the offset the checks compute.
LEMMA ElementBound ==
  ASSUME NEW m \in ImageRecords, m.h >= 0, m.w >= 0, m.c >= 0,
         NEW y \in 0..(m.rows - 1), NEW x \in 0..(m.cols - 1), NEW c \in 0..(m.channels - 1),
         NEW k \in 0..(m.elem - 1)
  PROVE  /\ Needed(m) \in Nat
         /\ y * m.h + x * m.w + c * m.c + k \in Nat
         /\ y * m.h + x * m.w + c * m.c + k < Needed(m)
<1> DEFINE r == m.rows - 1
           s == m.cols - 1
           t == m.channels - 1
<1>1. m.h \in Nat /\ m.w \in Nat /\ m.c \in Nat /\ m.elem \in Nat /\ k \in Nat /\ k < m.elem
  BY DEF ImageRecords
<1>2. r \in Nat /\ s \in Nat /\ t \in Nat /\ y \in Nat /\ x \in Nat /\ c \in Nat
      /\ y <= r /\ x <= s /\ c <= t
  BY DEF ImageRecords
<1> HIDE DEF r, s, t
<1>3. y * m.h \in Nat /\ r * m.h \in Nat /\ y * m.h <= r * m.h
  BY <1>1, <1>2, ProductGrows
<1>4. x * m.w \in Nat /\ s * m.w \in Nat /\ x * m.w <= s * m.w
  BY <1>1, <1>2, ProductGrows
<1>5. c * m.c \in Nat /\ t * m.c \in Nat /\ c * m.c <= t * m.c
  BY <1>1, <1>2, ProductGrows
<1>6. Needed(m) = r * m.h + s * m.w + t * m.c + m.elem
  BY DEF Needed, r, s, t
<1> QED BY <1>1, <1>3, <1>4, <1>5, <1>6

\* The data of an image that fits its block is in the block.
LEMMA ImageDataFits ==
  ASSUME NEW m \in ImageRecords, m.h >= 0, m.w >= 0, m.c >= 0, NEW n \in Int, Needed(m) <= n
  PROVE  \A o \in ImageBytes(m) : o \in Nat /\ o < n
<1> SUFFICES ASSUME NEW y \in 0..(m.rows - 1), NEW x \in 0..(m.cols - 1),
                    NEW c \in 0..(m.channels - 1), NEW k \in 0..(m.elem - 1)
             PROVE  /\ y * m.h + x * m.w + c * m.c + k \in Nat
                    /\ y * m.h + x * m.w + c * m.c + k < n
  BY DEF ImageBytes
<1>1. /\ Needed(m) \in Nat
      /\ y * m.h + x * m.w + c * m.c + k \in Nat
      /\ y * m.h + x * m.w + c * m.c + k < Needed(m)
  BY ElementBound
<1> QED BY <1>1

\* The elements of an exported tensor are in the block and below the end of memory.
LEMMA TensorDataFits ==
  ASSUME NEW m \in ImageRecords, NEW d \in Nat, NEW n \in Nat,
         Parsed(m), Projectable(m, d, n)
  PROVE  TensorBytes(Tensor(m, d)) \subseteq (d..(d + n - 1)) \cap 0..WordMax
<1> DEFINE T == Tensor(m, d)
<1>1. /\ T.data = d /\ T.elem = m.elem
      /\ T.shape[1] = m.rows /\ T.shape[2] = m.cols /\ T.shape[3] = m.channels
      /\ T.element_strides[1] = m.h \div m.elem
      /\ T.element_strides[2] = m.w \div m.elem
      /\ T.element_strides[3] = m.c \div m.elem
  BY DEF Tensor, Shape, Strides
<1>2. /\ m.h % m.elem = 0 /\ m.w % m.elem = 0 /\ m.c % m.elem = 0
      /\ m.elem # 0
      /\ Needed(m) <= n /\ n <= WordMax - d
  BY DEF Projectable, Strides
<1>3. m.h \in Nat /\ m.w \in Nat /\ m.c \in Nat /\ m.elem \in Nat \ {0}
  <2>1. m.h \in 0..WordMax /\ m.w \in 0..WordMax /\ m.c \in 0..WordMax
    BY DEF Parsed, Strides
  <2>2. m.h \in Int /\ m.w \in Int /\ m.c \in Int /\ m.elem \in Nat
    BY DEF ImageRecords
  <2> QED BY <1>2, <2>1, <2>2, WordAssumption
<1> SUFFICES ASSUME NEW y \in 0..(m.rows - 1), NEW x \in 0..(m.cols - 1),
                    NEW c \in 0..(m.channels - 1), NEW k \in 0..(m.elem - 1)
             PROVE  T.data + T.elem * (y * T.element_strides[1] + x * T.element_strides[2]
                      + c * T.element_strides[3]) + k
                      \in (d..(d + n - 1)) \cap 0..WordMax
  BY <1>1 DEF TensorBytes
<1>4. PICK p \in Nat, q \in Nat, r \in Nat :
        /\ p = m.h \div m.elem /\ q = m.w \div m.elem /\ r = m.c \div m.elem
        /\ m.elem * p = m.h /\ m.elem * q = m.w /\ m.elem * r = m.c
  <2>1. m.h \div m.elem \in Nat /\ m.elem * (m.h \div m.elem) = m.h
    BY <1>2, <1>3, ExactQuotient
  <2>2. m.w \div m.elem \in Nat /\ m.elem * (m.w \div m.elem) = m.w
    BY <1>2, <1>3, ExactQuotient
  <2>3. m.c \div m.elem \in Nat /\ m.elem * (m.c \div m.elem) = m.c
    BY <1>2, <1>3, ExactQuotient
  <2> QED BY <2>1, <2>2, <2>3, Zenon
<1>5. y \in Nat /\ x \in Nat /\ c \in Nat
  BY DEF ImageRecords
<1>6. m.elem * (y * p + x * q + c * r) = y * m.h + x * m.w + c * m.c
  <2>1. m.elem * (y * p + x * q + c * r)
          = y * (m.elem * p) + x * (m.elem * q) + c * (m.elem * r)
    BY <1>3, <1>4, <1>5, ScaledOffset
  <2> QED BY <2>1, <1>4
<1>7. /\ Needed(m) \in Nat
      /\ y * m.h + x * m.w + c * m.c + k \in Nat
      /\ y * m.h + x * m.w + c * m.c + k < Needed(m)
  BY <1>3, ElementBound
<1>8. y * m.h \in Nat /\ x * m.w \in Nat /\ c * m.c \in Nat /\ k \in Nat
  BY <1>3, <1>5
<1>9. T.data + T.elem * (y * T.element_strides[1] + x * T.element_strides[2]
                      + c * T.element_strides[3]) + k
        = d + (y * m.h + x * m.w + c * m.c) + k
  BY <1>1, <1>4, <1>6
<1> HIDE DEF T
<1> QED BY <1>2, <1>7, <1>8, <1>9, WordAssumption

CloudRecords == [height : Nat, width : Nat, point_step : Nat, row_step : Nat,
                 fields : SUBSET [offset : Nat, elem : Nat, count : Nat]]

\* The fields of the points of a cloud that fits its block are in the block.
LEMMA CloudDataFits ==
  ASSUME NEW p \in CloudRecords, NEW n \in Nat, CloudFits(p, n)
  PROVE  \A o \in CloudBytes(p) : o \in Nat /\ o < n
<1> SUFFICES ASSUME NEW f \in p.fields, NEW y \in 0..(p.height - 1), NEW x \in 0..(p.width - 1),
                    NEW k \in 0..(f.elem * f.count - 1)
             PROVE  /\ y * p.row_step + x * p.point_step + f.offset + k \in Nat
                    /\ y * p.row_step + x * p.point_step + f.offset + k < n
  BY DEF CloudBytes
<1>1. /\ p.height \in Nat /\ p.width \in Nat /\ p.point_step \in Nat /\ p.row_step \in Nat
      /\ f.offset \in Nat /\ f.elem \in Nat /\ f.count \in Nat
  BY DEF CloudRecords
<1>2. PICK l \in Nat : l = f.elem * f.count
  BY <1>1
<1>3. l <= p.point_step - f.offset /\ k \in 0..(l - 1)
  BY <1>2 DEF CloudFits, FieldFits
<1>4. PICK b \in Nat, w \in Nat : b = p.height - 1 /\ w = x + 1 /\ y <= b /\ w <= p.width
  BY <1>1
<1>6. /\ y \in Nat /\ y * p.row_step \in Nat /\ b * p.row_step \in Nat
      /\ y * p.row_step <= b * p.row_step
  BY <1>1, <1>4, ProductGrows
<1>7. /\ w * p.point_step \in Nat /\ p.width * p.point_step \in Nat
      /\ w * p.point_step <= p.width * p.point_step
  BY <1>1, <1>4, ProductGrows
<1>8. x * p.point_step \in Nat /\ w * p.point_step = x * p.point_step + p.point_step
  BY <1>1, <1>4
<1>9. p.row_step * b = b * p.row_step /\ p.point_step * p.width = p.width * p.point_step
  BY <1>1, <1>4
<1>10. y * p.row_step + x * p.point_step + f.offset + k
         < b * p.row_step + p.width * p.point_step
  BY <1>1, <1>3, <1>6, <1>7, <1>8
<1>11. p.row_step * b + p.point_step * p.width <= n
  BY <1>4 DEF CloudFits
<1>12. PICK o \in Nat : o = y * p.row_step + x * p.point_step + f.offset + k
  BY <1>1, <1>2, <1>3, <1>6, <1>8
<1> QED BY <1>6, <1>7, <1>9, <1>10, <1>11, <1>12

----------------------------------------------------------------------------
(***************************************************************************)
(* Steps.                                                                  *)
(***************************************************************************)

\* What a step does for one map.
StepOf(i) ==
  \/ Close(i) \/ Consume(i) \/ Finalise(i) \/ Unwind(i)
  \/ \E m \in Messages : MapImage(i, m) \/ TypeImage(i, m) \/ TypeImageRejected(i, m)
  \/ \E p \in Clouds : TypeCloud(i, p) \/ TypeCloudRejected(i, p)
  \/ \E s \in Streams :
       \/ \E n \in Sizes : MapRead(i, s, n)
       \/ ExportOwnerFails(i, s) \/ ExportCapsuleFails(i, s)
       \/ \E major \in 0..1 : Export(i, s, major)

\* The objects of a map and its layout stay what they are.
SameAt(j) ==
  /\ state_'[j] = state_[j] /\ publication'[j] = publication[j] /\ context'[j] = context[j]
  /\ managed'[j] = managed[j] /\ capsule'[j] = capsule[j] /\ framework'[j] = framework[j]
  /\ read'[j] = read[j] /\ typed'[j] = typed[j]
  /\ size'[j] = size[j] /\ extent'[j] = extent[j] /\ layout'[j] = layout[j]
  /\ lease'[j] = lease[j]

\* The pointers of usable streams.
LEMMA PointerType ==
  ASSUME NEW s \in Streams
  PROVE  StreamPointer(s) \in 0..UintptrMax \cup {Refused}
BY MapsAssumption DEF StreamPointer, Streams, Refused

\* An exported read is bound to a usable stream.
LEMMA BoundType ==
  ASSUME NEW s \in Streams, StreamPointer(s) # Refused
  PROVE  StreamPointer(s) \in 0..UintptrMax
BY PointerType

\* Every step keeps the types.
LEMMA ExportTypeStep ==
  ASSUME ExportTypeOK, NEW i \in Maps, StepOf(i)
  PROVE  ExportTypeOK'
<1> USE DEF ExportTypeOK, Running, Set, Names, UsedNames, exportVars, earlyVars, layoutVars
<1>1. CASE Close(i)
  BY <1>1 DEF Close, ResetPublication
<1>2. CASE Consume(i)
  BY <1>2 DEF Consume
<1>3. CASE Finalise(i)
  <2>1. CASE CollectImage(i)
    BY <2>1 DEF CollectImage, ResetPublication
  <2>2. CASE CapsuleDestructor(i)
    <3>1. CASE capsule[i] \in Names
      BY <2>2, <3>1 DEF CapsuleDestructor, Deleter
    <3>2. CASE capsule[i] \notin Names
      BY <2>2, <3>2 DEF CapsuleDestructor
    <3> QED BY <3>1, <3>2
  <2>3. CASE FrameworkDeletes(i)
    BY <2>3 DEF FrameworkDeletes, Deleter
  <2>4. CASE CloseRead(i)
    BY <2>4 DEF CloseRead
  <2>5. CASE CloseTyped(i)
    BY <2>5 DEF CloseTyped
  <2> QED BY <1>3, <2>1, <2>2, <2>3, <2>4, <2>5 DEF Finalise
<1>4. CASE Unwind(i)
  BY <1>4 DEF Unwind
<1>5. ASSUME NEW m \in Messages, MapImage(i, m) PROVE ExportTypeOK'
  <2>1. size' \in [Maps -> 0..WordMax] /\ extent' \in [Maps -> Nat]
    BY <1>5, MapsAssumption DEF MapImage, MapBlock, Parsed
  <2> QED BY <1>5, <2>1 DEF MapImage
<1>6. ASSUME NEW m, NEW kind \in {"image", "cloud"}, Typed(i, kind, m) PROVE ExportTypeOK'
  BY <1>6 DEF Typed
<1>7. CASE Rejected(i)
  BY <1>7 DEF Rejected
<1>8. ASSUME NEW s \in Streams, NEW n \in Sizes, MapRead(i, s, n) PROVE ExportTypeOK'
  <2>1. StreamPointer(s) \in 0..UintptrMax
    BY <1>8, BoundType DEF MapRead
  <2>2. size' \in [Maps -> 0..WordMax] /\ extent' \in [Maps -> Nat]
    BY <1>8, MapsAssumption DEF MapRead, MapBlock
  <2> QED BY <1>8, <2>1, <2>2 DEF MapRead
<1>9. ASSUME NEW s \in Streams, ExportOwnerFails(i, s) PROVE ExportTypeOK'
  BY <1>9 DEF ExportOwnerFails, Exportable
<1>10. ASSUME NEW s \in Streams, ExportCapsuleFails(i, s) PROVE ExportTypeOK'
  BY <1>10 DEF ExportCapsuleFails, Exportable, Deleter
<1>11. ASSUME NEW s \in Streams, NEW major \in 0..1, Export(i, s, major) PROVE ExportTypeOK'
  <2>1. StreamPointer(s) \in 0..UintptrMax
    BY <1>11, BoundType DEF Export, Exportable
  <2> QED BY <1>11, <2>1 DEF Export, Exportable, VersionedName
<1> QED BY <1>1, <1>2, <1>3, <1>4, <1>5, <1>6, <1>7, <1>8, <1>9, <1>10, <1>11
        DEF StepOf, TypeImage, TypeImageRejected, TypeCloud, TypeCloudRejected

\* A step is about one map only.
LEMMA OthersStay ==
  ASSUME ExportTypeOK, NEW i \in Maps, StepOf(i), NEW j \in Maps, j # i
  PROVE  SameAt(j)
<1> USE DEF ExportTypeOK, SameAt, Set, exportVars, earlyVars, layoutVars
<1>1. CASE Close(i)
  BY <1>1 DEF Close, ResetPublication
<1>2. CASE Consume(i)
  BY <1>2 DEF Consume
<1>3. CASE Finalise(i)
  <2>1. CASE CollectImage(i)
    BY <2>1 DEF CollectImage, ResetPublication
  <2>2. CASE CapsuleDestructor(i)
    BY <2>2 DEF CapsuleDestructor, Deleter
  <2>3. CASE FrameworkDeletes(i)
    BY <2>3 DEF FrameworkDeletes, Deleter
  <2>4. CASE CloseRead(i)
    BY <2>4 DEF CloseRead
  <2>5. CASE CloseTyped(i)
    BY <2>5 DEF CloseTyped
  <2> QED BY <1>3, <2>1, <2>2, <2>3, <2>4, <2>5 DEF Finalise
<1>4. CASE Unwind(i)
  BY <1>4 DEF Unwind
<1>5. ASSUME NEW m \in Messages, MapImage(i, m) PROVE SameAt(j)
  BY <1>5 DEF MapImage, MapBlock
<1>6. ASSUME NEW m, NEW kind, Typed(i, kind, m) PROVE SameAt(j)
  BY <1>6 DEF Typed
<1>7. CASE Rejected(i)
  BY <1>7 DEF Rejected
<1>8. ASSUME NEW s \in Streams, NEW n \in Sizes, MapRead(i, s, n) PROVE SameAt(j)
  BY <1>8 DEF MapRead, MapBlock
<1>9. ASSUME NEW s \in Streams, ExportOwnerFails(i, s) PROVE SameAt(j)
  BY <1>9 DEF ExportOwnerFails
<1>10. ASSUME NEW s \in Streams, ExportCapsuleFails(i, s) PROVE SameAt(j)
  BY <1>10 DEF ExportCapsuleFails, Deleter
<1>11. ASSUME NEW s \in Streams, NEW major \in 0..1, Export(i, s, major) PROVE SameAt(j)
  BY <1>11 DEF Export
<1> QED BY <1>1, <1>2, <1>3, <1>4, <1>5, <1>6, <1>7, <1>8, <1>9, <1>10, <1>11
        DEF StepOf, TypeImage, TypeImageRejected, TypeCloud, TypeCloudRejected

\* What is said of a map stays true while nothing of it changes.
LEMMA SameHolds ==
  ASSUME NEW j \in Maps, SameAt(j)
  PROVE  /\ OwnerOf(j) => OwnerOf(j)'
         /\ LayoutOf(j) => LayoutOf(j)'
<1> USE DEF SameAt
<1>1. OwnerOf(j) => OwnerOf(j)'
  BY DEF OwnerOf, Unmapped, Published, Exported, Early, Bound, Viewed, Over
<1>2. LayoutOf(j) => LayoutOf(j)'
  BY DEF LayoutOf, ImageFits
<1> QED BY <1>1, <1>2

----------------------------------------------------------------------------
(***************************************************************************)
(* Ownership.  Every step hands the lease of its map on or releases it.    *)
(***************************************************************************)

\* Every step keeps what the objects of its map say about the lease.
LEMMA OwnerStep ==
  ASSUME ExportTypeOK, NEW i \in Maps, OwnerOf(i), UnwindsDeleted, StepOf(i)
  PROVE  OwnerOf(i)'
<1>0. /\ state_ \in [Maps -> {"none", "available", "consumed", "closed", "collected"}]
      /\ DOMAIN publication = Maps /\ DOMAIN context = Maps /\ DOMAIN managed = Maps
      /\ capsule \in [Maps -> Names \cup UsedNames \cup {"none", "destroyed"}]
      /\ DOMAIN framework = Maps /\ DOMAIN read = Maps /\ DOMAIN typed = Maps
      /\ lease \in [Maps -> {"none", "held", "released"}]
      /\ typed \in [Maps -> {"none", "image", "cloud", "empty"}]
      /\ read \in [Maps -> {"none", "bound", "empty"}]
  BY DEF ExportTypeOK
<1> USE <1>0 DEF OwnerOf, Unmapped, Published, Exported, Early, Bound, Viewed, Over,
         Names, UsedNames, Set, exportVars, earlyVars, layoutVars
<1>1. CASE Close(i)
  BY <1>1 DEF Close, ResetPublication
<1>2. CASE Consume(i)
  BY <1>2 DEF Consume
<1>3. CASE Finalise(i)
  <2>1. CASE CollectImage(i)
    BY <2>1 DEF CollectImage, ResetPublication
  <2>2. CASE CapsuleDestructor(i)
    BY <2>2 DEF CapsuleDestructor, Deleter
  <2>3. CASE FrameworkDeletes(i)
    BY <2>3 DEF FrameworkDeletes, Deleter
  <2>4. CASE CloseRead(i)
    BY <2>4 DEF CloseRead
  <2>5. CASE CloseTyped(i)
    BY <2>5 DEF CloseTyped
  <2> QED BY <1>3, <2>1, <2>2, <2>3, <2>4, <2>5 DEF Finalise
<1>4. CASE Unwind(i)
  BY <1>4 DEF Unwind, UnwindsDeleted
<1>5. ASSUME NEW m \in Messages, MapImage(i, m) PROVE OwnerOf(i)'
  BY <1>5 DEF MapImage
<1>6. ASSUME NEW m, NEW kind \in {"image", "cloud"}, Typed(i, kind, m) PROVE OwnerOf(i)'
  BY <1>6 DEF Typed
<1>7. CASE Rejected(i)
  BY <1>7 DEF Rejected
<1>8. ASSUME NEW s \in Streams, NEW n \in Sizes, MapRead(i, s, n) PROVE OwnerOf(i)'
  BY <1>8 DEF MapRead
<1>9. ASSUME NEW s \in Streams, ExportOwnerFails(i, s) PROVE OwnerOf(i)'
  BY <1>9 DEF ExportOwnerFails, Exportable
<1>10. ASSUME NEW s \in Streams, ExportCapsuleFails(i, s) PROVE OwnerOf(i)'
  BY <1>10 DEF ExportCapsuleFails, Exportable, Deleter
<1>11. ASSUME NEW s \in Streams, NEW major \in 0..1, Export(i, s, major)
       PROVE  OwnerOf(i)'
  BY <1>11 DEF Export, Exportable, VersionedName
<1> QED BY <1>1, <1>2, <1>3, <1>4, <1>5, <1>6, <1>7, <1>8, <1>9, <1>10, <1>11
        DEF StepOf, TypeImage, TypeImageRejected, TypeCloud, TypeCloudRejected


\* Only an unwinding frame deletes a context twice.
LEMMA UnwindStep ==
  ASSUME ExportTypeOK, NEW i \in Maps, OwnerOf(i), UnwindsDeleted, StepOf(i)
  PROVE  UnwindsDeleted'
<1> DEFINE Quiet == unwinding' = {} /\ ~undefined'
<1>q. Quiet => UnwindsDeleted'
  BY DEF UnwindsDeleted
<1>t. /\ DOMAIN context = Maps /\ DOMAIN capsule = Maps
      /\ capsule[i] \in Names => context[i] = "live"
      /\ framework[i] = "holds" => context[i] = "live"
      /\ publication[i] = "valid" => context[i] = "none" /\ capsule[i] = "none"
  BY DEF ExportTypeOK, OwnerOf, Unmapped, Published, Exported, Early, Bound, Viewed, Over, Names
<1> USE <1>t, <1>q DEF Running, Set
<1> HIDE DEF Quiet
<1>1. CASE Close(i)
  BY <1>1 DEF Close, Quiet
<1>2. CASE Consume(i)
  BY <1>2 DEF Consume, Quiet
<1>3. CASE Finalise(i)
  <2>1. CASE CollectImage(i)
    BY <2>1 DEF CollectImage, Quiet
  <2>2. CASE CapsuleDestructor(i)
    <3>1. CASE capsule[i] \in Names
      BY <2>2, <3>1 DEF CapsuleDestructor, Deleter, Quiet
    <3>2. CASE capsule[i] \notin Names
      BY <2>2, <3>2 DEF CapsuleDestructor, Quiet
    <3> QED BY <3>1, <3>2
  <2>3. CASE FrameworkDeletes(i)
    BY <2>3 DEF FrameworkDeletes, Deleter, Quiet
  <2>4. CASE CloseRead(i)
    BY <2>4 DEF CloseRead, Quiet
  <2>5. CASE CloseTyped(i)
    BY <2>5 DEF CloseTyped, Quiet
  <2> QED BY <1>3, <2>1, <2>2, <2>3, <2>4, <2>5 DEF Finalise
<1>4. CASE Unwind(i)
  BY <1>4 DEF Unwind, UnwindsDeleted
<1>5. ASSUME NEW m \in Messages, MapImage(i, m) PROVE UnwindsDeleted'
  BY <1>5 DEF MapImage, Quiet
<1>6. ASSUME NEW m, NEW kind, Typed(i, kind, m) PROVE UnwindsDeleted'
  BY <1>6 DEF Typed, Quiet
<1>7. CASE Rejected(i)
  BY <1>7 DEF Rejected, Quiet
<1>8. ASSUME NEW s \in Streams, NEW n \in Sizes, MapRead(i, s, n)
      PROVE  UnwindsDeleted'
  BY <1>8 DEF MapRead, Quiet
<1>9. ASSUME NEW s \in Streams, ExportOwnerFails(i, s) PROVE UnwindsDeleted'
  BY <1>9 DEF ExportOwnerFails, Exportable, Quiet
<1>10. ASSUME NEW s \in Streams, ExportCapsuleFails(i, s) PROVE UnwindsDeleted'
  BY <1>10 DEF ExportCapsuleFails, Exportable, Deleter, UnwindsDeleted
<1>11. ASSUME NEW s \in Streams, NEW major \in 0..1, Export(i, s, major)
       PROVE  UnwindsDeleted'
  BY <1>11 DEF Export, Exportable, Quiet
<1> QED BY <1>1, <1>2, <1>3, <1>4, <1>5, <1>6, <1>7, <1>8, <1>9, <1>10, <1>11
        DEF StepOf, TypeImage, TypeImageRejected, TypeCloud, TypeCloudRejected

----------------------------------------------------------------------------
(***************************************************************************)
(* Layouts.  A map gets the layout of a message only after its checks.     *)
(***************************************************************************)

\* The layout of a map is checked again whenever its use changes.
LEMMA LayoutStep ==
  ASSUME ExportTypeOK, NEW i \in Maps, OwnerOf(i), LayoutOf(i), StepOf(i)
  PROVE  LayoutOf(i)'
<1>t. /\ state_ \in [Maps -> {"none", "available", "consumed", "closed", "collected"}]
      /\ DOMAIN publication = Maps /\ DOMAIN capsule = Maps /\ DOMAIN framework = Maps
      /\ DOMAIN typed = Maps /\ DOMAIN size = Maps /\ DOMAIN layout = Maps
      /\ lease[i] = "none" => Unmapped(i)
      /\ read[i] = "bound" => Bound(i)
      /\ publication[i] = "valid" => Published(i)
  BY DEF ExportTypeOK, OwnerOf, Unmapped, Published, Exported, Early, Bound, Viewed, Over, Names
\* Nothing that is checked of the layout changes, or there is less to say.
<1> DEFINE Less == /\ size'[i] = size[i] /\ layout'[i] = layout[i]
                   /\ publication'[i] = "valid" => publication[i] = "valid"
                   /\ framework'[i] = "holds" \/ capsule'[i] \in Names =>
                        framework[i] = "holds" \/ capsule[i] \in Names
                   /\ typed'[i] \in {"image", "cloud"} => typed'[i] = typed[i]
<1>l. Less => LayoutOf(i)'
  BY DEF LayoutOf, ImageFits
<1> HIDE DEF Less
<1> USE <1>t, <1>l DEF Set, Names, UsedNames, exportVars, earlyVars, layoutVars
<1>1. CASE Close(i)
  BY <1>1 DEF Close, ResetPublication, Less
<1>2. CASE Consume(i)
  BY <1>2 DEF Consume, Less
<1>3. CASE Finalise(i)
  <2>1. CASE CollectImage(i)
    BY <2>1 DEF CollectImage, ResetPublication, Less
  <2>2. CASE CapsuleDestructor(i)
    BY <2>2 DEF CapsuleDestructor, Less
  <2>3. CASE FrameworkDeletes(i)
    BY <2>3 DEF FrameworkDeletes, Less
  <2>4. CASE CloseRead(i)
    BY <2>4 DEF CloseRead, Less
  <2>5. CASE CloseTyped(i)
    BY <2>5 DEF CloseTyped, Less
  <2> QED BY <1>3, <2>1, <2>2, <2>3, <2>4, <2>5 DEF Finalise
<1>4. CASE Unwind(i)
  BY <1>4 DEF Unwind, Less
<1>5. ASSUME NEW m \in Messages, MapImage(i, m) PROVE LayoutOf(i)'
  BY <1>5 DEF MapImage, MapBlock, LayoutOf, Unmapped
<1>6. ASSUME NEW m \in Messages, TypeImage(i, m) PROVE LayoutOf(i)'
  BY <1>6 DEF TypeImage, TypeableImage, Typed, LayoutOf, ImageFits, Bound, Early
<1>7. ASSUME NEW p \in Clouds, TypeCloud(i, p) PROVE LayoutOf(i)'
  BY <1>7 DEF TypeCloud, Typed, LayoutOf, Bound, Early
<1>8. CASE Rejected(i)
  BY <1>8 DEF Rejected, Less
<1>9. ASSUME NEW s \in Streams, NEW n \in Sizes, MapRead(i, s, n)
      PROVE  LayoutOf(i)'
  BY <1>9 DEF MapRead, MapBlock, LayoutOf, Unmapped
<1>10. ASSUME NEW s \in Streams, ExportOwnerFails(i, s) PROVE LayoutOf(i)'
  BY <1>10 DEF ExportOwnerFails, Less
<1>11. ASSUME NEW s \in Streams, ExportCapsuleFails(i, s) PROVE LayoutOf(i)'
  BY <1>11 DEF ExportCapsuleFails, Less
<1>12. ASSUME NEW s \in Streams, NEW major \in 0..1, Export(i, s, major)
       PROVE  LayoutOf(i)'
  <2>1. /\ publication[i] = "valid" /\ Projectable(layout[i], Data, size[i])
        /\ publication'[i] = "none" /\ layout'[i] = Tensor(layout[i], Data)
        /\ size' = size /\ typed' = typed
    BY <1>12 DEF Export, Exportable
  <2>2. layout[i] \in Messages /\ Parsed(layout[i]) /\ typed[i] = "none"
    BY <2>1 DEF LayoutOf, Published
  <2> QED BY <2>1, <2>2 DEF LayoutOf
<1> QED BY <1>1, <1>2, <1>3, <1>4, <1>5, <1>6, <1>7, <1>8, <1>9, <1>10, <1>11, <1>12
        DEF StepOf, TypeImageRejected, TypeCloudRejected

----------------------------------------------------------------------------
(***************************************************************************)
(* The theorems.                                                           *)
(***************************************************************************)

\* Nothing is mapped in the beginning.
LEMMA ExportInitInv == Init => ExportInv
<1> SUFFICES ASSUME Init PROVE ExportInv
  OBVIOUS
<1>1. ExportTypeOK
  <2>1. 0 \in 0..UintptrMax /\ 0 \in 0..WordMax
    BY MapsAssumption, WordAssumption
  <2>2. /\ layout = [i \in Maps |-> NoLayout]
        /\ layout = [i \in Maps |-> layout[i]]
    BY DEF Init
  <2> QED BY <2>1, <2>2 DEF Init, ExportTypeOK, Names, UsedNames
<1>2. UnwindsDeleted
  <2>1. unwinding = {} /\ ~undefined
    BY DEF Init
  <2> QED BY <2>1 DEF UnwindsDeleted
<1>3. ASSUME NEW i \in Maps PROVE OwnerOf(i) /\ LayoutOf(i)
  BY DEF Init, OwnerOf, Unmapped, LayoutOf, Names
<1> QED BY <1>1, <1>2, <1>3 DEF ExportInv, AllOwned, AllLayouts

\* Every step keeps the invariant.
LEMMA ExportNextInv == ExportInv /\ [Next]_vars => ExportInv'
<1> SUFFICES ASSUME ExportInv, [Next]_vars PROVE ExportInv'
  OBVIOUS
<1>0. ExportTypeOK /\ AllOwned /\ UnwindsDeleted /\ AllLayouts
  BY DEF ExportInv
<1>1. CASE UNCHANGED vars
  <2>1. ExportTypeOK' /\ UnwindsDeleted'
    BY <1>0, <1>1 DEF vars, ExportTypeOK, UnwindsDeleted
  <2>2. ASSUME NEW j \in Maps PROVE OwnerOf(j)' /\ LayoutOf(j)'
    <3>1. SameAt(j)
      BY <1>1 DEF vars, SameAt
    <3> QED BY <1>0, <3>1, SameHolds DEF AllOwned, AllLayouts
  <2> QED BY <2>1, <2>2 DEF ExportInv, AllOwned, AllLayouts
<1>2. CASE Next
  <2>1. PICK i \in Maps : StepOf(i)
    BY <1>2 DEF Next, StepOf
  <2>2. OwnerOf(i) /\ LayoutOf(i)
    BY <1>0 DEF AllOwned, AllLayouts
  <2>3. ExportTypeOK'
    BY <1>0, <2>1, ExportTypeStep
  <2>4. UnwindsDeleted'
    BY <1>0, <2>1, <2>2, UnwindStep
  <2>5. OwnerOf(i)' /\ LayoutOf(i)'
    BY <1>0, <2>1, <2>2, OwnerStep, LayoutStep
  <2>6. ASSUME NEW j \in Maps PROVE OwnerOf(j)' /\ LayoutOf(j)'
    <3>1. CASE j = i
      BY <3>1, <2>5
    <3>2. CASE j # i
      <4>1. SameAt(j)
        BY <1>0, <2>1, <3>2, OthersStay
      <4> QED BY <1>0, <4>1, SameHolds DEF AllOwned, AllLayouts
    <3> QED BY <3>1, <3>2
  <2> QED BY <2>3, <2>4, <2>6 DEF ExportInv, AllOwned, AllLayouts
<1> QED BY <1>1, <1>2

\* The inductive invariant of the bindings: who owns the lease of each map, and
\* which checks its layout has passed.
THEOREM ExportInvariant == Spec => []ExportInv
BY ExportInitInv, ExportNextInv, PTL DEF Spec

\* The variables of the bindings have their types.
THEOREM ExportTypeCorrect == Spec => []ExportTypeOK
<1>1. ExportInv => ExportTypeOK
  BY DEF ExportInv
<1> QED BY <1>1, ExportInvariant, PTL

\* Through mapping, export, typing and every failure, the lease of a map has one
\* owner until it is released; a context is only deleted twice where the capsule of
\* its export could not be created.
THEOREM OneOwnerPerLease == Spec => []LeaseHasOneOwner
<1>1. ExportInv => LeaseHasOneOwner
  <2> SUFFICES ASSUME ExportInv, NEW i \in Maps
               PROVE  Cardinality(Owners(i)) = IF lease[i] = "held" THEN 1 ELSE 0
    BY DEF LeaseHasOneOwner, ExportInv, UnwindsDeleted
  <2>1. OwnerOf(i) /\ lease[i] \in {"none", "held", "released"}
    BY DEF ExportInv, AllOwned, ExportTypeOK
  <2>2. CASE lease[i] = "held"
    <3>1. PICK o \in 1..4 : Owners(i) = {o}
      <4>1. CASE Published(i)
        <5>1. Owners(i) = {1}
          BY <4>1 DEF Owners, Published
        <5> QED BY <5>1
      <4>2. CASE Exported(i)
        <5>1. Owners(i) = {2}
          BY <4>2 DEF Owners, Exported
        <5> QED BY <5>1
      <4>3. CASE Bound(i)
        <5>1. Owners(i) = {3}
          BY <4>3 DEF Owners, Bound, Early
        <5> QED BY <5>1
      <4>4. CASE Viewed(i)
        <5>1. Owners(i) = {4}
          BY <4>4 DEF Owners, Viewed, Early
        <5> QED BY <5>1
      <4> QED BY <2>1, <2>2, <4>1, <4>2, <4>3, <4>4 DEF OwnerOf
    <3> QED BY <2>2, <3>1, FS_Singleton
  <2>3. CASE lease[i] # "held"
    <3>1. Owners(i) = {}
      BY <2>1, <2>3 DEF OwnerOf, Unmapped, Over, Owners
    <3> QED BY <2>3, <3>1, FS_EmptySet
  <2> QED BY <2>2, <2>3
<1> QED BY <1>1, ExportInvariant, PTL

\* Whatever has been closed or collected and whichever messages are combined, the
\* data of a tensor or a view that can be reached lies in the byte_size bytes that
\* the mapped message gave the block, so in the block itself if that byte_size is
\* true, and the block is leased.
THEOREM DataIsLeased == Spec => []ReachableDataIsLeased
<1>1. ExportInv => ReachableDataIsLeased
  <2> SUFFICES ASSUME ExportInv, NEW i \in Maps
      PROVE
        /\ framework[i] = "holds" \/ capsule[i] \in Names =>
             /\ context[i] = "live" /\ managed[i] = "live" /\ lease[i] = "held"
             /\ \A a \in TensorBytes(layout[i]) :
                  a \in Data..WordMax /\ Described(i, a - Data)
        /\ typed[i] = "image" =>
             lease[i] = "held" /\ \A o \in ImageBytes(layout[i]) : Described(i, o)
        /\ typed[i] = "cloud" =>
             lease[i] = "held" /\ \A o \in CloudBytes(layout[i]) : Described(i, o)
    BY DEF ReachableDataIsLeased
  <2>1. OwnerOf(i) /\ LayoutOf(i)
    BY DEF ExportInv, AllOwned, AllLayouts
  <2>2. /\ size[i] \in Nat /\ extent[i] \in Nat /\ Data \in Nat /\ WordMax \in Nat
        /\ lease[i] \in {"none", "held", "released"}
    BY MapsAssumption, WordAssumption DEF ExportInv, ExportTypeOK
  <2>3. Messages \subseteq ImageRecords /\ Clouds \subseteq CloudRecords
    BY MessagesAssumption DEF ImageRecords, CloudRecords
  <2>d. \A o \in Int : o < size[i] => Described(i, o)
    BY <2>2 DEF Described
  <2>4. ASSUME framework[i] = "holds" \/ capsule[i] \in Names
        PROVE  /\ context[i] = "live" /\ managed[i] = "live" /\ lease[i] = "held"
               /\ \A a \in TensorBytes(layout[i]) :
                    a \in Data..WordMax /\ Described(i, a - Data)
    <3>1. context[i] = "live" /\ managed[i] = "live" /\ lease[i] = "held"
      BY <2>1, <2>2, <2>4
         DEF OwnerOf, Unmapped, Published, Exported, Early, Bound, Viewed, Over, Names
    <3>2. PICK m \in ImageRecords : /\ Parsed(m) /\ Projectable(m, Data, size[i])
                                    /\ layout[i] = Tensor(m, Data)
      BY <2>1, <2>3, <2>4 DEF LayoutOf
    <3>3. TensorBytes(layout[i]) \subseteq (Data..(Data + size[i] - 1)) \cap 0..WordMax
      BY <2>2, <3>2, TensorDataFits
    <3>4. ASSUME NEW a \in TensorBytes(layout[i])
          PROVE  a \in Data..WordMax /\ Described(i, a - Data)
      <4>1. a \in Data..(Data + size[i] - 1) /\ a \in 0..WordMax
        BY <3>3
      <4>2. a \in Data..WordMax /\ a - Data \in Int /\ a - Data < size[i]
        BY <2>2, <4>1
      <4> QED BY <2>d, <4>2
    <3> QED BY <3>1, <3>4
  <2>5. ASSUME typed[i] = "image"
        PROVE  lease[i] = "held" /\ \A o \in ImageBytes(layout[i]) : Described(i, o)
    <3>1. lease[i] = "held"
      BY <2>1, <2>2, <2>5 DEF OwnerOf, Unmapped, Over
    <3>2. PICK m \in ImageRecords : m = layout[i] /\ Parsed(m) /\ ImageFits(i, m)
      BY <2>1, <2>3, <2>5 DEF LayoutOf
    <3>3. m.h >= 0 /\ m.w >= 0 /\ m.c >= 0
      BY <3>2, WordAssumption DEF Parsed, Strides
    <3>4. Needed(m) <= size[i]
      BY <3>2 DEF ImageFits, sanity_check, Needed, ImageRecords
    <3>5. \A o \in ImageBytes(m) : o \in Int /\ o < size[i]
      BY <2>2, <3>3, <3>4, ImageDataFits
    <3> QED BY <2>d, <3>1, <3>2, <3>5
  <2>6. ASSUME typed[i] = "cloud"
        PROVE  lease[i] = "held" /\ \A o \in CloudBytes(layout[i]) : Described(i, o)
    <3>1. lease[i] = "held"
      BY <2>1, <2>2, <2>6 DEF OwnerOf, Unmapped, Over
    <3>2. layout[i] \in CloudRecords /\ CloudFits(layout[i], size[i])
      BY <2>1, <2>3, <2>6 DEF LayoutOf
    <3>3. \A o \in CloudBytes(layout[i]) : o \in Int /\ o < size[i]
      BY <2>2, <3>2, CloudDataFits
    <3> QED BY <2>d, <3>1, <3>3
  <2> QED BY <2>4, <2>5, <2>6
<1> QED BY <1>1, ExportInvariant, PTL

----------------------------------------------------------------------------
(***************************************************************************)
(* The nodes: the invariant.                                               *)
(***************************************************************************)
Stages == {"idle", "state", "device", "create", "scratch", "read", "check", "room",
           "calls", "down"}
Works  == [op : {"fill", "clear", "sum"}, dst : Ids \cup {Null}, src : Ids \cup {Null},
           image : Images, frame : Nat]
Allocations == [bytes : Int, place : Int, holds : SUBSET Nat]

NodeTypeOK ==
  /\ node \in Nodes /\ pc \in Stages /\ next \in Nat /\ image \in Images
  /\ frames \in Nat /\ received \in Nat
  /\ device \in Nat /\ device_id \in Nat \cup {-1} /\ stream \in Nat \cup {NoStream}
  /\ scratch \in Ids \cup {Null} /\ dest \in Ids \cup {Null} /\ known \in Seq(Nat)
  /\ heap \in [Ids -> Allocations] /\ gpu \in Seq(Works) /\ host \subseteq Nat

\* The allocations are those of the fields, and the fields share none.
BuffersOwned ==
  /\ \A a \in Ids : heap[a].bytes # -1 <=> a \in {scratch, dest}
  /\ scratch = dest => scratch = Null
  /\ ~OnDevice => scratch = Null
  /\ node = "preview" /\ pc # "calls" => dest = Null
  /\ pc = "down" => scratch = Null /\ dest = Null

\* What the nodes with a scalar have by the stage of the callback, and where.
ScratchFollowsStream ==
  /\ pc = "scratch" => OnDevice
  /\ OnDevice =>
       /\ scratch = Null <=> stream = NoStream \/ pc = "scratch"
       /\ pc = "scratch" => stream # NoStream
       /\ scratch = Null => dest = Null /\ gpu = <<>>
       /\ pc \in {"device", "create"} => scratch = Null
       /\ pc \in {"create", "scratch"} => device = image.device
       /\ pc \in {"read", "check", "room", "calls"} =>
            scratch # Null /\ device_id = image.device
       /\ scratch # Null => device = device_id /\ heap[scratch].place = device
       /\ dest # Null => heap[dest].place = device

\* What Accepts asks of the layout.
Processable(i) ==
  /\ sanity_check(i)
  /\ ~Transport => SupportedRgba8(i)

\* The buffer of the result is as large as what is remembered of it says.
KnownFits ==
  /\ OnDevice /\ dest # Null =>
       \A i \in Images : known = Room(i).known => Room(i).bytes <= heap[dest].bytes
  /\ Transport /\ known # <<>> => dest # Null /\ heap[dest].bytes = known[1]
  /\ ~OnDevice /\ dest # Null => heap[dest].place = Host

\* It is large enough for the image whose calls are being made.
RoomFits ==
  /\ pc \in {"room", "calls"} => Processable(image)
  /\ pc = "calls" =>
       /\ dest # Null /\ Room(image).bytes <= heap[dest].bytes
       /\ OnDevice => known = Room(image).known

\* Pending work is for the current buffers, of images that were accepted on the
\* device of the buffers.  Without a scalar, work is only left in front of the wait.
WorkOf(work) ==
  /\ work.op = "fill" =>
       /\ work.dst = dest /\ dest # Null
       /\ Processable(work.image) /\ Room(work.image).bytes <= heap[dest].bytes
  /\ work.op # "fill" => work.dst = scratch /\ scratch # Null
  /\ work.op = "sum" => work.src = dest /\ dest # Null
  /\ OnDevice => work.image.device = device_id

PendingOwned ==
  /\ \A k \in 1..Len(gpu) : WorkOf(gpu[k])
  /\ ~OnDevice /\ gpu # <<>> => Call = "sync"

\* The GPU work of a callback in order, and how much of it has been issued before
\* the call with number n.
Program == CASE node = "encoder"   -> <<"clear", "fill", "sum">>
             [] node = "inference" -> <<"fill", "clear", "sum">>
             [] OTHER              -> <<"fill">>
Issued(n) == CASE node = "encoder"   -> IF n < 3 THEN 0 ELSE IF n < 5 THEN 1
                                        ELSE IF n < 6 THEN 2 ELSE 3
               [] node = "inference" -> IF n < 4 THEN 0 ELSE IF n < 5 THEN 1
                                        ELSE IF n < 6 THEN 2 ELSE 3
               [] node = "preview"   -> IF n < 3 THEN 0 ELSE 1
               [] Transport          -> IF n < 2 THEN 0 ELSE 1
FillAt  == IF node = "encoder" THEN 2 ELSE 1
ClearAt == IF node = "encoder" THEN 1 ELSE 2
SumAt   == 3

\* With work q left before the call number n, the stream has executed number k of
\* the callback's work.
Executed(k, n, q) == Len(q) + k <= Issued(n)

\* The last of the pending work q is that of the callback, in the order of its
\* calls; what has been executed of it has left its result in the buffers.
InOrder(n, q, result, scalar, copied) ==
  /\ n \in 1..Len(Calls)
  /\ \A d \in 0..2 : d < Issued(n) /\ d < Len(q) =>
       q[Len(q) - d].op = Program[Issued(n) - d] /\ q[Len(q) - d].frame = frames
  /\ Executed(FillAt, n, q) => result = {frames}
  /\ OnDevice /\ Executed(ClearAt, n, q) /\ ~Executed(SumAt, n, q) => scalar = {}
  /\ OnDevice /\ Executed(SumAt, n, q) => scalar = {frames}
  /\ Calls[n] \in {"copy", "publish"} => q = <<>>
  /\ Calls[n] = "publish" /\ OnDevice => copied = {frames}

CallsInOrder ==
  pc = "calls" => InOrder(next, gpu, heap[dest].holds, heap[scratch].holds, host)

NextIsFirst == pc \notin {"calls", "down"} => next = 1

NodeInv ==
  /\ NodeTypeOK /\ BuffersOwned /\ ScratchFollowsStream /\ KnownFits /\ RoomFits
  /\ PendingOwned /\ CallsInOrder /\ NextIsFirst /\ ReportIsOfItsImage

----------------------------------------------------------------------------
(***************************************************************************)
(* What the nodes read, and the room they make.                            *)
(***************************************************************************)

\* The records of images are those the layout lemmas are about.
LEMMA ImageFields ==
  ASSUME NEW i \in Images
  PROVE  /\ i \in ImageRecords
         /\ i.device \in Nat /\ i.rows \in Nat /\ i.cols \in Nat /\ i.channels \in Nat
         /\ i.h \in Nat /\ i.w \in Nat /\ i.c \in Nat /\ i.elem \in Nat /\ i.bytes \in Nat
BY ImagesAssumption DEF ImageRecords

\* The pixels of rows and columns that an RGBA image has are in its block.
LEMMA PixelsFit ==
  ASSUME NEW i \in Images, sanity_check(i), SupportedRgba8(i),
         NEW xs, xs \subseteq 0..(i.cols - 1), NEW ys, ys \subseteq 0..(i.rows - 1)
  PROVE  \A o \in Pixels(i, xs, ys) : o < i.bytes
<1> SUFFICES ASSUME NEW y \in ys, NEW x \in xs, NEW k \in 0..2
             PROVE  y * i.h + x * 4 + k < i.bytes
  BY DEF Pixels
<1>1. /\ y * i.h + x * i.w + k * i.c + 0 \in ImageBytes(i)
  <2>1. y \in 0..(i.rows - 1) /\ x \in 0..(i.cols - 1)
        /\ k \in 0..(i.channels - 1) /\ 0 \in 0..(i.elem - 1)
    BY DEF SupportedRgba8
  <2> QED BY <2>1 DEF ImageBytes
<1>2. y * i.h + x * i.w + k * i.c + 0 < i.bytes
  BY <1>1, ImageFields, ImageDataFits DEF sanity_check
<1>3. i.w = 4 /\ i.c = 1 /\ k * 1 = k /\ y * i.h \in Nat /\ x * 4 \in Nat
  BY ImageFields DEF SupportedRgba8
<1> QED BY <1>2, <1>3

\* What the kernels and copies of a node read is in the block.
LEMMA ReadsFit ==
  ASSUME node \in Nodes, NEW i \in Images, Processable(i)
  PROVE  \A o \in Reads(i) : o < i.bytes
<1> USE DEF Nodes
<1>0. /\ i.rows \in Nat /\ i.cols \in Nat /\ i.h \in Nat /\ i.bytes \in Nat
      /\ i.rows > 0 /\ i.cols > 0 /\ sanity_check(i)
  BY ImageFields DEF Processable, sanity_check
<1>1. CASE node = "encoder"
  <2>1. /\ 0..(2 * (i.cols \div 2) - 1) \subseteq 0..(i.cols - 1)
        /\ 0..(2 * (i.rows \div 2) - 1) \subseteq 0..(i.rows - 1)
    BY <1>0
  <2> QED BY <1>0, <1>1, <2>1, PixelsFit DEF Reads, LumaReads, Processable, Transport
<1>2. CASE node = "inference"
  BY <1>0, <1>2, PixelsFit DEF Reads, GrayReads, Processable, Transport
<1>3. CASE node = "preview"
  <2> SUFFICES ASSUME NEW y \in 0..(i.rows - 1), NEW b \in 0..(Step(i) - 1)
               PROVE  y * i.h + b < i.bytes
    BY <1>3 DEF Reads, Transport, PreviewReads
  <2>1. SupportedRgba8(i)
    BY <1>3 DEF Processable, Transport
  <2>2. Step(i) <= i.cols * 4
    BY <1>0, StepAssumption DEF Step
  <2>3. PICK x \in 0..(i.cols - 1), c \in 0..3 : b = x * 4 + c
    <3>1. b \in Nat /\ b < i.cols * 4
      <4>1. Step(i) \in Nat
        BY <1>0, StepAssumption DEF Step
      <4> QED BY <1>0, <2>2, <4>1
    <3>2. PICK x \in Int, c \in Int : x = b \div 4 /\ c = b % 4
      BY <3>1
    <3>3. c \in 0..3
      BY <3>1, <3>2
    <3>4. b = 4 * x + c
      BY <3>1, <3>2
    <3>5. x \in 0..(i.cols - 1)
      BY <1>0, <3>1, <3>3, <3>4
    <3> QED BY <3>3, <3>4, <3>5
  <2>4. y * i.h + x * i.w + c * i.c + 0 \in ImageBytes(i)
    <3>1. c \in 0..(i.channels - 1) /\ 0 \in 0..(i.elem - 1)
      BY <2>1 DEF SupportedRgba8
    <3> QED BY <3>1 DEF ImageBytes
  <2>5. y * i.h + x * i.w + c * i.c + 0 < i.bytes
    BY <1>0, <2>4, ImageFields, ImageDataFits DEF sanity_check
  <2>6. i.w = 4 /\ i.c = 1 /\ c * 1 = c /\ y * i.h \in Nat /\ x * 4 \in Nat
    BY <1>0, <2>1 DEF SupportedRgba8
  <2> QED BY <2>3, <2>5, <2>6
<1>4. CASE Transport
  <2>1. Reads(i) = TransportReads(i)
    BY <1>4 DEF Reads, Transport
  <2> QED BY <1>0, <2>1 DEF TransportReads
<1> QED BY <1>1, <1>2, <1>3, <1>4 DEF Transport

\* The room for a result is a number of bytes, and what is remembered numbers too.
LEMMA RoomType ==
  ASSUME node \in Nodes, NEW i \in Images
  PROVE  Room(i).bytes \in Nat /\ Room(i).known \in Seq(Nat)
<1> USE DEF Nodes
<1>0. /\ i.rows \in Nat /\ i.cols \in Nat /\ i.bytes \in Nat
      /\ i.cols \div 2 \in Nat /\ i.rows \div 2 \in Nat
      /\ (i.cols \div 2) * (i.rows \div 2) \in Nat
      /\ i.rows * i.cols \in Nat
      /\ Step(i) \in Nat
  BY ImageFields, StepAssumption DEF Step
<1>1. CASE node = "encoder"
  <2>1. Room(i) = EncoderRoom(i)
    BY <1>1 DEF Room, Transport
  <2>2. <<i.cols \div 2, i.rows \div 2>> \in Seq(Nat)
    BY <1>0
  <2> QED BY <1>0, <2>1, <2>2 DEF EncoderRoom
<1>2. CASE node = "inference"
  <2>1. Room(i) = InferenceRoom(i)
    BY <1>2 DEF Room, Transport
  <2>2. <<i.rows * i.cols>> \in Seq(Nat)
    BY <1>0
  <2> QED BY <1>0, <2>1, <2>2 DEF InferenceRoom
<1>3. CASE node = "preview"
  <2>1. Room(i) = PreviewRoom(i)
    BY <1>3 DEF Room, Transport
  <2>2. PreviewRoom(i).bytes = Step(i) * i.rows /\ PreviewRoom(i).known = <<>>
    BY DEF PreviewRoom
  <2>3. Step(i) * i.rows \in Nat
    BY <1>0
  <2> QED BY <2>1, <2>2, <2>3
<1>4. CASE Transport
  <2>1. Room(i) = TransportRoom(i)
    BY <1>4 DEF Room, Transport
  <2> QED BY <1>0, <2>1 DEF TransportRoom
<1> QED BY <1>1, <1>2, <1>3, <1>4 DEF Transport

\* What a node with a scalar remembers determines the room.
LEMMA KnownIsRoom ==
  ASSUME node \in Nodes, OnDevice, NEW i \in Images, NEW j \in Images,
         Room(i).known = Room(j).known
  PROVE  Room(i).bytes = Room(j).bytes
<1>1. CASE node = "encoder"
  <2>1. i.cols \div 2 = j.cols \div 2 /\ i.rows \div 2 = j.rows \div 2
    <3>1. <<i.cols \div 2, i.rows \div 2>> = <<j.cols \div 2, j.rows \div 2>>
      BY <1>1 DEF Room, Transport, EncoderRoom
    <3> QED BY <3>1
  <2> QED BY <1>1, <2>1 DEF Room, Transport, EncoderRoom
<1>2. CASE node = "inference"
  <2>1. i.rows * i.cols = j.rows * j.cols
    <3>1. <<i.rows * i.cols>> = <<j.rows * j.cols>>
      BY <1>2 DEF Room, Transport, InferenceRoom
    <3> QED BY <3>1
  <2> QED BY <1>2, <2>1 DEF Room, Transport, InferenceRoom
<1> QED BY <1>1, <1>2 DEF OnDevice

\* The room of a transport is the block.
LEMMA TransportRoomIs ==
  ASSUME Transport, NEW i
  PROVE  Room(i).bytes = i.bytes /\ Room(i).known = <<i.bytes>>
<1>1. Room(i) = TransportRoom(i)
  BY DEF Room, Transport
<1> QED BY <1>1 DEF TransportRoom

\* Each node is of one kind.
LEMMA Kinds ==
  ASSUME node \in Nodes
  PROVE  /\ OnDevice <=> node \in {"encoder", "inference"}
         /\ Transport <=> node \in {"raw", "compressed"}
         /\ ~OnDevice <=> node = "preview" \/ Transport
BY DEF Nodes, OnDevice, Transport

\* Accepting an image includes the test of its layout.
LEMMA AcceptsProcessable ==
  ASSUME node \in Nodes, NEW i, Accepts(i)
  PROVE  Processable(i)
<1>1. CASE Transport
  BY <1>1 DEF Accepts, Transport, TransportAccepts, Processable
<1>2. CASE ~Transport
  BY <1>2 DEF Nodes, Accepts, Transport, EncoderAccepts, InferenceAccepts, PreviewAccepts,
              Processable
<1> QED BY <1>1, <1>2


----------------------------------------------------------------------------
(***************************************************************************)
(* The nodes: what calls do to buffers and queue.                          *)
(***************************************************************************)

\* Returning leaves the buffers alone; the preview's message goes.
LEMMA ReturnDoes ==
  ASSUME NodeTypeOK, Return
  PROVE  /\ pc' = "idle" /\ next' = 1 /\ scratch' = scratch /\ known' = known
         /\ node = "preview" =>
              dest' = Null /\ heap' = [a \in Ids |-> IF a = dest THEN Free ELSE heap[a]]
         /\ node # "preview" => dest' = dest /\ heap' = heap
<1>1. CASE node = "preview"
  <2>1. Freed(heap, {dest}) = [a \in Ids |-> IF a = dest THEN Free ELSE heap[a]]
    BY DEF Freed
  <2> QED BY <1>1, <2>1 DEF Return
<1>2. CASE node # "preview"
  BY <1>2 DEF Return, bufferVars
<1> QED BY <1>1, <1>2

\* Pending work is as typed.
LEMMA PendingType ==
  ASSUME NodeTypeOK, NEW k \in 1..Len(gpu)
  PROVE  /\ gpu[k] \in Works /\ gpu[k].op \in {"fill", "clear", "sum"}
         /\ gpu[k].frame \in Nat /\ gpu[k].image \in Images
<1>1. gpu[k] \in Works
  BY DEF NodeTypeOK
<1> QED BY <1>1 DEF Works

\* Without pending work no allocation is referred to.
LEMMA NothingPending == gpu = <<>> => Pending = {}
BY DEF Pending

\* There is an allocation for the scalar.
LEMMA ScratchIsFree ==
  ASSUME NodeTypeOK, BuffersOwned, ScratchFollowsStream, pc = "scratch"
  PROVE  Fresh \in Ids
<1>1. scratch = Null /\ dest = Null /\ gpu = <<>>
  BY DEF ScratchFollowsStream
<1>2. Live = {}
  BY <1>1 DEF Live, BuffersOwned, Null, Ids
<1>3. Pending = {}
  BY <1>1, NothingPending
<1>4. \E a \in Ids : a \notin Live \cup Pending
  BY <1>2, <1>3 DEF Ids
<1> QED BY <1>4 DEF Fresh

\* The allocation that MakeRoom chooses.
NewDest == CHOOSE b \in Ids : b \notin (Live \ {dest}) \cup Pending

\* Nothing is pending when a buffer is replaced: the nodes with a scalar have
\* waited, the others have waited before they left the last callback.
LEMMA DrainedIsEmpty ==
  ASSUME PendingOwned, pc = "room", Drained
  PROVE  gpu = <<>>
<1>1. Call = "none"
  BY DEF Call
<1> QED BY <1>1 DEF PendingOwned, Drained

\* There is an allocation for the result.
LEMMA DestIsFree ==
  ASSUME NodeTypeOK, BuffersOwned, PendingOwned, pc = "room", Drained
  PROVE  NewDest \in Ids /\ NewDest # scratch
<1>1. Pending = {}
  BY DrainedIsEmpty, NothingPending
<1>2. Live \ {dest} \subseteq {scratch} /\ (scratch \in Ids => scratch \in (Live \ {dest}) \cup Pending)
  BY DEF Live, BuffersOwned, Null, Ids
<1>3. \E b \in Ids : b # scratch
  BY DEF Ids
<1>4. \E b \in Ids : b \notin (Live \ {dest}) \cup Pending
  BY <1>1, <1>2, <1>3
<1>5. NewDest \in Ids /\ NewDest \notin (Live \ {dest}) \cup Pending
  BY <1>4 DEF NewDest
<1> QED BY <1>2, <1>5

\* What a new result buffer is.
LEMMA MakeRoomDoes ==
  ASSUME NodeTypeOK, BuffersOwned, PendingOwned, MakeRoom
  PROVE  \E a \in Ids :
           /\ a # scratch /\ dest' = a
           /\ heap' = [b \in Ids |-> IF b = a THEN Block(Room(image).bytes, Place)
                                     ELSE IF b = dest THEN Free ELSE heap[b]]
           /\ gpu = <<>> /\ pc = "room" /\ pc' = "calls" /\ known' = Room(image).known
<1>1. pc = "room" /\ Drained
  BY DEF MakeRoom
<1>2. NewDest \in Ids /\ NewDest # scratch /\ gpu = <<>>
  BY <1>1, DestIsFree, DrainedIsEmpty
<1>3. /\ dest' = NewDest
      /\ heap' = [Freed(heap, {dest}) EXCEPT ![NewDest] = Block(Room(image).bytes, Place)]
      /\ pc' = "calls" /\ known' = Room(image).known
  BY DEF MakeRoom, NewDest
<1>4. heap' = [b \in Ids |-> IF b = NewDest THEN Block(Room(image).bytes, Place)
                             ELSE IF b = dest THEN Free ELSE heap[b]]
  BY <1>3 DEF Freed
<1> QED BY <1>1, <1>2, <1>3, <1>4

\* The execution of the first pending piece of work.
LEMMA GpuStepDoes ==
  ASSUME NodeTypeOK, PendingOwned, GpuStep
  PROVE  /\ gpu # <<>> /\ Len(gpu) >= 1 /\ Len(gpu') = Len(gpu) - 1 /\ gpu' \in Seq(Works)
         /\ \A k \in 1..Len(gpu') : gpu'[k] = gpu[k + 1]
         /\ heap' \in [Ids -> Allocations]
         /\ \A a \in Ids : heap'[a].bytes = heap[a].bytes /\ heap'[a].place = heap[a].place
         /\ \A a \in Ids : a # gpu[1].dst => heap'[a] = heap[a]
         /\ gpu[1].op = "fill" => heap'[dest].holds = {gpu[1].frame}
         /\ gpu[1].op = "clear" => heap'[scratch].holds = {}
         /\ gpu[1].op = "sum" => heap'[scratch].holds = heap[scratch].holds \cup heap[dest].holds
<1>1. gpu \in Seq(Works) /\ gpu # <<>> /\ Len(gpu) >= 1 /\ gpu' = Tail(gpu)
  BY DEF NodeTypeOK, GpuStep
<1>2. /\ Len(gpu') = Len(gpu) - 1 /\ gpu' \in Seq(Works)
      /\ \A k \in 1..Len(gpu') : gpu'[k] = gpu[k + 1]
  BY <1>1
<1>3. PICK work \in Works : work = gpu[1] /\ work = Head(gpu)
  BY <1>1
<1>4. WorkOf(work)
  BY <1>1, <1>3 DEF PendingOwned
<1>5. work.op \in {"fill", "clear", "sum"} /\ work.frame \in Nat /\ work.dst \in Ids
  BY <1>3, <1>4 DEF NodeTypeOK, WorkOf, Works, Ids, Null
<1>6. PICK h : /\ h = CASE work.op = "fill"  -> {work.frame}
                         [] work.op = "clear" -> {}
                         [] work.op = "sum"   -> heap[work.dst].holds \cup heap[work.src].holds
               /\ heap' = [heap EXCEPT ![work.dst].holds = h]
  BY <1>3 DEF GpuStep
<1>7. /\ work.op = "fill" => h = {work.frame}
      /\ work.op = "clear" => h = {}
      /\ work.op = "sum" => h = heap[work.dst].holds \cup heap[work.src].holds
  BY <1>5, <1>6
<1>8. heap \in [Ids -> Allocations] /\ heap[work.dst] \in Allocations
  BY <1>5 DEF NodeTypeOK
<1>9. h \in SUBSET Nat
  <2>1. CASE work.op = "sum"
    <3>1. work.src \in Ids
      BY <2>1, <1>4 DEF NodeTypeOK, WorkOf, Ids, Null
    <3> QED BY <2>1, <3>1, <1>7, <1>8 DEF Allocations
  <2> QED BY <2>1, <1>5, <1>7
<1>10. heap' = [heap EXCEPT ![work.dst] = [heap[work.dst] EXCEPT !.holds = h]]
  BY <1>6
<1>11. PICK b \in Allocations : /\ b = [heap[work.dst] EXCEPT !.holds = h]
                                /\ b.bytes = heap[work.dst].bytes
                                /\ b.place = heap[work.dst].place
                                /\ b.holds = h
  <2>1. PICK c \in Allocations : c = heap[work.dst]
    BY <1>8
  <2>2. [bytes |-> c.bytes, place |-> c.place, holds |-> h] \in Allocations
    BY <1>9 DEF Allocations
  <2>3. [c EXCEPT !.holds = h] = [bytes |-> c.bytes, place |-> c.place, holds |-> h]
    BY DEF Allocations
  <2> QED BY <2>1, <2>2, <2>3
<1>12. /\ heap' \in [Ids -> Allocations]
       /\ heap'[work.dst] = b
       /\ \A a \in Ids : a # work.dst => heap'[a] = heap[a]
  BY <1>5, <1>8, <1>10, <1>11
<1>13. /\ work.op = "fill" => work.dst = dest
       /\ work.op # "fill" => work.dst = scratch
       /\ work.op = "sum" => work.src = dest
  BY <1>4 DEF WorkOf
<1> QED BY <1>1, <1>2, <1>3, <1>7, <1>11, <1>12, <1>13

\* Freeing keeps the allocations typed.
LEMMA FreedType ==
  ASSUME heap \in [Ids -> Allocations]
  PROVE  /\ \A as : Freed(heap, as) \in [Ids -> Allocations]
         /\ Free \in Allocations
BY DEF Freed, Free, Allocations, Host

\* Only nodes with a scalar copy a result, and they have the scalar then.
LEMMA CopyHasScratch ==
  ASSUME NodeTypeOK, ScratchFollowsStream, CallsInOrder, Call = "copy"
  PROVE  OnDevice /\ scratch \in Ids
<1>1. pc = "calls" /\ next \in 1..Len(Calls) /\ Calls[next] = "copy"
  BY DEF Call, CallsInOrder, InOrder
<1>2. OnDevice
  <2>1. CASE node = "preview"
    BY <1>1, <2>1 DEF Calls, PreviewCalls, Transport
  <2>2. CASE Transport
    <3>1. Calls = TransportCalls
      BY <2>2 DEF Calls, Transport
    <3> QED BY <1>1, <3>1 DEF TransportCalls
  <2> QED BY <2>1, <2>2, Kinds DEF NodeTypeOK
<1> QED BY <1>1, <1>2 DEF ScratchFollowsStream, NodeTypeOK, Ids, Null

\* Every step of a node keeps the types.
LEMMA NodeTypeStep ==
  ASSUME NodeInv, NodeNext
  PROVE  NodeTypeOK'
<1>t. /\ NodeTypeOK /\ BuffersOwned /\ PendingOwned /\ ScratchFollowsStream /\ CallsInOrder
  BY DEF NodeInv
<1> USE <1>t DEF NodeTypeOK, Stages, streamVars, bufferVars, NoStream
<1>1. ASSUME NEW i \in Images, Receive(i) PROVE NodeTypeOK'
  BY <1>1 DEF Receive
<1>2. CASE StateKept
  BY <1>2 DEF StateKept
<1>3. CASE StateChanged
  <2>1. CASE OnDevice
    BY <1>3, <2>1, FreedType DEF StateChanged, Cleanup
  <2>2. CASE ~OnDevice
    BY <1>3, <2>2 DEF StateChanged
  <2> QED BY <2>1, <2>2
<1>4. CASE SetDevice
  <2>1. image.device \in Nat
    BY ImageFields
  <2> QED BY <1>4, <2>1 DEF SetDevice
<1>5. CASE CreateStream
  <2>1. image.device \in Nat
    BY ImageFields
  <2> QED BY <1>5, <2>1 DEF CreateStream
<1>6. CASE StateFails
  BY <1>6, ReturnDoes, FreedType DEF StateFails
<1>7. CASE AllocateScratch
  <2>1. Fresh \in Ids /\ image.device \in Nat
    BY <1>7, ScratchIsFree, ImageFields DEF AllocateScratch
  <2>2. Block(1, device) \in Allocations
    BY DEF Block, Allocations
  <2>3. PICK a \in Ids : scratch' = a /\ heap' = [heap EXCEPT ![a] = Block(1, device)]
    BY <1>7, <2>1 DEF AllocateScratch
  <2> QED BY <1>7, <2>1, <2>2, <2>3 DEF AllocateScratch
<1>8. CASE AllocateScratchFails
  BY <1>8 DEF AllocateScratchFails
<1>9. CASE Read
  BY <1>9 DEF Read
<1>10. CASE ReadFails
  BY <1>10, ReturnDoes, FreedType DEF ReadFails
<1>11. CASE Check
  <2>1. CASE Accepts(image)
    BY <1>11, <2>1 DEF Check
  <2>2. CASE ~Accepts(image)
    BY <1>11, <2>2, ReturnDoes, FreedType DEF Check
  <2> QED BY <2>1, <2>2
<1>12. CASE KeepRoom
  BY <1>12 DEF KeepRoom
<1>13. CASE MakeRoom
  <2>1. PICK a \in Ids :
          /\ dest' = a /\ known' = Room(image).known
          /\ heap' = [b \in Ids |-> IF b = a THEN Block(Room(image).bytes, Place)
                                    ELSE IF b = dest THEN Free ELSE heap[b]]
    BY <1>13, MakeRoomDoes
  <2>2. Room(image).bytes \in Nat /\ Room(image).known \in Seq(Nat)
    BY RoomType
  <2>3. Block(Room(image).bytes, Place) \in Allocations
    BY <2>2 DEF Block, Allocations, Place, Host
  <2>4. heap' \in [Ids -> Allocations]
    BY <2>1, <2>3, FreedType
  <2>5. known' \in Seq(Nat)
    BY <2>1, <2>2
  <2> QED BY <1>13, <2>1, <2>4, <2>5 DEF MakeRoom
<1>14. CASE MakeRoomFails
  <2>1. known' \in Seq(Nat) /\ heap' \in [Ids -> Allocations]
    BY <1>14, FreedType DEF MakeRoomFails, Forget
  <2> QED BY <1>14, <2>1 DEF MakeRoomFails
<1>15. CASE ReplaceFails
  BY <1>15, ReturnDoes, FreedType DEF ReplaceFails
<1>16. CASE Launch
  <2>1. Work("clear", scratch, Null) \in Works /\ Work("fill", dest, Null) \in Works
        /\ Work("sum", scratch, dest) \in Works
    BY DEF Work, Works
  <2>2. gpu' \in Seq(Works)
    <3>1. \/ gpu' = gpu \/ \E w \in Works : gpu' = Append(gpu, w)
      BY <1>16, <2>1 DEF Launch, Enqueue
    <3> QED BY <3>1
  <2> HIDE DEF Works
  <2> QED BY <1>16, <2>2 DEF Launch
<1>17. CASE Synchronise
  BY <1>17 DEF Synchronise
<1>18. CASE CopyResult
  <2>1. heap[scratch].holds \subseteq Nat
    <3>1. scratch \in Ids
      BY <1>18, CopyHasScratch DEF CopyResult
    <3> QED BY <3>1 DEF Allocations
  <2> QED BY <1>18, <2>1 DEF CopyResult
<1>19. CASE CallFails
  BY <1>19, ReturnDoes, FreedType DEF CallFails
<1>20. CASE Publish
  BY <1>20, ReturnDoes, FreedType DEF Publish
<1>21. CASE PublishSkipped
  BY <1>21, ReturnDoes, FreedType DEF PublishSkipped
<1>22. CASE PublishThrows
  <2>1. CASE OnDevice
    BY <1>22, <2>1, FreedType DEF PublishThrows, Destruct, Cleanup
  <2>2. CASE ~OnDevice
    BY <1>22, <2>2, FreedType DEF PublishThrows, Destruct
  <2> QED BY <2>1, <2>2
<1>23. CASE GpuStep
  BY <1>23, GpuStepDoes DEF GpuStep
<1>24. CASE Destroy
  <2>1. CASE OnDevice
    BY <1>24, <2>1, FreedType DEF Destroy, Destruct, Cleanup
  <2>2. CASE ~OnDevice
    BY <1>24, <2>2, FreedType DEF Destroy, Destruct
  <2> QED BY <2>1, <2>2
<1> QED BY <1>1, <1>2, <1>3, <1>4, <1>5, <1>6, <1>7, <1>8, <1>9, <1>10, <1>11, <1>12,
        <1>13, <1>14, <1>15, <1>16, <1>17, <1>18, <1>19, <1>20, <1>21, <1>22, <1>23,
        <1>24 DEF NodeNext


\* Allocations are made, replaced and freed together with the fields for them.
LEMMA BuffersStep ==
  ASSUME NodeInv, NodeNext
  PROVE  BuffersOwned'
<1>t. /\ NodeTypeOK /\ BuffersOwned /\ PendingOwned /\ ScratchFollowsStream
  BY DEF NodeInv
<1>h. /\ node \in Nodes /\ heap \in [Ids -> Allocations] /\ DOMAIN heap = Ids /\ image \in Images
      /\ scratch \in Ids \cup {Null} /\ dest \in Ids \cup {Null}
  BY <1>t DEF NodeTypeOK
<1>k. node = "preview" => ~OnDevice
  BY DEF OnDevice
<1> USE <1>t, <1>h, <1>k DEF BuffersOwned, OnDevice, Free, Null, Ids, streamVars, bufferVars
<1>1. ASSUME NEW i \in Images, Receive(i) PROVE BuffersOwned'
  BY <1>1 DEF Receive
<1>2. CASE StateKept
  BY <1>2 DEF StateKept
<1>3. CASE StateChanged
  <2>1. CASE OnDevice
    BY <1>3, <2>1 DEF StateChanged, Cleanup, Freed
  <2>2. CASE ~OnDevice
    BY <1>3, <2>2 DEF StateChanged
  <2> QED BY <2>1, <2>2
<1>4. CASE SetDevice
  BY <1>4 DEF SetDevice
<1>5. CASE CreateStream
  BY <1>5 DEF CreateStream
<1>6. CASE StateFails
  BY <1>6, ReturnDoes DEF StateFails
<1>7. CASE AllocateScratch
  <2>1. Fresh \in Ids /\ OnDevice /\ scratch = Null /\ dest = Null
    BY <1>7, ScratchIsFree DEF AllocateScratch, ScratchFollowsStream
  <2>2. PICK a \in Ids : scratch' = a /\ heap' = [heap EXCEPT ![a] = Block(1, device)]
    BY <1>7, <2>1 DEF AllocateScratch
  <2>3. \A b \in Ids : heap'[b].bytes # -1 <=> b = a
    BY <2>1, <2>2 DEF Block
  <2>4. dest' = dest /\ node' = node /\ pc' = "read"
    BY <1>7 DEF AllocateScratch
  <2> QED BY <2>1, <2>2, <2>3, <2>4
<1>8. CASE AllocateScratchFails
  BY <1>8 DEF AllocateScratchFails
<1>9. CASE Read
  BY <1>9 DEF Read
<1>10. CASE ReadFails
  BY <1>10, ReturnDoes DEF ReadFails
<1>11. CASE Check
  <2>1. CASE Accepts(image)
    BY <1>11, <2>1 DEF Check
  <2>2. CASE ~Accepts(image)
    BY <1>11, <2>2, ReturnDoes DEF Check
  <2> QED BY <2>1, <2>2
<1>12. CASE KeepRoom
  BY <1>12 DEF KeepRoom
<1>13. CASE MakeRoom
  <2>1. PICK a \in Ids :
          /\ a # scratch /\ dest' = a /\ pc' = "calls"
          /\ heap' = [b \in Ids |-> IF b = a THEN Block(Room(image).bytes, Place)
                                    ELSE IF b = dest THEN Free ELSE heap[b]]
    BY <1>13, MakeRoomDoes
  <2>2. Room(image).bytes \in Nat
    BY RoomType
  <2>3. \A b \in Ids : heap'[b].bytes # -1 <=> b = a \/ (b # dest /\ heap[b].bytes # -1)
    BY <2>1, <2>2 DEF Block
  <2>4. scratch' = scratch /\ node' = node
    BY <1>13 DEF MakeRoom
  <2> QED BY <2>1, <2>3, <2>4
<1>14. CASE MakeRoomFails
  BY <1>14 DEF MakeRoomFails, Freed
<1>15. CASE ReplaceFails
  BY <1>15, ReturnDoes DEF ReplaceFails
<1>16. CASE Launch
  BY <1>16 DEF Launch, Call
<1>17. CASE Synchronise
  BY <1>17 DEF Synchronise, Call
<1>18. CASE CopyResult
  BY <1>18 DEF CopyResult, Call
<1>19. CASE CallFails
  BY <1>19, ReturnDoes DEF CallFails
<1>20. CASE Publish
  BY <1>20, ReturnDoes DEF Publish
<1>21. CASE PublishSkipped
  BY <1>21, ReturnDoes DEF PublishSkipped
<1>22. CASE PublishThrows
  <2>1. CASE OnDevice
    BY <1>22, <2>1 DEF PublishThrows, Destruct, Cleanup, Freed
  <2>2. CASE ~OnDevice
    BY <1>22, <2>2 DEF PublishThrows, Destruct, Freed
  <2> QED BY <2>1, <2>2
<1>23. CASE GpuStep
  <2>1. \A a \in Ids : heap'[a].bytes = heap[a].bytes
    BY <1>23, GpuStepDoes
  <2>2. scratch' = scratch /\ dest' = dest /\ pc' = pc /\ node' = node
    BY <1>23 DEF GpuStep
  <2> QED BY <2>1, <2>2
<1>24. CASE Destroy
  <2>1. CASE OnDevice
    BY <1>24, <2>1 DEF Destroy, Destruct, Cleanup, Freed
  <2>2. CASE ~OnDevice
    BY <1>24, <2>2 DEF Destroy, Destruct, Freed
  <2> QED BY <2>1, <2>2
<1> QED BY <1>1, <1>2, <1>3, <1>4, <1>5, <1>6, <1>7, <1>8, <1>9, <1>10, <1>11, <1>12,
        <1>13, <1>14, <1>15, <1>16, <1>17, <1>18, <1>19, <1>20, <1>21, <1>22, <1>23,
        <1>24 DEF NodeNext


\* The scalar of a node is made after its stream and goes with it, and both are on the
\* device that is current.
LEMMA ScratchStep ==
  ASSUME NodeInv, NodeNext
  PROVE  ScratchFollowsStream'
<1>t. /\ NodeTypeOK /\ BuffersOwned /\ PendingOwned /\ ScratchFollowsStream
  BY DEF NodeInv
<1>h. /\ node \in Nodes /\ heap \in [Ids -> Allocations] /\ DOMAIN heap = Ids /\ image \in Images
      /\ scratch \in Ids \cup {Null} /\ dest \in Ids \cup {Null}
      /\ device \in Nat /\ stream \in Nat \cup {NoStream} /\ image.device \in Nat
  BY <1>t, ImageFields DEF NodeTypeOK
<1>k. /\ node = "preview" => ~OnDevice
      /\ scratch = dest => scratch = Null
  BY <1>t DEF OnDevice, BuffersOwned
<1> USE <1>t, <1>h, <1>k DEF ScratchFollowsStream, OnDevice, Null, Ids, NoStream, streamVars, bufferVars
<1>1. ASSUME NEW i \in Images, Receive(i) PROVE ScratchFollowsStream'
  BY <1>1 DEF Receive, Transport
<1>2. CASE StateKept
  BY <1>2 DEF StateKept
<1>3. CASE StateChanged
  <2>1. CASE OnDevice
    BY <1>3, <2>1 DEF StateChanged, Cleanup
  <2>2. CASE ~OnDevice
    BY <1>3, <2>2 DEF StateChanged
  <2> QED BY <2>1, <2>2
<1>4. CASE SetDevice
  BY <1>4 DEF SetDevice
<1>5. CASE CreateStream
  BY <1>5 DEF CreateStream
<1>6. CASE StateFails
  BY <1>6, ReturnDoes DEF StateFails
<1>7. CASE AllocateScratch
  <2>1. Fresh \in Ids /\ OnDevice /\ scratch = Null /\ dest = Null
    BY <1>7, ScratchIsFree DEF AllocateScratch
  <2>2. PICK a \in Ids : scratch' = a /\ heap' = [heap EXCEPT ![a] = Block(1, device)]
    BY <1>7, <2>1 DEF AllocateScratch
  <2>3. heap'[a].place = device
    BY <2>2 DEF Block
  <2> QED BY <1>7, <2>1, <2>2, <2>3 DEF AllocateScratch
<1>8. CASE AllocateScratchFails
  BY <1>8 DEF AllocateScratchFails
<1>9. CASE Read
  BY <1>9 DEF Read
<1>10. CASE ReadFails
  BY <1>10, ReturnDoes DEF ReadFails
<1>11. CASE Check
  <2>1. CASE Accepts(image)
    BY <1>11, <2>1 DEF Check
  <2>2. CASE ~Accepts(image)
    BY <1>11, <2>2, ReturnDoes DEF Check
  <2> QED BY <2>1, <2>2
<1>12. CASE KeepRoom
  BY <1>12 DEF KeepRoom
<1>13. CASE MakeRoom
  <2>1. PICK a \in Ids :
          /\ a # scratch /\ dest' = a
          /\ heap' = [b \in Ids |-> IF b = a THEN Block(Room(image).bytes, Place)
                                    ELSE IF b = dest THEN Free ELSE heap[b]]
    BY <1>13, MakeRoomDoes
  <2>2. heap'[a].place = Place /\ (scratch # Null /\ scratch # dest => heap'[scratch] = heap[scratch])
    BY <2>1 DEF Block
  <2>3. OnDevice => Place = device
    BY DEF Place, OnDevice
  <2>4. pc = "room" /\ pc' = "calls" /\ UNCHANGED <<node, image, device, device_id, stream, scratch, gpu>>
    BY <1>13 DEF MakeRoom
  <2> QED BY <2>1, <2>2, <2>3, <2>4
<1>14. CASE MakeRoomFails
  <2>1. scratch # Null /\ scratch # dest => heap'[scratch] = heap[scratch]
    BY <1>14 DEF MakeRoomFails, Freed
  <2> QED BY <1>14, <2>1 DEF MakeRoomFails
<1>15. CASE ReplaceFails
  BY <1>15, ReturnDoes DEF ReplaceFails
<1>16. CASE Launch
  BY <1>16 DEF Launch, Call
<1>17. CASE Synchronise
  BY <1>17 DEF Synchronise, Call
<1>18. CASE CopyResult
  BY <1>18 DEF CopyResult, Call
<1>19. CASE CallFails
  BY <1>19, ReturnDoes DEF CallFails, Call
<1>20. CASE Publish
  BY <1>20, ReturnDoes DEF Publish, Call
<1>21. CASE PublishSkipped
  BY <1>21, ReturnDoes DEF PublishSkipped, Call
<1>22. CASE PublishThrows
  <2>1. CASE OnDevice
    BY <1>22, <2>1 DEF PublishThrows, Destruct, Cleanup
  <2>2. CASE ~OnDevice
    BY <1>22, <2>2 DEF PublishThrows, Destruct
  <2> QED BY <2>1, <2>2
<1>23. CASE GpuStep
  <2>1. /\ gpu # <<>>
        /\ scratch # Null => heap'[scratch].place = heap[scratch].place
        /\ dest # Null => heap'[dest].place = heap[dest].place
    BY <1>23, GpuStepDoes
  <2> QED BY <1>23, <2>1 DEF GpuStep
<1>24. CASE Destroy
  <2>1. CASE OnDevice
    BY <1>24, <2>1 DEF Destroy, Destruct, Cleanup
  <2>2. CASE ~OnDevice
    BY <1>24, <2>2 DEF Destroy, Destruct
  <2> QED BY <2>1, <2>2
<1> QED BY <1>1, <1>2, <1>3, <1>4, <1>5, <1>6, <1>7, <1>8, <1>9, <1>10, <1>11, <1>12,
        <1>13, <1>14, <1>15, <1>16, <1>17, <1>18, <1>19, <1>20, <1>21, <1>22, <1>23,
        <1>24 DEF NodeNext


\* A node stays the node it is.
LEMMA NodeStays ==
  ASSUME NodeNext
  PROVE  node' = node
<1>1. ASSUME NEW i \in Images, Receive(i) PROVE node' = node
  BY <1>1 DEF Receive
<1>2. CASE StateKept
  BY <1>2 DEF StateKept
<1>3. CASE StateChanged
  BY <1>3 DEF StateChanged
<1>4. CASE SetDevice
  BY <1>4 DEF SetDevice
<1>5. CASE CreateStream
  BY <1>5 DEF CreateStream
<1>6. CASE StateFails
  BY <1>6 DEF StateFails
<1>7. CASE AllocateScratch
  BY <1>7 DEF AllocateScratch
<1>8. CASE AllocateScratchFails
  BY <1>8 DEF AllocateScratchFails
<1>9. CASE Read
  BY <1>9 DEF Read
<1>10. CASE ReadFails
  BY <1>10 DEF ReadFails
<1>11. CASE Check
  BY <1>11 DEF Check
<1>12. CASE KeepRoom
  BY <1>12 DEF KeepRoom
<1>13. CASE MakeRoom
  BY <1>13 DEF MakeRoom
<1>14. CASE MakeRoomFails
  BY <1>14 DEF MakeRoomFails
<1>15. CASE ReplaceFails
  BY <1>15 DEF ReplaceFails
<1>16. CASE Launch
  BY <1>16 DEF Launch
<1>17. CASE Synchronise
  BY <1>17 DEF Synchronise
<1>18. CASE CopyResult
  BY <1>18 DEF CopyResult
<1>19. CASE CallFails
  BY <1>19 DEF CallFails
<1>20. CASE Publish
  BY <1>20 DEF Publish
<1>21. CASE PublishSkipped
  BY <1>21 DEF PublishSkipped
<1>22. CASE PublishThrows
  BY <1>22 DEF PublishThrows, Destruct
<1>23. CASE GpuStep
  BY <1>23 DEF GpuStep
<1>24. CASE Destroy
  BY <1>24 DEF Destroy, Destruct
<1> QED BY <1>1, <1>2, <1>3, <1>4, <1>5, <1>6, <1>7, <1>8, <1>9, <1>10, <1>11, <1>12,
        <1>13, <1>14, <1>15, <1>16, <1>17, <1>18, <1>19, <1>20, <1>21, <1>22, <1>23,
        <1>24 DEF NodeNext

\* What an image means to a node does not change.
LEMMA KindStays ==
  ASSUME node' = node
  PROVE  /\ OnDevice' <=> OnDevice
         /\ Transport' <=> Transport
         /\ \A i : Room(i)' = Room(i)
         /\ \A i : Processable(i)' <=> Processable(i)
         /\ \A n : Issued(n)' = Issued(n)
         /\ Calls' = Calls /\ Program' = Program /\ FillAt' = FillAt /\ ClearAt' = ClearAt
<1>1. OnDevice' <=> OnDevice
  BY DEF OnDevice
<1>2. Transport' <=> Transport
  BY DEF Transport
<1>3. ASSUME NEW i PROVE Room(i)' = Room(i)
  BY DEF Room, Transport, EncoderRoom, InferenceRoom, PreviewRoom, TransportRoom, Step
<1>4. ASSUME NEW i PROVE Processable(i)' <=> Processable(i)
  BY DEF Processable, Transport, sanity_check, SupportedRgba8, Needed
<1>5. ASSUME NEW n PROVE Issued(n)' = Issued(n)
  BY DEF Issued, Transport
<1>6. Calls' = Calls
  BY DEF Calls, Transport, EncoderCalls, InferenceCalls, PreviewCalls, TransportCalls
<1>7. Program' = Program /\ FillAt' = FillAt /\ ClearAt' = ClearAt
  BY DEF Program, FillAt, ClearAt
<1> QED BY <1>1, <1>2, <1>3, <1>4, <1>5, <1>6, <1>7

\* What is remembered of a buffer is changed with the buffer or forgotten.
LEMMA KnownStep ==
  ASSUME NodeInv, NodeNext
  PROVE  KnownFits'
<1>t. /\ NodeTypeOK /\ BuffersOwned /\ PendingOwned /\ ScratchFollowsStream /\ KnownFits
  BY DEF NodeInv
<1>h. /\ node \in Nodes /\ image \in Images /\ dest \in Ids \cup {Null}
  BY <1>t DEF NodeTypeOK
<1>f. /\ (OnDevice' <=> OnDevice) /\ (Transport' <=> Transport)
      /\ \A i : Room(i)' = Room(i)
  BY NodeStays, KindStays
<1> DEFINE Same == /\ dest' = dest /\ known' = known
                   /\ dest # Null => /\ heap'[dest].bytes = heap[dest].bytes
                                     /\ heap'[dest].place = heap[dest].place
           Gone == dest' = Null /\ (Transport => known' = <<>>)
<1>s. Same => KnownFits'
  BY <1>t, <1>f DEF KnownFits
<1>g. Gone => KnownFits'
  BY <1>f DEF KnownFits
<1> HIDE DEF Same, Gone
<1> USE <1>t, <1>h DEF Null, Ids, streamVars, bufferVars
<1>1. ASSUME NEW i \in Images, Receive(i) PROVE KnownFits'
  BY <1>1, <1>s DEF Receive, Same
<1>2. CASE StateKept
  BY <1>2, <1>s DEF StateKept, Same
<1>3. CASE StateChanged
  <2>1. CASE OnDevice
    BY <1>3, <2>1, <1>g, Kinds DEF StateChanged, Cleanup, Gone
  <2>2. CASE ~OnDevice
    BY <1>3, <2>2, <1>s DEF StateChanged, Same
  <2> QED BY <2>1, <2>2
<1>4. CASE SetDevice
  BY <1>4, <1>s DEF SetDevice, Same
<1>5. CASE CreateStream
  BY <1>5, <1>s DEF CreateStream, Same
<1>6. CASE StateFails
  <2>1. Same \/ Gone
    BY <1>6, ReturnDoes, Kinds DEF StateFails, Same, Gone
  <2> QED BY <2>1, <1>s, <1>g
<1>7. CASE AllocateScratch
  <2>1. dest = Null
    BY <1>7 DEF AllocateScratch, ScratchFollowsStream
  <2> QED BY <1>7, <2>1, <1>s DEF AllocateScratch, Same
<1>8. CASE AllocateScratchFails
  BY <1>8, <1>s DEF AllocateScratchFails, Same
<1>9. CASE Read
  BY <1>9, <1>s DEF Read, Same
<1>10. CASE ReadFails
  <2>1. Same \/ Gone
    BY <1>10, ReturnDoes, Kinds DEF ReadFails, Same, Gone
  <2> QED BY <2>1, <1>s, <1>g
<1>11. CASE Check
  <2>1. CASE Accepts(image)
    BY <1>11, <2>1, <1>s DEF Check, Same
  <2>2. CASE ~Accepts(image)
    <3>1. Same \/ Gone
      BY <1>11, <2>2, ReturnDoes, Kinds DEF Check, Same, Gone
    <3> QED BY <3>1, <1>s, <1>g
  <2> QED BY <2>1, <2>2
<1>12. CASE KeepRoom
  BY <1>12, <1>s DEF KeepRoom, Same
<1>13. CASE MakeRoom
  <2>1. PICK a \in Ids :
          /\ a # scratch /\ dest' = a /\ known' = Room(image).known
          /\ heap' = [b \in Ids |-> IF b = a THEN Block(Room(image).bytes, Place)
                                    ELSE IF b = dest THEN Free ELSE heap[b]]
    BY <1>13, MakeRoomDoes
  <2>2. heap'[a].bytes = Room(image).bytes /\ heap'[a].place = Place /\ Room(image).bytes \in Nat
    BY <2>1, RoomType DEF Block
  <2>3. ASSUME OnDevice, NEW i \in Images, known' = Room(i).known
        PROVE  Room(i).bytes <= heap'[a].bytes
    <3>1. Room(i).bytes = Room(image).bytes
      BY <2>1, <2>3, KnownIsRoom
    <3> QED BY <2>2, <3>1
  <2>4. Transport => heap'[a].bytes = known'[1]
    BY <2>1, <2>2, TransportRoomIs
  <2>5. ~OnDevice => Place = Host
    BY DEF Place
  <2>6. a # Null
    BY DEF Ids, Null
  <2> QED BY <1>f, <2>1, <2>2, <2>3, <2>4, <2>5, <2>6 DEF KnownFits
<1>14. CASE MakeRoomFails
  BY <1>14, <1>g DEF MakeRoomFails, Forget, Gone
<1>15. CASE ReplaceFails
  <2>1. Same \/ Gone
    BY <1>15, ReturnDoes, Kinds DEF ReplaceFails, Same, Gone
  <2> QED BY <2>1, <1>s, <1>g
<1>16. CASE Launch
  BY <1>16, <1>s DEF Launch, Same
<1>17. CASE Synchronise
  BY <1>17, <1>s DEF Synchronise, Same
<1>18. CASE CopyResult
  BY <1>18, <1>s DEF CopyResult, Same
<1>19. CASE CallFails
  <2>1. Same \/ Gone
    BY <1>19, ReturnDoes, Kinds DEF CallFails, Same, Gone
  <2> QED BY <2>1, <1>s, <1>g
<1>20. CASE Publish
  <2>1. Same \/ Gone
    BY <1>20, ReturnDoes, Kinds DEF Publish, Same, Gone
  <2> QED BY <2>1, <1>s, <1>g
<1>21. CASE PublishSkipped
  <2>1. Same \/ Gone
    BY <1>21, ReturnDoes, Kinds DEF PublishSkipped, Same, Gone
  <2> QED BY <2>1, <1>s, <1>g
<1>22. CASE PublishThrows
  <2>1. CASE OnDevice
    BY <1>22, <2>1, <1>g, Kinds DEF PublishThrows, Destruct, Cleanup, Gone
  <2>2. CASE ~OnDevice
    BY <1>22, <2>2, <1>g DEF PublishThrows, Destruct, Gone
  <2> QED BY <2>1, <2>2
<1>23. CASE GpuStep
  <2>1. dest # Null => heap'[dest].bytes = heap[dest].bytes /\ heap'[dest].place = heap[dest].place
    BY <1>23, GpuStepDoes
  <2> QED BY <1>23, <2>1, <1>s DEF GpuStep, Same
<1>24. CASE Destroy
  <2>1. CASE OnDevice
    BY <1>24, <2>1, <1>g, Kinds DEF Destroy, Destruct, Cleanup, Gone
  <2>2. CASE ~OnDevice
    BY <1>24, <2>2, <1>g DEF Destroy, Destruct, Gone
  <2> QED BY <2>1, <2>2
<1> QED BY <1>1, <1>2, <1>3, <1>4, <1>5, <1>6, <1>7, <1>8, <1>9, <1>10, <1>11, <1>12,
        <1>13, <1>14, <1>15, <1>16, <1>17, <1>18, <1>19, <1>20, <1>21, <1>22, <1>23,
        <1>24 DEF NodeNext

\* When the calls begin there is room for the result.
LEMMA RoomStep ==
  ASSUME NodeInv, NodeNext
  PROVE  RoomFits'
<1>t. /\ NodeTypeOK /\ BuffersOwned /\ PendingOwned /\ KnownFits /\ RoomFits
  BY DEF NodeInv
<1>h. /\ node \in Nodes /\ image \in Images /\ dest \in Ids \cup {Null}
  BY <1>t DEF NodeTypeOK
<1>f. /\ (OnDevice' <=> OnDevice)
      /\ \A i : Room(i)' = Room(i) /\ (Processable(i)' <=> Processable(i))
  BY NodeStays, KindStays
<1>a. pc' \notin {"room", "calls"} => RoomFits'
  BY DEF RoomFits
<1> DEFINE Same == /\ pc' = pc /\ image' = image /\ dest' = dest /\ known' = known
                   /\ dest # Null => heap'[dest].bytes = heap[dest].bytes
<1>s. Same => RoomFits'
  BY <1>t, <1>f DEF RoomFits
<1> HIDE DEF Same
<1> USE <1>t, <1>h DEF Null, Ids, streamVars, bufferVars
<1>1. ASSUME NEW i \in Images, Receive(i) PROVE RoomFits'
  BY <1>1, <1>a DEF Receive
<1>2. CASE StateKept
  BY <1>2, <1>a DEF StateKept
<1>3. CASE StateChanged
  BY <1>3, <1>a DEF StateChanged
<1>4. CASE SetDevice
  BY <1>4, <1>a DEF SetDevice
<1>5. CASE CreateStream
  BY <1>5, <1>a DEF CreateStream
<1>6. CASE StateFails
  BY <1>6, ReturnDoes, <1>a DEF StateFails
<1>7. CASE AllocateScratch
  BY <1>7, <1>a DEF AllocateScratch
<1>8. CASE AllocateScratchFails
  BY <1>8, <1>a DEF AllocateScratchFails
<1>9. CASE Read
  BY <1>9, <1>a DEF Read
<1>10. CASE ReadFails
  BY <1>10, ReturnDoes, <1>a DEF ReadFails
<1>11. CASE Check
  <2>1. CASE Accepts(image)
    <3>1. Processable(image)
      BY <2>1, AcceptsProcessable
    <3> QED BY <1>11, <2>1, <3>1, <1>f DEF Check, RoomFits
  <2>2. CASE ~Accepts(image)
    BY <1>11, <2>2, ReturnDoes, <1>a DEF Check
  <2> QED BY <2>1, <2>2
<1>12. CASE KeepRoom
  <2>1. dest # Null /\ Room(image).bytes <= heap[dest].bytes /\ (OnDevice => known = Room(image).known)
    <3>1. Keeps(image)
      BY <1>12 DEF KeepRoom
    <3>2. CASE OnDevice
      <4>1. dest # Null /\ known = Room(image).known
        BY <3>1, <3>2 DEF OnDevice, Transport, Keeps, EncoderKeeps, InferenceKeeps, Room
      <4> QED BY <3>2, <4>1 DEF KnownFits
    <3>3. CASE node = "preview"
      BY <3>1, <3>3 DEF Keeps, Transport
    <3>4. CASE Transport
      <4>1. known # <<>> /\ image.bytes <= known[1]
        BY <3>1, <3>4 DEF Keeps, Transport, TransportKeeps
      <4> QED BY <3>4, <4>1, TransportRoomIs, Kinds DEF KnownFits
    <3> QED BY <3>2, <3>3, <3>4, Kinds
  <2> QED BY <1>12, <2>1, <1>f DEF KeepRoom, RoomFits
<1>13. CASE MakeRoom
  <2>1. PICK a \in Ids :
          /\ a # scratch /\ dest' = a /\ known' = Room(image).known
          /\ heap' = [b \in Ids |-> IF b = a THEN Block(Room(image).bytes, Place)
                                    ELSE IF b = dest THEN Free ELSE heap[b]]
    BY <1>13, MakeRoomDoes
  <2>2. heap'[a].bytes = Room(image).bytes /\ Room(image).bytes \in Nat
    BY <2>1, RoomType DEF Block
  <2>3. pc = "room" /\ image' = image /\ a # Null
    BY <1>13 DEF MakeRoom
  <2> QED BY <1>f, <2>1, <2>2, <2>3 DEF RoomFits
<1>14. CASE MakeRoomFails
  BY <1>14, <1>a DEF MakeRoomFails
<1>15. CASE ReplaceFails
  BY <1>15, ReturnDoes, <1>a DEF ReplaceFails
<1>16. CASE Launch
  BY <1>16, <1>s DEF Launch, Same, Call
<1>17. CASE Synchronise
  BY <1>17, <1>s DEF Synchronise, Same, Call
<1>18. CASE CopyResult
  BY <1>18, <1>s DEF CopyResult, Same, Call
<1>19. CASE CallFails
  BY <1>19, ReturnDoes, <1>a DEF CallFails
<1>20. CASE Publish
  BY <1>20, ReturnDoes, <1>a DEF Publish
<1>21. CASE PublishSkipped
  BY <1>21, ReturnDoes, <1>a DEF PublishSkipped
<1>22. CASE PublishThrows
  BY <1>22, <1>a DEF PublishThrows, Destruct
<1>23. CASE GpuStep
  <2>1. dest # Null => heap'[dest].bytes = heap[dest].bytes
    BY <1>23, GpuStepDoes
  <2> QED BY <1>23, <2>1, <1>s DEF GpuStep, Same
<1>24. CASE Destroy
  BY <1>24, <1>a DEF Destroy, Destruct
<1> QED BY <1>1, <1>2, <1>3, <1>4, <1>5, <1>6, <1>7, <1>8, <1>9, <1>10, <1>11, <1>12,
        <1>13, <1>14, <1>15, <1>16, <1>17, <1>18, <1>19, <1>20, <1>21, <1>22, <1>23,
        <1>24 DEF NodeNext


----------------------------------------------------------------------------
(***************************************************************************)
(* The nodes: the order of the calls.                                      *)
(***************************************************************************)

\* The work that a call puts into the stream.
OpOf(call) == CASE call = "clear"   -> "clear"
                [] call = "convert" -> "fill"
                [] call = "reduce"  -> "sum"

Quietly  == {"events", "record", "finalize"}
Enqueues == {"clear", "convert", "reduce"}

\* What follows call number n: nothing is issued but the program in its order, the
\* wait comes after all of it, the copy after the wait, publishing last.
FollowedBy(n) ==
  LET call == Calls[n] IN
  /\ Issued(n) \in 0..3 /\ (~OnDevice => Issued(n) \in 0..1)
  /\ call \in Quietly \cup Enqueues \cup {"sync", "copy", "publish"}
  /\ call # "publish" => n + 1 \in 1..Len(Calls)
  /\ call \in Quietly \cup {"sync", "copy"} => Issued(n + 1) = Issued(n)
  /\ call \in Enqueues => /\ Issued(n + 1) = Issued(n) + 1
                          /\ Program[Issued(n + 1)] = OpOf(call)
  /\ call \in Quietly \cup Enqueues => Calls[n + 1] \notin {"copy", "publish"}
  /\ call \in {"clear", "reduce", "copy"} => OnDevice
  /\ call = "sync" => Calls[n + 1] = IF OnDevice THEN "copy" ELSE "publish"
  /\ call = "copy" => Calls[n + 1] = "publish"
  /\ call \in {"copy", "publish"} => Issued(n) = IF OnDevice THEN 3 ELSE 1
  /\ ~OnDevice /\ call = "convert" => Calls[n + 1] = "sync"

\* The calls of every node are in that order.
LEMMA CallOrder ==
  ASSUME node \in Nodes, NEW n \in 1..Len(Calls)
  PROVE  FollowedBy(n)
<1> USE DEF FollowedBy, Quietly, Enqueues, OpOf, OnDevice
<1>1. CASE node = "encoder"
  <2>1. /\ Calls = EncoderCalls /\ Program = <<"clear", "fill", "sum">>
        /\ \A k : Issued(k) = IF k < 3 THEN 0 ELSE IF k < 5 THEN 1 ELSE IF k < 6 THEN 2 ELSE 3
    BY <1>1 DEF Calls, Program, Issued, Transport
  <2>2. n \in 1..9
    BY <2>1 DEF EncoderCalls
  <2>3. CASE n \in {1, 2, 3}
    BY <1>1, <2>1, <2>3 DEF EncoderCalls
  <2>4. CASE n \in {4, 5, 6}
    BY <1>1, <2>1, <2>4 DEF EncoderCalls
  <2>5. CASE n \in {7, 8, 9}
    BY <1>1, <2>1, <2>5 DEF EncoderCalls
  <2> QED BY <2>2, <2>3, <2>4, <2>5
<1>2. CASE node = "inference"
  <2>1. /\ Calls = InferenceCalls /\ Program = <<"fill", "clear", "sum">>
        /\ \A k : Issued(k) = IF k < 4 THEN 0 ELSE IF k < 5 THEN 1 ELSE IF k < 6 THEN 2 ELSE 3
    BY <1>2 DEF Calls, Program, Issued, Transport
  <2>2. n \in 1..10
    BY <2>1 DEF InferenceCalls
  <2>3. CASE n \in {1, 2, 3}
    BY <1>2, <2>1, <2>3 DEF InferenceCalls
  <2>4. CASE n \in {4, 5, 6}
    BY <1>2, <2>1, <2>4 DEF InferenceCalls
  <2>5. CASE n \in {7, 8, 9, 10}
    BY <1>2, <2>1, <2>5 DEF InferenceCalls
  <2> QED BY <2>2, <2>3, <2>4, <2>5
<1>3. CASE node = "preview"
  <2>1. /\ Calls = PreviewCalls /\ Program = <<"fill">>
        /\ \A k : Issued(k) = IF k < 3 THEN 0 ELSE 1
    BY <1>3 DEF Calls, Program, Issued, Transport
  <2>2. n \in {1, 2, 3, 4}
    BY <2>1 DEF PreviewCalls
  <2> QED BY <1>3, <2>1, <2>2 DEF PreviewCalls
<1>4. CASE Transport
  <2>1. /\ Calls = TransportCalls /\ Program = <<"fill">>
        /\ \A k : Issued(k) = IF k < 2 THEN 0 ELSE 1
    BY <1>4 DEF Calls, Program, Issued, Transport
  <2>2. n \in {1, 2, 3}
    BY <2>1 DEF TransportCalls
  <2>3. ~(node \in {"encoder", "inference"})
    BY <1>4 DEF Transport
  <2> QED BY <2>1, <2>2, <2>3 DEF TransportCalls
<1> QED BY <1>1, <1>2, <1>3, <1>4, Kinds DEF Nodes

\* Nothing has been issued before the first call.
LEMMA FirstCall ==
  ASSUME node \in Nodes
  PROVE  Issued(1) = 0 /\ 1 \in 1..Len(Calls) /\ Calls[1] \notin {"copy", "publish"}
<1>1. CASE Transport
  <2>1. Calls = TransportCalls /\ Issued(1) = 0
    BY <1>1 DEF Calls, Issued, Transport
  <2> QED BY <2>1 DEF TransportCalls
<1>2. CASE ~Transport
  BY <1>2 DEF Nodes, Transport, Issued, Calls, EncoderCalls, InferenceCalls, PreviewCalls
<1> QED BY <1>1, <1>2

\* The order of the work: an image is converted before it is reduced, and the
\* result is cleared before it is added to.
LEMMA ProgramOrder ==
  ASSUME node \in Nodes
  PROVE  /\ FillAt \in 1..2 /\ ClearAt \in 1..2 /\ FillAt # ClearAt
         /\ ~OnDevice => FillAt = 1
         /\ Program[FillAt] = "fill"
         /\ OnDevice => Program[ClearAt] = "clear" /\ Program[3] = "sum"
BY DEF Nodes, FillAt, ClearAt, Program, OnDevice


----------------------------------------------------------------------------
(***************************************************************************)
(* The nodes: pending work.                                                *)
(***************************************************************************)

\* Work is for the same buffers as long as they are.
LEMMA WorkStays ==
  ASSUME node' = node, dest' = dest, scratch' = scratch, device_id' = device_id,
         dest # Null => heap'[dest].bytes = heap[dest].bytes
  PROVE  \A work : WorkOf(work)' <=> WorkOf(work)
<1> SUFFICES ASSUME NEW work PROVE WorkOf(work)' <=> WorkOf(work)
  OBVIOUS
<1>1. /\ Room(work.image)' = Room(work.image)
      /\ Processable(work.image)' <=> Processable(work.image)
      /\ OnDevice' <=> OnDevice
  BY KindStays
<1>2. dest # Null => (Room(work.image)'.bytes <= heap'[dest].bytes
                      <=> Room(work.image).bytes <= heap[dest].bytes)
  BY <1>1
<1> QED BY <1>1, <1>2 DEF WorkOf

\* Pending work is owned when each piece of it is.
LEMMA PendingFrom ==
  ASSUME \A k \in 1..Len(gpu') : \A work : work = gpu'[k] => WorkOf(work)',
         ~OnDevice' /\ gpu' # <<>> => Call' = "sync"
  PROVE  PendingOwned'
<1>1. ASSUME NEW k \in 1..Len(gpu')
      PROVE  WorkOf(gpu[k])'
  <2>1. PICK work : work = gpu'[k]
    OBVIOUS
  <2>2. WorkOf(work)'
    BY <2>1
  <2> QED BY <2>1, <2>2 DEF WorkOf
<1> QED BY <1>1 DEF PendingOwned

\* What a launched call puts into the stream is for the buffers of its image.
LEMMA LaunchDoes ==
  ASSUME NodeInv, Launch
  PROVE  /\ pc = "calls" /\ pc' = "calls" /\ next' = next + 1
         /\ next \in 1..Len(Calls) /\ FollowedBy(next) /\ Call = Calls[next]
         /\ Call \in Quietly \cup Enqueues /\ Call' = Calls[next + 1]
         /\ Call \in Quietly => gpu' = gpu
         /\ Call \in Enqueues =>
              \E work : /\ gpu' = Append(gpu, work) /\ work \in Works /\ WorkOf(work)
                        /\ work.op = OpOf(Call) /\ work.frame = frames
<1>t. /\ NodeTypeOK /\ RoomFits /\ CallsInOrder /\ ScratchFollowsStream
  BY DEF NodeInv
<1>h. /\ node \in Nodes /\ image \in Images /\ frames \in Nat /\ scratch \in Ids \cup {Null}
      /\ dest \in Ids \cup {Null}
  BY <1>t DEF NodeTypeOK
<1>1. pc = "calls" /\ Call = Calls[next] /\ next \in 1..Len(Calls)
  BY <1>t DEF Launch, Call, CallsInOrder, InOrder
<1>2. pc' = "calls" /\ next' = next + 1 /\ node' = node
  BY <1>1 DEF Launch
<1>3. FollowedBy(next)
  BY <1>1, <1>h, CallOrder
<1>4. Call \in Quietly \cup Enqueues
  BY DEF Launch, Quietly, Enqueues
<1>5. Calls' = Calls
  BY <1>2, KindStays
<1>6. Call' = Calls[next + 1]
  BY <1>2, <1>5 DEF Call
<1>7. Call \in Quietly => gpu' = gpu
  BY DEF Quietly, Launch
<1>8. ASSUME Call \in Enqueues
      PROVE  \E work : /\ gpu' = Append(gpu, work) /\ work \in Works /\ WorkOf(work)
                       /\ work.op = OpOf(Call) /\ work.frame = frames
  <2>1. OnDevice => scratch # Null /\ device_id = image.device
    BY <1>1, <1>t DEF ScratchFollowsStream
  <2>2. Processable(image) /\ dest # Null /\ Room(image).bytes <= heap[dest].bytes
    BY <1>1, <1>t DEF RoomFits
  <2>3. CASE Call = "clear"
    <3>1. gpu' = Append(gpu, Work("clear", scratch, Null))
      BY <2>3 DEF Launch, Enqueue
    <3>2. OnDevice
      BY <1>1, <1>3, <2>3 DEF FollowedBy
    <3>3. PICK work : work = Work("clear", scratch, Null)
      OBVIOUS
    <3>4. /\ work.op = "clear" /\ work.dst = scratch /\ work.image = image
          /\ work.frame = frames /\ work \in Works
      BY <3>3, <1>h DEF Work, Works
    <3>5. WorkOf(work)
      BY <3>2, <3>4, <2>1 DEF WorkOf
    <3> QED BY <2>3, <3>1, <3>3, <3>4, <3>5 DEF OpOf
  <2>4. CASE Call = "convert"
    <3>1. gpu' = Append(gpu, Work("fill", dest, Null))
      BY <2>4 DEF Launch, Enqueue
    <3>2. PICK work : work = Work("fill", dest, Null)
      OBVIOUS
    <3>3. /\ work.op = "fill" /\ work.dst = dest /\ work.image = image
          /\ work.frame = frames /\ work \in Works
      BY <3>2, <1>h DEF Work, Works
    <3>4. WorkOf(work)
      BY <3>3, <2>1, <2>2 DEF WorkOf
    <3> QED BY <2>4, <3>1, <3>2, <3>3, <3>4 DEF OpOf
  <2>5. CASE Call = "reduce"
    <3>1. gpu' = Append(gpu, Work("sum", scratch, dest))
      BY <2>5 DEF Launch, Enqueue
    <3>2. OnDevice
      BY <1>1, <1>3, <2>5 DEF FollowedBy
    <3>3. PICK work : work = Work("sum", scratch, dest)
      OBVIOUS
    <3>4. /\ work.op = "sum" /\ work.dst = scratch /\ work.src = dest /\ work.image = image
          /\ work.frame = frames /\ work \in Works
      BY <3>3, <1>h DEF Work, Works
    <3>5. WorkOf(work)
      BY <3>2, <3>4, <2>1, <2>2 DEF WorkOf
    <3> QED BY <2>5, <3>1, <3>3, <3>4, <3>5 DEF OpOf
  <2> QED BY <1>8, <2>3, <2>4, <2>5 DEF Enqueues
<1> QED BY <1>1, <1>2, <1>3, <1>4, <1>6, <1>7, <1>8

\* Work that is left is for the buffers that are there, whatever happened to the
\* callback that issued it.
LEMMA PendingStep ==
  ASSUME NodeInv, NodeNext
  PROVE  PendingOwned'
<1>t. /\ NodeTypeOK /\ BuffersOwned /\ PendingOwned /\ ScratchFollowsStream /\ CallsInOrder
  BY DEF NodeInv
<1>h. /\ node \in Nodes /\ image \in Images /\ gpu \in Seq(Works)
  BY <1>t DEF NodeTypeOK
<1>f. node' = node /\ (OnDevice' <=> OnDevice)
  BY NodeStays, KindStays
<1>e. gpu' = <<>> => PendingOwned'
  BY DEF PendingOwned
<1> DEFINE Keep == /\ gpu' = gpu /\ Call # "sync"
                   /\ OnDevice => /\ dest' = dest /\ scratch' = scratch
                                  /\ device_id' = device_id /\ heap' = heap
<1>k. ASSUME Keep PROVE PendingOwned'
  <2>1. CASE ~OnDevice
    BY <1>k, <1>t, <1>e, <2>1 DEF PendingOwned
  <2>2. CASE OnDevice
    <3>1. \A work : WorkOf(work)' <=> WorkOf(work)
      BY <1>k, <1>f, <2>2, WorkStays
    <3>2. \A k \in 1..Len(gpu') : WorkOf(gpu'[k])
      BY <1>k, <1>t DEF PendingOwned
    <3> QED BY <2>2, <3>1, <3>2, <1>f, PendingFrom
  <2> QED BY <2>1, <2>2
<1> HIDE DEF Keep
<1> USE <1>t, <1>h DEF streamVars, bufferVars
<1>1. ASSUME NEW i \in Images, Receive(i) PROVE PendingOwned'
  <2>1. Call # "sync" /\ gpu' = gpu
    BY <1>1 DEF Receive, Call
  <2>2. dest' = dest /\ scratch' = scratch /\ device_id' = device_id /\ heap' = heap
    BY <1>1 DEF Receive
  <2> QED BY <2>1, <2>2, <1>k DEF Keep
<1>2. CASE StateKept
  <2>1. Call # "sync" /\ gpu' = gpu
    BY <1>2 DEF StateKept, Call
  <2>2. dest' = dest /\ scratch' = scratch /\ device_id' = device_id /\ heap' = heap
    BY <1>2 DEF StateKept
  <2> QED BY <2>1, <2>2, <1>k DEF Keep
<1>3. CASE StateChanged
  <2>1. CASE OnDevice
    BY <1>3, <2>1, <1>e DEF StateChanged, Cleanup
  <2>2. CASE ~OnDevice
    <3>1. Call # "sync" /\ gpu' = gpu
      BY <1>3, <2>2 DEF StateChanged, Call
    <3> QED BY <2>2, <3>1, <1>k DEF Keep
  <2> QED BY <2>1, <2>2
<1>4. CASE SetDevice
  <2>1. Call # "sync" /\ gpu' = gpu
    BY <1>4 DEF SetDevice, Call
  <2>2. dest' = dest /\ scratch' = scratch /\ device_id' = device_id /\ heap' = heap
    BY <1>4 DEF SetDevice
  <2> QED BY <2>1, <2>2, <1>k DEF Keep
<1>5. CASE CreateStream
  <2>1. Call # "sync" /\ gpu' = gpu
    BY <1>5 DEF CreateStream, Call
  <2>2. OnDevice => dest' = dest /\ scratch' = scratch /\ device_id' = device_id /\ heap' = heap
    BY <1>5 DEF CreateStream
  <2> QED BY <2>1, <2>2, <1>k DEF Keep
<1>6. CASE StateFails
  <2>1. Call # "sync" /\ gpu' = gpu /\ device_id' = device_id
    BY <1>6 DEF StateFails, Call
  <2>2. OnDevice => dest' = dest /\ scratch' = scratch /\ heap' = heap
    BY <1>6, ReturnDoes, Kinds DEF StateFails
  <2> QED BY <2>1, <2>2, <1>k DEF Keep
<1>7. CASE AllocateScratch
  <2>1. gpu = <<>>
    BY <1>7 DEF AllocateScratch, ScratchFollowsStream
  <2> QED BY <1>7, <2>1, <1>e DEF AllocateScratch
<1>8. CASE AllocateScratchFails
  <2>1. Call # "sync" /\ gpu' = gpu
    BY <1>8 DEF AllocateScratchFails, Call
  <2>2. dest' = dest /\ scratch' = scratch /\ device_id' = device_id /\ heap' = heap
    BY <1>8 DEF AllocateScratchFails
  <2> QED BY <2>1, <2>2, <1>k DEF Keep
<1>9. CASE Read
  <2>1. Call # "sync" /\ gpu' = gpu
    BY <1>9 DEF Read, Call
  <2>2. dest' = dest /\ scratch' = scratch /\ device_id' = device_id /\ heap' = heap
    BY <1>9 DEF Read
  <2> QED BY <2>1, <2>2, <1>k DEF Keep
<1>10. CASE ReadFails
  <2>1. Call # "sync" /\ gpu' = gpu /\ device_id' = device_id
    BY <1>10 DEF ReadFails, Call
  <2>2. OnDevice => dest' = dest /\ scratch' = scratch /\ heap' = heap
    BY <1>10, ReturnDoes, Kinds DEF ReadFails
  <2> QED BY <2>1, <2>2, <1>k DEF Keep
<1>11. CASE Check
  <2>1. Call # "sync" /\ gpu' = gpu /\ device_id' = device_id
    BY <1>11 DEF Check, Call
  <2>2. OnDevice => dest' = dest /\ scratch' = scratch /\ heap' = heap
    <3>1. CASE Accepts(image)
      BY <1>11, <3>1 DEF Check
    <3>2. CASE ~Accepts(image)
      BY <1>11, <3>2, ReturnDoes, Kinds DEF Check
    <3> QED BY <3>1, <3>2
  <2> QED BY <2>1, <2>2, <1>k DEF Keep
<1>12. CASE KeepRoom
  <2>1. Call # "sync" /\ gpu' = gpu
    BY <1>12 DEF KeepRoom, Call
  <2>2. dest' = dest /\ scratch' = scratch /\ device_id' = device_id /\ heap' = heap
    BY <1>12 DEF KeepRoom
  <2> QED BY <2>1, <2>2, <1>k DEF Keep
<1>13. CASE MakeRoom
  <2>1. gpu = <<>> /\ gpu' = gpu
    BY <1>13, DrainedIsEmpty DEF MakeRoom
  <2> QED BY <2>1, <1>e
<1>14. CASE MakeRoomFails
  <2>1. gpu = <<>> /\ gpu' = gpu
    BY <1>14, DrainedIsEmpty DEF MakeRoomFails
  <2> QED BY <2>1, <1>e
<1>15. CASE ReplaceFails
  BY <1>15, <1>e DEF ReplaceFails
<1>16. CASE Launch
  <2>0. /\ node' = node /\ dest' = dest /\ scratch' = scratch /\ device_id' = device_id
        /\ heap' = heap /\ Call # "sync"
    BY <1>16 DEF Launch
  <2>1. CASE Call \in Quietly
    BY <1>16, <2>0, <2>1, LaunchDoes, <1>k DEF Keep
  <2>2. CASE Call \in Enqueues
    <3>1. PICK work : gpu' = Append(gpu, work) /\ WorkOf(work) /\ work \in Works
      BY <1>16, <2>2, LaunchDoes
    <3>2. ~OnDevice => Call = "convert"
      BY <1>16, <2>2, LaunchDoes DEF FollowedBy, Enqueues
    <3>3. ~OnDevice => Call' = "sync"
      BY <1>16, <3>2, LaunchDoes DEF FollowedBy
    <3>4. \A w : WorkOf(w)' <=> WorkOf(w)
      BY <2>0, WorkStays
    <3>5. ASSUME NEW k \in 1..Len(gpu') PROVE WorkOf(gpu'[k])
      <4>1. (k \in 1..Len(gpu) /\ gpu'[k] = gpu[k]) \/ gpu'[k] = work
        BY <3>1, <3>5, <1>h
      <4> QED BY <3>1, <4>1 DEF PendingOwned
    <3> QED BY <3>3, <3>4, <3>5, <1>f, PendingFrom
  <2> QED BY <1>16, <2>1, <2>2, LaunchDoes
<1>17. CASE Synchronise
  BY <1>17, <1>e DEF Synchronise
<1>18. CASE CopyResult
  <2>1. Call # "sync" /\ gpu' = gpu
    BY <1>18 DEF CopyResult, Call
  <2>2. dest' = dest /\ scratch' = scratch /\ device_id' = device_id /\ heap' = heap
    BY <1>18 DEF CopyResult
  <2> QED BY <2>1, <2>2, <1>k DEF Keep
<1>19. CASE CallFails
  <2>1. CASE Call = "sync"
    BY <1>19, <2>1, <1>e DEF CallFails
  <2>2. CASE Call # "sync"
    <3>1. gpu' = gpu /\ device_id' = device_id
      BY <1>19, <2>2 DEF CallFails
    <3>2. OnDevice => dest' = dest /\ scratch' = scratch /\ heap' = heap
      BY <1>19, ReturnDoes, Kinds DEF CallFails
    <3> QED BY <2>2, <3>1, <3>2, <1>k DEF Keep
  <2> QED BY <2>1, <2>2
<1>20. CASE Publish
  <2>1. Call # "sync" /\ gpu' = gpu /\ device_id' = device_id
    BY <1>20 DEF Publish, Call
  <2>2. OnDevice => dest' = dest /\ scratch' = scratch /\ heap' = heap
    BY <1>20, ReturnDoes, Kinds DEF Publish
  <2> QED BY <2>1, <2>2, <1>k DEF Keep
<1>21. CASE PublishSkipped
  <2>1. Call # "sync" /\ gpu' = gpu /\ device_id' = device_id
    BY <1>21 DEF PublishSkipped, Call
  <2>2. OnDevice => dest' = dest /\ scratch' = scratch /\ heap' = heap
    BY <1>21, ReturnDoes, Kinds DEF PublishSkipped
  <2> QED BY <2>1, <2>2, <1>k DEF Keep
<1>22. CASE PublishThrows
  <2>1. CASE OnDevice
    BY <1>22, <2>1, <1>e DEF PublishThrows, Destruct, Cleanup
  <2>2. CASE ~OnDevice
    <3>1. Call # "sync" /\ gpu' = gpu
      BY <1>22, <2>2 DEF PublishThrows, Destruct, Call
    <3> QED BY <2>2, <3>1, <1>k DEF Keep
  <2> QED BY <2>1, <2>2
<1>23. CASE GpuStep
  <2>a. dest # Null => dest \in Ids
    BY <1>t DEF NodeTypeOK
  <2>0. /\ node' = node /\ dest' = dest /\ scratch' = scratch /\ device_id' = device_id
        /\ pc' = pc /\ next' = next
    BY <1>23 DEF GpuStep
  <2>1. dest # Null => heap'[dest].bytes = heap[dest].bytes
    BY <1>23, <2>a, GpuStepDoes
  <2>2. \A w : WorkOf(w)' <=> WorkOf(w)
    BY <2>0, <2>1, WorkStays
  <2>3. ASSUME NEW k \in 1..Len(gpu') PROVE WorkOf(gpu'[k])
    <3>1. k + 1 \in 1..Len(gpu) /\ gpu'[k] = gpu[k + 1]
      BY <1>23, <2>3, <1>h, GpuStepDoes
    <3> QED BY <3>1 DEF PendingOwned
  <2>5. Call' = Call
    <3>1. Calls' = Calls
      BY <2>0, KindStays
    <3> QED BY <2>0, <3>1 DEF Call
  <2>6. gpu # <<>>
    BY <1>23 DEF GpuStep
  <2> QED BY <2>2, <2>3, <2>5, <2>6, <1>f, <1>t, PendingFrom DEF PendingOwned
<1>24. CASE Destroy
  <2>1. CASE OnDevice
    BY <1>24, <2>1, <1>e DEF Destroy, Destruct, Cleanup
  <2>2. CASE ~OnDevice
    <3>1. Call # "sync" /\ gpu' = gpu
      BY <1>24, <2>2 DEF Destroy, Destruct, Call
    <3> QED BY <2>2, <3>1, <1>k DEF Keep
  <2> QED BY <2>1, <2>2
<1> QED BY <1>1, <1>2, <1>3, <1>4, <1>5, <1>6, <1>7, <1>8, <1>9, <1>10, <1>11, <1>12,
        <1>13, <1>14, <1>15, <1>16, <1>17, <1>18, <1>19, <1>20, <1>21, <1>22, <1>23,
        <1>24 DEF NodeNext


----------------------------------------------------------------------------
(***************************************************************************)
(* The nodes: the results of the work.                                     *)
(***************************************************************************)

\* The calls are in order after a step when they are in its terms.
LEMMA CallsFrom ==
  ASSUME node' = node, frames' = frames, NEW n, NEW q, NEW d, NEW s, NEW h,
         next' = n, gpu' = q, heap'[dest'].holds = d, heap'[scratch'].holds = s, host' = h,
         InOrder(n, q, d, s, h)
  PROVE  CallsInOrder'
<1>1. /\ OnDevice' <=> OnDevice
      /\ Calls' = Calls /\ Program' = Program /\ FillAt' = FillAt /\ ClearAt' = ClearAt
  BY KindStays
<1>2. Issued(n)' = Issued(n)
  BY KindStays
<1>3. Issued(next)' = Issued(n)
  BY <1>2 DEF Issued, Transport
<1> QED BY <1>1, <1>3 DEF CallsInOrder, InOrder, Executed, SumAt

\* The calls begin in order, whatever an earlier callback has left in the stream.
LEMMA BeginInOrder ==
  ASSUME node \in Nodes, NEW q \in Seq(Works), NEW d, NEW s, NEW h
  PROVE  InOrder(1, q, d, s, h)
<1>1. Issued(1) = 0 /\ 1 \in 1..Len(Calls) /\ Calls[1] \notin {"copy", "publish"}
  BY FirstCall
<1>2. Len(q) \in Nat
  OBVIOUS
<1>3. FillAt \in 1..2 /\ ClearAt \in 1..2
  BY ProgramOrder
<1> QED BY <1>1, <1>2, <1>3 DEF InOrder, Executed, SumAt

\* A call that puts nothing into the stream keeps the order ...
LEMMA QuietInOrder ==
  ASSUME node \in Nodes, NEW q \in Seq(Works), NEW d, NEW s, NEW h, NEW n,
         InOrder(n, q, d, s, h),
         \/ Calls[n] \in Quietly
         \/ Calls[n] = "sync" /\ q = <<>>
  PROVE  InOrder(n + 1, q, d, s, h)
<1>1. n \in 1..Len(Calls)
  BY DEF InOrder
<1>2. FollowedBy(n)
  BY <1>1, CallOrder
<1>3. /\ Issued(n + 1) = Issued(n) /\ n + 1 \in 1..Len(Calls)
      /\ Calls[n + 1] \in {"copy", "publish"} => q = <<>>
      /\ Calls[n + 1] = "publish" => ~OnDevice
  BY <1>2 DEF FollowedBy, Quietly
<1> QED BY <1>3 DEF InOrder, Executed

\* ... as does one that puts the next of the callback's work into it ...
LEMMA EnqueueInOrder ==
  ASSUME node \in Nodes, NEW q \in Seq(Works), NEW d, NEW s, NEW h, NEW n,
         InOrder(n, q, d, s, h), Calls[n] \in Enqueues,
         NEW work \in Works, work.op = OpOf(Calls[n]), work.frame = frames
  PROVE  InOrder(n + 1, Append(q, work), d, s, h)
<1>1. n \in 1..Len(Calls)
  BY DEF InOrder
<1>2. FollowedBy(n)
  BY <1>1, CallOrder
<1>3. /\ Issued(n) \in 0..3 /\ Issued(n + 1) = Issued(n) + 1 /\ n + 1 \in 1..Len(Calls)
      /\ Program[Issued(n + 1)] = work.op
      /\ Calls[n + 1] \notin {"copy", "publish"}
  BY <1>2 DEF FollowedBy, Enqueues
<1>4. PICK r : r = Append(q, work)
  OBVIOUS
<1>5. /\ Len(r) = Len(q) + 1 /\ Len(q) \in Nat /\ r[Len(r)] = work
      /\ \A k \in 1..Len(q) : r[k] = q[k]
  BY <1>4
<1>6. ASSUME NEW e \in 0..2, e < Issued(n + 1), e < Len(r)
      PROVE  r[Len(r) - e].op = Program[Issued(n + 1) - e] /\ r[Len(r) - e].frame = frames
  <2>1. CASE e = 0
    BY <1>3, <1>5, <2>1
  <2>2. CASE e # 0
    <3>1. PICK c \in 0..1 : c = e - 1
      BY <2>2
    <3>2. /\ c < Issued(n) /\ c < Len(q) /\ Len(r) - e = Len(q) - c
          /\ Issued(n + 1) - e = Issued(n) - c /\ Len(q) - c \in 1..Len(q)
      BY <1>3, <1>5, <1>6, <3>1
    <3>3. q[Len(q) - c].op = Program[Issued(n) - c] /\ q[Len(q) - c].frame = frames
      BY <3>2 DEF InOrder
    <3> QED BY <1>5, <3>2, <3>3
  <2> QED BY <2>1, <2>2
<1>7. FillAt \in 1..2 /\ ClearAt \in 1..2
  BY ProgramOrder
<1>8. \A k \in 1..3 : Executed(k, n + 1, r) <=> Executed(k, n, q)
  BY <1>3, <1>5 DEF Executed
<1>9. InOrder(n + 1, r, d, s, h)
  BY <1>3, <1>6, <1>7, <1>8 DEF InOrder, SumAt
<1> QED BY <1>4, <1>9

\* ... and the copy, which takes the sum of this image.
LEMMA CopyInOrder ==
  ASSUME node \in Nodes, NEW q \in Seq(Works), NEW d, NEW s, NEW h, NEW n,
         InOrder(n, q, d, s, h), Calls[n] = "copy"
  PROVE  InOrder(n + 1, q, d, s, s)
<1>1. n \in 1..Len(Calls) /\ q = <<>> /\ Len(q) = 0
  BY DEF InOrder
<1>2. FollowedBy(n)
  BY <1>1, CallOrder
<1>3. /\ Issued(n + 1) = Issued(n) /\ n + 1 \in 1..Len(Calls)
      /\ OnDevice /\ Issued(n) = 3
  BY <1>2 DEF FollowedBy
<1>4. s = {frames}
  BY <1>1, <1>3 DEF InOrder, Executed, SumAt
<1> QED BY <1>1, <1>3, <1>4 DEF InOrder, Executed

\* The stream executes the callback's work in order: the sum finds the result
\* filled and the scalar cleared.
LEMMA ExecuteInOrder ==
  ASSUME node \in Nodes, NEW q \in Seq(Works), q # <<>>, NEW d, NEW s, NEW h, NEW n,
         InOrder(n, q, d, s, h),
         NEW r \in Seq(Works), Len(r) = Len(q) - 1, \A k \in 1..Len(r) : r[k] = q[k + 1],
         NEW d2, NEW s2,
         q[1].op = "fill"  => d2 = {q[1].frame} /\ (OnDevice => s2 = s),
         q[1].op = "clear" => s2 = {} /\ d2 = d,
         q[1].op = "sum"   => s2 = s \cup d /\ d2 = d
  PROVE  InOrder(n, r, d2, s2, h)
<1>1. n \in 1..Len(Calls) /\ Len(q) \in Nat \ {0} /\ Len(r) \in Nat
  BY DEF InOrder
<1>2. FollowedBy(n)
  BY <1>1, CallOrder
<1>3. Issued(n) \in 0..3 /\ (~OnDevice => Issued(n) \in 0..1)
  BY <1>2 DEF FollowedBy
<1>4. ASSUME NEW e \in 0..2, e < Issued(n), e < Len(r)
      PROVE  r[Len(r) - e].op = Program[Issued(n) - e] /\ r[Len(r) - e].frame = frames
  <2>1. /\ e < Len(q) /\ Len(r) - e \in 1..Len(r) /\ Len(r) - e + 1 = Len(q) - e
    BY <1>1, <1>4
  <2>2. r[Len(r) - e] = q[Len(q) - e]
    BY <2>1
  <2> QED BY <1>4, <2>1, <2>2 DEF InOrder
<1>5. /\ FillAt \in 1..2 /\ ClearAt \in 1..2 /\ FillAt # ClearAt
      /\ ~OnDevice => FillAt = 1
      /\ Program[FillAt] = "fill"
      /\ OnDevice => Program[ClearAt] = "clear" /\ Program[3] = "sum"
  BY ProgramOrder
<1>6. Calls[n] \in {"copy", "publish"} => FALSE
  BY DEF InOrder
<1>7. /\ Executed(FillAt, n, r) => d2 = {frames}
      /\ OnDevice /\ Executed(ClearAt, n, r) /\ ~Executed(SumAt, n, r) => s2 = {}
      /\ OnDevice /\ Executed(SumAt, n, r) => s2 = {frames}
  <2>1. CASE Len(q) > Issued(n)
    <3>1. ASSUME NEW k \in 1..3 PROVE ~Executed(k, n, r)
      BY <1>1, <1>3, <2>1 DEF Executed
    <3> QED BY <1>5, <3>1 DEF SumAt
  <2>2. CASE Len(q) <= Issued(n)
    <3>1. PICK m \in 1..3 : m = Issued(n) - Len(q) + 1
      BY <1>1, <1>3, <2>2
    <3>2. \A k \in 1..3 : /\ Executed(k, n, r) <=> k <= m
                          /\ Executed(k, n, q) <=> k < m
      BY <1>1, <1>3, <3>1 DEF Executed
    <3>3. q[1].op = Program[m] /\ q[1].frame = frames
      <4>1. PICK e \in 0..2 : e = Len(q) - 1
        BY <1>1, <1>3, <2>2
      <4>2. e < Issued(n) /\ e < Len(q) /\ Len(q) - e = 1 /\ Issued(n) - e = m
        BY <1>1, <1>3, <2>2, <3>1, <4>1
      <4>3. q[Len(q) - e].op = Program[Issued(n) - e] /\ q[Len(q) - e].frame = frames
        BY <4>2 DEF InOrder
      <4> QED BY <4>2, <4>3
    <3>4. /\ FillAt < m => d = {frames}
          /\ OnDevice /\ ClearAt < m /\ ~(3 < m) => s = {}
      BY <1>5, <3>2 DEF InOrder, SumAt
    <3>5. SUFFICES /\ FillAt <= m => d2 = {frames}
                   /\ OnDevice /\ ClearAt <= m /\ ~(3 <= m) => s2 = {}
                   /\ OnDevice /\ 3 <= m => s2 = {frames}
      BY <1>5, <3>2 DEF SumAt
    <3>6. CASE m = FillAt
      BY <1>5, <3>3, <3>4, <3>6
    <3>7. CASE m = ClearAt /\ OnDevice
      BY <1>5, <3>3, <3>4, <3>7
    <3>8. CASE m = 3 /\ OnDevice
      <4>1. d = {frames} /\ s = {} /\ q[1].op = "sum"
        BY <1>5, <3>3, <3>4, <3>8
      <4>2. s2 = {frames} /\ d2 = {frames}
        BY <4>1
      <4> QED BY <1>5, <3>8, <4>2
    <3>9. ~OnDevice => m = 1
      BY <1>1, <1>3, <2>2, <3>1
    <3> QED BY <1>5, <3>6, <3>7, <3>8, <3>9
  <2> QED BY <1>1, <1>3, <2>1, <2>2
<1> QED BY <1>1, <1>4, <1>6, <1>7 DEF InOrder


\* The calls stay in order, and their work in that of the stream.
LEMMA CallsStep ==
  ASSUME NodeInv, NodeNext
  PROVE  CallsInOrder'
<1>t. /\ NodeTypeOK /\ BuffersOwned /\ PendingOwned /\ ScratchFollowsStream /\ RoomFits
      /\ CallsInOrder /\ NextIsFirst
  BY DEF NodeInv
<1>h. /\ node \in Nodes /\ image \in Images /\ gpu \in Seq(Works)
  BY <1>t DEF NodeTypeOK
<1>n. node' = node
  BY NodeStays
<1>a. pc' # "calls" => CallsInOrder'
  BY DEF CallsInOrder
<1> USE <1>t, <1>h DEF streamVars, bufferVars
<1>1. ASSUME NEW i \in Images, Receive(i) PROVE CallsInOrder'
  BY <1>1, <1>a DEF Receive
<1>2. CASE StateKept
  BY <1>2, <1>a DEF StateKept
<1>3. CASE StateChanged
  BY <1>3, <1>a DEF StateChanged
<1>4. CASE SetDevice
  BY <1>4, <1>a DEF SetDevice
<1>5. CASE CreateStream
  BY <1>5, <1>a DEF CreateStream
<1>6. CASE StateFails
  BY <1>6, ReturnDoes, <1>a DEF StateFails
<1>7. CASE AllocateScratch
  BY <1>7, <1>a DEF AllocateScratch
<1>8. CASE AllocateScratchFails
  BY <1>8, <1>a DEF AllocateScratchFails
<1>9. CASE Read
  BY <1>9, <1>a DEF Read
<1>10. CASE ReadFails
  BY <1>10, ReturnDoes, <1>a DEF ReadFails
<1>11. CASE Check
  <2>1. CASE Accepts(image)
    BY <1>11, <2>1, <1>a DEF Check
  <2>2. CASE ~Accepts(image)
    BY <1>11, <2>2, ReturnDoes, <1>a DEF Check
  <2> QED BY <2>1, <2>2
<1>12. CASE KeepRoom
  <2>1. PICK d, s, h : d = heap'[dest'].holds /\ s = heap'[scratch'].holds /\ h = host'
    OBVIOUS
  <2>2. next' = 1 /\ gpu' = gpu /\ frames' = frames
    BY <1>12 DEF KeepRoom, NextIsFirst
  <2>3. PICK n, q : n = 1 /\ q = gpu
    OBVIOUS
  <2>4. InOrder(n, q, d, s, h)
    BY <2>3, BeginInOrder
  <2> QED BY <2>1, <2>2, <2>3, <2>4, <1>n, CallsFrom
<1>13. CASE MakeRoom
  <2>1. PICK d, s, h : d = heap'[dest'].holds /\ s = heap'[scratch'].holds /\ h = host'
    OBVIOUS
  <2>2. next' = 1 /\ gpu' = gpu /\ frames' = frames
    BY <1>13 DEF MakeRoom, NextIsFirst
  <2>3. PICK n, q : n = 1 /\ q = gpu
    OBVIOUS
  <2>4. InOrder(n, q, d, s, h)
    BY <2>3, BeginInOrder
  <2> QED BY <2>1, <2>2, <2>3, <2>4, <1>n, CallsFrom
<1>14. CASE MakeRoomFails
  BY <1>14, <1>a DEF MakeRoomFails
<1>15. CASE ReplaceFails
  BY <1>15, ReturnDoes, <1>a DEF ReplaceFails
<1>16. CASE Launch
  <2>1. /\ frames' = frames /\ heap' = heap /\ dest' = dest /\ scratch' = scratch /\ host' = host
    BY <1>16 DEF Launch
  <2>2. /\ pc = "calls" /\ next' = next + 1 /\ Call = Calls[next]
        /\ Call \in Quietly \cup Enqueues
    BY <1>16, LaunchDoes
  <2>3. PICK d, s, h, q, n, m : /\ d = heap[dest].holds /\ s = heap[scratch].holds /\ h = host
                                /\ q = gpu /\ n = next /\ m = next + 1
    OBVIOUS
  <2>4. InOrder(n, q, d, s, h)
    BY <2>2, <2>3 DEF CallsInOrder
  <2>5. CASE Call \in Quietly
    <3>1. gpu' = gpu
      BY <1>16, <2>5, LaunchDoes
    <3>2. InOrder(m, q, d, s, h)
      BY <2>2, <2>3, <2>4, <2>5, QuietInOrder
    <3> QED BY <2>1, <2>2, <2>3, <3>1, <3>2, <1>n, CallsFrom
  <2>6. CASE Call \in Enqueues
    <3>1. PICK work : /\ gpu' = Append(gpu, work) /\ work \in Works
                      /\ work.op = OpOf(Call) /\ work.frame = frames
      BY <1>16, <2>6, LaunchDoes
    <3>2. PICK r : r = Append(q, work)
      OBVIOUS
    <3>3. InOrder(m, r, d, s, h)
      BY <2>2, <2>3, <2>4, <2>6, <3>1, <3>2, EnqueueInOrder
    <3> QED BY <2>1, <2>2, <2>3, <3>1, <3>2, <3>3, <1>n, CallsFrom
  <2> QED BY <2>2, <2>5, <2>6
<1>17. CASE Synchronise
  <2>1. /\ pc = "calls" /\ next' = next + 1 /\ frames' = frames /\ gpu' = gpu
        /\ heap' = heap /\ dest' = dest /\ scratch' = scratch /\ host' = host
        /\ Calls[next] = "sync" /\ gpu = <<>>
    BY <1>17 DEF Synchronise, Call
  <2>2. PICK d, s, h, q, n, m : /\ d = heap[dest].holds /\ s = heap[scratch].holds /\ h = host
                                /\ q = gpu /\ n = next /\ m = next + 1
    OBVIOUS
  <2>3. InOrder(n, q, d, s, h)
    BY <2>1, <2>2 DEF CallsInOrder
  <2>4. InOrder(m, q, d, s, h)
    BY <2>1, <2>2, <2>3, QuietInOrder
  <2> QED BY <2>1, <2>2, <2>4, <1>n, CallsFrom
<1>18. CASE CopyResult
  <2>1. /\ pc = "calls" /\ next' = next + 1 /\ frames' = frames /\ gpu' = gpu
        /\ heap' = heap /\ dest' = dest /\ scratch' = scratch /\ host' = heap[scratch].holds
        /\ Calls[next] = "copy"
    BY <1>18 DEF CopyResult, Call
  <2>2. PICK d, s, h, q, n, m : /\ d = heap[dest].holds /\ s = heap[scratch].holds /\ h = host
                                /\ q = gpu /\ n = next /\ m = next + 1
    OBVIOUS
  <2>3. InOrder(n, q, d, s, h)
    BY <2>1, <2>2 DEF CallsInOrder
  <2>4. InOrder(m, q, d, s, s)
    BY <2>1, <2>2, <2>3, CopyInOrder
  <2> QED BY <2>1, <2>2, <2>4, <1>n, CallsFrom
<1>19. CASE CallFails
  BY <1>19, ReturnDoes, <1>a DEF CallFails
<1>20. CASE Publish
  BY <1>20, ReturnDoes, <1>a DEF Publish
<1>21. CASE PublishSkipped
  BY <1>21, ReturnDoes, <1>a DEF PublishSkipped
<1>22. CASE PublishThrows
  BY <1>22, <1>a DEF PublishThrows, Destruct
<1>23. CASE GpuStep
  <2>1. CASE pc # "calls"
    BY <1>23, <2>1, <1>a DEF GpuStep
  <2>2. CASE pc = "calls"
    <3>1. /\ next' = next /\ frames' = frames /\ dest' = dest /\ scratch' = scratch /\ host' = host
      BY <1>23 DEF GpuStep
    <3>2. PICK d, s, h, q, n, r, e, t :
            /\ d = heap[dest].holds /\ s = heap[scratch].holds /\ h = host
            /\ q = gpu /\ n = next /\ r = gpu'
            /\ e = heap'[dest].holds /\ t = heap'[scratch].holds
      OBVIOUS
    <3>3. InOrder(n, q, d, s, h)
      BY <2>2, <3>2 DEF CallsInOrder
    <3>4. /\ q # <<>> /\ Len(q) >= 1 /\ Len(r) = Len(q) - 1 /\ r \in Seq(Works)
          /\ \A k \in 1..Len(r) : r[k] = q[k + 1]
      BY <1>23, <3>2, GpuStepDoes
    <3>5. /\ \A a \in Ids : a # q[1].dst => heap'[a] = heap[a]
          /\ q[1].op = "fill" => e = {q[1].frame}
          /\ q[1].op = "clear" => t = {}
          /\ q[1].op = "sum" => t = s \cup d
      BY <1>23, <3>2, GpuStepDoes
    <3>6. /\ q[1].op = "fill" => q[1].dst = dest
          /\ q[1].op # "fill" => q[1].dst = scratch
      BY <3>2, <3>4 DEF PendingOwned, WorkOf
    <3>7. dest \in Ids /\ scratch # dest /\ (OnDevice => scratch \in Ids)
      BY <2>2, <1>t DEF NodeTypeOK, RoomFits, ScratchFollowsStream, BuffersOwned, Null
    <3>8. /\ q[1].op = "fill"  => e = {q[1].frame} /\ (OnDevice => t = s)
          /\ q[1].op = "clear" => t = {} /\ e = d
          /\ q[1].op = "sum"   => t = s \cup d /\ e = d
      BY <3>2, <3>5, <3>6, <3>7
    <3>9. q \in Seq(Works) /\ node \in Nodes
      BY <3>2, <1>h
    <3>10. InOrder(n, r, e, t, h)
      BY <3>3, <3>4, <3>8, <3>9, ExecuteInOrder
    <3> QED BY <3>1, <3>2, <3>10, <1>n, CallsFrom
  <2> QED BY <2>1, <2>2
<1>24. CASE Destroy
  BY <1>24, <1>a DEF Destroy, Destruct
<1> QED BY <1>1, <1>2, <1>3, <1>4, <1>5, <1>6, <1>7, <1>8, <1>9, <1>10, <1>11, <1>12,
        <1>13, <1>14, <1>15, <1>16, <1>17, <1>18, <1>19, <1>20, <1>21, <1>22, <1>23,
        <1>24 DEF NodeNext

\* Every callback begins with the first call.
LEMMA NextStep ==
  ASSUME NodeInv, NodeNext
  PROVE  NextIsFirst'
<1>t. NextIsFirst /\ NodeTypeOK
  BY DEF NodeInv
<1> USE <1>t DEF streamVars, bufferVars
<1>1. ASSUME NEW i \in Images, Receive(i) PROVE NextIsFirst'
  BY <1>1 DEF Receive, Return, NextIsFirst
<1>2. CASE StateKept
  BY <1>2 DEF StateKept, Return, NextIsFirst
<1>3. CASE StateChanged
  BY <1>3 DEF StateChanged, Return, NextIsFirst
<1>4. CASE SetDevice
  BY <1>4 DEF SetDevice, Return, NextIsFirst
<1>5. CASE CreateStream
  BY <1>5 DEF CreateStream, Return, NextIsFirst
<1>6. CASE StateFails
  BY <1>6 DEF StateFails, Return, NextIsFirst
<1>7. CASE AllocateScratch
  BY <1>7 DEF AllocateScratch, Return, NextIsFirst
<1>8. CASE AllocateScratchFails
  BY <1>8 DEF AllocateScratchFails, Return, NextIsFirst
<1>9. CASE Read
  BY <1>9 DEF Read, Return, NextIsFirst
<1>10. CASE ReadFails
  BY <1>10 DEF ReadFails, Return, NextIsFirst
<1>11. CASE Check
  BY <1>11 DEF Check, Return, NextIsFirst
<1>12. CASE KeepRoom
  BY <1>12 DEF KeepRoom, Return, NextIsFirst
<1>13. CASE MakeRoom
  BY <1>13 DEF MakeRoom, Return, NextIsFirst
<1>14. CASE MakeRoomFails
  BY <1>14 DEF MakeRoomFails, Return, NextIsFirst
<1>15. CASE ReplaceFails
  BY <1>15 DEF ReplaceFails, Return, NextIsFirst
<1>16. CASE Launch
  BY <1>16 DEF Launch, Call, NextIsFirst
<1>17. CASE Synchronise
  BY <1>17 DEF Synchronise, Call, NextIsFirst
<1>18. CASE CopyResult
  BY <1>18 DEF CopyResult, Call, NextIsFirst
<1>19. CASE CallFails
  BY <1>19 DEF CallFails, Return, NextIsFirst
<1>20. CASE Publish
  BY <1>20 DEF Publish, Return, NextIsFirst
<1>21. CASE PublishSkipped
  BY <1>21 DEF PublishSkipped, Return, NextIsFirst
<1>22. CASE PublishThrows
  BY <1>22 DEF PublishThrows, Destruct, NextIsFirst
<1>23. CASE GpuStep
  BY <1>23 DEF GpuStep, Return, NextIsFirst
<1>24. CASE Destroy
  BY <1>24 DEF Destroy, Destruct, NextIsFirst
<1> QED BY <1>1, <1>2, <1>3, <1>4, <1>5, <1>6, <1>7, <1>8, <1>9, <1>10, <1>11, <1>12,
        <1>13, <1>14, <1>15, <1>16, <1>17, <1>18, <1>19, <1>20, <1>21, <1>22, <1>23,
        <1>24 DEF NodeNext


----------------------------------------------------------------------------
(***************************************************************************)
(* The nodes: what is published.                                           *)
(***************************************************************************)

\* All rows but the last, and the last.
LEMMA LastRow ==
  ASSUME NEW r \in Nat, NEW p \in Nat
  PROVE  (r - 1) * p + p = p * r
<1>1. (r - 1) * p = r * p - p
  OBVIOUS
<1>2. r * p = p * r /\ r * p \in Nat
  OBVIOUS
<1> QED BY <1>1, <1>2

\* What a publishable image makes a node take is in the room for its result.
LEMMA TakenFits ==
  ASSUME node \in Nodes, image \in Images, Publishable, Encodable
  PROVE  Taken <= Room(image).bytes
<1>1. /\ image.h \in Nat /\ image.rows \in Nat /\ image.cols \in Nat
      /\ image.channels \in Nat /\ image.bytes \in Nat /\ Room(image).bytes \in Nat
  BY ImageFields, RoomType
<1>2. CASE node = "raw"
  BY <1>1, <1>2, TransportRoomIs DEF Taken, Publishable, RawPublishable, Transport
<1>3. CASE node = "compressed"
  <2>1. /\ Taken = (image.rows - 1) * image.h + MatRow(image)
        /\ image.h * image.rows <= image.bytes
        /\ MatRow(image) <= image.h
        /\ Room(image).bytes = image.bytes
    BY <1>3, TransportRoomIs
    DEF Taken, Publishable, CompressedPublishable, Encodable, Transport
  <2>2. (image.rows - 1) * image.h + image.h = image.h * image.rows
    BY <1>1, LastRow
  <2>3. MatRow(image) \in Nat /\ (image.rows - 1) * image.h \in Int
        /\ image.h * image.rows \in Nat
    BY <1>1 DEF MatRow
  <2> QED BY <1>1, <2>1, <2>2, <2>3
<1>4. CASE node = "preview"
  BY <1>1, <1>4 DEF Taken
<1>5. CASE OnDevice
  BY <1>1, <1>5 DEF Taken, OnDevice
<1> QED BY <1>2, <1>3, <1>4, <1>5 DEF Nodes, OnDevice

\* A message stays that of its image.
LEMMA ReportStays ==
  ASSUME node' = node, report' = report, ReportIsOfItsImage
  PROVE  ReportIsOfItsImage'
<1>1. PICK r : r = report
  OBVIOUS
<1>2. Room(r.image)' = Room(r.image) /\ (OnDevice' <=> OnDevice)
  BY KindStays
<1>3. Room(report.image)' = Room(r.image) /\ Room(report.image) = Room(r.image)
  BY <1>1, <1>2 DEF Room, Transport, EncoderRoom, InferenceRoom, PreviewRoom,
                    TransportRoom, Step
<1> QED BY <1>2, <1>3 DEF ReportIsOfItsImage, NoReport

\* What is published was made from the last message.
LEMMA MadeOfFrame ==
  ASSUME NodeTypeOK, CallsInOrder, Call = "publish"
  PROVE  (IF OnDevice THEN host ELSE heap[dest].holds) = {frames}
<1>0. node \in Nodes
  BY DEF NodeTypeOK
<1>1. pc = "calls" /\ Calls[next] = "publish"
  BY DEF Call
<1>2. InOrder(next, gpu, heap[dest].holds, heap[scratch].holds, host)
  BY <1>1 DEF CallsInOrder
<1>3. next \in 1..Len(Calls) /\ gpu = <<>> /\ (OnDevice => host = {frames})
  BY <1>1, <1>2 DEF InOrder
<1>4. FollowedBy(next)
  BY <1>0, <1>3, CallOrder
<1>5. ~OnDevice => Issued(next) = 1 /\ FillAt = 1
  BY <1>0, <1>1, <1>4, ProgramOrder DEF FollowedBy
<1>6. ~OnDevice => heap[dest].holds = {frames}
  BY <1>2, <1>3, <1>5 DEF InOrder, Executed
<1> QED BY <1>3, <1>6

\* Publishing tells of the image, and what is published stays.
LEMMA ReportStep ==
  ASSUME NodeInv, NodeNext
  PROVE  ReportIsOfItsImage'
<1>t. /\ NodeTypeOK /\ RoomFits /\ CallsInOrder /\ ReportIsOfItsImage
  BY DEF NodeInv
<1>h. node \in Nodes /\ image \in Images
  BY <1>t DEF NodeTypeOK
<1>n. node' = node
  BY NodeStays
<1>s. report' = report => ReportIsOfItsImage'
  BY <1>t, <1>n, ReportStays
<1> USE <1>t, <1>h
<1>1. ASSUME NEW i \in Images, Receive(i) PROVE ReportIsOfItsImage'
  BY <1>1, <1>s DEF Receive
<1>2. CASE StateKept
  BY <1>2, <1>s DEF StateKept
<1>3. CASE StateChanged
  BY <1>3, <1>s DEF StateChanged
<1>4. CASE SetDevice
  BY <1>4, <1>s DEF SetDevice
<1>5. CASE CreateStream
  BY <1>5, <1>s DEF CreateStream
<1>6. CASE StateFails
  BY <1>6, <1>s DEF StateFails
<1>7. CASE AllocateScratch
  BY <1>7, <1>s DEF AllocateScratch
<1>8. CASE AllocateScratchFails
  BY <1>8, <1>s DEF AllocateScratchFails
<1>9. CASE Read
  BY <1>9, <1>s DEF Read
<1>10. CASE ReadFails
  BY <1>10, <1>s DEF ReadFails
<1>11. CASE Check
  BY <1>11, <1>s DEF Check
<1>12. CASE KeepRoom
  BY <1>12, <1>s DEF KeepRoom
<1>13. CASE MakeRoom
  BY <1>13, <1>s DEF MakeRoom
<1>14. CASE MakeRoomFails
  BY <1>14, <1>s DEF MakeRoomFails
<1>15. CASE ReplaceFails
  BY <1>15, <1>s DEF ReplaceFails
<1>16. CASE Launch
  BY <1>16, <1>s DEF Launch
<1>17. CASE Synchronise
  BY <1>17, <1>s DEF Synchronise
<1>18. CASE CopyResult
  BY <1>18, <1>s DEF CopyResult
<1>19. CASE CallFails
  BY <1>19, <1>s DEF CallFails
<1>20. CASE Publish
  <2>1. /\ Call = "publish" /\ Publishable /\ Encodable
        /\ report' = [frame |-> frames, image |-> image, size |-> known, taken |-> Taken,
                      made |-> IF OnDevice THEN host ELSE heap[dest].holds]
    BY <1>20 DEF Publish
  <2>2. /\ report'.frame = frames /\ report'.image = image /\ report'.size = known
        /\ report'.taken = Taken
        /\ report'.made = IF OnDevice THEN host ELSE heap[dest].holds
    BY <2>1
  <2>3. report'.made = {frames}
    BY <2>1, <2>2, <1>t, MadeOfFrame
  <2>4. report'.taken <= Room(image).bytes
    BY <2>1, <2>2, <1>h, TakenFits
  <2>5. OnDevice => report'.size = Room(image).known
    BY <2>1, <2>2, <1>t DEF RoomFits, Call
  <2>6. PICK i : i = image
    OBVIOUS
  <2>7. Room(i)' = Room(i) /\ (OnDevice' <=> OnDevice)
    BY <1>n, KindStays
  <2>8. Room(report.image)' = Room(image)
    BY <2>2, <2>6, <2>7 DEF Room, Transport, EncoderRoom, InferenceRoom, PreviewRoom,
                            TransportRoom, Step
  <2> QED BY <2>2, <2>3, <2>4, <2>5, <2>7, <2>8 DEF ReportIsOfItsImage
<1>21. CASE PublishSkipped
  BY <1>21, <1>s DEF PublishSkipped
<1>22. CASE PublishThrows
  BY <1>22, <1>s DEF PublishThrows, Destruct
<1>23. CASE GpuStep
  BY <1>23, <1>s DEF GpuStep
<1>24. CASE Destroy
  BY <1>24, <1>s DEF Destroy, Destruct
<1> QED BY <1>1, <1>2, <1>3, <1>4, <1>5, <1>6, <1>7, <1>8, <1>9, <1>10, <1>11, <1>12,
        <1>13, <1>14, <1>15, <1>16, <1>17, <1>18, <1>19, <1>20, <1>21, <1>22, <1>23,
        <1>24 DEF NodeNext

----------------------------------------------------------------------------
(***************************************************************************)
(* The nodes: the theorems.                                                *)
(***************************************************************************)

\* A node begins without buffers, work and message.
LEMMA NodeInitInv == NodeInit => NodeInv
<1> SUFFICES ASSUME NodeInit PROVE NodeInv
  OBVIOUS
<1> USE DEF NodeInit, NoStream, Null, Free
<1>1. \A a \in Ids : heap[a] = Free
  OBVIOUS
<1>2. NodeTypeOK
  <2>1. /\ node \in Nodes /\ pc \in Stages /\ next \in Nat /\ image \in Images
        /\ frames \in Nat /\ received \in Nat
    BY DEF Stages
  <2>2. device \in Nat /\ device_id \in Nat \cup {-1} /\ stream \in Nat \cup {-1}
    OBVIOUS
  <2>3. scratch = Null /\ dest = Null /\ known \in Seq(Nat) /\ gpu \in Seq(Works)
    OBVIOUS
  <2>4. heap \in [Ids -> Allocations]
    BY DEF Allocations, Host
  <2>5. host \subseteq Nat
    OBVIOUS
  <2> QED BY <2>1, <2>2, <2>3, <2>4, <2>5 DEF NodeTypeOK
<1>3. BuffersOwned
  BY <1>1 DEF BuffersOwned, Ids
<1>4. ScratchFollowsStream
  BY Kinds DEF ScratchFollowsStream
<1>5. KnownFits /\ RoomFits
  BY DEF KnownFits, RoomFits
<1>6. PendingOwned
  BY DEF PendingOwned
<1>7. CallsInOrder /\ NextIsFirst /\ ReportIsOfItsImage
  BY DEF CallsInOrder, NextIsFirst, ReportIsOfItsImage
<1> QED BY <1>2, <1>3, <1>4, <1>5, <1>6, <1>7 DEF NodeInv

\* Every step of a node keeps its invariant.
LEMMA NodeNextInv == NodeInv /\ [NodeNext]_nodeVars => NodeInv'
<1> SUFFICES ASSUME NodeInv, [NodeNext]_nodeVars PROVE NodeInv'
  OBVIOUS
<1>1. CASE NodeNext
  BY <1>1, NodeTypeStep, BuffersStep, ScratchStep, KnownStep, RoomStep, PendingStep, CallsStep,
     NextStep, ReportStep DEF NodeInv
<1>2. CASE UNCHANGED nodeVars
  <2>1. /\ node' = node /\ pc' = pc /\ next' = next /\ image' = image /\ frames' = frames
        /\ received' = received /\ device' = device /\ device_id' = device_id
        /\ stream' = stream /\ scratch' = scratch /\ dest' = dest /\ known' = known
        /\ heap' = heap /\ gpu' = gpu /\ host' = host /\ report' = report
    BY <1>2 DEF nodeVars, streamVars, bufferVars
  <2>2. (NodeTypeOK /\ BuffersOwned /\ ScratchFollowsStream)'
    BY <2>1 DEF NodeInv, NodeTypeOK, BuffersOwned, ScratchFollowsStream, OnDevice
  <2>3. /\ (OnDevice' <=> OnDevice) /\ (Transport' <=> Transport)
        /\ Calls' = Calls /\ Program' = Program /\ FillAt' = FillAt /\ ClearAt' = ClearAt
    BY <2>1, KindStays
  <2>4. \A i : Room(i)' = Room(i) /\ (Processable(i)' <=> Processable(i))
    BY <2>1, KindStays
  <2>5. KnownFits' /\ RoomFits'
    BY <2>1, <2>3, <2>4 DEF NodeInv, KnownFits, RoomFits
  <2>6. Call' = Call
    BY <2>1, <2>3 DEF Call
  <2>7. PendingOwned'
    <3>1. \A work : WorkOf(work)' <=> WorkOf(work)
      BY <2>1, WorkStays
    <3>2. \A k \in 1..Len(gpu') : WorkOf(gpu'[k])
      BY <2>1 DEF NodeInv, PendingOwned
    <3>3. ~OnDevice' /\ gpu' # <<>> => Call' = "sync"
      BY <2>1, <2>3, <2>6 DEF NodeInv, PendingOwned
    <3> QED BY <3>1, <3>2, <3>3, PendingFrom
  <2>8. CallsInOrder'
    <3>1. PICK d, s, h, q, n : /\ d = heap[dest].holds /\ s = heap[scratch].holds /\ h = host
                               /\ q = gpu /\ n = next
      OBVIOUS
    <3>2. pc = "calls" => InOrder(n, q, d, s, h)
      BY <3>1 DEF NodeInv, CallsInOrder
    <3>3. CASE pc = "calls"
      BY <2>1, <3>1, <3>2, <3>3, CallsFrom
    <3>4. CASE pc # "calls"
      BY <2>1, <3>4 DEF CallsInOrder
    <3> QED BY <3>3, <3>4
  <2>9. NextIsFirst'
    BY <2>1 DEF NodeInv, NextIsFirst
  <2>10. ReportIsOfItsImage'
    BY <2>1, ReportStays DEF NodeInv
  <2> QED BY <2>2, <2>5, <2>7, <2>8, <2>9, <2>10 DEF NodeInv
<1> QED BY <1>1, <1>2


\* The invariant of the nodes, of any images, devices and number of messages.
THEOREM NodeInvariant == NodeSpec => []NodeInv
<1> QED BY NodeInitInv, NodeNextInv, PTL DEF NodeSpec

\* The state of a node stays as typed.
THEOREM NodeTypeCorrect == NodeSpec => []NodeTypeOK
<1>1. NodeInv => NodeTypeOK
  BY DEF NodeInv
<1> QED BY <1>1, NodeInvariant, PTL

\* Whatever is left in the stream reads inside the byte_size of its image and writes
\* into buffers that exist, are large enough and in the right place, although calls
\* fail, images change in size and the device is switched (on_image,
\* ensure_cuda_state and cleanup_cuda_state of the example nodes, and the callbacks
\* of the transport plugins).
THEOREM WorkFits == NodeSpec => []PendingWorkFits
<1>1. NodeInv => PendingWorkFits
  <2> SUFFICES ASSUME NodeInv, NEW k \in 1..Len(gpu)
               PROVE  LET work == gpu[k] IN
                      /\ work.op = "fill" =>
                           /\ \A o \in Reads(work.image) : o < work.image.bytes
                           /\ Room(work.image).bytes <= heap[work.dst].bytes
                      /\ work.op = "sum" => work.src \in Live
                      /\ work.dst \in Live /\ heap[work.dst].place \in {work.image.device, Host}
    BY DEF PendingWorkFits
  <2>1. /\ NodeTypeOK /\ BuffersOwned /\ ScratchFollowsStream /\ KnownFits /\ PendingOwned
    BY DEF NodeInv
  <2>2. PICK work \in Works : work = gpu[k]
    BY <2>1, PendingType
  <2>3. work.op \in {"fill", "clear", "sum"} /\ work.image \in Images
    BY <2>2 DEF Works
  <2>4. WorkOf(work)
    BY <2>1, <2>2 DEF PendingOwned
  <2>5. \A a \in Ids : a \in {scratch, dest} => a \in Live
    BY <2>1 DEF BuffersOwned, Live
  <2>6. work.dst \in Live /\ (work.op = "sum" => work.src \in Live)
    BY <2>1, <2>3, <2>4, <2>5 DEF WorkOf, NodeTypeOK
  <2>7. work.op = "fill" => /\ \A o \in Reads(work.image) : o < work.image.bytes
                            /\ Room(work.image).bytes <= heap[work.dst].bytes
    BY <2>1, <2>3, <2>4, ReadsFit DEF WorkOf, NodeTypeOK
  <2>8. heap[work.dst].place \in {work.image.device, Host}
    <3>1. CASE OnDevice
      <4>1. work.image.device = device_id
        BY <3>1, <2>4 DEF WorkOf
      <4>2. work.dst \in {scratch, dest} /\ work.dst # Null /\ scratch # Null
        <5>1. gpu # <<>>
          BY <2>1 DEF NodeTypeOK
        <5> QED BY <3>1, <5>1, <2>1, <2>3, <2>4 DEF WorkOf, ScratchFollowsStream
      <4> QED BY <3>1, <4>1, <4>2, <2>1 DEF ScratchFollowsStream
    <3>2. CASE ~OnDevice
      <4>1. scratch = Null
        BY <3>2, <2>1 DEF BuffersOwned
      <4>2. work.op = "fill" /\ work.dst = dest /\ dest # Null
        BY <4>1, <2>3, <2>4 DEF WorkOf
      <4> QED BY <3>2, <4>2, <2>1 DEF KnownFits
    <3> QED BY <3>1, <3>2
  <2> QED BY <2>2, <2>6, <2>7, <2>8
<1> QED BY <1>1, NodeInvariant, PTL

\* A published result is of the pixels of its own image, whatever earlier callbacks
\* left in the stream, the buffers and the fields (on_image of the example nodes,
\* publish_frame of the transport plugins).
THEOREM ReportsAreOwn == NodeSpec => []ReportIsOfItsImage
<1>1. NodeInv => ReportIsOfItsImage
  BY DEF NodeInv
<1> QED BY <1>1, NodeInvariant, PTL

\* No allocation is lost between callbacks, and the destructor leaves none
\* (cleanup_cuda_state and the destructors).
THEOREM BuffersAreOwned == NodeSpec => []NodeOwnsItsBuffers
<1>1. NodeInv => NodeOwnsItsBuffers
  <2> SUFFICES ASSUME NodeInv, pc \in {"idle", "down"}
               PROVE  /\ Live = {scratch, dest} \ {Null}
                      /\ OnDevice => (stream = NoStream <=> scratch = Null)
                      /\ pc = "down" => Live = {}
    BY DEF NodeOwnsItsBuffers
  <2>1. NodeTypeOK /\ BuffersOwned /\ ScratchFollowsStream
    BY DEF NodeInv
  <2>2. Live = {scratch, dest} \ {Null}
    BY <2>1 DEF NodeTypeOK, BuffersOwned, Live, Ids, Null
  <2>3. OnDevice => (stream = NoStream <=> scratch = Null)
    BY <2>1 DEF ScratchFollowsStream
  <2>4. pc = "down" => Live = {}
    BY <2>1, <2>2 DEF BuffersOwned
  <2> QED BY <2>2, <2>3, <2>4
<1> QED BY <1>1, NodeInvariant, PTL
=============================================================================
