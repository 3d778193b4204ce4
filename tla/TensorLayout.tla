---------------------------- MODULE TensorLayout ----------------------------
(***************************************************************************)
(* The arithmetic between a message and the data it describes: what the    *)
(* Python bindings take from a descriptor, which images become a DLPack    *)
(* tensor, and which point clouds a typed handle accepts.  Images are the  *)
(* records of ImageLayout.                                                 *)
(*                                                                         *)
(* A point cloud is a record of height, width, point_step, row_step and    *)
(* fields, each with an offset, an element size (0 for an unknown          *)
(* datatype) and a count.                                                  *)
(***************************************************************************)
EXTENDS ImageLayout

CONSTANT WordMax   \* the largest uint64 and the largest address

ASSUME WordAssumption == WordMax \in Nat /\ WordMax >= (StepModulus - 1) * (StepModulus - 1)

CountMax == StepModulus - 1      \* the largest uint32
Int64Max == WordMax \div 2

Shape(i)   == <<i.rows, i.cols, i.channels>>
Strides(i) == <<i.h, i.w, i.c>>

\* Python integers that fit the fields of the message.
Parsed(i) ==
  /\ \A k \in 1..3 : Shape(i)[k] \in 0..CountMax /\ Strides(i)[k] \in 0..WordMax
  /\ i.bytes \in 0..WordMax

validate_image_descriptor(i) ==
  /\ i.elem > 0
  /\ \A k \in 1..3 : Shape(i)[k] # 0
  /\ Needed(i) <= WordMax /\ Needed(i) <= i.bytes

\* project_to_tensor does not throw.
Projectable(i, data, size) ==
  /\ data # 0 /\ i.elem # 0
  /\ \A k \in 1..3 :
       /\ Shape(i)[k] # 0
       /\ Strides(i)[k] % i.elem = 0
       /\ Shape(i)[k] > 1 => Strides(i)[k] >= i.elem
       /\ Strides(i)[k] \div i.elem <= Int64Max
  /\ Needed(i) <= WordMax /\ Needed(i) <= size
  /\ size <= WordMax - data /\ Needed(i) <= WordMax - data

\* ... and what it then returns.
Tensor(i, data) ==
  [data |-> data, shape |-> Shape(i), elem |-> i.elem,
   element_strides |-> [k \in 1..3 |-> Strides(i)[k] \div i.elem]]

\* PointCloud2ReadHandle::from_message on a valid read of size bytes.
FieldFits(f, point_step) ==
  /\ f.elem # 0 /\ f.count # 0
  /\ f.offset < point_step
  /\ f.elem * f.count <= point_step - f.offset

CloudFits(p, size) ==
  /\ p.height # 0
  /\ p.row_step >= p.point_step * p.width
  /\ LET needed == p.row_step * (p.height - 1) + p.point_step * p.width IN
       needed <= WordMax /\ needed <= size
  /\ \A f \in p.fields : FieldFits(f, p.point_step)

----------------------------------------------------------------------------
(***************************************************************************)
(* What can be reached through a handle: the offsets of an image's and of  *)
(* a cloud's data in the block, the addresses of a tensor's elements.      *)
(***************************************************************************)
ImageBytes(i) ==
  {y * i.h + x * i.w + c * i.c + k :
     y \in 0..(i.rows - 1), x \in 0..(i.cols - 1), c \in 0..(i.channels - 1),
     k \in 0..(i.elem - 1)}

CloudBytes(p) ==
  UNION {{y * p.row_step + x * p.point_step + f.offset + k :
            y \in 0..(p.height - 1), x \in 0..(p.width - 1),
            k \in 0..(f.elem * f.count - 1)} : f \in p.fields}

TensorBytes(t) ==
  {t.data + t.elem * (y * t.element_strides[1] + x * t.element_strides[2]
                      + c * t.element_strides[3]) + k :
     y \in 0..(t.shape[1] - 1), x \in 0..(t.shape[2] - 1), c \in 0..(t.shape[3] - 1),
     k \in 0..(t.elem - 1)}
============================================================================
