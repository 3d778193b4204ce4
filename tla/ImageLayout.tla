---------------------------- MODULE ImageLayout ----------------------------
(***************************************************************************)
(* What the subscribers of the repository accept as an image and which     *)
(* bytes of the mapped block they then touch.                              *)
(*                                                                         *)
(* An image is a record of the fields of a GpuImage message: rows, cols,   *)
(* channels, their byte strides h, w, c, the element size elem of its      *)
(* dtype (0 for an unknown one), the byte_size bytes of its buffer and the *)
(* device the block is on.                                                 *)
(***************************************************************************)
EXTENDS Integers

CONSTANT StepModulus   \* 2^32: sensor_msgs::msg::Image::step is a uint32

ASSUME StepAssumption == StepModulus \in Nat \ {0}

\* Mutant: the columns of the last row are forgotten.
MutNeeded(i) == (i.rows - 1) * i.h + (i.channels - 1) * i.c + i.elem

\* The offset behind the last element, in 128 bits.
Needed(i) ==
  (i.rows - 1) * i.h + (i.cols - 1) * i.w + (i.channels - 1) * i.c + i.elem

sanity_check(i) ==
  /\ i.rows > 0 /\ i.cols > 0 /\ i.channels > 0 /\ i.elem > 0
  /\ Needed(i) <= i.bytes

\* is_supported_rgba8_layout, with the test of dtype and channels before it.
SupportedRgba8(i) ==
  /\ i.elem = 1 /\ i.channels = 4
  /\ i.c = 1 /\ i.w = 4 /\ i.h >= i.cols * 4

\* The step of the preview's message, cast to its type.
Step(i) == (i.cols * 4) % StepModulus

----------------------------------------------------------------------------
(***************************************************************************)
(* The bytes of the block that kernels and copies read.                    *)
(***************************************************************************)
Pixels(i, xs, ys) == {y * i.h + x * 4 + k : y \in ys, x \in xs, k \in 0..2}

\* rgba_to_luma_downscale2_kernel: pairs of columns and rows.
LumaReads(i) ==
  Pixels(i, 0..(2 * (i.cols \div 2) - 1), 0..(2 * (i.rows \div 2) - 1))

\* rgba_to_normalized_gray_kernel: every pixel.
GrayReads(i) == Pixels(i, 0..(i.cols - 1), 0..(i.rows - 1))

\* cudaMemcpy2DAsync: Step bytes of every row.
PreviewReads(i) == {y * i.h + b : y \in 0..(i.rows - 1), b \in 0..(Step(i) - 1)}

\* cudaMemcpyAsync of the whole block.
TransportReads(i) == 0..(i.bytes - 1)
============================================================================
