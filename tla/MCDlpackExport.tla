--------------------------- MODULE MCDlpackExport ---------------------------
(***************************************************************************)
(* An instance of DlpackExport for TLC: words of 5 bits, counts of 2.      *)
(***************************************************************************)
EXTENDS DlpackExport

Image(r, c, n, h, w, k, e, b) ==
  [device |-> 0, rows |-> r, cols |-> c, channels |-> n, h |-> h, w |-> w, c |-> k,
   elem |-> e, bytes |-> b]

\* Tight, padded, interleaved, planar, overlapping and broadcast layouts, in a
\* block that just fits, is one byte short or has one to spare.
Fitting == {[i EXCEPT !.bytes = Needed(i) + d] :
              i \in {Image(r, c, n, h, w, k, e, 0) :
                       r \in 1..2, c \in 2..3, n \in 1..2, h \in {0, 3, 8}, w \in {1, 2},
                       k \in {0, 1, 4}, e \in 1..2},
              d \in -1..1}

\* A dimension of zero or too large, an unknown dtype, a negative size, strides
\* beyond int64 and uint64, a block that ends where the address space does.
Odd == {Image(0, 1, 1, 1, 1, 1, 1, 4), Image(1, 4, 1, 1, 1, 1, 1, 4),
        Image(1, 1, 1, 1, 1, 1, 0, 4), Image(1, 1, 1, 1, 1, 1, 1, -1),
        Image(1, 1, 1, 16, 1, 1, 1, 4), Image(1, 1, 1, 30, 1, 1, 2, 4),
        Image(1, 1, 1, 32, 1, 1, 1, 4), Image(2, 1, 1, 31, 1, 1, 1, 31),
        Image(1, 1, 1, 1, 1, 1, 1, 28)}

SomeImages == Fitting \cup Odd

SomeSizes == {-1, 3, 9, 12, 32}

\* Smaller and larger than what messages say of the block.
SomeExtents == {4, 16}

SomeClouds == {[height |-> h, width |-> w, point_step |-> 3, row_step |-> s, fields |-> f] :
                 h \in 0..2, w \in 0..2, s \in {3, 6, 7},
                 f \in {{[offset |-> o, elem |-> e, count |-> n]} :
                          o \in 0..3, e \in 0..2, n \in 0..2}}
=============================================================================
