--------------------------- MODULE MCConsumerNode ---------------------------
(***************************************************************************)
(* Instances of ConsumerNode for TLC.                                      *)
(***************************************************************************)
EXTENDS ConsumerNode

Rgba(d, r, c, h, b) ==
  [device |-> d, rows |-> r, cols |-> c, channels |-> 4, h |-> h, w |-> 4, c |-> 1,
   elem |-> 1, bytes |-> b]

\* Tight and padded images of several sizes, the last row of a padded one with
\* and without its padding.
Valid == {Rgba(0, 2, 2, 8, 16), Rgba(1, 2, 2, 8, 16), Rgba(0, 2, 4, 20, 36),
          Rgba(0, 3, 2, 12, 32), Rgba(0, 1, 4, 20, 20)}

\* A block one byte short, rows that overlap, a planar layout, two-byte elements,
\* an unknown dtype.
Odd == {Rgba(0, 2, 2, 8, 15), Rgba(0, 2, 2, 4, 16),
        [Rgba(0, 2, 2, 2, 16) EXCEPT !.w = 1, !.c = 4],
        [Rgba(0, 2, 2, 16, 32) EXCEPT !.w = 8, !.c = 2, !.elem = 2],
        [Rgba(0, 2, 2, 8, 16) EXCEPT !.elem = 0]}

SmallImages == Valid \cup Odd
=============================================================================
