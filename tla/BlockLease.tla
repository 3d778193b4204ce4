----------------------------- MODULE BlockLease -----------------------------
(***************************************************************************)
(* What the metadata of one block promises, without its atomics: a block   *)
(* has a generation, at most one owner at a time, and leases that readers  *)
(* hold on a generation.  A claim needs a block nobody refers to; only the *)
(* claim's owner moves the block to the next generation; once it has moved *)
(* no lease is granted until the owner has finished.  Leases are still     *)
(* granted between the claim and the move: this is the guarantee the code  *)
(* gives, not the stronger one its documents describe.                     *)
(***************************************************************************)
EXTENDS Integers

CONSTANTS
  Readers, Publishers,
  NoThread,             \* the block has no owner
  InitGens, GenMax      \* first generations, and the last one

VARIABLES
  gen,      \* generation of the block's contents
  phase,    \* "free", "claimed" (old contents) or "writing" (new contents)
  owner,    \* the publisher thread of a block that is not free
  leases,   \* per reader: 0 or the generation it may read
  pinned    \* some reference will never be returned

leaseVars == <<gen, phase, owner, leases, pinned>>

LeaseInit ==
  /\ gen \in InitGens
  /\ phase = "free"
  /\ owner = NoThread
  /\ leases = [r \in Readers |-> 0]
  /\ pinned = FALSE

Claim(p) ==
  /\ phase = "free" /\ gen # GenMax
  /\ ~pinned /\ \A r \in Readers : leases[r] = 0
  /\ phase' = "claimed" /\ owner' = p
  /\ UNCHANGED <<gen, leases, pinned>>

Advance(p) ==
  /\ phase = "claimed" /\ owner = p
  /\ gen' = gen + 1
  /\ phase' = "writing"
  /\ UNCHANGED <<owner, leases, pinned>>

Finish(p) ==
  /\ phase = "writing" /\ owner = p
  /\ phase' = "free" /\ owner' = NoThread
  /\ pinned' \in {pinned, TRUE}
  /\ UNCHANGED <<gen, leases>>

Grant(r) ==
  /\ phase # "writing"
  /\ leases[r] = 0
  /\ leases' = [leases EXCEPT ![r] = gen]
  /\ UNCHANGED <<gen, phase, owner, pinned>>

Drop(r) ==
  /\ leases' = [leases EXCEPT ![r] = 0]
  /\ pinned' \in {pinned, TRUE}
  /\ UNCHANGED <<gen, phase, owner>>

LeaseNext ==
  \/ \E p \in Publishers : Claim(p) \/ Advance(p) \/ Finish(p)
  \/ \E r \in Readers : Grant(r) \/ Drop(r)

LeaseSpec == LeaseInit /\ [][LeaseNext]_leaseVars
=============================================================================
