----------------------------- MODULE BufferRef -----------------------------
(***************************************************************************)
(* The process-shared metadata of ONE block (uid, refcount, publish        *)
(* timestamp) and the lock-free protocol that BufferRef runs on it:        *)
(* reserve_for_publish, commit_publish and cancel_publish on the publisher *)
(* side, acquire and release on the subscriber side.  Every access to one  *)
(* of the three atomics is a step of its own, so every interleaving of     *)
(* publisher threads and subscriber processes is explored.                 *)
(*                                                                         *)
(* The pool mutex serialises reserve and commit among the threads of the   *)
(* publisher process (GpuBufferPool); cancel runs without it.              *)
(***************************************************************************)
EXTENDS Integers, FiniteSets

CONSTANTS
  Readers,      \* subscriber threads, in any number of processes
  Publishers,   \* threads of the publisher process
  NoThread,     \* the pool mutex is free
  InitUids,     \* values initial_uid() may draw
  UidMax,       \* numeric_limits<uint64_t>::max()
  RefMax,       \* numeric_limits<uint32_t>::max()
  Grace,        \* kGracePeriodUs
  MaxClock,     \* model bound: the last instant of the steady clock
  MaxLeaks      \* model bound: subscribers crash while fewer are leaked

ASSUME ThreadsAssumption ==
  /\ IsFiniteSet(Readers) /\ IsFiniteSet(Publishers)
  /\ NoThread \notin Publishers

ASSUME WidthAssumption ==
  /\ UidMax \in Nat \ {0} /\ RefMax \in Nat \ {0}
  /\ Grace \in Nat \ {0} /\ MaxClock \in Nat \ {0}
  /\ MaxLeaks \in Nat
  /\ InitUids \subseteq 1..UidMax

VARIABLES
  uid, refcount, ts,   \* BlockMetadata, in shared memory
  clock,               \* steady_clock, in microseconds
  mutex,               \* GpuBufferPool::mutex_
  msgs,                \* uids of the descriptors handed to the middleware
  leaked,              \* references whose owner is gone and that stay counted
  ppc, puid, pnow,     \* per publisher thread: control, uid and now locals
  rpc, ruid, robs      \* per subscriber thread: control, uid and observed_ref

blockVars == <<uid, refcount, ts>>
pubVars   == <<ppc, puid, pnow>>
readVars  == <<rpc, ruid, robs>>
vars == <<uid, refcount, ts, clock, mutex, msgs, leaked,
          ppc, puid, pnow, rpc, ruid, robs>>

PubPC == {"idle", "loadRef", "loadTs", "claim", "loadUid", "storeUid",
          "resetTs", "reserved", "stamp", "commitSub", "cancelSub",
          "overflow", "underflow"}
ReadPC == {"idle", "load", "cas", "recheck", "undo", "holding", "underflow"}

\* A publisher thread in one of these states owns one unit of refcount.
Claimed  == {"loadUid", "storeUid", "resetTs", "reserved", "stamp",
             "commitSub", "cancelSub", "overflow"}
\* ... and in one of these it has already stored its new uid.
Advanced == {"resetTs", "reserved", "stamp", "commitSub", "cancelSub"}
\* A subscriber thread in one of these states owns one unit of refcount.
Counted  == {"recheck", "undo", "holding"}

Owners         == {p \in Publishers : ppc[p] \in Claimed}
CountedReaders == {r \in Readers : rpc[r] \in Counted}

TypeOK ==
  /\ uid \in 1..UidMax
  /\ refcount \in 0..RefMax
  /\ ts \in 0..MaxClock
  /\ clock \in 1..MaxClock
  /\ mutex \in Publishers \cup {NoThread}
  /\ msgs \subseteq 1..UidMax
  /\ leaked \in Nat
  /\ ppc \in [Publishers -> PubPC]
  /\ puid \in [Publishers -> 0..UidMax]
  /\ pnow \in [Publishers -> 0..MaxClock]
  /\ rpc \in [Readers -> ReadPC]
  /\ ruid \in [Readers -> 0..UidMax]
  /\ robs \in [Readers -> 0..RefMax]

Init ==
  /\ uid \in InitUids
  /\ refcount = 0
  /\ ts = 0
  /\ clock = 1
  /\ mutex = NoThread
  /\ msgs = {}
  /\ leaked = 0
  /\ ppc = [p \in Publishers |-> "idle"]
  /\ puid = [p \in Publishers |-> 0]
  /\ pnow = [p \in Publishers |-> 0]
  /\ rpc = [r \in Readers |-> "idle"]
  /\ ruid = [r \in Readers |-> 0]
  /\ robs = [r \in Readers |-> 0]

\* Mutant: the counter is treated as signed.
MutDecremented(n) == n - 1

\* fetch_sub on an unsigned 32-bit counter wraps below zero.
Decremented(n) == IF n = 0 THEN RefMax ELSE n - 1

----------------------------------------------------------------------------
(***************************************************************************)
(* reserve_for_publish, called with the pool mutex held.                   *)
(***************************************************************************)

\* A publisher thread moves on and keeps its locals.
PGoto(p, to) ==
  /\ ppc' = [ppc EXCEPT ![p] = to]
  /\ UNCHANGED <<puid, pnow>>

\* The thread is back in its caller and holds nothing: its locals are gone.
PReturn(p) ==
  /\ ppc' = [ppc EXCEPT ![p] = "idle"]
  /\ puid' = [puid EXCEPT ![p] = 0]
  /\ pnow' = [pnow EXCEPT ![p] = 0]

\* Mutant: reserve_for_publish is called without waiting for the pool mutex.
MutReserveBegin(p) ==
  /\ ppc[p] = "idle"
  /\ mutex' = p
  /\ ppc' = [ppc EXCEPT ![p] = "loadRef"]
  /\ pnow' = [pnow EXCEPT ![p] = clock]
  /\ UNCHANGED <<uid, refcount, ts, clock, msgs, leaked, puid, readVars>>

\* Take the mutex and read now_us(), before any of the metadata is read.
ReserveBegin(p) ==
  /\ ppc[p] = "idle" /\ mutex = NoThread
  /\ mutex' = p
  /\ ppc' = [ppc EXCEPT ![p] = "loadRef"]
  /\ pnow' = [pnow EXCEPT ![p] = clock]
  /\ UNCHANGED <<uid, refcount, ts, clock, msgs, leaked, puid, readVars>>

ReserveLoadRefcount(p) ==
  /\ ppc[p] = "loadRef"
  /\ \/ /\ refcount = 0
        /\ PGoto(p, "loadTs") /\ UNCHANGED mutex
     \/ /\ refcount # 0
        /\ PReturn(p) /\ mutex' = NoThread
  /\ UNCHANGED <<uid, refcount, ts, clock, msgs, leaked, readVars>>

\* The block is still in the grace period of its last publication.
InGrace(now, published_at) ==
  published_at # 0 /\ (now < published_at \/ now - published_at < Grace)

ReserveLoadTimestamp(p) ==
  /\ ppc[p] = "loadTs"
  /\ \/ /\ ~InGrace(pnow[p], ts)
        /\ PGoto(p, "claim") /\ UNCHANGED mutex
     \/ /\ InGrace(pnow[p], ts)
        /\ PReturn(p) /\ mutex' = NoThread
  /\ UNCHANGED <<uid, refcount, ts, clock, msgs, leaked, readVars>>

\* Mutant: a plain store instead of the compare-exchange.
MutReserveClaim(p) ==
  /\ ppc[p] = "claim"
  /\ refcount' = 1
  /\ PGoto(p, "loadUid")
  /\ UNCHANGED <<uid, ts, clock, mutex, msgs, leaked, readVars>>

\* compare_exchange_strong(0 -> 1): the claim.
ReserveClaim(p) ==
  /\ ppc[p] = "claim"
  /\ \/ /\ refcount = 0
        /\ refcount' = 1
        /\ PGoto(p, "loadUid") /\ UNCHANGED mutex
     \/ /\ refcount # 0
        /\ PReturn(p) /\ mutex' = NoThread /\ UNCHANGED refcount
  /\ UNCHANGED <<uid, ts, clock, msgs, leaked, readVars>>

ReserveLoadUid(p) ==
  /\ ppc[p] = "loadUid"
  /\ \/ /\ uid = UidMax
        /\ PGoto(p, "overflow")
     \/ /\ uid # UidMax
        /\ puid' = [puid EXCEPT ![p] = uid]
        /\ ppc' = [ppc EXCEPT ![p] = "storeUid"]
        /\ UNCHANGED pnow
  /\ UNCHANGED <<uid, refcount, ts, clock, mutex, msgs, leaked, readVars>>

\* Mutant: the uid is not incremented.
MutReserveStoreUid(p) ==
  /\ ppc[p] = "storeUid"
  /\ ppc' = [ppc EXCEPT ![p] = "resetTs"]
  /\ UNCHANGED <<uid, refcount, ts, clock, mutex, msgs, leaked, puid, pnow,
                 readVars>>

ReserveStoreUid(p) ==
  /\ ppc[p] = "storeUid"
  /\ uid' = puid[p] + 1
  /\ puid' = [puid EXCEPT ![p] = puid[p] + 1]
  /\ ppc' = [ppc EXCEPT ![p] = "resetTs"]
  /\ UNCHANGED <<refcount, ts, clock, mutex, msgs, leaked, pnow, readVars>>

\* Clear the timestamp, return the reservation and release the mutex.
ReserveResetTimestamp(p) ==
  /\ ppc[p] = "resetTs"
  /\ ts' = 0
  /\ mutex' = NoThread
  /\ ppc' = [ppc EXCEPT ![p] = "reserved"]
  /\ pnow' = [pnow EXCEPT ![p] = 0]
  /\ UNCHANGED <<uid, refcount, clock, msgs, leaked, puid, readVars>>

----------------------------------------------------------------------------
(***************************************************************************)
(* release_publisher_reservation: commit_publish with the mutex held,      *)
(* cancel_publish without it; and the reservation that is never released.  *)
(***************************************************************************)

\* The uid check, then now_us(): the clock cannot be read before the check.
CommitBegin(p) ==
  /\ ppc[p] = "reserved" /\ mutex = NoThread
  /\ IF uid = puid[p]
     THEN /\ mutex' = p
          /\ ppc' = [ppc EXCEPT ![p] = "stamp"]
          /\ pnow' = [pnow EXCEPT ![p] = clock]
          /\ UNCHANGED <<puid, leaked>>
     ELSE PReturn(p) /\ leaked' = leaked + 1 /\ UNCHANGED mutex
  /\ UNCHANGED <<uid, refcount, ts, clock, msgs, readVars>>

CommitStampTimestamp(p) ==
  /\ ppc[p] = "stamp"
  /\ ts' = pnow[p]
  /\ PGoto(p, "commitSub")
  /\ UNCHANGED <<uid, refcount, clock, mutex, msgs, leaked, readVars>>

\* The reservation's reference is dropped; the descriptor goes to the
\* middleware, from where it may be delivered late, repeatedly or never.
CommitRelease(p) ==
  /\ ppc[p] = "commitSub"
  /\ refcount' = Decremented(refcount)
  /\ IF refcount = 0
     THEN PGoto(p, "underflow") /\ UNCHANGED <<mutex, msgs>>
     ELSE /\ PReturn(p) /\ mutex' = NoThread
          /\ msgs' = msgs \cup {puid[p]}
  /\ UNCHANGED <<uid, ts, clock, leaked, readVars>>

CancelBegin(p) ==
  /\ ppc[p] = "reserved"
  /\ IF uid = puid[p]
     THEN PGoto(p, "cancelSub") /\ UNCHANGED leaked
     ELSE PReturn(p) /\ leaked' = leaked + 1
  /\ UNCHANGED <<uid, refcount, ts, clock, mutex, msgs, readVars>>

CancelRelease(p) ==
  /\ ppc[p] = "cancelSub"
  /\ refcount' = Decremented(refcount)
  /\ IF refcount = 0 THEN PGoto(p, "underflow") ELSE PReturn(p)
  /\ UNCHANGED <<uid, ts, clock, mutex, msgs, leaked, readVars>>

\* refcount.store(0): the uid overflow path of reserve and the underflow
\* path of commit and cancel.
StoreZero(p) ==
  /\ ppc[p] \in {"overflow", "underflow"}
  /\ refcount' = 0
  /\ PReturn(p)
  /\ mutex' = IF mutex = p THEN NoThread ELSE mutex
  /\ UNCHANGED <<uid, ts, clock, msgs, leaked, readVars>>

\* prepare_publish could not record the ready event or build the descriptor:
\* the reservation is never released (until the pool drops the block).
Quarantine(p) ==
  /\ ppc[p] = "reserved"
  /\ PReturn(p)
  /\ leaked' = leaked + 1
  /\ UNCHANGED <<uid, refcount, ts, clock, mutex, msgs, readVars>>

----------------------------------------------------------------------------
(***************************************************************************)
(* BufferRef::acquire and BufferRef::release, in a subscriber.             *)
(***************************************************************************)

RGoto(r, to) ==
  /\ rpc' = [rpc EXCEPT ![r] = to]
  /\ UNCHANGED <<ruid, robs>>

RReturn(r) ==
  /\ rpc' = [rpc EXCEPT ![r] = "idle"]
  /\ ruid' = [ruid EXCEPT ![r] = 0]
  /\ robs' = [robs EXCEPT ![r] = 0]

\* A descriptor, however old, is delivered and its uid is the current one
\* (when it is not, acquire returns at once and nothing has changed).
AcquireBegin(r, u) ==
  /\ rpc[r] = "idle"
  /\ u \in msgs /\ uid = u
  /\ rpc' = [rpc EXCEPT ![r] = "load"]
  /\ ruid' = [ruid EXCEPT ![r] = u]
  /\ UNCHANGED <<robs, uid, refcount, ts, clock, mutex, msgs, leaked, pubVars>>

AcquireLoadRefcount(r) ==
  /\ rpc[r] = "load"
  /\ robs' = [robs EXCEPT ![r] = refcount]
  /\ rpc' = [rpc EXCEPT ![r] = "cas"]
  /\ UNCHANGED <<ruid, uid, refcount, ts, clock, mutex, msgs, leaked, pubVars>>

\* One turn of the loop: the overflow check, then compare_exchange_weak.
AcquireIncrement(r) ==
  /\ rpc[r] = "cas"
  /\ \/ /\ robs[r] = RefMax
        /\ RReturn(r) /\ UNCHANGED refcount
     \/ /\ robs[r] # RefMax /\ refcount = robs[r]
        /\ refcount' = refcount + 1
        /\ rpc' = [rpc EXCEPT ![r] = "recheck"]
        /\ robs' = [robs EXCEPT ![r] = 0]
        /\ UNCHANGED ruid
     \/ /\ robs[r] # RefMax /\ refcount # robs[r]
        /\ robs' = [robs EXCEPT ![r] = refcount]
        /\ UNCHANGED <<rpc, ruid, refcount>>
  /\ UNCHANGED <<uid, ts, clock, mutex, msgs, leaked, pubVars>>

\* Mutant: the uid is not checked again after the increment.
MutAcquireRecheckUid(r) ==
  /\ rpc[r] = "recheck"
  /\ RGoto(r, "holding")
  /\ UNCHANGED <<uid, refcount, ts, clock, mutex, msgs, leaked, pubVars>>

AcquireRecheckUid(r) ==
  /\ rpc[r] = "recheck"
  /\ RGoto(r, IF uid = ruid[r] THEN "holding" ELSE "undo")
  /\ UNCHANGED <<uid, refcount, ts, clock, mutex, msgs, leaked, pubVars>>

\* Mutant: acquire returns without taking its increment back.
MutAcquireUndo(r) ==
  /\ rpc[r] = "undo"
  /\ RReturn(r)
  /\ UNCHANGED <<uid, refcount, ts, clock, mutex, msgs, leaked, pubVars>>

\* fetch_sub without an underflow check.
AcquireUndo(r) ==
  /\ rpc[r] = "undo"
  /\ refcount' = Decremented(refcount)
  /\ RReturn(r)
  /\ UNCHANGED <<uid, ts, clock, mutex, msgs, leaked, pubVars>>

Release(r) ==
  /\ rpc[r] = "holding"
  /\ refcount' = Decremented(refcount)
  /\ IF refcount = 0 THEN RGoto(r, "underflow") ELSE RReturn(r)
  /\ UNCHANGED <<uid, ts, clock, mutex, msgs, leaked, pubVars>>

ReleaseStoreZero(r) ==
  /\ rpc[r] = "underflow"
  /\ refcount' = 0
  /\ RReturn(r)
  /\ UNCHANGED <<uid, ts, clock, mutex, msgs, leaked, pubVars>>

\* A subscriber process dies (and may be restarted): what it had counted
\* stays counted, nobody detects it.
SubscriberCrash(r) ==
  /\ rpc[r] # "idle" /\ leaked < MaxLeaks
  /\ leaked' = IF rpc[r] \in Counted THEN leaked + 1 ELSE leaked
  /\ RReturn(r)
  /\ UNCHANGED <<uid, refcount, ts, clock, mutex, msgs, pubVars>>

----------------------------------------------------------------------------

Tick ==
  /\ clock < MaxClock
  /\ clock' = clock + 1
  /\ UNCHANGED <<uid, refcount, ts, mutex, msgs, leaked, pubVars, readVars>>

ReserveStep(p) ==
  \/ ReserveBegin(p)
  \/ ReserveLoadRefcount(p)
  \/ ReserveLoadTimestamp(p)
  \/ ReserveClaim(p)
  \/ ReserveLoadUid(p)
  \/ ReserveStoreUid(p)
  \/ ReserveResetTimestamp(p)

EndReservation(p) ==
  \/ CommitBegin(p)
  \/ CommitStampTimestamp(p)
  \/ CommitRelease(p)
  \/ CancelBegin(p)
  \/ CancelRelease(p)
  \/ StoreZero(p)
  \/ Quarantine(p)

ReaderStep(r) ==
  \/ \E u \in msgs : AcquireBegin(r, u)
  \/ AcquireLoadRefcount(r)
  \/ AcquireIncrement(r)
  \/ AcquireRecheckUid(r)
  \/ AcquireUndo(r)
  \/ Release(r)
  \/ ReleaseStoreZero(r)
  \/ SubscriberCrash(r)

Next ==
  \/ \E p \in Publishers : ReserveStep(p) \/ EndReservation(p)
  \/ \E r \in Readers : ReaderStep(r)
  \/ Tick

Spec == Init /\ [][Next]_vars
----------------------------------------------------------------------------
(***************************************************************************)
(* Properties.                                                             *)
(***************************************************************************)

\* The uid can advance, or has just advanced under a live reservation.
Live == uid # UidMax \/ \E p \in Publishers : ppc[p] \in Advanced

\* The counter is what the protocol document says it is, the number of
\* references: one for a claim or reservation, one for every subscriber past
\* its increment, one for everything that was leaked.  It may only cease to be
\* once the last uid is reached and every reservation of it has ended, when
\* the overflow path of reserve_for_publish stores 0 over it.
RefcountExact ==
  Live =>
    refcount = Cardinality(Owners) + Cardinality(CountedReaders) + leaked

\* A valid BufferRef is for the block's current generation or for the one just
\* before it: reading threads can never fall further behind, however late
\* their message, their increment or their recheck.
StaleLeaseBound ==
  \A r \in Readers : rpc[r] = "holding" => ruid[r] \in {uid, uid - 1}

\* While a thread owns a reservation (commit and cancel included) no other
\* thread has a claim, the block's uid is the reservation's, it was never given
\* out in a descriptor, and the timestamp of the previous publication is gone
\* unless this thread's own commit has stored the new one.
ReservationExclusive ==
  \A p \in Publishers : ppc[p] \in Advanced =>
    /\ Owners = {p}
    /\ puid[p] = uid
    /\ \A u \in msgs : u < uid
    /\ ppc[p] \in {"reserved", "stamp", "cancelSub"} => ts = 0

\* The step in which thread p wins the block.
Wins(p) == ppc[p] = "claim" /\ ppc'[p] = "loadUid"

\* A block whose uid can still advance is only won when nobody refers to it:
\* no subscriber past its increment, no reservation, nothing leaked.
ClaimOnlyWhenUnreferenced ==
  [][\A p \in Publishers : Wins(p) /\ uid # UidMax =>
       CountedReaders = {} /\ Owners = {} /\ leaked = 0]_vars

\* A published block is not won again before its grace period is over, although
\* the clock and the timestamp were read before the claim.
GraceRespected ==
  [][\A p \in Publishers : Wins(p) => ts = 0 \/ clock - ts >= Grace]_vars

(***************************************************************************)
(* The protocol implements BlockLease.  A claim that finds the last uid is *)
(* bound to fail and is no claim of the abstract block.                    *)
(***************************************************************************)
Claiming  == {p \in Publishers : ppc[p] \in {"loadUid", "storeUid"}}
Writing   == {p \in Publishers : ppc[p] \in Advanced}

LeasePhase == IF Writing # {} THEN "writing"
              ELSE IF Claiming # {} /\ uid # UidMax THEN "claimed" ELSE "free"
LeaseOwner == IF LeasePhase = "writing" THEN CHOOSE p \in Publishers : p \in Writing
              ELSE IF LeasePhase = "claimed" THEN CHOOSE p \in Publishers : p \in Claiming
              ELSE NoThread

Lease == INSTANCE BlockLease
           WITH InitGens <- InitUids, GenMax <- UidMax,
                gen <- uid, phase <- LeasePhase, owner <- LeaseOwner,
                leases <- [r \in Readers |-> IF rpc[r] = "holding" THEN ruid[r] ELSE 0],
                pinned <- (leaked > 0)

\* Every behaviour of the atomics is a behaviour of the abstract block: claims
\* only of an unreferenced block, the generation moved by the owner alone, no
\* lease granted while the new contents are being written.
ImplementsBlockLease == Lease!LeaseSpec

(***************************************************************************)
(* The inductive invariant behind the properties above.                    *)
(***************************************************************************)

\* Threads between taking and releasing the pool mutex.
Locked == {"loadRef", "loadTs", "claim", "loadUid", "storeUid", "resetTs",
           "stamp", "commitSub", "overflow"}

MutexInv ==
  /\ \A p \in Publishers : ppc[p] \in Locked => mutex = p
  /\ \A p \in Publishers : pnow[p] <= clock
  /\ \A p \in Publishers : ppc[p] = "claim" => ~InGrace(pnow[p], ts)

PublisherInv ==
  /\ Live => \A p, q \in Owners : p = q
  /\ \A p \in Publishers : ppc[p] # "underflow"
  /\ \A p \in Publishers : ppc[p] = "overflow" => uid = UidMax
  /\ \A p \in Publishers : ppc[p] = "storeUid" => puid[p] = uid /\ uid # UidMax
  /\ \A p \in Publishers : ppc[p] \in Advanced => puid[p] = uid

MessageInv ==
  /\ \A u \in msgs : u <= uid
  /\ \A p \in Publishers : ppc[p] \in Advanced => uid \notin msgs
  /\ \A p \in Publishers :
       ppc[p] \in {"reserved", "stamp", "cancelSub"} => ts = 0

ReaderInv ==
  \A r \in Readers :
    /\ rpc[r] # "idle" => ruid[r] \in msgs
    /\ rpc[r] = "underflow" => ~Live
    /\ rpc[r] = "holding" =>
         \/ ruid[r] = uid
         \/ ruid[r] = uid - 1 /\ (Claiming = {} \/ uid = UidMax)

IInv == TypeOK /\ RefcountExact /\ MutexInv /\ PublisherInv /\ MessageInv /\ ReaderInv

(***************************************************************************)
(* What the documents say and the code does not do.                        *)
(***************************************************************************)

\* A reservation and a valid reference to an older uid never coexist, as the
\* race test of BufferRef and the protocol document say.
NoStaleReference ==
  ~ \E p \in Publishers, r \in Readers :
      /\ ppc[p] = "reserved"
      /\ rpc[r] = "holding" /\ ruid[r] # puid[p]
============================================================================
