-------------------------- MODULE BufferRefProofs --------------------------
(***************************************************************************)
(* Proofs that the properties of BufferRef hold for any number of readers  *)
(* and publisher threads, any counter widths and any grace period, and     *)
(* that its atomics implement the abstract block of BlockLease.            *)
(***************************************************************************)
EXTENDS BufferRef, TLAPS, FiniteSetTheorems

----------------------------------------------------------------------------
(***************************************************************************)
(* Facts about finite sets.                                                *)
(***************************************************************************)

\* Two sets that differ at most in x: their sizes differ by what x contributes.
LEMMA CountMove ==
  ASSUME NEW S, NEW T, NEW x, IsFiniteSet(S),
         \A s : s # x => (s \in S <=> s \in T)
  PROVE  /\ IsFiniteSet(T)
         /\ Cardinality(S) \in Nat /\ Cardinality(T) \in Nat
         /\ x \in S => Cardinality(S) >= 1
         /\ Cardinality(T) = Cardinality(S) + (IF x \in T THEN 1 ELSE 0)
                                           - (IF x \in S THEN 1 ELSE 0)
<1>1. IsFiniteSet(S \ {x}) /\ IsFiniteSet((S \ {x}) \cup {x})
  BY FS_RemoveElement, FS_AddElement
<1>2. Cardinality(S) \in Nat /\ Cardinality(S \ {x}) \in Nat
  BY <1>1, FS_CardinalityType
<1>3. Cardinality(S \ {x}) = IF x \in S THEN Cardinality(S) - 1 ELSE Cardinality(S)
  BY FS_RemoveElement
<1>4. /\ IsFiniteSet(T)
      /\ Cardinality(T) = Cardinality(S \ {x}) + (IF x \in T THEN 1 ELSE 0)
  <2>1. CASE x \in T
    <3>1. T = (S \ {x}) \cup {x} /\ x \notin S \ {x}
      BY <2>1
    <3> QED BY <2>1, <3>1, <1>1, <1>2, FS_AddElement
  <2>2. CASE x \notin T
    <3>1. T = S \ {x}
      BY <2>2
    <3> QED BY <2>2, <3>1, <1>1, <1>2
  <2> QED BY <2>1, <2>2
<1>5. CASE x \in S
  BY <1>2, <1>3, <1>4, <1>5
<1>6. CASE x \notin S
  BY <1>2, <1>3, <1>4, <1>6
<1> QED BY <1>5, <1>6

----------------------------------------------------------------------------

\* Every atomic step of the protocol keeps its state in the types of the
\* metadata: the 32-bit counter never leaves its range although release and
\* undo subtract without looking, and the uid never passes its maximum
\* (with PublisherInv for the uid that was read before it is stored).
LEMMA TypeStep == TypeOK /\ PublisherInv /\ [Next]_vars => TypeOK'
<1> SUFFICES ASSUME TypeOK, PublisherInv, [Next]_vars PROVE TypeOK'
  OBVIOUS
<1> USE WidthAssumption, ThreadsAssumption DEF TypeOK, PubPC, ReadPC
<1>1. ASSUME NEW p \in Publishers, ReserveStep(p) PROVE TypeOK'
  <2>1. CASE ReserveBegin(p)
    BY <2>1 DEF ReserveBegin, readVars
  <2>2. CASE ReserveLoadRefcount(p)
    BY <2>2 DEF ReserveLoadRefcount, PGoto, PReturn, readVars
  <2>3. CASE ReserveLoadTimestamp(p)
    BY <2>3 DEF ReserveLoadTimestamp, PGoto, PReturn, readVars
  <2>4. CASE ReserveClaim(p)
    BY <2>4 DEF ReserveClaim, PGoto, PReturn, readVars
  <2>5. CASE ReserveLoadUid(p)
    BY <2>5 DEF ReserveLoadUid, PGoto, readVars
  <2>6. CASE ReserveStoreUid(p)
    BY <2>6 DEF ReserveStoreUid, PublisherInv, readVars
  <2>7. CASE ReserveResetTimestamp(p)
    BY <2>7 DEF ReserveResetTimestamp, readVars
  <2> QED BY <1>1, <2>1, <2>2, <2>3, <2>4, <2>5, <2>6, <2>7 DEF ReserveStep
<1>2. ASSUME NEW p \in Publishers, EndReservation(p) PROVE TypeOK'
  <2>1. CASE CommitBegin(p)
    BY <2>1 DEF CommitBegin, PReturn, readVars
  <2>2. CASE CommitStampTimestamp(p)
    BY <2>2 DEF CommitStampTimestamp, PGoto, readVars
  <2>3. CASE CommitRelease(p)
    <3>1. puid[p] \in 1..UidMax
      BY <2>3 DEF CommitRelease, PublisherInv, Advanced
    <3>2. msgs' \subseteq 1..UidMax
      <4>1. msgs' \in {msgs, msgs \cup {puid[p]}}
        BY <2>3 DEF CommitRelease
      <4> QED BY <4>1, <3>1
    <3>3. refcount' \in 0..RefMax
      BY <2>3 DEF CommitRelease, Decremented
    <3>4. /\ ppc' \in [Publishers -> PubPC] /\ puid' \in [Publishers -> 0..UidMax]
          /\ pnow' \in [Publishers -> 0..MaxClock]
          /\ mutex' \in Publishers \cup {NoThread}
      BY <2>3 DEF CommitRelease, PGoto, PReturn
    <3> QED BY <2>3, <3>2, <3>3, <3>4 DEF CommitRelease, readVars
  <2>4. CASE CancelBegin(p)
    BY <2>4 DEF CancelBegin, PGoto, PReturn, readVars
  <2>5. CASE CancelRelease(p)
    BY <2>5 DEF CancelRelease, PGoto, PReturn, Decremented, readVars
  <2>6. CASE StoreZero(p)
    BY <2>6 DEF StoreZero, PReturn, readVars
  <2>7. CASE Quarantine(p)
    BY <2>7 DEF Quarantine, PReturn, readVars
  <2> QED BY <1>2, <2>1, <2>2, <2>3, <2>4, <2>5, <2>6, <2>7 DEF EndReservation
<1>3. ASSUME NEW r \in Readers, ReaderStep(r) PROVE TypeOK'
  <2>1. ASSUME NEW u \in msgs, AcquireBegin(r, u) PROVE TypeOK'
    BY <2>1 DEF AcquireBegin, pubVars
  <2>2. CASE AcquireLoadRefcount(r)
    BY <2>2 DEF AcquireLoadRefcount, pubVars
  <2>3. CASE AcquireIncrement(r)
    BY <2>3 DEF AcquireIncrement, RReturn, pubVars
  <2>4. CASE AcquireRecheckUid(r)
    BY <2>4 DEF AcquireRecheckUid, RGoto, pubVars
  <2>5. CASE AcquireUndo(r)
    BY <2>5 DEF AcquireUndo, RReturn, Decremented, pubVars
  <2>6. CASE Release(r)
    BY <2>6 DEF Release, RGoto, RReturn, Decremented, pubVars
  <2>7. CASE ReleaseStoreZero(r)
    BY <2>7 DEF ReleaseStoreZero, RReturn, pubVars
  <2>8. CASE SubscriberCrash(r)
    BY <2>8 DEF SubscriberCrash, RReturn, pubVars
  <2> QED BY <1>3, <2>1, <2>2, <2>3, <2>4, <2>5, <2>6, <2>7, <2>8 DEF ReaderStep
<1>4. CASE Tick
  BY <1>4 DEF Tick, pubVars, readVars
<1>5. CASE UNCHANGED vars
  BY <1>5 DEF vars
<1> QED BY <1>1, <1>2, <1>3, <1>4, <1>5 DEF Next

----------------------------------------------------------------------------
(***************************************************************************)
(* Counting.  The threads in a set of control states, when one of them     *)
(* moves.                                                                  *)
(***************************************************************************)

\* The number of owners after publisher thread p moves to control state v.
LEMMA OwnersMove ==
  ASSUME NEW p \in Publishers, \A q \in Publishers : q # p => ppc'[q] = ppc[q]
  PROVE  /\ Cardinality(Owners) \in Nat /\ Cardinality(Owners') \in Nat
         /\ ppc[p] \in Claimed => Cardinality(Owners) >= 1
         /\ Cardinality(Owners') = Cardinality(Owners)
              + (IF ppc'[p] \in Claimed THEN 1 ELSE 0)
              - (IF ppc[p] \in Claimed THEN 1 ELSE 0)
<1>1. IsFiniteSet(Owners)
  BY ThreadsAssumption, FS_Subset, Owners \subseteq Publishers DEF Owners
<1>2. \A q : q # p => (q \in Owners <=> q \in Owners')
  BY DEF Owners
<1>3. (p \in Owners <=> ppc[p] \in Claimed) /\ (p \in Owners' <=> ppc'[p] \in Claimed)
  BY DEF Owners
<1>4. /\ Cardinality(Owners) \in Nat /\ Cardinality(Owners') \in Nat
      /\ p \in Owners => Cardinality(Owners) >= 1
      /\ Cardinality(Owners') = Cardinality(Owners)
           + (IF p \in Owners' THEN 1 ELSE 0) - (IF p \in Owners THEN 1 ELSE 0)
  BY <1>1, <1>2, CountMove
<1> QED BY <1>3, <1>4

\* The number of counted readers after reader r moves to control state v.
LEMMA ReadersMove ==
  ASSUME NEW r \in Readers, \A q \in Readers : q # r => rpc'[q] = rpc[q]
  PROVE  /\ Cardinality(CountedReaders) \in Nat
         /\ Cardinality(CountedReaders') \in Nat
         /\ rpc[r] \in Counted => Cardinality(CountedReaders) >= 1
         /\ Cardinality(CountedReaders') = Cardinality(CountedReaders)
              + (IF rpc'[r] \in Counted THEN 1 ELSE 0)
              - (IF rpc[r] \in Counted THEN 1 ELSE 0)
<1>1. IsFiniteSet(CountedReaders)
  BY ThreadsAssumption, FS_Subset, CountedReaders \subseteq Readers
     DEF CountedReaders
<1>2. \A q : q # r => (q \in CountedReaders <=> q \in CountedReaders')
  BY DEF CountedReaders
<1>3. /\ r \in CountedReaders <=> rpc[r] \in Counted
      /\ r \in CountedReaders' <=> rpc'[r] \in Counted
  BY DEF CountedReaders
<1>4. /\ Cardinality(CountedReaders) \in Nat /\ Cardinality(CountedReaders') \in Nat
      /\ r \in CountedReaders => Cardinality(CountedReaders) >= 1
      /\ Cardinality(CountedReaders') = Cardinality(CountedReaders)
           + (IF r \in CountedReaders' THEN 1 ELSE 0)
           - (IF r \in CountedReaders THEN 1 ELSE 0)
  BY <1>1, <1>2, CountMove
<1> QED BY <1>3, <1>4

\* What an exact counter says: zero means nobody refers to the block, and
\* whoever owns a unit sees at least one.
LEMMA ExactCounter ==
  ASSUME TypeOK, RefcountExact, Live
  PROVE  /\ Cardinality(Owners) \in Nat /\ Cardinality(CountedReaders) \in Nat
         /\ refcount = Cardinality(Owners) + Cardinality(CountedReaders) + leaked
         /\ refcount = 0 => Owners = {} /\ CountedReaders = {} /\ leaked = 0
         /\ Owners # {} \/ CountedReaders # {} => refcount >= 1
<1>1. IsFiniteSet(Owners) /\ IsFiniteSet(CountedReaders)
  BY ThreadsAssumption, FS_Subset, Owners \subseteq Publishers,
     CountedReaders \subseteq Readers DEF Owners, CountedReaders
<1>2. /\ Cardinality(Owners) \in Nat /\ Cardinality(CountedReaders) \in Nat
      /\ Cardinality(Owners) = 0 <=> Owners = {}
      /\ Cardinality(CountedReaders) = 0 <=> CountedReaders = {}
  BY <1>1, FS_CardinalityType, FS_EmptySet
<1> QED BY <1>2 DEF TypeOK, RefcountExact

----------------------------------------------------------------------------
(***************************************************************************)
(* Preservation of each part of IInv.                                      *)
(***************************************************************************)

\* Once the last uid is spent (no reservation of it is left) it stays so: a
\* thread advances a uid only if it read one below the maximum.
LEMMA LiveStable == TypeOK /\ PublisherInv /\ [Next]_vars /\ Live' => Live
<1> SUFFICES ASSUME TypeOK, PublisherInv, [Next]_vars, ~Live PROVE ~Live'
  OBVIOUS
<1> USE DEF Live, TypeOK, Advanced
<1>1. ASSUME NEW p \in Publishers, ReserveStep(p) PROVE ~Live'
  <2>1. ~ReserveStoreUid(p)
    BY DEF ReserveStoreUid, PublisherInv
  <2>2. ~ReserveResetTimestamp(p)
    BY DEF ReserveResetTimestamp
  <2> QED BY <1>1, <2>1, <2>2 DEF ReserveStep, ReserveBegin, ReserveLoadRefcount,
             ReserveLoadTimestamp, ReserveClaim, ReserveLoadUid, PGoto, PReturn
<1>2. ASSUME NEW p \in Publishers, EndReservation(p) PROVE ~Live'
  BY <1>2 DEF EndReservation, CommitBegin, CommitStampTimestamp, CommitRelease,
              CancelBegin, CancelRelease, StoreZero, Quarantine, PGoto, PReturn
<1>3. ASSUME NEW r \in Readers, ReaderStep(r) PROVE ~Live'
  BY <1>3 DEF ReaderStep, AcquireBegin, AcquireLoadRefcount, AcquireIncrement,
              AcquireRecheckUid, AcquireUndo, Release, ReleaseStoreZero,
              SubscriberCrash, RGoto, RReturn, pubVars
<1>4. CASE Tick
  BY <1>4 DEF Tick, pubVars
<1>5. CASE UNCHANGED vars
  BY <1>5 DEF vars
<1> QED BY <1>1, <1>2, <1>3, <1>4, <1>5 DEF Next

\* The counter stays exact while the block is live: each step that moves a
\* thread into or out of the counted states changes the counter by one, and
\* the stores of 0 only happen to a block that is not live.
LEMMA ExactStep == IInv /\ [Next]_vars => RefcountExact'
<1> SUFFICES ASSUME IInv, [Next]_vars, Live'
             PROVE  RefcountExact'
  BY DEF RefcountExact
<1>0. TypeOK /\ RefcountExact /\ PublisherInv /\ ReaderInv
  BY DEF IInv
<1>l. Live
  BY <1>0, LiveStable
<1> DEFINE O == Cardinality(Owners)
           C == Cardinality(CountedReaders)
<1>e. /\ O \in Nat /\ C \in Nat /\ leaked \in Nat /\ refcount \in Nat
      /\ refcount = O + C + leaked
      /\ ppc \in [Publishers -> PubPC] /\ rpc \in [Readers -> ReadPC]
  <2>1. O \in Nat /\ C \in Nat /\ refcount = O + C + leaked
    BY <1>0, <1>l, ExactCounter
  <2>2. /\ ppc \in [Publishers -> PubPC] /\ rpc \in [Readers -> ReadPC]
        /\ leaked \in Nat /\ refcount \in Nat
    BY <1>0 DEF TypeOK
  <2> QED BY <2>1, <2>2
<1>g. RefcountExact' <=> refcount' = O' + C' + leaked'
  BY DEF RefcountExact
<1>p. ASSUME NEW p \in Publishers, UNCHANGED rpc,
             \A q \in Publishers : q # p => ppc'[q] = ppc[q]
      PROVE  /\ O' = O + (IF ppc'[p] \in Claimed THEN 1 ELSE 0)
                     - (IF ppc[p] \in Claimed THEN 1 ELSE 0)
             /\ ppc[p] \in Claimed => O >= 1
             /\ C' = C
  <2>1. CountedReaders' = CountedReaders
    BY <1>p DEF CountedReaders
  <2> QED BY <1>p, <2>1, OwnersMove
<1>r. ASSUME NEW r \in Readers, UNCHANGED ppc,
             \A q \in Readers : q # r => rpc'[q] = rpc[q]
      PROVE  /\ C' = C + (IF rpc'[r] \in Counted THEN 1 ELSE 0)
                     - (IF rpc[r] \in Counted THEN 1 ELSE 0)
             /\ rpc[r] \in Counted => C >= 1
             /\ O' = O
  <2>1. Owners' = Owners
    BY <1>r DEF Owners
  <2> QED BY <1>r, <2>1, ReadersMove
<1>s. ASSUME NEW p \in Publishers, UNCHANGED <<rpc, refcount, leaked>>, NEW v,
             ppc' = [ppc EXCEPT ![p] = v], ppc[p] \in Claimed <=> v \in Claimed
      PROVE  RefcountExact'
  <2>1. \A q \in Publishers : q # p => ppc'[q] = ppc[q]
    BY <1>s
  <2>2. ppc'[p] = v
    BY <1>e, <1>s
  <2> HIDE DEF O, C
  <2>3. O' = O /\ C' = C
    BY <2>1, <2>2, <1>e, <1>p, <1>s
  <2> QED BY <2>3, <1>e, <1>g, <1>s
<1>u. UNCHANGED <<ppc, rpc>> => O' = O /\ C' = C
  BY DEF Owners, CountedReaders
<1> HIDE DEF O, C
<1>1. ASSUME NEW p \in Publishers, ReserveStep(p) PROVE RefcountExact'
  <2> USE <1>e, <1>g DEF Claimed, readVars
  <2>1. CASE ReserveBegin(p)
    BY <2>1, <1>p DEF ReserveBegin
  <2>2. CASE ReserveLoadRefcount(p)
    <3>1. PICK v \in {"loadTs", "idle"} : ppc' = [ppc EXCEPT ![p] = v]
      BY <2>2 DEF ReserveLoadRefcount, PGoto, PReturn
    <3> QED BY <2>2, <3>1, <1>s DEF ReserveLoadRefcount
  <2>3. CASE ReserveLoadTimestamp(p)
    <3>1. PICK v \in {"claim", "idle"} : ppc' = [ppc EXCEPT ![p] = v]
      BY <2>3 DEF ReserveLoadTimestamp, PGoto, PReturn
    <3> QED BY <2>3, <3>1, <1>s DEF ReserveLoadTimestamp
  <2>4. CASE ReserveClaim(p)
    <3>1. CASE refcount = 0
      BY <2>4, <3>1, <1>p DEF ReserveClaim, PGoto, PReturn
    <3>2. CASE ~(refcount = 0)
      BY <2>4, <3>2, <1>s DEF ReserveClaim, PReturn
    <3> QED BY <3>1, <3>2
  <2>5. CASE ReserveLoadUid(p)
    BY <2>5, <1>p DEF ReserveLoadUid, PGoto
  <2>6. CASE ReserveStoreUid(p)
    BY <2>6, <1>p DEF ReserveStoreUid
  <2>7. CASE ReserveResetTimestamp(p)
    BY <2>7, <1>p DEF ReserveResetTimestamp
  <2> QED BY <1>1, <2>1, <2>2, <2>3, <2>4, <2>5, <2>6, <2>7 DEF ReserveStep
<1>2. ASSUME NEW p \in Publishers, EndReservation(p) PROVE RefcountExact'
  <2> USE <1>e, <1>g DEF Claimed, readVars
  <2>1. CASE CommitBegin(p)
    BY <2>1, <1>p DEF CommitBegin, PReturn
  <2>2. CASE CommitStampTimestamp(p)
    BY <2>2, <1>p DEF CommitStampTimestamp, PGoto
  <2>3. CASE CommitRelease(p)
    BY <2>3, <1>p DEF CommitRelease, Decremented, PGoto, PReturn
  <2>4. CASE CancelBegin(p)
    BY <2>4, <1>p DEF CancelBegin, PGoto, PReturn
  <2>5. CASE CancelRelease(p)
    BY <2>5, <1>p DEF CancelRelease, Decremented, PGoto, PReturn
  <2>6. CASE StoreZero(p)
    <3>1. ppc[p] = "overflow" /\ uid = UidMax
      BY <2>6, <1>0 DEF StoreZero, PublisherInv
    <3>2. PICK q \in Publishers : ppc[q] \in Advanced
      BY <3>1, <1>l DEF Live
    <3>3. p \in Owners /\ q \in Owners /\ p # q
      BY <3>1, <3>2 DEF Owners, Advanced
    <3> QED BY <3>3, <1>0, <1>l DEF PublisherInv
  <2>7. CASE Quarantine(p)
    BY <2>7, <1>p DEF Quarantine, PReturn
  <2> QED BY <1>2, <2>1, <2>2, <2>3, <2>4, <2>5, <2>6, <2>7 DEF EndReservation
<1>3. ASSUME NEW r \in Readers, ReaderStep(r) PROVE RefcountExact'
  <2> USE <1>e, <1>g DEF Counted, pubVars
  <2>1. ASSUME NEW u \in msgs, AcquireBegin(r, u) PROVE RefcountExact'
    BY <2>1, <1>r DEF AcquireBegin
  <2>2. CASE AcquireLoadRefcount(r)
    BY <2>2, <1>r DEF AcquireLoadRefcount
  <2>3. CASE AcquireIncrement(r)
    BY <2>3, <1>r, <1>u DEF AcquireIncrement, RReturn
  <2>4. CASE AcquireRecheckUid(r)
    BY <2>4, <1>r DEF AcquireRecheckUid, RGoto
  <2>5. CASE AcquireUndo(r)
    BY <2>5, <1>r DEF AcquireUndo, Decremented, RReturn
  <2>6. CASE Release(r)
    BY <2>6, <1>r DEF Release, Decremented, RGoto, RReturn
  <2>7. CASE ReleaseStoreZero(r)
    BY <2>7, <1>0, <1>l DEF ReleaseStoreZero, ReaderInv
  <2>8. CASE SubscriberCrash(r)
    <3>1. CASE rpc[r] \in Counted
      <4>1. /\ rpc'[r] = "idle" /\ leaked' = leaked + 1 /\ refcount' = refcount
            /\ UNCHANGED ppc /\ \A q \in Readers : q # r => rpc'[q] = rpc[q]
        BY <2>8, <3>1 DEF SubscriberCrash, RReturn
      <4>2. O' = O /\ C' = C - 1 /\ C >= 1
        BY <3>1, <4>1, <1>r
      <4> QED BY <4>1, <4>2
    <3>2. CASE rpc[r] \notin Counted
      <4>1. /\ rpc'[r] = "idle" /\ UNCHANGED <<leaked, refcount, ppc>>
            /\ \A q \in Readers : q # r => rpc'[q] = rpc[q]
        BY <2>8, <3>2 DEF SubscriberCrash, RReturn
      <4>2. O' = O /\ C' = C
        BY <3>2, <4>1, <1>r
      <4> QED BY <4>1, <4>2
    <3> QED BY <3>1, <3>2
  <2> QED BY <1>3, <2>1, <2>2, <2>3, <2>4, <2>5, <2>6, <2>7, <2>8 DEF ReaderStep
<1>4. CASE Tick
  BY <1>4, <1>e, <1>g, <1>u DEF Tick, pubVars, readVars
<1>5. CASE UNCHANGED vars
  BY <1>5, <1>e, <1>g, <1>u DEF vars
<1> QED BY <1>1, <1>2, <1>3, <1>4, <1>5 DEF Next

\* Threads inside the pool mutex exclude each other, so the timestamp a thread
\* judged is still the block's timestamp when it claims.
LEMMA MutexStep == IInv /\ [Next]_vars => MutexInv'
<1> SUFFICES ASSUME IInv, [Next]_vars PROVE MutexInv'
  OBVIOUS
<1>0. TypeOK /\ MutexInv /\ PublisherInv
  BY DEF IInv
<1> USE <1>0, ThreadsAssumption, WidthAssumption DEF TypeOK, MutexInv, Locked
<1>1. ASSUME NEW p \in Publishers, ReserveStep(p) PROVE MutexInv'
  <2>1. CASE ReserveBegin(p)
    BY <2>1 DEF ReserveBegin
  <2>2. CASE ReserveLoadRefcount(p)
    BY <2>2 DEF ReserveLoadRefcount, PGoto, PReturn
  <2>3. CASE ReserveLoadTimestamp(p)
    BY <2>3 DEF ReserveLoadTimestamp, PGoto, PReturn
  <2>4. CASE ReserveClaim(p)
    BY <2>4 DEF ReserveClaim, PGoto, PReturn
  <2>5. CASE ReserveLoadUid(p)
    BY <2>5 DEF ReserveLoadUid, PGoto
  <2>6. CASE ReserveStoreUid(p)
    BY <2>6 DEF ReserveStoreUid
  <2>7. CASE ReserveResetTimestamp(p)
    BY <2>7 DEF ReserveResetTimestamp
  <2> QED BY <1>1, <2>1, <2>2, <2>3, <2>4, <2>5, <2>6, <2>7 DEF ReserveStep
<1>2. ASSUME NEW p \in Publishers, EndReservation(p) PROVE MutexInv'
  <2>1. CASE CommitBegin(p)
    BY <2>1 DEF CommitBegin, PReturn, PublisherInv
  <2>2. CASE CommitStampTimestamp(p)
    BY <2>2 DEF CommitStampTimestamp, PGoto, PublisherInv
  <2>3. CASE CommitRelease(p)
    BY <2>3 DEF CommitRelease, PGoto, PReturn, PublisherInv
  <2>4. CASE CancelBegin(p)
    BY <2>4 DEF CancelBegin, PGoto, PReturn, PublisherInv
  <2>5. CASE CancelRelease(p)
    BY <2>5 DEF CancelRelease, PGoto, PReturn, PublisherInv
  <2>6. CASE StoreZero(p)
    BY <2>6 DEF StoreZero, PReturn, PublisherInv
  <2>7. CASE Quarantine(p)
    BY <2>7 DEF Quarantine, PReturn, PublisherInv
  <2> QED BY <1>2, <2>1, <2>2, <2>3, <2>4, <2>5, <2>6, <2>7 DEF EndReservation
<1>3. ASSUME NEW r \in Readers, ReaderStep(r) PROVE MutexInv'
  <2>1. UNCHANGED <<uid, ts, clock, mutex, msgs, ppc, puid, pnow>>
    BY <1>3 DEF ReaderStep, AcquireBegin, AcquireLoadRefcount, AcquireIncrement,
                AcquireRecheckUid, AcquireUndo, Release, ReleaseStoreZero,
                SubscriberCrash, RGoto, RReturn, pubVars
  <2> QED BY <2>1
<1>4. CASE Tick
  BY <1>4 DEF Tick, pubVars, readVars, InGrace
<1>5. CASE UNCHANGED vars
  BY <1>5 DEF vars, InGrace
<1> QED BY <1>1, <1>2, <1>3, <1>4, <1>5 DEF Next

\* A live block has one owner, which sees its own uid and at least its own
\* reference: the claim found an exact counter at zero, so nobody else owned
\* the block, and the commit or cancel of an owner cannot underflow.
LEMMA PublisherStep == IInv /\ [Next]_vars => PublisherInv'
<1> SUFFICES ASSUME IInv, [Next]_vars PROVE PublisherInv'
  OBVIOUS
<1>0. TypeOK /\ RefcountExact /\ PublisherInv
  BY DEF IInv
<1>l. Live' => Live
  BY <1>0, LiveStable
<1>e. Live => /\ refcount = 0 => Owners = {}
              /\ Owners # {} => refcount >= 1
  BY <1>0, ExactCounter
<1>a. \A p \in Publishers : ppc[p] \in Advanced => Live /\ refcount >= 1
  <2> TAKE p \in Publishers
  <2> HAVE ppc[p] \in Advanced
  <2>1. Live /\ p \in Owners
    BY DEF Live, Owners, Advanced, Claimed
  <2> QED BY <2>1, <1>e
<1>t. /\ ppc \in [Publishers -> PubPC] /\ puid \in [Publishers -> 0..UidMax]
      /\ uid \in 1..UidMax /\ refcount \in Nat
  BY <1>0 DEF TypeOK
<1> USE <1>0, <1>t, <1>l, WidthAssumption DEF PublisherInv, Owners, Claimed, Advanced
<1>1. ASSUME NEW p \in Publishers, ReserveStep(p) PROVE PublisherInv'
  <2>1. CASE ReserveBegin(p)
    BY <2>1, <1>e DEF ReserveBegin, readVars, Live
  <2>2. CASE ReserveLoadRefcount(p)
    BY <2>2, <1>e DEF ReserveLoadRefcount, PGoto, PReturn, readVars, Live
  <2>3. CASE ReserveLoadTimestamp(p)
    BY <2>3, <1>e DEF ReserveLoadTimestamp, PGoto, PReturn, readVars, Live
  <2>4. CASE ReserveClaim(p)
    BY <2>4, <1>e DEF ReserveClaim, PGoto, PReturn, readVars, Live
  <2>5. CASE ReserveLoadUid(p)
    BY <2>5, <1>e DEF ReserveLoadUid, PGoto, readVars, Live
  <2>6. CASE ReserveStoreUid(p)
    BY <2>6, <1>e DEF ReserveStoreUid, readVars, Live
  <2>7. CASE ReserveResetTimestamp(p)
    BY <2>7, <1>e DEF ReserveResetTimestamp, readVars, Live
  <2> QED BY <1>1, <2>1, <2>2, <2>3, <2>4, <2>5, <2>6, <2>7 DEF ReserveStep
<1>2. ASSUME NEW p \in Publishers, EndReservation(p) PROVE PublisherInv'
  <2>1. CASE CommitBegin(p)
    BY <2>1, <1>a DEF CommitBegin, PReturn, readVars
  <2>2. CASE CommitStampTimestamp(p)
    BY <2>2, <1>a DEF CommitStampTimestamp, PGoto, readVars
  <2>3. CASE CommitRelease(p)
    BY <2>3, <1>a DEF CommitRelease, PGoto, PReturn, readVars
  <2>4. CASE CancelBegin(p)
    BY <2>4, <1>a DEF CancelBegin, PGoto, PReturn, readVars
  <2>5. CASE CancelRelease(p)
    BY <2>5, <1>a DEF CancelRelease, PGoto, PReturn, readVars
  <2>6. CASE StoreZero(p)
    BY <2>6, <1>a DEF StoreZero, PReturn, readVars
  <2>7. CASE Quarantine(p)
    BY <2>7, <1>a DEF Quarantine, PReturn, readVars
  <2> QED BY <1>2, <2>1, <2>2, <2>3, <2>4, <2>5, <2>6, <2>7 DEF EndReservation
<1>3. ASSUME NEW r \in Readers, ReaderStep(r) PROVE PublisherInv'
  <2>1. UNCHANGED <<uid, ts, clock, mutex, msgs, ppc, puid, pnow>>
    BY <1>3 DEF ReaderStep, AcquireBegin, AcquireLoadRefcount, AcquireIncrement,
                AcquireRecheckUid, AcquireUndo, Release, ReleaseStoreZero,
                SubscriberCrash, RGoto, RReturn, pubVars
  <2> QED BY <2>1 DEF Live
<1>4. CASE Tick
  BY <1>4 DEF Tick, pubVars, readVars, Live
<1>5. CASE UNCHANGED vars
  BY <1>5 DEF vars, Live
<1> QED BY <1>1, <1>2, <1>3, <1>4, <1>5 DEF Next

\* A uid reaches a descriptor only when its own reservation ends, so no
\* message names a uid under reservation; and the timestamp stays clear from
\* the start of the reservation to the commit's own store.
LEMMA MessageStep == IInv /\ [Next]_vars => MessageInv'
<1> SUFFICES ASSUME IInv, [Next]_vars PROVE MessageInv'
  OBVIOUS
<1>0. TypeOK /\ PublisherInv /\ MessageInv
  BY DEF IInv
<1>u. ASSUME NEW p \in Publishers, NEW q \in Publishers,
             ppc[p] \in Claimed, ppc[q] \in Advanced
      PROVE  p = q
  <2>1. Live /\ p \in Owners /\ q \in Owners
    BY <1>u DEF Live, Owners, Advanced, Claimed
  <2> QED BY <2>1, <1>0 DEF PublisherInv
<1>w. ASSUME NEW p \in Publishers, NEW q \in Publishers,
             ppc[p] = "storeUid", ppc[q] \in Claimed
      PROVE  p = q
  <2>1. Live /\ p \in Owners /\ q \in Owners
    BY <1>0, <1>w DEF PublisherInv, Live, Owners, Claimed
  <2> QED BY <2>1, <1>0 DEF PublisherInv
<1>t. /\ ppc \in [Publishers -> PubPC] /\ puid \in [Publishers -> 0..UidMax]
      /\ uid \in 1..UidMax /\ msgs \subseteq 1..UidMax
  BY <1>0 DEF TypeOK
<1> USE <1>0, <1>t, WidthAssumption DEF MessageInv, Advanced, Claimed
<1>1. ASSUME NEW p \in Publishers, ReserveStep(p) PROVE MessageInv'
  <2>1. CASE ReserveBegin(p)
    BY <2>1, <1>u, <1>w DEF ReserveBegin, PublisherInv
  <2>2. CASE ReserveLoadRefcount(p)
    BY <2>2, <1>u, <1>w DEF ReserveLoadRefcount, PGoto, PReturn, PublisherInv
  <2>3. CASE ReserveLoadTimestamp(p)
    BY <2>3, <1>u, <1>w DEF ReserveLoadTimestamp, PGoto, PReturn, PublisherInv
  <2>4. CASE ReserveClaim(p)
    BY <2>4, <1>u, <1>w DEF ReserveClaim, PGoto, PReturn, PublisherInv
  <2>5. CASE ReserveLoadUid(p)
    BY <2>5, <1>u, <1>w DEF ReserveLoadUid, PGoto, PublisherInv
  <2>6. CASE ReserveStoreUid(p)
    BY <2>6, <1>u, <1>w DEF ReserveStoreUid, PublisherInv
  <2>7. CASE ReserveResetTimestamp(p)
    BY <2>7, <1>u, <1>w DEF ReserveResetTimestamp, PublisherInv
  <2> QED BY <1>1, <2>1, <2>2, <2>3, <2>4, <2>5, <2>6, <2>7 DEF ReserveStep
<1>2. ASSUME NEW p \in Publishers, EndReservation(p) PROVE MessageInv'
  <2>1. CASE CommitBegin(p)
    BY <2>1, <1>u DEF CommitBegin, PReturn, PublisherInv
  <2>2. CASE CommitStampTimestamp(p)
    BY <2>2, <1>u DEF CommitStampTimestamp, PGoto, PublisherInv
  <2>3. CASE CommitRelease(p)
    <3>1. \A q \in Publishers : q # p => ppc[q] \notin Advanced
      BY <2>3, <1>u DEF CommitRelease
    <3>2. \A q \in Publishers : ppc'[q] \notin Advanced
      BY <2>3, <3>1 DEF CommitRelease, PGoto, PReturn
    <3>3. \A u \in msgs' : u <= uid
      <4>1. puid[p] = uid
        BY <2>3 DEF CommitRelease, PublisherInv
      <4>2. msgs' \subseteq msgs \cup {puid[p]}
        BY <2>3 DEF CommitRelease
      <4> QED BY <4>1, <4>2
    <3> QED BY <2>3, <3>2, <3>3 DEF CommitRelease
  <2>4. CASE CancelBegin(p)
    BY <2>4, <1>u DEF CancelBegin, PGoto, PReturn, PublisherInv
  <2>5. CASE CancelRelease(p)
    BY <2>5, <1>u DEF CancelRelease, PGoto, PReturn, PublisherInv
  <2>6. CASE StoreZero(p)
    BY <2>6, <1>u DEF StoreZero, PReturn, PublisherInv
  <2>7. CASE Quarantine(p)
    BY <2>7, <1>u DEF Quarantine, PReturn, PublisherInv
  <2> QED BY <1>2, <2>1, <2>2, <2>3, <2>4, <2>5, <2>6, <2>7 DEF EndReservation
<1>3. ASSUME NEW r \in Readers, ReaderStep(r) PROVE MessageInv'
  <2>1. UNCHANGED <<uid, ts, clock, mutex, msgs, ppc, puid, pnow>>
    BY <1>3 DEF ReaderStep, AcquireBegin, AcquireLoadRefcount, AcquireIncrement,
                AcquireRecheckUid, AcquireUndo, Release, ReleaseStoreZero,
                SubscriberCrash, RGoto, RReturn, pubVars
  <2> QED BY <2>1
<1>4. CASE Tick
  BY <1>4 DEF Tick, pubVars, readVars
<1>5. CASE UNCHANGED vars
  BY <1>5 DEF vars
<1> QED BY <1>1, <1>2, <1>3, <1>4, <1>5 DEF Next

\* A reader that passed its recheck is at most one generation behind, and is
\* behind only if the claim that moved the uid was already there: a later
\* claim would have found the reader in the counter.
LEMMA ReaderStepInv == IInv /\ [Next]_vars => ReaderInv'
<1> SUFFICES ASSUME IInv, [Next]_vars PROVE ReaderInv'
  OBVIOUS
<1>0. TypeOK /\ RefcountExact /\ PublisherInv /\ MessageInv /\ ReaderInv
  BY DEF IInv
<1>l. Live' => Live
  BY <1>0, LiveStable
<1>e. Live /\ refcount = 0 => CountedReaders = {}
  BY <1>0, ExactCounter
<1>c. Live /\ (\E r \in Readers : rpc[r] \in Counted) => refcount # 0
  BY <1>e DEF CountedReaders
<1>w. ASSUME NEW p \in Publishers, ppc[p] = "storeUid", NEW q \in Publishers,
             ppc[q] \in Claimed
      PROVE  p = q
  <2>1. Live /\ p \in Owners /\ q \in Owners
    BY <1>0, <1>w DEF PublisherInv, Live, Owners, Claimed
  <2> QED BY <2>1, <1>0 DEF PublisherInv
<1>t. /\ ppc \in [Publishers -> PubPC] /\ puid \in [Publishers -> 0..UidMax]
      /\ uid \in 1..UidMax /\ msgs \subseteq 1..UidMax
      /\ rpc \in [Readers -> ReadPC] /\ ruid \in [Readers -> 0..UidMax]
  BY <1>0 DEF TypeOK
<1> USE <1>0, <1>t, <1>l, WidthAssumption DEF ReaderInv, Claiming, Counted, Claimed
<1>1. ASSUME NEW p \in Publishers, ReserveStep(p) PROVE ReaderInv'
  <2>1. CASE ReserveBegin(p)
    BY <2>1, <1>c, <1>w DEF ReserveBegin, readVars, PublisherInv, Live
  <2>2. CASE ReserveLoadRefcount(p)
    BY <2>2, <1>c, <1>w DEF ReserveLoadRefcount, PGoto, PReturn, readVars, PublisherInv, Live
  <2>3. CASE ReserveLoadTimestamp(p)
    BY <2>3, <1>c, <1>w DEF ReserveLoadTimestamp, PGoto, PReturn, readVars, PublisherInv, Live
  <2>4. CASE ReserveClaim(p)
    BY <2>4, <1>c, <1>w DEF ReserveClaim, PGoto, PReturn, readVars, PublisherInv, Live
  <2>5. CASE ReserveLoadUid(p)
    BY <2>5, <1>c, <1>w DEF ReserveLoadUid, PGoto, readVars, PublisherInv, Live
  <2>6. CASE ReserveStoreUid(p)
    BY <2>6, <1>c, <1>w DEF ReserveStoreUid, readVars, PublisherInv, Live
  <2>7. CASE ReserveResetTimestamp(p)
    BY <2>7, <1>c, <1>w DEF ReserveResetTimestamp, readVars, PublisherInv, Live
  <2> QED BY <1>1, <2>1, <2>2, <2>3, <2>4, <2>5, <2>6, <2>7 DEF ReserveStep
<1>2. ASSUME NEW p \in Publishers, EndReservation(p) PROVE ReaderInv'
  <2>1. CASE CommitBegin(p)
    BY <2>1 DEF CommitBegin, PReturn, readVars
  <2>2. CASE CommitStampTimestamp(p)
    BY <2>2 DEF CommitStampTimestamp, PGoto, readVars
  <2>3. CASE CommitRelease(p)
    BY <2>3 DEF CommitRelease, PGoto, PReturn, readVars
  <2>4. CASE CancelBegin(p)
    BY <2>4 DEF CancelBegin, PGoto, PReturn, readVars
  <2>5. CASE CancelRelease(p)
    BY <2>5 DEF CancelRelease, PGoto, PReturn, readVars
  <2>6. CASE StoreZero(p)
    BY <2>6 DEF StoreZero, PReturn, readVars
  <2>7. CASE Quarantine(p)
    BY <2>7 DEF Quarantine, PReturn, readVars
  <2> QED BY <1>2, <2>1, <2>2, <2>3, <2>4, <2>5, <2>6, <2>7 DEF EndReservation
<1>3. ASSUME NEW r \in Readers, ReaderStep(r) PROVE ReaderInv'
  <2> USE DEF pubVars
  <2>1. ASSUME NEW u \in msgs, AcquireBegin(r, u) PROVE ReaderInv'
    BY <2>1 DEF AcquireBegin
  <2>2. CASE AcquireLoadRefcount(r)
    BY <2>2 DEF AcquireLoadRefcount
  <2>3. CASE AcquireIncrement(r)
    BY <2>3 DEF AcquireIncrement, RReturn
  <2>4. CASE AcquireRecheckUid(r)
    BY <2>4 DEF AcquireRecheckUid, RGoto
  <2>5. CASE AcquireUndo(r)
    BY <2>5 DEF AcquireUndo, RReturn
  <2>6. CASE Release(r)
    BY <2>6, <1>c DEF Release, RGoto, RReturn
  <2>7. CASE ReleaseStoreZero(r)
    BY <2>7 DEF ReleaseStoreZero, RReturn
  <2>8. CASE SubscriberCrash(r)
    BY <2>8 DEF SubscriberCrash, RReturn
  <2> QED BY <1>3, <2>1, <2>2, <2>3, <2>4, <2>5, <2>6, <2>7, <2>8 DEF ReaderStep
<1>4. CASE Tick
  BY <1>4 DEF Tick, pubVars, readVars, Live
<1>5. CASE UNCHANGED vars
  BY <1>5 DEF vars, Live
<1> QED BY <1>1, <1>2, <1>3, <1>4, <1>5 DEF Next

----------------------------------------------------------------------------
(***************************************************************************)
(* The theorems.                                                           *)
(***************************************************************************)

(* A freshly created block with idle threads (BufferMetadata::create)
   satisfies the inductive invariant. *)
LEMMA InitInv == Init => IInv
<1> SUFFICES ASSUME Init PROVE IInv
  OBVIOUS
<1> USE WidthAssumption, ThreadsAssumption DEF Init
<1>1. TypeOK
  BY DEF TypeOK, PubPC, ReadPC
<1>2. RefcountExact
  <2>1. Owners = {} /\ CountedReaders = {}
    BY DEF Owners, CountedReaders, Claimed, Counted
  <2> QED BY <2>1, FS_EmptySet DEF RefcountExact
<1>3. MutexInv /\ PublisherInv /\ MessageInv /\ ReaderInv
  BY DEF MutexInv, PublisherInv, MessageInv, ReaderInv, Owners, Claimed,
         Advanced, Locked
<1> QED BY <1>1, <1>2, <1>3 DEF IInv

\* The inductive invariant of the block protocol holds in every behaviour.
THEOREM InductiveInvariant == Spec => []IInv
<1>1. IInv /\ [Next]_vars => IInv'
  <2>1. IInv => TypeOK /\ PublisherInv
    BY DEF IInv
  <2> QED BY <2>1, TypeStep, ExactStep, MutexStep, PublisherStep, MessageStep,
             ReaderStepInv DEF IInv
<1> QED BY <1>1, InitInv, PTL DEF Spec

\* The metadata and every local stay in their types: the 32-bit counter in its
\* range, the 64-bit uid below its maximum.
THEOREM TypeCorrect == Spec => []TypeOK
<1>1. IInv => TypeOK
  BY DEF IInv
<1> QED BY <1>1, InductiveInvariant, PTL

\* refcount is the number of references (claim or reservation, counted
\* subscribers, leaks) for any number of threads, as long as the uid space
\* is not used up.
THEOREM RefcountIsExact == Spec => []RefcountExact
<1>1. IInv => RefcountExact
  BY DEF IInv
<1> QED BY <1>1, InductiveInvariant, PTL

\* A valid BufferRef is never more than one generation behind the block.
THEOREM LeaseBound == Spec => []StaleLeaseBound
<1>1. IInv => StaleLeaseBound
  BY DEF IInv, ReaderInv, StaleLeaseBound
<1> QED BY <1>1, InductiveInvariant, PTL

\* A reservation excludes every other claim, is for the current uid, and no
\* descriptor of that uid is out.
THEOREM ExclusiveReservation == Spec => []ReservationExclusive
<1>1. IInv => ReservationExclusive
  <2> SUFFICES ASSUME IInv, NEW p \in Publishers, ppc[p] \in Advanced
               PROVE  /\ Owners = {p} /\ puid[p] = uid
                      /\ \A u \in msgs : u < uid
                      /\ ppc[p] \in {"reserved", "stamp", "cancelSub"} => ts = 0
    BY DEF ReservationExclusive
  <2>1. TypeOK /\ PublisherInv /\ MessageInv
    BY DEF IInv
  <2>2. p \in Owners /\ Live
    BY DEF Owners, Live, Advanced, Claimed
  <2>3. Owners = {p}
    BY <2>1, <2>2 DEF PublisherInv
  <2>4. \A u \in msgs : u < uid
    BY <2>1 DEF MessageInv, TypeOK
  <2> QED BY <2>1, <2>3, <2>4 DEF PublisherInv, MessageInv
<1> QED BY <1>1, InductiveInvariant, PTL

\* A claim that can still advance the uid finds nobody referring to the block.
THEOREM ClaimFindsFreeBlock == Spec => ClaimOnlyWhenUnreferenced
<1>1. IInv /\ [Next]_vars =>
        [\A p \in Publishers : Wins(p) /\ uid # UidMax =>
           CountedReaders = {} /\ Owners = {} /\ leaked = 0]_vars
  <2> SUFFICES ASSUME IInv, [Next]_vars, NEW p \in Publishers, Wins(p), uid # UidMax
               PROVE  CountedReaders = {} /\ Owners = {} /\ leaked = 0
    OBVIOUS
  <2>1. refcount = 0
    <3>1. ppc \in [Publishers -> PubPC]
      BY DEF IInv, TypeOK
    <3>2. ASSUME NEW q \in Publishers, ReserveStep(q) PROVE refcount = 0
      BY <3>1, <3>2 DEF Wins, ReserveStep, ReserveBegin, ReserveLoadRefcount,
         ReserveLoadTimestamp, ReserveClaim, ReserveLoadUid, ReserveStoreUid,
         ReserveResetTimestamp, PGoto, PReturn
    <3>3. ASSUME NEW q \in Publishers, EndReservation(q) PROVE FALSE
      BY <3>1, <3>3 DEF Wins, EndReservation, CommitBegin, CommitStampTimestamp,
         CommitRelease, CancelBegin, CancelRelease, StoreZero, Quarantine,
         PGoto, PReturn
    <3>4. ASSUME NEW r \in Readers, ReaderStep(r) PROVE FALSE
      BY <3>4 DEF Wins, ReaderStep, AcquireBegin, AcquireLoadRefcount,
         AcquireIncrement, AcquireRecheckUid, AcquireUndo, Release,
         ReleaseStoreZero, SubscriberCrash, pubVars
    <3> QED BY <3>2, <3>3, <3>4 DEF Next, Tick, vars, pubVars, Wins
  <2>2. TypeOK /\ RefcountExact /\ Live
    BY DEF IInv, Live
  <2> QED BY <2>1, <2>2, ExactCounter
<1> QED BY <1>1, InductiveInvariant, PTL DEF Spec, ClaimOnlyWhenUnreferenced

\* A published block is not claimed again before its grace period is over.
THEOREM GraceIsRespected == Spec => GraceRespected
<1>1. IInv /\ [Next]_vars =>
        [\A p \in Publishers : Wins(p) => ts = 0 \/ clock - ts >= Grace]_vars
  <2> SUFFICES ASSUME IInv, NEW p \in Publishers, Wins(p)
               PROVE  ts = 0 \/ clock - ts >= Grace
    OBVIOUS
  <2>1. ~InGrace(pnow[p], ts) /\ pnow[p] <= clock
    BY DEF IInv, MutexInv, Wins
  <2> QED BY <2>1, WidthAssumption DEF IInv, TypeOK, InGrace
<1> QED BY <1>1, InductiveInvariant, PTL DEF Spec, GraceRespected

----------------------------------------------------------------------------
(***************************************************************************)
(* The atomics implement the abstract block of BlockLease.                 *)
(***************************************************************************)

\* What the abstract block sees of the readers.
LeaseOf == [r \in Readers |-> IF rpc[r] = "holding" THEN ruid[r] ELSE 0]

\* How the invariant pins down the abstract owner: the writing thread, or the
\* claiming one when its claim can still advance the uid.
LEMMA OwnerIs ==
  ASSUME IInv
  PROVE  /\ \A p \in Publishers : ppc[p] \in Advanced =>
              LeasePhase = "writing" /\ LeaseOwner = p
         /\ \A p \in Publishers : ppc[p] \in {"loadUid", "storeUid"} /\ uid # UidMax =>
              LeasePhase = "claimed" /\ LeaseOwner = p
         /\ (\A p \in Publishers : ppc[p] \notin Advanced) /\
            (uid = UidMax \/ \A p \in Publishers : ppc[p] \notin {"loadUid", "storeUid"}) =>
              LeasePhase = "free" /\ LeaseOwner = NoThread
<1>1. PublisherInv
  BY DEF IInv
<1>2. ASSUME NEW p \in Publishers, ppc[p] \in Advanced
      PROVE  LeasePhase = "writing" /\ LeaseOwner = p
  <2>1. \A q \in Writing : q = p
    BY <1>1, <1>2 DEF PublisherInv, Live, Owners, Writing, Advanced, Claimed
  <2>2. p \in Writing
    BY <1>2 DEF Writing
  <2> QED BY <2>1, <2>2 DEF LeasePhase, LeaseOwner
<1>3. ASSUME NEW p \in Publishers, ppc[p] \in {"loadUid", "storeUid"}, uid # UidMax
      PROVE  LeasePhase = "claimed" /\ LeaseOwner = p
  <2>1. Writing = {} /\ \A q \in Claiming : q = p
    BY <1>1, <1>3 DEF PublisherInv, Live, Owners, Writing, Claiming, Advanced, Claimed
  <2>2. p \in Claiming
    BY <1>3 DEF Claiming
  <2> QED BY <2>1, <2>2, <1>3 DEF LeasePhase, LeaseOwner
<1>4. ASSUME \A p \in Publishers : ppc[p] \notin Advanced,
             uid = UidMax \/ \A p \in Publishers : ppc[p] \notin {"loadUid", "storeUid"}
      PROVE  LeasePhase = "free" /\ LeaseOwner = NoThread
  BY <1>4 DEF LeasePhase, LeaseOwner, Writing, Claiming
<1> QED BY <1>2, <1>3, <1>4

\* A step that moves no thread in or out of the writing and claiming states
\* is invisible in the abstract owner and phase.
LEMMA SamePhase ==
  ASSUME UNCHANGED uid, Writing' = Writing, Claiming' = Claiming
  PROVE  LeasePhase' = LeasePhase /\ LeaseOwner' = LeaseOwner
BY DEF LeasePhase, LeaseOwner

\* Every step of the atomics is a step of the abstract block, or none at all.
LEMMA LeaseStep ==
  IInv /\ IInv' /\ [Next]_vars => [Lease!LeaseNext]_(Lease!leaseVars)
<1> SUFFICES ASSUME IInv, IInv', [Next]_vars
             PROVE  [Lease!LeaseNext]_(Lease!leaseVars)
  OBVIOUS
<1>0. TypeOK /\ RefcountExact /\ PublisherInv /\ MessageInv /\ ReaderInv
  BY DEF IInv
<1>t. /\ ppc \in [Publishers -> PubPC] /\ rpc \in [Readers -> ReadPC]
      /\ ruid \in [Readers -> 0..UidMax] /\ leaked \in Nat /\ uid \in 1..UidMax
  BY <1>0 DEF TypeOK
<1>s. ASSUME UNCHANGED <<uid, leaked>>, LeaseOf' = LeaseOf,
             LeasePhase' = LeasePhase, LeaseOwner' = LeaseOwner
      PROVE  UNCHANGED Lease!leaseVars
  BY <1>s DEF Lease!leaseVars, LeaseOf
<1>n. ASSUME UNCHANGED <<uid, leaked, rpc, ruid>>, NEW p \in Publishers, NEW v,
             ppc' = [ppc EXCEPT ![p] = v],
             ppc[p] \in Advanced <=> v \in Advanced,
             ppc[p] \in {"loadUid", "storeUid"} <=> v \in {"loadUid", "storeUid"}
      PROVE  UNCHANGED Lease!leaseVars
  <2>1. Writing' = Writing /\ Claiming' = Claiming
    BY <1>n, <1>t DEF Writing, Claiming
  <2>2. LeaseOf' = LeaseOf
    BY <1>n DEF LeaseOf
  <2> QED BY <1>n, <1>s, <2>1, <2>2, SamePhase
<1>f. ASSUME NEW p \in Publishers, ppc[p] \in Advanced, UNCHANGED <<uid, rpc, ruid>>,
             ppc' = [ppc EXCEPT ![p] = "idle"], leaked' \in {leaked, leaked + 1}
      PROVE  Lease!Finish(p)
  <2>1. LeasePhase = "writing" /\ LeaseOwner = p
    BY <1>f, OwnerIs
  <2>2. \A q \in Publishers : q # p => ppc[q] \notin Claimed
    BY <1>0, <1>f DEF PublisherInv, Live, Owners, Advanced, Claimed
  <2>3. \A q \in Publishers : ppc'[q] \notin Claimed
    BY <1>f, <1>t, <2>2 DEF Claimed
  <2>4. LeasePhase' = "free" /\ LeaseOwner' = NoThread
    BY <2>3 DEF LeasePhase, LeaseOwner, Writing, Claiming, Claimed, Advanced
  <2>5. LeaseOf' = LeaseOf
    BY <1>f DEF LeaseOf
  <2>6. (leaked' > 0) \in {leaked > 0, TRUE}
    <3>1. leaked' > 0 \/ leaked' = leaked
      BY <1>f, <1>t
    <3> QED BY <3>1, Zenon
  <2> QED BY <1>f, <2>1, <2>4, <2>5, <2>6 DEF Lease!Finish, LeaseOf
<1>1. ASSUME NEW p \in Publishers, ReserveStep(p)
      PROVE  Lease!LeaseNext \/ UNCHANGED Lease!leaseVars
  <2> USE DEF Advanced, readVars
  <2>1. CASE ReserveBegin(p)
    BY <2>1, <1>n DEF ReserveBegin
  <2>2. CASE ReserveLoadRefcount(p)
    BY <2>2, <1>n DEF ReserveLoadRefcount, PGoto, PReturn
  <2>3. CASE ReserveLoadTimestamp(p)
    BY <2>3, <1>n DEF ReserveLoadTimestamp, PGoto, PReturn
  <2>4. CASE ReserveClaim(p)
    <3>1. CASE refcount # 0
      BY <2>4, <3>1, <1>n DEF ReserveClaim, PReturn
    <3>2. CASE refcount = 0 /\ uid # UidMax
      <4>1. Owners = {} /\ CountedReaders = {} /\ leaked = 0
        BY <3>2, <1>0, ExactCounter DEF Live
      <4>2. LeasePhase = "free" /\ LeaseOwner = NoThread
        BY <4>1 DEF Owners, Claimed, LeasePhase, LeaseOwner, Writing, Claiming
      <4>3. ppc'[p] = "loadUid" /\ UNCHANGED <<uid, leaked, rpc, ruid>>
        BY <2>4, <3>2, <1>t DEF ReserveClaim, PGoto
      <4>4. LeasePhase' = "claimed" /\ LeaseOwner' = p
        <5>1. Writing' = {} /\ Claiming' = {p}
          BY <4>1, <2>4, <3>2, <1>t
             DEF ReserveClaim, PGoto, Owners, Claimed, Writing, Claiming
        <5> QED BY <5>1, <4>3, <3>2 DEF LeasePhase, LeaseOwner
      <4>5. LeaseOf' = LeaseOf /\ \A r \in Readers : LeaseOf[r] = 0
        BY <4>1, <4>3 DEF LeaseOf, CountedReaders, Counted
      <4>6. Lease!Claim(p)
        BY <4>1, <4>2, <4>3, <4>4, <4>5, <3>2, <1>t DEF Lease!Claim, LeaseOf
      <4> QED BY <4>6 DEF Lease!LeaseNext
    <3>3. CASE refcount = 0 /\ uid = UidMax
      <4>1. \A q \in Publishers : ppc[q] \notin Advanced
        <5> SUFFICES ASSUME NEW q \in Publishers, ppc[q] \in Advanced PROVE FALSE
          OBVIOUS
        <5>1. Live /\ q \in Owners
          BY DEF Live, Owners, Claimed
        <5> QED BY <5>1, <3>3, <1>0, ExactCounter
      <4>2. \A q \in Publishers : ppc'[q] \notin Advanced
        BY <2>4, <3>3, <4>1, <1>t DEF ReserveClaim, PGoto
      <4>3. UNCHANGED <<uid, leaked, rpc, ruid>>
        BY <2>4 DEF ReserveClaim
      <4>4. /\ LeasePhase = "free" /\ LeaseOwner = NoThread
            /\ LeasePhase' = "free" /\ LeaseOwner' = NoThread
        BY <4>1, <4>2, <4>3, <3>3 DEF LeasePhase, LeaseOwner, Writing
      <4> QED BY <4>3, <4>4, <1>s DEF LeaseOf
    <3> QED BY <3>1, <3>2, <3>3
  <2>5. CASE ReserveLoadUid(p)
    <3>1. CASE uid # UidMax
      BY <2>5, <3>1, <1>n DEF ReserveLoadUid
    <3>2. CASE uid = UidMax
      <4>1. UNCHANGED <<uid, leaked, rpc, ruid>> /\ Writing' = Writing
        BY <2>5, <3>2, <1>t DEF ReserveLoadUid, PGoto, Writing
      <4>2. LeasePhase' = LeasePhase /\ LeaseOwner' = LeaseOwner
        BY <4>1, <3>2 DEF LeasePhase, LeaseOwner
      <4> QED BY <4>1, <4>2, <1>s DEF LeaseOf
    <3> QED BY <3>1, <3>2
  <2>6. CASE ReserveStoreUid(p)
    <3>1. /\ puid[p] = uid /\ uid # UidMax /\ ppc[p] = "storeUid"
          /\ uid' = uid + 1 /\ ppc'[p] = "resetTs" /\ UNCHANGED <<leaked, rpc, ruid>>
      BY <2>6, <1>0, <1>t DEF ReserveStoreUid, PublisherInv
    <3>2. LeasePhase = "claimed" /\ LeaseOwner = p
      BY <3>1, OwnerIs
    <3>3. LeasePhase' = "writing" /\ LeaseOwner' = p
      <4>1. \A q \in Publishers : q # p => ppc[q] \notin Claimed
        BY <3>1, <1>0 DEF PublisherInv, Live, Owners, Claimed
      <4>2. Writing' = {p}
        BY <2>6, <4>1, <1>t DEF ReserveStoreUid, Writing, Claimed
      <4> QED BY <4>2 DEF LeasePhase, LeaseOwner
    <3>4. Lease!Advance(p)
      BY <3>1, <3>2, <3>3 DEF Lease!Advance
    <3> QED BY <3>4 DEF Lease!LeaseNext
  <2>7. CASE ReserveResetTimestamp(p)
    BY <2>7, <1>n DEF ReserveResetTimestamp
  <2> QED BY <1>1, <2>1, <2>2, <2>3, <2>4, <2>5, <2>6, <2>7 DEF ReserveStep
<1>2. ASSUME NEW p \in Publishers, EndReservation(p)
      PROVE  Lease!LeaseNext \/ UNCHANGED Lease!leaseVars
  <2> USE DEF Advanced, readVars
  <2>1. CASE CommitBegin(p)
    <3>1. uid = puid[p]
      BY <2>1, <1>0 DEF CommitBegin, PublisherInv
    <3> QED BY <2>1, <3>1, <1>n DEF CommitBegin
  <2>2. CASE CommitStampTimestamp(p)
    BY <2>2, <1>n DEF CommitStampTimestamp, PGoto
  <2>3. CASE CommitRelease(p)
    <3>1. refcount # 0
      BY <2>3, <1>0, ExactCounter DEF CommitRelease, Live, Owners, Claimed
    <3>2. Lease!Finish(p)
      BY <2>3, <3>1, <1>f DEF CommitRelease, PReturn
    <3> QED BY <3>2 DEF Lease!LeaseNext
  <2>4. CASE CancelBegin(p)
    <3>1. uid = puid[p]
      BY <2>4, <1>0 DEF CancelBegin, PublisherInv
    <3> QED BY <2>4, <3>1, <1>n DEF CancelBegin, PGoto
  <2>5. CASE CancelRelease(p)
    <3>1. refcount # 0
      BY <2>5, <1>0, ExactCounter DEF CancelRelease, Live, Owners, Claimed
    <3>2. Lease!Finish(p)
      BY <2>5, <3>1, <1>f DEF CancelRelease, PReturn
    <3> QED BY <3>2 DEF Lease!LeaseNext
  <2>6. CASE StoreZero(p)
    BY <2>6, <1>n DEF StoreZero, PReturn
  <2>7. CASE Quarantine(p)
    <3>1. Lease!Finish(p)
      BY <2>7, <1>f DEF Quarantine, PReturn
    <3> QED BY <3>1 DEF Lease!LeaseNext
  <2> QED BY <1>2, <2>1, <2>2, <2>3, <2>4, <2>5, <2>6, <2>7 DEF EndReservation
<1>3. ASSUME NEW r \in Readers, ReaderStep(r)
      PROVE  Lease!LeaseNext \/ UNCHANGED Lease!leaseVars
  <2>1. UNCHANGED <<uid, ppc, msgs>>
    BY <1>3 DEF ReaderStep, AcquireBegin, AcquireLoadRefcount, AcquireIncrement,
                AcquireRecheckUid, AcquireUndo, Release, ReleaseStoreZero,
                SubscriberCrash, pubVars
  <2>2. LeasePhase' = LeasePhase /\ LeaseOwner' = LeaseOwner
    BY <2>1, SamePhase DEF Writing, Claiming
  <2>3. ASSUME rpc[r] # "holding", rpc'[r] # "holding", UNCHANGED leaked,
               \A q \in Readers : q # r => rpc'[q] = rpc[q] /\ ruid'[q] = ruid[q]
        PROVE  UNCHANGED Lease!leaseVars
    <3>1. LeaseOf' = LeaseOf
      BY <2>3 DEF LeaseOf
    <3> QED BY <3>1, <2>1, <2>2, <2>3, <1>s
  <2>4. ASSUME rpc' = [rpc EXCEPT ![r] = "idle"], ruid' = [ruid EXCEPT ![r] = 0],
               leaked' \in {leaked, leaked + 1}
        PROVE  Lease!Drop(r)
    <3>1. LeaseOf' = [LeaseOf EXCEPT ![r] = 0]
      BY <2>4, <1>t DEF LeaseOf
    <3>2. (leaked' > 0) \in {leaked > 0, TRUE}
      <4>1. leaked' > 0 \/ leaked' = leaked
        BY <2>4, <1>t
      <4> QED BY <4>1, Zenon
    <3> QED BY <3>1, <3>2, <2>1, <2>2 DEF Lease!Drop, LeaseOf
  <2>a. ASSUME NEW u \in msgs, AcquireBegin(r, u) PROVE UNCHANGED Lease!leaseVars
    BY <2>a, <2>3, <1>t DEF AcquireBegin
  <2>b. CASE AcquireLoadRefcount(r)
    BY <2>b, <2>3, <1>t DEF AcquireLoadRefcount
  <2>c. CASE AcquireIncrement(r)
    BY <2>c, <2>3, <1>t DEF AcquireIncrement, RReturn
  <2>d. CASE AcquireRecheckUid(r)
    <3>1. CASE uid # ruid[r]
      BY <2>d, <3>1, <2>3, <1>t DEF AcquireRecheckUid, RGoto
    <3>2. CASE uid = ruid[r]
      <4>1. uid \in msgs
        BY <2>d, <3>2, <1>0 DEF AcquireRecheckUid, ReaderInv
      <4>2. LeasePhase # "writing"
        BY <4>1, <1>0 DEF MessageInv, LeasePhase, Writing
      <4>3. LeaseOf[r] = 0 /\ LeaseOf' = [LeaseOf EXCEPT ![r] = uid]
        BY <2>d, <3>2, <1>t DEF AcquireRecheckUid, RGoto, LeaseOf
      <4>4. Lease!Grant(r)
        BY <4>2, <4>3, <2>1, <2>2, <2>d DEF Lease!Grant, LeaseOf, AcquireRecheckUid
      <4> QED BY <4>4 DEF Lease!LeaseNext
    <3> QED BY <3>1, <3>2
  <2>e. CASE AcquireUndo(r)
    BY <2>e, <2>3, <1>t DEF AcquireUndo, RReturn
  <2>f. CASE Release(r)
    <3>1. LeaseOf' = [LeaseOf EXCEPT ![r] = 0] /\ UNCHANGED leaked
      BY <2>f, <1>t DEF Release, RGoto, RReturn, LeaseOf
    <3>2. Lease!Drop(r)
      BY <3>1, <2>1, <2>2 DEF Lease!Drop, LeaseOf
    <3> QED BY <3>2 DEF Lease!LeaseNext
  <2>g. CASE ReleaseStoreZero(r)
    BY <2>g, <2>3, <1>t DEF ReleaseStoreZero, RReturn
  <2>h. CASE SubscriberCrash(r)
    <3>1. Lease!Drop(r)
      BY <2>h, <2>4 DEF SubscriberCrash, RReturn
    <3> QED BY <3>1 DEF Lease!LeaseNext
  <2> QED BY <1>3, <2>a, <2>b, <2>c, <2>d, <2>e, <2>f, <2>g, <2>h DEF ReaderStep
<1>4. CASE Tick \/ UNCHANGED vars
  <2>1. UNCHANGED <<uid, leaked, ppc, rpc, ruid>>
    BY <1>4 DEF Tick, vars, pubVars, readVars
  <2>2. LeaseOf' = LeaseOf /\ Writing' = Writing /\ Claiming' = Claiming
    BY <2>1 DEF LeaseOf, Writing, Claiming
  <2> QED BY <2>1, <2>2, <1>s, SamePhase
<1> QED BY <1>1, <1>2, <1>3, <1>4 DEF Next

\* A fresh block is a free abstract block without leases.
LEMMA LeaseInitially == Init => Lease!LeaseInit
<1> SUFFICES ASSUME Init PROVE Lease!LeaseInit
  OBVIOUS
<1>1. Writing = {} /\ Claiming = {}
  BY DEF Init, Writing, Claiming, Advanced
<1>2. LeasePhase = "free" /\ LeaseOwner = NoThread
  BY <1>1 DEF LeasePhase, LeaseOwner
<1>3. LeaseOf = [r \in Readers |-> 0] /\ ~(leaked > 0) /\ uid \in InitUids
  BY DEF Init, LeaseOf
<1> QED BY <1>2, <1>3 DEF Lease!LeaseInit, LeaseOf

\* The lock-free protocol implements the abstract block: claims only of a block
\* without leases, generations moved by their owner alone, no lease granted
\* while new contents are written.
THEOREM ProtocolImplementsLease == Spec => ImplementsBlockLease
<1>1. IInv /\ IInv' /\ [Next]_vars => [Lease!LeaseNext]_(Lease!leaseVars)
  BY LeaseStep
<1> QED BY <1>1, LeaseInitially, InductiveInvariant, PTL
           DEF Spec, ImplementsBlockLease, Lease!LeaseSpec
============================================================================
