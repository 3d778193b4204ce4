------------------------ MODULE BufferMapperProofs -------------------------
(***************************************************************************)
(* Proofs that map_descriptor reads what was sent, whatever the cache      *)
(* remembers, for any number of threads, publishers and publications.      *)
(***************************************************************************)
EXTENDS BufferMapper, Integers, TLAPS, FiniteSetTheorems, WellFoundedInduction

----------------------------------------------------------------------------
(***************************************************************************)
(* Facts about finite sets.                                                *)
(***************************************************************************)

\* Two sets that differ at most in x: their sizes differ by what x contributes.
LEMMA CountMove ==
  ASSUME NEW S, NEW T, NEW x, IsFiniteSet(S),
         \A s : s # x => (s \in S <=> s \in T)
  PROVE  /\ IsFiniteSet(T)
         /\ Cardinality(S) \in Nat /\ Cardinality(T) \in Nat
         /\ x \in S => Cardinality(S) >= 1
         /\ Cardinality(T) = Cardinality(S) + (IF x \in T THEN 1 ELSE 0)
                                           - (IF x \in S THEN 1 ELSE 0)
<1>1. IsFiniteSet(S \ {x}) /\ IsFiniteSet((S \ {x}) \cup {x})
  BY FS_RemoveElement, FS_AddElement
<1>2. Cardinality(S) \in Nat /\ Cardinality(S \ {x}) \in Nat
  BY <1>1, FS_CardinalityType
<1>3. Cardinality(S \ {x}) = IF x \in S THEN Cardinality(S) - 1 ELSE Cardinality(S)
  BY FS_RemoveElement
<1>4. /\ IsFiniteSet(T)
      /\ Cardinality(T) = Cardinality(S \ {x}) + (IF x \in T THEN 1 ELSE 0)
  <2>1. CASE x \in T
    <3>1. T = (S \ {x}) \cup {x} /\ x \notin S \ {x}
      BY <2>1
    <3> QED BY <2>1, <3>1, <1>1, <1>2, FS_AddElement
  <2>2. CASE x \notin T
    <3>1. T = S \ {x}
      BY <2>2
    <3> QED BY <2>2, <3>1, <1>1, <1>2
  <2> QED BY <2>1, <2>2
<1>5. CASE x \in S
  BY <1>2, <1>3, <1>4, <1>5
<1>6. CASE x \notin S
  BY <1>2, <1>3, <1>4, <1>6
<1> QED BY <1>5, <1>6

\* The values of a function on a finite set are at most as many as its arguments.
LEMMA ImageBound ==
  ASSUME NEW S, IsFiniteSet(S), NEW f, DOMAIN f = S, f = [x \in S |-> f[x]]
  PROVE  IsFiniteSet({f[x] : x \in S}) /\ Cardinality({f[x] : x \in S}) <= Cardinality(S)
<1> DEFINE R == {f[x] : x \in S}
<1>1. f \in Surjection(S, R)
  BY DEF Surjection
<1> HIDE DEF R
<1>2. IsFiniteSet(R) /\ Cardinality(R) <= Cardinality(S)
  BY <1>1, FS_Surjection
<1> QED BY <1>2 DEF R

\* Two finite sets together have at most as many elements as both.
LEMMA UnionBound ==
  ASSUME NEW S, NEW T, IsFiniteSet(S), IsFiniteSet(T)
  PROVE  /\ IsFiniteSet(S \cup T)
         /\ Cardinality(S \cup T) <= Cardinality(S) + Cardinality(T)
<1>1. IsFiniteSet(S \cup T) /\ IsFiniteSet(S \cap T)
  BY FS_Union, FS_Intersection
<1>2. Cardinality(S) \in Nat /\ Cardinality(T) \in Nat /\ Cardinality(S \cap T) \in Nat
  BY <1>1, FS_CardinalityType
<1>3. Cardinality(S \cup T) = Cardinality(S) + Cardinality(T) - Cardinality(S \cap T)
  BY FS_Union
<1> QED BY <1>1, <1>2, <1>3

\* A set of natural numbers that is not empty has a least element.
LEMMA LeastNatural ==
  ASSUME NEW S \in SUBSET Nat, S # {}
  PROVE  \E m \in S : \A k \in S : m <= k
<1>1. IsWellFoundedOn(OpToRel(<, Nat), Nat)
  BY NatLessThanWellFounded
<1>2. PICK m \in S : \A k \in S : ~(<<k, m>> \in OpToRel(<, Nat))
  BY <1>1, WFMin
<1>3. ASSUME NEW k \in S PROVE m <= k
  <2>1. k \in Nat /\ m \in Nat
    OBVIOUS
  <2>2. ~(k < m)
    <3>1. <<k, m>> \in Nat \X Nat
      BY <2>1
    <3>2. <<k, m>>[1] = k /\ <<k, m>>[2] = m
      OBVIOUS
    <3>3. ~(<<k, m>>[1] < <<k, m>>[2])
      BY <1>2, <3>1, Zenon DEF OpToRel
    <3> QED BY <3>2, <3>3
  <2> QED BY <2>1, <2>2
<1> QED BY <1>3

----------------------------------------------------------------------------

\* The uids of an incarnation stay in the range its initial uid opens.
UidsInRange ==
  \A i \in Incarnations : uid[i] \in InitialUid(i)..(InitialUid(i) + MaxPublications)

\* A block is not claimed unless there is a uid left for it.
ClaimsHaveUids ==
  \A i \in Incarnations :
    claim[i] = "claimed" => uid[i] < InitialUid(i) + MaxPublications

\* A descriptor carries a uid that its publisher's object has had.
MessagesInRange ==
  \A d \in msgs : d.uid \in InitialUid(d.inc)..(InitialUid(d.inc) + MaxPublications)

\* A call under way works on a descriptor that was sent.
CallsHaveMessages ==
  \A t \in Threads : stage[t] # "idle" => msg[t] \in msgs

\* A descriptor counted as current is current.
ValidIsCurrent ==
  \A t \in Threads : valid[t] => linked = msg[t].inc /\ uid[msg[t].inc] = msg[t].uid

\* A candidate attached for a current descriptor, and every mapping that has
\* passed a comparison of uids, is the sender's object; a unit is given back
\* only when the descriptor is no longer current.
MappingIsSenders ==
  \A t \in Threads :
    /\ stage[t] = "check" /\ valid[t] => mapping[t] = msg[t].inc
    /\ stage[t] \in {"insert", "acquire", "increment"} \cup Counted => mapping[t] = msg[t].inc
    /\ stage[t] = "undo" => ~valid[t]

\* A block that a thread refers to has moved on only if the claim was made before
\* the reference, and then it cannot be claimed a second time.
OneClaimAhead ==
  \A t \in Threads : stage[t] \in Owning =>
    \/ uid[msg[t].inc] = msg[t].uid
    \/ uid[msg[t].inc] = msg[t].uid + 1 /\ claim[msg[t].inc] # "claimed"

\* Whom a cleaner has found dead does not serve; a successor may.
DoomedIsDead == doomed # None => doomed <= latest /\ (serving => doomed < latest)

Sharing == {t \in Threads : stage[t] = "share"}
Cached  == {ipc[i] : i \in Incarnations}
Offered == {resource[t] : t \in Sharing}

\* An import that is about to be offered is nobody else's and not cached.
OfferedImportsAreFresh ==
  /\ \A t \in Sharing : resource[t] # None /\ resource[t] \notin Cached
  /\ \A t, u \in Sharing : resource[t] = resource[u] => t = u
  /\ \A t \in Threads : stage[t] = "held" => ipc[msg[t].inc] # None

IInv == /\ TypeOK /\ UidsInRange /\ ClaimsHaveUids /\ MessagesInRange /\ CallsHaveMessages
        /\ ValidIsCurrent /\ MappingIsSenders /\ OneClaimAhead /\ ReferencesBalance
        /\ OneImportPerBlock /\ OfferedImportsAreFresh /\ CurrentDescriptorAccepted /\ DoomedIsDead

----------------------------------------------------------------------------
(***************************************************************************)
(* Uids.                                                                   *)
(***************************************************************************)

\* The ranges of uids of two incarnations do not meet.
LEMMA RangesDisjoint ==
  ASSUME NEW i \in Incarnations, NEW j \in Incarnations, i < j
  PROVE  /\ InitialUid(i) \in Nat /\ InitialUid(j) \in Nat
         /\ InitialUid(i) + MaxPublications < InitialUid(j)
<1> DEFINE K == MaxPublications + 1
<1>1. K \in Nat /\ i \in Nat /\ j \in Nat /\ MaxPublications \in Nat
  BY MapperAssumption DEF Incarnations
<1>2. PICK d \in Nat : j = i + 1 + d
  <2>1. j - i - 1 \in Nat
    BY <1>1
  <2> QED BY <1>1, <2>1, j = i + 1 + (j - i - 1)
<1> HIDE DEF K
<1>3. j * K = i * K + K + d * K
  BY <1>1, <1>2
<1>4. i * K \in Nat /\ d * K \in Nat /\ j * K \in Nat
  BY <1>1, <1>2
<1>5. InitialUid(i) = i * K /\ InitialUid(j) = j * K /\ K = MaxPublications + 1
  BY DEF InitialUid, K
<1>6. i * K + MaxPublications < i * K + K + d * K
  BY <1>1, <1>4, <1>5
<1> QED BY <1>1, <1>3, <1>4, <1>5, <1>6

\* An initial uid is a natural number.
LEMMA InitialUidType ==
  ASSUME NEW i \in Incarnations
  PROVE  InitialUid(i) \in Nat /\ i \in Nat
BY MapperAssumption DEF Incarnations, InitialUid

\* An object whose uid is the descriptor's is the sender's object.
LEMMA UidNamesSender ==
  ASSUME UidsInRange, NEW i \in Incarnations, NEW d \in Descriptors,
         d.uid \in InitialUid(d.inc)..(InitialUid(d.inc) + MaxPublications),
         uid[i] = d.uid
  PROVE  i = d.inc
<1>1. d.inc \in Incarnations
  BY DEF Descriptors
<1>2. /\ InitialUid(i) \in Nat /\ InitialUid(d.inc) \in Nat /\ i \in Nat /\ d.inc \in Nat
      /\ MaxPublications \in Nat
  BY <1>1, InitialUidType, MapperAssumption
<1>3. uid[i] \in InitialUid(i)..(InitialUid(i) + MaxPublications)
  BY DEF UidsInRange
<1>4. CASE i < d.inc
  <2>1. InitialUid(i) + MaxPublications < InitialUid(d.inc)
    BY <1>1, <1>4, RangesDisjoint
  <2> QED BY <1>2, <1>3, <2>1
<1>5. CASE d.inc < i
  <2>1. InitialUid(d.inc) + MaxPublications < InitialUid(i)
    BY <1>1, <1>5, RangesDisjoint
  <2> QED BY <1>2, <1>3, <2>1
<1> QED BY <1>2, <1>4, <1>5

\* The same for the descriptor of a call under way.
LEMMA CallMatchesSender ==
  ASSUME IInv, NEW t \in Threads, stage[t] # "idle",
         NEW i \in Incarnations, uid[i] = msg[t].uid
  PROVE  i = msg[t].inc
<1>1. msg[t] \in msgs /\ msg[t] \in Descriptors
  BY DEF IInv, CallsHaveMessages, TypeOK
<1>2. msg[t].uid \in InitialUid(msg[t].inc)..(InitialUid(msg[t].inc) + MaxPublications)
  BY <1>1 DEF IInv, MessagesInRange
<1>3. UidsInRange
  BY DEF IInv
<1> QED BY <1>1, <1>2, <1>3, UidNamesSender

----------------------------------------------------------------------------
(***************************************************************************)
(* References and imports, counted.                                        *)
(***************************************************************************)

\* The owners in object i, when only thread t moves.
LEMMA OwnersMove ==
  ASSUME NEW i, NEW t \in Threads,
         \A u \in Threads \ {t} : stage'[u] = stage[u] /\ mapping'[u] = mapping[u]
  PROVE  /\ Cardinality(OwnersOf(i)) \in Nat /\ Cardinality(OwnersOf(i)') \in Nat
         /\ t \in OwnersOf(i) => Cardinality(OwnersOf(i)) >= 1
         /\ Cardinality(OwnersOf(i)') = Cardinality(OwnersOf(i))
              + (IF t \in OwnersOf(i)' THEN 1 ELSE 0) - (IF t \in OwnersOf(i) THEN 1 ELSE 0)
<1>1. IsFiniteSet(OwnersOf(i))
  BY MapperAssumption, FS_Subset, OwnersOf(i) \subseteq Threads DEF OwnersOf
<1>2. \A u : u # t => (u \in OwnersOf(i) <=> u \in OwnersOf(i)')
  BY DEF OwnersOf
<1> QED BY <1>1, <1>2, CountMove

\* A thread that imports finds a fresh name: fewer imports are open than there
\* are incarnations and other threads.
LEMMA FreshImport ==
  ASSUME TypeOK, OneImportPerBlock, NEW t \in Threads, stage[t] # "share"
  PROVE  NewImport \in Imports /\ NewImport \notin open
<1>1. IsFiniteSet(Sharing) /\ Cardinality(Sharing) <= Cardinality(Threads \ {t})
  <2>1. Sharing \subseteq Threads \ {t} /\ IsFiniteSet(Threads \ {t})
    BY MapperAssumption, FS_RemoveElement DEF Sharing
  <2> QED BY <2>1, FS_Subset
<1>2. /\ Cardinality(Threads) \in Nat /\ Cardinality(Threads \ {t}) = Cardinality(Threads) - 1
      /\ Cardinality(Sharing) \in Nat
  BY <1>1, MapperAssumption, FS_RemoveElement, FS_CardinalityType
<1>3. IsFiniteSet(Cached) /\ Cardinality(Cached) <= MaxIncarnation
  <2>1. MaxIncarnation \in Nat
    BY MapperAssumption
  <2>2. IsFiniteSet(Incarnations) /\ Cardinality(Incarnations) = MaxIncarnation
    BY <2>1, FS_Interval, MapperAssumption DEF Incarnations
  <2>3. DOMAIN ipc = Incarnations /\ ipc = [i \in Incarnations |-> ipc[i]]
    BY DEF TypeOK
  <2> QED BY <2>2, <2>3, ImageBound DEF Cached
<1>4. IsFiniteSet(Offered) /\ Cardinality(Offered) <= Cardinality(Sharing)
  <2> DEFINE f == [u \in Sharing |-> resource[u]]
  <2>1. DOMAIN f = Sharing /\ f = [u \in Sharing |-> f[u]]
    OBVIOUS
  <2>2. Offered = {f[u] : u \in Sharing}
    BY DEF Offered
  <2> HIDE DEF f
  <2>3. IsFiniteSet({f[u] : u \in Sharing}) /\ Cardinality({f[u] : u \in Sharing}) <= Cardinality(Sharing)
    BY <1>1, <2>1, ImageBound
  <2> QED BY <2>2, <2>3
<1>5. /\ IsFiniteSet(Cached \cup Offered)
      /\ Cardinality(Cached \cup Offered) <= Cardinality(Cached) + Cardinality(Offered)
  BY <1>3, <1>4, UnionBound
<1>6. open \subseteq Cached \cup Offered
  BY DEF OneImportPerBlock, Cached, Offered, Sharing
<1>7. /\ Cardinality(Cached) \in Nat /\ Cardinality(Offered) \in Nat
      /\ Cardinality(Cached \cup Offered) \in Nat
  BY <1>3, <1>4, <1>5, FS_CardinalityType
<1>8. IsFiniteSet(open) /\ Cardinality(open) \in Nat
      /\ Cardinality(open) <= Cardinality(Cached \cup Offered)
  BY <1>5, <1>6, FS_Subset, FS_CardinalityType
<1>9. MaxIncarnation \in Nat
  BY MapperAssumption
<1>10. Cardinality(open) < MaxIncarnation + Cardinality(Threads)
  BY <1>1, <1>2, <1>3, <1>4, <1>5, <1>7, <1>8, <1>9
<1>11. Imports # open
  <2>1. Cardinality(Imports) = MaxIncarnation + Cardinality(Threads)
    BY <1>2, <1>9, FS_Interval, MapperAssumption DEF Imports
  <2> QED BY <1>8, <1>9, <1>2, <1>10, <2>1
<1>12. Imports \ open # {} /\ Imports \ open \in SUBSET Nat
  <2>1. open \subseteq Imports
    BY DEF TypeOK
  <2>2. Imports \subseteq Nat
    BY <1>2, <1>9 DEF Imports
  <2> QED BY <1>11, <2>1, <2>2
<1>13. \E r \in Imports \ open : \A s \in Imports \ open : r <= s
  BY <1>12, LeastNatural
<1> QED BY <1>13 DEF NewImport

----------------------------------------------------------------------------
(***************************************************************************)
(* The inductive invariant, part by part.                                  *)
(***************************************************************************)

\* Every step of the publisher, its peers and the calls keeps the types: no
\* reference count falls below zero, no null mapping is followed, and every
\* import gets a name.
LEMMA TypeStep == IInv /\ [Next]_vars => TypeOK'
<1> SUFFICES ASSUME IInv, [Next]_vars PROVE TypeOK'
  OBVIOUS
<1>0. TypeOK /\ ReferencesBalance /\ OneImportPerBlock
  BY DEF IInv
<1>1. \A t \in Threads : stage[t] \in Counted => refs[mapping[t]] - 1 \in Nat
  <2> SUFFICES ASSUME NEW t \in Threads, stage[t] \in Counted
               PROVE  refs[mapping[t]] - 1 \in Nat
    OBVIOUS
  <2>1. mapping[t] \in Incarnations
    BY <1>0 DEF TypeOK, Counted, Owning
  <2>2. t \in OwnersOf(mapping[t]) /\ IsFiniteSet(OwnersOf(mapping[t]))
    BY MapperAssumption, FS_Subset, OwnersOf(mapping[t]) \subseteq Threads DEF OwnersOf
  <2>3. Cardinality(OwnersOf(mapping[t])) \in Nat /\ Cardinality(OwnersOf(mapping[t])) # 0
    BY <2>2, FS_CardinalityType, FS_EmptySet
  <2> QED BY <1>0, <2>1, <2>3 DEF ReferencesBalance
<1> USE <1>0 DEF TypeOK, cacheVars, threadVars, pubVars
<1>u. claim[latest] = "reserved" => refs[latest] - 1 \in Nat
  <2>1. IsFiniteSet(OwnersOf(latest))
    BY MapperAssumption, FS_Subset, OwnersOf(latest) \subseteq Threads DEF OwnersOf
  <2>2. Cardinality(OwnersOf(latest)) \in Nat
    BY <2>1, FS_CardinalityType
  <2> QED BY <1>0, <2>2 DEF ReferencesBalance
<1>2. CASE Claim \/ StoreUid
  <2>1. valid' \in [Threads -> BOOLEAN]
    BY <1>2 DEF Claim, StoreUid, Revalidate
  <2> QED BY <1>2, <2>1 DEF Claim, StoreUid, Claims
<1>c. CASE Commit \/ Cancel
  <2>1. [inc |-> latest, uid |-> uid[latest]] \in Descriptors
    BY DEF Descriptors
  <2>2. refs' \in [Incarnations -> Nat] /\ claim' \in [Incarnations -> Claims]
    BY <1>u, <1>c DEF Commit, Cancel, GiveBack, Claims
  <2> QED BY <1>c, <2>1, <2>2 DEF Commit, Cancel
<1>3. CASE Withdraw
  <2>1. valid' \in [Threads -> BOOLEAN]
    BY <1>3 DEF Withdraw, Revalidate
  <2> QED BY <1>3, <2>1 DEF Withdraw
<1>4. CASE Crash
  BY <1>4 DEF Crash, Claims
<1>5. CASE Restart
  <2>1. valid' \in [Threads -> BOOLEAN]
    BY <1>5 DEF Restart, Revalidate
  <2>2. latest + 1 \in Incarnations
    BY <1>5, MapperAssumption DEF Restart, Incarnations
  <2> QED BY <1>5, <2>1, <2>2 DEF Restart
<1>6. CASE CleanupCheck
  BY <1>6 DEF CleanupCheck
<1>7. CASE CleanupUnlink
  <2>1. valid' \in [Threads -> BOOLEAN]
    BY <1>7 DEF CleanupUnlink, Revalidate
  <2> QED BY <1>7, <2>1 DEF CleanupUnlink
<1>8. ASSUME NEW t \in Threads, GetOrAttach(t) PROVE TypeOK'
  <2>1. ASSUME NEW d \in msgs, LookupMapping(t, d) PROVE TypeOK'
    <3>1. valid' \in [Threads -> BOOLEAN]
      BY <2>1 DEF LookupMapping
    <3>2. d \in Descriptors
      OBVIOUS
    <3>3. CASE cache # None /\ uid[cache] = d.uid
      BY <2>1, <3>1, <3>2, <3>3 DEF LookupMapping, Goto, Stages
    <3>4. CASE ~(cache # None /\ uid[cache] = d.uid)
      BY <2>1, <3>1, <3>2, <3>4 DEF LookupMapping, Goto, Stages
    <3> QED BY <3>3, <3>4
  <2>2. CASE Attach(t)
    BY <2>2 DEF Attach, Return, Goto, Stages
  <2>3. CASE AttachFails(t)
    BY <2>3 DEF AttachFails, Return, Goto, Stages
  <2>4. CASE CheckCandidate(t)
    BY <2>4 DEF CheckCandidate, Return, Goto, Stages
  <2>5. CASE InsertMapping(t)
    BY <2>5 DEF InsertMapping, Goto, Stages
  <2> QED BY <1>8, <2>1, <2>2, <2>3, <2>4, <2>5 DEF GetOrAttach
<1>9. ASSUME NEW t \in Threads, MapDescriptor(t) PROVE TypeOK'
  <2>1. CASE AcquireRef(t) \/ IncrementRef(t) \/ RecheckUid(t)
    BY <2>1 DEF AcquireRef, IncrementRef, RecheckUid, Return, Goto, Stages
  <2>u. CASE UndoRef(t)
    <3>1. refs[mapping[t]] - 1 \in Nat
      BY <1>1, <2>u DEF UndoRef, Counted
    <3> QED BY <2>u, <3>1 DEF UndoRef, Return, Goto, Stages
  <2>2. CASE FindResource(t)
    <3>1. ipc[msg[t].inc] \in Imports \cup {None}
      BY DEF Descriptors
    <3> QED BY <2>2, <3>1 DEF FindResource, Goto, Stages
  <2>3. CASE Import(t)
    <3>1. NewImport \in Imports
      BY <2>3, FreshImport DEF Import
    <3> QED BY <2>3, <3>1 DEF Import, Goto, Stages
  <2>4. CASE ImportFails(t)
    <3>1. refs[mapping[t]] - 1 \in Nat
      BY <1>1, <2>4 DEF ImportFails, Counted, Owning
    <3> QED BY <2>4, <3>1 DEF ImportFails, Return, Goto, Stages
  <2>5. CASE ShareResource(t)
    <3>1. ipc[msg[t].inc] \in Imports \cup {None}
      BY DEF Descriptors
    <3> QED BY <2>5, <3>1 DEF ShareResource, Goto, Stages
  <2>6. CASE ReleasePublication(t)
    <3>1. refs[mapping[t]] - 1 \in Nat
      BY <1>1, <2>6 DEF ReleasePublication, Counted, Owning
    <3> QED BY <2>6, <3>1 DEF ReleasePublication, Return, Goto, Stages
  <2> QED BY <1>9, <2>1, <2>u, <2>2, <2>3, <2>4, <2>5, <2>6 DEF MapDescriptor
<1>10. CASE UNCHANGED vars
  BY <1>10 DEF vars
<1> QED BY <1>2, <1>c, <1>3, <1>4, <1>5, <1>6, <1>7, <1>8, <1>9, <1>10 DEF Next

PublisherStep == \/ Claim \/ StoreUid \/ Commit \/ Cancel \/ Withdraw \/ Crash
                 \/ Restart \/ CleanupCheck \/ CleanupUnlink
CallStep(t) == GetOrAttach(t) \/ MapDescriptor(t)

\* The publisher's unit in object i comes, goes or stays, and with it the refcount.
UnitMoves(i) ==
  \/ refs'[i] = refs[i] /\ (claim'[i] = "none" <=> claim[i] = "none")
  \/ refs'[i] = refs[i] + 1 /\ claim[i] = "none" /\ claim'[i] # "none"
  \/ refs'[i] = refs[i] - 1 /\ claim[i] # "none" /\ claim'[i] = "none"

\* The uid of object i moves under a claim only, and the claim ends with that; it
\* is made while nobody refers to the block.
UidMoves(i) ==
  \/ /\ uid'[i] = uid[i]
     /\ claim'[i] = "claimed" =>
          \/ claim[i] = "claimed"
          \/ refs[i] = 0 /\ uid[i] < InitialUid(i) + MaxPublications
  \/ uid'[i] = uid[i] + 1 /\ claim[i] = "claimed" /\ claim'[i] # "claimed"

\* What a step of the publisher or a cleaner does to the calls under way: it moves
\* no thread, changes a uid only under a claim made while nobody referred to the
\* block, and no descriptor becomes current through it.
LEMMA PublisherFrame ==
  ASSUME IInv, PublisherStep
  PROVE  /\ UNCHANGED <<cache, ipc, open, stage, msg, mapping, resource, outcome>>
         /\ msgs \subseteq msgs'
         /\ \A i \in Incarnations : UnitMoves(i) /\ UidMoves(i)
         /\ \A t \in Threads : valid'[t] =>
              valid[t] /\ linked' = msg[t].inc /\ uid'[msg[t].inc] = msg[t].uid
<1> USE DEF cacheVars, threadVars
<1>0. TypeOK /\ ValidIsCurrent
  BY DEF IInv
<1>1. UNCHANGED <<cache, ipc, open, stage, msg, mapping, resource, outcome>> /\ msgs \subseteq msgs'
  BY DEF PublisherStep, Claim, StoreUid, Commit, Cancel, Withdraw, Crash, Restart,
     CleanupCheck, CleanupUnlink
<1>2. ASSUME NEW i \in Incarnations PROVE UnitMoves(i) /\ UidMoves(i)
  <2>0. /\ latest \in Incarnations /\ uid \in [Incarnations -> Nat]
        /\ refs \in [Incarnations -> Nat] /\ claim \in [Incarnations -> Claims]
    BY <1>0 DEF TypeOK
  <2> USE DEF UnitMoves, UidMoves
  <2>1. CASE Claim
    <3>1. uid[latest] < InitialUid(latest) + MaxPublications
      <4>1. latest \in 1..MaxIncarnation /\ latest \in Nat
        BY <2>0, MapperAssumption DEF Incarnations
      <4>2. Publications[latest] \in Nat /\ Publications[latest] <= MaxPublications
        BY <4>1, MapperAssumption
      <4>3. InitialUid(latest) \in Nat /\ uid[latest] \in Nat /\ MaxPublications \in Nat
        BY <2>0, InitialUidType, MapperAssumption
      <4>4. uid[latest] < InitialUid(latest) + Publications[latest]
        BY <2>1 DEF Claim
      <4> QED BY <4>2, <4>3, <4>4
    <3> QED BY <2>0, <2>1, <3>1 DEF Claim
  <2>2. CASE StoreUid
    BY <2>0, <2>2 DEF StoreUid
  <2>3. CASE Commit \/ Cancel
    BY <2>0, <2>3 DEF Commit, Cancel, GiveBack
  <2>4. CASE Crash
    BY <2>0, <2>4 DEF Crash
  <2>5. CASE Withdraw \/ Restart \/ CleanupCheck \/ CleanupUnlink
    BY <2>0, <2>5 DEF Withdraw, Restart, CleanupCheck, CleanupUnlink
  <2> QED BY <2>1, <2>2, <2>3, <2>4, <2>5 DEF PublisherStep
<1>3. ASSUME NEW t \in Threads, valid'[t]
      PROVE  valid[t] /\ linked' = msg[t].inc /\ uid'[msg[t].inc] = msg[t].uid
  <2>1. CASE StoreUid \/ Withdraw \/ Restart \/ CleanupUnlink
    BY <1>3, <2>1 DEF StoreUid, Withdraw, Restart, CleanupUnlink, Revalidate
  <2>2. CASE Claim \/ Commit \/ Cancel \/ Crash \/ CleanupCheck
    BY <1>0, <1>3, <2>2 DEF Claim, Commit, Cancel, Crash, CleanupCheck, ValidIsCurrent
  <2> QED BY <2>1, <2>2 DEF PublisherStep
<1> QED BY <1>1, <1>2, <1>3

\* A step of a call leaves the publisher and the other threads alone.
LEMMA CallFrame ==
  ASSUME IInv, NEW t \in Threads, CallStep(t)
  PROVE  /\ UNCHANGED <<linked, latest, serving, uid, claim, msgs, doomed>>
         /\ \A u \in Threads \ {t} :
              /\ stage'[u] = stage[u] /\ msg'[u] = msg[u] /\ mapping'[u] = mapping[u]
              /\ resource'[u] = resource[u] /\ valid'[u] = valid[u]
              /\ outcome'[u] = outcome[u]
<1> USE DEF cacheVars, pubVars, Return, Goto
<1>0. TypeOK
  BY DEF IInv
<1>1. ASSUME NEW d \in msgs, LookupMapping(t, d)
      PROVE  /\ UNCHANGED <<linked, latest, serving, uid, claim, msgs, doomed>>
             /\ \A u \in Threads \ {t} :
                  /\ stage'[u] = stage[u] /\ msg'[u] = msg[u] /\ mapping'[u] = mapping[u]
                  /\ resource'[u] = resource[u] /\ valid'[u] = valid[u]
                  /\ outcome'[u] = outcome[u]
  BY <1>0, <1>1 DEF LookupMapping, TypeOK
<1>2. CASE Attach(t) \/ AttachFails(t) \/ CheckCandidate(t) \/ InsertMapping(t)
  BY <1>0, <1>2 DEF Attach, AttachFails, CheckCandidate, InsertMapping, TypeOK
<1>r. CASE AcquireRef(t) \/ IncrementRef(t) \/ RecheckUid(t) \/ UndoRef(t)
  BY <1>0, <1>r DEF AcquireRef, IncrementRef, RecheckUid, UndoRef, TypeOK
<1>3. CASE FindResource(t) \/ Import(t)
  BY <1>0, <1>3 DEF FindResource, Import, TypeOK
<1>4. CASE ImportFails(t) \/ ShareResource(t) \/ ReleasePublication(t)
  BY <1>0, <1>4 DEF ImportFails, ShareResource, ReleasePublication, TypeOK
<1> QED BY <1>1, <1>2, <1>r, <1>3, <1>4 DEF CallStep, GetOrAttach, MapDescriptor

\* Uids stay in their ranges and calls under way work on what was sent.
LEMMA UidStep ==
  IInv /\ [Next]_vars =>
    UidsInRange' /\ ClaimsHaveUids' /\ MessagesInRange' /\ CallsHaveMessages'
<1> SUFFICES ASSUME IInv, [Next]_vars
             PROVE  UidsInRange' /\ ClaimsHaveUids' /\ MessagesInRange' /\ CallsHaveMessages'
  OBVIOUS
<1>0. TypeOK /\ UidsInRange /\ ClaimsHaveUids /\ MessagesInRange /\ CallsHaveMessages
  BY DEF IInv
<1>1. CASE PublisherStep
  <2>1. CallsHaveMessages'
    <3>1. UNCHANGED <<stage, msg>> /\ msgs \subseteq msgs'
      BY <1>1, PublisherFrame
    <3> QED BY <1>0, <3>1 DEF CallsHaveMessages
  <2>2. UidsInRange' /\ ClaimsHaveUids'
    <3> SUFFICES ASSUME NEW i \in Incarnations
                 PROVE  /\ uid'[i] \in InitialUid(i)..(InitialUid(i) + MaxPublications)
                        /\ claim'[i] = "claimed" => uid'[i] < InitialUid(i) + MaxPublications
      BY DEF UidsInRange, ClaimsHaveUids
    <3>1. /\ InitialUid(i) \in Nat /\ MaxPublications \in Nat
          /\ uid[i] \in InitialUid(i)..(InitialUid(i) + MaxPublications)
          /\ claim[i] = "claimed" => uid[i] < InitialUid(i) + MaxPublications
      BY <1>0, InitialUidType, MapperAssumption DEF UidsInRange, ClaimsHaveUids
    <3>2. UidMoves(i)
      BY <1>1, PublisherFrame
    <3> QED BY <3>1, <3>2 DEF UidMoves
  <2>3. MessagesInRange'
    <3>1. CASE Commit
      <4>1. uid[latest] \in InitialUid(latest)..(InitialUid(latest) + MaxPublications)
        BY <1>0 DEF TypeOK, UidsInRange
      <4> QED BY <1>0, <3>1, <4>1 DEF Commit, MessagesInRange
    <3>2. CASE ~Commit
      <4>1. msgs' = msgs
        BY <1>1, <3>2 DEF PublisherStep, Claim, StoreUid, Cancel, Withdraw, Crash, Restart,
           CleanupCheck, CleanupUnlink
      <4> QED BY <1>0, <4>1 DEF MessagesInRange
    <3> QED BY <3>1, <3>2
  <2> QED BY <2>1, <2>2, <2>3
<1>2. ASSUME NEW t \in Threads, CallStep(t)
      PROVE  UidsInRange' /\ ClaimsHaveUids' /\ MessagesInRange' /\ CallsHaveMessages'
  <2>1. /\ uid' = uid /\ claim' = claim /\ msgs' = msgs
        /\ \A u \in Threads \ {t} : stage'[u] = stage[u] /\ msg'[u] = msg[u]
    BY <1>2, CallFrame
  <2>2. stage'[t] # "idle" => msg'[t] \in msgs
    <3>1. ASSUME NEW d \in msgs, LookupMapping(t, d) PROVE msg'[t] = d
      BY <1>0, <3>1 DEF LookupMapping, TypeOK
    <3>2. ASSUME ~\E d \in msgs : LookupMapping(t, d) PROVE msg' = msg /\ stage[t] # "idle"
      BY <1>2, <3>2 DEF CallStep, GetOrAttach, MapDescriptor, Attach, AttachFails,
         CheckCandidate, InsertMapping, AcquireRef, IncrementRef, RecheckUid, UndoRef,
         FindResource, Import, ImportFails, ShareResource, ReleasePublication
    <3> QED BY <1>0, <3>1, <3>2 DEF CallsHaveMessages
  <2>3. CallsHaveMessages'
    BY <1>0, <2>1, <2>2 DEF CallsHaveMessages
  <2> QED BY <1>0, <2>1, <2>3 DEF UidsInRange, ClaimsHaveUids, MessagesInRange
<1>3. CASE UNCHANGED vars
  BY <1>0, <1>3 DEF vars, UidsInRange, ClaimsHaveUids, MessagesInRange, CallsHaveMessages
<1> QED BY <1>1, <1>2, <1>3 DEF Next, PublisherStep, CallStep

\* What the four statements about mappings say of one thread.
ThreadMapsRight(t) ==
  /\ valid[t] => linked = msg[t].inc /\ uid[msg[t].inc] = msg[t].uid
  /\ stage[t] = "check" /\ valid[t] => mapping[t] = msg[t].inc
  /\ stage[t] \in {"insert", "acquire", "increment"} \cup Counted => mapping[t] = msg[t].inc
  /\ stage[t] = "undo" => ~valid[t]
  /\ stage[t] \in Owning =>
       \/ uid[msg[t].inc] = msg[t].uid
       \/ uid[msg[t].inc] = msg[t].uid + 1 /\ claim[msg[t].inc] # "claimed"
  /\ outcome[t] = "rejected" => ~valid[t]

\* A thread that maps maps right: only a mapping with the descriptor's uid gets
\* past a comparison, and its ranges tell whose that is.
LEMMA MapStep ==
  ASSUME IInv, NEW t \in Threads, CallStep(t), ThreadMapsRight(t)
  PROVE  ThreadMapsRight(t)'
<1>0. TypeOK /\ UidsInRange /\ MessagesInRange
  BY DEF IInv
<1>f. linked' = linked /\ uid' = uid /\ claim' = claim
  BY CallFrame
<1>s. /\ {"check", "insert", "acquire", "idle", "attach"} \cap Counted = {}
      /\ "increment" \notin Counted /\ Owning \subseteq Counted
      /\ "recheck" \in Counted /\ "undo" \in Counted
      /\ "recheck" \notin Owning /\ "undo" \notin Owning
  BY DEF Counted, Owning
<1> USE DEF Goto, Return
<1>1. ASSUME NEW d \in msgs, LookupMapping(t, d) PROVE ThreadMapsRight(t)'
  <2>1. /\ msg'[t] = d /\ d \in Descriptors /\ outcome'[t] = "none"
        /\ valid'[t] <=> (linked = d.inc /\ uid[d.inc] = d.uid)
    BY <1>0, <1>1 DEF LookupMapping, TypeOK
  <2>2. CASE cache # None /\ uid[cache] = d.uid
    <3>1. cache = d.inc
      <4>1. cache \in Incarnations
        BY <1>0, <2>2 DEF TypeOK
      <4> QED BY <1>0, <2>1, <2>2, <4>1, UidNamesSender DEF MessagesInRange
    <3>2. stage'[t] = "acquire" /\ mapping'[t] = d.inc
      BY <1>0, <1>1, <2>2, <3>1 DEF LookupMapping, TypeOK
    <3> QED BY <1>f, <1>s, <2>1, <3>2 DEF ThreadMapsRight
  <2>3. CASE ~(cache # None /\ uid[cache] = d.uid)
    <3>1. stage'[t] = "attach"
      BY <1>0, <1>1, <2>3 DEF LookupMapping, TypeOK
    <3> QED BY <1>f, <1>s, <2>1, <3>1 DEF ThreadMapsRight
  <2> QED BY <2>2, <2>3
<1>2. CASE Attach(t)
  <2>1. msg' = msg /\ valid' = valid
    BY <1>2 DEF Attach
  <2>2. CASE linked = None
    <3>1. stage'[t] = "idle" /\ outcome'[t] = "rejected"
      BY <1>0, <1>2, <2>2 DEF Attach, TypeOK
    <3>2. ~valid[t]
      <4>1. msg[t].inc \in Incarnations /\ None \notin Incarnations
        BY <1>0, MapperAssumption DEF TypeOK, Descriptors, Incarnations, None
      <4> QED BY <2>2, <4>1 DEF ThreadMapsRight
    <3> QED BY <1>s, <2>1, <3>1, <3>2 DEF ThreadMapsRight
  <2>3. CASE linked # None
    <3>1. stage'[t] = "check" /\ mapping'[t] = linked /\ outcome' = outcome
      BY <1>0, <1>2, <2>3 DEF Attach, TypeOK
    <3> QED BY <1>f, <1>s, <2>1, <3>1 DEF ThreadMapsRight
  <2> QED BY <2>2, <2>3
<1>3. CASE AttachFails(t) \/ ImportFails(t) \/ ReleasePublication(t)
  <2>1. /\ msg' = msg /\ valid' = valid /\ stage'[t] = "idle"
        /\ outcome'[t] \in {"error", "mapped"}
    BY <1>0, <1>3 DEF AttachFails, ImportFails, ReleasePublication, TypeOK
  <2> QED BY <1>f, <1>s, <2>1 DEF ThreadMapsRight
<1>4. CASE CheckCandidate(t)
  <2>1. msg' = msg /\ valid' = valid /\ stage[t] = "check" /\ mapping[t] \in Incarnations
    BY <1>0, <1>4 DEF CheckCandidate, TypeOK
  <2>2. CASE uid[mapping[t]] = msg[t].uid
    <3>1. mapping[t] = msg[t].inc
      BY <2>1, <2>2, CallMatchesSender
    <3>2. stage'[t] = "insert" /\ mapping' = mapping /\ outcome' = outcome
      BY <1>0, <1>4, <2>2 DEF CheckCandidate, TypeOK
    <3> QED BY <1>f, <1>s, <2>1, <3>1, <3>2 DEF ThreadMapsRight
  <2>3. CASE uid[mapping[t]] # msg[t].uid
    <3>1. stage'[t] = "idle" /\ outcome'[t] = "rejected" /\ ~valid[t]
      BY <1>0, <1>4, <2>1, <2>3 DEF CheckCandidate, TypeOK, ThreadMapsRight
    <3> QED BY <1>s, <2>1, <3>1 DEF ThreadMapsRight
  <2> QED BY <2>2, <2>3
<1>5. CASE InsertMapping(t)
  <2>1. /\ msg' = msg /\ valid' = valid /\ outcome' = outcome /\ stage[t] = "insert"
        /\ stage'[t] = "acquire" /\ mapping'[t] \in {mapping[t], cache}
        /\ mapping'[t] = cache => mapping[t] = cache \/ (cache # None /\ uid[cache] = msg[t].uid)
    BY <1>0, <1>5 DEF InsertMapping, TypeOK
  <2>2. mapping'[t] = msg[t].inc
    <3>1. cache # None /\ uid[cache] = msg[t].uid => cache = msg[t].inc
      <4>1. cache # None => cache \in Incarnations
        BY <1>0 DEF TypeOK
      <4> QED BY <2>1, <4>1, CallMatchesSender
    <3> QED BY <2>1, <3>1 DEF ThreadMapsRight
  <2> QED BY <1>f, <1>s, <2>1, <2>2 DEF ThreadMapsRight
<1>6. CASE AcquireRef(t)
  <2>1. msg' = msg /\ valid' = valid /\ stage[t] = "acquire" /\ mapping[t] = msg[t].inc
    BY <1>6, <1>s DEF AcquireRef, ThreadMapsRight
  <2>2. CASE uid[mapping[t]] = msg[t].uid
    <3>1. stage'[t] = "increment" /\ mapping' = mapping /\ outcome' = outcome
      BY <1>0, <1>6, <2>2 DEF AcquireRef, TypeOK
    <3> QED BY <1>f, <1>s, <2>1, <2>2, <3>1 DEF ThreadMapsRight
  <2>3. CASE uid[mapping[t]] # msg[t].uid
    <3>1. stage'[t] = "idle" /\ outcome'[t] = "rejected" /\ ~valid[t]
      BY <1>0, <1>6, <2>1, <2>3 DEF AcquireRef, TypeOK, ThreadMapsRight
    <3> QED BY <1>s, <2>1, <3>1 DEF ThreadMapsRight
  <2> QED BY <2>2, <2>3
<1>i. CASE IncrementRef(t) \/ RecheckUid(t)
  <2>1. /\ msg' = msg /\ valid' = valid /\ mapping' = mapping /\ outcome' = outcome
        /\ stage[t] \in {"increment", "recheck"}
    BY <1>i DEF IncrementRef, RecheckUid
  <2>2. mapping[t] = msg[t].inc
    BY <2>1, <1>s DEF ThreadMapsRight
  <2>3. \/ stage'[t] = "recheck"
        \/ stage'[t] = "find" /\ uid[msg[t].inc] = msg[t].uid
        \/ stage'[t] = "undo" /\ uid[msg[t].inc] # msg[t].uid
    BY <1>0, <1>i, <2>2 DEF IncrementRef, RecheckUid, TypeOK
  <2>4. "find" \in Owning
    BY DEF Owning
  <2> QED BY <1>f, <1>s, <2>1, <2>2, <2>3, <2>4 DEF ThreadMapsRight
<1>u. CASE UndoRef(t)
  <2>1. /\ msg' = msg /\ valid' = valid /\ stage[t] = "undo" /\ stage'[t] = "idle"
    BY <1>0, <1>u DEF UndoRef, TypeOK
  <2>2. ~valid[t]
    BY <2>1 DEF ThreadMapsRight
  <2> QED BY <1>s, <2>1, <2>2 DEF ThreadMapsRight
<1>7. CASE FindResource(t) \/ Import(t) \/ ShareResource(t)
  <2>1. /\ msg' = msg /\ valid' = valid /\ mapping' = mapping /\ outcome' = outcome
        /\ stage[t] \in Owning /\ stage'[t] \in {"import", "held", "share"}
    BY <1>0, <1>7 DEF FindResource, Import, ShareResource, TypeOK, Owning
  <2>2. stage'[t] \in Owning
    BY <2>1 DEF Owning
  <2> QED BY <1>f, <1>s, <2>1, <2>2 DEF ThreadMapsRight
<1> QED BY <1>1, <1>2, <1>3, <1>4, <1>5, <1>6, <1>i, <1>u, <1>7 DEF CallStep, GetOrAttach, MapDescriptor

\* The four statements about mappings, thread by thread.
LEMMA MapsRightParts ==
  (ValidIsCurrent /\ MappingIsSenders /\ OneClaimAhead /\ CurrentDescriptorAccepted)
    <=> \A t \in Threads : ThreadMapsRight(t)
BY DEF ValidIsCurrent, MappingIsSenders, OneClaimAhead, CurrentDescriptorAccepted,
   ThreadMapsRight

\* They say what the property of the mapper says.
LEMMA MapsWhatWasSent ==
  MappingIsSenders /\ OneClaimAhead => ReadsWhatWasSent
<1>1. Owning \subseteq Counted
  BY DEF Counted
<1> QED BY <1>1 DEF MappingIsSenders, OneClaimAhead, ReadsWhatWasSent

\* A reference keeps the block from being claimed again under its reader.
LEMMA SenderStep ==
  IInv /\ [Next]_vars => \A t \in Threads : ThreadMapsRight(t)'
<1> SUFFICES ASSUME IInv, [Next]_vars, NEW t \in Threads PROVE ThreadMapsRight(t)'
  OBVIOUS
<1>0. TypeOK /\ ReferencesBalance /\ ThreadMapsRight(t)
  BY MapsRightParts DEF IInv
<1>1. CASE PublisherStep
  <2> DEFINE i == msg[t].inc
  <2>1. stage[t] \in Owning =>
          \/ uid'[i] = msg[t].uid
          \/ uid'[i] = msg[t].uid + 1 /\ claim'[i] # "claimed"
    <3> SUFFICES ASSUME stage[t] \in Owning
                 PROVE  \/ uid'[i] = msg[t].uid
                        \/ uid'[i] = msg[t].uid + 1 /\ claim'[i] # "claimed"
      OBVIOUS
    <3>1. stage[t] \in Counted
      BY DEF Counted
    <3>2. mapping[t] = i /\ i \in Incarnations
      BY <1>0, <3>1 DEF ThreadMapsRight, TypeOK, Descriptors
    <3>3. t \in OwnersOf(i) /\ IsFiniteSet(OwnersOf(i))
      BY <3>1, <3>2, MapperAssumption, FS_Subset, OwnersOf(i) \subseteq Threads DEF OwnersOf
    <3>4. Cardinality(OwnersOf(i)) \in Nat /\ Cardinality(OwnersOf(i)) # 0
      BY <3>3, FS_CardinalityType, FS_EmptySet
    <3>5. refs[i] # 0
      BY <1>0, <3>2, <3>4 DEF ReferencesBalance
    <3>6. UidMoves(i)
      BY <1>1, <3>2, PublisherFrame
    <3>7. \/ uid[i] = msg[t].uid
          \/ uid[i] = msg[t].uid + 1 /\ claim[i] # "claimed"
      BY <1>0 DEF ThreadMapsRight
    <3> QED BY <3>5, <3>6, <3>7 DEF UidMoves
  <2>2. /\ UNCHANGED <<stage, msg, mapping, outcome>>
        /\ valid'[t] => valid[t] /\ linked' = i /\ uid'[i] = msg[t].uid
    BY <1>1, PublisherFrame
  <2> QED BY <1>0, <2>1, <2>2 DEF ThreadMapsRight
<1>2. CASE CallStep(t)
  BY <1>0, <1>2, MapStep
<1>3. ASSUME NEW u \in Threads, u # t, CallStep(u) PROVE ThreadMapsRight(t)'
  <2>1. /\ linked' = linked /\ uid' = uid /\ claim' = claim
        /\ stage'[t] = stage[t] /\ msg'[t] = msg[t] /\ mapping'[t] = mapping[t]
        /\ valid'[t] = valid[t] /\ outcome'[t] = outcome[t]
    BY <1>3, CallFrame
  <2> QED BY <1>0, <2>1 DEF ThreadMapsRight
<1>4. CASE UNCHANGED vars
  BY <1>0, <1>4 DEF vars, ThreadMapsRight
<1> QED BY <1>1, <1>2, <1>3, <1>4 DEF Next, PublisherStep, CallStep

\* References are taken and given back exactly where the threads that own them
\* come and go.
LEMMA CountStep == IInv /\ [Next]_vars => ReferencesBalance'
<1> DEFINE Unit(c, i) == IF c[i] = "none" THEN 0 ELSE 1
<1> SUFFICES ASSUME IInv, [Next]_vars, NEW i \in Incarnations
             PROVE  refs'[i] = Cardinality(OwnersOf(i)') + Unit(claim', i)
  BY DEF ReferencesBalance
<1>0. TypeOK /\ refs[i] = Cardinality(OwnersOf(i)) + Unit(claim, i)
  BY DEF IInv, ReferencesBalance
<1>n. IsFiniteSet(OwnersOf(i)) /\ Cardinality(OwnersOf(i)) \in Nat
  BY MapperAssumption, FS_Subset, FS_CardinalityType, OwnersOf(i) \subseteq Threads DEF OwnersOf
<1>1. CASE PublisherStep
  <2>1. UNCHANGED <<stage, mapping>> /\ UnitMoves(i)
    BY <1>1, PublisherFrame
  <2>2. OwnersOf(i)' = OwnersOf(i)
    BY <2>1 DEF OwnersOf
  <2> QED BY <1>0, <1>n, <2>1, <2>2 DEF UnitMoves
<1>s. CASE UNCHANGED vars
  <2>1. UNCHANGED <<refs, claim, stage, mapping>>
    BY <1>s DEF vars
  <2>2. OwnersOf(i)' = OwnersOf(i)
    BY <2>1 DEF OwnersOf
  <2> QED BY <1>0, <2>1, <2>2
<1>2. ASSUME NEW t \in Threads, CallStep(t)
      PROVE  refs'[i] = Cardinality(OwnersOf(i)') + Unit(claim', i)
  <2>1. /\ Unit(claim', i) = Unit(claim, i)
        /\ \A u \in Threads \ {t} : stage'[u] = stage[u] /\ mapping'[u] = mapping[u]
    BY <1>2, CallFrame
  <2>2. /\ Cardinality(OwnersOf(i)) \in Nat /\ Cardinality(OwnersOf(i)') \in Nat
        /\ t \in OwnersOf(i) => Cardinality(OwnersOf(i)) >= 1
        /\ Cardinality(OwnersOf(i)') = Cardinality(OwnersOf(i))
             + (IF t \in OwnersOf(i)' THEN 1 ELSE 0) - (IF t \in OwnersOf(i) THEN 1 ELSE 0)
    BY <2>1, OwnersMove
  <2>3. /\ t \in OwnersOf(i) <=> stage[t] \in Counted /\ mapping[t] = i
        /\ t \in OwnersOf(i)' <=> stage'[t] \in Counted /\ mapping'[t] = i
    BY DEF OwnersOf
  <2>u. Unit(claim, i) \in Nat
    OBVIOUS
  <2> HIDE DEF Unit
  <2> USE DEF Goto, Return, Counted, Owning
  <2>4. CASE \/ \E d \in msgs : LookupMapping(t, d)
             \/ Attach(t) \/ AttachFails(t) \/ CheckCandidate(t) \/ InsertMapping(t)
    <3>1. refs' = refs /\ stage[t] \notin Counted /\ stage'[t] \notin Counted
      BY <1>0, <2>4 DEF LookupMapping, Attach, AttachFails, CheckCandidate, InsertMapping, TypeOK
    <3> QED BY <1>0, <2>1, <2>2, <2>3, <3>1
  <2>a. CASE AcquireRef(t)
    <3>1. refs' = refs /\ stage[t] \notin Counted /\ stage'[t] \notin Counted
      BY <1>0, <2>a DEF AcquireRef, TypeOK
    <3> QED BY <1>0, <2>1, <2>2, <2>3, <3>1
  <2>5. CASE IncrementRef(t)
    <3>1. /\ stage[t] \notin Counted /\ stage'[t] \in Counted /\ mapping' = mapping
          /\ refs'[i] = IF mapping[t] = i THEN refs[i] + 1 ELSE refs[i]
      BY <1>0, <2>5 DEF IncrementRef, TypeOK
    <3> QED BY <1>0, <2>u, <2>1, <2>2, <2>3, <3>1
  <2>6. CASE RecheckUid(t) \/ FindResource(t) \/ Import(t) \/ ShareResource(t)
    <3>1. refs' = refs /\ mapping' = mapping /\ stage[t] \in Counted /\ stage'[t] \in Counted
      BY <1>0, <2>6 DEF RecheckUid, FindResource, Import, ShareResource, TypeOK
    <3> QED BY <1>0, <2>1, <2>2, <2>3, <3>1
  <2>7. CASE UndoRef(t) \/ ImportFails(t) \/ ReleasePublication(t)
    <3>1. /\ stage[t] \in Counted /\ stage'[t] \notin Counted
          /\ refs'[i] = IF mapping[t] = i THEN refs[i] - 1 ELSE refs[i]
      BY <1>0, <2>7 DEF UndoRef, ImportFails, ReleasePublication, TypeOK
    <3> QED BY <1>0, <2>u, <2>1, <2>2, <2>3, <3>1
  <2> QED BY <1>2, <2>4, <2>a, <2>5, <2>6, <2>7 DEF CallStep, GetOrAttach, MapDescriptor
<1> QED BY <1>1, <1>s, <1>2 DEF Next, PublisherStep, CallStep

\* What is open is what the cache holds and what is about to be offered to it.
LEMMA OpenImports ==
  OneImportPerBlock <=>
    /\ \A t \in Threads : stage[t] = "held" => resource[t] = ipc[msg[t].inc]
    /\ open = (Cached \ {None}) \cup Offered
BY DEF OneImportPerBlock, Cached, Offered, Sharing

\* The first import of a block is cached, a later one is released, and every
\* publication uses the cached one.
LEMMA ImportStep == IInv /\ [Next]_vars => OneImportPerBlock' /\ OfferedImportsAreFresh'
<1> SUFFICES ASSUME IInv, [Next]_vars PROVE OneImportPerBlock' /\ OfferedImportsAreFresh'
  OBVIOUS
<1> DEFINE HeldIsCached ==
             \A t \in Threads : stage[t] = "held" =>
               resource[t] = ipc[msg[t].inc] /\ ipc[msg[t].inc] # None
           OpenIsCounted == open = (Cached \ {None}) \cup Offered
           OfferedFresh ==
             /\ \A t \in Sharing : resource[t] # None /\ resource[t] \notin Cached
             /\ \A t, u \in Sharing : resource[t] = resource[u] => t = u
<1>0. TypeOK /\ HeldIsCached /\ OpenIsCounted /\ OfferedFresh
  BY OpenImports DEF IInv, OfferedImportsAreFresh
<1> SUFFICES HeldIsCached' /\ OpenIsCounted' /\ OfferedFresh'
  BY OpenImports DEF OfferedImportsAreFresh, OneImportPerBlock, Cached, Offered, Sharing
<1> HIDE DEF HeldIsCached, OpenIsCounted, OfferedFresh
<1>1. CASE PublisherStep \/ UNCHANGED vars
  <2>1. UNCHANGED <<ipc, open, stage, msg, resource>>
    BY <1>1, PublisherFrame DEF vars
  <2> QED BY <1>0, <2>1 DEF HeldIsCached, OpenIsCounted, OfferedFresh, Cached, Offered, Sharing
<1>2. ASSUME NEW t \in Threads, CallStep(t) PROVE HeldIsCached' /\ OpenIsCounted' /\ OfferedFresh'
  <2>1. \A u \in Threads \ {t} :
          stage'[u] = stage[u] /\ msg'[u] = msg[u] /\ resource'[u] = resource[u]
    BY <1>2, CallFrame
  <2> USE DEF Goto, Return
  <2>2. CASE \/ GetOrAttach(t) \/ AcquireRef(t) \/ IncrementRef(t) \/ RecheckUid(t)
             \/ UndoRef(t) \/ FindResource(t) \/ ImportFails(t) \/ ReleasePublication(t)
    <3>1. /\ ipc' = ipc /\ open' = open
          /\ stage[t] # "share" /\ stage'[t] # "share"
          /\ stage'[t] = "held" => /\ resource'[t] = ipc[msg[t].inc] /\ msg' = msg
                                   /\ ipc[msg[t].inc] # None
      BY <1>0, <2>2 DEF GetOrAttach, LookupMapping, Attach, AttachFails, CheckCandidate,
         InsertMapping, AcquireRef, IncrementRef, RecheckUid, UndoRef, FindResource,
         ImportFails, ReleasePublication, TypeOK, cacheVars
    <3>2. Sharing' = Sharing /\ Cached' = Cached
      BY <2>1, <3>1 DEF Sharing, Cached
    <3>3. Offered' = Offered /\ OfferedFresh'
      BY <1>0, <2>1, <3>1, <3>2 DEF Offered, OfferedFresh, Sharing
    <3>4. HeldIsCached'
      BY <1>0, <2>1, <3>1 DEF HeldIsCached
    <3> QED BY <1>0, <3>1, <3>2, <3>3, <3>4 DEF OpenIsCounted
  <2>3. CASE Import(t)
    <3>1. /\ stage[t] = "import" /\ stage'[t] = "share" /\ resource'[t] = NewImport
          /\ ipc' = ipc /\ open' = open \cup {NewImport} /\ msg' = msg
      BY <1>0, <2>3 DEF Import, TypeOK
    <3>2. NewImport \in Imports /\ NewImport \notin open
      BY <1>0, <3>1, FreshImport DEF IInv
    <3>3. NewImport # None
      BY <3>2, MapperAssumption, FS_CardinalityType DEF Imports, None
    <3>4. Sharing' = Sharing \cup {t} /\ t \notin Sharing /\ Cached' = Cached
      BY <2>1, <3>1 DEF Sharing, Cached
    <3>5. Offered' = Offered \cup {NewImport}
      BY <2>1, <3>1, <3>4 DEF Offered, Sharing
    <3>6. OpenIsCounted'
      BY <1>0, <3>1, <3>4, <3>5 DEF OpenIsCounted
    <3>7. NewImport \notin Cached /\ NewImport \notin Offered
      BY <1>0, <3>2, <3>3 DEF OpenIsCounted
    <3>8. OfferedFresh'
      BY <1>0, <2>1, <3>1, <3>3, <3>4, <3>7 DEF OfferedFresh, Offered, Sharing
    <3>9. HeldIsCached'
      BY <1>0, <2>1, <3>1 DEF HeldIsCached
    <3> QED BY <3>6, <3>8, <3>9
  <2>4. CASE ShareResource(t)
    <3> DEFINE i == msg[t].inc
               r == resource[t]
    <3>1. /\ stage[t] = "share" /\ stage'[t] = "held" /\ msg' = msg /\ i \in Incarnations
      BY <1>0, <2>4 DEF ShareResource, TypeOK, Descriptors
    <3>2. t \in Sharing /\ Sharing' = Sharing \ {t}
      BY <2>1, <3>1 DEF Sharing
    <3>3. /\ r # None /\ r \notin Cached /\ \A u \in Sharing \ {t} : resource[u] # r
      BY <1>0, <3>2 DEF OfferedFresh
    <3>4. Offered' = Offered \ {r} /\ r \in Offered
      BY <2>1, <3>2, <3>3 DEF Offered, Sharing
    <3>5. CASE ipc[i] = None
      <4>1. ipc' = [ipc EXCEPT ![i] = r] /\ open' = open /\ resource' = resource
        BY <2>4, <3>5 DEF ShareResource
      <4>2. ipc'[i] = r /\ \A j \in Incarnations \ {i} : ipc'[j] = ipc[j]
        BY <1>0, <3>1, <4>1 DEF TypeOK
      <4>3. Cached' \ {None} = (Cached \ {None}) \cup {r}
        BY <3>1, <3>3, <3>5, <4>2 DEF Cached
      <4>4. OpenIsCounted'
        BY <1>0, <3>4, <4>1, <4>3 DEF OpenIsCounted
      <4>5. HeldIsCached'
        <5> SUFFICES ASSUME NEW u \in Threads, stage'[u] = "held"
                     PROVE  resource'[u] = ipc'[msg'[u].inc] /\ ipc'[msg'[u].inc] # None
          BY DEF HeldIsCached
        <5>1. CASE u = t
          BY <3>1, <3>3, <4>1, <4>2, <5>1
        <5>2. CASE u # t
          <6>1. resource[u] = ipc[msg[u].inc] /\ ipc[msg[u].inc] # None /\ msg[u].inc \in Incarnations
            BY <1>0, <2>1, <5>2 DEF HeldIsCached, TypeOK, Descriptors
          <6>2. msg[u].inc # i
            BY <3>5, <6>1
          <6> QED BY <2>1, <3>1, <4>1, <4>2, <5>2, <6>1, <6>2
        <5> QED BY <5>1, <5>2
      <4>6. OfferedFresh'
        <5>1. \A u \in Sharing' : resource'[u] \notin Cached'
          BY <1>0, <3>2, <3>3, <4>1, <4>3 DEF OfferedFresh
        <5> QED BY <1>0, <3>2, <4>1, <5>1 DEF OfferedFresh
      <4> QED BY <4>4, <4>5, <4>6
    <3>6. CASE ipc[i] # None
      <4>1. /\ ipc' = ipc /\ open' = open \ {r} /\ resource'[t] = ipc[i]
        BY <1>0, <2>4, <3>6 DEF ShareResource, TypeOK
      <4>2. Cached' = Cached
        BY <4>1 DEF Cached
      <4>3. OpenIsCounted'
        BY <1>0, <3>3, <3>4, <4>1, <4>2 DEF OpenIsCounted
      <4>4. HeldIsCached'
        BY <1>0, <2>1, <3>1, <3>6, <4>1 DEF HeldIsCached
      <4>5. OfferedFresh'
        BY <1>0, <2>1, <3>2, <4>2 DEF OfferedFresh, Sharing
      <4> QED BY <4>3, <4>4, <4>5
    <3> QED BY <3>5, <3>6
  <2> QED BY <1>2, <2>2, <2>3, <2>4 DEF CallStep, MapDescriptor
<1> QED BY <1>1, <1>2 DEF Next, PublisherStep, CallStep

\* Before the first descriptor nothing is mapped, imported or referred to.
LEMMA InvariantInit == Init => IInv
<1> SUFFICES ASSUME Init PROVE IInv
  OBVIOUS
<1> USE DEF Init
<1>1. TypeOK
  <2>1. 1 \in Incarnations /\ \A i \in Incarnations : InitialUid(i) \in Nat
    BY MapperAssumption, InitialUidType DEF Incarnations
  <2>2. [inc |-> 1, uid |-> 0] \in Descriptors
    BY <2>1 DEF Descriptors
  <2>3. valid \in [Threads -> BOOLEAN] /\ serving \in BOOLEAN /\ doomed \in Incarnations \cup {None}
    OBVIOUS
  <2> QED BY <2>1, <2>2, <2>3 DEF TypeOK, Stages, Claims
<1>2. UidsInRange /\ ClaimsHaveUids /\ MessagesInRange /\ CallsHaveMessages
  <2>1. \A i \in Incarnations : InitialUid(i) \in Nat /\ MaxPublications \in Nat
    BY MapperAssumption, InitialUidType
  <2> QED BY <2>1 DEF UidsInRange, ClaimsHaveUids, MessagesInRange, CallsHaveMessages
<1>3. \A t \in Threads : ThreadMapsRight(t)
  BY DEF ThreadMapsRight, Counted, Owning
<1>4. ReferencesBalance
  <2>1. \A i \in Incarnations : OwnersOf(i) = {}
    BY DEF OwnersOf, Counted, Owning
  <2> QED BY <2>1, FS_EmptySet DEF ReferencesBalance
<1>5. OneImportPerBlock /\ OfferedImportsAreFresh
  BY DEF OneImportPerBlock, OfferedImportsAreFresh, Sharing
<1>6. DoomedIsDead
  BY DEF DoomedIsDead
<1> QED BY <1>1, <1>2, <1>3, <1>4, <1>5, <1>6, MapsRightParts DEF IInv

\* A cleaner finds a process dead before a successor is started, never after.
LEMMA DoomedStep == IInv /\ [Next]_vars => DoomedIsDead'
<1> SUFFICES ASSUME IInv, [Next]_vars PROVE DoomedIsDead'
  OBVIOUS
<1>1. /\ latest \in Nat /\ serving \in BOOLEAN /\ doomed \in Nat
      /\ DoomedIsDead
  BY MapperAssumption DEF IInv, TypeOK, Incarnations, None
<1>2. CASE UNCHANGED <<latest, serving, doomed>>
  BY <1>1, <1>2 DEF DoomedIsDead
<1>3. CASE Withdraw \/ Crash
  <2>1. latest' = latest /\ doomed' = doomed /\ serving' = FALSE
    BY <1>3 DEF Withdraw, Crash
  <2> QED BY <1>1, <2>1 DEF DoomedIsDead
<1>4. CASE Restart
  <2>1. latest' = latest + 1 /\ doomed' = doomed
    BY <1>4 DEF Restart
  <2> QED BY <1>1, <2>1 DEF DoomedIsDead
<1>5. CASE CleanupCheck
  <2>1. latest' = latest /\ doomed' = latest /\ serving' = serving /\ ~serving
    BY <1>5 DEF CleanupCheck
  <2> QED BY <1>1, <2>1 DEF DoomedIsDead
<1>6. CASE CleanupUnlink
  BY <1>6 DEF CleanupUnlink, DoomedIsDead
<1>7. CASE Claim \/ StoreUid \/ Commit \/ Cancel
  BY <1>2, <1>7 DEF Claim, StoreUid, Commit, Cancel
<1>8. ASSUME NEW t \in Threads, CallStep(t) PROVE DoomedIsDead'
  BY <1>2, <1>8, CallFrame
<1>9. CASE UNCHANGED vars
  BY <1>2, <1>9 DEF vars
<1> QED BY <1>3, <1>4, <1>5, <1>6, <1>7, <1>8, <1>9 DEF Next, CallStep

\* The parts together are inductive.
LEMMA InvariantStep == IInv /\ [Next]_vars => IInv'
<1> SUFFICES ASSUME IInv, [Next]_vars PROVE IInv'
  OBVIOUS
<1>1. /\ TypeOK' /\ UidsInRange' /\ ClaimsHaveUids' /\ MessagesInRange' /\ CallsHaveMessages'
      /\ ReferencesBalance' /\ OneImportPerBlock' /\ OfferedImportsAreFresh'
      /\ DoomedIsDead'
  BY TypeStep, UidStep, CountStep, ImportStep, DoomedStep
<1>2. \A t \in Threads : ThreadMapsRight(t)'
  BY SenderStep
<1>3. ValidIsCurrent' /\ MappingIsSenders' /\ OneClaimAhead' /\ CurrentDescriptorAccepted'
  BY <1>2 DEF ValidIsCurrent, MappingIsSenders, OneClaimAhead, CurrentDescriptorAccepted,
     ThreadMapsRight
<1> QED BY <1>1, <1>3 DEF IInv

----------------------------------------------------------------------------
(***************************************************************************)
(* What follows for every number of threads, publishers and publications.  *)
(***************************************************************************)

\* IInv is an inductive invariant of mapping, publishing, crash and clean-up.
THEOREM MapperInvariant == Spec => []IInv
BY InvariantInit, InvariantStep, PTL DEF Spec

\* The mapper keeps its state in its types and never follows a null mapping.
THEOREM MapperTypeCorrect == Spec => []TypeOK
<1>1. IInv => TypeOK
  BY DEF IInv
<1> QED BY <1>1, MapperInvariant, PTL

\* A reference is owned in the object of the process that sent the descriptor,
\* however often the publisher is restarted under the same pid and whatever the
\* cache remembers of its predecessors, and the block is at the publication the
\* descriptor names or at the next one, never further, as long as it is owned.
THEOREM MapperReadsWhatWasSent == Spec => []ReadsWhatWasSent
<1>1. IInv => ReadsWhatWasSent
  BY MapsWhatWasSent DEF IInv
<1> QED BY <1>1, MapperInvariant, PTL

\* No early return of map_descriptor leaks a reference or gives one back twice.
THEOREM MapperReferencesBalance == Spec => []ReferencesBalance
<1>1. IInv => ReferencesBalance
  BY DEF IInv
<1> QED BY <1>1, MapperInvariant, PTL

\* Threads that race to import a block end up with one import of it.
THEOREM MapperSharesImports == Spec => []OneImportPerBlock
<1>1. IInv => OneImportPerBlock
  BY DEF IInv
<1> QED BY <1>1, MapperInvariant, PTL

\* A descriptor that is current during the whole call is never rejected for what
\* the metadata cache remembers of an earlier publisher.
THEOREM MapperAcceptsCurrent == Spec => []CurrentDescriptorAccepted
<1>1. IInv => CurrentDescriptorAccepted
  BY DEF IInv
<1> QED BY <1>1, MapperInvariant, PTL

\* A serving publisher loses the name of its object only to a clean-up that has
\* found a process dead before this publisher took over its pid.
THEOREM NamesKeptFromLaterChecks == Spec => OnlyEarlierCheckUnlinks
<1>1. IInv /\ [Next]_vars =>
        [serving /\ serving' /\ linked = latest =>
           linked' = latest \/ doomed \in 1..(latest - 1)]_vars
  <2> SUFFICES ASSUME IInv, Next, serving, serving', linked = latest, linked' # linked
               PROVE  doomed \in 1..(latest - 1)
    OBVIOUS
  <2>1. CleanupUnlink
    <3>1. ASSUME NEW t \in Threads, CallStep(t) PROVE FALSE
      BY <3>1, CallFrame
    <3> QED BY <3>1 DEF Next, CallStep, Claim, StoreUid, Commit, Cancel, Withdraw, Crash,
               Restart, CleanupCheck
  <2>2. doomed # None /\ doomed \in Nat /\ latest \in Nat
    BY <2>1, MapperAssumption DEF CleanupUnlink, IInv, TypeOK, Incarnations, None
  <2>3. doomed < latest
    BY <2>2 DEF IInv, DoomedIsDead
  <2> QED BY <2>2, <2>3 DEF None
<1> QED BY <1>1, MapperInvariant, PTL DEF Spec, OnlyEarlierCheckUnlinks
=============================================================================
