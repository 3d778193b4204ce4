-------------------------- MODULE VmmImportProofs --------------------------
(***************************************************************************)
(* Proofs that the import of a block cleans up after itself for any number *)
(* of threads and any number of throws.                                    *)
(***************************************************************************)
EXTENDS VmmImport, TLAPS, FiniteSetTheorems

----------------------------------------------------------------------------
(***************************************************************************)
(* Facts about finite sets.                                                *)
(***************************************************************************)

\* Two sets that differ at most in x: their sizes differ by what x contributes.
LEMMA CountMove ==
  ASSUME NEW S, NEW T, NEW x, IsFiniteSet(S),
         \A s : s # x => (s \in S <=> s \in T)
  PROVE  /\ IsFiniteSet(T)
         /\ Cardinality(S) \in Nat /\ Cardinality(T) \in Nat
         /\ x \in S => Cardinality(S) >= 1
         /\ Cardinality(T) = Cardinality(S) + (IF x \in T THEN 1 ELSE 0)
                                           - (IF x \in S THEN 1 ELSE 0)
<1>1. IsFiniteSet(S \ {x}) /\ IsFiniteSet((S \ {x}) \cup {x})
  BY FS_RemoveElement, FS_AddElement
<1>2. Cardinality(S) \in Nat /\ Cardinality(S \ {x}) \in Nat
  BY <1>1, FS_CardinalityType
<1>3. Cardinality(S \ {x}) = IF x \in S THEN Cardinality(S) - 1 ELSE Cardinality(S)
  BY FS_RemoveElement
<1>4. /\ IsFiniteSet(T)
      /\ Cardinality(T) = Cardinality(S \ {x}) + (IF x \in T THEN 1 ELSE 0)
  <2>1. CASE x \in T
    <3>1. T = (S \ {x}) \cup {x} /\ x \notin S \ {x}
      BY <2>1
    <3> QED BY <2>1, <3>1, <1>1, <1>2, FS_AddElement
  <2>2. CASE x \notin T
    <3>1. T = S \ {x}
      BY <2>2
    <3> QED BY <2>2, <3>1, <1>1, <1>2
  <2> QED BY <2>1, <2>2
<1>5. CASE x \in S
  BY <1>2, <1>3, <1>4, <1>5
<1>6. CASE x \notin S
  BY <1>2, <1>3, <1>4, <1>6
<1> QED BY <1>5, <1>6

----------------------------------------------------------------------------

\* What import() holds when its next call is number p.
HeldBefore(p) ==
  CASE p \in 2..4 -> {"fd"}
    [] p \in 5..6 -> {"allocation"}
    [] p = 7 -> {"allocation", "address"}
    [] p \in 8..9 -> {"allocation", "address", "mapping"}
    [] p = Inserting -> Whole
    [] OTHER -> {}

\* import()'s locals are a function of the calls made so far.
LocalsFollowCalls ==
  \A t \in Threads :
    /\ held[t] = HeldBefore(pc[t])
    /\ wrapper[t] <=> pc[t] \in 3..Inserting
    /\ depth[t] = IF pc[t] \in 4..Len(Calls) THEN 1 ELSE 0

\* An object is whole or gone, and the name of a thread that is importing is free.
ObjectsAreWhole ==
  /\ \A o \in Threads : resource[o] = IF o \in wrapped THEN Whole ELSE {}
  /\ \A t \in Threads : t \in wrapped => pc[t] \in {Outside, Sharing, Using}

\* What the cache and the threads refer to is whole; an object that has not been
\* shared yet is its builder's alone.
ReferencesAreLive ==
  /\ cache # NoObject => cache \in wrapped
  /\ \A t \in Threads : result[t] # NoObject <=> pc[t] = Using
  /\ \A t \in Threads : result[t] # NoObject => result[t] \in wrapped
  /\ \A t \in Threads : pc[t] = Sharing =>
       t \in wrapped /\ cache # t /\ \A u \in Threads : result[u] # t

\* Nothing is left that nobody refers to.
ObjectsAreReferred ==
  \A o \in wrapped : cache = o \/ pc[o] = Sharing \/ \E t \in Threads : result[t] = o

\* One retain of the primary context per wrapper, minus what throws released twice.
RetainsBalance ==
  /\ Cardinality(wrapped) + Cardinality(Wrappers) - lost <= retained
  /\ retained <= Cardinality(wrapped) + Cardinality(Wrappers)

IInv == /\ TypeOK /\ LocalsFollowCalls /\ ObjectsAreWhole /\ ReferencesAreLive
        /\ ObjectsAreReferred /\ RetainsBalance

----------------------------------------------------------------------------
(***************************************************************************)
(* The calls of import() one by one.                                       *)
(***************************************************************************)

\* The positions of the calls, and the control states that follow them.
LEMMA CallPositions ==
  /\ Calls[1] = "fd" /\ Calls[2] = "context" /\ Calls[3] = "guard"
  /\ Calls[4] = "allocation" /\ Calls[5] = "granularity" /\ Calls[6] = "address"
  /\ Calls[7] = "mapping" /\ Calls[8] = "access" /\ Calls[9] = "event"
  /\ Len(Calls) = 9
  /\ Outside = 0 /\ Inserting = 10 /\ Sharing = 11 /\ Using = 12 /\ Unwinding = 13
<1>1. Len(Calls) = 9
  BY DEF Calls
<1> QED BY <1>1 DEF Calls, Outside, Inserting, Sharing, Using, Unwinding

\* A thread inside import() is before one of the nine calls.
LEMMA CallCases ==
  ASSUME NEW t \in Threads, pc[t] \in Outside..Unwinding, Call(t) # "none"
  PROVE  /\ pc[t] \in 1..9 /\ Call(t) = Calls[pc[t]]
         /\ \/ pc[t] = 1 /\ Call(t) = "fd"
            \/ pc[t] = 2 /\ Call(t) = "context"
            \/ pc[t] = 3 /\ Call(t) = "guard"
            \/ pc[t] = 4 /\ Call(t) = "allocation"
            \/ pc[t] = 5 /\ Call(t) = "granularity"
            \/ pc[t] = 6 /\ Call(t) = "address"
            \/ pc[t] = 7 /\ Call(t) = "mapping"
            \/ pc[t] = 8 /\ Call(t) = "access"
            \/ pc[t] = 9 /\ Call(t) = "event"
<1>1. pc[t] \in 1..9 /\ Call(t) = Calls[pc[t]]
  BY CallPositions DEF Call
<1> QED BY <1>1, CallPositions

\* A successful call leaves import() holding what the next call expects.
LEMMA HeldAfterCall ==
  ASSUME NEW t \in Threads, pc[t] \in Outside..Unwinding, Call(t) # "none",
         held[t] = HeldBefore(pc[t])
  PROVE  (held[t] \cup ({Call(t)} \cap Kinds))
           \ (IF Call(t) = "allocation" THEN {"fd"} ELSE {}) = HeldBefore(pc[t] + 1)
<1> USE CallPositions DEF HeldBefore, Kinds, Whole
<1>1. CASE pc[t] = 1 /\ Call(t) = "fd"
  BY <1>1
<1>2. CASE pc[t] = 2 /\ Call(t) = "context"
  BY <1>2
<1>3. CASE pc[t] = 3 /\ Call(t) = "guard"
  BY <1>3
<1>4. CASE pc[t] = 4 /\ Call(t) = "allocation"
  BY <1>4
<1>5. CASE pc[t] = 5 /\ Call(t) = "granularity"
  BY <1>5
<1>6. CASE pc[t] = 6 /\ Call(t) = "address"
  BY <1>6
<1>7. CASE pc[t] = 7 /\ Call(t) = "mapping"
  BY <1>7
<1>8. CASE pc[t] = 8 /\ Call(t) = "access"
  BY <1>8
<1>9. CASE pc[t] = 9 /\ Call(t) = "event"
  BY <1>9
<1> QED BY CallCases, <1>1, <1>2, <1>3, <1>4, <1>5, <1>6, <1>7, <1>8, <1>9

\* A failed call gives back everything import() holds.
LEMMA RollBackIsComplete ==
  ASSUME NEW t \in Threads, pc[t] \in Outside..Unwinding, Call(t) # "none",
         held[t] = HeldBefore(pc[t])
  PROVE  held[t] \ RolledBack(Call(t)) = {}
<1> USE CallPositions DEF HeldBefore, RolledBack
<1>1. CASE pc[t] = 1 /\ Call(t) = "fd"
  BY <1>1
<1>2. CASE pc[t] \in 2..4 /\ Call(t) \in {"context", "guard", "allocation"}
  BY <1>2
<1>3. CASE pc[t] \in 5..6 /\ Call(t) \in {"granularity", "address"}
  BY <1>3
<1>4. CASE pc[t] = 7 /\ Call(t) = "mapping"
  BY <1>4
<1>5. CASE pc[t] \in 8..9 /\ Call(t) \in {"access", "event"}
  BY <1>5
<1> QED BY CallCases, <1>1, <1>2, <1>3, <1>4, <1>5

----------------------------------------------------------------------------
(***************************************************************************)
(* The inductive invariant.                                                *)
(***************************************************************************)

\* A step of import() or of a failed insertion: thread t moves to control state
\* p and touches no object.
LEMMA ImporterStep ==
  ASSUME IInv, NEW t \in Threads, NEW p \in Outside..Unwinding,
         pc' = Set(pc, t, p), p \notin {Sharing, Using}, pc[t] \notin {Sharing, Using},
         t \in wrapped => p = Outside,
         UNCHANGED <<resource, wrapped, cache, result>>
  PROVE  /\ pc' \in [Threads -> Outside..Unwinding]
         /\ ObjectsAreWhole' /\ ReferencesAreLive' /\ ObjectsAreReferred'
<1> USE DEF IInv, TypeOK, Set
<1>1. pc' \in [Threads -> Outside..Unwinding]
  OBVIOUS
<1>2. ObjectsAreWhole'
  BY DEF ObjectsAreWhole
<1>3. ReferencesAreLive'
  BY DEF ReferencesAreLive
<1>4. ObjectsAreReferred'
  BY DEF ObjectsAreReferred
<1> QED BY <1>1, <1>2, <1>3, <1>4

\* The locals of thread t alone change, to what its new control state prescribes.
LEMMA LocalsStep ==
  ASSUME IInv, NEW t \in Threads,
         \A u \in Threads \ {t} : /\ pc'[u] = pc[u] /\ held'[u] = held[u]
                                  /\ wrapper'[u] = wrapper[u] /\ depth'[u] = depth[u],
         held'[t] = HeldBefore(pc'[t]),
         wrapper'[t] <=> pc'[t] \in 3..10,
         depth'[t] = IF pc'[t] \in 4..9 THEN 1 ELSE 0
  PROVE  LocalsFollowCalls'
BY CallPositions DEF IInv, LocalsFollowCalls

\* Nothing is held outside import(), nor once the object has taken it over.
LEMMA HeldOutside ==
  HeldBefore(0) = {} /\ HeldBefore(1) = {} /\ HeldBefore(11) = {} /\ HeldBefore(13) = {}
BY CallPositions DEF HeldBefore

\* The wrappers that import() calls own, when only thread t's changes.
LEMMA WrappersMove ==
  ASSUME NEW t \in Threads, \A u \in Threads \ {t} : wrapper'[u] = wrapper[u]
  PROVE  /\ Cardinality(Wrappers) \in Nat /\ Cardinality(Wrappers') \in Nat
         /\ Cardinality(Wrappers') = Cardinality(Wrappers)
              + (IF t \in Wrappers' THEN 1 ELSE 0) - (IF t \in Wrappers THEN 1 ELSE 0)
<1>1. IsFiniteSet(Wrappers)
  BY ImportAssumption, FS_Subset, Wrappers \subseteq Threads DEF Wrappers
<1>2. \A u : u # t => (u \in Wrappers <=> u \in Wrappers')
  BY DEF Wrappers
<1> QED BY <1>1, <1>2, CountMove

\* The objects that exist, and the wrappers of import() calls, can be counted.
LEMMA WrappedFinite ==
  ASSUME TypeOK
  PROVE  /\ IsFiniteSet(wrapped) /\ Cardinality(wrapped) \in Nat
         /\ Cardinality(Wrappers) \in Nat
<1>1. IsFiniteSet(wrapped) /\ IsFiniteSet(Wrappers)
  BY ImportAssumption, FS_Subset, Wrappers \subseteq Threads DEF TypeOK, Wrappers
<1> QED BY <1>1, FS_CardinalityType

\* Leaving import() from any call or from a failed insertion restores the locals.
LEMMA LeaveStep ==
  ASSUME IInv, NEW t \in Threads, Leave(t), held' = Set(held, t, {}),
         pc[t] \in 1..Inserting, UNCHANGED <<resource, wrapped, cache, result>>
  PROVE  /\ pc' \in [Threads -> Outside..Unwinding] /\ held' \in [Threads -> SUBSET Kinds]
         /\ wrapper' \in [Threads -> BOOLEAN] /\ depth' \in [Threads -> 0..1]
         /\ LocalsFollowCalls' /\ ObjectsAreWhole' /\ ReferencesAreLive' /\ ObjectsAreReferred'
         /\ Cardinality(Wrappers) \in Nat /\ Cardinality(Wrappers') \in Nat
         /\ Cardinality(Wrappers') = Cardinality(Wrappers)
                                      - (IF t \in Wrappers THEN 1 ELSE 0)
<1> USE CallPositions DEF Leave
<1>1. /\ pc' \in [Threads -> Outside..Unwinding]
      /\ ObjectsAreWhole' /\ ReferencesAreLive' /\ ObjectsAreReferred'
  BY ImporterStep
<1>2. /\ held' \in [Threads -> SUBSET Kinds]
      /\ wrapper' \in [Threads -> BOOLEAN] /\ depth' \in [Threads -> 0..1]
  BY DEF IInv, TypeOK, Set
<1>3. LocalsFollowCalls'
  <2>1. /\ held'[t] = {} /\ pc'[t] = 0 /\ ~wrapper'[t] /\ depth'[t] = 0
        /\ \A u \in Threads \ {t} : /\ pc'[u] = pc[u] /\ held'[u] = held[u]
                                    /\ wrapper'[u] = wrapper[u] /\ depth'[u] = depth[u]
    BY DEF IInv, TypeOK, Set
  <2> HIDE DEF Leave
  <2> QED BY <2>1, HeldOutside, LocalsStep
<1>4. /\ Cardinality(Wrappers) \in Nat /\ Cardinality(Wrappers') \in Nat
      /\ Cardinality(Wrappers') = Cardinality(Wrappers)
                                   - (IF t \in Wrappers THEN 1 ELSE 0)
  <2>1. t \notin Wrappers' /\ \A u \in Threads \ {t} : wrapper'[u] = wrapper[u]
    BY DEF IInv, TypeOK, Set, Wrappers
  <2>2. /\ Cardinality(Wrappers) \in Nat /\ Cardinality(Wrappers') \in Nat
        /\ Cardinality(Wrappers') = Cardinality(Wrappers)
             + (IF t \in Wrappers' THEN 1 ELSE 0) - (IF t \in Wrappers THEN 1 ELSE 0)
    BY <2>1, WrappersMove
  <2> QED BY <2>1, <2>2
<1> QED BY <1>1, <1>2, <1>3, <1>4

\* Releasing objects gives back one retain for each that had a wrapper.
LEMMA ReleaseBalances ==
  ASSUME TypeOK, NEW gone, Release(gone)
  PROVE  /\ retained' \in Int /\ wrapped' \subseteq Threads
         /\ resource' \in [Threads -> SUBSET Kinds]
         /\ Cardinality(wrapped') \in Nat
         /\ retained' - Cardinality(wrapped') = retained - Cardinality(wrapped)
<1> USE DEF TypeOK
<1>1. IsFiniteSet(wrapped) /\ Cardinality(wrapped) \in Nat
  BY WrappedFinite
<1>2. wrapped' = wrapped \ gone /\ retained' = retained - Cardinality(gone \cap wrapped)
  BY DEF Release
<1>3. IsFiniteSet(gone \cap wrapped) /\ IsFiniteSet(wrapped \ gone)
  BY <1>1, FS_Intersection, FS_Difference
<1>4. Cardinality(gone \cap wrapped) \in Nat /\ Cardinality(wrapped \ gone) \in Nat
  BY <1>3, FS_CardinalityType
<1>5. Cardinality(wrapped \ gone) = Cardinality(wrapped) - Cardinality(wrapped \cap gone)
  BY <1>1, FS_Difference
<1>6. wrapped \cap gone = gone \cap wrapped
  OBVIOUS
<1>7. wrapped' \subseteq Threads /\ resource' \in [Threads -> SUBSET Kinds]
  BY <1>2 DEF Release
<1>8. Cardinality(wrapped') = Cardinality(wrapped) - Cardinality(gone \cap wrapped)
  BY <1>2, <1>5, <1>6
<1>9. retained \in Int /\ Cardinality(wrapped') \in Nat
  BY <1>2, <1>4
<1> HIDE DEF TypeOK
<1>10. retained' - Cardinality(wrapped') = retained - Cardinality(wrapped)
  BY <1>1, <1>2, <1>4, <1>8, <1>9
<1>11. retained' \in Int
  BY <1>2, <1>4, <1>9
<1> QED BY <1>7, <1>9, <1>10, <1>11

\* The invariant survives every call that succeeds, fails or throws, every
\* insertion and every release.
LEMMA InvariantStep == IInv /\ [Next]_vars => IInv'
<1> SUFFICES ASSUME IInv, [Next]_vars PROVE IInv'
  OBVIOUS
<1>0. /\ TypeOK /\ LocalsFollowCalls /\ ObjectsAreWhole /\ ReferencesAreLive
      /\ ObjectsAreReferred /\ RetainsBalance
  BY DEF IInv
<1>z. /\ Outside = 0 /\ Inserting = 10 /\ Sharing = 11 /\ Using = 12 /\ Unwinding = 13
      /\ Len(Calls) = 9
  BY CallPositions
<1>w. /\ IsFiniteSet(wrapped) /\ Cardinality(wrapped) \in Nat
      /\ Cardinality(Wrappers) \in Nat
  BY <1>0, WrappedFinite
<1>1. ASSUME NEW t \in Threads, ImportBegin(t) PROVE IInv'
  <2> USE <1>1, <1>z DEF ImportBegin
  <2>1. /\ pc' \in [Threads -> Outside..Unwinding]
        /\ ObjectsAreWhole' /\ ReferencesAreLive' /\ ObjectsAreReferred'
    BY ImporterStep
  <2>3. LocalsFollowCalls'
    <3>1. pc'[t] = 1 /\ held'[t] = {} /\ ~wrapper'[t] /\ depth'[t] = 0
      BY <1>0, HeldOutside DEF TypeOK, Set, LocalsFollowCalls
    <3>2. \A u \in Threads \ {t} : pc'[u] = pc[u]
      BY <1>0 DEF TypeOK, Set
    <3> QED BY <3>1, <3>2, HeldOutside, LocalsStep
  <2>4. RetainsBalance'
    BY <1>0 DEF RetainsBalance, Wrappers
  <2> QED BY <1>0, <2>1, <2>3, <2>4 DEF IInv, TypeOK
<1>2. ASSUME NEW t \in Threads, ImportCall(t) PROVE IInv'
  <2> DEFINE p == pc[t] + 1
             w == wrapper[t] \/ Call(t) = "context"
  <2>0. /\ pc[t] \in 1..9 /\ p \in 2..10
        /\ Call(t) = "context" <=> pc[t] = 2
        /\ Call(t) = "guard" <=> pc[t] = 3
        /\ Call(t) = "event" <=> pc[t] = 9
    BY <1>0, <1>2, CallCases DEF ImportCall, TypeOK
  <2>1. /\ pc' \in [Threads -> Outside..Unwinding]
        /\ ObjectsAreWhole' /\ ReferencesAreLive' /\ ObjectsAreReferred'
    <3>1. t \notin wrapped
      BY <1>0, <2>0, <1>z DEF ObjectsAreWhole
    <3> QED BY <1>2, <1>z, <2>0, <3>1, ImporterStep DEF ImportCall
  <2>2. held' = Set(held, t, HeldBefore(p))
    BY <1>0, <1>2, HeldAfterCall DEF ImportCall, TypeOK, LocalsFollowCalls
  <2>3. w \in BOOLEAN /\ (w <=> p \in 3..10)
    BY <1>0, <1>z, <2>0 DEF LocalsFollowCalls, TypeOK
  <2>4. /\ Pushed(t, Call(t)) = IF p \in 4..9 THEN 1 ELSE 0
        /\ Pushed(t, Call(t)) \in 0..1
    BY <1>0, <1>z, <2>0 DEF Pushed, LocalsFollowCalls
  <2>5. /\ pc' = Set(pc, t, p) /\ wrapper' = Set(wrapper, t, w)
        /\ depth' = Set(depth, t, Pushed(t, Call(t)))
    BY <1>2 DEF ImportCall
  <2>6. HeldBefore(p) \subseteq Kinds
    BY CallPositions DEF HeldBefore, Kinds, Whole
  <2>7. /\ LocalsFollowCalls' /\ held' \in [Threads -> SUBSET Kinds]
        /\ wrapper' \in [Threads -> BOOLEAN] /\ depth' \in [Threads -> 0..1]
    <3> HIDE DEF p, w
    <3>1. /\ pc'[t] = p /\ held'[t] = HeldBefore(p) /\ wrapper'[t] = w
          /\ depth'[t] = Pushed(t, Call(t))
          /\ \A u \in Threads \ {t} : /\ pc'[u] = pc[u] /\ held'[u] = held[u]
                                      /\ wrapper'[u] = wrapper[u] /\ depth'[u] = depth[u]
      BY <1>0, <2>2, <2>5 DEF TypeOK, Set
    <3>2. LocalsFollowCalls'
      BY <2>3, <2>4, <3>1, LocalsStep
    <3> QED BY <1>0, <2>2, <2>3, <2>4, <2>5, <2>6, <3>2 DEF TypeOK, Set
  <2>8. RetainsBalance' /\ retained' \in Int
    <3>1. /\ t \in Wrappers' <=> w
          /\ t \in Wrappers <=> wrapper[t]
          /\ \A u \in Threads \ {t} : wrapper'[u] = wrapper[u]
      BY <1>0, <2>5 DEF Wrappers, TypeOK, Set
    <3>2. /\ Cardinality(Wrappers) \in Nat /\ Cardinality(Wrappers') \in Nat
          /\ Cardinality(Wrappers') = Cardinality(Wrappers)
               + (IF t \in Wrappers' THEN 1 ELSE 0) - (IF t \in Wrappers THEN 1 ELSE 0)
      BY <3>1, WrappersMove
    <3>3. B(Call(t) = "context")
            = (IF t \in Wrappers' THEN 1 ELSE 0) - (IF t \in Wrappers THEN 1 ELSE 0)
      BY <1>0, <1>z, <2>0, <3>1 DEF B, LocalsFollowCalls
    <3>4. retained' = retained + B(Call(t) = "context") /\ wrapped' = wrapped /\ lost' = lost
      BY <1>2 DEF ImportCall
    <3>5. retained \in Int /\ lost \in Int
      BY <1>0 DEF TypeOK
    <3> QED BY <1>0, <1>w, <3>2, <3>3, <3>4, <3>5 DEF RetainsBalance
  <2> QED BY <1>0, <1>2, <2>1, <2>7, <2>8 DEF ImportCall, IInv, TypeOK
<1>3. ASSUME NEW t \in Threads, ImportCallFails(t) PROVE IInv'
  <2>0. pc[t] \in 1..9
    BY <1>0, <1>3, CallCases DEF ImportCallFails, TypeOK
  <2>1. held' = Set(held, t, {})
    BY <1>0, <1>3, RollBackIsComplete DEF ImportCallFails, TypeOK, LocalsFollowCalls
  <2>2. /\ pc' \in [Threads -> Outside..Unwinding] /\ held' \in [Threads -> SUBSET Kinds]
        /\ wrapper' \in [Threads -> BOOLEAN] /\ depth' \in [Threads -> 0..1]
        /\ LocalsFollowCalls' /\ ObjectsAreWhole' /\ ReferencesAreLive' /\ ObjectsAreReferred'
        /\ Cardinality(Wrappers) \in Nat /\ Cardinality(Wrappers') \in Nat
        /\ Cardinality(Wrappers') = Cardinality(Wrappers)
                                     - (IF t \in Wrappers THEN 1 ELSE 0)
    <3>1. /\ Leave(t) /\ pc[t] \in 1..Inserting
          /\ UNCHANGED <<resource, wrapped, cache, result>>
      BY <1>3, <1>z, <2>0 DEF ImportCallFails
    <3> QED BY <2>1, <3>1, LeaveStep
  <2>3. RetainsBalance' /\ retained' \in Int
    <3>1. B(wrapper[t]) = IF t \in Wrappers THEN 1 ELSE 0
      BY DEF B, Wrappers
    <3>2. /\ retained' = retained - B(wrapper[t]) /\ wrapped' = wrapped /\ lost' = lost
          /\ retained \in Int /\ lost \in Int
      BY <1>0, <1>3 DEF ImportCallFails, TypeOK
    <3> QED BY <1>0, <1>w, <2>2, <3>1, <3>2 DEF RetainsBalance
  <2> QED BY <1>0, <1>3, <2>2, <2>3 DEF ImportCallFails, IInv, TypeOK
<1>4. ASSUME NEW t \in Threads, RetainThrows(t) PROVE IInv'
  <2>0. pc[t] = 2
    BY <1>0, <1>4, CallCases DEF RetainThrows, TypeOK
  <2>1. Cardinality(held[t]) = 1 /\ ~wrapper[t]
    <3>1. held[t] = {"fd"} /\ ~wrapper[t]
      BY <1>0, <1>z, <2>0 DEF LocalsFollowCalls, HeldBefore
    <3> QED BY <3>1, FS_Singleton
  <2>2. /\ pc' \in [Threads -> Outside..Unwinding] /\ held' \in [Threads -> SUBSET Kinds]
        /\ wrapper' \in [Threads -> BOOLEAN] /\ depth' \in [Threads -> 0..1]
        /\ LocalsFollowCalls' /\ ObjectsAreWhole' /\ ReferencesAreLive' /\ ObjectsAreReferred'
        /\ Cardinality(Wrappers) \in Nat /\ Cardinality(Wrappers') \in Nat
        /\ Cardinality(Wrappers') = Cardinality(Wrappers)
                                     - (IF t \in Wrappers THEN 1 ELSE 0)
    BY <1>4, <1>z, <2>0, LeaveStep DEF RetainThrows
  <2>3. /\ lost' = lost + 1 /\ lost < MaxThrows /\ wrapped' = wrapped
        /\ retained' \in {retained, retained - 1}
    BY <1>0, <1>4, <2>1 DEF RetainThrows, TypeOK
  <2>4. retained \in Int /\ lost \in 0..MaxThrows /\ MaxThrows \in Nat /\ t \notin Wrappers
    BY <1>0, <2>1, ImportAssumption DEF TypeOK, Wrappers
  <2>5. RetainsBalance' /\ retained' \in Int /\ lost' \in 0..MaxThrows
    BY <1>0, <1>w, <2>2, <2>3, <2>4 DEF RetainsBalance
  <2> QED BY <1>0, <1>4, <2>2, <2>5 DEF RetainThrows, IInv, TypeOK
<1>5. ASSUME NEW t \in Threads, Construct(t) PROVE IInv'
  <2>0. /\ pc[t] = Inserting /\ t \notin wrapped /\ held[t] = Whole
        /\ wrapper[t] /\ depth[t] = 0
    BY <1>0, <1>5, <1>z DEF Construct, LocalsFollowCalls, ObjectsAreWhole, HeldBefore
  <2>1. /\ LocalsFollowCalls' /\ held' \in [Threads -> SUBSET Kinds]
        /\ wrapper' \in [Threads -> BOOLEAN] /\ depth' \in [Threads -> 0..1]
    <3>1. /\ pc'[t] = 11 /\ held'[t] = {} /\ ~wrapper'[t] /\ depth'[t] = 0
          /\ \A u \in Threads \ {t} : /\ pc'[u] = pc[u] /\ held'[u] = held[u]
                                      /\ wrapper'[u] = wrapper[u] /\ depth'[u] = depth[u]
      BY <1>0, <1>5, <1>z, <2>0 DEF Construct, TypeOK, Set
    <3>2. LocalsFollowCalls'
      BY <3>1, HeldOutside, LocalsStep
    <3> QED BY <1>0, <1>5, <3>2 DEF Construct, TypeOK, Set
  <2>2. ObjectsAreWhole' /\ resource' \in [Threads -> SUBSET Kinds]
    BY <1>0, <1>5, <1>z, <2>0 DEF Construct, ObjectsAreWhole, Set, TypeOK, Whole, Kinds
  <2>3. ReferencesAreLive'
    BY <1>0, <1>5, <1>z, <2>0, ImportAssumption DEF Construct, ReferencesAreLive, Set, TypeOK
  <2>4. ObjectsAreReferred'
    BY <1>0, <1>5, <1>z, <2>0 DEF Construct, ObjectsAreReferred, Set, TypeOK
  <2>5. RetainsBalance'
    <3>1. /\ t \notin Wrappers' /\ t \in Wrappers
          /\ \A u \in Threads \ {t} : wrapper'[u] = wrapper[u]
      BY <1>0, <1>5, <2>0 DEF Construct, Wrappers, TypeOK, Set
    <3>2. /\ Cardinality(Wrappers) \in Nat /\ Cardinality(Wrappers') \in Nat
          /\ Cardinality(Wrappers') = Cardinality(Wrappers)
               + (IF t \in Wrappers' THEN 1 ELSE 0) - (IF t \in Wrappers THEN 1 ELSE 0)
      BY <3>1, WrappersMove
    <3>3. Cardinality(wrapped') = Cardinality(wrapped) + 1
      BY <1>5, <1>w, <2>0, FS_AddElement DEF Construct
    <3>4. retained \in Int /\ lost \in Int /\ retained' = retained /\ lost' = lost
      BY <1>0, <1>5 DEF Construct, TypeOK
    <3> QED BY <1>0, <1>w, <3>1, <3>2, <3>3, <3>4 DEF RetainsBalance
  <2>6. pc' \in [Threads -> Outside..Unwinding] /\ wrapped' \subseteq Threads
    BY <1>0, <1>5, <1>z DEF Construct, Set, TypeOK
  <2> QED BY <1>0, <1>5, <2>1, <2>2, <2>3, <2>4, <2>5, <2>6 DEF Construct, IInv, TypeOK
<1>6. ASSUME NEW t \in Threads, ConstructThrows(t) PROVE IInv'
  <2>0. pc[t] = Inserting /\ wrapper[t]
    BY <1>0, <1>6, <1>z DEF ConstructThrows, LocalsFollowCalls
  <2>1. /\ pc' \in [Threads -> Outside..Unwinding] /\ held' \in [Threads -> SUBSET Kinds]
        /\ wrapper' \in [Threads -> BOOLEAN] /\ depth' \in [Threads -> 0..1]
        /\ LocalsFollowCalls' /\ ObjectsAreWhole' /\ ReferencesAreLive' /\ ObjectsAreReferred'
        /\ Cardinality(Wrappers) \in Nat /\ Cardinality(Wrappers') \in Nat
        /\ Cardinality(Wrappers') = Cardinality(Wrappers)
                                     - (IF t \in Wrappers THEN 1 ELSE 0)
    BY <1>6, <1>z, <2>0, LeaveStep DEF ConstructThrows
  <2>2. RetainsBalance' /\ retained' \in Int
    <3>1. /\ retained \in Int /\ lost \in Int /\ retained' = retained - 1 /\ lost' = lost
          /\ wrapped' = wrapped /\ t \in Wrappers
      BY <1>0, <1>6, <2>0 DEF ConstructThrows, TypeOK, Wrappers
    <3> QED BY <1>0, <1>w, <2>1, <3>1 DEF RetainsBalance
  <2> QED BY <1>0, <1>6, <2>1, <2>2 DEF ConstructThrows, IInv, TypeOK
<1>7. ASSUME NEW t \in Threads, ControlBlockThrows(t) PROVE IInv'
  <2>0. pc[t] = Inserting /\ wrapper[t] /\ depth[t] = 0 /\ t \notin wrapped
    BY <1>0, <1>7, <1>z DEF ControlBlockThrows, LocalsFollowCalls, ObjectsAreWhole
  <2>1. /\ pc' \in [Threads -> Outside..Unwinding]
        /\ ObjectsAreWhole' /\ ReferencesAreLive' /\ ObjectsAreReferred'
    BY <1>7, <1>z, <2>0, ImporterStep DEF ControlBlockThrows
  <2>2. /\ LocalsFollowCalls' /\ held' \in [Threads -> SUBSET Kinds]
        /\ wrapper' \in [Threads -> BOOLEAN] /\ depth' \in [Threads -> 0..1]
    <3>1. /\ pc'[t] = 13 /\ held'[t] = {} /\ ~wrapper'[t] /\ depth'[t] = 0
          /\ \A u \in Threads \ {t} : /\ pc'[u] = pc[u] /\ held'[u] = held[u]
                                      /\ wrapper'[u] = wrapper[u] /\ depth'[u] = depth[u]
      BY <1>0, <1>7, <1>z, <2>0 DEF ControlBlockThrows, TypeOK, Set
    <3>2. LocalsFollowCalls'
      BY <3>1, HeldOutside, LocalsStep
    <3> QED BY <1>0, <1>7, <3>2 DEF ControlBlockThrows, TypeOK, Set
  <2>3. RetainsBalance' /\ retained' \in Int
    <3>1. /\ t \notin Wrappers' /\ t \in Wrappers
          /\ \A u \in Threads \ {t} : wrapper'[u] = wrapper[u]
      BY <1>0, <1>7, <2>0 DEF ControlBlockThrows, Wrappers, TypeOK, Set
    <3>2. /\ Cardinality(Wrappers) \in Nat /\ Cardinality(Wrappers') \in Nat
          /\ Cardinality(Wrappers') = Cardinality(Wrappers)
               + (IF t \in Wrappers' THEN 1 ELSE 0) - (IF t \in Wrappers THEN 1 ELSE 0)
      BY <3>1, WrappersMove
    <3>3. /\ retained \in Int /\ lost \in Int /\ retained' = retained - 1 /\ lost' = lost
          /\ wrapped' = wrapped
      BY <1>0, <1>7 DEF ControlBlockThrows, TypeOK
    <3> QED BY <1>0, <1>w, <3>1, <3>2, <3>3 DEF RetainsBalance
  <2> QED BY <1>0, <1>7, <2>1, <2>2, <2>3 DEF ControlBlockThrows, IInv, TypeOK
<1>8. ASSUME NEW t \in Threads, GuardUnwinds(t) PROVE IInv'
  <2>0. pc[t] = Unwinding /\ ~wrapper[t] /\ depth[t] = 0
    BY <1>0, <1>8, <1>z DEF GuardUnwinds, LocalsFollowCalls
  <2>1. /\ pc' \in [Threads -> Outside..Unwinding]
        /\ ObjectsAreWhole' /\ ReferencesAreLive' /\ ObjectsAreReferred'
    BY <1>8, <1>z, <2>0, ImporterStep DEF GuardUnwinds
  <2>2. LocalsFollowCalls' /\ held' \in [Threads -> SUBSET Kinds]
    <3>1. /\ pc'[t] = 0 /\ held'[t] = {} /\ ~wrapper'[t] /\ depth'[t] = 0
          /\ \A u \in Threads \ {t} : /\ pc'[u] = pc[u] /\ held'[u] = held[u]
                                      /\ wrapper'[u] = wrapper[u] /\ depth'[u] = depth[u]
      BY <1>0, <1>8, <1>z, <2>0 DEF GuardUnwinds, TypeOK, Set
    <3>2. LocalsFollowCalls'
      BY <3>1, HeldOutside, LocalsStep
    <3> QED BY <1>0, <1>8, <3>2 DEF GuardUnwinds, TypeOK, Set
  <2>3. RetainsBalance'
    BY <1>0, <1>8 DEF GuardUnwinds, RetainsBalance, Wrappers
  <2>4. undefined' \in BOOLEAN
    BY <1>8 DEF GuardUnwinds
  <2> QED BY <1>0, <1>8, <2>1, <2>2, <2>3, <2>4 DEF GuardUnwinds, IInv, TypeOK
<1>9. ASSUME NEW t \in Threads, Share(t) PROVE IInv'
  <2> DEFINE gone == {t} \ {cache'}
  <2>0. /\ pc[t] = Sharing /\ t \in wrapped /\ cache # t /\ result[t] = NoObject
        /\ \A u \in Threads : result[u] # t
        /\ cache' = (IF cache = NoObject THEN t ELSE cache)
        /\ cache' \in wrapped /\ cache' \in Threads /\ cache' # NoObject
        /\ gone \subseteq {t} /\ cache' \notin gone
    BY <1>0, <1>9, <1>z, ImportAssumption DEF Share, ReferencesAreLive, TypeOK
  <2>1. /\ retained' \in Int /\ wrapped' \subseteq Threads
        /\ resource' \in [Threads -> SUBSET Kinds]
        /\ Cardinality(wrapped') \in Nat
        /\ retained' - Cardinality(wrapped') = retained - Cardinality(wrapped)
    BY <1>0, <1>9, ReleaseBalances DEF Share
  <2>2. /\ pc' = Set(pc, t, Using) /\ result' = Set(result, t, cache')
        /\ wrapped' = wrapped \ gone
        /\ resource' = [o \in Threads |-> IF o \in gone THEN {} ELSE resource[o]]
        /\ UNCHANGED <<held, wrapper, depth, undefined, lost>>
    BY <1>9 DEF Share, Release
  <2> HIDE DEF gone
  <2>3. LocalsFollowCalls'
    <3>1. /\ pc'[t] = Using /\ \A u \in Threads \ {t} : pc'[u] = pc[u]
      BY <1>0, <2>2 DEF Set, TypeOK
    <3>2. held[t] = {} /\ ~wrapper[t] /\ depth[t] = 0 /\ HeldBefore(Using) = {}
      BY <1>0, <2>0, <1>z, HeldOutside DEF LocalsFollowCalls, HeldBefore
    <3> QED BY <1>z, <2>2, <3>1, <3>2, LocalsStep
  <2>4. ObjectsAreWhole'
    BY <1>0, <1>z, <2>0, <2>2 DEF ObjectsAreWhole, Set, TypeOK
  <2>5. ReferencesAreLive'
    <3>1. cache' # NoObject => cache' \in wrapped'
      BY <2>0, <2>2
    <3>2. \A u \in Threads : result'[u] # NoObject <=> pc'[u] = Using
      BY <1>0, <2>0, <2>2 DEF ReferencesAreLive, Set, TypeOK
    <3>3. \A u \in Threads : result'[u] # NoObject => result'[u] \in wrapped'
      BY <1>0, <2>0, <2>2 DEF ReferencesAreLive, Set, TypeOK
    <3>4. \A u \in Threads : pc'[u] = Sharing =>
            u \in wrapped' /\ cache' # u /\ \A x \in Threads : result'[x] # u
      BY <1>0, <1>z, <2>0, <2>2 DEF ReferencesAreLive, Set, TypeOK
    <3> QED BY <3>1, <3>2, <3>3, <3>4 DEF ReferencesAreLive
  <2>6. ObjectsAreReferred'
    <3> SUFFICES ASSUME NEW o \in wrapped'
                 PROVE  (cache = o \/ pc[o] = Sharing \/ \E u \in Threads : result[u] = o)'
      BY DEF ObjectsAreReferred
    <3>1. CASE o = cache'
      BY <3>1
    <3>2. CASE o # cache'
      <4>1. o # t /\ o \in wrapped /\ o # cache
        BY <1>0, <2>0, <2>2, <3>2, ImportAssumption DEF gone, TypeOK
      <4>2. CASE pc[o] = Sharing
        BY <1>0, <2>2, <4>1, <4>2 DEF Set, TypeOK
      <4>3. ASSUME NEW u \in Threads, result[u] = o PROVE result'[u] = o
        BY <1>0, <2>0, <2>2, <4>1, <4>3, ImportAssumption DEF Set, TypeOK
      <4> QED BY <1>0, <4>1, <4>2, <4>3 DEF ObjectsAreReferred
    <3> QED BY <3>1, <3>2
  <2>7. RetainsBalance'
    <3>1. retained \in Int /\ lost \in Int /\ lost' = lost /\ Wrappers' = Wrappers
      BY <1>0, <2>2 DEF TypeOK, Wrappers
    <3> QED BY <1>0, <1>w, <2>1, <3>1 DEF RetainsBalance
  <2>8. /\ pc' \in [Threads -> Outside..Unwinding]
        /\ result' \in [Threads -> Threads \cup {NoObject}]
    BY <1>0, <1>z, <2>0, <2>2 DEF Set, TypeOK
  <2> QED BY <1>0, <2>0, <2>1, <2>2, <2>3, <2>4, <2>5, <2>6, <2>7, <2>8 DEF IInv, TypeOK
<1>10. ASSUME NEW t \in Threads, ShareThrows(t) PROVE IInv'
  <2>0. /\ pc[t] = Sharing /\ t \in wrapped /\ cache # t /\ result[t] = NoObject
        /\ \A u \in Threads : result[u] # t
    BY <1>0, <1>10, <1>z DEF ShareThrows, ReferencesAreLive
  <2>1. /\ retained' \in Int /\ wrapped' \subseteq Threads
        /\ resource' \in [Threads -> SUBSET Kinds]
        /\ Cardinality(wrapped') \in Nat
        /\ retained' - Cardinality(wrapped') = retained - Cardinality(wrapped)
    BY <1>0, <1>10, ReleaseBalances DEF ShareThrows
  <2>2. /\ pc' = Set(pc, t, Outside) /\ wrapped' = wrapped \ {t}
        /\ resource' = [o \in Threads |-> IF o \in {t} THEN {} ELSE resource[o]]
        /\ UNCHANGED <<held, wrapper, depth, cache, result, undefined, lost>>
    BY <1>10 DEF ShareThrows, Release
  <2>3. LocalsFollowCalls'
    <3>1. /\ pc'[t] = Outside /\ \A u \in Threads \ {t} : pc'[u] = pc[u]
      BY <1>0, <2>2 DEF Set, TypeOK
    <3>2. held[t] = {} /\ ~wrapper[t] /\ depth[t] = 0
      BY <1>0, <2>0, <1>z, HeldOutside DEF LocalsFollowCalls, HeldBefore
    <3> QED BY <1>z, <2>2, <3>1, <3>2, HeldOutside, LocalsStep
  <2>4. ObjectsAreWhole'
    BY <1>0, <1>z, <2>0, <2>2 DEF ObjectsAreWhole, Set, TypeOK
  <2>5. ReferencesAreLive'
    BY <1>0, <1>z, <2>0, <2>2 DEF ReferencesAreLive, Set, TypeOK
  <2>6. ObjectsAreReferred'
    BY <1>0, <1>z, <2>0, <2>2 DEF ObjectsAreReferred, Set, TypeOK
  <2>7. RetainsBalance'
    <3>1. retained \in Int /\ lost \in Int /\ lost' = lost /\ Wrappers' = Wrappers
      BY <1>0, <2>2 DEF TypeOK, Wrappers
    <3> QED BY <1>0, <1>w, <2>1, <3>1 DEF RetainsBalance
  <2>8. pc' \in [Threads -> Outside..Unwinding]
    BY <1>0, <1>z, <2>2 DEF Set, TypeOK
  <2> QED BY <1>0, <2>1, <2>2, <2>3, <2>4, <2>5, <2>6, <2>7, <2>8 DEF IInv, TypeOK
<1>11. ASSUME NEW t \in Threads, Find(t) PROVE IInv'
  <2>0. /\ pc[t] = Outside /\ cache # NoObject /\ cache \in Threads /\ cache \in wrapped
        /\ result[t] = NoObject
    BY <1>0, <1>11, <1>z DEF Find, TypeOK, ReferencesAreLive
  <2>2. /\ pc' = Set(pc, t, Using) /\ result' = Set(result, t, cache)
        /\ UNCHANGED <<held, wrapper, depth, resource, wrapped, cache, retained, undefined,
                       lost>>
    BY <1>11 DEF Find
  <2>3. LocalsFollowCalls'
    <3>1. /\ pc'[t] = Using /\ \A u \in Threads \ {t} : pc'[u] = pc[u]
      BY <1>0, <2>2 DEF Set, TypeOK
    <3>2. held[t] = {} /\ ~wrapper[t] /\ depth[t] = 0 /\ HeldBefore(Using) = {}
      BY <1>0, <2>0, <1>z, HeldOutside DEF LocalsFollowCalls, HeldBefore
    <3> QED BY <1>z, <2>2, <3>1, <3>2, LocalsStep
  <2>4. ObjectsAreWhole'
    BY <1>0, <1>z, <2>0, <2>2 DEF ObjectsAreWhole, Set, TypeOK
  <2>5. ReferencesAreLive'
    BY <1>0, <1>z, <2>0, <2>2 DEF ReferencesAreLive, Set, TypeOK
  <2>6. ObjectsAreReferred'
    <3>1. \A u \in Threads : result[u] # NoObject => result'[u] = result[u]
      BY <1>0, <2>0, <2>2 DEF Set, TypeOK
    <3>2. \A o \in Threads : pc[o] = Sharing => pc'[o] = Sharing
      BY <1>0, <1>z, <2>0, <2>2 DEF Set, TypeOK
    <3> QED BY <1>0, <2>2, <3>1, <3>2, ImportAssumption DEF ObjectsAreReferred, TypeOK
  <2>7. RetainsBalance'
    BY <1>0, <2>2 DEF RetainsBalance, Wrappers
  <2>8. /\ pc' \in [Threads -> Outside..Unwinding]
        /\ result' \in [Threads -> Threads \cup {NoObject}]
    BY <1>0, <1>z, <2>0, <2>2 DEF Set, TypeOK
  <2> QED BY <1>0, <2>2, <2>3, <2>4, <2>5, <2>6, <2>7, <2>8 DEF IInv, TypeOK
<1>12. ASSUME NEW t \in Threads, Drop(t) PROVE IInv'
  <2> DEFINE gone == {result[t]} \ ({cache} \cup {result[u] : u \in Threads \ {t}})
  <2>0. /\ pc[t] = Using /\ result[t] \in wrapped /\ result[t] \in Threads
    BY <1>0, <1>12, <1>z DEF Drop, ReferencesAreLive, TypeOK
  <2>1. /\ retained' \in Int /\ wrapped' \subseteq Threads
        /\ resource' \in [Threads -> SUBSET Kinds]
        /\ Cardinality(wrapped') \in Nat
        /\ retained' - Cardinality(wrapped') = retained - Cardinality(wrapped)
    BY <1>0, <1>12, ReleaseBalances DEF Drop
  <2>2. /\ pc' = Set(pc, t, Outside) /\ result' = Set(result, t, NoObject)
        /\ wrapped' = wrapped \ gone
        /\ resource' = [o \in Threads |-> IF o \in gone THEN {} ELSE resource[o]]
        /\ UNCHANGED <<held, wrapper, depth, cache, undefined, lost>>
    BY <1>12 DEF Drop, Release
  <2>g. /\ gone \subseteq {result[t]} /\ cache \notin gone
        /\ \A u \in Threads \ {t} : result[u] \notin gone
        /\ result[t] \in gone \/ cache = result[t]
             \/ \E u \in Threads \ {t} : result[u] = result[t]
    OBVIOUS
  <2> HIDE DEF gone
  <2>3. LocalsFollowCalls'
    <3>1. /\ pc'[t] = Outside /\ \A u \in Threads \ {t} : pc'[u] = pc[u]
      BY <1>0, <2>2 DEF Set, TypeOK
    <3>2. held[t] = {} /\ ~wrapper[t] /\ depth[t] = 0
      BY <1>0, <2>0, <1>z, HeldOutside DEF LocalsFollowCalls, HeldBefore
    <3> QED BY <1>z, <2>2, <3>1, <3>2, HeldOutside, LocalsStep
  <2>4. ObjectsAreWhole'
    BY <1>0, <1>z, <2>0, <2>2 DEF ObjectsAreWhole, Set, TypeOK
  <2>5. ReferencesAreLive'
    <3>1. cache' # NoObject => cache' \in wrapped'
      BY <1>0, <2>g, <2>2 DEF ReferencesAreLive
    <3>2. \A u \in Threads : result'[u] # NoObject <=> pc'[u] = Using
      BY <1>0, <1>z, <2>0, <2>2 DEF ReferencesAreLive, Set, TypeOK
    <3>3. \A u \in Threads : result'[u] # NoObject => result'[u] \in wrapped'
      BY <1>0, <2>g, <2>2 DEF ReferencesAreLive, Set, TypeOK
    <3>4. \A u \in Threads : pc'[u] = Sharing =>
            u \in wrapped' /\ cache' # u /\ \A x \in Threads : result'[x] # u
      BY <1>0, <1>z, <2>0, <2>g, <2>2, ImportAssumption DEF ReferencesAreLive, Set, TypeOK
    <3> QED BY <3>1, <3>2, <3>3, <3>4 DEF ReferencesAreLive
  <2>6. ObjectsAreReferred'
    <3> SUFFICES ASSUME NEW o \in wrapped'
                 PROVE  (cache = o \/ pc[o] = Sharing \/ \E u \in Threads : result[u] = o)'
      BY DEF ObjectsAreReferred
    <3>1. o \in wrapped /\ o \notin gone
      BY <2>2
    <3>2. CASE cache = o
      BY <2>2, <3>2
    <3>3. CASE pc[o] = Sharing
      BY <1>0, <1>z, <2>0, <2>2, <3>1, <3>3 DEF Set, TypeOK
    <3>4. ASSUME NEW u \in Threads, result[u] = o, cache # o
          PROVE  \E x \in Threads : result'[x] = o
      <4>1. \E x \in Threads \ {t} : result[x] = o
        BY <2>g, <3>1, <3>4
      <4> QED BY <1>0, <2>2, <4>1 DEF Set, TypeOK
    <3> QED BY <1>0, <3>1, <3>2, <3>3, <3>4 DEF ObjectsAreReferred
  <2>7. RetainsBalance'
    <3>1. retained \in Int /\ lost \in Int /\ lost' = lost /\ Wrappers' = Wrappers
      BY <1>0, <2>2 DEF TypeOK, Wrappers
    <3> QED BY <1>0, <1>w, <2>1, <3>1 DEF RetainsBalance
  <2>8. /\ pc' \in [Threads -> Outside..Unwinding]
        /\ result' \in [Threads -> Threads \cup {NoObject}]
    BY <1>0, <1>z, <2>2 DEF Set, TypeOK
  <2> QED BY <1>0, <2>1, <2>2, <2>3, <2>4, <2>5, <2>6, <2>7, <2>8 DEF IInv, TypeOK
<1>13. CASE Clear
  <2> DEFINE gone == {cache} \ {result[t] : t \in Threads}
  <2>1. /\ retained' \in Int /\ wrapped' \subseteq Threads
        /\ resource' \in [Threads -> SUBSET Kinds]
        /\ Cardinality(wrapped') \in Nat
        /\ retained' - Cardinality(wrapped') = retained - Cardinality(wrapped)
    BY <1>0, <1>13, ReleaseBalances DEF Clear
  <2>2. /\ cache' = NoObject /\ wrapped' = wrapped \ gone
        /\ resource' = [o \in Threads |-> IF o \in gone THEN {} ELSE resource[o]]
        /\ UNCHANGED <<pc, held, wrapper, depth, result, undefined, lost>>
    BY <1>13 DEF Clear, Release, importVars
  <2>g. /\ gone \subseteq {cache} /\ \A u \in Threads : result[u] \notin gone
        /\ cache \in gone \/ \E u \in Threads : result[u] = cache
    OBVIOUS
  <2> HIDE DEF gone
  <2>3. LocalsFollowCalls'
    BY <1>0, <2>2 DEF LocalsFollowCalls
  <2>4. ObjectsAreWhole'
    BY <1>0, <2>2 DEF ObjectsAreWhole
  <2>5. ReferencesAreLive'
    BY <1>0, <2>g, <2>2, ImportAssumption DEF ReferencesAreLive, TypeOK
  <2>6. ObjectsAreReferred'
    BY <1>0, <2>g, <2>2 DEF ObjectsAreReferred
  <2>7. RetainsBalance'
    <3>1. retained \in Int /\ lost \in Int /\ lost' = lost /\ Wrappers' = Wrappers
      BY <1>0, <2>2 DEF TypeOK, Wrappers
    <3> QED BY <1>0, <1>w, <2>1, <3>1 DEF RetainsBalance
  <2> QED BY <1>0, <2>1, <2>2, <2>3, <2>4, <2>5, <2>6, <2>7 DEF IInv, TypeOK
<1>14. CASE UNCHANGED vars
  BY <1>0, <1>14 DEF vars, IInv, TypeOK, LocalsFollowCalls, ObjectsAreWhole, ReferencesAreLive,
     ObjectsAreReferred, RetainsBalance, Wrappers
<1> QED BY <1>1, <1>2, <1>3, <1>4, <1>5, <1>6, <1>7, <1>8, <1>9, <1>10, <1>11, <1>12,
           <1>13, <1>14 DEF Next

\* Before the first import nothing is held, cached or retained.
LEMMA InvariantInit == Init => IInv
<1> SUFFICES ASSUME Init PROVE IInv
  OBVIOUS
<1> USE CallPositions, ImportAssumption DEF Init
<1>1. TypeOK
  <2>1. wrapper \in [Threads -> BOOLEAN] /\ undefined \in BOOLEAN
    OBVIOUS
  <2>2. /\ pc \in [Threads -> Outside..Unwinding] /\ depth \in [Threads -> 0..1]
        /\ retained \in Int /\ lost \in 0..MaxThrows
    OBVIOUS
  <2>3. /\ held \in [Threads -> SUBSET Kinds] /\ resource \in [Threads -> SUBSET Kinds]
        /\ wrapped \subseteq Threads /\ cache \in Threads \cup {NoObject}
        /\ result \in [Threads -> Threads \cup {NoObject}]
    OBVIOUS
  <2> QED BY <2>1, <2>2, <2>3 DEF TypeOK
<1>2. LocalsFollowCalls
  BY HeldOutside DEF LocalsFollowCalls
<1>3. ObjectsAreWhole /\ ReferencesAreLive /\ ObjectsAreReferred
  BY DEF ObjectsAreWhole, ReferencesAreLive, ObjectsAreReferred
<1>4. RetainsBalance
  <2>1. Wrappers = {} /\ wrapped = {} /\ retained = 0 /\ lost = 0
    BY DEF Wrappers
  <2> QED BY <2>1, FS_EmptySet DEF RetainsBalance
<1> QED BY <1>1, <1>2, <1>3, <1>4 DEF IInv

----------------------------------------------------------------------------
(***************************************************************************)
(* What follows for every number of threads and throws.                    *)
(***************************************************************************)

\* IInv is an inductive invariant of import, sharing and release.
THEOREM ImportInvariant == Spec => []IInv
BY InvariantInit, InvariantStep, PTL DEF Spec

\* Import, cache and release keep their state in its types.
THEOREM ImportTypeCorrect == Spec => []TypeOK
<1>1. IInv => TypeOK
  BY DEF IInv
<1> QED BY <1>1, ImportInvariant, PTL

\* Whichever of the nine calls of import() fails or throws, and whichever
\* allocation of the insertion, a thread that has left holds no driver object, no
\* context, no guard, and no descriptor but the one a throwing retain_primary leaks.
THEOREM FailureLeavesNothing == Spec => []FailedImportHoldsNothing
<1>1. IInv => FailedImportHoldsNothing
  <2>1. HeldBefore(12) = {}
    BY CallPositions DEF HeldBefore
  <2> QED BY <2>1, CallPositions, HeldOutside
          DEF IInv, LocalsFollowCalls, FailedImportHoldsNothing
<1> QED BY <1>1, ImportInvariant, PTL

\* A block that a thread reads through keeps its mapping, its event and its
\* context, although another thread discarded a duplicate or cleared the cache.
THEOREM UsersSeeWholeResource == Spec => []UsedResourceIsWhole
<1>1. IInv => UsedResourceIsWhole
  BY DEF IInv, TypeOK, ObjectsAreWhole, ReferencesAreLive, UsedResourceIsWhole
<1> QED BY <1>1, ImportInvariant, PTL

\* An imported object lives exactly as long as the cache, its builder or a user
\* refers to it, and the retains of the primary context balance up to one lost
\* retain for every throw of retain_primary.
THEOREM ImportsAreReleased == Spec => []NothingOrphaned
<1>1. IInv => NothingOrphaned
  <2> SUFFICES ASSUME IInv PROVE NothingOrphaned
    OBVIOUS
  <2>1. \A o \in Threads :
          resource[o] # {} => cache = o \/ pc[o] = Sharing \/ \E t \in Threads : result[t] = o
    BY DEF IInv, ObjectsAreWhole, ObjectsAreReferred
  <2> QED BY <2>1 DEF IInv, RetainsBalance, NothingOrphaned
<1> QED BY <1>1, ImportInvariant, PTL
=============================================================================
