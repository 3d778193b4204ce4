----------------------------- MODULE VmmImport -----------------------------
(***************************************************************************)
(* One imported block in a subscriber process, call by call: the import    *)
(* with its roll-back, the cache that shares the result, its releases.     *)
(* Threads import the same key; every allocation and driver call may fail. *)
(* Driver calls that clean up are taken to succeed: the code only logs     *)
(* their failures.                                                         *)
(***************************************************************************)
EXTENDS Integers, Sequences, FiniteSets

CONSTANTS
  Threads,     \* threads that map; an object is named after its builder
  NoObject,
  MaxThrows    \* bound on the times retain_primary throws

ASSUME ImportAssumption ==
  IsFiniteSet(Threads) /\ NoObject \notin Threads /\ MaxThrows \in Nat

VARIABLES
  pc,         \* per thread: 0 outside, 1..Len(Calls) the next call of import(),
              \* then inserting, sharing, using,
              \* or unwinding from a failed insertion
  held,       \* per thread: what import()'s locals and result hold
  wrapper,    \* per thread: import()'s CudaDeviceContext
  depth,      \* per thread: contexts its guards have pushed
  resource,   \* per object: what it holds
  wrapped,    \* objects that hold a CudaDeviceContext
  cache,      \* the cached entry of the key
  result,     \* per thread: the entry it uses
  retained,   \* retains of the primary context
  lost,       \* descriptors nobody closes any more
  undefined   \* an object has been released twice

importVars == <<pc, held, wrapper, depth>>
vars == <<pc, held, wrapper, depth, resource, wrapped, cache, result,
          retained, lost, undefined>>

Calls == <<"fd", "context", "guard", "allocation", "granularity", "address",
           "mapping", "access", "event">>
Outside == 0
Inserting == Len(Calls) + 1
Sharing   == Len(Calls) + 2
Using     == Len(Calls) + 3
Unwinding == Len(Calls) + 4

Kinds == {"fd", "allocation", "address", "mapping", "event"}
Whole == Kinds \ {"fd"}

TypeOK ==
  /\ pc \in [Threads -> Outside..Unwinding]
  /\ held \in [Threads -> SUBSET Kinds]
  /\ wrapper \in [Threads -> BOOLEAN]
  /\ depth \in [Threads -> 0..1]
  /\ resource \in [Threads -> SUBSET Kinds] /\ wrapped \subseteq Threads
  /\ cache \in Threads \cup {NoObject}
  /\ result \in [Threads -> Threads \cup {NoObject}]
  /\ retained \in Int /\ lost \in 0..MaxThrows /\ undefined \in BOOLEAN

Init ==
  /\ pc = [t \in Threads |-> Outside]
  /\ held = [t \in Threads |-> {}]
  /\ wrapper = [t \in Threads |-> FALSE]
  /\ depth = [t \in Threads |-> 0]
  /\ resource = [t \in Threads |-> {}] /\ wrapped = {}
  /\ cache = NoObject
  /\ result = [t \in Threads |-> NoObject]
  /\ retained = 0 /\ lost = 0 /\ undefined = FALSE

Set(f, t, v) == [f EXCEPT ![t] = v]
Call(t) == IF pc[t] \in 1..Len(Calls) THEN Calls[pc[t]] ELSE "none"
B(condition) == IF condition THEN 1 ELSE 0

----------------------------------------------------------------------------
(***************************************************************************)
(* VmmFdMemoryImporter::import.                                            *)
(***************************************************************************)

\* find() has missed; the name t is free for the object to come.
ImportBegin(t) ==
  /\ ~undefined /\ pc[t] = Outside /\ cache = NoObject
  /\ resource[t] = {} /\ t \notin wrapped
  /\ pc' = Set(pc, t, 1)
  /\ UNCHANGED <<held, wrapper, depth, resource, wrapped, cache, result, retained, undefined, lost>>

\* Mutant: opening the event activates the context again instead of leaving it.
MutPushed(t, call) ==
  IF call = "guard" THEN 1 ELSE IF call = "event" THEN depth[t] + 1 ELSE depth[t]

\* The guard lives from its call to the return of import().
Pushed(t, call) ==
  IF call = "guard" THEN 1 ELSE IF call = "event" THEN 0 ELSE depth[t]

\* A call succeeds.  The descriptor is closed once the allocation has been
\* imported from it.
ImportCall(t) ==
  LET call == Call(t) IN
  /\ ~undefined /\ call # "none"
  /\ pc' = Set(pc, t, pc[t] + 1)
  /\ held' = Set(held, t, (held[t] \cup ({call} \cap Kinds))
                            \ (IF call = "allocation" THEN {"fd"} ELSE {}))
  /\ wrapper' = Set(wrapper, t, wrapper[t] \/ call = "context")
  /\ retained' = retained + B(call = "context")
  /\ depth' = Set(depth, t, Pushed(t, call))
  /\ UNCHANGED <<resource, wrapped, cache, result, undefined, lost>>

\* Mutant: the roll-back of the event forgets the mapping.
MutRolledBack(call) ==
  CASE call \in {"context", "guard", "allocation"} -> {"fd"}
    [] call \in {"granularity", "address"} -> {"allocation"}
    [] call \in {"mapping", "event"} -> {"address", "allocation"}
    [] call = "access" -> {"mapping", "address", "allocation"}
    [] OTHER -> {}

\* What the branch of a failed call gives back.
RolledBack(call) ==
  CASE call \in {"context", "guard", "allocation"} -> {"fd"}
    [] call \in {"granularity", "address"} -> {"allocation"}
    [] call = "mapping" -> {"address", "allocation"}
    [] call \in {"access", "event"} -> {"mapping", "address", "allocation"}
    [] OTHER -> {}

\* The thread leaves import() and map(); its scope pops the guard and drops
\* the context.
Leave(t) ==
  /\ pc' = Set(pc, t, Outside)
  /\ wrapper' = Set(wrapper, t, FALSE) /\ depth' = Set(depth, t, 0)

ImportCallFails(t) ==
  /\ ~undefined /\ Call(t) # "none"
  /\ held' = Set(held, t, held[t] \ RolledBack(Call(t)))
  /\ Leave(t)
  /\ retained' = retained - B(wrapper[t])
  /\ UNCHANGED <<resource, wrapped, cache, result, undefined, lost>>

\* retain_primary has retained the context and cannot allocate: either the
\* wrapper, and its handler releases the context, or the control block of the
\* shared_ptr, whose constructor deletes the wrapper, which releases it as well
\* as the handler.  No branch of import() closes the descriptor.
RetainThrows(t) ==
  /\ ~undefined /\ Call(t) = "context" /\ lost < MaxThrows
  /\ \E releases \in 1..2 : retained' = (retained + 1) - releases
  /\ lost' = lost + Cardinality(held[t])
  /\ held' = Set(held, t, {})
  /\ Leave(t)
  /\ UNCHANGED <<resource, wrapped, cache, result, undefined>>

----------------------------------------------------------------------------
(***************************************************************************)
(* IpcHandleCache::insert_or_discard_duplicate and clear.                  *)
(***************************************************************************)

\* The object is built from the import.
Construct(t) ==
  /\ ~undefined /\ pc[t] = Inserting
  /\ resource' = Set(resource, t, held[t]) /\ wrapped' = wrapped \cup {t}
  /\ held' = Set(held, t, {}) /\ wrapper' = Set(wrapper, t, FALSE)
  /\ pc' = Set(pc, t, Sharing)
  /\ UNCHANGED <<depth, cache, result, retained, undefined, lost>>

\* No object could be allocated: the handler releases the import.
ConstructThrows(t) ==
  /\ ~undefined /\ pc[t] = Inserting
  /\ held' = Set(held, t, {})
  /\ Leave(t)
  /\ retained' = retained - 1
  /\ UNCHANGED <<resource, wrapped, cache, result, undefined, lost>>

\* No control block could be allocated: the constructor of shared_ptr calls the
\* deleter and throws ...
ControlBlockThrows(t) ==
  /\ ~undefined /\ pc[t] = Inserting
  /\ held' = Set(held, t, {}) /\ wrapper' = Set(wrapper, t, FALSE)
  /\ retained' = retained - 1
  /\ pc' = Set(pc, t, Unwinding)
  /\ UNCHANGED <<depth, resource, wrapped, cache, result, lost, undefined>>

\* ... and the unique_ptr, which has not been released, calls it too.
GuardUnwinds(t) ==
  /\ ~undefined /\ pc[t] = Unwinding
  /\ undefined' = (held[t] = {})
  /\ held' = Set(held, t, {})
  /\ pc' = Set(pc, t, Outside)
  /\ UNCHANGED <<wrapper, depth, resource, wrapped, cache, result, retained, lost>>

\* The last shared_ptr to the objects of gone is dropped.
Release(gone) ==
  /\ resource' = [o \in Threads |-> IF o \in gone THEN {} ELSE resource[o]]
  /\ wrapped' = wrapped \ gone
  /\ retained' = retained - Cardinality(gone \cap wrapped)

\* Mutant: a duplicate is kept by nobody and never released.
MutShare(t) ==
  /\ ~undefined /\ pc[t] = Sharing
  /\ cache' = IF cache = NoObject THEN t ELSE cache
  /\ result' = Set(result, t, cache')
  /\ pc' = Set(pc, t, Using)
  /\ UNCHANGED <<held, wrapper, depth, resource, wrapped, retained, undefined, lost>>

\* The first object of the key stays; a duplicate is released.
Share(t) ==
  /\ ~undefined /\ pc[t] = Sharing
  /\ cache' = IF cache = NoObject THEN t ELSE cache
  /\ result' = Set(result, t, cache')
  /\ Release({t} \ {cache'})
  /\ pc' = Set(pc, t, Using)
  /\ UNCHANGED <<held, wrapper, depth, undefined, lost>>

\* The cache's node cannot be allocated.
ShareThrows(t) ==
  /\ ~undefined /\ pc[t] = Sharing
  /\ Release({t})
  /\ pc' = Set(pc, t, Outside)
  /\ UNCHANGED <<held, wrapper, depth, cache, result, undefined, lost>>

\* A later map() finds the entry.
Find(t) ==
  /\ ~undefined /\ pc[t] = Outside /\ cache # NoObject
  /\ result' = Set(result, t, cache)
  /\ pc' = Set(pc, t, Using)
  /\ UNCHANGED <<held, wrapper, depth, resource, wrapped, cache, retained, undefined, lost>>

\* The reads of the thread are over and drop the entry.
Drop(t) ==
  /\ ~undefined /\ pc[t] = Using
  /\ result' = Set(result, t, NoObject)
  /\ Release({result[t]} \ ({cache} \cup {result[u] : u \in Threads \ {t}}))
  /\ pc' = Set(pc, t, Outside)
  /\ UNCHANGED <<held, wrapper, depth, cache, undefined, lost>>

\* Mutant: clear() releases what it finds.
MutClear ==
  /\ ~undefined /\ cache # NoObject
  /\ Release({cache})
  /\ cache' = NoObject
  /\ UNCHANGED <<importVars, result, undefined, lost>>

Clear ==
  /\ ~undefined /\ cache # NoObject
  /\ Release({cache} \ {result[t] : t \in Threads})
  /\ cache' = NoObject
  /\ UNCHANGED <<importVars, result, undefined, lost>>

Next == \/ \E t \in Threads :
             \/ ImportBegin(t) \/ ImportCall(t) \/ ImportCallFails(t) \/ RetainThrows(t)
             \/ Construct(t) \/ ConstructThrows(t) \/ ControlBlockThrows(t) \/ GuardUnwinds(t)
             \/ Share(t) \/ ShareThrows(t) \/ Find(t) \/ Drop(t)
        \/ Clear

Spec == Init /\ [][Next]_vars

----------------------------------------------------------------------------
(***************************************************************************)
(* Properties.                                                             *)
(***************************************************************************)

\* A thread outside an import has left nothing behind, whichever call of
\* import() or allocation of the insertion failed: no driver object, no
\* context, no guard on its context stack, and no descriptor but the one that
\* lost counts: a throwing retain_primary leaves that open.
FailedImportHoldsNothing ==
  \A t \in Threads :
    pc[t] \in {Outside, Using} => held[t] = {} /\ ~wrapper[t] /\ depth[t] = 0

\* What a thread reads through is mapped, with its event and its context,
\* after a duplicate was discarded and after the cache was cleared.
UsedResourceIsWhole ==
  \A t \in Threads :
    pc[t] = Using => resource[result[t]] = Whole /\ result[t] \in wrapped

\* The import() calls that own a CudaDeviceContext.
Wrappers == {t \in Threads : wrapper[t]}

\* Whatever was imported is released with its last user: an object nobody refers
\* to is gone, and the primary context has one retain per live CudaDeviceContext,
\* through roll-back, sharing and release.  Only retain_primary takes one too many
\* away, when it throws with the wrapper already built, and only once per throw.
NothingOrphaned ==
  /\ \A o \in Threads :
       resource[o] # {} => cache = o \/ pc[o] = Sharing \/ \E t \in Threads : result[t] = o
  /\ Cardinality(wrapped) + Cardinality(Wrappers) - lost <= retained
  /\ retained <= Cardinality(wrapped) + Cardinality(Wrappers)
=============================================================================
