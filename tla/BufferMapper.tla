---------------------------- MODULE BufferMapper ----------------------------
(***************************************************************************)
(* BufferMapper in a subscriber process: threads turn descriptors into     *)
(* publications through the BufferMetadataCache, BufferRef::acquire, the   *)
(* process-wide IpcHandleCache and the importer, while the publisher       *)
(* crashes, is started again under the same pid, and other publishers      *)
(* clean up after it.                                                      *)
(*                                                                         *)
(* One locator (publisher_pid, block_id) is enough: the metadata cache is  *)
(* keyed by it.  Its objects, one per incarnation of the publisher, follow *)
(* each other under the same name.  Socket path and event handle belong to *)
(* one incarnation, so that is what keys the IpcHandleCache.               *)
(*                                                                         *)
(* The reservation of the block and BufferRef::acquire take one step per   *)
(* atomic access, as in BufferRef; the timestamp with the grace period and *)
(* the counter's limit are there only.                                     *)
(***************************************************************************)
EXTENDS Naturals, FiniteSets

CONSTANTS
  Threads,         \* subscriber threads that call map()
  MaxIncarnation,  \* model bound: publisher processes with this pid
  MaxPublications, \* model bound: publications of any incarnation
  Publications     \* model bound: publications of each incarnation

ASSUME MapperAssumption ==
  /\ IsFiniteSet(Threads)
  /\ MaxIncarnation \in Nat \ {0} /\ MaxPublications \in Nat \ {0}
  /\ Publications \in [1..MaxIncarnation -> 0..MaxPublications]

Incarnations == 1..MaxIncarnation
None         == 0                     \* no object, no resource
Imports      == 1..(MaxIncarnation + Cardinality(Threads))

VARIABLES
  linked,    \* incarnation whose object has the name, or None
  latest,    \* incarnation started last
  serving,   \* the latest incarnation is alive, its sockets answer
  uid,       \* per incarnation: uid in its object
  refs,      \* per incarnation: refcount in its object
  claim,     \* per incarnation: the publisher's unit in that refcount
  msgs,      \* descriptors sent so far
  doomed,    \* incarnation a cleaner has found dead and will unlink the name of, or None
  cache,     \* mappings_ of the BufferMetadataCache for this locator
  ipc,       \* per incarnation: cache_ of the IpcHandleCache
  open,      \* imported resources not yet released
  stage, msg, mapping, resource,  \* per thread: control and locals of map_descriptor
  valid,     \* history: the descriptor has been current since the call began
  outcome    \* history: how the last call ended

pubVars    == <<linked, latest, serving, uid, claim, msgs, doomed>>
cacheVars  == <<cache, ipc, open>>
threadVars == <<stage, msg, mapping, resource>>
vars == <<linked, latest, serving, uid, refs, claim, msgs, doomed, cache, ipc, open,
          stage, msg, mapping, resource, valid, outcome>>

\* Mutant: every object starts with the same uid.
MutInitialUid(i) == 1

\* initial_uid(): random, so that the uids of two incarnations never meet.
InitialUid(i) == i * (MaxPublications + 1)

Descriptors == [inc : Incarnations, uid : Nat]
\* "left": the publisher died with its unit counted, nobody gives it back.
Claims == {"none", "claimed", "reserved", "left"}
Stages == {"idle", "attach", "check", "insert", "acquire", "increment", "recheck",
           "undo", "find", "import", "share", "held"}
\* The thread owns a reference of the object it has mapped.
Owning  == {"find", "import", "share", "held"}
\* The thread has a unit in the refcount of that object.
Counted == {"recheck", "undo"} \cup Owning

Init ==
  /\ linked = 1 /\ latest = 1 /\ serving = TRUE /\ doomed = None
  /\ uid = [i \in Incarnations |-> InitialUid(i)]
  /\ refs = [i \in Incarnations |-> 0]
  /\ claim = [i \in Incarnations |-> "none"]
  /\ msgs = {}
  /\ cache = None /\ ipc = [i \in Incarnations |-> None] /\ open = {}
  /\ stage = [t \in Threads |-> "idle"]
  /\ msg = [t \in Threads |-> [inc |-> 1, uid |-> 0]]
  /\ mapping = [t \in Threads |-> None]
  /\ resource = [t \in Threads |-> None]
  /\ valid = [t \in Threads |-> FALSE]
  /\ outcome = [t \in Threads |-> "none"]

----------------------------------------------------------------------------
(***************************************************************************)
(* The publisher and its peers.                                            *)
(***************************************************************************)

\* The descriptors that were current stay so unless the name or the uid moves.
Revalidate(name, uids) ==
  valid' = [t \in Threads |->
              valid[t] /\ name = msg[t].inc /\ uids[msg[t].inc] = msg[t].uid]

\* reserve_for_publish wins the block: the refcount goes from 0 to 1 ...
Claim ==
  /\ serving /\ claim[latest] = "none" /\ refs[latest] = 0
  /\ uid[latest] < InitialUid(latest) + Publications[latest]
  /\ claim' = [claim EXCEPT ![latest] = "claimed"]
  /\ refs' = [refs EXCEPT ![latest] = 1]
  /\ UNCHANGED <<linked, latest, serving, uid, msgs, doomed, cacheVars, threadVars,
                 valid, outcome>>

\* ... and then the block gets its next uid.
StoreUid ==
  /\ claim[latest] = "claimed" /\ serving
  /\ claim' = [claim EXCEPT ![latest] = "reserved"]
  /\ uid' = [uid EXCEPT ![latest] = @ + 1]
  /\ Revalidate(linked, uid')
  /\ UNCHANGED <<linked, latest, serving, refs, msgs, doomed, cacheVars, threadVars, outcome>>

\* The publisher's unit is given back.
GiveBack ==
  /\ claim[latest] = "reserved"
  /\ claim' = [claim EXCEPT ![latest] = "none"]
  /\ refs' = [refs EXCEPT ![latest] = @ - 1]

\* The written block is committed and its descriptor sent.
Commit ==
  /\ serving /\ GiveBack
  /\ msgs' = msgs \cup {[inc |-> latest, uid |-> uid[latest]]}
  /\ UNCHANGED <<linked, latest, serving, uid, doomed, cacheVars, threadVars, valid, outcome>>

\* The PublishBlock is destroyed without commit, which may be after reset().
Cancel ==
  /\ GiveBack
  /\ UNCHANGED <<linked, latest, serving, uid, msgs, doomed, cacheVars, threadVars,
                 valid, outcome>>

\* reset() or an orderly exit: sockets closed, name unlinked; both wait for the
\* pool's mutex, under which a block is claimed and gets its uid.
Withdraw ==
  /\ serving /\ claim[latest] # "claimed"
  /\ serving' = FALSE
  /\ linked' = None
  /\ Revalidate(None, uid)
  /\ UNCHANGED <<latest, uid, refs, claim, msgs, doomed, cacheVars, threadVars, outcome>>

\* The process dies; its object keeps its name and what is counted in it.
Crash ==
  /\ serving /\ serving' = FALSE
  /\ claim' = [claim EXCEPT ![latest] = IF @ = "none" THEN "none" ELSE "left"]
  /\ UNCHANGED <<linked, latest, uid, refs, msgs, doomed, cacheVars, threadVars,
                 valid, outcome>>

\* A process that has got the same pid creates its block: what is left under
\* the name is unlinked first.
Restart ==
  /\ ~serving /\ latest < MaxIncarnation
  /\ latest' = latest + 1 /\ linked' = latest + 1 /\ serving' = TRUE
  /\ Revalidate(latest + 1, uid)
  /\ UNCHANGED <<uid, refs, claim, msgs, doomed, cacheVars, threadVars, outcome>>

\* Mutant: the names of processes that exist are unlinked as well.
MutCleanupCheck ==
  /\ linked # None /\ doomed = None
  /\ doomed' = latest
  /\ UNCHANGED <<linked, latest, serving, uid, refs, claim, msgs, cacheVars, threadVars,
                 valid, outcome>>

\* cleanup_orphaned_metadata_objects in another publisher: kill() reports
\* that no such process exists ...
CleanupCheck ==
  /\ ~serving /\ linked # None /\ doomed = None
  /\ doomed' = latest
  /\ UNCHANGED <<linked, latest, serving, uid, refs, claim, msgs, cacheVars, threadVars,
                 valid, outcome>>

\* ... and then the name is unlinked, whatever it stands for by now.
CleanupUnlink ==
  /\ doomed # None /\ doomed' = None
  /\ linked' = None
  /\ Revalidate(None, uid)
  /\ UNCHANGED <<latest, serving, uid, refs, claim, msgs, cacheVars, threadVars, outcome>>

----------------------------------------------------------------------------
(***************************************************************************)
(* BufferMetadataCache::get_or_attach: two critical sections, the attach   *)
(* between them.                                                           *)
(***************************************************************************)

Goto(t, to) == stage' = [stage EXCEPT ![t] = to]

\* map_descriptor returns nullptr.
Return(t, how) ==
  /\ Goto(t, "idle")
  /\ mapping' = [mapping EXCEPT ![t] = None]
  /\ resource' = [resource EXCEPT ![t] = None]
  /\ outcome' = [outcome EXCEPT ![t] = how]

\* Mutant: a cached object with another uid condemns the descriptor.
MutLookupMapping(t, d) ==
  /\ stage[t] = "idle"
  /\ msg' = [msg EXCEPT ![t] = d]
  /\ valid' = [valid EXCEPT ![t] = linked = d.inc /\ uid[d.inc] = d.uid]
  /\ IF cache # None /\ uid[cache] # d.uid
     THEN Return(t, "rejected")
     ELSE /\ Goto(t, IF cache = None THEN "attach" ELSE "acquire")
          /\ mapping' = [mapping EXCEPT ![t] = cache]
          /\ outcome' = [outcome EXCEPT ![t] = "none"]
          /\ UNCHANGED resource
  /\ UNCHANGED <<pubVars, refs, cache, ipc, open>>

\* A descriptor arrives, however late; a cached mapping whose uid is not the
\* descriptor's is dropped.
LookupMapping(t, d) ==
  /\ stage[t] = "idle"
  /\ msg' = [msg EXCEPT ![t] = d]
  /\ valid' = [valid EXCEPT ![t] = linked = d.inc /\ uid[d.inc] = d.uid]
  /\ outcome' = [outcome EXCEPT ![t] = "none"]
  /\ IF cache # None /\ uid[cache] = d.uid
     THEN /\ mapping' = [mapping EXCEPT ![t] = cache]
          /\ Goto(t, "acquire") /\ UNCHANGED cache
     ELSE cache' = None /\ Goto(t, "attach") /\ UNCHANGED mapping
  /\ UNCHANGED <<pubVars, refs, ipc, open, resource>>

\* Mutant: the result of the attach is not tested.
MutAttach(t) ==
  /\ stage[t] = "attach"
  /\ mapping' = [mapping EXCEPT ![t] = linked]
  /\ Goto(t, "check")
  /\ UNCHANGED <<pubVars, refs, cacheVars, msg, resource, valid, outcome>>

\* shm_open and mmap of what has the name now.
Attach(t) ==
  /\ stage[t] = "attach"
  /\ IF linked = None
     THEN Return(t, "rejected")
     ELSE /\ mapping' = [mapping EXCEPT ![t] = linked]
          /\ Goto(t, "check") /\ UNCHANGED <<resource, outcome>>
  /\ UNCHANGED <<pubVars, refs, cacheVars, msg, valid>>

\* A system call of the attach fails.
AttachFails(t) ==
  /\ stage[t] = "attach"
  /\ Return(t, "error")
  /\ UNCHANGED <<pubVars, refs, cacheVars, msg, valid>>

CheckCandidate(t) ==
  /\ stage[t] = "check"
  /\ IF uid[mapping[t]] = msg[t].uid
     THEN Goto(t, "insert") /\ UNCHANGED <<mapping, resource, outcome>>
     ELSE Return(t, "rejected")
  /\ UNCHANGED <<pubVars, refs, cacheVars, msg, valid>>

\* The candidate is cached unless another thread has cached a mapping with the
\* descriptor's uid meanwhile.
InsertMapping(t) ==
  /\ stage[t] = "insert"
  /\ IF cache # None /\ uid[cache] = msg[t].uid
     THEN mapping' = [mapping EXCEPT ![t] = cache] /\ UNCHANGED cache
     ELSE cache' = mapping[t] /\ UNCHANGED mapping
  /\ Goto(t, "acquire")
  /\ UNCHANGED <<pubVars, refs, ipc, open, msg, resource, valid, outcome>>

----------------------------------------------------------------------------
(***************************************************************************)
(* The rest of map_descriptor: reference, resource, publication.           *)
(***************************************************************************)

\* BufferRef::acquire: the uid is compared, the counter raised ...
AcquireRef(t) ==
  /\ stage[t] = "acquire"
  /\ IF uid[mapping[t]] = msg[t].uid
     THEN Goto(t, "increment") /\ UNCHANGED <<mapping, resource, outcome>>
     ELSE Return(t, "rejected")
  /\ UNCHANGED <<pubVars, refs, cacheVars, msg, valid>>

IncrementRef(t) ==
  /\ stage[t] = "increment"
  /\ refs' = [refs EXCEPT ![mapping[t]] = @ + 1]
  /\ Goto(t, "recheck")
  /\ UNCHANGED <<pubVars, cacheVars, msg, mapping, resource, valid, outcome>>

\* Mutant: the second comparison is left out.
MutRecheckUid(t) ==
  /\ stage[t] = "recheck"
  /\ Goto(t, "find")
  /\ UNCHANGED <<pubVars, refs, cacheVars, msg, mapping, resource, valid, outcome>>

\* ... and the uid compared again; if it has moved, the unit goes back.
RecheckUid(t) ==
  /\ stage[t] = "recheck"
  /\ Goto(t, IF uid[mapping[t]] = msg[t].uid THEN "find" ELSE "undo")
  /\ UNCHANGED <<pubVars, refs, cacheVars, msg, mapping, resource, valid, outcome>>

\* Mutant: the unit of a reference that came too late stays counted.
MutUndoRef(t) ==
  /\ stage[t] = "undo"
  /\ Return(t, "rejected")
  /\ UNCHANGED <<pubVars, refs, cacheVars, msg, valid>>

UndoRef(t) ==
  /\ stage[t] = "undo"
  /\ refs' = [refs EXCEPT ![mapping[t]] = @ - 1]
  /\ Return(t, "rejected")
  /\ UNCHANGED <<pubVars, cacheVars, msg, valid>>

FindResource(t) ==
  /\ stage[t] = "find"
  /\ resource' = [resource EXCEPT ![t] = ipc[msg[t].inc]]
  /\ Goto(t, IF ipc[msg[t].inc] = None THEN "import" ELSE "held")
  /\ UNCHANGED <<pubVars, refs, cacheVars, msg, mapping, valid, outcome>>

NewImport == CHOOSE r \in Imports \ open : \A s \in Imports \ open : r <= s

\* The publisher's socket hands out the memory, its event is opened.
Import(t) ==
  /\ stage[t] = "import" /\ serving /\ latest = msg[t].inc
  /\ open' = open \cup {NewImport}
  /\ resource' = [resource EXCEPT ![t] = NewImport]
  /\ Goto(t, "share")
  /\ UNCHANGED <<pubVars, refs, cache, ipc, msg, mapping, valid, outcome>>

\* Mutant: the early return forgets the reference.
MutImportFails(t) ==
  /\ stage[t] = "import"
  /\ Return(t, "error")
  /\ UNCHANGED <<pubVars, refs, cacheVars, msg, valid>>

\* The publisher is gone or the driver refuses: what was imported so far is
\* undone, the reference goes back.
ImportFails(t) ==
  /\ stage[t] = "import"
  /\ refs' = [refs EXCEPT ![mapping[t]] = @ - 1]
  /\ Return(t, "error")
  /\ UNCHANGED <<pubVars, cacheVars, msg, valid>>

\* Mutant: the last import wins, the first is forgotten.
MutShareResource(t) ==
  /\ stage[t] = "share"
  /\ ipc' = [ipc EXCEPT ![msg[t].inc] = resource[t]]
  /\ Goto(t, "held")
  /\ UNCHANGED <<pubVars, refs, cache, open, msg, mapping, resource, valid, outcome>>

\* insert_or_discard_duplicate: the first import of a block is kept, a later
\* one is released and the first used in its place.
ShareResource(t) ==
  /\ stage[t] = "share"
  /\ IF ipc[msg[t].inc] = None
     THEN /\ ipc' = [ipc EXCEPT ![msg[t].inc] = resource[t]]
          /\ UNCHANGED <<open, resource>>
     ELSE /\ open' = open \ {resource[t]}
          /\ resource' = [resource EXCEPT ![t] = ipc[msg[t].inc]]
          /\ UNCHANGED ipc
  /\ Goto(t, "held")
  /\ UNCHANGED <<pubVars, refs, cache, msg, mapping, valid, outcome>>

\* The publication ends (ReadHandle says when); the import stays cached.
ReleasePublication(t) ==
  /\ stage[t] = "held"
  /\ refs' = [refs EXCEPT ![mapping[t]] = @ - 1]
  /\ Return(t, "mapped")
  /\ UNCHANGED <<pubVars, cacheVars, msg, valid>>

GetOrAttach(t) ==
  \/ \E d \in msgs : LookupMapping(t, d)
  \/ Attach(t) \/ AttachFails(t) \/ CheckCandidate(t) \/ InsertMapping(t)

MapDescriptor(t) ==
  \/ AcquireRef(t) \/ IncrementRef(t) \/ RecheckUid(t) \/ UndoRef(t)
  \/ FindResource(t) \/ Import(t) \/ ImportFails(t)
  \/ ShareResource(t) \/ ReleasePublication(t)

Next ==
  \/ Claim \/ StoreUid \/ Commit \/ Cancel
  \/ Withdraw \/ Crash \/ Restart \/ CleanupCheck \/ CleanupUnlink
  \/ \E t \in Threads : GetOrAttach(t) \/ MapDescriptor(t)

Spec == Init /\ [][Next]_vars

----------------------------------------------------------------------------
(***************************************************************************)
(* Properties.                                                             *)
(***************************************************************************)

\* No null mapping is followed: from the candidate's check on there is one.
TypeOK ==
  /\ linked \in Incarnations \cup {None} /\ latest \in Incarnations
  /\ serving \in BOOLEAN /\ doomed \in Incarnations \cup {None}
  /\ uid \in [Incarnations -> Nat] /\ refs \in [Incarnations -> Nat]
  /\ claim \in [Incarnations -> Claims]
  /\ msgs \subseteq Descriptors
  /\ cache \in Incarnations \cup {None}
  /\ ipc \in [Incarnations -> Imports \cup {None}] /\ open \subseteq Imports
  /\ stage \in [Threads -> Stages] /\ msg \in [Threads -> Descriptors]
  /\ mapping \in [Threads -> Incarnations \cup {None}]
  /\ resource \in [Threads -> Imports \cup {None}]
  /\ valid \in [Threads -> BOOLEAN]
  /\ outcome \in [Threads -> {"none", "rejected", "error", "mapped"}]
  /\ \A t \in Threads : stage[t] \notin {"idle", "attach"} => mapping[t] # None

\* A thread that owns a reference owns it in the object of the publisher
\* process that sent the descriptor, never in its successor's under the same
\* pid and block id; and the block has moved on by one publication at most: an
\* increment and recheck between the claim of the block and the store of its
\* uid are accepted although the next image is on its way.
ReadsWhatWasSent ==
  \A t \in Threads : stage[t] \in Owning =>
    /\ mapping[t] = msg[t].inc
    /\ uid[msg[t].inc] \in {msg[t].uid, msg[t].uid + 1}

\* The threads that have a unit in the refcount of incarnation i.
OwnersOf(i) == {t \in Threads : stage[t] \in Counted /\ mapping[t] = i}

\* The refcount of an object is the publisher's unit, while it has reserved the
\* block or died with it, and the number of calls and publications past the
\* increment: no failure on the way leaks a reference or gives one back twice.
ReferencesBalance ==
  \A i \in Incarnations :
    refs[i] = Cardinality(OwnersOf(i)) + (IF claim[i] = "none" THEN 0 ELSE 1)

\* Threads that map the same block share one import; another one exists only
\* in the hands of a thread that is about to offer it to the cache.
OneImportPerBlock ==
  /\ \A t \in Threads : stage[t] = "held" => resource[t] = ipc[msg[t].inc]
  /\ open = ({ipc[i] : i \in Incarnations} \ {None})
              \cup {resource[t] : t \in {s \in Threads : stage[s] = "share"}}

\* A descriptor that was current during the whole call is not rejected because
\* of what the cache remembers: a restarted publisher is picked up by its first
\* descriptor.
CurrentDescriptorAccepted ==
  \A t \in Threads : outcome[t] = "rejected" => ~valid[t]

\* A publisher that serves loses the name of its object to a clean-up only if
\* the clean-up has found a predecessor with the same pid dead before this publisher
\* was started: nothing takes the name of a process that existed at the check.
OnlyEarlierCheckUnlinks ==
  [][serving /\ serving' /\ linked = latest =>
       linked' = latest \/ doomed \in 1..(latest - 1)]_vars
=============================================================================
