--------------------------- MODULE SessionManager ---------------------------
(***************************************************************************)
(* The SessionManager of src/src/session.rs for one thread: the managers'   *)
(* caches, their mutexes, and the compare-and-swap of the session store     *)
(* (session/store/memory.rs, session/store/sqlite.rs) that they share.      *)
(*                                                                          *)
(* An operation is one task that edits the thread through one of the        *)
(* manager's entry points; it stands for the edit as well, and the content  *)
(* of a thread is the set of the edits it contains.  `mine' is the          *)
(* operation's own copy of the thread, where its entry point makes one.     *)
(***************************************************************************)
EXTENDS Naturals, FiniteSets

CONSTANTS
  Managers,   \* the SessionManagers on the store
  Ops,        \* the operations, each run once
  NoOp,       \* no operation
  ManagerOf,  \* [Ops -> Managers]
  KindOf,     \* [Ops -> Kinds]
  Backend,    \* "memory" or "sqlite"
  Faults      \* the failures the environment may inject

\* turn: the worker's lock, persist_locked_thread_context and
\* commit_finalized_turn_locked.  mutate: mutate_thread_context.  command:
\* load_thread_context and store_thread_context.  finalize: load_thread_context
\* and commit_finalized_turn.  edit: lock_thread_context, then
\* persist_thread_context once the guard is released.  mark:
\* mark_external_message_processed.
Kinds == {"turn", "mutate", "command", "finalize", "edit", "mark"}
Locking == {"turn", "mutate"}
Copying == {"command", "finalize"}

\* store: a call of the store returns Err.  crash: a manager's process restarts.
FaultKinds == {"store", "crash"}

ASSUME SessionAssumption ==
  /\ ManagerOf \in [Ops -> Managers]
  /\ KindOf \in [Ops -> Kinds]
  /\ NoOp \notin Ops
  /\ Backend \in {"memory", "sqlite"}
  /\ Faults \subseteq FaultKinds

VARIABLES
  pc,      \* where every operation stands
  mine,    \* its copy of the thread
  store,   \* the stored thread: revision, edits and the manager that wrote it
  records, \* the store's deduplication records, named by their operation
  cached,  \* the managers that have the thread in their cache
  cache,   \* the cached thread of every manager
  owner    \* the operation that holds the cached thread's mutex

vars == <<pc, mine, store, records, cached, cache, owner>>

Stations == {"new", "fetch", "insert", "ready", "clone", "save", "adopt",
             "finalSave", "finalAdopt", "sync", "done", "failed"}

\* Thread::new has revision 0, as a thread that is not in the store.
Fresh == [rev |-> 0, edits |-> {}]
\* Slip: the stored row itself is handed out.
StoredRow == store
Stored == [rev |-> store.rev, edits |-> store.edits]

Init ==
  /\ pc = [o \in Ops |-> "new"]
  /\ mine = [o \in Ops |-> Fresh]
  /\ store \in [rev : {0}, edits : {{}}, by : Managers]
  /\ records = {}
  /\ cached = {} /\ cache = [m \in Managers |-> Fresh]
  /\ owner = [m \in Managers |-> NoOp]

GoTo(o, station) == pc' = [pc EXCEPT ![o] = station]
\* The caller has its result, and the operation's copy is dropped.
End(o, result) == GoTo(o, result) /\ mine' = [mine EXCEPT ![o] = Fresh]
Free(o) == owner[ManagerOf[o]] = NoOp
SetCache(o, copy) == cache' = [cache EXCEPT ![ManagerOf[o]] = copy]
With(o, copy) == [copy EXCEPT !.edits = @ \cup {o}]
-----------------------------------------------------------------------------
(* ensure_thread_handle, which load_or_create_thread runs before anything   *)
(* else is done with the thread                                             *)

FindHandle(o) ==
  /\ pc[o] = "new"
  /\ GoTo(o, IF ManagerOf[o] \in cached THEN "ready" ELSE "fetch")
  /\ UNCHANGED <<mine, store, records, cached, cache, owner>>

\* fetch_thread_context_from_store_only, or Thread::new.
Fetch(o) ==
  /\ pc[o] = "fetch"
  /\ mine' = [mine EXCEPT ![o] = Stored]
  /\ GoTo(o, "insert")
  /\ UNCHANGED <<store, records, cached, cache, owner>>

\* Slip: the fetched thread replaces the cached one.
InsertAlways(o) ==
  /\ pc[o] = "insert"
  /\ cached' = cached \cup {ManagerOf[o]} /\ SetCache(o, mine[o])
  /\ End(o, "ready")
  /\ UNCHANGED <<store, records, owner>>

\* cache_thread_handle_if_absent: the first handle stays.
InsertIfAbsent(o) ==
  /\ pc[o] = "insert"
  /\ IF ManagerOf[o] \in cached
     THEN UNCHANGED <<cached, cache>>
     ELSE cached' = cached \cup {ManagerOf[o]} /\ SetCache(o, mine[o])
  /\ End(o, "ready")
  /\ UNCHANGED <<store, records, owner>>
-----------------------------------------------------------------------------
(* Operations under the mutex *)

\* The edit is made in the cached thread.
LockAndEdit(o) ==
  /\ pc[o] = "ready" /\ KindOf[o] \in Locking /\ Free(o)
  /\ owner' = [owner EXCEPT ![ManagerOf[o]] = o]
  /\ SetCache(o, With(o, cache[ManagerOf[o]]))
  /\ GoTo(o, "save")
  /\ UNCHANGED <<mine, store, records, cached>>

\* Slip: the new revision is not copied back.
AdoptNothing(o) ==
  /\ pc[o] \in {"adopt", "finalAdopt"}
  /\ IF pc[o] = "adopt" /\ KindOf[o] = "turn"
     THEN End(o, "finalSave") /\ UNCHANGED owner
     ELSE End(o, "done") /\ owner' = [owner EXCEPT ![ManagerOf[o]] = NoOp]
  /\ UNCHANGED <<store, records, cached, cache>>

\* persist_locked_thread_context or commit_finalized_turn_locked has its new
\* revision: *thread_context = persisted.  A turn goes on to its final save.
Adopt(o) ==
  /\ pc[o] \in {"adopt", "finalAdopt"}
  /\ SetCache(o, [cache[ManagerOf[o]] EXCEPT !.rev = mine[o].rev])
  /\ IF pc[o] = "adopt" /\ KindOf[o] = "turn"
     THEN End(o, "finalSave") /\ UNCHANGED owner
     ELSE End(o, "done") /\ owner' = [owner EXCEPT ![ManagerOf[o]] = NoOp]
  /\ UNCHANGED <<store, records, cached>>
-----------------------------------------------------------------------------
(* Operations on a copy *)

\* The copy is taken under the mutex, and edited outside of it.
TakeCopy(o) ==
  /\ pc[o] = "ready" /\ KindOf[o] \in Copying /\ Free(o)
  /\ mine' = [mine EXCEPT ![o] = With(o, cache[ManagerOf[o]])]
  /\ GoTo(o, "save")
  /\ UNCHANGED <<store, records, cached, cache, owner>>

\* The guard is released before anything is saved ...
EditAndRelease(o) ==
  /\ pc[o] = "ready" /\ KindOf[o] = "edit" /\ Free(o)
  /\ SetCache(o, With(o, cache[ManagerOf[o]]))
  /\ GoTo(o, "clone")
  /\ UNCHANGED <<mine, store, records, cached, owner>>

\* ... and persist_thread_context clones what it finds in the cache.
CloneCached(o) ==
  /\ pc[o] = "clone" /\ Free(o)
  /\ mine' = [mine EXCEPT ![o] = cache[ManagerOf[o]]]
  /\ GoTo(o, "save")
  /\ UNCHANGED <<store, records, cached, cache, owner>>

\* sync_thread_context_to_cache overwrites the cached thread.
Sync(o) ==
  /\ pc[o] = "sync" /\ Free(o)
  /\ SetCache(o, mine[o])
  /\ End(o, "done")
  /\ UNCHANGED <<store, records, cached, owner>>
-----------------------------------------------------------------------------
(* The store *)

\* The thread an operation saves.
Snapshot(o) == IF KindOf[o] \in Locking THEN cache[ManagerOf[o]] ELSE mine[o]

\* A finalized turn brings its deduplication record into the same transaction.
RecordOf(o) ==
  IF pc[o] = "finalSave" \/ KindOf[o] = "finalize" THEN {o} ELSE {}

AfterSave(o) ==
  CASE KindOf[o] \notin Locking -> "sync"
    [] KindOf[o] \in Locking /\ pc[o] = "save" -> "adopt"
    [] OTHER -> "finalAdopt"

\* Slip: the revision is not compared.
SaveThreadBlindly(o) ==
  /\ pc[o] \in {"save", "finalSave"}
  /\ store' = [rev |-> store.rev + 1, edits |-> Snapshot(o).edits,
               by |-> ManagerOf[o]]
  /\ records' = records \cup RecordOf(o)
  /\ mine' = [mine EXCEPT ![o] = [rev |-> store.rev + 1, edits |-> Snapshot(o).edits]]
  /\ GoTo(o, AfterSave(o))
  /\ UNCHANGED <<cached, cache, owner>>

\* save_thread_context: nothing is written unless the snapshot has the stored
\* revision.
SaveThread(o) ==
  /\ pc[o] \in {"save", "finalSave"}
  /\ Snapshot(o).rev = store.rev
  /\ store' = [rev |-> store.rev + 1, edits |-> Snapshot(o).edits,
               by |-> ManagerOf[o]]
  /\ records' = records \cup RecordOf(o)
  /\ mine' = [mine EXCEPT ![o] = [rev |-> store.rev + 1, edits |-> Snapshot(o).edits]]
  /\ GoTo(o, AfterSave(o))
  /\ UNCHANGED <<cached, cache, owner>>

\* Slips: the failure is swallowed, or the record is stored by itself.
SaveFailsSilently(o) ==
  /\ pc[o] \in {"save", "finalSave"}
  /\ Snapshot(o).rev # store.rev \/ "store" \in Faults
  /\ End(o, "done")
  /\ owner' = IF KindOf[o] \in Locking
              THEN [owner EXCEPT ![ManagerOf[o]] = NoOp] ELSE owner
  /\ UNCHANGED <<store, records, cached, cache>>

SaveFailsRecorded(o) ==
  /\ pc[o] \in {"save", "finalSave"}
  /\ Snapshot(o).rev # store.rev \/ "store" \in Faults
  /\ records' = records \cup RecordOf(o)
  /\ End(o, "failed")
  /\ owner' = IF KindOf[o] \in Locking
              THEN [owner EXCEPT ![ManagerOf[o]] = NoOp] ELSE owner
  /\ UNCHANGED <<store, cached, cache>>

\* A stale revision or an error of the backend: the caller gets the Err, and
\* the guard is dropped on a thread that keeps its edit.
SaveFails(o) ==
  /\ pc[o] \in {"save", "finalSave"}
  /\ Snapshot(o).rev # store.rev \/ "store" \in Faults
  /\ End(o, "failed")
  /\ owner' = IF KindOf[o] \in Locking
              THEN [owner EXCEPT ![ManagerOf[o]] = NoOp] ELSE owner
  /\ UNCHANGED <<store, records, cached, cache>>

FetchFails(o) ==
  /\ pc[o] = "fetch" /\ "store" \in Faults
  /\ GoTo(o, "failed")
  /\ UNCHANGED <<mine, store, records, cached, cache, owner>>

\* save_external_message_record: SQLite refers to the row of the thread, that
\* a thread which was never saved has not got; or the write fails.
Mark(o) ==
  /\ pc[o] = "ready" /\ KindOf[o] = "mark"
  /\ \/ /\ Backend = "sqlite" => store.rev > 0
        /\ GoTo(o, "done") /\ records' = records \cup {o}
     \/ /\ "store" \in Faults \/ (Backend = "sqlite" /\ store.rev = 0)
        /\ GoTo(o, "failed") /\ UNCHANGED records
  /\ UNCHANGED <<mine, store, cached, cache, owner>>

\* The process of a manager restarts: its cache and its operations are gone.
Crash(m) ==
  /\ "crash" \in Faults
  /\ pc' = [o \in Ops |->
              IF ManagerOf[o] = m /\ pc[o] \notin {"new", "done"}
              THEN "failed" ELSE pc[o]]
  /\ mine' = [o \in Ops |-> IF ManagerOf[o] = m THEN Fresh ELSE mine[o]]
  /\ cached' = cached \ {m} /\ cache' = [cache EXCEPT ![m] = Fresh]
  /\ owner' = [owner EXCEPT ![m] = NoOp]
  /\ UNCHANGED <<store, records>>
-----------------------------------------------------------------------------
Step(o) ==
  \/ FindHandle(o) \/ Fetch(o) \/ InsertIfAbsent(o) \/ FetchFails(o)
  \/ LockAndEdit(o) \/ Adopt(o)
  \/ TakeCopy(o) \/ EditAndRelease(o) \/ CloneCached(o) \/ Sync(o)
  \/ SaveThread(o) \/ SaveFails(o) \/ Mark(o)

Next == (\E o \in Ops : Step(o)) \/ (\E m \in Managers : Crash(m))

Spec == Init /\ [][Next]_vars
-----------------------------------------------------------------------------
(* Properties *)

\* Every variable has its type.
CopyType == [rev : Nat, edits : SUBSET Ops]
TypeOK ==
  /\ pc \in [Ops -> Stations]
  /\ mine \in [Ops -> CopyType]
  /\ store \in [rev : Nat, edits : SUBSET Ops, by : Managers]
  /\ records \subseteq Ops
  /\ cached \subseteq Managers
  /\ cache \in [Managers -> CopyType]
  /\ owner \in [Managers -> Ops \cup {NoOp}]

\* A write of the store keeps every edit that is stored, whichever manager and
\* entry point it comes from: no stale snapshot ever overwrites a newer state.
NoLostUpdate == [][store.edits \subseteq store'.edits]_vars

\* An operation that returned Ok has its edit in the store.  (An edit whose
\* guard was released before persist_thread_context may have been overwritten
\* in the cache by then.)
DoneIsStored ==
  \A o \in Ops :
    pc[o] = "done" /\ KindOf[o] \notin {"edit", "mark"} => o \in store.edits

\* A deduplication record is never stored without the turn it stands for, nor,
\* in SQLite, without its thread.
RecordHasTurn ==
  \A o \in records :
    /\ KindOf[o] # "mark" => o \in store.edits
    /\ Backend = "sqlite" => store.rev > 0

\* After a write of its own a manager's cache is at the stored revision as soon
\* as none of its operations is between its save and the cache: a cached thread
\* is only ever left stale by a write of another manager.
OwnWriteCached ==
  \A m \in cached :
    store.by = m
    /\ (\A o \in Ops : ManagerOf[o] = m => pc[o] \notin {"adopt", "finalAdopt", "sync"})
    => cache[m].rev = store.rev

\* The revision of a cached thread never goes back, as long as its manager's
\* process lives.
CacheRevisionGrows ==
  [][\A m \in cached \cap cached' : cache'[m].rev >= cache[m].rev]_vars
=============================================================================
