---------------------------- MODULE SessionProofs ----------------------------
(***************************************************************************)
(* The safety of SessionManager for any number of managers, operations of   *)
(* any kind, both backends and every combination of faults.                 *)
(***************************************************************************)
EXTENDS SessionManager, TLAPS

\* An operation between its save and the cache, and one with a copy of its own.
Publishes(o) == pc[o] \in {"adopt", "finalAdopt", "sync"}
Detached(o) == pc[o] = "save" /\ KindOf[o] \notin Locking
UnderMutex(o) ==
  KindOf[o] \in Locking /\ pc[o] \in {"save", "adopt", "finalSave", "finalAdopt"}

\* An operation goes on only with a cached thread, and stands where its kind
\* can bring it.
Placed ==
  \A o \in Ops :
    /\ pc[o] \in {"ready", "clone", "save", "adopt", "finalSave", "finalAdopt", "sync"}
         => ManagerOf[o] \in cached
    /\ pc[o] \in {"adopt", "finalSave", "finalAdopt"} => KindOf[o] \in Locking
    /\ pc[o] = "sync" => KindOf[o] \notin Locking
    /\ pc[o] = "clone" => KindOf[o] = "edit"

\* The mutex is held from the edit to the last revision copied back.
Owned == \A o \in Ops : UnderMutex(o) => owner[ManagerOf[o]] = o

\* No copy is ahead of the store, and one with the stored revision has every
\* stored edit: what the compare-and-swap relies on.
Covers(c) == c.rev <= store.rev /\ (c.rev = store.rev => store.edits \subseteq c.edits)
CopiesCover ==
  /\ \A m \in cached : Covers(cache[m])
  /\ \A o \in Ops :
       pc[o] = "insert" \/ Publishes(o) \/ Detached(o) => Covers(mine[o])

\* A manager has at most one operation between its save and the cache; its
\* revision is news to the cache and to every other copy of the manager.
Publication ==
  \A o \in Ops :
    /\ pc[o] \in {"adopt", "finalAdopt"} => mine[o].edits = cache[ManagerOf[o]].edits
    /\ Publishes(o) => cache[ManagerOf[o]].rev < mine[o].rev
    /\ Detached(o) => mine[o].rev <= cache[ManagerOf[o]].rev
    /\ \A p \in Ops :
         Publishes(o) /\ Publishes(p) /\ ManagerOf[o] = ManagerOf[p] => o = p

\* The last writer has its revision in its cache, or on the way to it; and if it
\* restarted, what it fetched meanwhile is what it wrote.
LastWriter ==
  /\ store.by \in cached =>
       \/ cache[store.by].rev = store.rev
       \/ \E o \in Ops : /\ Publishes(o) /\ ManagerOf[o] = store.by
                         /\ mine[o].rev = store.rev
  /\ store.by \notin cached =>
       \A o \in Ops : ManagerOf[o] = store.by /\ pc[o] = "insert" =>
                        mine[o].rev = store.rev

\* The edit of an operation is in what it saves, and in the store from its save.
EditsKept ==
  \A o \in Ops :
    /\ pc[o] = "save" /\ KindOf[o] # "edit" => o \in Snapshot(o).edits
    /\ /\ pc[o] \in {"adopt", "finalSave", "finalAdopt", "sync", "done"}
       /\ KindOf[o] \notin {"edit", "mark"}
       => o \in store.edits

SessionInv ==
  /\ TypeOK /\ Placed /\ Owned /\ CopiesCover /\ Publication /\ LastWriter
  /\ EditsKept /\ RecordHasTurn
-----------------------------------------------------------------------------
\* The managers start with empty caches, and agree with an empty store.
LEMMA SessionInvInit == Init => SessionInv
<1> SUFFICES ASSUME Init PROVE SessionInv
  OBVIOUS
<1> USE DEF Init, Fresh
<1>1. TypeOK
  BY SessionAssumption DEF TypeOK, Stations, CopyType, SessionAssumption
<1>2. Placed /\ Owned /\ CopiesCover /\ Publication
  BY DEF Placed, Owned, UnderMutex, CopiesCover, Publication, Publishes,
       Detached
<1>3. LastWriter /\ EditsKept /\ RecordHasTurn
  BY DEF LastWriter, EditsKept, RecordHasTurn
<1> QED
  BY <1>1, <1>2, <1>3 DEF SessionInv
-----------------------------------------------------------------------------
\* What is compared with the store covers it.
LEMMA SnapshotCovers ==
  ASSUME SessionInv, NEW o \in Ops, pc[o] \in {"save", "finalSave"}
  PROVE  Snapshot(o) \in CopyType /\ Covers(Snapshot(o))
<1>1. ManagerOf[o] \in cached /\ (pc[o] = "finalSave" => KindOf[o] \in Locking)
  BY DEF SessionInv, Placed
<1> QED
  BY <1>1, SessionAssumption DEF SessionAssumption, SessionInv, TypeOK,
       CopiesCover, Snapshot, Detached

\* The revision on its way to the cache of the last writer is the stored one.
LEMMA PublishedIsLast ==
  ASSUME SessionInv, NEW o \in Ops, Publishes(o), store.by = ManagerOf[o]
  PROVE  mine[o].rev = store.rev
<1>1. /\ store.by \in cached
      /\ cache[store.by].rev < mine[o].rev /\ mine[o].rev <= store.rev
  BY DEF SessionInv, Placed, Publishes, Publication, CopiesCover, Covers
<1>2. cache[store.by].rev \in Nat /\ mine[o].rev \in Nat /\ store.rev \in Nat
  BY DEF SessionInv, TypeOK, CopyType
<1>3. cache[store.by].rev # store.rev
  BY <1>1, <1>2
<1>4. PICK p \in Ops : Publishes(p) /\ ManagerOf[p] = store.by /\ mine[p].rev = store.rev
  BY <1>1, <1>3 DEF SessionInv, LastWriter
<1> QED
  BY <1>4 DEF SessionInv, Publication

\* find_thread_context_handle only chooses the way, and the cache it chose by
\* does not lose its thread but in a crash, which ends the operation.
LEMMA FindHandleKeeps ==
  ASSUME SessionInv, NEW o \in Ops, FindHandle(o)
  PROVE  SessionInv'
<1> USE SessionAssumption DEF SessionAssumption, SessionInv, FindHandle, GoTo
<1>1. TypeOK'
  BY DEF TypeOK, Stations, CopyType
<1>2. Placed'
  BY DEF Placed
<1>3. Owned'
  BY DEF Owned, UnderMutex, Placed, Locking
<1>4. CopiesCover'
  BY DEF CopiesCover, Covers, Publishes, Detached, Placed, Publication
<1>5. Publication'
  BY DEF Publication, Publishes, Detached, Placed, Owned, UnderMutex,
       CopiesCover, Covers
<1>6. LastWriter'
  BY DEF LastWriter, Publishes, Placed, Publication
<1>7. EditsKept'
  BY DEF EditsKept, Snapshot, Placed, Owned, UnderMutex, CopiesCover, Covers,
       Detached
<1>8. RecordHasTurn'
  BY DEF RecordHasTurn, EditsKept, Placed
<1> QED
  BY <1>1, <1>2, <1>3, <1>4, <1>5, <1>6, <1>7, <1>8

\* What is fetched is the store, so it covers itself; nobody of this manager has
\* written since if the manager is the last writer.
LEMMA FetchKeeps ==
  ASSUME SessionInv, NEW o \in Ops, Fetch(o)
  PROVE  SessionInv'
<1> USE SessionAssumption DEF SessionAssumption, SessionInv, Fetch, GoTo, Stored
<1>1. TypeOK'
  BY DEF TypeOK, Stations, CopyType
<1>2. Placed'
  BY DEF Placed
<1>3. Owned'
  BY DEF Owned, UnderMutex, Placed, Locking
<1>4. CopiesCover'
  BY DEF TypeOK, CopiesCover, Covers, Publishes, Detached, Placed, Publication
<1>5. Publication'
  BY DEF Publication, Publishes, Detached, Placed, Owned, UnderMutex,
       CopiesCover, Covers
<1>6. LastWriter'
  BY DEF TypeOK, LastWriter, Publishes, Placed, Publication
<1>7. EditsKept'
  BY DEF EditsKept, Snapshot, Placed, Owned, UnderMutex, CopiesCover, Covers,
       Detached
<1>8. RecordHasTurn'
  BY DEF RecordHasTurn, EditsKept, Placed
<1> QED
  BY <1>1, <1>2, <1>3, <1>4, <1>5, <1>6, <1>7, <1>8

\* A cache that is filled meanwhile stays; an empty one takes the fetched copy,
\* which for the last writer is what it wrote.
LEMMA InsertIfAbsentKeeps ==
  ASSUME SessionInv, NEW o \in Ops, InsertIfAbsent(o)
  PROVE  SessionInv'
<1> USE SessionAssumption DEF SessionAssumption, SessionInv, InsertIfAbsent,
     End, GoTo, SetCache, Fresh
<1>1. TypeOK'
  <2>1. mine[o] \in CopyType
    BY DEF TypeOK
  <2>2. cached' \subseteq Managers /\ cache' \in [Managers -> CopyType]
    <3>1. CASE ManagerOf[o] \in cached
      BY <3>1 DEF TypeOK
    <3>2. CASE ManagerOf[o] \notin cached
      <4>1. cached' = cached \cup {ManagerOf[o]}
        BY <3>2
      <4>2. cache' = [cache EXCEPT ![ManagerOf[o]] = mine[o]]
        BY <3>2
      <4> HIDE DEF InsertIfAbsent
      <4> QED
        BY <2>1, <4>1, <4>2 DEF TypeOK
    <3> QED
      BY <3>1, <3>2
  <2>3. pc' \in [Ops -> Stations] /\ mine' \in [Ops -> CopyType]
    BY DEF TypeOK, Stations, CopyType
  <2> QED
    BY <2>2, <2>3 DEF TypeOK
<1>2. Placed'
  BY DEF Placed
<1>3. Owned'
  BY DEF Owned, UnderMutex, Placed, Locking
<1>4. CopiesCover'
  <2>1. Covers(mine[o])
    BY DEF CopiesCover
  <2>2. \A p \in Ops : pc'[p] = "insert" \/ Publishes(p)' \/ Detached(p)' => Covers(mine[p])'
    BY DEF TypeOK, CopiesCover, Covers, Publishes, Detached
  <2>3. \A m \in cached' : Covers(cache[m])'
    <3>1. CASE ManagerOf[o] \in cached
      BY <3>1 DEF CopiesCover, Covers
    <3>2. CASE ManagerOf[o] \notin cached
      <4>1. cached' = cached \cup {ManagerOf[o]} /\ store' = store
        BY <3>2
      <4>2. cache' = [cache EXCEPT ![ManagerOf[o]] = mine[o]]
        BY <3>2
      <4> HIDE DEF InsertIfAbsent
      <4> QED
        BY <2>1, <4>1, <4>2 DEF TypeOK, CopiesCover, Covers
    <3> QED
      BY <3>1, <3>2
  <2> QED
    BY <2>2, <2>3 DEF CopiesCover
<1>5. Publication'
  BY DEF TypeOK, Publication, Publishes, Detached, Placed, Owned, UnderMutex,
       CopiesCover, Covers
<1>6. LastWriter'
  <2>1. CASE ManagerOf[o] \in cached
    BY <2>1 DEF LastWriter, Publishes
  <2>2. CASE ManagerOf[o] \notin cached /\ store.by = ManagerOf[o]
    BY <2>2 DEF TypeOK, LastWriter
  <2>3. CASE ManagerOf[o] \notin cached /\ store.by # ManagerOf[o]
    BY <2>3 DEF TypeOK, LastWriter, Publishes
  <2> QED
    BY <2>1, <2>2, <2>3
<1>7. EditsKept'
  BY DEF TypeOK, EditsKept, Snapshot, Placed, Owned, UnderMutex, CopiesCover,
       Covers, Detached
<1>8. RecordHasTurn'
  BY DEF RecordHasTurn, EditsKept, Placed
<1> QED
  BY <1>1, <1>2, <1>3, <1>4, <1>5, <1>6, <1>7, <1>8

\* A failed load leaves only the operation's own station behind.
LEMMA FetchFailsKeeps ==
  ASSUME SessionInv, NEW o \in Ops, FetchFails(o)
  PROVE  SessionInv'
<1> USE SessionAssumption DEF SessionAssumption, SessionInv, FetchFails, GoTo
<1>1. TypeOK'
  BY DEF TypeOK, Stations, CopyType
<1>2. Placed'
  BY DEF Placed
<1>3. Owned'
  BY DEF Owned, UnderMutex, Placed, Locking
<1>4. CopiesCover'
  BY DEF CopiesCover, Covers, Publishes, Detached, Placed, Publication
<1>5. Publication'
  BY DEF Publication, Publishes, Detached, Placed, Owned, UnderMutex,
       CopiesCover, Covers
<1>6. LastWriter'
  BY DEF LastWriter, Publishes, Placed, Publication
<1>7. EditsKept'
  BY DEF EditsKept, Snapshot, Placed, Owned, UnderMutex, CopiesCover, Covers,
       Detached
<1>8. RecordHasTurn'
  BY DEF RecordHasTurn, EditsKept, Placed
<1> QED
  BY <1>1, <1>2, <1>3, <1>4, <1>5, <1>6, <1>7, <1>8

\* An edit of the cached thread adds to its edits and leaves its revision.
LEMMA LockAndEditKeeps ==
  ASSUME SessionInv, NEW o \in Ops, LockAndEdit(o)
  PROVE  SessionInv'
<1> USE SessionAssumption DEF SessionAssumption, SessionInv, LockAndEdit,
     GoTo, SetCache, With, Free, Locking
<1>1. TypeOK'
  <2>1. cache[ManagerOf[o]] \in CopyType
    BY DEF TypeOK
  <2>2. With(o, cache[ManagerOf[o]]) \in CopyType
    BY <2>1 DEF CopyType
  <2>3. cache' = [cache EXCEPT ![ManagerOf[o]] = With(o, cache[ManagerOf[o]])]
    OBVIOUS
  <2>4. cache' \in [Managers -> CopyType]
    <3> HIDE DEF LockAndEdit, With
    <3> QED
      BY <2>2, <2>3 DEF TypeOK
  <2>5. pc' \in [Ops -> Stations] /\ owner' \in [Managers -> Ops \cup {NoOp}]
    BY DEF TypeOK, Stations
  <2> QED
    BY <2>4, <2>5 DEF TypeOK
<1>2. Placed'
  BY DEF Placed
<1>3. Owned'
  BY DEF TypeOK, Owned, UnderMutex, Placed
<1>4. CopiesCover'
  BY DEF CopiesCover, Covers, Publishes, Detached, Placed, Publication
<1>5. Publication'
  BY DEF Publication, Publishes, Detached, Placed, Owned, UnderMutex,
       CopiesCover, Covers
<1>6. LastWriter'
  BY DEF LastWriter, Publishes, Placed, Publication
<1>7. EditsKept'
  BY DEF TypeOK, EditsKept, Snapshot, Placed, Owned, UnderMutex, CopiesCover,
       Covers, Detached
<1>8. RecordHasTurn'
  BY DEF RecordHasTurn, EditsKept, Placed
<1> QED
  BY <1>1, <1>2, <1>3, <1>4, <1>5, <1>6, <1>7, <1>8

\* The revision of the save goes to the cache that the mutex has kept as it was
\* saved.
LEMMA AdoptKeeps ==
  ASSUME SessionInv, NEW o \in Ops, Adopt(o)
  PROVE  SessionInv'
<1> USE SessionAssumption DEF SessionAssumption, SessionInv, Adopt, End, GoTo,
     SetCache, Fresh
<1>1. TypeOK'
  <2>1. cache' \in [Managers -> CopyType]
    <3>1. [rev |-> mine[o].rev, edits |-> cache[ManagerOf[o]].edits] \in CopyType
      BY DEF TypeOK, CopyType
    <3>2. cache[ManagerOf[o]] \in CopyType
      BY DEF TypeOK
    <3>3. [cache[ManagerOf[o]] EXCEPT !.rev = mine[o].rev] \in CopyType
      BY <3>1, <3>2 DEF CopyType
    <3>4. cache' =
            [cache EXCEPT ![ManagerOf[o]] =
               [cache[ManagerOf[o]] EXCEPT !.rev = mine[o].rev]]
      OBVIOUS
    <3> HIDE DEF Adopt
    <3> QED
      BY <3>3, <3>4 DEF TypeOK
  <2>2. mine' \in [Ops -> CopyType]
    <3>1. Fresh \in CopyType
      BY DEF CopyType
    <3>2. mine' = [mine EXCEPT ![o] = Fresh]
      OBVIOUS
    <3> HIDE DEF Adopt, Fresh
    <3> QED
      BY <3>1, <3>2 DEF TypeOK
  <2>3. pc' \in [Ops -> Stations]
    BY DEF TypeOK, Stations
  <2>4. owner' \in [Managers -> Ops \cup {NoOp}]
    BY DEF TypeOK
  <2> QED
    BY <2>1, <2>2, <2>3, <2>4 DEF TypeOK
<1>2. Placed'
  BY DEF TypeOK, Placed
<1>3. Owned'
  BY DEF TypeOK, Owned, UnderMutex, Placed, Locking
<1>4. CopiesCover'
  <2> DEFINE m == ManagerOf[o]
  <2>1. Covers(mine[o]) /\ mine[o].edits = cache[m].edits
    BY DEF CopiesCover, Publishes, Publication
  <2>2. cache'[m].rev = mine[o].rev /\ cache'[m].edits = mine[o].edits
    BY <2>1 DEF TypeOK
  <2>3. \A n \in cached' : Covers(cache[n])'
    BY <2>1, <2>2 DEF CopiesCover, Covers
  <2>4. \A p \in Ops : pc'[p] = "insert" \/ Publishes(p)' \/ Detached(p)' => Covers(mine[p])'
    BY DEF TypeOK, CopiesCover, Covers, Publishes, Detached
  <2> QED
    BY <2>3, <2>4 DEF CopiesCover
<1>5. Publication'
  BY DEF TypeOK, CopyType, Publication, Publishes, Detached, Placed, Owned,
       UnderMutex, CopiesCover, Covers
<1>6. LastWriter'
  <2>1. CASE store.by = ManagerOf[o]
    <3>1. mine[o].rev = store.rev
      BY <2>1, PublishedIsLast DEF Publishes
    <3>2. cache'[store.by].rev = store.rev
      BY <2>1, <3>1 DEF TypeOK
    <3>3. store.by \in cached'
      BY <2>1 DEF Placed
    <3> QED
      BY <3>2, <3>3 DEF LastWriter
  <2>2. CASE store.by # ManagerOf[o]
    <3>1. \A p \in Ops : ManagerOf[p] = store.by =>
            (Publishes(p)' <=> Publishes(p)) /\ mine'[p] = mine[p] /\ pc'[p] = pc[p]
      BY <2>2 DEF TypeOK, Publishes
    <3>2. cache'[store.by] = cache[store.by]
      BY <2>2
    <3> QED
      BY <3>1, <3>2 DEF LastWriter
  <2> QED
    BY <2>1, <2>2
<1>7. EditsKept'
  BY DEF TypeOK, EditsKept, Snapshot, Placed, Owned, UnderMutex, CopiesCover,
       Covers, Detached
<1>8. RecordHasTurn'
  BY DEF RecordHasTurn, EditsKept, Placed
<1> QED
  BY <1>1, <1>2, <1>3, <1>4, <1>5, <1>6, <1>7, <1>8

\* A copy of the cached thread covers the store as the cached thread does.
LEMMA TakeCopyKeeps ==
  ASSUME SessionInv, NEW o \in Ops, TakeCopy(o)
  PROVE  SessionInv'
<1> USE SessionAssumption DEF SessionAssumption, SessionInv, TakeCopy, GoTo,
     With, Free, Copying
<1>1. TypeOK'
  <2>1. cache[ManagerOf[o]] \in CopyType
    BY DEF TypeOK
  <2>2. With(o, cache[ManagerOf[o]]) \in CopyType
    BY <2>1 DEF CopyType
  <2> QED
    BY <2>2 DEF TypeOK, Stations
<1>2. Placed'
  BY DEF Placed
<1>3. Owned'
  BY DEF Owned, UnderMutex, Placed, Locking
<1>4. CopiesCover'
  BY DEF TypeOK, CopiesCover, Covers, Publishes, Detached, Placed, Publication
<1>5. Publication'
  BY DEF TypeOK, CopyType, Publication, Publishes, Detached, Placed, Owned,
       UnderMutex, CopiesCover, Covers
<1>6. LastWriter'
  BY DEF LastWriter, Publishes, Placed, Publication
<1>7. EditsKept'
  BY DEF TypeOK, Locking, EditsKept, Snapshot, Placed, Owned, UnderMutex,
       CopiesCover, Covers, Detached
<1>8. RecordHasTurn'
  BY DEF RecordHasTurn, EditsKept, Placed
<1> QED
  BY <1>1, <1>2, <1>3, <1>4, <1>5, <1>6, <1>7, <1>8

\* The edit that lock_thread_context's caller leaves in the cache.
LEMMA EditAndReleaseKeeps ==
  ASSUME SessionInv, NEW o \in Ops, EditAndRelease(o)
  PROVE  SessionInv'
<1> USE SessionAssumption DEF SessionAssumption, SessionInv, EditAndRelease,
     GoTo, SetCache, With, Free, Locking
<1>1. TypeOK'
  <2>1. cache[ManagerOf[o]] \in CopyType
    BY DEF TypeOK
  <2>2. With(o, cache[ManagerOf[o]]) \in CopyType
    BY <2>1 DEF CopyType
  <2>3. cache' = [cache EXCEPT ![ManagerOf[o]] = With(o, cache[ManagerOf[o]])]
    OBVIOUS
  <2>4. cache' \in [Managers -> CopyType]
    <3> HIDE DEF EditAndRelease, With
    <3> QED
      BY <2>2, <2>3 DEF TypeOK
  <2>5. pc' \in [Ops -> Stations] /\ owner' \in [Managers -> Ops \cup {NoOp}]
    BY DEF TypeOK, Stations
  <2> QED
    BY <2>4, <2>5 DEF TypeOK
<1>2. Placed'
  BY DEF Placed
<1>3. Owned'
  BY DEF Owned, UnderMutex, Placed
<1>4. CopiesCover'
  BY DEF CopiesCover, Covers, Publishes, Detached, Placed, Publication
<1>5. Publication'
  BY DEF Publication, Publishes, Detached, Placed, Owned, UnderMutex,
       CopiesCover, Covers
<1>6. LastWriter'
  BY DEF LastWriter, Publishes, Placed, Publication
<1>7. EditsKept'
  BY DEF EditsKept, Snapshot, Placed, Owned, UnderMutex, CopiesCover, Covers,
       Detached
<1>8. RecordHasTurn'
  BY DEF RecordHasTurn, EditsKept, Placed
<1> QED
  BY <1>1, <1>2, <1>3, <1>4, <1>5, <1>6, <1>7, <1>8

\* persist_thread_context's copy of the cached thread.
LEMMA CloneCachedKeeps ==
  ASSUME SessionInv, NEW o \in Ops, CloneCached(o)
  PROVE  SessionInv'
<1> USE SessionAssumption DEF SessionAssumption, SessionInv, CloneCached,
     GoTo, Free
<1>1. TypeOK'
  BY DEF TypeOK, Stations, CopyType
<1>2. Placed'
  BY DEF Placed
<1>3. Owned'
  BY DEF Owned, UnderMutex, Placed, Locking
<1>4. CopiesCover'
  BY DEF TypeOK, CopiesCover, Covers, Publishes, Detached, Placed, Publication
<1>5. Publication'
  BY DEF TypeOK, CopyType, Publication, Publishes, Detached, Placed, Owned,
       UnderMutex, CopiesCover, Covers
<1>6. LastWriter'
  BY DEF LastWriter, Publishes, Placed, Publication
<1>7. EditsKept'
  BY DEF Locking, EditsKept, Snapshot, Placed, Owned, UnderMutex, CopiesCover,
       Covers, Detached
<1>8. RecordHasTurn'
  BY DEF RecordHasTurn, EditsKept, Placed
<1> QED
  BY <1>1, <1>2, <1>3, <1>4, <1>5, <1>6, <1>7, <1>8

\* A revision that was saved is newer than the one it replaces in the cache.
LEMMA SyncKeeps ==
  ASSUME SessionInv, NEW o \in Ops, Sync(o)
  PROVE  SessionInv'
<1> USE SessionAssumption DEF SessionAssumption, SessionInv, Sync, End, GoTo,
     SetCache, Fresh, Free
<1>1. TypeOK'
  BY DEF TypeOK, Stations, CopyType
<1>2. Placed'
  BY DEF Placed
<1>3. Owned'
  BY DEF Owned, UnderMutex, Placed, Locking
<1>4. CopiesCover'
  BY DEF TypeOK, CopiesCover, Covers, Publishes, Detached, Placed, Publication
<1>5. Publication'
  BY DEF TypeOK, CopyType, Publication, Publishes, Detached, Placed, Owned,
       UnderMutex, CopiesCover, Covers
<1>6. LastWriter'
  <2>1. CASE store.by = ManagerOf[o]
    <3>1. mine[o].rev = store.rev
      BY <2>1, PublishedIsLast DEF Publishes
    <3>2. cache'[store.by].rev = store.rev
      BY <2>1, <3>1 DEF TypeOK
    <3>3. store.by \in cached'
      BY <2>1 DEF Placed
    <3> QED
      BY <3>2, <3>3 DEF LastWriter
  <2>2. CASE store.by # ManagerOf[o]
    <3>1. \A p \in Ops : ManagerOf[p] = store.by =>
            (Publishes(p)' <=> Publishes(p)) /\ mine'[p] = mine[p] /\ pc'[p] = pc[p]
      BY <2>2 DEF Publishes
    <3>2. cache'[store.by] = cache[store.by]
      BY <2>2
    <3> QED
      BY <3>1, <3>2 DEF LastWriter
  <2> QED
    BY <2>1, <2>2
<1>7. EditsKept'
  BY DEF EditsKept, Snapshot, Placed, Owned, UnderMutex, CopiesCover, Covers,
       Detached
<1>8. RecordHasTurn'
  BY DEF RecordHasTurn, EditsKept, Placed
<1> QED
  BY <1>1, <1>2, <1>3, <1>4, <1>5, <1>6, <1>7, <1>8

\* The revision that passes the comparison is the stored one, so no other
\* operation of the manager is between its save and the cache.
LEMMA SaveThreadKeeps ==
  ASSUME SessionInv, NEW o \in Ops, SaveThread(o)
  PROVE  SessionInv'
<1> USE SessionAssumption DEF SessionAssumption, SessionInv, SaveThread, GoTo,
     AfterSave, RecordOf, Snapshot
<1>1. TypeOK'
  <2>1. Snapshot(o) \in CopyType
    BY DEF TypeOK
  <2>2. AfterSave(o) \in Stations
    BY DEF Stations
  <2>3. store.rev + 1 \in Nat /\ Snapshot(o).edits \in SUBSET Ops /\ RecordOf(o) \subseteq Ops
    BY <2>1 DEF CopyType
  <2> QED
    BY <2>2, <2>3 DEF TypeOK, CopyType
<1>2. Placed'
  <2>1. /\ AfterSave(o) \in {"adopt", "finalAdopt", "sync"}
        /\ AfterSave(o) = "sync" <=> KindOf[o] \notin Locking
    OBVIOUS
  <2>2. pc' = [pc EXCEPT ![o] = AfterSave(o)] /\ cached' = cached
    OBVIOUS
  <2>3. ManagerOf[o] \in cached
    BY DEF Placed
  <2> HIDE DEF AfterSave
  <2> QED
    BY <2>1, <2>2, <2>3 DEF Placed
<1>3. Owned'
  BY DEF Owned, UnderMutex, Placed, Locking
<1>4. CopiesCover'
  BY DEF TypeOK, CopyType, CopiesCover, Covers, Publishes, Detached, Placed,
       Publication
<1>5. Publication'
  <2> DEFINE m == ManagerOf[o]
  <2>1. m \in cached /\ Covers(cache[m]) /\ cache[m].rev \in Nat /\ store.rev \in Nat
    BY DEF Placed, CopiesCover, TypeOK, CopyType
  <2>2. Snapshot(o).rev <= cache[m].rev
    BY DEF Placed, Publication, Detached, TypeOK, CopyType
  <2>3. \A p \in Ops : ManagerOf[p] = m => ~Publishes(p)
    <3> SUFFICES ASSUME NEW p \in Ops, ManagerOf[p] = m, Publishes(p) PROVE FALSE
      OBVIOUS
    <3>1. cache[m].rev < mine[p].rev /\ mine[p].rev <= store.rev
      BY DEF Publication, CopiesCover, Covers
    <3>2. mine[p].rev \in Nat
      BY DEF TypeOK, CopyType
    <3> QED
      BY <2>1, <2>2, <3>1, <3>2
  <2>4. /\ mine'[o].rev = store.rev + 1 /\ mine'[o].edits = Snapshot(o).edits
        /\ cache' = cache
        /\ \A p \in Ops : p # o => pc'[p] = pc[p] /\ mine'[p] = mine[p]
    BY DEF TypeOK
  <2>5. pc'[o] # "save" /\ (pc'[o] \in {"adopt", "finalAdopt"} => KindOf[o] \in Locking)
    <3>1. pc'[o] = AfterSave(o)
      BY DEF TypeOK
    <3> QED
      BY <3>1
  <2>6. pc'[o] \in {"adopt", "finalAdopt"} => mine'[o].edits = cache'[m].edits
    BY <2>4, <2>5
  <2>7. cache'[m].rev < mine'[o].rev
    BY <2>1, <2>4 DEF Covers
  <2> HIDE DEF SaveThread, Snapshot, AfterSave
  <2> QED
    BY <2>3, <2>4, <2>5, <2>6, <2>7 DEF Publication, Publishes, Detached
<1>6. LastWriter'
  BY DEF TypeOK, LastWriter, Publishes, Placed, Publication
<1>7. EditsKept'
  BY DEF EditsKept, Placed, Owned, UnderMutex, CopiesCover, Covers, Detached
<1>8. RecordHasTurn'
  <2>1. store.edits \subseteq store'.edits /\ store'.rev > 0
    BY SnapshotCovers DEF Covers, TypeOK
  <2>2. RecordOf(o) # {} => o \in store'.edits
    BY <2>1 DEF EditsKept, Placed, Locking
  <2>3. records' = records \cup RecordOf(o) /\ RecordOf(o) \subseteq {o}
    OBVIOUS
  <2> HIDE DEF RecordOf, SaveThread
  <2> QED
    BY <2>1, <2>2, <2>3 DEF RecordHasTurn
<1> QED
  BY <1>1, <1>2, <1>3, <1>4, <1>5, <1>6, <1>7, <1>8

\* A save that fails leaves the store, and gives the mutex back.
LEMMA SaveFailsKeeps ==
  ASSUME SessionInv, NEW o \in Ops, SaveFails(o)
  PROVE  SessionInv'
<1> USE SessionAssumption DEF SessionAssumption, SessionInv, SaveFails, End,
     GoTo, Fresh
<1>1. TypeOK'
  BY DEF TypeOK, Stations, CopyType
<1>2. Placed'
  BY DEF Placed
<1>3. Owned'
  BY DEF TypeOK, Owned, UnderMutex, Placed, Locking
<1>4. CopiesCover'
  BY DEF TypeOK, CopiesCover, Covers, Publishes, Detached, Placed, Publication
<1>5. Publication'
  BY DEF TypeOK, Publication, Publishes, Detached, Placed, Owned, UnderMutex,
       CopiesCover, Covers
<1>6. LastWriter'
  BY DEF LastWriter, Publishes, Placed, Publication
<1>7. EditsKept'
  BY DEF TypeOK, EditsKept, Snapshot, Placed, Owned, UnderMutex, CopiesCover,
       Covers, Detached
<1>8. RecordHasTurn'
  BY DEF RecordHasTurn, EditsKept, Placed
<1> QED
  BY <1>1, <1>2, <1>3, <1>4, <1>5, <1>6, <1>7, <1>8

\* A record of a command alone needs a stored thread in SQLite.
LEMMA MarkKeeps ==
  ASSUME SessionInv, NEW o \in Ops, Mark(o)
  PROVE  SessionInv'
<1> USE SessionAssumption DEF SessionAssumption, SessionInv, Mark, GoTo
<1>1. TypeOK'
  BY DEF TypeOK, Stations, CopyType
<1>2. Placed'
  BY DEF TypeOK, Placed
<1>3. Owned'
  BY DEF TypeOK, Owned, UnderMutex, Placed, Locking
<1>4. CopiesCover'
  BY DEF TypeOK, CopiesCover, Covers, Publishes, Detached, Placed, Publication
<1>5. Publication'
  BY DEF TypeOK, Publication, Publishes, Detached, Placed, Owned, UnderMutex,
       CopiesCover, Covers
<1>6. LastWriter'
  BY DEF TypeOK, LastWriter, Publishes, Placed, Publication
<1>7. EditsKept'
  BY DEF TypeOK, EditsKept, Snapshot, Placed, Owned, UnderMutex, CopiesCover,
       Covers, Detached
<1>8. RecordHasTurn'
  BY DEF TypeOK, RecordHasTurn, EditsKept, Placed
<1> QED
  BY <1>1, <1>2, <1>3, <1>4, <1>5, <1>6, <1>7, <1>8

\* A restart empties the cache and ends the manager's operations.
LEMMA CrashKeeps ==
  ASSUME SessionInv, NEW m \in Managers, Crash(m)
  PROVE  SessionInv'
<1> USE SessionAssumption DEF SessionAssumption, SessionInv, Crash, Fresh
<1>1. TypeOK'
  BY DEF TypeOK, Stations, CopyType
<1>2. Placed'
  BY DEF Placed
<1>3. Owned'
  BY DEF Owned, UnderMutex, Placed, Locking
<1>4. CopiesCover'
  BY DEF CopiesCover, Covers, Publishes, Detached, Placed, Publication
<1>5. Publication'
  BY DEF Publication, Publishes, Detached, Placed, Owned, UnderMutex,
       CopiesCover, Covers
<1>6. LastWriter'
  BY DEF LastWriter, Publishes, Placed, Publication
<1>7. EditsKept'
  BY DEF EditsKept, Snapshot, Placed, Owned, UnderMutex, CopiesCover, Covers,
       Detached
<1>8. RecordHasTurn'
  BY DEF RecordHasTurn, EditsKept, Placed
<1> QED
  BY <1>1, <1>2, <1>3, <1>4, <1>5, <1>6, <1>7, <1>8

-----------------------------------------------------------------------------
\* Every step keeps the invariant.
LEMMA SessionInvStep == SessionInv /\ [Next]_vars => SessionInv'
<1> SUFFICES ASSUME SessionInv, [Next]_vars PROVE SessionInv'
  OBVIOUS
<1>1. ASSUME NEW o \in Ops, Step(o) PROVE SessionInv'
  BY <1>1, FindHandleKeeps, FetchKeeps, InsertIfAbsentKeeps, FetchFailsKeeps,
       LockAndEditKeeps, AdoptKeeps, TakeCopyKeeps, EditAndReleaseKeeps,
       CloneCachedKeeps, SyncKeeps, SaveThreadKeeps, SaveFailsKeeps, MarkKeeps
       DEF Step
<1>2. ASSUME NEW m \in Managers, Crash(m) PROVE SessionInv'
  BY <1>2, CrashKeeps
<1>3. CASE UNCHANGED vars
  BY <1>3 DEF vars, SessionInv, TypeOK, Placed, Owned, UnderMutex,
       CopiesCover, Covers, Publication, Publishes, Detached, LastWriter,
       EditsKept, Snapshot, RecordHasTurn
<1> QED
  BY <1>1, <1>2, <1>3 DEF Next

\* The invariant holds in every reachable state.
LEMMA SessionInvariant == Spec => []SessionInv
  BY SessionInvInit, SessionInvStep, PTL DEF Spec

\* Every variable keeps its type.
THEOREM SessionTypeCorrect == Spec => []TypeOK
<1>1. SessionInv => TypeOK
  BY DEF SessionInv
<1> QED
  BY <1>1, SessionInvariant, PTL

\* An operation whose caller was told Ok has its edit in the store.
THEOREM SessionDoneIsStored == Spec => []DoneIsStored
<1>1. SessionInv => DoneIsStored
  BY DEF SessionInv, EditsKept, DoneIsStored
<1> QED
  BY <1>1, SessionInvariant, PTL

\* The compare-and-swap and the deduplication record are one transaction: no
\* record is stored without its turn.
THEOREM SessionRecordHasTurn == Spec => []RecordHasTurn
<1>1. SessionInv => RecordHasTurn
  BY DEF SessionInv
<1> QED
  BY <1>1, SessionInvariant, PTL

\* Only another manager's write leaves a manager's cached thread stale.
THEOREM SessionOwnWriteCached == Spec => []OwnWriteCached
<1>1. SessionInv => OwnWriteCached
  BY DEF SessionInv, LastWriter, OwnWriteCached, Publishes
<1> QED
  BY <1>1, SessionInvariant, PTL

\* No write of the store loses a stored edit, whatever the managers, the entry
\* points, the failures and the restarts: save_thread_context refuses the stale
\* snapshots, and all others have every stored edit.
THEOREM SessionNoLostUpdate == Spec => NoLostUpdate
<1>1. SessionInv /\ [Next]_vars => [store.edits \subseteq store'.edits]_vars
  <2> SUFFICES ASSUME SessionInv, [Next]_vars PROVE store.edits \subseteq store'.edits
    OBVIOUS
  <2>1. ASSUME NEW o \in Ops, SaveThread(o) PROVE store.edits \subseteq store'.edits
    BY <2>1, SnapshotCovers DEF SaveThread, Covers
  <2>2. ASSUME NEW o \in Ops, Step(o) PROVE SaveThread(o) \/ store' = store
    BY <2>2 DEF Step, FindHandle, Fetch, InsertIfAbsent, FetchFails,
         LockAndEdit, Adopt, TakeCopy, EditAndRelease, CloneCached, Sync,
         SaveFails, Mark
  <2>3. ASSUME NEW m \in Managers, Crash(m) PROVE store' = store
    BY <2>3 DEF Crash
  <2>4. CASE UNCHANGED vars
    BY <2>4 DEF vars
  <2> QED
    BY <2>1, <2>2, <2>3, <2>4 DEF Next
<1> QED
  BY <1>1, SessionInvariant, PTL DEF Spec, NoLostUpdate

\* What sync_thread_context_to_cache and the operations under the mutex put into
\* the cache is never older than what is there.
THEOREM SessionCacheRevisionGrows == Spec => CacheRevisionGrows
<1> DEFINE Grows == \A m \in cached \cap cached' : cache'[m].rev >= cache[m].rev
<1>1. SessionInv /\ [Next]_vars => [Grows]_vars
  <2> SUFFICES ASSUME SessionInv, [Next]_vars, NEW m \in cached, m \in cached'
               PROVE cache'[m].rev >= cache[m].rev
    OBVIOUS
  <2> USE SessionAssumption DEF SessionAssumption
  <2>1. m \in Managers /\ cache[m].rev \in Nat
    BY DEF SessionInv, TypeOK, CopyType
  <2>2. ASSUME NEW o \in Ops, Adopt(o) \/ Sync(o) PROVE cache'[m].rev >= cache[m].rev
    <3>1. cache[ManagerOf[o]].rev < mine[o].rev /\ mine[o].rev \in Nat
      BY <2>2 DEF SessionInv, Publication, Publishes, Adopt, Sync, TypeOK,
           CopyType
    <3>2. cache'[m] = cache[m] \/ (m = ManagerOf[o] /\ cache'[m].rev = mine[o].rev)
      BY <2>1, <2>2 DEF SessionInv, TypeOK, CopyType, Adopt, Sync, SetCache
    <3> QED
      BY <2>1, <3>1, <3>2
  <2>3. ASSUME NEW o \in Ops, LockAndEdit(o) \/ EditAndRelease(o)
        PROVE cache'[m].rev = cache[m].rev
    <3>1. cache' = [cache EXCEPT ![ManagerOf[o]] = With(o, cache[ManagerOf[o]])]
      BY <2>3 DEF LockAndEdit, EditAndRelease, SetCache
    <3>2. cache[ManagerOf[o]] \in CopyType
      BY DEF SessionInv, TypeOK
    <3>3. With(o, cache[ManagerOf[o]]).rev = cache[ManagerOf[o]].rev
      BY <3>2 DEF With
    <3> QED
      BY <2>1, <3>1, <3>3
  <2>4. ASSUME NEW o \in Ops, InsertIfAbsent(o) PROVE cache'[m] = cache[m]
    BY <2>1, <2>4 DEF SessionInv, TypeOK, InsertIfAbsent, SetCache
  <2>5. ASSUME NEW o \in Ops, Step(o)
        PROVE \/ Adopt(o) \/ Sync(o) \/ LockAndEdit(o) \/ EditAndRelease(o)
              \/ InsertIfAbsent(o) \/ cache' = cache
    BY <2>5 DEF Step, FindHandle, Fetch, FetchFails, TakeCopy, CloneCached,
         SaveThread, SaveFails, Mark
  <2>6. ASSUME NEW n \in Managers, Crash(n) PROVE cache'[m] = cache[m]
    BY <2>1, <2>6 DEF Crash, TypeOK
  <2>7. CASE UNCHANGED vars
    BY <2>1, <2>7 DEF vars
  <2>8. ASSUME NEW o \in Ops, Step(o) PROVE cache'[m].rev >= cache[m].rev
    BY <2>1, <2>2, <2>3, <2>4, <2>5, <2>8
  <2> QED
    BY <2>1, <2>6, <2>7, <2>8 DEF Next
<1> QED
  BY <1>1, SessionInvariant, PTL DEF Spec, CacheRevisionGrows
=============================================================================
