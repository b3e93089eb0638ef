------------------------------ MODULE StorageMgr ------------------------------
(***************************************************************************)
(* The storage manager, globalStorageMgr of package storagemgr: a cache of *)
(* open key-value stores by path, filled by the builder of the configured *)
(* kv type, under one mutex. Two versions are in the repository:           *)
(*   - src/unnamed/part_000, the version archive.go builds against:        *)
(*     OpenSpecifyType takes a force flag; Open forces a new store,        *)
(*     OpenWithMetrics uses the cache;                                     *)
(*   - src/internal/storagemgr/storage_mgr.go: no force flag, every Open   *)
(*     returns the cached store (OpenSpecifyTypeCached below).             *)
(* Initialize's builder map and the kv type check only fix which builder  *)
(* runs; the builder is abstracted to its outcome: a new store or an error.*)
(*                                                                         *)
(* A store is a handle, an index into handles, which records its path and *)
(* whether it is open. Handle 0 is the nil store an error returns. The     *)
(* mutex makes every OpenSpecifyType one step. Callers bind the returned   *)
(* handle with \E h \in Handles(force) : OpenSpecifyType(force, p, fail, h).*)
(***************************************************************************)
EXTENDS Naturals, Sequences, TLC

VARIABLES
  storages,  \* globalStorageMgr.storages: path -> handle
  handles    \* every store the builders made: [path, open]

NoHandle == 0

\* A store the caller holds is usable.
IsOpen(h) == h \in DOMAIN handles /\ handles[h].open

\* The handle the next builder call makes.
NewHandle == Len(handles) + 1

\* A process starts with an empty cache (globalStorageMgr's initialiser).
InitStorageMgr == storages = <<>> /\ handles = <<>>

\* storageMgr.open: the builder of the kv type makes a new store at p, or
\* fails (leveldb.New or pebble.New returning an error); the kv type was
\* checked by Initialize.
BuilderOpen(p, fail, h) ==
  IF fail THEN h = NoHandle /\ UNCHANGED handles
  ELSE h = NewHandle /\ handles' = Append(handles, [path |-> p, open |-> TRUE])

\* storage_mgr.go's OpenSpecifyType: a cached store is returned whatever the
\* caller asks (no force flag).
OpenSpecifyTypeCached(force, p, fail, h) ==
  IF p \in DOMAIN storages
  THEN h = storages[p] /\ UNCHANGED <<storages, handles>>
  ELSE /\ BuilderOpen(p, fail, h)
       /\ storages' = IF fail THEN storages ELSE (p :> h) @@ storages

\* part_000's OpenSpecifyType, under the lock: unless forced, a cached store
\* is returned; otherwise the builder runs, and on success its store
\* replaces the cache entry (the store it replaces is not closed).
OpenSpecifyType(force, p, fail, h) ==
  IF ~force /\ p \in DOMAIN storages
  THEN h = storages[p] /\ UNCHANGED <<storages, handles>>
  ELSE /\ BuilderOpen(p, fail, h)
       /\ storages' = IF fail THEN storages ELSE (p :> h) @@ storages

\* Open forces a new store. (OpenWithMetrics, OpenSpecifyType(FALSE, ...),
\* is called only by NewStateLedger, for paths no other caller opens.)
Open(p, fail, h) == OpenSpecifyType(TRUE, p, fail, h)

\* The handles an open may return: the nil store, a cached one, a new one.
Handles == 0..NewHandle

\* kv.Storage.Close on a store: the cache is not told and keeps the entry.
Close(h) == handles' = [handles EXCEPT ![h].open = FALSE]

\* The process ends: every store is gone with it, and the next process
\* starts with an empty cache.
ProcessExit ==
  /\ handles' = [i \in DOMAIN handles |-> [handles[i] EXCEPT !.open = FALSE]]
  /\ storages' = <<>>

StorageMgrTypeOK ==
  /\ handles \in Seq([path : STRING, open : BOOLEAN])
  /\ \A p \in DOMAIN storages : storages[p] \in 1..Len(handles) /\ handles[storages[p]].path = p

=============================================================================
