------------------------------ MODULE Archiver -------------------------------
(***************************************************************************)
(* The archive cycle of the state ledger, src/internal/ledger/archive/    *)
(* archive.go, composed with the storage manager (StorageMgr, the version *)
(* of src/unnamed/part_000 archive.go builds against), through which      *)
(* NewArchiver and the reopen after the copy get the snapshot store.       *)
(*                                                                         *)
(* The ledger calls Archive once per block, in height order. Archive      *)
(* commits three batches from three goroutines (journal, history, live    *)
(* snapshot) and waits for them; every ArchiveBlockNum blocks it writes   *)
(* the snapshot meta, closes the snapshot store, copies its directory to  *)
(* snapshot-<h>-<time>, reopens the store and records lastArchiveBlock.   *)
(* A store is abstracted to the heights it holds; the copied directory to *)
(* the snapshot height and meta height it contains. The node may crash at *)
(* any step; the ledger then hands the block whose Archive did not return *)
(* to Archive again (spec 4.8: archiving is re-runnable).                  *)
(***************************************************************************)
EXTENDS Naturals, FiniteSets, Sequences, TLC

CONSTANTS
  ArchiveBlockNum, \* Ledger.ArchiveBlockNum
  MaxHeight,       \* bound: blocks handed to Archive
  Faults,          \* Archive steps that may return an error: "epoch", "close", "copy", "reopen"
  MaxCrashes       \* bound on crashes

ASSUME /\ ArchiveBlockNum \in Nat \ {0} /\ MaxHeight \in Nat
       /\ Faults \subseteq {"epoch", "close", "copy", "reopen"} /\ MaxCrashes \in Nat

Writers == {"journal", "history", "snapshot"}

VARIABLES
  next,      \* the block the ledger hands to Archive
  pc,        \* where Archive is: "idle", "writing", "meta", "close", "copy",
             \* "copied", "reopen"; "down" after a crash
  pending,   \* batches of the three goroutines not yet committed
  journal,   \* heights in the archive journal store
  history,   \* heights whose dirty nodes are in the history store
  snapH,     \* height the live snapshot store reflects
  meta,      \* ArchiveKey/MaxHeight in the snapshot store (0: none)
  backend,   \* archiveSnapshotBackend: a storage manager handle
  last,      \* archiver.lastArchiveBlock
  archives,  \* height -> the copied directory: [state, meta, complete]
  crashes,
  storages,  \* the storage manager's cache
  handles    \* the stores its builders made

vars == <<next, pc, pending, journal, history, snapH, meta, backend, last, archives, crashes,
          storages, handles>>

SM == INSTANCE StorageMgr

\* The origin snapshot directory, snapshotOriginPath.
Origin == "archive_snapshot/origin"

\* archiveSnapshotBackend can take a batch.
BackendOpen == SM!IsOpen(backend)

\* The error outcome of a step: the step may fail only if its fault is on.
Outcomes(f) == IF f \in Faults THEN {"ok", "err"} ELSE {"ok"}

\* Archive returns: the ledger goes on with the next block.
Return == pc' = "idle" /\ next' = next + 1

-----------------------------------------------------------------------------

\* NewArchiver: storagemgr.Open the origin snapshot store in a new process
\* (an empty cache) and read lastArchiveBlock from it.
Init ==
  /\ next = 1 /\ pc = "idle" /\ pending = {}
  /\ journal = {} /\ history = {} /\ snapH = 0 /\ meta = 0
  /\ handles = <<[path |-> Origin, open |-> TRUE]>>
  /\ storages = (Origin :> 1) /\ backend = 1 /\ last = 0
  /\ archives = [h \in {} |-> [state |-> 0, meta |-> 0, complete |-> FALSE]]
  /\ crashes = 0

\* Archive on a data syncer (the early return for other nodes is not taken)
\* starts the three goroutines.
Begin ==
  /\ pc = "idle" /\ next <= MaxHeight
  /\ pc' = "writing" /\ pending' = Writers
  /\ UNCHANGED <<next, journal, history, snapH, meta, backend, last, archives, crashes, storages, handles>>

\* Mutant: the journal is keyed by the height after the block's.
CommitOffByOne(w) ==
  /\ pc = "writing" /\ w \in pending
  /\ pending' = pending \ {w}
  /\ CASE w = "journal"  -> journal' = journal \cup {next + 1} /\ UNCHANGED <<history, snapH, pc>>
       [] w = "history"  -> history' = history \cup {next} /\ UNCHANGED <<journal, snapH, pc>>
       [] w = "snapshot" -> IF BackendOpen THEN snapH' = next /\ UNCHANGED <<journal, history, pc>>
                            ELSE pc' = "down" /\ UNCHANGED <<journal, history, snapH>>
  /\ UNCHANGED <<next, meta, backend, last, archives, crashes, storages, handles>>

\* A goroutine commits its batch. A batch on a closed pebble store panics,
\* which takes the process down.
Commit(w) ==
  /\ pc = "writing" /\ w \in pending
  /\ pending' = pending \ {w}
  /\ CASE w = "journal"  -> journal' = journal \cup {next} /\ UNCHANGED <<history, snapH, pc>>
       [] w = "history"  -> history' = history \cup {next} /\ UNCHANGED <<journal, snapH, pc>>
       [] w = "snapshot" -> IF BackendOpen THEN snapH' = next /\ UNCHANGED <<journal, history, pc>>
                            ELSE pc' = "down" /\ UNCHANGED <<journal, history, snapH>>
  /\ UNCHANGED <<next, meta, backend, last, archives, crashes, storages, handles>>

\* Mutant: the interval check does not wait for the three goroutines.
WaitNoWait ==
  /\ pc = "writing"
  /\ IF next - last < ArchiveBlockNum THEN Return ELSE pc' = "meta" /\ UNCHANGED next
  /\ UNCHANGED <<pending, journal, history, snapH, meta, backend, last, archives, crashes,
                 storages, handles>>

\* wg.Wait(), then the interval check: fewer than ArchiveBlockNum blocks
\* since the last archive returns.
Wait ==
  /\ pc = "writing" /\ pending = {}
  /\ IF next - last < ArchiveBlockNum THEN Return ELSE pc' = "meta" /\ UNCHANGED next
  /\ UNCHANGED <<pending, journal, history, snapH, meta, backend, last, archives, crashes,
                 storages, handles>>

\* GetEpochInfo (may fail: return), then the snapshot meta batch with
\* ArchiveKey/MaxHeight.
WriteMeta ==
  /\ pc = "meta"
  /\ \E r \in Outcomes("epoch") :
       IF r = "err" THEN Return /\ UNCHANGED meta
       ELSE meta' = next /\ pc' = "close" /\ UNCHANGED next
  /\ UNCHANGED <<pending, journal, history, snapH, backend, last, archives, crashes, storages, handles>>

\* archiveSnapshotBackend.Close(); on error Archive returns. The storage
\* manager keeps the closed store in its cache.
CloseStore ==
  /\ pc = "close"
  /\ SM!Close(backend)
  /\ \E r \in Outcomes("close") : IF r = "err" THEN Return ELSE pc' = "copy" /\ UNCHANGED next
  /\ UNCHANGED <<pending, journal, history, snapH, meta, backend, last, archives, crashes, storages>>

\* MkdirAll and copyDir: the directory is created and filled file by
\* file; on an error Archive returns with the copy incomplete.
Copy ==
  /\ pc = "copy"
  /\ archives' = (next :> [state |-> snapH, meta |-> meta, complete |-> FALSE]) @@ archives
  /\ \E r \in Outcomes("copy") : IF r = "err" THEN Return ELSE pc' = "copied" /\ UNCHANGED next
  /\ UNCHANGED <<pending, journal, history, snapH, meta, backend, last, crashes, storages, handles>>

CopyDone ==
  /\ pc = "copied"
  /\ archives' = [archives EXCEPT ![next].complete = TRUE]
  /\ pc' = "reopen"
  /\ UNCHANGED <<next, pending, journal, history, snapH, meta, backend, last, crashes, storages, handles>>

\* storagemgr.Open(origin); on error Archive returns with the store closed.
\* Otherwise the archiver takes the store and lastArchiveBlock = height.
Reopen ==
  /\ pc = "reopen"
  /\ \E r \in Outcomes("reopen"), h \in SM!Handles :
       /\ SM!Open(Origin, r = "err", h)
       /\ IF r = "err" THEN Return /\ UNCHANGED <<backend, last>>
          ELSE backend' = h /\ last' = next /\ Return
  /\ UNCHANGED <<pending, journal, history, snapH, meta, archives, crashes>>

\* A crash: batches not committed are lost, the files stay; the stores
\* and the storage manager's cache end with the process.
Crash ==
  /\ pc \notin {"idle", "down"} /\ crashes < MaxCrashes
  /\ pc' = "down" /\ pending' = {}
  /\ crashes' = crashes + 1
  /\ SM!ProcessExit
  /\ UNCHANGED <<next, journal, history, snapH, meta, backend, last, archives>>

\* Restart: NewArchiver again; the ledger hands the same block to Archive.
Restart ==
  /\ pc = "down"
  /\ pc' = "idle" /\ pending' = {}
  /\ \E h \in SM!Handles : SM!Open(Origin, FALSE, h) /\ backend' = h
  /\ last' = meta
  /\ UNCHANGED <<next, journal, history, snapH, meta, archives, crashes>>

\* Every block up to the bound has been archived; the ledger waits.
Finished ==
  /\ pc = "idle" /\ next > MaxHeight
  /\ UNCHANGED vars

Next ==
  \/ Finished \/ Begin \/ \E w \in Writers : Commit(w) \/ Wait
  \/ WriteMeta \/ CloseStore \/ Copy \/ CopyDone \/ Reopen
  \/ Crash \/ Restart

Spec == Init /\ [][Next]_vars

-----------------------------------------------------------------------------
(* Properties                                                              *)

Heights == 1..MaxHeight

TypeOK ==
  /\ next \in 1..MaxHeight + 1
  /\ pc \in {"idle", "writing", "meta", "close", "copy", "copied", "reopen", "down"}
  /\ pending \subseteq Writers
  /\ journal \subseteq Heights /\ history \subseteq Heights
  /\ snapH \in 0..MaxHeight /\ meta \in 0..MaxHeight /\ last \in 0..MaxHeight
  /\ SM!StorageMgrTypeOK /\ backend \in 1..Len(handles)
  /\ DOMAIN archives \subseteq Heights
  /\ \A h \in DOMAIN archives :
       archives[h] \in [state : 0..MaxHeight, meta : 0..MaxHeight, complete : BOOLEAN]

\* A complete snapshot-<h> directory holds the live snapshot of block h and
\* the meta of block h: Archive copies the store only after wg.Wait, so
\* the snapshot goroutine's batch for h is in it, crashes and retried
\* blocks included.
ArchiveConsistent ==
  \A h \in DOMAIN archives :
    archives[h].complete => archives[h].state = h /\ archives[h].meta = h

\* A successful Archive hands the next blocks an open snapshot store: the
\* store Close shut is still in the storage manager's cache, so the reopen
\* must build a new store rather than return the cached one (storage_mgr.go's
\* OpenSpecifyType, without the force flag, returns the closed store, and
\* the next block's snapshot batch commits to it).
ReopenGivesOpenStore == [][pc = "reopen" /\ last' # last => BackendOpen']_vars

\* The height lastArchiveBlock names has a complete archived snapshot:
\* otherwise the archive of that height is never made, since the next one
\* is only due ArchiveBlockNum blocks later.
LastArchiveHasSnapshot ==
  pc = "idle" /\ last > 0 => last \in DOMAIN archives /\ archives[last].complete

=============================================================================
