------------------------------ MODULE TxRecords ------------------------------
(***************************************************************************)
(* The local transaction journal, src/internal/txpool/tx_records.go, with *)
(* the two goroutines that share its writer:                               *)
(*                                                                         *)
(*  pool      the pool's goroutine (axiom-kit, spec 4.2/4.3): admits local *)
(*            transactions (insert2Chan), removes committed ones, rotates  *)
(*            the journal; it loads and rotates it when the node starts    *)
(*  consumer  consumeTxs: buffers transactions from txChan and appends     *)
(*            them with batchWrite when the buffer is full or on a tick,   *)
(*            and once more when the context ends                          *)
(*                                                                         *)
(* r.writer is read by batchWrite and set by rotate and close without any  *)
(* lock. A Go data race on it yields the old or the new handle, and a      *)
(* write to a handle rotate has closed fails like a write with no handle,  *)
(* so batchWrite is one atomic step that sees either value.               *)
(* The file is the set of transactions its records decode to: load skips  *)
(* malformed records and the pool drops duplicates and committed ones.     *)
(* The node may crash at any step and restart from what is on disk.       *)
(***************************************************************************)
EXTENDS Naturals, Sequences, SequencesExt, FiniteSets

CONSTANTS
  Txs,            \* local transactions clients may submit, each once
  BatchWrite,     \* TxRecordsBatchWrite: consumeTxs writes a full buffer at once
  ChanCap,        \* TxRecordsBatchSize: capacity of txChan
  WriteFaults,    \* whether r.writer.Write may fail in batchWrite
  RotateFaults,   \* rotate steps that may fail: "openNew", "writeNew"
  MaxRotations,   \* bound on periodic rotations
  MaxRestarts     \* bound on crashes and shutdowns

ASSUME /\ BatchWrite \in Nat \ {0} /\ ChanCap \in Nat \ {0}
       /\ WriteFaults \in BOOLEAN /\ RotateFaults \subseteq {"openNew", "writeNew"}
       /\ MaxRotations \in Nat /\ MaxRestarts \in Nat

VARIABLES
  phase,      \* node: "loading" (load done, first rotate due), "running",
              \* "stopping" (context cancelled), "down"
  pool,       \* local transactions alive in the pool
  committed,  \* transactions removed from the pool because committed (durable in the chain)
  admitted,   \* transactions ever submitted (each is submitted once)
  txChan,     \* txChan, FIFO
  buffer,     \* consumeTxs' txBuffer
  consumer,   \* "run" or "done"
  writer,     \* r.writer: "nil" or "open" (appending to the journal file)
  file,       \* transactions recorded in tx_records.pb
  rot,        \* rotate: "idle", or "written" once path.new holds newFile
  newFile,    \* transactions recorded in tx_records.pb.new
  rotations,  \* periodic rotations so far
  restarts    \* crashes and shutdowns so far

vars == <<phase, pool, committed, admitted, txChan, buffer, consumer, writer,
          file, rot, newFile, rotations, restarts>>

-----------------------------------------------------------------------------
(* tx_records.go                                                           *)

\* Mutant: the loop that encodes the buffer skips its first transaction.
BatchWriteSkipFirst(buf) ==
  IF writer = "nil" THEN {file}
  ELSE {file \cup ToSet(SubSeq(buf, 2, Len(buf)))} \cup (IF WriteFaults THEN {file} ELSE {})

\* batchWrite: with no writer it fails ("no active txRecords"); otherwise
\* the records are appended, unless the write fails. The caller ignores
\* the error either way.
BatchWriteOutcomes(buf) ==
  IF writer = "nil" THEN {file}
  ELSE {file \cup ToSet(buf)} \cup (IF WriteFaults THEN {file} ELSE {})

\* consumeTxs, top of the loop: a full buffer is written and reset.
ConsumeFlushFull ==
  /\ consumer = "run" /\ Len(buffer) >= BatchWrite
  /\ file' \in BatchWriteOutcomes(buffer)
  /\ buffer' = <<>>
  /\ UNCHANGED <<phase, pool, committed, admitted, txChan, consumer, writer, rot, newFile, rotations, restarts>>

\* Mutant: a transaction is received without the full-buffer write first.
ConsumeRecvUnchecked ==
  /\ consumer = "run" /\ txChan # <<>>
  /\ buffer' = Append(buffer, Head(txChan))
  /\ txChan' = Tail(txChan)
  /\ UNCHANGED <<phase, pool, committed, admitted, consumer, writer, file, rot, newFile, rotations, restarts>>

\* select, case tx := <-r.txChan
ConsumeRecv ==
  /\ consumer = "run" /\ Len(buffer) < BatchWrite /\ txChan # <<>>
  /\ buffer' = Append(buffer, Head(txChan))
  /\ txChan' = Tail(txChan)
  /\ UNCHANGED <<phase, pool, committed, admitted, consumer, writer, file, rot, newFile, rotations, restarts>>

\* Mutant: the tick leaves a partial buffer alone.
ConsumeTickNoFlush ==
  /\ consumer = "run" /\ Len(buffer) < BatchWrite
  /\ UNCHANGED vars

\* select, case <-ticker.C: a non-empty buffer is written and reset.
ConsumeTick ==
  /\ consumer = "run" /\ Len(buffer) < BatchWrite
  /\ IF buffer # <<>> THEN file' \in BatchWriteOutcomes(buffer) ELSE UNCHANGED file
  /\ buffer' = <<>>
  /\ UNCHANGED <<phase, pool, committed, admitted, txChan, consumer, writer, rot, newFile, rotations, restarts>>

\* select, case <-r.ctx.Done(): close txChan, write what is buffered, exit.
\* The transactions still in txChan are not read.
ConsumeDone ==
  /\ consumer = "run" /\ Len(buffer) < BatchWrite /\ phase = "stopping"
  /\ IF buffer # <<>> THEN file' \in BatchWriteOutcomes(buffer) ELSE UNCHANGED file
  /\ buffer' = <<>>
  /\ consumer' = "done"
  /\ UNCHANGED <<phase, pool, committed, admitted, txChan, writer, rot, newFile, rotations, restarts>>

\* The transactions rotate writes to path.new: the local ones of the pool,
\* less the chunks whose Write failed (logged and skipped).
RotateSnapshot == IF "writeNew" \in RotateFaults THEN SUBSET pool ELSE {pool}

\* rotate up to replacement.Close(): close the writer and set it to nil,
\* then create path.new and write the snapshot; if OpenFile fails rotate
\* returns with the writer nil.
RotateWrite ==
  /\ phase \in {"loading", "running"} /\ rot = "idle"
  /\ phase = "running" => rotations < MaxRotations
  /\ writer' = "nil"
  /\ \/ /\ "openNew" \in RotateFaults
        /\ phase' = "running"
        /\ UNCHANGED <<rot, newFile>>
     \/ /\ rot' = "written"
        /\ newFile' \in RotateSnapshot
        /\ UNCHANGED phase
  /\ rotations' = IF phase = "running" THEN rotations + 1 ELSE rotations
  /\ UNCHANGED <<pool, committed, admitted, txChan, buffer, consumer, file, restarts>>

\* rotate from os.Rename on: path.new replaces the journal, which is
\* reopened for appending.
RotateInstall ==
  /\ rot = "written" /\ phase \in {"loading", "running"}
  /\ file' = newFile
  /\ writer' = "open"
  /\ rot' = "idle" /\ newFile' = {}
  /\ phase' = "running"
  /\ UNCHANGED <<pool, committed, admitted, txChan, buffer, consumer, rotations, restarts>>

\* load: the records of the journal, less the transactions the pool
\* rejects as already committed. Its deferred r.writer = nil leaves the
\* journal without a writer until the next rotate.
LoadedTxs == file \ committed

-----------------------------------------------------------------------------
(* The pool's use of the journal, modelled from spec 4.2 and 4.3.          *)

\* AddLocal: admit the transaction and journal it (insert2Chan blocks while
\* txChan is full). The pool's goroutine is not inside rotate.
AddLocal(t) ==
  /\ phase = "running" /\ rot = "idle"
  /\ t \notin admitted
  /\ Len(txChan) < ChanCap
  /\ txChan' = Append(txChan, t)
  /\ pool' = pool \cup {t} /\ admitted' = admitted \cup {t}
  /\ UNCHANGED <<phase, committed, buffer, consumer, writer, file, rot, newFile, rotations, restarts>>

\* RemoveBatches after a commit drops the transaction from the pool; the
\* journal keeps its record until the next rotate.
RemoveCommitted(t) ==
  /\ phase = "running" /\ rot = "idle" /\ t \in pool
  /\ pool' = pool \ {t} /\ committed' = committed \cup {t}
  /\ UNCHANGED <<phase, admitted, txChan, buffer, consumer, writer, file, rot, newFile, rotations, restarts>>

\* Shutdown: the pool cancels the journal's context...
Stop ==
  /\ phase = "running" /\ rot = "idle" /\ restarts < MaxRestarts
  /\ phase' = "stopping"
  /\ restarts' = restarts + 1
  /\ UNCHANGED <<pool, committed, admitted, txChan, buffer, consumer, writer, file, rot, newFile, rotations>>

\* ...and closes it (close): the writer is closed and set to nil, in
\* either order with consumeTxs' final write.
Close ==
  /\ phase = "stopping" /\ writer = "open"
  /\ writer' = "nil"
  /\ UNCHANGED <<phase, pool, committed, admitted, txChan, buffer, consumer, file, rot, newFile, rotations>>
  /\ UNCHANGED restarts

\* The process exits once consumeTxs has returned and the journal is closed.
Exit ==
  /\ phase = "stopping" /\ consumer = "done" /\ writer = "nil"
  /\ phase' = "down"
  /\ UNCHANGED <<pool, committed, admitted, txChan, buffer, consumer, writer, file, rot, newFile, rotations, restarts>>

\* A crash loses everything but the files and the chain; path.new is
\* never read.
Crash ==
  /\ phase # "down" /\ restarts < MaxRestarts
  /\ phase' = "down"
  /\ pool' = {} /\ txChan' = <<>> /\ buffer' = <<>>
  /\ consumer' = "done" /\ writer' = "nil" /\ rot' = "idle" /\ newFile' = {}
  /\ restarts' = restarts + 1
  /\ UNCHANGED <<committed, admitted, file, rotations>>

\* Start: newTxRecords, consumeTxs started, load re-admits the journal's
\* transactions; the first rotate is due.
Restart ==
  /\ phase = "down"
  /\ phase' = "loading"
  /\ pool' = LoadedTxs
  /\ txChan' = <<>> /\ buffer' = <<>> /\ consumer' = "run" /\ writer' = "nil"
  /\ UNCHANGED <<committed, admitted, file, rot, newFile, rotations, restarts>>

Init ==
  /\ phase = "loading" /\ pool = {} /\ committed = {} /\ admitted = {}
  /\ txChan = <<>> /\ buffer = <<>> /\ consumer = "run" /\ writer = "nil"
  /\ file = {} /\ rot = "idle" /\ newFile = {}
  /\ rotations = 0 /\ restarts = 0

Next ==
  \/ ConsumeFlushFull \/ ConsumeRecv \/ ConsumeTick \/ ConsumeDone
  \/ RotateWrite \/ RotateInstall
  \/ \E t \in Txs : AddLocal(t) \/ RemoveCommitted(t)
  \/ Stop \/ Close \/ Exit \/ Crash \/ Restart

\* consumeTxs is always scheduled again and its ticker keeps firing; the
\* pool's goroutine finishes a rotate it began and shuts down once asked.
Fairness ==
  /\ WF_vars(ConsumeFlushFull) /\ WF_vars(ConsumeRecv) /\ WF_vars(ConsumeTick)
  /\ WF_vars(ConsumeDone) /\ WF_vars(RotateInstall) /\ WF_vars(Close) /\ WF_vars(Exit)

Spec == Init /\ [][Next]_vars /\ Fairness

-----------------------------------------------------------------------------
(* Properties                                                              *)

TypeOK ==
  /\ phase \in {"loading", "running", "stopping", "down"}
  /\ pool \subseteq Txs /\ committed \subseteq Txs /\ admitted \subseteq Txs
  /\ txChan \in Seq(Txs) /\ Len(txChan) <= ChanCap
  /\ buffer \in Seq(Txs) /\ Len(buffer) <= BatchWrite
  /\ consumer \in {"run", "done"} /\ writer \in {"nil", "open"}
  /\ file \subseteq Txs /\ newFile \subseteq Txs /\ rot \in {"idle", "written"}

\* A transaction is safe from a crash once it is in the journal; until then
\* it is on its way: in txChan, in consumeTxs' buffer, or in the path.new a
\* rotate has written and will install.
OnItsWay(t) ==
  t \in ToSet(txChan) \cup ToSet(buffer) \cup (IF rot = "written" THEN newFile ELSE {})

\* While the node runs, every local transaction alive in the pool is in the
\* journal or on its way to it (spec 4.3: Append never drops; rotate leaves
\* the journal equal to the local set). A consumeTxs write that meets the
\* writer rotate has just set to nil must only drop transactions rotate
\* is writing anyway.
LocalTxsJournaled ==
  phase \in {"loading", "running"} => \A t \in pool : t \in file \/ OnItsWay(t)

\* Every local transaction admitted while the node runs reaches the
\* journal, unless it is committed first or the node goes down: the
\* ticker flushes a partial buffer, and rotate reopens the writer.
EventuallyJournaled ==
  \A t \in Txs :
    [](t \in pool /\ phase = "running" => <>(t \in file \/ t \notin pool \/ phase # "running"))

=============================================================================
