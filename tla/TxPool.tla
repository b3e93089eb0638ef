------------------------------- MODULE TxPool -------------------------------
(***************************************************************************)
(* The transaction pool contract the consensus engines rely on (spec 4.2). *)
(* The pool itself lives in the axiom-kit library, outside this            *)
(* repository, so these operators are modelled from the specification:    *)
(* they are pure functions of a pool value and are used by SoloNode.       *)
(*                                                                         *)
(* A pool value is a record                                                *)
(*   pending : the transactions not yet in any batch, in admission order,  *)
(*   batches : digest -> the ordered transactions of a formed batch,       *)
(*   next    : the digest the next batch gets (digests are unique because  *)
(*             BatchHash covers the batch timestamp).                      *)
(* Accounts and nonces are abstracted away: every transaction of the       *)
(* model is from a distinct account, so pending is FIFO admission order.   *)
(***************************************************************************)
EXTENDS Naturals, Sequences, SequencesExt, FiniteSetsExt, Functions

CONSTANTS
  BlockMaxTxNum,   \* per-batch transaction cap (ConsensusParams.BlockMaxTxNum)
  PoolSize,        \* cap on pooled transactions (Config.PoolSize)
  IsTimed          \* Config.IsTimed: the pool forms empty batches on a no-tx timeout

ASSUME BlockMaxTxNum \in Nat \ {0} /\ PoolSize \in Nat \ {0} /\ IsTimed \in BOOLEAN

\* Triggers of GenerateRequestBatch.
GenBatchSizeEvent == "size"
GenBatchTimeoutEvent == "timeout"
GenBatchNoTxTimeoutEvent == "noTxTimeout"

EmptyPool == [pending |-> <<>>, batches |-> [d \in {} |-> <<>>], next |-> 1]

\* Every transaction the pool holds, batched or not.
PoolTxs(p) == ToSet(p.pending) \cup UNION {ToSet(p.batches[d]) : d \in DOMAIN p.batches}

\* HasPendingRequestInPool: some transaction is waiting for a batch.
HasPendingRequestInPool(p) == p.pending # <<>>

\* Admission result of a local transaction: dedup against the pool, then
\* the capacity check.
AddTxResult(p, t) ==
  IF t \in PoolTxs(p) THEN "Duplicate"
  ELSE IF Cardinality(PoolTxs(p)) >= PoolSize THEN "PoolFull"
  ELSE "Accepted"

AddLocalTx(p, t) == [p EXCEPT !.pending = Append(@, t)]

\* The pool signals the engine (NotifyGenerateBatchFn) once a full batch
\* of pending transactions is available.
ReachedBatchSize(p) == Len(p.pending) >= BlockMaxTxNum

\* Whether GenerateRequestBatch returns a batch for a trigger: a size or
\* timeout trigger needs pending transactions; a no-tx timeout gives an
\* empty batch only for an empty, timed pool (an error otherwise).
ProducesBatch(p, typ) ==
  IF typ = GenBatchNoTxTimeoutEvent
  THEN ~HasPendingRequestInPool(p) /\ IsTimed
  ELSE HasPendingRequestInPool(p)

BatchLen(p, typ) ==
  IF typ = GenBatchNoTxTimeoutEvent THEN 0 ELSE Min({Len(p.pending), BlockMaxTxNum})

\* The batch GenerateRequestBatch forms: the oldest pending transactions.
NewBatch(p, typ) == [digest |-> p.next, txs |-> SubSeq(p.pending, 1, BatchLen(p, typ))]

\* The pool after forming that batch: its transactions leave pending and
\* are kept under the batch digest until RemoveBatches.
GenerateRequestBatch(p, typ) ==
  LET b == NewBatch(p, typ) IN
  [pending |-> SubSeq(p.pending, BatchLen(p, typ) + 1, Len(p.pending)),
   batches |-> p.batches @@ (b.digest :> b.txs),
   next    |-> p.next + 1]

\* RemoveBatches drops the batches and their transactions; unknown digests
\* are ignored, so the operation is idempotent.
RemoveBatches(p, digests) ==
  [p EXCEPT !.batches = Restrict(p.batches, DOMAIN p.batches \ digests)]

=============================================================================
