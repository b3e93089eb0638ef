----------------------------- MODULE MCSoloNode -----------------------------
(* SoloNode instantiated for TLC: three transactions from distinct         *)
(* accounts; batches of two; a pool of two, so that the third good         *)
(* transaction meets PoolFull unless a checkpoint freed room; epochs of    *)
(* two blocks. A cfg may make t3 fail the pre-check (MCBadTxs).           *)
EXTENDS SoloNode

CONSTANTS t1, t2, t3

MCTxs == {t1, t2, t3}
MCBadTxs == {t3}
MCInitEpoch == [startBlock |-> 1, epochPeriod |-> 2, checkpoint |-> 2,
                enableGenEmptyBlock |-> TRUE]
=============================================================================
