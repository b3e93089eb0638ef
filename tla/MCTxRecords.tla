---------------------------- MODULE MCTxRecords -----------------------------
(* TxRecords for TLC: three local transactions, a buffer written every two *)
(* (so both the full-buffer and the tick write happen), a txChan of two,   *)
(* two periodic rotations and two crashes or shutdowns.                    *)
EXTENDS TxRecords

CONSTANTS t1, t2, t3

MCTxs == {t1, t2, t3}
=============================================================================
