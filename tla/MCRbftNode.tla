----------------------------- MODULE MCRbftNode -----------------------------
(* RbftNode instantiated for TLC: one local transaction and one remote  *)
(* set; the cache posts a set at two transactions or on its timer; a     *)
(* two-node validator set (quorum 2, so Start waits for the peer); heights *)
(* 10 and 11, so that a state update can overtake a block in flight and    *)
(* height 10 is a stable checkpoint.                                       *)
EXTENDS RbftNode

CONSTANTS t1, r1

MCTxs == {t1}
MCRemoteTxs == {{r1}}
=============================================================================
