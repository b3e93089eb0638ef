-------------------------- MODULE MCTxRecordsCodec --------------------------
(* TxRecordsCodec for TLC: three transactions of two accounts with         *)
(* payloads of one to three bytes, some of which are also the bytes of a    *)
(* misread record; buffers and load batches of two, so load sends a full   *)
(* batch and a partial one, and rotate's chunk ends both at BatchSize and  *)
(* at len(all).                                                            *)
EXTENDS TxRecordsCodec

CONSTANTS t1, t2, t3, a1, a2

MCTxs == {t1, t2, t3}
MCMarshal == (t1 :> <<1>>) @@ (t2 :> <<2, 1>>) @@ (t3 :> <<1, 3, 2>>)
MCAccount == (t1 :> a1) @@ (t2 :> a1) @@ (t3 :> a2)
=============================================================================
