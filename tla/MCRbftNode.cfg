CONSTANTS
  t1 = t1
  r1 = r1
  NoTx = NoTx
  Txs <- MCTxs
  RemoteTxs <- MCRemoteTxs
  NodeCounts = {1, 2, 3, 4, 5, 6, 7, 8, 9, 10}
  Nodes = 2
  Applied = 9
  MaxHeight = 11
  CacheCap = 2
  TxSetSize = 2
  BlockCCap = 1

SPECIFICATION Spec

CHECK_DEADLOCK FALSE

PROPERTY StateUpdateCompletes
