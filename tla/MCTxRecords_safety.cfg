CONSTANTS
  t1 = t1
  t2 = t2
  t3 = t3
  Txs <- MCTxs
  BatchWrite = 2
  ChanCap = 2
  WriteFaults = FALSE
  RotateFaults = {}
  MaxRotations = 2
  MaxRestarts = 2

SPECIFICATION Spec

INVARIANT TypeOK
INVARIANT LocalTxsJournaled
PROPERTY EventuallyJournaled
