CONSTANTS
  t1 = t1
  t2 = t2
  t3 = t3
  Txs <- MCTxs
  BadTxs = {}
  InitEpoch <- MCInitEpoch
  Applied = 0
  EpochPeriod = 2
  CheckpointPeriods = {1, 2}
  EnableChoices = {TRUE, FALSE}
  MaxBatches = 3
  RecvCap = 5
  ChanCap = 2
  BlockMaxTxNum = 2
  PoolSize = 2
  IsTimed = TRUE
  MapRace = TRUE

SPECIFICATION Spec

INVARIANT PoolBatchesTracked
 
INVARIANT NoTxCommittedTwice

