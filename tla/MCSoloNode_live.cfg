CONSTANTS
  t1 = t1
  t2 = t2
  t3 = t3
  Txs <- MCTxs
  BadTxs <- MCBadTxs
  InitEpoch <- MCInitEpoch
  Applied = 0
  EpochPeriod = 2
  CheckpointPeriods = {2}
  EnableChoices = {TRUE}
  MaxBatches = 3
  RecvCap = 2
  ChanCap = 1
  BlockMaxTxNum = 2
  PoolSize = 2
  IsTimed = TRUE
  MapRace = FALSE

SPECIFICATION Spec

PROPERTY AcceptedTxCommitted
PROPERTY SoloRefinesLog
CHECK_DEADLOCK FALSE
