CONSTANTS
  t1 = t1
  t2 = t2
  t3 = t3
  a1 = a1
  a2 = a2
  Txs <- MCTxs
  Marshal <- MCMarshal
  Account <- MCAccount
  BatchWrite = 2
  BatchSize = 2
  WriteFaults = FALSE
  RotateFaults = TRUE
  MaxRotations = 2

SPECIFICATION Spec

INVARIANT TypeOK
INVARIANT LoadRoundTrip
INVARIANT GetAllRoundTrip
