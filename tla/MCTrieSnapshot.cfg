CONSTANTS
  Modes = {"trie", "leaf"}
  Nodes <- MCNodes
  Kids <- MCKids
  Acct <- MCAcct
  StateRoot = "r"
  NoRoot = "none"
  IterFaults = TRUE
  PruneFaults = TRUE

SPECIFICATION Spec

INVARIANT TypeOK
INVARIANT SnapshotComplete
INVARIANT MetaMarksComplete
