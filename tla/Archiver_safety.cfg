CONSTANTS
  ArchiveBlockNum = 2
  MaxHeight = 7
  Faults = {"epoch", "close", "copy", "reopen"}
  MaxCrashes = 2

SPECIFICATION Spec

INVARIANT TypeOK
INVARIANT ArchiveConsistent
PROPERTY ReopenGivesOpenStore
