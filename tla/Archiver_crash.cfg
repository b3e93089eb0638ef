CONSTANTS
  ArchiveBlockNum = 2
  MaxHeight = 5
  Faults = {}
  MaxCrashes = 1

SPECIFICATION Spec

INVARIANT LastArchiveHasSnapshot
