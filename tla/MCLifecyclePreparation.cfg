SPECIFICATION FairSpec
CONSTANTS
  MaxTransactions = 2
  MaxFaults = 3
  MaxIntrusions = 1
CHECK_DEADLOCK FALSE
INVARIANTS
  NothingAstray
PROPERTIES
  RefusalExplained
  ForeignKept
  RecordSettles
