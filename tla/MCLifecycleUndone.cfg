SPECIFICATION Spec
CONSTANTS
  MaxTransactions = 1
  MaxFaults = 1
  MaxIntrusions = 0
CHECK_DEADLOCK FALSE
INVARIANT
  PublishedNeverCleaned
