SPECIFICATION Spec
CONSTANTS
  MaxTransactions = 1
  MaxFaults = 1
  MaxIntrusions = 1
CHECK_DEADLOCK FALSE
PROPERTIES
  OthersKept
