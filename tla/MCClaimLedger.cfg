SPECIFICATION LedgerSpec
CONSTANTS
  N = 2
  MaxClaims = 2
  MaxRaw = 4
  MaxRounds = 3
CHECK_DEADLOCK FALSE
INVARIANT
  LedgerSound
PROPERTY
  RetirementEarned
