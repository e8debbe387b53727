SPECIFICATION FairSpec
CONSTANTS
  Invocation = {i0, i1}
  MaxFaults = 2
  MaxEdits = 2
CHECK_DEADLOCK FALSE
INVARIANT
  AttemptsAccounted
PROPERTY
  Resolves
