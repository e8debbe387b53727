SPECIFICATION Spec
CONSTANTS
  Invocation = {i0, i1}
  MaxFaults = 1
  MaxEdits = 1
CHECK_DEADLOCK FALSE
INVARIANT
  CertifiedQuiet
