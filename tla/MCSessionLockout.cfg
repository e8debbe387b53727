SPECIFICATION Spec
CONSTANTS
  s1 = s1
  first = first
  again = again
  auth = auth
  Session = {s1}
  Message = {m1}
  BindCall = {first, again}
  AuthCall = {auth}
  SessionOf <- Sessions
  Capabilities = 3
  MaxFaults = 1
CHECK_DEADLOCK FALSE
INVARIANT
  RotationRetained
