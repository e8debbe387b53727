SPECIFICATION BoundedSpec
CONSTANTS
  s1 = s1
  s2 = s2
  first = first
  again = again
  other = other
  auth = auth
  Session = {s1, s2}
  Message = {m1}
  BindCall = {first, again, other}
  AuthCall = {auth}
  SessionOf <- Sessions
  MaxRotations = 2
  Capabilities = 2
  MaxFaults = 1
CHECK_DEADLOCK FALSE
INVARIANTS
  PostedOnce
  DeliverySound
PROPERTIES
  NeverForgotten
