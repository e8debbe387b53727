SPECIFICATION Spec
CONSTANTS
  s1 = s1
  first = first
  again = again
  auth = auth
  Session = {s1}
  Message = {m1}
  BindCall = {first}
  AuthCall = {auth}
  SessionOf <- Sessions
  Capabilities = 3
  MaxFaults = 0
CHECK_DEADLOCK FALSE
PROPERTY
  DedupeSurvives
