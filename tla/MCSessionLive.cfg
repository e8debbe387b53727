SPECIFICATION FairSpec
CONSTANTS
  s1 = s1
  first = first
  again = again
  auth = auth
  Session = {s1}
  Message = {m1}
  BindCall = {first}
  AuthCall = {auth}
  SessionOf <- Sessions
  Capabilities = 2
  MaxFaults = 1
CHECK_DEADLOCK FALSE
PROPERTIES
  EventuallyDelivered
