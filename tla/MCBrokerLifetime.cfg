SPECIFICATION FairSpec
CONSTANTS
  Process = {p1, p2}
  Client = {c1, c2}
  Dialogue = {d1}
  Record = {r1}
  Old = "old"
  New = "new"
  MaxHandlers = 1
  MaxCommands = 1
  MaxFaults = 2
CHECK_DEADLOCK FALSE
INVARIANTS
  DeletionSound
  ServerReachable
PROPERTIES
  WrittenAsAdmitted
  EventuallyServed
