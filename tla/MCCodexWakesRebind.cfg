SPECIFICATION Spec
CONSTANTS
  Message = {request}
  Notice = {}
  MaxWakes = 1
  MaxBindings = 2
  MaxFaults = 1
  request = request
  notice = notice
INVARIANTS
  RebindRearms
