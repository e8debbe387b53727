SPECIFICATION FairSpec
CONSTANTS
  Message = {request}
  Notice = {}
  MaxWakes = 2
  MaxBindings = 2
  MaxFaults = 1
  request = request
  notice = notice
INVARIANTS
  WakesBounded
  AttentionSound
  BindDurable
PROPERTIES
  ClaimsRespected
  OnlyOwnerSettles
  RequestSurfaces
