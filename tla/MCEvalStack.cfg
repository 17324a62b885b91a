CONSTANTS
  NoHandle = NoHandle
  Unbound = Unbound
  Names = {x}
  Threshold = 1
  MaxAllocs = 3
  MaxDepth = 2
  MaxValues = 2
  MaxScopes = 1
SPECIFICATION Spec
INVARIANTS
  TypeOK
  OwnFramesSurvive
PROPERTIES
  CalleeArrivesIntact
