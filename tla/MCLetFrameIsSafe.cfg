CONSTANTS
  NoHandle = NoHandle
  Unbound = Unbound
  Names = {x}
  Threshold = 1
  MaxAllocs = 3
  MaxDepth = 2
  MaxValues = 1
  MaxScopes = 1
SPECIFICATION Spec
INVARIANT LetFrameIsSafe
