CONSTANTS
  Names = {"m"}
  Forms <- HotSession
  AotFiles <- NoFiles
  HotThreshold = 2
  MaxEvals = 6
SPECIFICATION Spec
INVARIANTS
  NativeCodeIsOwn
CHECK_DEADLOCK FALSE
