CONSTANTS
  NoHandle = NoHandle
  Unbound = Unbound
  Names = {x}
  GenMod = 2
  Thresholds = {0, 1}
  MaxSlots = 2
  MaxAllocs = 3
  MaxCaptures = 1
  MaxRoots = 1
SPECIFICATION LiveSpec
INVARIANTS
  TypeOK
  BooksBalance
  HeldKeepTheirFrames
  NoDanglingReference
  NoAlias
  MarkIsReachability
PROPERTIES
  CollectionEnds
  ImplementsEnvStore
