CONSTANTS
  Names = {"m"}
  Forms <- Session
  AotFiles <- AotFile
  HotThreshold = 10
  MaxEvals = 5
SPECIFICATION Spec
INVARIANTS
  ResultsAreTheForms
  EffectsHappenOnce
CHECK_DEADLOCK FALSE
