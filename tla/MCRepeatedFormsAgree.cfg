CONSTANTS
  Names = {"m"}
  Forms <- OneForm
  AotFiles <- NoFiles
  HotThreshold = 10
  MaxEvals = 11
SPECIFICATION Spec
INVARIANTS
  RepeatedFormsAgree
CHECK_DEADLOCK FALSE
