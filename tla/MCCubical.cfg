CONSTANTS
  Programs <- MCPrograms
  Root <- MCRoot
  Check <- MCCheck
  Infer <- MCInfer
  Reduce <- MCReduce
  Compare <- MCCompare
SPECIFICATION Spec
INVARIANTS
  NamesMeanTheirDefinitions
  ResultsKeepTheirTypes
  NumbersAreCanonical
  NoPathBetweenConstructors
  NormalFormsStay
  EtaHolds
  FacesMeanTheirFormula
  EqualityIsSymmetric
  MarksMatchTheStack
  DoneMeansAllLoaded
PROPERTIES
  LoadsInOrder
  RunsEnd
CHECK_DEADLOCK FALSE
