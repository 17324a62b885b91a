CONSTANTS
  Programs <- AliasPrograms
  Root <- MCRoot
  Check <- MCCheck
  Infer <- MCInfer
  Reduce <- MCReduce
  Compare <- MCCompare
SPECIFICATION Spec
INVARIANT TypesAreClosed
CHECK_DEADLOCK FALSE
