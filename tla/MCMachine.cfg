SPECIFICATION LiveSpec
CONSTANTS
  Forms <- MCForms
  TailForms <- MCTailForms
  CodeOf <- MCCodeOf
  TreeEval <- MCTreeEval
  DepthOf <- MCDepthOf
  ScopesOf <- MCScopesOf
INVARIANTS
  TypeOK
  CodeIsWellTyped
  OwnOperandsOnly
  NothingLeftOver
  ScopesClosed
  TailFormsRunInOneFrame
  CompiledMeansTheForm
PROPERTIES
  Finishes
