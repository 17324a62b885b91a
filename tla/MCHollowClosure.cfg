SPECIFICATION Spec
CONSTANTS
  Forms <- FunctionFromAList
  TailForms <- NoForms
  CodeOf <- MCCodeOf
  TreeEval <- MCTreeEval
  DepthOf <- MCDepthOf
  ScopesOf <- MCScopesOf
INVARIANTS
  NoHollowClosure
