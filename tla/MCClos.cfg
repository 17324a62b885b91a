CONSTANTS
  Classes = {"a", "b", "c"}
  Alphabet <- MCAlphabet
  SuperLists <- MCSuperLists
  Methods <- MCMethods
  Arguments <- MCArguments
  MaxMethods = 3
SPECIFICATION Spec
INVARIANTS
  SubtypesAreAncestors
  MethodsRunInOrder
CONSTRAINT WhileSettled
