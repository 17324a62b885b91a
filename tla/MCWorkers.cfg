CONSTANTS
  Inputs <- MCInputs
  MaxRel = 31
  MaxThreads = 3
  PageSize = 16
SPECIFICATION LiveSpec
INVARIANTS
  RunsFinishedCode
  OutcomeIsInOrder
PROPERTIES
  NativeFollowsTheSource
  ReturnsWhenDecided
CHECK_DEADLOCK FALSE
