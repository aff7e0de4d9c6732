SPECIFICATION Spec
CONSTANTS
  Kinds <- AllKinds
  Muls <- SmallMuls
  VarVal = 2
  ConstVal <- MinusOne
  MaxLeaves = 2
  MaxNodes = 4
INVARIANT SortedNodes
INVARIANT GradPopulated
INVARIANT GradientsCorrect
PROPERTY FinalGrads
CHECK_DEADLOCK FALSE
