CONSTANTS
  Calls = {c1, c2, c3}
  MaxSockets = 3
SPECIFICATION Spec
INVARIANTS TypeOK RightAnswer OneConnection SubscribedWhenOpen AnswerNotDropped
SYMMETRY Symmetry
CHECK_DEADLOCK FALSE
