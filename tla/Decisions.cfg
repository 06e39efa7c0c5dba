CONSTANTS
  Proc = {p1, p2}
  Decision = {d1, d2}
  Option = {left}
  Item = {f1, f2}
  MaxRequest = 3
  MaxPredict = 2
  MaxSnapshot = 2
  MaxAdvice = 1
  None = None
SYMMETRY Symmetry
SPECIFICATION Spec
CHECK_DEADLOCK FALSE
INVARIANTS
  OnlyTheStoredChoiceIsLearned
  AdviceIsNotOutrun
PROPERTIES
  AnsweredIsLearned
