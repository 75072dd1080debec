CONSTANTS
  Subjects = {"targets"}
SPECIFICATION Spec
CHECK_DEADLOCK FALSE
INVARIANT GrammarAgrees
