CONSTANTS
  Subjects = {"nested"}
SPECIFICATION Spec
CHECK_DEADLOCK FALSE
INVARIANT GrammarAgrees
