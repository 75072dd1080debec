CONSTANTS
  Subjects = {"operators", "operands", "assignments", "branches", "loops", "steps", "declarations", "bodies"}
SPECIFICATION Spec
CHECK_DEADLOCK FALSE
INVARIANT GrammarAgrees
