CONSTANTS
  Garbage = Garbage
  Const <- MCConst
  Word = {0, 7}
  Name <- MCName
  MaxConsts = 2
  MaxWords = 1
  MaxSaved = 2
SPECIFICATION Spec
INVARIANT RoundTrip
CHECK_DEADLOCK FALSE
