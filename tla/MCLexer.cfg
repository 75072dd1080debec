CONSTANTS
  Char <- MCChar
  Alpha <- MCAlpha
  Digits <- MCDigits
  Sources <- MCSources
  Longest = 5
SPECIFICATION Spec
CHECK_DEADLOCK FALSE
INVARIANTS TypeOK PositionsTrue LongestMatch
PROPERTY Ends
