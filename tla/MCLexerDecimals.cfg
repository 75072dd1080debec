CONSTANTS
  Char <- MCChar
  Alpha <- MCAlpha
  Digits <- MCDigits
  Sources <- MCNumerals
  Longest = 5
SPECIFICATION Spec
CHECK_DEADLOCK FALSE
INVARIANT LongestMatch
