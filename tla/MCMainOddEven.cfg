CONSTANTS
  Program = {}
  Tests <- MCOddEven
  MaxRuns = 1
  MaxIndex = 9
  Texts = {}
  Char <- MCChar
  Alpha <- MCAlpha
  Digits <- MCDigits
SPECIFICATION MainSpec
INVARIANT AsAnnounced
