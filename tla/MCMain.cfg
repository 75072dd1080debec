CONSTANTS
  Program = {}
  Tests <- MCTests
  MaxRuns = 3
  MaxIndex = 11
  Texts <- MCScript
  Char <- MCChar
  Alpha <- MCAlpha
  Digits <- MCDigits
SPECIFICATION MainSpec
INVARIANTS CodeVerified NoDangling StackBalanced AsAnnounced EndToEnd
