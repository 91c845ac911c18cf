CONSTANTS
  Texts <- MCTexts
  MaxInt = 112
  MaxSignificant = 2
  CodeWidth = 1024
  Scalars <- MCScalars
  Longest = 5
SPECIFICATION Spec
INVARIANT ReadsItsText
CHECK_DEADLOCK FALSE
