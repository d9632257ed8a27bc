SPECIFICATION SplitSpec
CONSTANTS
  Lines <- MCLines
  Texts <- MCTexts
  MaxLines = 4
CHECK_DEADLOCK FALSE
INVARIANT LiteralsVerbatim
