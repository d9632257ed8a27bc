SPECIFICATION RstSpec
CONSTANTS
  Lines <- MCLines
  Texts <- MCTexts
  MaxLines = 4
  Word = Word
  Caps = Caps
  Tick = Tick
  Star = Star
  Hash = Hash
  Sources <- MCSources
  MaxLen = 5
  Spellings <- MCSpellings
INVARIANTS SplitTypeOK Partition DirectivesVerbatim UnderlinesKept
           TypeOK TokensOnce ProtectLossless NothingDropped
PROPERTY AllRendered
CHECK_DEADLOCK FALSE
