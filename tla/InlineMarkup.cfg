SPECIFICATION Spec
CONSTANTS
  Word = Word
  Caps = Caps
  Tick = Tick
  Star = Star
  Hash = Hash
  Sources <- MCSources
  MaxLen = 5
CHECK_DEADLOCK FALSE
INVARIANT MarkupVerbatim
