SPECIFICATION Spec
CONSTANTS
  Workers = {w1, w2}
  Files = {f1, f2}
  Skipped = {}
  Outside = {outside}
  Listing <- MCListing
  Texts = {text}
  Gone = gone
  Shas = {commit}
  Unknown = unknown
  Batches <- MCBatches
  Units <- MCUnits
  Attempts = 2
  Cap = 2
  f1 = f1
  f2 = f2
  outside = outside
INVARIANTS TypeOK ExitHonest OnlyFaultsTruncate BackoffKept
PROPERTIES NoOverwrite RunEnds RerunCompletes
