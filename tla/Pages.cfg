SPECIFICATION PagesSpec
CONSTANTS
  Workers = {w1, w2}
  Files = {changed, added}
  Skipped = {added}
  Outside = {}
  Listing <- MCListing
  Batches <- MCBatches
  Texts = {"old", "new"}
  Gone = "gone"
  Shas = {1, 2}
  Unknown = 0
  Units <- MCUnits
  Attempts = 1
  Cap = 0
  Content <- MCContent
  changed = changed
  added = added
INVARIANTS StampTrue PagesCurrent
SYMMETRY MCSymmetry
