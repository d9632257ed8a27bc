SPECIFICATION Spec
CONSTANTS
  Workers = {w1, w2}
  Pages = {p1, p2}
  Images = {d, s, r}
  Kind <- MCKind
  Layouts <- MCLayouts
  Toolsets <- MCToolsets
  MaxVersion = 2
  d = d
  s = s
  r = r
  p1 = p1
  p2 = p2
INVARIANTS TypeOK FiguresFresh
SYMMETRY Alike
