SPECIFICATION Spec
CONSTANTS
  Files = {f, g}
  f = f
  g = g
  MaxTexts = 3
  MaxRows = 2
SYMMETRY Symmetry
CHECK_DEADLOCK FALSE
INVARIANTS
  SessionLinesKeepTheirNumber
  FileErrorsShowTheirLine
