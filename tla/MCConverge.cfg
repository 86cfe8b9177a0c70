SPECIFICATION Spec
CONSTANTS
  x = x
  nl = nl
  f1 = f1
  f2 = f2
  Values = {x, nl}
  NewLine = nl
  Fonts = {f1, f2}
  Aligns = {1, 2}
  Base = 4
  Boundary = 2
  Huge = 1000
  Sites = {1, 2}
  Plans <- AllPlans
CONSTRAINT OnlyPlaced
INVARIANTS TypeOK CopiesSorted LinesWellFormed NoWildRead ExactChanges PlacedConverge FontsConverge
CHECK_DEADLOCK FALSE
