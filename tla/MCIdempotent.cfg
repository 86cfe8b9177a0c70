SPECIFICATION Spec
CONSTANTS
  x = x
  nl = nl
  f1 = f1
  f2 = f2
  Values = {x, nl}
  NewLine = nl
  Fonts = {f1}
  Aligns = {1}
  Base = 4
  Boundary = 2
  Huge = 1000
  Sites = {1, 2}
  Plans <- CrossingPlan
INVARIANTS Idempotence
CHECK_DEADLOCK FALSE
