SPECIFICATION Spec
CONSTANTS
  me = me
  ann = ann
  bob = bob
  white = white
  red = red
  green = green
  Me = me
  Others = {ann, bob}
  White = white
  Primary = {red}
  Secondary = {green}
  Documents <- TheDocuments
  Several = 2
  Plans <- ThePlans
  Width = 4
  Radix = 2
  Wire <- TheWire
INVARIANTS TypeOK ShownIsText Highlighted FieldsSurvive
PROPERTIES CursorsFollow
CHECK_DEADLOCK FALSE
