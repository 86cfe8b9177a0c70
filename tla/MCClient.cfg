SPECIFICATION FairSpec
CONSTANTS
  me = me
  you = you
  us = us
  e1 = e1
  e2 = e2
  e3 = e3
  p1 = p1
  p2 = p2
  a1 = a1
  a2 = a2
  x = x
  y = y
  z = z
  Nothing = Nothing
  Invalid = Invalid
  Nobody = Nobody
  Aliases = {a1, a2}
  InitialDB <- TheDB
  Logins <- TheLogins
  Signups <- TheSignups
  Titles <- TheTitles
  Plans <- ThePlans

INVARIANTS TypeOK Agreement RightText NoNullFile ProfileAgrees ToldTruly Listed ShownIsOpened
PROPERTIES RightBlame Reached
CHECK_DEADLOCK FALSE
