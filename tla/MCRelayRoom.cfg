SPECIFICATION Spec
CONSTANTS
  a = a
  b = b
  c = c
  e1 = e1
  e2 = e2
  al = al
  m1 = m1
  m2 = m2
  All = All
  Users <- ThreeUsers
  Edits = {}
  Alignments = {}
  Author <- NoAuthor
  Chats = {m1, m2}
  MaxParticipants = 2
  MaxRecent = 1
  MaxOpens <- OpensOnce
  MaxReloads <- NoReloads
  MaxCrashes = 1
INVARIANTS TypeOK ChatContiguous PresenceAgrees
CHECK_DEADLOCK FALSE
SYMMETRY Anyone
