SPECIFICATION Spec
CONSTANTS
  a = a
  b = b
  c = c
  e1 = e1
  e2 = e2
  al = al
  m1 = m1
  m2 = m2
  All = All
  Users <- TwoUsers
  Edits <- Edits3
  Alignments = {al}
  Author <- Author3
  Chats = {}
  MaxParticipants = 2
  MaxRecent = 1
  MaxOpens <- OpensAB
  MaxReloads <- NoReloads
  MaxCrashes = 0
INVARIANTS Agreement NoDuplicate Causal CloseIsLast SessionHasFile
PROPERTIES ImplementsDocument
CHECK_DEADLOCK FALSE
