SPECIFICATION FairSpec
CONSTANTS
  a = a
  b = b
  c = c
  e1 = e1
  e2 = e2
  al = al
  m1 = m1
  m2 = m2
  All = All
  Users <- TwoUsers
  Edits <- Edits1
  Alignments = {}
  Author <- Author1
  Chats = {}
  MaxParticipants = 2
  MaxRecent = 1
  MaxOpens <- OpensOnce
  MaxReloads <- ReloadsB
  MaxCrashes = 1
PROPERTIES EditsApplied EditsDelivered OpenAnswered
CHECK_DEADLOCK FALSE
