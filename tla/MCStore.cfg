SPECIFICATION Spec
CONSTANTS
  s1 = s1  s2 = s2  s3 = s3
  a = a  b = b  notes = notes  h1 = h1  h2 = h2  e1 = e1  e2 = e2
  Sessions = {s1, s2, s3}
  Users = {a, b}
  UserOf <- UserOfEach
  Names = {notes}
  Hashes = {h1}
  NameOf <- NameOfHash
  Edits = {e1}
  Close = Close
  Torn = Torn
  MaxParticipants = 25
  MaxObjects = 2
  Outages <- OneOrAll
  MaxFaults = 1
  PoolSize = 1
CHECK_DEADLOCK FALSE
INVARIANTS TypeOK InFile OpenWhileUsed ParticipantsShown NothingLost
PROPERTY OpenLists
SYMMETRY SessionsOfA
