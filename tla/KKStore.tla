------------------------------- MODULE KKStore -------------------------------
(***************************************************************************)
(* The documents of the server: the database that says who shares which    *)
(* document, the map of the open ones, the KKFile objects with their       *)
(* consumer threads, and the files on disk.  Sessions open, save, leave    *)
(* and delete documents; the process may be interrupted at any time.       *)
(*                                                                         *)
(* A document is known by its hash, and to a user by a name.  A client     *)
(* that creates one sends the name in the place of the hash.  The text is  *)
(* the set of the edits applied to it.  Every handler, the timer and the   *)
(* deletion of objects run on the main thread, one at a time.              *)
(***************************************************************************)
EXTENDS Integers, Sequences, FiniteSets

CONSTANTS
  Sessions, Users, UserOf,  \* sessions and the user of each
  Names,         \* names of documents
  Hashes,        \* hashes that createFile generates ...
  NameOf,        \* ... from a name, which can be read from the hash
  Edits,         \* edits of any document
  Close,         \* the entry CLOSE_FILE of a queue
  Torn,          \* a file whose writing was interrupted
  MaxParticipants,  \* participants a document accepts (25 in the code)
  MaxObjects,    \* bound: KKFile objects made by one process
  Outages,       \* bound: sets of database calls of one request that may fail
  MaxFaults,     \* bound: such requests and interruptions of the process
  PoolSize       \* threads of the pool (50 in the code)

\* What a client may ask for and what a document may be called on disk.
Docs == Hashes \cup Names

ASSUME SessionsAssumption == UserOf \in [Sessions -> Users]
ASSUME DocsAssumption == Hashes \cap Names = {} /\ Close \notin Edits
ASSUME TornAssumption == \A text \in SUBSET Edits : Torn # text
ASSUME PoolAssumption == PoolSize \in Nat \ {0} /\ MaxObjects \in Nat

VARIABLES
  \* the process
  mem,        \* files: the map of open documents; objects; file: KKSession::file
  \* the database
  owners,     \* FILES_OWNERS: users and the documents they share
  active,     \* ... those of them with ACTIVE = 1
  rows,       \* FILES: the document that a user knows by a name
  \* the file system
  disk,
  \* history, read by properties and bounds only
  opened,     \* sessions told that they have a document open
  sent,       \* edits sent
  applied,    \* edits applied to each document, since the last interruption
  stored,     \* edits that have been on disk
  overlap,    \* a document was opened while an old object of it was alive
  failures, crashes

data == <<owners, active, rows>>
history == <<sent, applied, stored, overlap, failures, crashes>>
vars == <<mem, data, disk, opened, history>>

NoObject == 0
NoMem == [files   |-> [d \in Docs |-> NoObject],
          objects |-> <<>>,
          file    |-> [s \in Sessions |-> NoObject]]

Object(hash, text, users) ==
  [hash |-> hash, text |-> text, users |-> users, queue |-> <<>>,
   participants |-> {}, thread |-> "queued", alive |-> TRUE]

Init ==
  /\ mem = NoMem
  /\ owners = {} /\ active = {} /\ rows = {}
  /\ disk = [d \in Docs |-> {}]
  /\ opened = {} /\ sent = {} /\ overlap = FALSE
  /\ applied = [d \in Docs |-> {}] /\ stored = [d \in Docs |-> {}]
  /\ failures = 0 /\ crashes = 0

-----------------------------------------------------------------------------
(* Files and objects.                                                      *)

Alive(m, d) == {o \in DOMAIN m.objects : m.objects[o].alive /\ m.objects[o].hash = d}

\* initFile: what a file holds; nothing can be read of one cut short.
\* (Variant: the object starts empty.)
ReadNothing(d) == {}
Read(d) == IF disk[d] = Torn THEN {} ELSE disk[d]

\* KKFileSystem::openFile, initFile, and the entry in the map.
Opened(m, d, users) ==
  [m EXCEPT !.objects = Append(@, Object(d, Read(d), users)),
            !.files[d] = Len(m.objects) + 1]

\* flushCrdtText
Flush(o) ==
  LET object == mem.objects[o]
  IN  /\ disk' = [disk EXCEPT ![object.hash] = object.text]
      /\ stored' = [stored EXCEPT ![object.hash] = @ \cup object.text]

\* disconnectFromFile: leave, and close the document if nobody is left.
\* (Variant: off by one.)
LastLeftOffByOne(participants) == Cardinality(participants) <= 1
LastLeft(participants) == participants = {}

Left(m, s) ==
  LET o    == m.file[s]
      rest == m.objects[o].participants \ {UserOf[s]}
      shut == LastLeft(rest)
  IN  IF o = NoObject \/ UserOf[s] \notin m.objects[o].participants THEN m
      ELSE [m EXCEPT
              !.objects[o].participants = rest,
              !.objects[o].queue = IF shut THEN Append(@, Close) ELSE @,
              !.files[m.objects[o].hash] = IF shut THEN NoObject ELSE @,
              !.file[s] = NoObject]

\* KKFile::join of the object o.
Joined(m, s, o) ==
  [m EXCEPT !.objects[o].participants = @ \cup {UserOf[s]}, !.file[s] = o]

-----------------------------------------------------------------------------
(* The database.  A call finds it unreachable or takes effect; an INSERT   *)
(* against a key goes unnoticed (nobody reads the result of exec).         *)

Owners(d) == {u \in Users : <<u, d>> \in owners}

\* existFileByUsername, and addFile: the key of FILES is (FILENAME, USERNAME).
Knows(R, u, n) == \E row \in R : row.user = u /\ row.name = n
FileAdded(R, n, d, u) ==
  IF Knows(R, u, n) THEN R ELSE R \cup {[name |-> n, hash |-> d, user |-> u]}

\* updateAccessShareFile sets ACTIVE.  (Variant: the access time only.)
AccessTimeOnly(u, d) == active
Accessed(u, d) == active \cup ({<<u, d>>} \cap owners)

\* KKFile::addUser.  (Variant: forgotten.)
UserNotAdded(m, o, u) == m
UserAdded(m, o, u) == [m EXCEPT !.objects[o].users = @ \cup {u}]

\* The calls of an OPEN_FILE request.
Calls == {"users", "free", "create", "share", "own", "name", "add", "access"}

\* down: the calls of one request that fail.
Failing(down) ==
  LET more == IF down = {} THEN 0 ELSE 1
  IN  /\ failures + more + crashes <= MaxFaults
      /\ failures' = failures + more

-----------------------------------------------------------------------------
(* connectToFile, second half: the session s, with memory m and rows R, has*)
(* found or made the object o and takes part in it; its user calls it n.   *)

InDocument(s, m)  == mem' = m /\ opened' = opened \cup {s}
NoDocument(s, m)  == mem' = m /\ opened' = opened \ {s}

\* The user is new to the document.
NewOwner(s, m, R, o, n, down) ==
  LET u == UserOf[s]
      d == m.objects[o].hash
      own == IF "own" \in down THEN {} ELSE {<<u, d>>}
  IN  /\ owners' = owners \cup own /\ active' = active \cup own
      /\ \/ /\ down \cap {"own", "add"} = {}
            /\ rows' = FileAdded(R, n, d, u)
            /\ InDocument(s, Joined(UserAdded(m, o, u), s, o))
         \/ /\ down \cap {"own", "add"} # {}
            /\ rows' = R
            /\ NoDocument(s, [m EXCEPT !.file[s] = o])

\* The user shares the document already, or the database did not say.
OldOwner(s, m, R, o, n, down) ==
  LET u == UserOf[s]
      d == m.objects[o].hash
      new == "name" \notin down /\ ~Knows(R, u, n)
  IN  /\ UNCHANGED owners
      /\ \/ /\ ~(new /\ "add" \in down)
            /\ rows' = IF new THEN FileAdded(R, n, d, u) ELSE R
            /\ active' = IF "access" \in down THEN active ELSE Accessed(u, d)
            /\ InDocument(s, Joined(m, s, o))
         \/ /\ new /\ "add" \in down
            /\ rows' = R /\ UNCHANGED active
            /\ NoDocument(s, [m EXCEPT !.file[s] = NoObject])

Participate(s, m, R, o, n, down) ==
  IF "share" \notin down /\ <<UserOf[s], m.objects[o].hash>> \notin owners
  THEN NewOwner(s, m, R, o, n, down)
  ELSE OldOwner(s, m, R, o, n, down)

-----------------------------------------------------------------------------
(* The requests of a session.  An OPEN_FILE request names a document by d  *)
(* (a hash, or the name of a new one) and by n.                            *)

\* handleOpenFileRequest: the user is in already, or too many are.
\* (Variant: a user may be in twice.)
RefusedIfFull(s, d) ==
  /\ mem.files[d] # NoObject
  /\ Cardinality(mem.objects[mem.files[d]].participants) >= MaxParticipants
Refused(s, d) ==
  /\ mem.files[d] # NoObject
  /\ LET participants == mem.objects[mem.files[d]].participants
     IN  UserOf[s] \in participants \/ Cardinality(participants) >= MaxParticipants

MayMake(m) == Len(m.objects) < MaxObjects

\* The document is open.
OpenKnown(s, d, n, down) ==
  LET m == Left(mem, s)
  IN  /\ m.files[d] # NoObject
      /\ Participate(s, m, rows, m.files[d], n, down)
      /\ UNCHANGED <<disk, sent, applied, stored, overlap, crashes>>

\* The document is not open, and somebody shares it or the database is down.
OpenStored(s, d, n, down) ==
  LET m == Left(mem, s)
  IN  /\ m.files[d] = NoObject /\ MayMake(m)
      /\ "users" \in down \/ Owners(d) # {}
      /\ Participate(s, Opened(m, d, IF "users" \in down THEN {} ELSE Owners(d)),
                     rows, Len(m.objects) + 1, n, down)
      /\ overlap' = (overlap \/ Alive(m, d) # {})
      /\ UNCHANGED <<disk, sent, applied, stored, crashes>>

\* A hash that createFile has not generated before.
Fresh(h) ==
  /\ Owners(h) = {} /\ \A row \in rows : row.hash # h
  /\ \A o \in DOMAIN mem.objects : mem.objects[o].hash # h

\* Nobody shares the document: a new one, unless the user knows the name.
OpenNew(s, d, n, down) ==
  LET u == UserOf[s]
      m == Left(mem, s)
  IN  /\ m.files[d] = NoObject /\ "users" \notin down /\ Owners(d) = {}
      /\ \/ /\ "free" \in down \/ Knows(rows, u, n)
            /\ NoDocument(s, m)
            /\ UNCHANGED data
         \/ /\ "free" \notin down /\ ~Knows(rows, u, n) /\ "create" \in down
            /\ NoDocument(s, [m EXCEPT !.file[s] = NoObject])
            /\ UNCHANGED data
         \/ /\ down \cap {"free", "create"} = {} /\ ~Knows(rows, u, n) /\ MayMake(m)
            /\ \E h \in Hashes :
                 /\ Fresh(h) /\ NameOf[h] = n
                 /\ Participate(s, Opened(m, h, {}), FileAdded(rows, n, h, u),
                                Len(m.objects) + 1, n, down)
      /\ UNCHANGED <<disk, sent, applied, stored, overlap, crashes>>

\* What a client asks for: a new name, a document of the user's list, or one
\* whose link was sent to the user (the hash contains the name).
Requests ==
  {<<n, n>> : n \in Names}
    \cup {<<h, NameOf[h]>> : h \in {k \in Hashes : ~Fresh(k)}}

Open(s) ==
  \E request \in Requests, down \in Outages \cup {{}} :
    /\ Failing(down)
    /\ ~Refused(s, request[1])
    /\ \/ OpenKnown(s, request[1], request[2], down)
       \/ OpenStored(s, request[1], request[2], down)
       \/ OpenNew(s, request[1], request[2], down)

\* QUIT_FILE and LOGOUT.
Quit(s) ==
  /\ mem.file[s] # NoObject
  /\ NoDocument(s, Left(mem, s))
  /\ UNCHANGED <<data, disk, history>>

\* handleDisconnection: the session and its pointer are gone.
Disconnect(s) ==
  /\ mem.file[s] # NoObject
  /\ NoDocument(s, [Left(mem, s) EXCEPT !.file[s] = NoObject])
  /\ UNCHANGED <<data, disk, history>>

\* deleteFile and deactiveShareFile.
FileDeleted(u, d) == {row \in rows : row.user # u \/ row.hash # d}
ShareDeactivated(u, d) == active \ {<<u, d>>}

\* handleDeleteFileRequest: not while this session has the document open.
Delete(s, d) ==
  LET u == UserOf[s]
  IN  /\ <<u, d>> \in active
      /\ mem.file[s] # NoObject => mem.objects[mem.file[s]].hash # d
      /\ \E down \in SUBSET {"delete", "deactivate"} :
           /\ rows' = IF "delete" \in down THEN rows ELSE FileDeleted(u, d)
           /\ active' = IF down # {} THEN active ELSE ShareDeactivated(u, d)
           /\ Failing(down)
      /\ UNCHANGED <<mem, owners, disk, opened, sent, applied, stored, overlap, crashes>>

\* handleCrdtRequest
Edit(s, e) ==
  /\ s \in opened /\ e \notin sent
  /\ mem' = [mem EXCEPT !.objects[mem.file[s]].queue = Append(@, e)]
  /\ sent' = sent \cup {e}
  /\ UNCHANGED <<data, disk, opened, applied, stored, overlap, failures, crashes>>

\* handleSaveFileRequest, and handleTimeout of an object with participants.
Save(s) ==
  /\ s \in opened
  /\ Flush(mem.file[s])
  /\ UNCHANGED <<mem, data, opened, sent, applied, overlap, failures, crashes>>
Autosave(o) ==
  /\ mem.objects[o].alive /\ mem.objects[o].participants # {}
  /\ Flush(o)
  /\ UNCHANGED <<mem, data, opened, sent, applied, overlap, failures, crashes>>

-----------------------------------------------------------------------------
(* The consumer threads and the end of an object.                          *)

\* QThreadPool::start: a thread runs the task once it is free.
Running == {o \in DOMAIN mem.objects : mem.objects[o].thread = "running"}
Start(o) ==
  /\ mem.objects[o].thread = "queued" /\ mem.objects[o].alive
  /\ Cardinality(Running) < PoolSize
  /\ mem' = [mem EXCEPT !.objects[o].thread = "running"]
  /\ UNCHANGED <<data, disk, opened, history>>

\* One turn of consumeMessages.
Consume(o) ==
  LET object == mem.objects[o]
      entry  == Head(object.queue)
  IN  /\ object.thread = "running" /\ object.alive /\ object.queue # <<>>
      /\ mem' = [mem EXCEPT
                   !.objects[o].queue = Tail(@),
                   !.objects[o].thread = IF entry = Close THEN "stopped" ELSE @,
                   !.objects[o].text = @ \cup ({entry} \ {Close})]
      /\ applied' = [applied EXCEPT ![object.hash] = @ \cup ({entry} \ {Close})]
      /\ UNCHANGED <<data, disk, opened, sent, stored, overlap, failures, crashes>>

\* Nobody points to the object any more.  (Variant: the map alone counts.)
ReleasedByMap(o) == \A d \in Docs : mem.files[d] # o
Released(o) ==
  /\ \A s \in Sessions : mem.file[s] # o
  /\ \A d \in Docs : mem.files[d] # o

\* deleteLater and ~KKFile, whatever the consumer is doing.
Destroy(o) ==
  /\ mem.objects[o].alive /\ Released(o)
  /\ mem' = [mem EXCEPT !.objects[o].alive = FALSE]
  /\ Flush(o)
  /\ UNCHANGED <<data, opened, sent, applied, overlap, failures, crashes>>

\* The process is interrupted, perhaps while it writes a file: opening the
\* file for writing has emptied it.  It is started again.
Interrupt ==
  /\ failures + crashes < MaxFaults
  /\ \/ UNCHANGED disk
     \/ \E o \in DOMAIN mem.objects :
          /\ mem.objects[o].alive
          /\ \/ mem.objects[o].participants # {} \/ Released(o)
             \/ \E s \in opened : mem.file[s] = o
          /\ disk' = [disk EXCEPT ![mem.objects[o].hash] = Torn]
  /\ mem' = NoMem /\ opened' = {}
  /\ applied' = [d \in Docs |-> IF disk'[d] = Torn THEN {} ELSE disk'[d]]
  /\ crashes' = crashes + 1
  /\ UNCHANGED <<data, sent, stored, overlap, failures>>

Next ==
  \/ \E s \in Sessions :
       \/ Open(s) \/ Quit(s) \/ Disconnect(s) \/ Save(s)
       \/ \E d \in Docs : Delete(s, d)
       \/ \E e \in Edits : Edit(s, e)
  \/ \E o \in DOMAIN mem.objects : Start(o) \/ Consume(o) \/ Autosave(o) \/ Destroy(o)
  \/ Interrupt

Spec == Init /\ [][Next]_vars

-----------------------------------------------------------------------------
(* Properties.                                                             *)

\* Memory is never reached through a pointer that outlives its object: the
\* map and the sessions hold live objects, the map each under its own hash,
\* and who has a document open holds one.
TypeOK ==
  /\ DOMAIN mem.objects = 1 .. Len(mem.objects) /\ Len(mem.objects) <= MaxObjects
  /\ \A o \in DOMAIN mem.objects :
       /\ mem.objects[o].hash \in Docs /\ mem.objects[o].text \subseteq Edits
       /\ mem.objects[o].users \subseteq Users /\ mem.objects[o].participants \subseteq Users
       /\ mem.objects[o].thread \in {"queued", "running", "stopped"}
  /\ \A d \in Docs : mem.files[d] # NoObject =>
       mem.objects[mem.files[d]].hash = d /\ mem.objects[mem.files[d]].alive
  /\ \A s \in Sessions : mem.file[s] # NoObject => mem.objects[mem.file[s]].alive
  /\ \A s \in opened : mem.file[s] # NoObject
  /\ active \subseteq owners
  /\ \A d \in Docs : disk[d] = Torn \/ disk[d] \subseteq Edits

\* Who was told that a document is open is a participant of it, and stays one
\* until it leaves, whatever other sessions of the same user do (participants
\* are keyed by user name).  Every database call must have answered: see the
\* hazard of connectToFile's early returns.
InFile ==
  failures = 0 =>
    \A s \in opened : UserOf[s] \in mem.objects[mem.file[s]].participants

\* The map holds exactly the objects in which somebody takes part: nobody
\* edits a copy that the next to open the document would not find, and no
\* document stays open for nobody.
OpenWhileUsed ==
  failures = 0 =>
    \A o \in DOMAIN mem.objects : mem.objects[o].alive =>
      (mem.objects[o].participants # {} <=> mem.files[mem.objects[o].hash] = o)

\* Everybody who takes part is in the list that SET_PARTECIPANTS is made from
\* (getParticipants walks users, not participants).
ParticipantsShown ==
  failures = 0 =>
    \A o \in DOMAIN mem.objects : mem.objects[o].participants \subseteq mem.objects[o].users

\* A document that a session opens is in the list of documents of its user
\* afterwards (getUserFiles), also when the user had deleted it before; unless
\* the user knows another document by that name, whose FILES row it would need.
Opens(s) ==
  /\ s \in opened'
  /\ s \notin opened \/ mem'.file[s] # mem.file[s]
OpenListsIt(s) ==
  LET u == UserOf[s]
      d == mem'.objects[mem'.file[s]].hash
      n == IF d \in Hashes THEN NameOf[d] ELSE d
  IN  (\A row \in rows : row.user = u /\ row.name = n => row.hash = d)
        => <<u, d>> \in active' /\ \E row \in rows' : row.user = u /\ row.hash = d
OpenLists ==
  [][\A s \in Sessions : Opens(s) /\ failures' = failures => OpenListsIt(s)]_vars

\* Every edit that the server applied to a document is in its file or in the
\* text of a live object that will write it, while nobody opens the document
\* during the destruction of its previous object.
Kept(d) == (IF disk[d] = Torn THEN {} ELSE disk[d])
             \cup UNION {mem.objects[o].text : o \in Alive(mem, d)}
NothingLost == ~overlap => \A d \in Docs : applied[d] \subseteq Kept(d)

\* README.md, line 12: documents are stored on the file system "so as not to
\* lose their content in case of accidental interruption of the process": what
\* was once on disk is still there.  (It is not: flushCrdtText empties the file
\* before it writes it again.)
SurvivesInterruption ==
  ~overlap => \A d \in Docs : stored[d] \subseteq (IF disk[d] = Torn THEN {} ELSE disk[d])
=============================================================================
