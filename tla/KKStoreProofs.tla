--------------------------- MODULE KKStoreProofs ---------------------------
(***************************************************************************)
(* Theorems about the documents of the server (KKStore), for every set of  *)
(* sessions, users, documents and edits, every choice of the calls to the  *)
(* database that may fail and every bound.                                 *)
(***************************************************************************)
EXTENDS KKStore, TLAPS

-----------------------------------------------------------------------------
(* The inductive invariant.                                                *)

Objects == [hash: Docs, text: SUBSET Edits, users: SUBSET Users,
            queue: Seq(Edits \cup {Close}), participants: SUBSET Users,
            thread: {"queued", "running", "stopped"}, alive: BOOLEAN]
Memory == [files: [Docs -> Nat], objects: Seq(Objects), file: [Sessions -> Nat]]

\* The map and the sessions point to live objects, the map to each under its
\* own hash.
Live(m, o) == o \in 1..Len(m.objects) /\ m.objects[o].alive = TRUE
Pointers(m) ==
  /\ \A d \in Docs : m.files[d] # NoObject => Live(m, m.files[d]) /\ m.objects[m.files[d]].hash = d
  /\ \A s \in Sessions : m.file[s] # NoObject => Live(m, m.file[s])

\* A session with a document takes part in it, for its user alone.
TakesPart(m) ==
  /\ \A s \in Sessions : m.file[s] # NoObject => UserOf[s] \in m.objects[m.file[s]].participants
  /\ \A s, t \in Sessions :
       m.file[s] # NoObject /\ m.file[s] = m.file[t] /\ UserOf[s] = UserOf[t] => s = t

\* But for the object o, somebody takes part in exactly the objects of the map.
InMap(m, o) ==
  \A i \in 1..Len(m.objects) : i # o /\ m.objects[i].alive = TRUE =>
    (m.objects[i].participants # {} <=> m.files[m.objects[i].hash] = i)

\* The list of an object of the map has everybody who shares the document,
\* and every list everybody who takes part.
Lists(m, owns) ==
  /\ \A d \in Docs : m.files[d] # NoObject =>
       \A u \in Users : <<u, d>> \in owns => u \in m.objects[m.files[d]].users
  /\ \A i \in 1..Len(m.objects) : m.objects[i].participants \subseteq m.objects[i].users

\* What was applied to a document is in the text of its one live object or,
\* if it has none, in its file.
OneAlive(m) ==
  \A i, j \in 1..Len(m.objects) :
    m.objects[i].alive = TRUE /\ m.objects[j].alive = TRUE
      /\ m.objects[i].hash = m.objects[j].hash => i = j
Saved(m, app, dsk) ==
  /\ \A i \in 1..Len(m.objects) : m.objects[i].alive = TRUE =>
       app[m.objects[i].hash] \subseteq m.objects[i].text
  /\ \A d \in Docs :
       (\A i \in 1..Len(m.objects) : m.objects[i].alive = TRUE => m.objects[i].hash # d)
         => app[d] \subseteq (IF dsk[d] = Torn THEN {} ELSE dsk[d])

Tables ==
  /\ owners \subseteq Users \X Docs /\ active \subseteq owners
  /\ disk \in [Docs -> (SUBSET Edits) \cup {Torn}]
  /\ applied \in [Docs -> SUBSET Edits]
  /\ failures \in Nat
  /\ overlap \in BOOLEAN

Used(m, owns, open) ==
  /\ TakesPart(m) /\ InMap(m, NoObject) /\ Lists(m, owns)
  /\ \A s \in Sessions : m.file[s] # NoObject => s \in open

SInv ==
  /\ mem \in Memory /\ Len(mem.objects) <= MaxObjects /\ Pointers(mem)
  /\ opened \subseteq Sessions /\ \A s \in opened : mem.file[s] # NoObject
  /\ Tables
  /\ failures = 0 => Used(mem, owners, opened)
  /\ overlap = FALSE => OneAlive(mem) /\ Saved(mem, applied, disk)

-----------------------------------------------------------------------------
(* What the operators on the memory do.                                    *)

LEMMA ObjectType ==
  ASSUME NEW m \in Memory, NEW i \in 1..Len(m.objects)
  PROVE  /\ m.objects[i] \in Objects
         /\ m.objects[i].hash \in Docs /\ m.objects[i].text \subseteq Edits
         /\ m.objects[i].participants \subseteq Users
<1>1. m.objects[i] \in Objects
  BY DEF Memory
<1> QED
  BY <1>1 DEF Objects

\* n is the memory m after the user of s has left the object of s.
Leaves(m, n, s) ==
  LET o == m.file[s]
  IN  /\ n \in Memory /\ Len(n.objects) = Len(m.objects)
      /\ \A i \in 1..Len(m.objects) :
           /\ n.objects[i].hash = m.objects[i].hash /\ n.objects[i].text = m.objects[i].text
           /\ n.objects[i].users = m.objects[i].users /\ n.objects[i].alive = m.objects[i].alive
           /\ n.objects[i].participants =
                IF i = o THEN m.objects[i].participants \ {UserOf[s]} ELSE m.objects[i].participants
      /\ \A t \in Sessions : n.file[t] = IF t = s THEN NoObject ELSE m.file[t]
      /\ \A d \in Docs :
           n.files[d] = IF d = m.objects[o].hash /\ m.objects[o].participants \subseteq {UserOf[s]}
                        THEN NoObject ELSE m.files[d]

\* A session that takes part leaves; any other stays as it is.
LEMMA LeftIs ==
  ASSUME NEW m \in Memory, NEW s \in Sessions, Pointers(m)
  PROVE  \/ /\ Left(m, s) = m
            /\ m.file[s] = NoObject \/ UserOf[s] \notin m.objects[m.file[s]].participants
         \/ /\ m.file[s] # NoObject /\ UserOf[s] \in m.objects[m.file[s]].participants
            /\ Leaves(m, Left(m, s), s)
<1> DEFINE o == m.file[s]
           p == m.objects[o]
           rest == p.participants \ {UserOf[s]}
           q == [p EXCEPT !.participants = rest,
                          !.queue = IF rest = {} THEN Append(@, Close) ELSE @]
           n == [files   |-> [m.files EXCEPT ![p.hash] = IF rest = {} THEN NoObject ELSE @],
                 objects |-> [m.objects EXCEPT ![o] = q],
                 file    |-> [m.file EXCEPT ![s] = NoObject]]
<1>1. CASE o = NoObject \/ UserOf[s] \notin p.participants
  BY <1>1 DEF Left
<1>2. CASE o # NoObject /\ UserOf[s] \in p.participants
  <2>1. o \in 1..Len(m.objects) /\ p \in Objects
    BY <1>2 DEF Pointers, Live, Memory
  <2>2. q \in Objects
    <3>1. Append(p.queue, Close) \in Seq(Edits \cup {Close})
      BY <2>1 DEF Objects
    <3> QED
      BY <2>1, <3>1 DEF Objects
  <2>3. n \in Memory /\ Len(n.objects) = Len(m.objects)
    <3>1. /\ n.objects \in Seq(Objects) /\ Len(n.objects) = Len(m.objects)
      <4> HIDE DEF q
      <4> QED
        BY <2>1, <2>2 DEF Memory
    <3>2. n.files \in [Docs -> Nat]
      BY DEF Memory, NoObject
    <3>3. n.file \in [Sessions -> Nat]
      BY DEF Memory, NoObject
    <3> QED
      BY <3>1, <3>2, <3>3 DEF Memory
  <2>4. Left(m, s) = n
    BY <1>2, <2>1 DEF Left, LastLeft, Memory, Objects
  <2>5. Leaves(m, n, s)
    <3>1. \A i \in 1..Len(m.objects) : n.objects[i] = IF i = o THEN q ELSE m.objects[i]
      BY <2>1 DEF Memory
    <3>2. /\ q.hash = p.hash /\ q.text = p.text /\ q.users = p.users /\ q.alive = p.alive
          /\ q.participants = rest
      BY <2>1 DEF Objects
    <3>3. \A t \in Sessions : n.file[t] = IF t = s THEN NoObject ELSE m.file[t]
      BY DEF Memory
    <3>4. \A d \in Docs : n.files[d] = IF d = p.hash /\ rest = {} THEN NoObject ELSE m.files[d]
      BY DEF Memory
    <3>5. rest = {} <=> p.participants \subseteq {UserOf[s]}
      OBVIOUS
    <3> HIDE DEF n, q, rest
    <3> QED
      BY <2>3, <3>1, <3>2, <3>3, <3>4, <3>5 DEF Leaves, rest
  <2> QED
    BY <1>2, <2>4, <2>5
<1> QED
  BY <1>1, <1>2

\* n is m with a new object of the document d, which the map has.
NewIn(m, n, d, users, text) ==
  LET o == Len(m.objects) + 1
  IN  /\ n \in Memory /\ Len(n.objects) = o
      /\ \A i \in 1..Len(m.objects) : n.objects[i] = m.objects[i]
      /\ n.objects[o].hash = d /\ n.objects[o].text = text /\ n.objects[o].users = users
      /\ n.objects[o].participants = {} /\ n.objects[o].alive = TRUE
      /\ n.file = m.file
      /\ \A e \in Docs : n.files[e] = IF e = d THEN o ELSE m.files[e]

LEMMA ReadIs ==
  ASSUME disk \in [Docs -> (SUBSET Edits) \cup {Torn}], NEW d \in Docs
  PROVE  Read(d) \subseteq Edits
BY DEF Read

LEMMA OpenedIs ==
  ASSUME NEW m \in Memory, NEW d \in Docs, NEW users \in SUBSET Users,
         disk \in [Docs -> (SUBSET Edits) \cup {Torn}]
  PROVE  NewIn(m, Opened(m, d, users), d, users, Read(d))
<1> DEFINE x == Object(d, Read(d), users)
           n == Opened(m, d, users)
<1>1. x \in Objects
  <2>1. <<>> \in Seq(Edits \cup {Close})
    OBVIOUS
  <2> QED
    BY <2>1, ReadIs DEF Object, Objects
<1>2. /\ x.hash = d /\ x.text = Read(d) /\ x.users = users /\ x.participants = {}
      /\ x.alive = TRUE
  BY DEF Object
<1>3. n = [files   |-> [m.files EXCEPT ![d] = Len(m.objects) + 1],
           objects |-> Append(m.objects, x), file |-> m.file]
  <2>1. m = [files |-> m.files, objects |-> m.objects, file |-> m.file]
    BY DEF Memory
  <2> HIDE DEF x
  <2>2. n = [m EXCEPT !.objects = Append(m.objects, x),
                      !.files = [m.files EXCEPT ![d] = Len(m.objects) + 1]]
    BY DEF Opened, x
  <2> HIDE DEF n
  <2> QED
    BY <2>1, <2>2
<1>4. n \in Memory
  <2>1. Append(m.objects, x) \in Seq(Objects) /\ Len(m.objects) + 1 \in Nat
    <3> HIDE DEF x
    <3> QED
      BY <1>1 DEF Memory
  <2> HIDE DEF x
  <2> QED
    BY <1>3, <2>1 DEF Memory
<1>5. /\ Len(n.objects) = Len(m.objects) + 1
      /\ n.objects[Len(m.objects) + 1] = x
      /\ \A i \in 1..Len(m.objects) : n.objects[i] = m.objects[i]
  <2> HIDE DEF x
  <2> QED
    BY <1>1, <1>3 DEF Memory
<1>6. \A e \in Docs : n.files[e] = IF e = d THEN Len(m.objects) + 1 ELSE m.files[e]
  BY <1>3 DEF Memory
<1>7. n.file = m.file
  BY <1>3
<1> HIDE DEF x, n
<1> QED
  BY <1>2, <1>4, <1>5, <1>6, <1>7 DEF NewIn, n

\* n is m with the user of s in the object o, whose list has more users.
Joins(m, n, s, o, more) ==
  /\ n \in Memory /\ Len(n.objects) = Len(m.objects) /\ n.files = m.files
  /\ \A i \in 1..Len(m.objects) :
       /\ n.objects[i].hash = m.objects[i].hash /\ n.objects[i].text = m.objects[i].text
       /\ n.objects[i].alive = m.objects[i].alive
       /\ n.objects[i].users =
            IF i = o THEN m.objects[i].users \cup more ELSE m.objects[i].users
       /\ n.objects[i].participants =
            IF i = o THEN m.objects[i].participants \cup {UserOf[s]} ELSE m.objects[i].participants
  /\ \A t \in Sessions : n.file[t] = IF t = s THEN o ELSE m.file[t]

LEMMA UserAddedIs ==
  ASSUME NEW m \in Memory, NEW o \in 1..Len(m.objects), NEW u \in Users
  PROVE  LET n == UserAdded(m, o, u)
         IN  /\ n \in Memory /\ Len(n.objects) = Len(m.objects)
             /\ n.files = m.files /\ n.file = m.file
             /\ \A i \in 1..Len(m.objects) :
                  n.objects[i] = IF i = o THEN [m.objects[o] EXCEPT !.users = @ \cup {u}]
                                 ELSE m.objects[i]
<1> DEFINE p == m.objects[o]
           x == [p EXCEPT !.users = @ \cup {u}]
<1>0. p \in Objects
  BY DEF Memory
<1>1. x \in Objects
  BY <1>0 DEF Objects
<1>2. UserAdded(m, o, u) =
        [files |-> m.files, objects |-> [m.objects EXCEPT ![o] = x], file |-> m.file]
  <2>1. m = [files |-> m.files, objects |-> m.objects, file |-> m.file]
    BY DEF Memory
  <2>2. UserAdded(m, o, u) = [m EXCEPT !.objects = [m.objects EXCEPT ![o] = x]]
    BY <2>1 DEF UserAdded
  <2> HIDE DEF x
  <2> QED
    BY <2>1, <2>2
<1>3. [m.objects EXCEPT ![o] = x] \in Seq(Objects)
  <2> HIDE DEF x
  <2> QED
    BY <1>1 DEF Memory
<1> HIDE DEF x
<1>4. UserAdded(m, o, u) \in Memory
  BY <1>2, <1>3 DEF Memory
<1> QED
  BY <1>2, <1>3, <1>4 DEF Memory, x

LEMMA JoinedIs ==
  ASSUME NEW m \in Memory, NEW o \in 1..Len(m.objects), NEW s \in Sessions
  PROVE  Joins(m, Joined(m, s, o), s, o, {})
<1> DEFINE p == m.objects[o]
           x == [p EXCEPT !.participants = @ \cup {UserOf[s]}]
           n == Joined(m, s, o)
<1>1. p \in Objects /\ UserOf[s] \in Users
  BY SessionsAssumption DEF Memory
<1>2. /\ x \in Objects /\ x.hash = p.hash /\ x.text = p.text /\ x.alive = p.alive
      /\ x.users = p.users /\ x.participants = p.participants \cup {UserOf[s]}
  BY <1>1 DEF Objects
<1>3. n = [files |-> m.files, objects |-> [m.objects EXCEPT ![o] = x],
           file |-> [m.file EXCEPT ![s] = o]]
  <2>1. m = [files |-> m.files, objects |-> m.objects, file |-> m.file]
    BY DEF Memory
  <2>2. n = [m EXCEPT !.objects = [m.objects EXCEPT ![o] = x], !.file = [m.file EXCEPT ![s] = o]]
    BY <2>1 DEF Joined
  <2> HIDE DEF x, n
  <2> QED
    BY <2>1, <2>2
<1>4. [m.objects EXCEPT ![o] = x] \in Seq(Objects)
  <2> HIDE DEF x
  <2> QED
    BY <1>2 DEF Memory
<1>5. [m.file EXCEPT ![s] = o] \in [Sessions -> Nat]
  BY DEF Memory
<1> HIDE DEF x
<1>6. n \in Memory
  BY <1>3, <1>4, <1>5 DEF Memory
<1>7. /\ Len(n.objects) = Len(m.objects) /\ n.files = m.files
      /\ \A i \in 1..Len(m.objects) : n.objects[i] = IF i = o THEN x ELSE m.objects[i]
      /\ \A t \in Sessions : n.file[t] = IF t = s THEN o ELSE m.file[t]
  BY <1>3, <1>4, <1>5 DEF Memory
<1> HIDE DEF n
<1> QED
  BY <1>2, <1>6, <1>7 DEF Joins, n

LEMMA AddedJoinedIs ==
  ASSUME NEW m \in Memory, NEW o \in 1..Len(m.objects), NEW s \in Sessions
  PROVE  Joins(m, Joined(UserAdded(m, o, UserOf[s]), s, o), s, o, {UserOf[s]})
<1> DEFINE a == UserAdded(m, o, UserOf[s])
           n == Joined(a, s, o)
           x == [m.objects[o] EXCEPT !.users = @ \cup {UserOf[s]}]
<1>1. UserOf[s] \in Users /\ m.objects[o] \in Objects
  BY SessionsAssumption DEF Memory
<1>2. /\ a \in Memory /\ Len(a.objects) = Len(m.objects)
      /\ a.files = m.files /\ a.file = m.file
      /\ \A i \in 1..Len(m.objects) : a.objects[i] = IF i = o THEN x ELSE m.objects[i]
  BY <1>1, UserAddedIs
<1>3. /\ x.hash = m.objects[o].hash /\ x.text = m.objects[o].text
      /\ x.alive = m.objects[o].alive /\ x.participants = m.objects[o].participants
      /\ x.users = m.objects[o].users \cup {UserOf[s]}
  BY <1>1 DEF Objects
<1>4. Joins(a, n, s, o, {})
  BY <1>2, JoinedIs
<1>5. Joins(m, n, s, o, {UserOf[s]})
  <2> HIDE DEF a, n, x
  <2>1. \A i \in 1..Len(m.objects) : i # o => a.objects[i] = m.objects[i]
    BY <1>2
  <2>2. a.objects[o] = x
    BY <1>2
  <2>3. n \in Memory /\ Len(n.objects) = Len(m.objects) /\ n.files = m.files
    BY <1>2, <1>4 DEF Joins
  <2>4. \A t \in Sessions : n.file[t] = IF t = s THEN o ELSE m.file[t]
    BY <1>2, <1>4 DEF Joins
  <2>5. \A i \in 1..Len(m.objects) :
          /\ n.objects[i].hash = a.objects[i].hash /\ n.objects[i].text = a.objects[i].text
          /\ n.objects[i].alive = a.objects[i].alive /\ n.objects[i].users = a.objects[i].users
          /\ n.objects[i].participants =
               IF i = o THEN a.objects[i].participants \cup {UserOf[s]}
               ELSE a.objects[i].participants
    BY <1>2, <1>4 DEF Joins
  <2>6. /\ n.objects[o].hash = m.objects[o].hash /\ n.objects[o].text = m.objects[o].text
        /\ n.objects[o].alive = m.objects[o].alive
        /\ n.objects[o].users = m.objects[o].users \cup {UserOf[s]}
        /\ n.objects[o].participants = m.objects[o].participants \cup {UserOf[s]}
    BY <1>3, <2>2, <2>5
  <2>7. \A i \in 1..Len(m.objects) : i # o =>
          /\ n.objects[i].hash = m.objects[i].hash /\ n.objects[i].text = m.objects[i].text
          /\ n.objects[i].alive = m.objects[i].alive /\ n.objects[i].users = m.objects[i].users
          /\ n.objects[i].participants = m.objects[i].participants
    BY <2>1, <2>5
  <2> QED
    BY <2>3, <2>4, <2>6, <2>7 DEF Joins
<1> QED
  BY <1>5

-----------------------------------------------------------------------------
(* Leaving an object.                                                      *)

\* n has the objects of m, and what changes of them is who takes part.
SameObjects(m, n) ==
  /\ n \in Memory /\ Len(n.objects) = Len(m.objects)
  /\ \A i \in 1..Len(m.objects) :
       /\ n.objects[i].hash = m.objects[i].hash /\ n.objects[i].text = m.objects[i].text
       /\ n.objects[i].alive = m.objects[i].alive

\* Only the session s has another document in n than in m, if any.
OthersStay(m, n, s) == \A t \in Sessions : t # s => n.file[t] = m.file[t]

LEMMA SavedStays ==
  ASSUME NEW m \in Memory, NEW n, SameObjects(m, n), NEW app, NEW dsk
  PROVE  /\ OneAlive(m) => OneAlive(n)
         /\ Saved(m, app, dsk) => Saved(n, app, dsk)
<1>1. OneAlive(m) => OneAlive(n)
  BY DEF SameObjects, OneAlive
<1>2. Saved(m, app, dsk) => Saved(n, app, dsk)
  BY DEF SameObjects, Saved
<1> QED
  BY <1>1, <1>2

LEMMA LeftKeeps ==
  ASSUME NEW m \in Memory, NEW s \in Sessions, Pointers(m)
  PROVE  /\ SameObjects(m, Left(m, s)) /\ Pointers(Left(m, s)) /\ OthersStay(m, Left(m, s), s)
         /\ Left(m, s).file[s] \in {NoObject, m.file[s]}
         /\ \A d \in Docs : Left(m, s).files[d] \in {NoObject, m.files[d]}
<1> DEFINE n == Left(m, s)
<1>1. CASE n = m
  BY <1>1 DEF SameObjects, OthersStay
<1>2. CASE Leaves(m, n, s)
  <2> HIDE DEF n
  <2>1. /\ n.file[s] \in {NoObject, m.file[s]}
        /\ \A d \in Docs : n.files[d] \in {NoObject, m.files[d]}
    BY <1>2 DEF Leaves
  <2>2. SameObjects(m, n) /\ OthersStay(m, n, s)
    BY <1>2 DEF Leaves, SameObjects, OthersStay
  <2>3. Pointers(n)
    <3>1. ASSUME NEW d \in Docs, n.files[d] # NoObject
          PROVE  Live(n, n.files[d]) /\ n.objects[n.files[d]].hash = d
      BY <2>1, <2>2, <3>1 DEF Pointers, Live, SameObjects
    <3>2. ASSUME NEW t \in Sessions, n.file[t] # NoObject
          PROVE  Live(n, n.file[t])
      BY <2>1, <2>2, <3>2 DEF Pointers, Live, SameObjects, OthersStay
    <3> QED
      BY <3>1, <3>2 DEF Pointers
  <2> QED
    BY <2>1, <2>2, <2>3 DEF n
<1> QED
  BY <1>1, <1>2, LeftIs

\* Nobody else of the same user is in the object, so everybody who is left in
\* a document still takes part; and the last to leave takes it from the map.
LEMMA LeftUsed ==
  ASSUME NEW m \in Memory, NEW s \in Sessions, NEW owns, NEW open \in SUBSET Sessions,
         Pointers(m), Used(m, owns, open)
  PROVE  Used(Left(m, s), owns, open \ {s}) /\ Left(m, s).file[s] = NoObject
<1> DEFINE n == Left(m, s)
           o == m.file[s]
           u == UserOf[s]
<1>1. CASE m.file[s] = NoObject
  <2>1. n = m
    BY <1>1, LeftIs
  <2> QED
    BY <1>1, <2>1 DEF Used
<1>2. CASE m.file[s] # NoObject
  <2>1. Leaves(m, n, s)
    BY <1>2, LeftIs DEF Used, TakesPart
  <2>2. /\ SameObjects(m, n) /\ Pointers(n)
        /\ \A d \in Docs : n.files[d] \in {NoObject, m.files[d]}
    BY LeftKeeps
  <2>3. /\ o \in 1..Len(m.objects) /\ m.objects[o].alive = TRUE /\ o # NoObject
        /\ u \in m.objects[o].participants
        /\ m.objects[o].hash \in Docs /\ m.files[m.objects[o].hash] = o
    <3>1. o \in 1..Len(m.objects) /\ m.objects[o].alive = TRUE /\ u \in m.objects[o].participants
      BY <1>2 DEF Pointers, Live, Used, TakesPart
    <3>2. m.objects[o].hash \in Docs
      BY <3>1, ObjectType
    <3> QED
      BY <1>2, <3>1, <3>2 DEF Used, InMap
  <2> HIDE DEF n
  <2>4. n.file[s] = NoObject /\ \A t \in Sessions : n.file[t] # NoObject => t # s /\ n.file[t] = m.file[t]
    BY <2>1 DEF Leaves
  <2>5. TakesPart(n)
    <3>1. ASSUME NEW t \in Sessions, n.file[t] # NoObject
          PROVE  UserOf[t] \in n.objects[n.file[t]].participants
      <4>1. t # s /\ n.file[t] = m.file[t] /\ m.file[t] \in 1..Len(m.objects)
        BY <2>4, <3>1 DEF Pointers, Live
      <4>2. UserOf[t] \in m.objects[m.file[t]].participants
        BY <3>1, <4>1 DEF Used, TakesPart
      <4>3. m.file[t] = o => UserOf[t] # u
        BY <1>2, <4>1 DEF Used, TakesPart
      <4> QED
        BY <2>1, <4>1, <4>2, <4>3 DEF Leaves
    <3>2. ASSUME NEW t \in Sessions, NEW v \in Sessions,
                 n.file[t] # NoObject, n.file[t] = n.file[v], UserOf[t] = UserOf[v]
          PROVE  t = v
      BY <2>4, <3>2 DEF Used, TakesPart
    <3> QED
      BY <3>1, <3>2 DEF TakesPart
  <2>6. InMap(n, NoObject)
    <3> SUFFICES ASSUME NEW i \in 1..Len(n.objects), i # NoObject, n.objects[i].alive = TRUE
                 PROVE  n.objects[i].participants # {} <=> n.files[n.objects[i].hash] = i
      BY DEF InMap
    <3>1. /\ i \in 1..Len(m.objects) /\ m.objects[i].alive = TRUE
          /\ n.objects[i].hash = m.objects[i].hash /\ m.objects[i].hash \in Docs
      BY <2>2, ObjectType DEF SameObjects
    <3>2. m.objects[i].participants # {} <=> m.files[m.objects[i].hash] = i
      BY <3>1 DEF Used, InMap
    <3>3. CASE i = o
      <4>1. n.objects[o].participants = m.objects[o].participants \ {u}
        BY <2>1, <2>3 DEF Leaves
      <4>2. n.files[m.objects[o].hash] =
              IF m.objects[o].participants \subseteq {u} THEN NoObject ELSE m.files[m.objects[o].hash]
        BY <2>1, <2>3 DEF Leaves
      <4>3. m.objects[o].participants \subseteq {u} <=> m.objects[o].participants \ {u} = {}
        OBVIOUS
      <4> QED
        BY <2>3, <3>1, <3>3, <4>1, <4>2, <4>3
    <3>4. CASE i # o
      <4>1. n.objects[i].participants = m.objects[i].participants
        BY <2>1, <3>1, <3>4 DEF Leaves
      <4>2. m.objects[i].participants # {} => m.objects[i].hash # m.objects[o].hash
        BY <2>3, <3>2, <3>4
      <4>3. n.files[m.objects[i].hash] # m.files[m.objects[i].hash]
              => m.objects[i].hash = m.objects[o].hash /\ n.files[m.objects[i].hash] = NoObject
        BY <2>1, <3>1 DEF Leaves
      <4> QED
        BY <2>3, <3>1, <3>2, <3>4, <4>1, <4>2, <4>3
    <3> QED
      BY <3>3, <3>4
  <2>7. Lists(n, owns)
    <3>1. ASSUME NEW d \in Docs, n.files[d] # NoObject, NEW w \in Users, <<w, d>> \in owns
          PROVE  w \in n.objects[n.files[d]].users
      <4>1. n.files[d] = m.files[d]
        BY <2>2, <3>1
      <4>2. m.files[d] \in 1..Len(m.objects) /\ w \in m.objects[m.files[d]].users
        BY <3>1, <4>1 DEF Pointers, Live, Used, Lists
      <4> QED
        BY <2>1, <4>1, <4>2 DEF Leaves
    <3>2. \A i \in 1..Len(n.objects) : n.objects[i].participants \subseteq n.objects[i].users
      BY <2>1 DEF Leaves, Used, Lists
    <3> QED
      BY <3>1, <3>2 DEF Lists
  <2>8. \A t \in Sessions : n.file[t] # NoObject => t \in open \ {s}
    BY <2>4 DEF Used
  <2> QED
    BY <2>4, <2>5, <2>6, <2>7, <2>8 DEF Used, n
<1> QED
  BY <1>1, <1>2

-----------------------------------------------------------------------------
(* Taking part in the object o: what connectToFile leaves, whether or not  *)
(* its calls fail, and what it leaves when none does.                      *)

\* n is m with the session s in o, or in nothing.
Connects(m, n, s, o) ==
  /\ SameObjects(m, n) /\ Pointers(n) /\ OthersStay(m, n, s)
  /\ n.files = m.files /\ n.file[s] \in {NoObject, o}

LEMMA JoinsConnects ==
  ASSUME NEW m \in Memory, NEW n, NEW s \in Sessions, NEW o \in 1..Len(m.objects), NEW more,
         Pointers(m), m.objects[o].alive = TRUE, Joins(m, n, s, o, more)
  PROVE  Connects(m, n, s, o) /\ n.file[s] = o
<1>1. SameObjects(m, n) /\ OthersStay(m, n, s) /\ n.files = m.files /\ n.file[s] = o
  BY DEF Joins, SameObjects, OthersStay
<1>2. ASSUME NEW d \in Docs, n.files[d] # NoObject
      PROVE  Live(n, n.files[d]) /\ n.objects[n.files[d]].hash = d
  BY <1>1, <1>2 DEF Pointers, Live, SameObjects
<1>3. ASSUME NEW t \in Sessions, n.file[t] # NoObject
      PROVE  Live(n, n.file[t])
  BY <1>1, <1>3 DEF Pointers, Live, SameObjects, OthersStay
<1> QED
  BY <1>1, <1>2, <1>3 DEF Connects, Pointers

LEMMA PointedConnects ==
  ASSUME NEW m \in Memory, NEW s \in Sessions, NEW o \in 1..Len(m.objects),
         NEW x \in {NoObject, o}, Pointers(m), m.objects[o].alive = TRUE
  PROVE  Connects(m, [m EXCEPT !.file[s] = x], s, o)
<1> DEFINE n == [m EXCEPT !.file[s] = x]
<1>1. m = [files |-> m.files, objects |-> m.objects, file |-> m.file]
  BY DEF Memory
<1>2. n = [files |-> m.files, objects |-> m.objects, file |-> [m.file EXCEPT ![s] = x]]
  BY <1>1
<1>3. [m.file EXCEPT ![s] = x] \in [Sessions -> Nat]
  BY DEF Memory, NoObject
<1>4. n \in Memory
  BY <1>2, <1>3 DEF Memory
<1>5. /\ n.files = m.files /\ n.objects = m.objects
      /\ \A t \in Sessions : n.file[t] = IF t = s THEN x ELSE m.file[t]
  BY <1>2, <1>3 DEF Memory
<1> HIDE DEF n
<1>6. Pointers(n)
  BY <1>5 DEF Pointers, Live
<1> QED
  BY <1>4, <1>5, <1>6 DEF Connects, SameObjects, OthersStay, n

\* Whatever fails.
LEMMA ParticipateKeeps ==
  ASSUME NEW m \in Memory, NEW s \in Sessions, NEW o \in 1..Len(m.objects),
         NEW R, NEW n, NEW down,
         Pointers(m), m.objects[o].alive = TRUE, Tables, Participate(s, m, R, o, n, down)
  PROVE  /\ Connects(m, mem', s, o)
         /\ \/ opened' = opened \cup {s} /\ mem'.file[s] = o
            \/ opened' = opened \ {s}
         /\ owners' \subseteq Users \X Docs /\ active' \subseteq owners'
<1> DEFINE u == UserOf[s]
           d == m.objects[o].hash
<1>1. u \in Users /\ d \in Docs
  BY ObjectType, SessionsAssumption
<1>2. CASE NewOwner(s, m, R, o, n, down)
  <2>1. owners' \subseteq Users \X Docs /\ active' \subseteq owners'
    <3>1. /\ owners' = owners \cup (IF "own" \in down THEN {} ELSE {<<u, d>>})
          /\ active' = active \cup (IF "own" \in down THEN {} ELSE {<<u, d>>})
      BY <1>2 DEF NewOwner
    <3> HIDE DEF u, d
    <3> QED
      BY <1>1, <3>1 DEF Tables
  <2>2. CASE InDocument(s, Joined(UserAdded(m, o, u), s, o))
    <3>1. mem' = Joined(UserAdded(m, o, UserOf[s]), s, o) /\ opened' = opened \cup {s}
      BY <2>2 DEF InDocument
    <3>2. Joins(m, mem', s, o, {UserOf[s]})
      BY <3>1, AddedJoinedIs
    <3>3. Connects(m, mem', s, o) /\ mem'.file[s] = o
      BY <3>2, JoinsConnects
    <3> QED
      BY <2>1, <3>1, <3>3
  <2>3. CASE NoDocument(s, [m EXCEPT !.file[s] = o])
    BY <2>1, <2>3, PointedConnects DEF NoDocument
  <2> QED
    BY <1>2, <2>2, <2>3 DEF NewOwner
<1>3. CASE OldOwner(s, m, R, o, n, down)
  <2>1. CASE InDocument(s, Joined(m, s, o))
    <3>1. active' \in {active, active \cup ({<<u, d>>} \cap owners)} /\ owners' = owners
      <4>1. active' = active \/ active' = Accessed(u, d)
        BY <1>3 DEF OldOwner
      <4>2. owners' = owners
        BY <1>3 DEF OldOwner
      <4> QED
        BY <4>1, <4>2 DEF Accessed
    <3>2. owners' \subseteq Users \X Docs /\ active' \subseteq owners'
      <4> HIDE DEF u, d
      <4> QED
        BY <3>1 DEF Tables
    <3> QED
      <4>1. mem' = Joined(m, s, o) /\ opened' = opened \cup {s}
        BY <2>1 DEF InDocument
      <4>2. Joins(m, mem', s, o, {})
        BY <4>1, JoinedIs
      <4>3. Connects(m, mem', s, o) /\ mem'.file[s] = o
        BY <4>2, JoinsConnects
      <4> QED
        BY <3>2, <4>1, <4>3
  <2>2. CASE NoDocument(s, [m EXCEPT !.file[s] = NoObject]) /\ UNCHANGED active
    <3>1. owners' = owners
      BY <1>3 DEF OldOwner
    <3> QED
      BY <2>2, <3>1, PointedConnects DEF NoDocument, Tables
  <2> QED
    BY <1>3, <2>1, <2>2 DEF OldOwner
<1> QED
  BY <1>2, <1>3 DEF Participate

\* The session s has left what it had, its user is not in o, and o is the
\* object of the map: it may lack participants until s joins.
Ready(m, s, o, owns, open) ==
  /\ TakesPart(m) /\ InMap(m, o) /\ Lists(m, owns)
  /\ \A t \in Sessions : m.file[t] # NoObject => t \in open
  /\ m.file[s] = NoObject /\ m.files[m.objects[o].hash] = o
  /\ UserOf[s] \notin m.objects[o].participants

LEMMA JoinsUsed ==
  ASSUME NEW m \in Memory, NEW n, NEW s \in Sessions, NEW o \in 1..Len(m.objects),
         NEW more, NEW owns, NEW owns2, NEW open,
         Pointers(m), m.objects[o].alive = TRUE, Ready(m, s, o, owns, open),
         Joins(m, n, s, o, more), UserOf[s] \in m.objects[o].users \cup more,
         \A w \in Users, e \in Docs : <<w, e>> \in owns2 =>
           <<w, e>> \in owns \/ (w \in more /\ e = m.objects[o].hash)
  PROVE  Used(n, owns2, open \cup {s})
<1> DEFINE u == UserOf[s]
<1>1. o # NoObject /\ m.objects[o].hash \in Docs /\ n.files = m.files
  BY ObjectType DEF NoObject, Joins
<1>2. TakesPart(n)
  <2>1. ASSUME NEW t \in Sessions, n.file[t] # NoObject
        PROVE  UserOf[t] \in n.objects[n.file[t]].participants
    <3>1. CASE t = s
      BY <3>1 DEF Joins
    <3>2. CASE t # s
      <4>1. n.file[t] = m.file[t]
        BY <3>2 DEF Joins
      <4>2. m.file[t] \in 1..Len(m.objects) /\ UserOf[t] \in m.objects[m.file[t]].participants
        BY <2>1, <4>1 DEF Pointers, Live, Ready, TakesPart
      <4> QED
        BY <4>1, <4>2 DEF Joins
    <3> QED
      BY <3>1, <3>2
  <2>2. \A t \in Sessions : t # s /\ n.file[t] = o => UserOf[t] # u
    BY <1>1 DEF Joins, Ready, TakesPart
  <2>3. ASSUME NEW t \in Sessions, NEW v \in Sessions,
               n.file[t] # NoObject, n.file[t] = n.file[v], UserOf[t] = UserOf[v]
        PROVE  t = v
    <3>1. \A x \in Sessions : n.file[x] = IF x = s THEN o ELSE m.file[x]
      BY DEF Joins
    <3> QED
      BY <2>2, <2>3, <3>1 DEF Ready, TakesPart
  <2> QED
    BY <2>1, <2>3 DEF TakesPart
<1>3. InMap(n, NoObject)
  <2> SUFFICES ASSUME NEW i \in 1..Len(m.objects), n.objects[i].alive = TRUE
               PROVE  n.objects[i].participants # {} <=> n.files[n.objects[i].hash] = i
    BY DEF InMap, Joins
  <2>1. m.objects[i].alive = TRUE /\ n.objects[i].hash = m.objects[i].hash
    BY DEF Joins
  <2>2. CASE i = o
    <3>1. n.objects[i].participants = m.objects[i].participants \cup {u}
      BY <2>2 DEF Joins
    <3> QED
      BY <1>1, <2>1, <2>2, <3>1 DEF Ready
  <2>3. CASE i # o
    <3>1. n.objects[i].participants = m.objects[i].participants
      BY <2>3 DEF Joins
    <3> QED
      BY <1>1, <2>1, <2>3, <3>1 DEF Ready, InMap
  <2> QED
    BY <2>2, <2>3
<1>4. Lists(n, owns2)
  <2>1. ASSUME NEW d \in Docs, n.files[d] # NoObject, NEW w \in Users, <<w, d>> \in owns2
        PROVE  w \in n.objects[n.files[d]].users
    <3> DEFINE i == m.files[d]
    <3>1. i \in 1..Len(m.objects) /\ m.objects[i].hash = d /\ n.files[d] = i /\ i # NoObject
      BY <1>1, <2>1 DEF Pointers, Live
    <3>2. n.objects[i].users = IF i = o THEN m.objects[i].users \cup more ELSE m.objects[i].users
      BY <3>1 DEF Joins
    <3>3. <<w, d>> \in owns => w \in m.objects[i].users
      BY <3>1 DEF Ready, Lists
    <3>4. d = m.objects[o].hash => i = o
      BY DEF Ready
    <3> HIDE DEF i
    <3> QED
      BY <2>1, <3>1, <3>2, <3>3, <3>4
  <2>2. ASSUME NEW i \in 1..Len(n.objects)
        PROVE  n.objects[i].participants \subseteq n.objects[i].users
    <3>1. i \in 1..Len(m.objects) /\ m.objects[i].participants \subseteq m.objects[i].users
      BY DEF Joins, Ready, Lists
    <3> QED
      BY <3>1 DEF Joins
  <2> QED
    BY <2>1, <2>2 DEF Lists
<1>5. \A t \in Sessions : n.file[t] # NoObject => t \in open \cup {s}
  BY DEF Joins, Ready
<1> QED
  BY <1>2, <1>3, <1>4, <1>5 DEF Used

\* When no call fails.
LEMMA ParticipateUsed ==
  ASSUME NEW m \in Memory, NEW s \in Sessions, NEW o \in 1..Len(m.objects), NEW R, NEW n,
         Pointers(m), m.objects[o].alive = TRUE, Tables,
         Ready(m, s, o, owners, opened), Participate(s, m, R, o, n, {})
  PROVE  Used(mem', owners', opened')
<1> DEFINE u == UserOf[s]
           d == m.objects[o].hash
<1>1. u \in Users /\ d \in Docs /\ m.files[d] = o /\ o # NoObject
  BY ObjectType, SessionsAssumption DEF NoObject, Ready
<1>2. CASE <<u, d>> \notin owners
  <2>1. NewOwner(s, m, R, o, n, {})
    BY <1>2 DEF Participate
  <2>2. /\ owners' = owners \cup {<<u, d>>}
        /\ mem' = Joined(UserAdded(m, o, u), s, o) /\ opened' = opened \cup {s}
    BY <2>1 DEF NewOwner, InDocument
  <2>3. Joins(m, mem', s, o, {u})
    BY <2>2, AddedJoinedIs
  <2>4. \A w \in Users, e \in Docs : <<w, e>> \in owners' =>
          <<w, e>> \in owners \/ (w \in {u} /\ e = d)
    BY <2>2
  <2> QED
    BY <2>2, <2>3, <2>4, JoinsUsed
<1>3. CASE <<u, d>> \in owners
  <2>1. OldOwner(s, m, R, o, n, {})
    BY <1>3 DEF Participate
  <2>2. /\ owners' = owners
        /\ mem' = Joined(m, s, o) /\ opened' = opened \cup {s}
    BY <2>1 DEF OldOwner, InDocument
  <2>3. Joins(m, mem', s, o, {})
    BY <2>2, JoinedIs
  <2>4. u \in m.objects[o].users
    BY <1>1, <1>3 DEF Ready, Lists
  <2>5. \A w \in Users, e \in Docs : <<w, e>> \in owners' =>
          <<w, e>> \in owners \/ (w \in {} /\ e = d)
    BY <2>2
  <2> QED
    BY <2>2, <2>3, <2>4, <2>5, JoinsUsed
<1> QED
  BY <1>2, <1>3

-----------------------------------------------------------------------------
(* A new object.                                                           *)

LEMMA NewPointers ==
  ASSUME NEW m \in Memory, NEW n, NEW d \in Docs, NEW users, NEW text,
         NewIn(m, n, d, users, text), Pointers(m)
  PROVE  Pointers(n)
<1>1. ASSUME NEW e \in Docs, n.files[e] # NoObject
      PROVE  Live(n, n.files[e]) /\ n.objects[n.files[e]].hash = e
  <2>1. CASE e = d
    BY <2>1 DEF NewIn, Live, Memory
  <2>2. CASE e # d
    BY <1>1, <2>2 DEF NewIn, Pointers, Live, Memory
  <2> QED
    BY <2>1, <2>2
<1>2. ASSUME NEW t \in Sessions, n.file[t] # NoObject
      PROVE  Live(n, n.file[t])
  BY <1>2 DEF NewIn, Pointers, Live, Memory
<1> QED
  BY <1>1, <1>2 DEF Pointers

LEMMA NewReady ==
  ASSUME NEW m \in Memory, NEW n, NEW d \in Docs, NEW users, NEW text, NEW s \in Sessions,
         NEW owns, NEW open,
         NewIn(m, n, d, users, text), Pointers(m), m.files[d] = NoObject, m.file[s] = NoObject,
         Used(m, owns, open),
         \A w \in Users : <<w, d>> \in owns => w \in users
  PROVE  Ready(n, s, Len(m.objects) + 1, owns, open)
<1> DEFINE o == Len(m.objects) + 1
<1>1. /\ n.file = m.file /\ n.objects[o].hash = d /\ n.objects[o].participants = {}
      /\ n.files[d] = o /\ o \notin 1..Len(m.objects) /\ o \in 1..Len(n.objects)
      /\ \A i \in 1..Len(m.objects) : n.objects[i] = m.objects[i]
      /\ \A i \in 1..Len(n.objects) : i # o => i \in 1..Len(m.objects)
  BY DEF NewIn, Memory
<1>2. TakesPart(n)
  BY <1>1 DEF TakesPart, Used, Pointers, Live
<1>3. InMap(n, o)
  <2> SUFFICES ASSUME NEW i \in 1..Len(n.objects), i # o, n.objects[i].alive = TRUE
               PROVE  n.objects[i].participants # {} <=> n.files[n.objects[i].hash] = i
    BY DEF InMap
  <2>1. i \in 1..Len(m.objects) /\ n.objects[i] = m.objects[i] /\ i # NoObject
    BY <1>1 DEF NoObject
  <2>2. m.objects[i].participants # {} <=> m.files[m.objects[i].hash] = i
    BY <2>1 DEF Used, InMap
  <2>3. m.objects[i].hash \in Docs
    BY <2>1, ObjectType
  <2>4. \A e \in Docs : n.files[e] = IF e = d THEN o ELSE m.files[e]
    BY DEF NewIn
  <2> HIDE DEF o
  <2> QED
    BY <2>1, <2>2, <2>3, <2>4
<1>4. Lists(n, owns)
  <2>1. ASSUME NEW e \in Docs, n.files[e] # NoObject, NEW w \in Users, <<w, e>> \in owns
        PROVE  w \in n.objects[n.files[e]].users
    <3>1. CASE e = d
      BY <1>1, <2>1, <3>1 DEF NewIn
    <3>2. CASE e # d
      <4>1. n.files[e] = m.files[e]
        BY <3>2 DEF NewIn
      <4>2. m.files[e] \in 1..Len(m.objects) /\ w \in m.objects[m.files[e]].users
        BY <2>1, <4>1 DEF Pointers, Live, Used, Lists
      <4> QED
        BY <1>1, <4>1, <4>2
    <3> QED
      BY <3>1, <3>2
  <2>2. ASSUME NEW i \in 1..Len(n.objects)
        PROVE  n.objects[i].participants \subseteq n.objects[i].users
    <3>1. CASE i = o
      BY <1>1, <3>1
    <3>2. CASE i # o
      BY <1>1, <3>2 DEF Used, Lists
    <3> QED
      BY <3>1, <3>2
  <2> QED
    BY <2>1, <2>2 DEF Lists
<1> QED
  BY <1>1, <1>2, <1>3, <1>4 DEF Ready, Used

LEMMA NewSaved ==
  ASSUME NEW m \in Memory, NEW n, NEW d \in Docs, NEW users, NEW app, NEW dsk,
         NewIn(m, n, d, users, IF dsk[d] = Torn THEN {} ELSE dsk[d]),
         OneAlive(m), Saved(m, app, dsk),
         \A i \in 1..Len(m.objects) : m.objects[i].alive = TRUE => m.objects[i].hash # d
  PROVE  OneAlive(n) /\ Saved(n, app, dsk)
<1> DEFINE o == Len(m.objects) + 1
<1>1. /\ n.objects[o].hash = d /\ n.objects[o].alive = TRUE
      /\ n.objects[o].text = IF dsk[d] = Torn THEN {} ELSE dsk[d]
      /\ o \in 1..Len(n.objects)
      /\ \A i \in 1..Len(n.objects) : i # o => i \in 1..Len(m.objects)
      /\ \A i \in 1..Len(m.objects) : n.objects[i] = m.objects[i] /\ i \in 1..Len(n.objects)
  BY DEF NewIn, Memory
<1> HIDE DEF o
<1>2. OneAlive(n)
  BY <1>1 DEF OneAlive
<1>3. app[d] \subseteq IF dsk[d] = Torn THEN {} ELSE dsk[d]
  BY DEF Saved
<1>4. ASSUME NEW i \in 1..Len(n.objects), n.objects[i].alive = TRUE
      PROVE  app[n.objects[i].hash] \subseteq n.objects[i].text
  BY <1>1, <1>3, <1>4 DEF Saved
<1>5. ASSUME NEW e \in Docs,
             \A i \in 1..Len(n.objects) : n.objects[i].alive = TRUE => n.objects[i].hash # e
      PROVE  app[e] \subseteq IF dsk[e] = Torn THEN {} ELSE dsk[e]
  BY <1>1, <1>5 DEF Saved
<1> QED
  BY <1>2, <1>4, <1>5 DEF Saved

-----------------------------------------------------------------------------
(* Opening a document.                                                     *)

LEMMA FailingIs ==
  ASSUME failures \in Nat, NEW down, Failing(down)
  PROVE  failures' \in Nat /\ (failures' = 0 => failures = 0 /\ down = {})
BY DEF Failing

\* In all three cases the session leaves, the memory becomes m in which o is
\* the object of the document, and the session takes part in o, or fails to.
LEMMA OpenStep ==
  ASSUME SInv, NEW s \in Sessions, NEW m \in Memory, NEW o \in 1..Len(m.objects),
         NEW R, NEW n, NEW down,
         Len(m.objects) <= MaxObjects, Pointers(m), m.objects[o].alive = TRUE,
         OthersStay(mem, m, s), Failing(down), Participate(s, m, R, o, n, down),
         disk' = disk, applied' = applied, overlap' \in BOOLEAN,
         failures = 0 /\ down = {} => Ready(m, s, o, owners, opened),
         overlap' = FALSE => OneAlive(m) /\ Saved(m, applied, disk)
  PROVE  SInv'
<1>1. Tables
  BY DEF SInv
<1>2. /\ Connects(m, mem', s, o)
      /\ (opened' = opened \cup {s} /\ mem'.file[s] = o) \/ opened' = opened \ {s}
      /\ owners' \subseteq Users \X Docs /\ active' \subseteq owners'
  BY <1>1, ParticipateKeeps
<1>3. failures' \in Nat /\ (failures' = 0 => failures = 0 /\ down = {})
  BY <1>1, FailingIs DEF Tables
<1>4. mem' \in Memory /\ Len(mem'.objects) <= MaxObjects /\ Pointers(mem')
  BY <1>2 DEF Connects, SameObjects
<1>5. opened' \subseteq Sessions /\ \A t \in opened' : mem'.file[t] # NoObject
  BY <1>2 DEF SInv, Connects, OthersStay, NoObject
<1>6. Tables'
  BY <1>1, <1>2, <1>3 DEF Tables
<1>7. failures' = 0 => Used(mem', owners', opened')
  <2> SUFFICES ASSUME failures = 0, down = {}
               PROVE  Used(mem', owners', opened')
    BY <1>3
  <2> QED
    BY <1>1, ParticipateUsed
<1>8. overlap' = FALSE => OneAlive(mem') /\ Saved(mem', applied', disk')
  BY <1>2, SavedStays DEF Connects
<1> QED
  BY <1>4, <1>5, <1>6, <1>7, <1>8 DEF SInv

LEMMA LeftParticipants ==
  ASSUME NEW m \in Memory, NEW s \in Sessions, Pointers(m), NEW i \in 1..Len(m.objects)
  PROVE  Left(m, s).objects[i].participants \subseteq m.objects[i].participants
<1>1. CASE Left(m, s) = m
  BY <1>1
<1>2. CASE Leaves(m, Left(m, s), s)
  <2> DEFINE n == Left(m, s)
  <2> HIDE DEF n
  <2>1. Leaves(m, n, s)
    BY <1>2 DEF n
  <2>2. n.objects[i].participants \subseteq m.objects[i].participants
    BY <2>1 DEF Leaves
  <2> QED
    BY <2>2 DEF n
<1> QED
  BY <1>1, <1>2, LeftIs

\* The memory after the session has left, in an invariant state.
LEMMA Leaving ==
  ASSUME SInv, NEW s \in Sessions, NEW m, m = Left(mem, s)
  PROVE  /\ SameObjects(mem, m) /\ Pointers(m) /\ OthersStay(mem, m, s)
         /\ m \in Memory /\ Len(m.objects) = Len(mem.objects) /\ Len(m.objects) <= MaxObjects
         /\ \A d \in Docs : m.files[d] \in {NoObject, mem.files[d]}
         /\ m.file[s] \in {NoObject, mem.file[s]}
         /\ failures = 0 => Used(m, owners, opened \ {s}) /\ m.file[s] = NoObject
         /\ overlap = FALSE => OneAlive(m) /\ Saved(m, applied, disk)
<1>1. mem \in Memory /\ Pointers(mem) /\ Len(mem.objects) <= MaxObjects
  BY DEF SInv
<1>2. /\ SameObjects(mem, m) /\ Pointers(m) /\ OthersStay(mem, m, s)
      /\ \A d \in Docs : m.files[d] \in {NoObject, mem.files[d]}
      /\ m.file[s] \in {NoObject, mem.file[s]}
  BY <1>1, LeftKeeps
<1>3. failures = 0 => Used(m, owners, opened \ {s}) /\ m.file[s] = NoObject
  BY <1>1, LeftUsed DEF SInv
<1>4. overlap = FALSE => OneAlive(m) /\ Saved(m, applied, disk)
  BY <1>1, <1>2, SavedStays DEF SInv
<1> QED
  BY <1>1, <1>2, <1>3, <1>4 DEF SameObjects

LEMMA OpenKnownStep ==
  ASSUME SInv, NEW s \in Sessions, NEW d \in Docs, NEW n, NEW down,
         Failing(down), ~Refused(s, d), OpenKnown(s, d, n, down)
  PROVE  SInv'
<1> DEFINE m == Left(mem, s)
           o == m.files[d]
<1>1. /\ o # NoObject /\ Participate(s, m, rows, o, n, down)
      /\ disk' = disk /\ applied' = applied /\ overlap' = overlap
  BY DEF OpenKnown
<1>2. /\ SameObjects(mem, m) /\ Pointers(m) /\ OthersStay(mem, m, s)
      /\ m \in Memory /\ Len(m.objects) = Len(mem.objects) /\ Len(m.objects) <= MaxObjects
      /\ m.files[d] \in {NoObject, mem.files[d]}
      /\ failures = 0 => Used(m, owners, opened \ {s}) /\ m.file[s] = NoObject
      /\ overlap = FALSE => OneAlive(m) /\ Saved(m, applied, disk)
  BY Leaving
<1>3. /\ o \in 1..Len(m.objects) /\ m.objects[o].alive = TRUE /\ m.objects[o].hash = d
      /\ o = mem.files[d]
  BY <1>1, <1>2 DEF Pointers, Live
<1>4. UserOf[s] \notin m.objects[o].participants
  <2>1. UserOf[s] \notin mem.objects[o].participants
    BY <1>1, <1>3 DEF Refused
  <2>2. m.objects[o].participants \subseteq mem.objects[o].participants
    BY <1>2, <1>3, LeftParticipants DEF SInv
  <2> QED
    BY <2>1, <2>2
<1>5. failures = 0 /\ down = {} => Ready(m, s, o, owners, opened)
  <2> HIDE DEF m
  <2> QED
    BY <1>1, <1>2, <1>3, <1>4 DEF Ready, Used, InMap, NoObject
<1>6. overlap' \in BOOLEAN /\ (overlap' = FALSE => OneAlive(m) /\ Saved(m, applied, disk))
  BY <1>1, <1>2 DEF SInv, Tables
<1> HIDE DEF m, o
<1> QED
  BY <1>1, <1>2, <1>3, <1>5, <1>6, OpenStep

\* A new object of d, where no live one is.
LEMMA OpenNewObject ==
  ASSUME SInv, NEW s \in Sessions, NEW d \in Docs, NEW users \in SUBSET Users, NEW m,
         NEW R, NEW n, NEW down,
         m = Left(mem, s), MayMake(m), m.files[d] = NoObject, Failing(down),
         Participate(s, Opened(m, d, users), R, Len(m.objects) + 1, n, down),
         down = {} => \A w \in Users : <<w, d>> \in owners => w \in users,
         disk' = disk, applied' = applied, overlap' \in BOOLEAN,
         overlap' = FALSE => overlap = FALSE /\ Alive(m, d) = {}
  PROVE  SInv'
<1> DEFINE k == Opened(m, d, users)
           o == Len(m.objects) + 1
           text == IF disk[d] = Torn THEN {} ELSE disk[d]
<1>1. /\ SameObjects(mem, m) /\ Pointers(m) /\ OthersStay(mem, m, s)
      /\ m \in Memory /\ Len(m.objects) = Len(mem.objects)
      /\ failures = 0 => Used(m, owners, opened \ {s}) /\ m.file[s] = NoObject
      /\ overlap = FALSE => OneAlive(m) /\ Saved(m, applied, disk)
  BY Leaving
<1>2. NewIn(m, k, d, users, text)
  <2>1. NewIn(m, k, d, users, Read(d))
    BY <1>1, OpenedIs DEF SInv, Tables
  <2> QED
    BY <2>1 DEF Read
<1> HIDE DEF k
<1>3. k \in Memory /\ Len(k.objects) <= MaxObjects /\ o \in 1..Len(k.objects)
      /\ k.objects[o].alive = TRUE /\ k.file = m.file
  BY <1>1, <1>2, PoolAssumption DEF NewIn, MayMake, Memory
<1>4. Pointers(k)
  BY <1>1, <1>2, NewPointers
<1>5. OthersStay(mem, k, s)
  BY <1>1, <1>3 DEF OthersStay
<1>6. failures = 0 /\ down = {} => Ready(k, s, o, owners, opened)
  <2>1. failures = 0 /\ down = {} => Ready(k, s, o, owners, opened \ {s})
    BY <1>1, <1>2, NewReady
  <2> QED
    BY <2>1 DEF Ready
<1>7. overlap' = FALSE => OneAlive(k) /\ Saved(k, applied, disk)
  <2> SUFFICES ASSUME overlap' = FALSE
               PROVE  OneAlive(k) /\ Saved(k, applied, disk)
    OBVIOUS
  <2>1. \A i \in 1..Len(m.objects) : m.objects[i].alive = TRUE => m.objects[i].hash # d
    BY <1>1 DEF Alive, Memory
  <2> QED
    BY <1>1, <1>2, <2>1, NewSaved
<1>8. Participate(s, k, R, o, n, down)
  BY DEF k
<1> HIDE DEF o
<1> QED
  BY <1>3, <1>4, <1>5, <1>6, <1>7, <1>8, OpenStep

LEMMA OpenStoredStep ==
  ASSUME SInv, NEW s \in Sessions, NEW d \in Docs, NEW n, NEW down,
         Failing(down), OpenStored(s, d, n, down)
  PROVE  SInv'
<1> DEFINE m == Left(mem, s)
           users == IF "users" \in down THEN {} ELSE Owners(d)
<1>1. /\ m.files[d] = NoObject /\ MayMake(m)
      /\ Participate(s, Opened(m, d, users), rows, Len(m.objects) + 1, n, down)
      /\ overlap' = (overlap \/ Alive(m, d) # {})
      /\ disk' = disk /\ applied' = applied
  BY DEF OpenStored
<1>2. users \in SUBSET Users
  BY DEF Owners
<1>3. down = {} => \A w \in Users : <<w, d>> \in owners => w \in users
  BY DEF Owners
<1>4. overlap' \in BOOLEAN /\ (overlap' = FALSE => overlap = FALSE /\ Alive(m, d) = {})
  BY <1>1 DEF SInv, Tables
<1> HIDE DEF m, users
<1> QED
  BY <1>1, <1>2, <1>3, <1>4, OpenNewObject DEF m

-----------------------------------------------------------------------------
(* Leaving a document, and what fails before there is one.                 *)

\* n is m with the session s in nothing.
LEMMA Forgets ==
  ASSUME NEW m \in Memory, NEW s \in Sessions, Pointers(m),
         NEW n, n = [m EXCEPT !.file[s] = NoObject]
  PROVE  /\ SameObjects(m, n) /\ Pointers(n) /\ OthersStay(m, n, s)
         /\ m.file[s] = NoObject => n = m
<1>1. m = [files |-> m.files, objects |-> m.objects, file |-> m.file]
  BY DEF Memory
<1>2. n = [files |-> m.files, objects |-> m.objects, file |-> [m.file EXCEPT ![s] = NoObject]]
  BY <1>1
<1>3. [m.file EXCEPT ![s] = NoObject] \in [Sessions -> Nat]
  BY DEF Memory, NoObject
<1>4. n \in Memory
  BY <1>2, <1>3 DEF Memory
<1>5. /\ n.files = m.files /\ n.objects = m.objects
      /\ \A t \in Sessions : n.file[t] = IF t = s THEN NoObject ELSE m.file[t]
  BY <1>2, <1>3 DEF Memory
<1>6. Pointers(n)
  BY <1>5 DEF Pointers, Live
<1>7. m.file[s] = NoObject => n = m
  <2> SUFFICES ASSUME m.file[s] = NoObject
               PROVE  n = m
    OBVIOUS
  <2>1. [m.file EXCEPT ![s] = NoObject] = m.file
    BY DEF Memory
  <2> QED
    BY <1>1, <1>2, <2>1
<1> QED
  BY <1>4, <1>5, <1>6, <1>7 DEF SameObjects, OthersStay

LEMMA LeaveStep ==
  ASSUME SInv, NEW s \in Sessions, NEW n,
         SameObjects(mem, n), Pointers(n), OthersStay(mem, n, s), NoDocument(s, n),
         owners' = owners, active' = active, disk' = disk, applied' = applied, overlap' = overlap,
         failures' \in Nat, failures' = 0 => Used(n, owners, opened \ {s})
  PROVE  SInv'
<1>1. mem' = n /\ opened' = opened \ {s}
  BY DEF NoDocument
<1>2. mem' \in Memory /\ Len(mem'.objects) <= MaxObjects /\ Pointers(mem')
  BY <1>1 DEF SInv, SameObjects
<1>3. opened' \subseteq Sessions /\ \A t \in opened' : mem'.file[t] # NoObject
  BY <1>1 DEF SInv, OthersStay
<1>4. Tables'
  BY DEF SInv, Tables
<1>5. overlap' = FALSE => OneAlive(mem') /\ Saved(mem', applied', disk')
  BY <1>1, SavedStays DEF SInv
<1> QED
  BY <1>1, <1>2, <1>3, <1>4, <1>5 DEF SInv

LEMMA OpenNewStep ==
  ASSUME SInv, NEW s \in Sessions, NEW d \in Docs, NEW n, NEW down,
         Failing(down), OpenNew(s, d, n, down)
  PROVE  SInv'
<1> DEFINE m == Left(mem, s)
           u == UserOf[s]
<1>1. disk' = disk /\ applied' = applied /\ overlap' = overlap
  BY DEF OpenNew
<1>2. /\ SameObjects(mem, m) /\ Pointers(m) /\ OthersStay(mem, m, s) /\ m \in Memory
      /\ Len(m.objects) = Len(mem.objects)
      /\ \A e \in Docs : m.files[e] \in {NoObject, mem.files[e]}
      /\ failures = 0 => Used(m, owners, opened \ {s}) /\ m.file[s] = NoObject
  BY Leaving
<1>3. failures' \in Nat /\ (failures' = 0 => failures = 0 /\ down = {})
  BY FailingIs DEF SInv, Tables
<1>4. CASE NoDocument(s, m) /\ UNCHANGED data
  <2>1. owners' = owners /\ active' = active
    BY <1>4 DEF data
  <2> HIDE DEF m
  <2> QED
    BY <1>1, <1>2, <1>3, <1>4, <2>1, LeaveStep
<1>5. CASE "create" \in down /\ NoDocument(s, [m EXCEPT !.file[s] = NoObject]) /\ UNCHANGED data
  <2> DEFINE k == [m EXCEPT !.file[s] = NoObject]
  <2>1. owners' = owners /\ active' = active
    BY <1>5 DEF data
  <2>2. SameObjects(m, k) /\ Pointers(k) /\ OthersStay(m, k, s)
    <3> HIDE DEF m
    <3> QED
      BY <1>2, Forgets
  <2>3. SameObjects(mem, k) /\ OthersStay(mem, k, s)
    <3> HIDE DEF m, k
    <3> QED
      BY <1>2, <2>2 DEF SameObjects, OthersStay
  <2>4. NoDocument(s, k) /\ failures' # 0
    BY <1>3, <1>5
  <2> HIDE DEF m, k
  <2> QED
    BY <1>1, <1>3, <2>1, <2>2, <2>3, <2>4, LeaveStep
<1>6. ASSUME NEW h \in Hashes, MayMake(m), Fresh(h),
             Participate(s, Opened(m, h, {}), FileAdded(rows, n, h, u), Len(m.objects) + 1, n, down)
      PROVE  SInv'
  <2>1. h \in Docs /\ mem \in Memory /\ Pointers(mem)
    BY DEF Docs, SInv
  <2>2. \A i \in 1..Len(mem.objects) : mem.objects[i].hash # h
    BY <1>6, <2>1 DEF Fresh, Memory
  <2> HIDE DEF m
  <2>3. m.files[h] = NoObject /\ Alive(m, h) = {}
    <3>1. mem.files[h] = NoObject
      BY <2>1, <2>2 DEF Pointers, Live
    <3>2. Alive(m, h) = {}
      BY <1>2, <2>2 DEF Alive, SameObjects, Memory
    <3> QED
      BY <1>2, <2>1, <3>1, <3>2
  <2>4. \A w \in Users : <<w, h>> \in owners => w \in {}
    BY <1>6 DEF Fresh, Owners
  <2>5. overlap' \in BOOLEAN /\ (overlap' = FALSE => overlap = FALSE /\ Alive(m, h) = {})
    BY <1>1, <2>3 DEF SInv, Tables
  <2> DEFINE R == FileAdded(rows, n, h, u)
  <2>6. Participate(s, Opened(m, h, {}), R, Len(m.objects) + 1, n, down)
    BY <1>6
  <2> HIDE DEF R
  <2> QED
    BY <1>1, <1>6, <2>1, <2>3, <2>4, <2>5, <2>6, OpenNewObject DEF m
<1> QED
  BY <1>4, <1>5, <1>6 DEF OpenNew

LEMMA OpenKeeps ==
  ASSUME SInv, NEW s \in Sessions, Open(s)
  PROVE  SInv'
<1>1. PICK request \in Requests, down \in Outages \cup {{}} :
        /\ Failing(down) /\ ~Refused(s, request[1])
        /\ \/ OpenKnown(s, request[1], request[2], down)
           \/ OpenStored(s, request[1], request[2], down)
           \/ OpenNew(s, request[1], request[2], down)
  BY DEF Open
<1>2. request[1] \in Docs
  BY DEF Requests, Docs
<1> QED
  BY <1>1, <1>2, OpenKnownStep, OpenStoredStep, OpenNewStep

LEMMA QuitKeeps ==
  ASSUME SInv, NEW s \in Sessions, Quit(s)
  PROVE  SInv'
<1> DEFINE m == Left(mem, s)
<1>1. /\ SameObjects(mem, m) /\ Pointers(m) /\ OthersStay(mem, m, s)
      /\ failures = 0 => Used(m, owners, opened \ {s})
  BY Leaving
<1>2. /\ NoDocument(s, m) /\ owners' = owners /\ active' = active /\ disk' = disk
      /\ applied' = applied /\ overlap' = overlap /\ failures' = failures
  BY DEF Quit, data, history
<1> HIDE DEF m
<1> QED
  BY <1>1, <1>2, LeaveStep DEF SInv, Tables

LEMMA DisconnectKeeps ==
  ASSUME SInv, NEW s \in Sessions, Disconnect(s)
  PROVE  SInv'
<1> DEFINE m == Left(mem, s)
           n == [m EXCEPT !.file[s] = NoObject]
<1>1. /\ SameObjects(mem, m) /\ Pointers(m) /\ OthersStay(mem, m, s) /\ m \in Memory
      /\ failures = 0 => Used(m, owners, opened \ {s}) /\ m.file[s] = NoObject
  BY Leaving
<1>2. /\ NoDocument(s, n) /\ owners' = owners /\ active' = active /\ disk' = disk
      /\ applied' = applied /\ overlap' = overlap /\ failures' = failures
  BY DEF Disconnect, data, history
<1> HIDE DEF m
<1>3. /\ SameObjects(m, n) /\ Pointers(n) /\ OthersStay(m, n, s)
      /\ m.file[s] = NoObject => n = m
  BY <1>1, Forgets
<1> HIDE DEF n
<1>4. SameObjects(mem, n) /\ OthersStay(mem, n, s)
  BY <1>1, <1>3 DEF SameObjects, OthersStay
<1> QED
  BY <1>1, <1>2, <1>3, <1>4, LeaveStep DEF SInv, Tables

-----------------------------------------------------------------------------
(* Editing, saving and the consumer: nobody comes or leaves.               *)

\* n has the objects of m with other texts, queues and threads.
SameMembers(m, n) ==
  /\ n \in Memory /\ Len(n.objects) = Len(m.objects) /\ n.files = m.files /\ n.file = m.file
  /\ \A i \in 1..Len(m.objects) :
       /\ n.objects[i].hash = m.objects[i].hash /\ n.objects[i].users = m.objects[i].users
       /\ n.objects[i].participants = m.objects[i].participants
       /\ n.objects[i].alive = m.objects[i].alive

LEMMA MembersStay ==
  ASSUME NEW m \in Memory, NEW n, SameMembers(m, n), Pointers(m), NEW owns, NEW open
  PROVE  /\ Pointers(n) /\ (OneAlive(m) => OneAlive(n))
         /\ Used(m, owns, open) => Used(n, owns, open)
<1>1. Pointers(n)
  BY DEF SameMembers, Pointers, Live
<1>2. OneAlive(m) => OneAlive(n)
  BY DEF SameMembers, OneAlive
<1>3. TakesPart(m) => TakesPart(n)
  BY DEF SameMembers, TakesPart, Pointers, Live
<1>4. InMap(m, NoObject) => InMap(n, NoObject)
  BY DEF SameMembers, InMap
<1>5. Lists(m, owns) => Lists(n, owns)
  <2>1. ASSUME Lists(m, owns), NEW d \in Docs, n.files[d] # NoObject,
               NEW w \in Users, <<w, d>> \in owns
        PROVE  w \in n.objects[n.files[d]].users
    BY <2>1 DEF SameMembers, Lists, Pointers, Live
  <2>2. ASSUME Lists(m, owns), NEW i \in 1..Len(n.objects)
        PROVE  n.objects[i].participants \subseteq n.objects[i].users
    BY <2>2 DEF SameMembers, Lists
  <2> QED
    BY <2>1, <2>2 DEF Lists
<1> QED
  BY <1>1, <1>2, <1>3, <1>4, <1>5 DEF Used, SameMembers

\* One object gets another text, queue or thread.
LEMMA ObjectChanges ==
  ASSUME NEW m \in Memory, NEW o \in 1..Len(m.objects), NEW x \in Objects, NEW n,
         x.hash = m.objects[o].hash, x.users = m.objects[o].users,
         x.participants = m.objects[o].participants, x.alive = m.objects[o].alive,
         n = [m EXCEPT !.objects = [m.objects EXCEPT ![o] = x]]
  PROVE  /\ SameMembers(m, n)
         /\ \A i \in 1..Len(m.objects) : n.objects[i] = IF i = o THEN x ELSE m.objects[i]
<1>1. m = [files |-> m.files, objects |-> m.objects, file |-> m.file]
  BY DEF Memory
<1>2. n = [files |-> m.files, objects |-> [m.objects EXCEPT ![o] = x], file |-> m.file]
  BY <1>1
<1>3. [m.objects EXCEPT ![o] = x] \in Seq(Objects)
  BY DEF Memory
<1>4. n \in Memory
  BY <1>2, <1>3 DEF Memory
<1>5. /\ n.files = m.files /\ n.file = m.file /\ Len(n.objects) = Len(m.objects)
      /\ \A i \in 1..Len(m.objects) : n.objects[i] = IF i = o THEN x ELSE m.objects[i]
  BY <1>2, <1>3 DEF Memory
<1> QED
  BY <1>4, <1>5 DEF SameMembers

\* The invariant, when the members stay and the texts are saved.
LEMMA MembersStep ==
  ASSUME SInv, SameMembers(mem, mem'), opened' = opened, owners' = owners, active' = active,
         failures' = failures, overlap' = overlap,
         disk' \in [Docs -> (SUBSET Edits) \cup {Torn}], applied' \in [Docs -> SUBSET Edits],
         overlap = FALSE => Saved(mem', applied', disk')
  PROVE  SInv'
<1>1. /\ Pointers(mem') /\ (OneAlive(mem) => OneAlive(mem'))
      /\ Used(mem, owners, opened) => Used(mem', owners, opened)
  BY MembersStay DEF SInv
<1>2. mem' \in Memory /\ Len(mem'.objects) <= MaxObjects /\ mem'.file = mem.file
  BY DEF SInv, SameMembers
<1>3. Tables'
  BY DEF SInv, Tables
<1> QED
  BY <1>1, <1>2, <1>3 DEF SInv

\* flushCrdtText: the texts in memory are what is saved.
LEMMA FlushIs ==
  ASSUME SInv, NEW o \in 1..Len(mem.objects), Flush(o)
  PROVE  /\ disk' \in [Docs -> (SUBSET Edits) \cup {Torn}]
         /\ disk'[mem.objects[o].hash] = mem.objects[o].text
         /\ mem.objects[o].text # Torn
         /\ \A d \in Docs : d # mem.objects[o].hash => disk'[d] = disk[d]
<1> DEFINE h == mem.objects[o].hash
           text == mem.objects[o].text
<1>1. h \in Docs /\ text \in SUBSET Edits /\ text # Torn
  BY ObjectType, TornAssumption DEF SInv
<1>2. disk' = [disk EXCEPT ![h] = text] /\ disk \in [Docs -> (SUBSET Edits) \cup {Torn}]
  BY DEF Flush, SInv, Tables
<1> HIDE DEF h, text
<1>3. /\ disk' \in [Docs -> (SUBSET Edits) \cup {Torn}] /\ disk'[h] = text
      /\ \A d \in Docs : d # h => disk'[d] = disk[d]
  BY <1>1, <1>2
<1> QED
  BY <1>1, <1>3 DEF h, text

LEMMA FlushKeeps ==
  ASSUME SInv, NEW o, Live(mem, o), Flush(o),
         mem' = mem, opened' = opened, owners' = owners, active' = active,
         failures' = failures, overlap' = overlap, applied' = applied
  PROVE  SInv'
<1>1. o \in 1..Len(mem.objects) /\ mem.objects[o].alive = TRUE
  BY DEF Live
<1>2. /\ disk' \in [Docs -> (SUBSET Edits) \cup {Torn}]
      /\ \A d \in Docs : d # mem.objects[o].hash => disk'[d] = disk[d]
  BY <1>1, FlushIs
<1>3. SameMembers(mem, mem')
  BY DEF SInv, SameMembers
<1>4. overlap = FALSE => Saved(mem', applied', disk')
  BY <1>1, <1>2 DEF SInv, Saved
<1> QED
  BY <1>2, <1>3, <1>4, MembersStep DEF SInv, Tables

LEMMA SaveKeeps ==
  ASSUME SInv, NEW s \in Sessions, Save(s)
  PROVE  SInv'
<1>1. Live(mem, mem.file[s])
  BY DEF Save, SInv, Pointers
<1> QED
  BY <1>1, FlushKeeps DEF Save, data

LEMMA AutosaveKeeps ==
  ASSUME SInv, NEW o \in DOMAIN mem.objects, Autosave(o)
  PROVE  SInv'
<1>1. Live(mem, o)
  BY DEF Autosave, SInv, Live, Memory
<1> QED
  BY <1>1, FlushKeeps DEF Autosave, data

LEMMA EditKeeps ==
  ASSUME SInv, NEW s \in Sessions, NEW e \in Edits, Edit(s, e)
  PROVE  SInv'
<1> DEFINE o == mem.file[s]
           p == mem.objects[o]
           x == [p EXCEPT !.queue = Append(@, e)]
<1>1. mem \in Memory /\ o \in 1..Len(mem.objects)
  BY DEF Edit, SInv, Pointers, Live
<1>2. p \in Objects
  BY <1>1, ObjectType
<1>3. /\ x \in Objects /\ x.hash = p.hash /\ x.users = p.users /\ x.text = p.text
      /\ x.participants = p.participants /\ x.alive = p.alive
  <2>1. Append(p.queue, e) \in Seq(Edits \cup {Close})
    BY <1>2 DEF Objects
  <2> QED
    BY <1>2, <2>1 DEF Objects
<1>4. mem' = [mem EXCEPT !.objects = [mem.objects EXCEPT ![o] = x]]
  BY DEF Edit
<1> HIDE DEF x
<1>5. /\ SameMembers(mem, mem')
      /\ \A i \in 1..Len(mem.objects) : mem'.objects[i] = IF i = o THEN x ELSE mem.objects[i]
  BY <1>1, <1>3, <1>4, ObjectChanges
<1>6. /\ opened' = opened /\ owners' = owners /\ active' = active /\ failures' = failures
      /\ overlap' = overlap /\ disk' = disk /\ applied' = applied
  BY DEF Edit, data
<1>7. overlap = FALSE => Saved(mem', applied', disk')
  <2>1. SameObjects(mem, mem')
    BY <1>3, <1>5 DEF SameObjects, SameMembers
  <2> QED
    BY <1>1, <1>6, <2>1, SavedStays DEF SInv
<1> QED
  BY <1>5, <1>6, <1>7, MembersStep DEF SInv, Tables

LEMMA StartKeeps ==
  ASSUME SInv, NEW o \in DOMAIN mem.objects, Start(o)
  PROVE  SInv'
<1> DEFINE p == mem.objects[o]
           x == [p EXCEPT !.thread = "running"]
<1>1. mem \in Memory /\ o \in 1..Len(mem.objects)
  BY DEF SInv, Memory
<1>2. p \in Objects
  BY <1>1, ObjectType
<1>3. /\ x \in Objects /\ x.hash = p.hash /\ x.users = p.users /\ x.text = p.text
      /\ x.participants = p.participants /\ x.alive = p.alive
  BY <1>2 DEF Objects
<1>4. mem' = [mem EXCEPT !.objects = [mem.objects EXCEPT ![o] = x]]
  BY DEF Start
<1> HIDE DEF x
<1>5. /\ SameMembers(mem, mem')
      /\ \A i \in 1..Len(mem.objects) : mem'.objects[i] = IF i = o THEN x ELSE mem.objects[i]
  BY <1>1, <1>3, <1>4, ObjectChanges
<1>6. /\ opened' = opened /\ owners' = owners /\ active' = active /\ failures' = failures
      /\ overlap' = overlap /\ disk' = disk /\ applied' = applied
  BY DEF Start, data, history
<1>7. overlap = FALSE => Saved(mem', applied', disk')
  <2>1. SameObjects(mem, mem')
    BY <1>3, <1>5 DEF SameObjects, SameMembers
  <2> QED
    BY <1>1, <1>6, <2>1, SavedStays DEF SInv
<1> QED
  BY <1>5, <1>6, <1>7, MembersStep DEF SInv, Tables

\* An edit goes from the queue to the text, and counts as applied.
LEMMA ConsumeKeeps ==
  ASSUME SInv, NEW o \in DOMAIN mem.objects, Consume(o)
  PROVE  SInv'
<1> DEFINE p == mem.objects[o]
           entry == Head(p.queue)
           new == {entry} \ {Close}
           x == [p EXCEPT !.queue = Tail(@),
                          !.thread = IF entry = Close THEN "stopped" ELSE @,
                          !.text = @ \cup new]
<1>1. mem \in Memory /\ o \in 1..Len(mem.objects) /\ p.alive = TRUE /\ p.queue # <<>>
  BY DEF SInv, Memory, Consume
<1>2. p \in Objects /\ p.hash \in Docs
  BY <1>1, ObjectType
<1>3. new \subseteq Edits /\ Tail(p.queue) \in Seq(Edits \cup {Close})
  <2>1. p.queue \in Seq(Edits \cup {Close})
    BY <1>2 DEF Objects
  <2>2. entry \in Edits \cup {Close} /\ Tail(p.queue) \in Seq(Edits \cup {Close})
    <3> HIDE DEF p
    <3> QED
      BY <1>1, <2>1
  <2> QED
    BY <2>2
<1>4. /\ x \in Objects /\ x.hash = p.hash /\ x.users = p.users /\ x.text = p.text \cup new
      /\ x.participants = p.participants /\ x.alive = p.alive
  <2> HIDE DEF entry, new
  <2> QED
    BY <1>2, <1>3 DEF Objects
<1>5. /\ mem' = [mem EXCEPT !.objects = [mem.objects EXCEPT ![o] = x]]
      /\ applied' = [applied EXCEPT ![p.hash] = @ \cup new]
  BY DEF Consume
<1>6. /\ opened' = opened /\ owners' = owners /\ active' = active /\ failures' = failures
      /\ overlap' = overlap /\ disk' = disk
  BY DEF Consume, data
<1> HIDE DEF x, new
<1>7. /\ SameMembers(mem, mem')
      /\ \A i \in 1..Len(mem.objects) : mem'.objects[i] = IF i = o THEN x ELSE mem.objects[i]
  BY <1>1, <1>4, <1>5, ObjectChanges
<1>8. /\ applied' \in [Docs -> SUBSET Edits]
      /\ \A d \in Docs : applied'[d] = IF d = p.hash THEN applied[d] \cup new ELSE applied[d]
  <2>1. applied \in [Docs -> SUBSET Edits]
    BY DEF SInv, Tables
  <2> HIDE DEF p
  <2> QED
    BY <1>2, <1>3, <1>5, <2>1
<1>9. overlap = FALSE => Saved(mem', applied', disk')
  <2> SUFFICES ASSUME overlap = FALSE
               PROVE  Saved(mem', applied', disk')
    OBVIOUS
  <2>1. OneAlive(mem) /\ Saved(mem, applied, disk)
    BY DEF SInv
  <2>2. ASSUME NEW i \in 1..Len(mem'.objects), mem'.objects[i].alive = TRUE
        PROVE  applied'[mem'.objects[i].hash] \subseteq mem'.objects[i].text
    <3>1. /\ i \in 1..Len(mem.objects) /\ mem.objects[i].alive = TRUE
          /\ mem'.objects[i].hash = mem.objects[i].hash
      BY <1>7, <2>2 DEF SameMembers
    <3>2. applied[mem.objects[i].hash] \subseteq mem.objects[i].text /\ mem.objects[i].hash \in Docs
      BY <1>1, <2>1, <3>1, ObjectType DEF Saved
    <3>3. CASE i = o
      BY <1>2, <1>4, <1>7, <1>8, <3>1, <3>2, <3>3
    <3>4. CASE i # o
      <4>1. mem.objects[i].hash # p.hash
        BY <1>1, <2>1, <3>1, <3>4 DEF OneAlive
      <4> QED
        BY <1>7, <1>8, <3>1, <3>2, <3>4, <4>1
    <3> QED
      BY <3>3, <3>4
  <2>3. ASSUME NEW d \in Docs,
               \A i \in 1..Len(mem'.objects) : mem'.objects[i].alive = TRUE => mem'.objects[i].hash # d
        PROVE  applied'[d] \subseteq (IF disk'[d] = Torn THEN {} ELSE disk'[d])
    <3>1. \A i \in 1..Len(mem.objects) : mem.objects[i].alive = TRUE => mem.objects[i].hash # d
      BY <1>7, <2>3 DEF SameMembers
    <3>2. applied'[d] = applied[d]
      BY <1>1, <1>8, <3>1
    <3> QED
      BY <1>6, <2>1, <3>1, <3>2 DEF Saved
  <2> QED
    BY <2>2, <2>3 DEF Saved
<1> QED
  BY <1>6, <1>7, <1>8, <1>9, MembersStep DEF SInv, Tables

LEMMA DeleteKeeps ==
  ASSUME SInv, NEW s \in Sessions, NEW d \in Docs, Delete(s, d)
  PROVE  SInv'
<1>1. /\ mem' = mem /\ opened' = opened /\ owners' = owners /\ disk' = disk
      /\ applied' = applied /\ overlap' = overlap
  BY DEF Delete
<1>2. active' \subseteq active /\ failures' \in Nat /\ (failures' = 0 => failures = 0)
  BY FailingIs DEF Delete, ShareDeactivated, SInv, Tables
<1>3. Tables'
  BY <1>1, <1>2 DEF SInv, Tables
<1> QED
  BY <1>1, <1>2, <1>3 DEF SInv

-----------------------------------------------------------------------------
(* The end of an object and of the process.                                *)

\* Nobody points to the object, and its text is saved.
LEMMA DestroyKeeps ==
  ASSUME SInv, NEW o \in DOMAIN mem.objects, Destroy(o)
  PROVE  SInv'
<1> DEFINE p == mem.objects[o]
           x == [p EXCEPT !.alive = FALSE]
<1>1. mem \in Memory /\ o \in 1..Len(mem.objects) /\ p.alive = TRUE
  BY DEF SInv, Memory, Destroy
<1>2. p \in Objects
  BY <1>1, ObjectType
<1>3. /\ x \in Objects /\ x.hash = p.hash /\ x.users = p.users /\ x.text = p.text
      /\ x.participants = p.participants /\ x.alive = FALSE
  BY <1>2 DEF Objects
<1>4. mem = [files |-> mem.files, objects |-> mem.objects, file |-> mem.file]
  BY <1>1 DEF Memory
<1>5. mem' = [mem EXCEPT !.objects = [mem.objects EXCEPT ![o] = x]]
  BY DEF Destroy
<1> HIDE DEF x
<1>6. mem' = [files |-> mem.files, objects |-> [mem.objects EXCEPT ![o] = x], file |-> mem.file]
  BY <1>4, <1>5
<1>7. [mem.objects EXCEPT ![o] = x] \in Seq(Objects)
  BY <1>1, <1>3 DEF Memory
<1>8. /\ mem' \in Memory /\ mem'.files = mem.files /\ mem'.file = mem.file
      /\ Len(mem'.objects) = Len(mem.objects)
      /\ \A i \in 1..Len(mem.objects) : mem'.objects[i] = IF i = o THEN x ELSE mem.objects[i]
  <2>1. mem' \in Memory
    BY <1>1, <1>6, <1>7 DEF Memory
  <2> QED
    BY <1>1, <1>6, <1>7, <2>1 DEF Memory
<1>9. /\ \A s \in Sessions : mem.file[s] # o
      /\ \A d \in Docs : mem.files[d] # o
  BY DEF Destroy, Released
<1>10. Pointers(mem')
  BY <1>8, <1>9 DEF SInv, Pointers, Live
<1>11. ASSUME failures = 0
       PROVE  Used(mem', owners, opened)
  <2>1. Used(mem, owners, opened)
    BY <1>11 DEF SInv
  <2>2. TakesPart(mem')
    BY <1>8, <1>9, <2>1 DEF Used, TakesPart, SInv, Pointers, Live
  <2>3. InMap(mem', NoObject)
    BY <1>3, <1>8, <2>1 DEF Used, InMap
  <2>4. Lists(mem', owners)
    <3>1. ASSUME NEW d \in Docs, mem'.files[d] # NoObject, NEW w \in Users, <<w, d>> \in owners
          PROVE  w \in mem'.objects[mem'.files[d]].users
      BY <1>8, <1>9, <2>1, <3>1 DEF Used, Lists, SInv, Pointers, Live
    <3>2. ASSUME NEW i \in 1..Len(mem'.objects)
          PROVE  mem'.objects[i].participants \subseteq mem'.objects[i].users
      BY <1>3, <1>8, <2>1 DEF Used, Lists
    <3> QED
      BY <3>1, <3>2 DEF Lists
  <2> QED
    BY <1>8, <2>1, <2>2, <2>3, <2>4 DEF Used
<1>12. /\ opened' = opened /\ owners' = owners /\ active' = active /\ failures' = failures
       /\ overlap' = overlap /\ applied' = applied /\ Flush(o)
  BY DEF Destroy, data
<1>13. /\ disk' \in [Docs -> (SUBSET Edits) \cup {Torn}]
       /\ disk'[p.hash] = p.text /\ p.text # Torn
       /\ \A d \in Docs : d # p.hash => disk'[d] = disk[d]
  BY <1>1, <1>12, FlushIs
<1>14. ASSUME overlap = FALSE
       PROVE  OneAlive(mem') /\ Saved(mem', applied, disk')
  <2>1. OneAlive(mem) /\ Saved(mem, applied, disk)
    BY <1>14 DEF SInv
  <2>2. \A i \in 1..Len(mem'.objects) : mem'.objects[i].alive = TRUE =>
          i \in 1..Len(mem.objects) /\ i # o /\ mem'.objects[i] = mem.objects[i]
    BY <1>3, <1>8
  <2>3. OneAlive(mem')
    BY <2>1, <2>2 DEF OneAlive
  <2>4. \A i \in 1..Len(mem'.objects) : mem'.objects[i].alive = TRUE =>
          applied[mem'.objects[i].hash] \subseteq mem'.objects[i].text
    BY <2>1, <2>2 DEF Saved
  <2>5. ASSUME NEW d \in Docs,
               \A i \in 1..Len(mem'.objects) : mem'.objects[i].alive = TRUE => mem'.objects[i].hash # d
        PROVE  applied[d] \subseteq (IF disk'[d] = Torn THEN {} ELSE disk'[d])
    <3>1. CASE d = p.hash
      <4>1. applied[p.hash] \subseteq p.text
        BY <1>1, <2>1 DEF Saved
      <4> QED
        BY <1>13, <3>1, <4>1
    <3>2. CASE d # p.hash
      <4>1. \A i \in 1..Len(mem.objects) : mem.objects[i].alive = TRUE => mem.objects[i].hash # d
        BY <1>8, <2>5, <3>2
      <4> QED
        BY <1>13, <2>1, <3>2, <4>1 DEF Saved
    <3> QED
      BY <3>1, <3>2
  <2> QED
    BY <2>3, <2>4, <2>5 DEF Saved
<1>15. mem'.file = mem.file /\ Len(mem'.objects) <= MaxObjects
  BY <1>8 DEF SInv
<1>16. Tables'
  BY <1>12, <1>13 DEF SInv, Tables
<1> QED
  BY <1>8, <1>10, <1>11, <1>12, <1>14, <1>15, <1>16 DEF SInv

LEMMA NoMemIs ==
  /\ NoMem \in Memory /\ Len(NoMem.objects) = 0 /\ Pointers(NoMem) /\ OneAlive(NoMem)
  /\ \A s \in Sessions : NoMem.file[s] = NoObject
  /\ \A owns : Used(NoMem, owns, {})
<1>1. <<>> \in Seq(Objects) /\ Len(<<>>) = 0
  OBVIOUS
<1>2. /\ NoMem \in Memory /\ NoMem.objects = <<>>
      /\ \A d \in Docs : NoMem.files[d] = NoObject
      /\ \A s \in Sessions : NoMem.file[s] = NoObject
  BY <1>1 DEF NoMem, Memory, NoObject
<1>3. Len(NoMem.objects) = 0 /\ 1..Len(NoMem.objects) = {}
  BY <1>1, <1>2
<1>4. Pointers(NoMem) /\ OneAlive(NoMem)
  BY <1>2, <1>3 DEF Pointers, OneAlive
<1>5. ASSUME NEW owns
      PROVE  Used(NoMem, owns, {})
  BY <1>2, <1>3 DEF Used, TakesPart, InMap, Lists
<1> QED
  BY <1>2, <1>3, <1>4, <1>5

LEMMA InterruptKeeps ==
  ASSUME SInv, Interrupt
  PROVE  SInv'
<1>1. /\ mem' = NoMem /\ opened' = {} /\ owners' = owners /\ active' = active
      /\ failures' = failures /\ overlap' = overlap
      /\ applied' = [d \in Docs |-> IF disk'[d] = Torn THEN {} ELSE disk'[d]]
  BY DEF Interrupt, data
<1>2. disk' \in [Docs -> (SUBSET Edits) \cup {Torn}]
  <2>1. disk \in [Docs -> (SUBSET Edits) \cup {Torn}]
    BY DEF SInv, Tables
  <2>2. disk' = disk \/ \E h : disk' = [disk EXCEPT ![h] = Torn]
    BY DEF Interrupt
  <2> QED
    BY <2>1, <2>2
<1>3. applied' \in [Docs -> SUBSET Edits]
  BY <1>1, <1>2
<1>4. Saved(mem', applied', disk')
  <2>1. 1..Len(mem'.objects) = {}
    BY <1>1, NoMemIs
  <2>2. \A d \in Docs : applied'[d] = IF disk'[d] = Torn THEN {} ELSE disk'[d]
    BY <1>1
  <2> QED
    BY <2>1, <2>2 DEF Saved
<1>5. Tables'
  BY <1>1, <1>2, <1>3 DEF SInv, Tables
<1>6. 0 <= MaxObjects
  BY PoolAssumption
<1> QED
  BY <1>1, <1>4, <1>5, <1>6, NoMemIs DEF SInv

LEMMA SInvInit ==
  ASSUME Init
  PROVE  SInv
<1>1. Tables
  BY DEF Init, Tables
<1>2. Saved(mem, applied, disk)
  <2>1. 1..Len(mem.objects) = {}
    BY NoMemIs DEF Init
  <2>2. \A d \in Docs : applied[d] = {}
    BY DEF Init
  <2> QED
    BY <2>1, <2>2 DEF Saved
<1>3. 0 <= MaxObjects
  BY PoolAssumption
<1> QED
  BY <1>1, <1>2, <1>3, NoMemIs DEF Init, SInv

LEMMA SInvNext ==
  ASSUME SInv, [Next]_vars
  PROVE  SInv'
<1>1. ASSUME NEW s \in Sessions, Open(s)
      PROVE  SInv'
  BY <1>1, OpenKeeps
<1>2. ASSUME NEW s \in Sessions, Quit(s) \/ Disconnect(s) \/ Save(s)
      PROVE  SInv'
  BY <1>2, QuitKeeps, DisconnectKeeps, SaveKeeps
<1>3. ASSUME NEW s \in Sessions, NEW d \in Docs, Delete(s, d)
      PROVE  SInv'
  BY <1>3, DeleteKeeps
<1>4. ASSUME NEW s \in Sessions, NEW e \in Edits, Edit(s, e)
      PROVE  SInv'
  BY <1>4, EditKeeps
<1>5. ASSUME NEW o \in DOMAIN mem.objects, Start(o) \/ Consume(o) \/ Autosave(o) \/ Destroy(o)
      PROVE  SInv'
  BY <1>5, StartKeeps, ConsumeKeeps, AutosaveKeeps, DestroyKeeps
<1>6. CASE Interrupt
  BY <1>6, InterruptKeeps
<1>7. CASE UNCHANGED vars
  BY <1>7 DEF vars, data, history, SInv, Tables
<1> QED
  BY <1>1, <1>2, <1>3, <1>4, <1>5, <1>6, <1>7 DEF Next

LEMMA StoreInductive == Spec => []SInv
BY SInvInit, SInvNext, PTL DEF Spec

-----------------------------------------------------------------------------
(* Theorems.                                                               *)

\* The map, the sessions and the objects of the server fit together, whatever
\* calls fail and whenever the process is interrupted: the map and the
\* sessions never hold an object that was deleted (deleteLater in ~KKFile),
\* and who was told to have a document open holds one.
THEOREM MemoryIsSafe == Spec => []TypeOK
<1>1. SInv => TypeOK
  <2> SUFFICES ASSUME SInv
               PROVE  TypeOK
    OBVIOUS
  <2>1. mem \in Memory /\ DOMAIN mem.objects = 1..Len(mem.objects) /\ Len(mem.objects) <= MaxObjects
    BY DEF SInv, Memory
  <2>2. ASSUME NEW o \in DOMAIN mem.objects
        PROVE  /\ mem.objects[o].hash \in Docs /\ mem.objects[o].text \subseteq Edits
               /\ mem.objects[o].users \subseteq Users /\ mem.objects[o].participants \subseteq Users
               /\ mem.objects[o].thread \in {"queued", "running", "stopped"}
    <3>1. mem.objects[o] \in Objects
      BY <2>1, <2>2, ObjectType
    <3> QED
      BY <3>1 DEF Objects
  <2>3. \A d \in Docs : mem.files[d] # NoObject =>
          mem.objects[mem.files[d]].hash = d /\ mem.objects[mem.files[d]].alive
    BY DEF SInv, Pointers, Live
  <2>4. \A s \in Sessions : mem.file[s] # NoObject => mem.objects[mem.file[s]].alive
    BY DEF SInv, Pointers, Live
  <2>5. \A d \in Docs : disk[d] = Torn \/ disk[d] \subseteq Edits
    BY DEF SInv, Tables
  <2> QED
    BY <2>1, <2>2, <2>3, <2>4, <2>5 DEF TypeOK, SInv, Tables
<1> QED
  BY <1>1, StoreInductive, PTL

\* While the database answers, whoever was told that a document is open takes
\* part in it until it leaves, whatever the other sessions of the same user
\* do: two of them are never in one object, whose participants have one entry
\* per user name (handleOpenFileRequest, KKFile::join, KKFile::leave).
THEOREM OpenedTakePart == Spec => []InFile
<1>1. SInv => InFile
  BY DEF SInv, InFile, Used, TakesPart
<1> QED
  BY <1>1, StoreInductive, PTL

\* While the database answers, the map holds exactly the objects in which
\* somebody takes part: nobody edits a copy that the next to open the document
\* would not find, and none stays open for nobody (connectToFile,
\* disconnectFromFile).
THEOREM MapHoldsTheUsed == Spec => []OpenWhileUsed
<1>1. SInv => OpenWhileUsed
  <2> SUFFICES ASSUME SInv, failures = 0, NEW o \in DOMAIN mem.objects, mem.objects[o].alive
               PROVE  mem.objects[o].participants # {} <=> mem.files[mem.objects[o].hash] = o
    BY DEF OpenWhileUsed
  <2>1. o \in 1..Len(mem.objects) /\ o # NoObject
    BY DEF SInv, Memory, NoObject
  <2>2. mem.objects[o].alive = TRUE
    <3>1. mem.objects[o].alive \in BOOLEAN
      BY <2>1, ObjectType DEF SInv, Objects
    <3> QED
      BY <3>1
  <2> QED
    BY <2>1, <2>2 DEF SInv, Used, InMap
<1> QED
  BY <1>1, StoreInductive, PTL

\* While the database answers, everybody who takes part in a document is in
\* the list of it that SET_PARTECIPANTS is made from (KKFile::getParticipants
\* walks users, which connectToFile reads from the database and addUser adds to).
THEOREM EverybodyIsShown == Spec => []ParticipantsShown
<1>1. SInv => ParticipantsShown
  <2>1. SInv => DOMAIN mem.objects = 1..Len(mem.objects)
    BY DEF SInv, Memory
  <2> QED
    BY <2>1 DEF SInv, ParticipantsShown, Used, Lists
<1> QED
  BY <1>1, StoreInductive, PTL

\* What the server applied to a document is on disk or in the text of a live
\* object that will write it, whatever fails and through interruptions, while
\* nobody opens the document during the destruction of its previous object
\* (flushCrdtText in handleTimeout and ~KKFile against initFile).
THEOREM AppliedIsKept == Spec => []NothingLost
<1>1. SInv => NothingLost
  <2> SUFFICES ASSUME SInv, overlap = FALSE, NEW d \in Docs
               PROVE  applied[d] \subseteq Kept(d)
    BY DEF NothingLost, SInv, Tables
  <2>1. Saved(mem, applied, disk) /\ DOMAIN mem.objects = 1..Len(mem.objects)
    BY DEF SInv, Memory
  <2>2. CASE \E i \in 1..Len(mem.objects) : mem.objects[i].alive = TRUE /\ mem.objects[i].hash = d
    <3>1. PICK i \in 1..Len(mem.objects) : mem.objects[i].alive = TRUE /\ mem.objects[i].hash = d
      BY <2>2
    <3>2. i \in Alive(mem, d) /\ applied[d] \subseteq mem.objects[i].text
      BY <2>1, <3>1 DEF Alive, Saved
    <3> QED
      BY <3>2 DEF Kept
  <2>3. CASE \A i \in 1..Len(mem.objects) : mem.objects[i].alive = TRUE => mem.objects[i].hash # d
    <3>1. applied[d] \subseteq (IF disk[d] = Torn THEN {} ELSE disk[d])
      BY <2>1, <2>3 DEF Saved
    <3> QED
      BY <3>1 DEF Kept
  <2> QED
    BY <2>2, <2>3
<1> QED
  BY <1>1, StoreInductive, PTL

-----------------------------------------------------------------------------
(* What the user finds in the list of documents.                           *)

\* The session s, which has left what it had, is about to take part in o.
Comes(s, m, o, R, n, down) ==
  /\ m \in Memory /\ o \in 1..Len(m.objects) /\ Pointers(m) /\ m.objects[o].alive = TRUE
  /\ OthersStay(mem, m, s) /\ Participate(s, m, R, o, n, down)

LEMMA KnownComes ==
  ASSUME SInv, NEW s \in Sessions, NEW d \in Docs, NEW n, NEW down, OpenKnown(s, d, n, down)
  PROVE  \E m, o : Comes(s, m, o, rows, n, down) /\ m.objects[o].hash = d
<1> DEFINE m == Left(mem, s)
           o == m.files[d]
<1>1. o # NoObject /\ Participate(s, m, rows, o, n, down)
  BY DEF OpenKnown
<1>2. Pointers(m) /\ OthersStay(mem, m, s) /\ m \in Memory
  BY Leaving
<1>3. o \in 1..Len(m.objects) /\ m.objects[o].alive = TRUE /\ m.objects[o].hash = d
  BY <1>1, <1>2 DEF Pointers, Live
<1> HIDE DEF m, o
<1> QED
  BY <1>1, <1>2, <1>3 DEF Comes

LEMMA NewObjectComes ==
  ASSUME SInv, NEW s \in Sessions, NEW d \in Docs, NEW users \in SUBSET Users, NEW m,
         NEW R, NEW n, NEW down, m = Left(mem, s),
         Participate(s, Opened(m, d, users), R, Len(m.objects) + 1, n, down)
  PROVE  \E k, o : Comes(s, k, o, R, n, down) /\ k.objects[o].hash = d
<1> DEFINE k == Opened(m, d, users)
           o == Len(m.objects) + 1
<1>1. Pointers(m) /\ OthersStay(mem, m, s) /\ m \in Memory
  BY Leaving
<1>2. NewIn(m, k, d, users, Read(d))
  BY <1>1, OpenedIs DEF SInv, Tables
<1>3. Participate(s, k, R, o, n, down)
  OBVIOUS
<1> HIDE DEF k
<1>4. Pointers(k)
  BY <1>1, <1>2, NewPointers
<1>5. /\ k \in Memory /\ o \in 1..Len(k.objects) /\ k.objects[o].alive = TRUE
      /\ k.objects[o].hash = d /\ OthersStay(mem, k, s)
  BY <1>1, <1>2 DEF NewIn, OthersStay, Memory
<1> HIDE DEF o
<1> QED
  BY <1>3, <1>4, <1>5 DEF Comes

LEMMA StoredComes ==
  ASSUME SInv, NEW s \in Sessions, NEW d \in Docs, NEW n, NEW down, OpenStored(s, d, n, down)
  PROVE  \E k, o : Comes(s, k, o, rows, n, down) /\ k.objects[o].hash = d
<1> DEFINE m == Left(mem, s)
           users == IF "users" \in down THEN {} ELSE Owners(d)
<1>1. Participate(s, Opened(m, d, users), rows, Len(m.objects) + 1, n, down)
  BY DEF OpenStored
<1>2. users \in SUBSET Users
  BY DEF Owners
<1> HIDE DEF users
<1> QED
  BY <1>1, <1>2, NewObjectComes

LEMMA NewComes ==
  ASSUME SInv, NEW s \in Sessions, NEW d \in Docs, NEW n, NEW down, OpenNew(s, d, n, down)
  PROVE  \/ opened' = opened \ {s} /\ OthersStay(mem, mem', s)
         \/ \E h \in Hashes : \E k, o :
              /\ Comes(s, k, o, FileAdded(rows, n, h, UserOf[s]), n, down) /\ k.objects[o].hash = h
              /\ NameOf[h] = n /\ ~Knows(rows, UserOf[s], n) /\ Owners(h) = {}
<1> DEFINE m == Left(mem, s)
           u == UserOf[s]
<1>1. Pointers(m) /\ OthersStay(mem, m, s) /\ m \in Memory
  BY Leaving
<1>2. CASE NoDocument(s, m)
  <2> HIDE DEF m
  <2> QED
    BY <1>1, <1>2 DEF NoDocument
<1>3. CASE NoDocument(s, [m EXCEPT !.file[s] = NoObject])
  <2> DEFINE k == [m EXCEPT !.file[s] = NoObject]
  <2>1. mem' = k /\ opened' = opened \ {s}
    BY <1>3 DEF NoDocument
  <2> HIDE DEF m
  <2>2. OthersStay(m, k, s)
    BY <1>1, Forgets
  <2> HIDE DEF k
  <2>3. OthersStay(mem, k, s)
    BY <1>1, <2>2 DEF OthersStay
  <2> QED
    BY <2>1, <2>3
<1>4. ASSUME NEW h \in Hashes, Fresh(h), NameOf[h] = n, ~Knows(rows, u, n),
             Participate(s, Opened(m, h, {}), FileAdded(rows, n, h, u), Len(m.objects) + 1, n, down)
      PROVE  \E k, o : Comes(s, k, o, FileAdded(rows, n, h, u), n, down) /\ k.objects[o].hash = h
  <2> DEFINE R == FileAdded(rows, n, h, u)
  <2>1. Participate(s, Opened(m, h, {}), R, Len(m.objects) + 1, n, down)
    BY <1>4
  <2>2. h \in Docs /\ {} \in SUBSET Users
    BY DEF Docs
  <2> HIDE DEF R
  <2>3. \E k, o : Comes(s, k, o, R, n, down) /\ k.objects[o].hash = h
    BY <2>1, <2>2, NewObjectComes
  <2> QED
    BY <2>3 DEF R
<1> HIDE DEF m
<1>5. \/ NoDocument(s, m) \/ NoDocument(s, [m EXCEPT !.file[s] = NoObject])
      \/ \E h \in Hashes :
           /\ Fresh(h) /\ NameOf[h] = n /\ ~Knows(rows, u, n)
           /\ Participate(s, Opened(m, h, {}), FileAdded(rows, n, h, u), Len(m.objects) + 1, n, down)
  BY DEF OpenNew, m
<1> QED
  BY <1>2, <1>3, <1>4, <1>5 DEF Fresh

\* The session comes to a document, or has none, and the others stay.
LEMMA ComesMoves ==
  ASSUME SInv, NEW s \in Sessions, NEW m, NEW o, NEW R, NEW n, NEW down,
         Comes(s, m, o, R, n, down)
  PROVE  /\ OthersStay(mem, mem', s)
         /\ \/ opened' = opened \cup {s} /\ mem'.file[s] = o /\ mem'.objects[o].hash = m.objects[o].hash
            \/ opened' = opened \ {s}
<1>1. /\ Connects(m, mem', s, o)
      /\ (opened' = opened \cup {s} /\ mem'.file[s] = o) \/ opened' = opened \ {s}
  BY ParticipateKeeps DEF Comes, SInv
<1> QED
  BY <1>1 DEF Comes, Connects, SameObjects, OthersStay

\* Its row is there, or is added, unless another document has the name; and
\* the share is active again.
LEMMA ComesListed ==
  ASSUME NEW s \in Sessions, NEW m, NEW o, NEW R, NEW n, NEW d,
         Comes(s, m, o, R, n, {}), d = m.objects[o].hash,
         \A row \in rows : row.user = UserOf[s] /\ row.name = n => row.hash = d,
         \/ R = rows
         \/ R = FileAdded(rows, n, d, UserOf[s]) /\ ~Knows(rows, UserOf[s], n)
  PROVE  <<UserOf[s], d>> \in active' /\ \E row \in rows' : row.user = UserOf[s] /\ row.hash = d
<1> DEFINE u == UserOf[s]
           new == [name |-> n, hash |-> d, user |-> u]
<1>1. new.name = n /\ new.hash = d /\ new.user = u
  OBVIOUS
<1>2. \A row \in R : row.user = u /\ row.name = n => row.hash = d
  BY <1>1 DEF FileAdded
<1>3. rows' = FileAdded(R, n, d, u) => \E row \in rows' : row.user = u /\ row.hash = d
  <2>1. CASE Knows(R, u, n)
    BY <1>2, <2>1 DEF Knows, FileAdded
  <2>2. CASE ~Knows(R, u, n)
    BY <1>1, <2>2 DEF FileAdded
  <2> QED
    BY <2>1, <2>2
<1>4. CASE <<u, d>> \notin owners
  <2>1. NewOwner(s, m, R, o, n, {})
    BY <1>4 DEF Comes, Participate
  <2>2. active' = active \cup {<<u, d>>} /\ rows' = FileAdded(R, n, d, u)
    BY <2>1 DEF NewOwner
  <2> QED
    BY <1>3, <2>2
<1>5. CASE <<u, d>> \in owners
  <2>1. OldOwner(s, m, R, o, n, {})
    BY <1>5 DEF Comes, Participate
  <2>2. active' = Accessed(u, d) /\ rows' = IF ~Knows(R, u, n) THEN FileAdded(R, n, d, u) ELSE R
    BY <2>1 DEF OldOwner
  <2>3. rows' = FileAdded(R, n, d, u)
    BY <2>2 DEF FileAdded
  <2> QED
    BY <1>3, <1>5, <2>2, <2>3 DEF Accessed
<1> QED
  BY <1>4, <1>5

LEMMA NameOfRequest ==
  ASSUME NEW request \in Requests
  PROVE  request[1] \in Docs /\ request[2] = IF request[1] \in Hashes THEN NameOf[request[1]] ELSE request[1]
BY DocsAssumption DEF Requests, Docs

LEMMA OpenListed ==
  ASSUME SInv, NEW s \in Sessions, Open(s), failures' = failures, Opens(s)
  PROVE  OpenListsIt(s)
<1> DEFINE u == UserOf[s]
           Listing(d, n) ==
             (\A row \in rows : row.user = u /\ row.name = n => row.hash = d)
               => <<u, d>> \in active' /\ \E row \in rows' : row.user = u /\ row.hash = d
<1>1. PICK request \in Requests, down \in Outages \cup {{}} :
        /\ Failing(down)
        /\ \/ OpenKnown(s, request[1], request[2], down)
           \/ OpenStored(s, request[1], request[2], down)
           \/ OpenNew(s, request[1], request[2], down)
  BY DEF Open
<1>2. down = {}
  BY <1>1 DEF Failing, SInv, Tables
<1> DEFINE d == request[1]
           n == request[2]
<1>3. d \in Docs /\ n = IF d \in Hashes THEN NameOf[d] ELSE d
  BY NameOfRequest
<1>4. s \in opened' /\ ~(opened' = opened \ {s})
  BY DEF Opens
<1>5. ASSUME NEW m, NEW o, NEW R, NEW e, Comes(s, m, o, R, n, {}), m.objects[o].hash = e,
             \/ R = rows
             \/ R = FileAdded(rows, n, e, u) /\ ~Knows(rows, u, n)
      PROVE  mem'.objects[mem'.file[s]].hash = e /\ Listing(e, n)
  <2>1. mem'.objects[mem'.file[s]].hash = e
    BY <1>4, <1>5, ComesMoves
  <2>2. Listing(e, n)
    BY <1>5, ComesListed
  <2> QED
    BY <2>1, <2>2
<1>6. CASE OpenKnown(s, d, n, {}) \/ OpenStored(s, d, n, {})
  <2>1. \E m, o : Comes(s, m, o, rows, n, {}) /\ m.objects[o].hash = d
    BY <1>3, <1>6, KnownComes, StoredComes
  <2>2. mem'.objects[mem'.file[s]].hash = d /\ Listing(d, n)
    BY <1>5, <2>1
  <2> QED
    BY <1>3, <2>2 DEF OpenListsIt
<1>7. CASE OpenNew(s, d, n, {})
  <2>1. \E h \in Hashes : \E m, o :
          /\ Comes(s, m, o, FileAdded(rows, n, h, u), n, {}) /\ m.objects[o].hash = h
          /\ NameOf[h] = n /\ ~Knows(rows, u, n)
    BY <1>3, <1>4, <1>7, NewComes
  <2>2. PICK h \in Hashes : \E m, o :
          /\ Comes(s, m, o, FileAdded(rows, n, h, u), n, {}) /\ m.objects[o].hash = h
          /\ NameOf[h] = n /\ ~Knows(rows, u, n)
    BY <2>1
  <2>3. mem'.objects[mem'.file[s]].hash = h /\ Listing(h, n)
    BY <1>5, <2>2
  <2> QED
    BY <2>2, <2>3 DEF OpenListsIt
<1> QED
  BY <1>1, <1>2, <1>6, <1>7

\* Every other step leaves the document of a session that has one.
LEMMA OnlyOpenOpens ==
  ASSUME SInv, [Next]_vars, NEW s \in Sessions, Opens(s)
  PROVE  Open(s)
<1>1. s \in opened' /\ (s \notin opened \/ mem'.file[s] # mem.file[s])
  BY DEF Opens
<1>2. ASSUME NEW t \in Sessions, t # s, OthersStay(mem, mem', t),
             opened' = opened \cup {t} \/ opened' = opened \ {t}
      PROVE  FALSE
  BY <1>1, <1>2 DEF OthersStay
<1>3. ASSUME opened' = opened \ {s}
      PROVE  FALSE
  BY <1>1, <1>3
<1>4. ASSUME NEW t \in Sessions, t # s, Open(t)
      PROVE  FALSE
  <2>1. PICK request \in Requests, down \in Outages \cup {{}} :
          \/ OpenKnown(t, request[1], request[2], down)
          \/ OpenStored(t, request[1], request[2], down)
          \/ OpenNew(t, request[1], request[2], down)
    BY <1>4 DEF Open
  <2>2. request[1] \in Docs
    BY NameOfRequest
  <2>3. \/ opened' = opened \ {t} /\ OthersStay(mem, mem', t)
        \/ \E m, o, R : Comes(t, m, o, R, request[2], down)
    BY <2>1, <2>2, KnownComes, StoredComes, NewComes
  <2> QED
    BY <1>2, <1>4, <2>3, ComesMoves
<1>5. ASSUME NEW t \in Sessions, Quit(t) \/ Disconnect(t)
      PROVE  FALSE
  <2> DEFINE m == Left(mem, t)
  <2>1. opened' = opened \ {t} /\ (mem' = m \/ mem' = [m EXCEPT !.file[t] = NoObject])
    BY <1>5 DEF Quit, Disconnect, NoDocument
  <2>2. OthersStay(mem, m, t) /\ m \in Memory /\ Pointers(m)
    BY Leaving
  <2> HIDE DEF m
  <2>3. OthersStay(mem, mem', t)
    <3>1. mem' = [m EXCEPT !.file[t] = NoObject] => OthersStay(m, mem', t)
      BY <2>2, Forgets
    <3> QED
      BY <2>1, <2>2, <3>1 DEF OthersStay
  <2> QED
    BY <1>2, <1>3, <2>1, <2>3
<1>6. ASSUME opened' = opened, mem'.file = mem.file
      PROVE  FALSE
  BY <1>1, <1>6
<1>7. ASSUME NEW t \in Sessions, Save(t) \/ (\E d \in Docs : Delete(t, d)) \/ (\E e \in Edits : Edit(t, e))
      PROVE  FALSE
  <2>1. mem = [files |-> mem.files, objects |-> mem.objects, file |-> mem.file]
    BY DEF SInv, Memory
  <2>2. CASE Save(t) \/ \E d \in Docs : Delete(t, d)
    BY <1>6, <2>2 DEF Save, Delete
  <2>3. CASE \E e \in Edits : Edit(t, e)
    BY <1>6, <2>1, <2>3 DEF Edit
  <2> QED
    BY <1>7, <2>2, <2>3
<1>8. ASSUME NEW o \in DOMAIN mem.objects, Start(o) \/ Consume(o) \/ Autosave(o) \/ Destroy(o)
      PROVE  FALSE
  <2>1. mem = [files |-> mem.files, objects |-> mem.objects, file |-> mem.file]
    BY DEF SInv, Memory
  <2>2. opened' = opened
    BY <1>8 DEF Start, Consume, Autosave, Destroy
  <2>3. mem'.file = mem.file
    BY <1>8, <2>1 DEF Start, Consume, Autosave, Destroy
  <2> QED
    BY <1>6, <2>2, <2>3
<1>9. CASE Interrupt
  BY <1>1, <1>9 DEF Interrupt
<1>10. CASE UNCHANGED vars
  BY <1>6, <1>10 DEF vars
<1> QED
  BY <1>4, <1>5, <1>7, <1>8, <1>9, <1>10 DEF Next

\* A document that a session opens, no call failing, is in the list of its
\* user afterwards, also when the user had deleted it: the share is active and
\* the row of FILES is there, unless the user calls another document so
\* (connectToFile: addFile, addOwner, updateAccessShareFile).
THEOREM OpenedIsListed == Spec => OpenLists
<1>1. SInv /\ [Next]_vars
        => [\A s \in Sessions : Opens(s) /\ failures' = failures => OpenListsIt(s)]_vars
  BY OnlyOpenOpens, OpenListed
<1> QED
  BY <1>1, StoreInductive, PTL DEF Spec, OpenLists
=============================================================================
