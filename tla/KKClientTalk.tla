---------------------------- MODULE KKClientTalk ----------------------------
(***************************************************************************)
(* The conversation of a client with its session (KKClient): what a        *)
(* patient user may rely on, whatever is typed, refused, lost or late.     *)
(*                                                                         *)
(* The client finds out by its own state what an answer is about, and the  *)
(* session looks at its document without a check.  Both are right because  *)
(* at most one exchange is under way: what the user asked for is in the    *)
(* requests u that the session has not handled, or its answers are among   *)
(* those (a) that the client has not.  TalkInv says which exchanges there  *)
(* are, and for each what the windows, the session and the tables are      *)
(* meanwhile.                                                              *)
(*                                                                         *)
(* ListInv adds what becomes of the list of documents: every list that is  *)
(* shown or on its way is the one in the tables, and what a request asks   *)
(* for has the name that it gets there.                                    *)
(***************************************************************************)
EXTENDS KKClientProofs

-----------------------------------------------------------------------------
(* The exchanges.                                                          *)

\* What is in a queue, of requests or of answers.
Has(q, type) == \E m \in ToSet(q) : m.type = type
Due(u, a, type) == Has(u, type) \/ Has(a, type)
Quiet(q) == \A t \in Answerable : ~Has(q, t)
Among(q, types) == \A t \in Answerable \ types : ~Has(q, t)
Lone(q) ==
  \A i, j \in 1..Len(q) : q[i].type \in Answerable /\ q[j].type \in Answerable => i = j
Only(q, type) == Has(q, type) /\ Lone(q)

\* A document that is opened: its text follows.
Opens(m) == m.type = "OPEN_FILE" /\ m.result = "SUCCESS"
NotOpened(q) == \A m \in ToSet(q) : ~Opens(m)
OpenThenLoad(q) ==
  \E i, j \in 1..Len(q) :
    /\ i < j /\ Opens(q[i]) /\ q[j].type = "LOAD_FILE"
    /\ \A k \in 1..Len(q) : k \notin {i, j} => q[k].type \notin Answerable

\* At most one request that is answered by one message, any number of LOAD_FILE
\* (a dialog asks twice when its button is pressed), QUIT_FILE and the GET_FILES
\* that follows it, or the two answers to a document that is opened.
Single == {"LOGIN", "SIGNUP", "LOGOUT", "UPDATE_USER", "DELETE_FILE", "OPEN_FILE"}
Exchange(u, a) ==
  \/ Among(u, {"LOAD_FILE"}) /\ Among(a, {"LOAD_FILE"})
  \/ Among(u, {"QUIT_FILE", "GET_FILES"}) /\ Among(a, {"QUIT_FILE", "GET_FILES"})
  \/ \E type \in Single : Only(u, type) /\ Quiet(a)
  \/ \E type \in Single : Quiet(u) /\ Only(a, type) /\ NotOpened(a)
  \/ Quiet(u) /\ OpenThenLoad(a)

\* No request for the document comes to a session that has none, neither now
\* nor when it has handled those that end its part in a document.
Ends == {"QUIT_FILE", "LOGOUT", "OPEN_FILE"}
Safe(u, file) ==
  \A i \in 1..Len(u) : u[i].type \in NeedsFile =>
    file # Nothing /\ \A j \in 1..(i - 1) : u[j].type \notin Ends

\* The texts and the edits that are going to be applied are of the document.
Right(a, valid, doc) ==
  \A i \in 1..Len(a) :
    (\/ a[i].type = "LOAD_FILE"
     \/ a[i].type = "CRDT" /\
          (valid \/ \E j \in 1..(i - 1) : a[j].type = "LOAD_FILE" \/ Opens(a[j])))
      => a[i].body = doc

\* The document the windows are of (WindowsOf).
Shows(c, docs) == IF c.hash \in docs THEN c.hash ELSE Doc(c.user, c.hash)

-----------------------------------------------------------------------------
(* The invariant.                                                          *)

\* Who waits for an answer is in the state its handlers decide by.
Expected(c, u, a) ==
  /\ Due(u, a, "LOGIN") => c.access /\ c.state = "CONNECTED_NOT_LOGGED"
  /\ Due(u, a, "SIGNUP") => c.access /\ c.state = "CONNECTED_NOT_SIGNED"
  /\ Due(u, a, "OPEN_FILE") => /\ ~c.access /\ ~c.dialog /\ ~c.valid
                               /\ c.editor = "shown" /\ c.state = "CONNECTED_NOT_OPENFILE"
  /\ Due(u, a, "GET_FILES") => ~c.access /\ c.state = "CONNECTED_AND_LOGGED"
  /\ Due(u, a, "QUIT_FILE") => ~c.access
  /\ Due(u, a, "UPDATE_USER") \/ Due(u, a, "DELETE_FILE") => c.dialog
  /\ Due(u, a, "LOAD_FILE") => ~c.access /\ c.editor = "shown"

\* What can be refused, and what can fail.
Results(a) ==
  \A m \in ToSet(a) :
    /\ m.result = "BAD" => m.type \in {"LOGIN", "SIGNUP", "OPEN_FILE", "DELETE_FILE"}
    /\ m.result = "ERROR" =>
         m.type \in {"LOGIN", "SIGNUP", "OPEN_FILE", "DELETE_FILE", "UPDATE_USER"}

\* The dialog belongs to a user who is logged in; a message is shown while
\* nothing is due.
Dialogs(c, u, a) ==
  /\ c.dialog => /\ ~c.access
                 /\ c.state \in {"CONNECTED", "CONNECTED_AND_LOGGED"} \/ Due(u, a, "LOGOUT")
  /\ c.modal =>
       /\ Quiet(u) /\ Quiet(a)
       /\ c.kind \in {"LOGIN_ERROR", "UPDATE_USER_ERROR", "OPENFILE_ERROR", "CRDT_ILLEGAL",
                      "GENERIC_SUCCESS", "FILE_ERROR", "SERVER_ERROR"}
       /\ c.kind = "CRDT_ILLEGAL" => c.editor = "shown"
       /\ c.kind = "OPENFILE_ERROR" => ~c.access
  /\ c.access => c.editor # "shown"

\* The editor is shown while the session takes part in the document, but while
\* that changes, and while an error says that it did not.
Broken(c) == c.modal /\ c.kind \in {"OPENFILE_ERROR", "SERVER_ERROR"}
Moving(c, u, a) ==
  Due(u, a, "LOGOUT") \/ Due(u, a, "QUIT_FILE") \/ Due(u, a, "OPEN_FILE") \/ Broken(c)
Windows(c, s, a) ==
  /\ ~Moving(c, s.up, a) => (c.editor = "shown" <=> s.joined)
  /\ OpenThenLoad(a) => s.joined
  /\ Has(a, "QUIT_FILE") /\ ~Has(s.up, "QUIT_FILE") => ~s.joined
  /\ Has(a, "LOGOUT") => ~s.joined
  /\ c.access /\ ~Due(s.up, a, "LOGOUT") => ~s.joined /\ (c.valid => ~Has(a, "CRDT"))

\* The copy, the texts under way and the document of the session are those of
\* the document the windows are of.
Texts(c, s, a, docs) ==
  /\ \A r \in ToSet(s.up) : r.type = "OPEN_FILE" => r.hash = c.hash
  /\ c.editor = "shown" /\ ~c.busy => c.copy = Shows(c, docs)
  /\ Right(a, c.valid, Shows(c, docs))
  /\ s.joined /\ (c.valid \/ OpenThenLoad(a) \/ ~Moving(c, s.up, a)) => s.file = Shows(c, docs)

\* The user and his alias, unless an UPDATE failed unnoticed.
Profiles(c, s, a, d, sp) ==
  /\ ~c.access => s.user = c.user
  /\ \A m \in ToSet(a) : m.type = "LOGIN" /\ m.result = "SUCCESS" =>
       /\ m.body.user = s.user
       /\ "exec" \notin sp => m.body.alias = AliasOf(d, s.user)
  /\ "exec" \notin sp /\ ~c.access =>
      /\ ~Has(a, "UPDATE_USER") => c.alias = AliasOf(d, c.user)
      /\ \A r \in ToSet(s.up) : r.type = "UPDATE_USER" => r.alias = c.field
      /\ \A m \in ToSet(a) : m.type = "UPDATE_USER" =>
           AliasOf(d, c.user) = IF m.result = "SUCCESS" THEN c.field ELSE c.alias
Talk(c, s, a, d, sp) ==
  /\ Exchange(s.up, a) /\ Expected(c, s.up, a) /\ Results(a) /\ Dialogs(c, s.up, a)
  /\ Windows(c, s, a) /\ Texts(c, s, a, d.docs) /\ Profiles(c, s, a, d, sp)

\* What holds with a connection or without one.
Conn(c, s, g, a, docs) ==
  /\ Safe(s.up, s.file) /\ Safe(g.up, g.file)
  /\ c.socket # "open" => a = <<>>
  /\ c.socket \in {"opening", "closed"} => s.up = <<>>
  /\ c.socket = "opening" => c.access /\ ~c.dialog /\ c.editor # "shown" /\ ~c.modal
  /\ (c.hash \in docs \/ c.hash \in Names \/ c.hash = Nothing)

\* For the user who attends to what is shown and waits for what is due.
TalkInv ==
  ~hasty =>
    /\ ~crashed /\ Conn(client, session, ghost, answers, db.docs)
    /\ client.socket = "open" => Talk(client, session, answers, db, spoilt)

-----------------------------------------------------------------------------
(* Queues.                                                                 *)

IsSeq(q) == q \in Seq(ToSet(q))

\* By index and as a set, of a queue, its tail and what is appended to it.
LEMMA InIndex ==
  ASSUME NEW q, IsSeq(q)
  PROVE  /\ Len(q) \in Nat /\ DOMAIN q = 1..Len(q)
         /\ ToSet(q) = {q[i] : i \in 1..Len(q)}
         /\ q = <<>> <=> Len(q) = 0
BY DEF IsSeq, ToSet

LEMMA AtTail ==
  ASSUME NEW q, IsSeq(q), q # <<>>
  PROVE  /\ IsSeq(Tail(q)) /\ Len(q) \in Nat \ {0} /\ Len(Tail(q)) = Len(q) - 1 /\ Head(q) = q[1]
         /\ \A i \in 1..Len(Tail(q)) : Tail(q)[i] = q[i + 1]
         /\ ToSet(q) = {Head(q)} \cup ToSet(Tail(q))
<1>1. IsSeq(Tail(q))
  BY InTail DEF IsSeq
<1>2. /\ Len(q) \in Nat \ {0} /\ Len(Tail(q)) = Len(q) - 1 /\ Head(q) = q[1]
      /\ \A i \in 1..Len(Tail(q)) : Tail(q)[i] = q[i + 1]
  BY DEF IsSeq
<1>3. ToSet(q) \subseteq {Head(q)} \cup ToSet(Tail(q))
  <2> SUFFICES ASSUME NEW i \in 1..Len(q), i # 1 PROVE q[i] \in ToSet(Tail(q))
    BY <1>2, InIndex
  <2>1. i - 1 \in 1..Len(Tail(q)) /\ Tail(q)[i - 1] = q[i]
    BY <1>2
  <2> QED BY <1>1, <2>1, InIndex
<1>4. {Head(q)} \cup ToSet(Tail(q)) \subseteq ToSet(q)
  BY InTail DEF IsSeq
<1> QED BY <1>1, <1>2, <1>3, <1>4

LEMMA AtEnd ==
  ASSUME NEW q, IsSeq(q), NEW m
  PROVE  /\ IsSeq(Append(q, m)) /\ Len(q) \in Nat /\ Len(Append(q, m)) = Len(q) + 1
         /\ Append(q, m)[Len(q) + 1] = m
         /\ \A i \in 1..Len(q) : Append(q, m)[i] = q[i]
         /\ ToSet(Append(q, m)) = ToSet(q) \cup {m}
<1>1. IsSeq(Append(q, m)) /\ ToSet(Append(q, m)) \subseteq ToSet(q) \cup {m}
  BY InAppend DEF IsSeq
<1>2. /\ Len(q) \in Nat /\ Len(Append(q, m)) = Len(q) + 1
      /\ Append(q, m)[Len(q) + 1] = m
      /\ \A i \in 1..Len(q) : Append(q, m)[i] = q[i]
  BY DEF IsSeq
<1>3. ToSet(q) \cup {m} \subseteq ToSet(Append(q, m))
  <2>1. /\ ToSet(q) = {q[i] : i \in 1..Len(q)}
        /\ ToSet(Append(q, m)) = {Append(q, m)[i] : i \in 1..Len(Append(q, m))}
    BY <1>1, InIndex
  <2> QED BY <1>2, <2>1
<1> QED BY <1>1, <1>2, <1>3

LEMMA AddedOne ==
  ASSUME NEW q, IsSeq(q), NEW m
  PROVE  q \o <<m>> = Append(q, m)
BY DEF IsSeq

LEMMA AddedTwo ==
  ASSUME NEW q, IsSeq(q), NEW m, NEW n
  PROVE  q \o (<<m>> \o <<n>>) = Append(Append(q, m), n)
<1>1. q \in Seq(ToSet(q) \cup {m, n})
  BY DEF IsSeq
<1> QED BY <1>1

\* What a queue has when something is taken from it or added.
LEMMA HasTail ==
  ASSUME NEW q, IsSeq(q), q # <<>>
  PROVE  \A t : Has(q, t) <=> Head(q).type = t \/ Has(Tail(q), t)
BY AtTail DEF Has

LEMMA HasMore ==
  ASSUME NEW q, IsSeq(q), NEW m
  PROVE  \A t : Has(Append(q, m), t) <=> Has(q, t) \/ m.type = t
BY AtEnd DEF Has

LEMMA HasNothing == \A t : ~Has(<<>>, t)
BY DEF Has, ToSet

\* One message that is answered, or an answer, alone among others.
LEMMA LoneTail ==
  ASSUME NEW q, IsSeq(q), q # <<>>, Lone(q)
  PROVE  /\ Lone(Tail(q))
         /\ Head(q).type \in Answerable => Quiet(Tail(q))
<1>1. Lone(Tail(q))
  <2> SUFFICES ASSUME NEW i \in 1..Len(Tail(q)), NEW j \in 1..Len(Tail(q)),
                      Tail(q)[i].type \in Answerable, Tail(q)[j].type \in Answerable
               PROVE  i = j
    BY DEF Lone
  <2>1. i + 1 \in 1..Len(q) /\ j + 1 \in 1..Len(q) /\ q[i + 1] = Tail(q)[i] /\ q[j + 1] = Tail(q)[j]
    BY AtTail
  <2>2. i + 1 = j + 1
    BY <2>1 DEF Lone
  <2> QED BY <2>2, AtTail
<1>2. ASSUME Head(q).type \in Answerable, NEW t \in Answerable, Has(Tail(q), t) PROVE FALSE
  <2>1. PICK i \in 1..Len(Tail(q)) : Tail(q)[i].type = t
    <3>1. IsSeq(Tail(q))
      BY AtTail
    <3>2. ToSet(Tail(q)) = {Tail(q)[i] : i \in 1..Len(Tail(q))}
      BY <3>1, InIndex
    <3> QED BY <1>2, <3>2 DEF Has
  <2>2. i + 1 \in 1..Len(q) /\ 1 \in 1..Len(q) /\ q[i + 1].type \in Answerable /\ q[1].type \in Answerable
    BY <1>2, <2>1, AtTail
  <2>3. i + 1 = 1
    BY <2>2 DEF Lone
  <2> QED BY <2>3, AtTail
<1> QED BY <1>1, <1>2 DEF Quiet

LEMMA LoneMore ==
  ASSUME NEW q, IsSeq(q), NEW m, Quiet(q) \/ (Lone(q) /\ m.type \notin Answerable)
  PROVE  Lone(Append(q, m))
<1> SUFFICES ASSUME NEW i \in 1..(Len(q) + 1), NEW j \in 1..(Len(q) + 1),
                    Append(q, m)[i].type \in Answerable, Append(q, m)[j].type \in Answerable
             PROVE  i = j
  BY AtEnd DEF Lone
<1>1. Len(q) \in Nat
  BY AtEnd
<1>2. CASE Quiet(q)
  <2>1. \A k \in 1..Len(q) : Append(q, m)[k].type \notin Answerable
    BY <1>2, AtEnd, InIndex DEF Quiet, Has
  <2> QED BY <1>1, <2>1
<1>3. CASE Lone(q) /\ m.type \notin Answerable
  <2>1. i \in 1..Len(q) /\ j \in 1..Len(q)
    BY <1>1, <1>3, AtEnd
  <2> QED BY <1>3, <2>1, AtEnd DEF Lone
<1> QED BY <1>2, <1>3

LEMMA LoneHas ==
  ASSUME NEW q, IsSeq(q), Lone(q)
  PROVE  \A s, t \in Answerable : Has(q, s) /\ Has(q, t) => s = t
BY InIndex DEF Lone, Has

\* A document that is opened and its text, in this order.
LEMMA OpenTail ==
  ASSUME NEW q, IsSeq(q), q # <<>>, OpenThenLoad(q)
  PROVE  \/ Head(q).type \notin Answerable /\ OpenThenLoad(Tail(q))
         \/ Opens(Head(q)) /\ Only(Tail(q), "LOAD_FILE")
<1>1. PICK i \in 1..Len(q), j \in 1..Len(q) :
        /\ i < j /\ Opens(q[i]) /\ q[j].type = "LOAD_FILE"
        /\ \A k \in 1..Len(q) : k \notin {i, j} => q[k].type \notin Answerable
  BY DEF OpenThenLoad
<1>2. /\ Len(q) \in Nat \ {0} /\ Len(Tail(q)) = Len(q) - 1 /\ Head(q) = q[1]
      /\ \A k \in 1..Len(Tail(q)) : Tail(q)[k] = q[k + 1]
  BY AtTail
<1>3. j - 1 \in 1..Len(Tail(q)) /\ Tail(q)[j - 1] = q[j]
  BY <1>1, <1>2
<1>4. \A k \in 1..Len(Tail(q)) :
        k \notin {i - 1, j - 1} => Tail(q)[k].type \notin Answerable
  <2> SUFFICES ASSUME NEW k \in 1..Len(Tail(q)), k \notin {i - 1, j - 1}
               PROVE  Tail(q)[k].type \notin Answerable
    OBVIOUS
  <2>1. k + 1 \in 1..Len(q) /\ k + 1 \notin {i, j} /\ Tail(q)[k] = q[k + 1]
    BY <1>1, <1>2
  <2> QED BY <1>1, <2>1
<1>5. CASE i = 1
  <2>1. Lone(Tail(q))
    <3>1. \A k \in 1..Len(Tail(q)) : Tail(q)[k].type \in Answerable => k = j - 1
      BY <1>1, <1>2, <1>4, <1>5
    <3> QED BY <3>1 DEF Lone
  <2>2. Has(Tail(q), "LOAD_FILE")
    <3>1. IsSeq(Tail(q))
      BY AtTail
    <3>2. Tail(q)[j - 1] \in ToSet(Tail(q))
      BY <1>3, <3>1, InIndex
    <3> QED BY <1>1, <1>3, <3>2 DEF Has
  <2> QED BY <1>1, <1>2, <1>5, <2>1, <2>2 DEF Only
<1>6. CASE i # 1
  <2>1. i - 1 \in 1..Len(Tail(q)) /\ Tail(q)[i - 1] = q[i] /\ i - 1 < j - 1
    BY <1>1, <1>2, <1>6
  <2>2. OpenThenLoad(Tail(q))
    BY <1>1, <1>3, <1>4, <2>1 DEF OpenThenLoad
  <2>3. Head(q).type \notin Answerable
    BY <1>1, <1>2, <1>6
  <2> QED BY <2>2, <2>3
<1> QED BY <1>5, <1>6

LEMMA OpenMore ==
  ASSUME NEW q, IsSeq(q), NEW m, OpenThenLoad(q), m.type \notin Answerable
  PROVE  OpenThenLoad(Append(q, m))
<1>1. PICK i \in 1..Len(q), j \in 1..Len(q) :
        /\ i < j /\ Opens(q[i]) /\ q[j].type = "LOAD_FILE"
        /\ \A k \in 1..Len(q) : k \notin {i, j} => q[k].type \notin Answerable
  BY DEF OpenThenLoad
<1>2. \A k \in 1..(Len(q) + 1) : k \notin {i, j} => Append(q, m)[k].type \notin Answerable
  BY <1>1, AtEnd
<1>3. i \in 1..(Len(q) + 1) /\ j \in 1..(Len(q) + 1)
  BY <1>1, AtEnd
<1> QED BY <1>1, <1>2, <1>3, AtEnd DEF OpenThenLoad

LEMMA OpenBoth ==
  ASSUME NEW q, IsSeq(q), Quiet(q), NEW m, Opens(m), NEW n, n.type = "LOAD_FILE"
  PROVE  OpenThenLoad(Append(Append(q, m), n))
<1> DEFINE p == Append(q, m)
           r == Append(p, n)
           i == Len(q) + 1
           j == Len(q) + 2
<1>1. IsSeq(p) /\ Len(q) \in Nat /\ Len(p) = i /\ p[i] = m /\ \A k \in 1..Len(q) : p[k] = q[k]
  BY AtEnd
<1> HIDE DEF p
<1>2. Len(r) = j /\ r[j] = n /\ \A k \in 1..i : r[k] = p[k]
  BY <1>1, AtEnd
<1>3. \A k \in 1..Len(q) : q[k].type \notin Answerable
  BY InIndex DEF Quiet, Has
<1> HIDE DEF r
<1>4. i \in 1..Len(r) /\ j \in 1..Len(r) /\ i < j /\ r[i] = m /\ r[j] = n
  BY <1>1, <1>2
<1>5. \A k \in 1..Len(r) : k \notin {i, j} => r[k].type \notin Answerable
  <2> SUFFICES ASSUME NEW k \in 1..Len(r), k \notin {i, j} PROVE r[k].type \notin Answerable
    OBVIOUS
  <2>1. k \in 1..Len(q) /\ r[k] = q[k]
    BY <1>1, <1>2
  <2> QED BY <1>3, <2>1
<1> HIDE DEF i, j
<1>6. OpenThenLoad(r)
  BY <1>4, <1>5 DEF OpenThenLoad
<1> QED BY <1>6 DEF p, r

\* It has both answers.
LEMMA OpenHas ==
  ASSUME NEW q, IsSeq(q), OpenThenLoad(q)
  PROVE  /\ Has(q, "OPEN_FILE") /\ Has(q, "LOAD_FILE") /\ Among(q, {"OPEN_FILE", "LOAD_FILE"})
         /\ \E m \in ToSet(q) : Opens(m)
<1>1. PICK i \in 1..Len(q), j \in 1..Len(q) :
        /\ i < j /\ Opens(q[i]) /\ q[j].type = "LOAD_FILE"
        /\ \A k \in 1..Len(q) : k \notin {i, j} => q[k].type \notin Answerable
  BY DEF OpenThenLoad
<1>2. q[i] \in ToSet(q) /\ q[j] \in ToSet(q)
  BY InIndex
<1>3. \A k \in 1..Len(q) : q[k].type \in Answerable => q[k].type \in {"OPEN_FILE", "LOAD_FILE"}
  BY <1>1 DEF Opens
<1>4. Among(q, {"OPEN_FILE", "LOAD_FILE"})
  BY <1>3, InIndex DEF Among, Has
<1> QED BY <1>1, <1>2, <1>4 DEF Has, Opens

\* A request for the document finds one.
LEMMA SafeTail ==
  ASSUME NEW u, IsSeq(u), u # <<>>, NEW file, Safe(u, file)
  PROVE  /\ Head(u).type \in NeedsFile => file # Nothing
         /\ Safe(Tail(u), file)
         /\ Head(u).type \in Ends => \A any : Safe(Tail(u), any)
<1>1. /\ Len(u) \in Nat \ {0} /\ Len(Tail(u)) = Len(u) - 1 /\ Head(u) = u[1]
      /\ \A k \in 1..Len(Tail(u)) : Tail(u)[k] = u[k + 1]
  BY AtTail
<1>2. ASSUME NEW i \in 1..Len(Tail(u)), Tail(u)[i].type \in NeedsFile
      PROVE  /\ file # Nothing /\ \A j \in 1..(i - 1) : Tail(u)[j].type \notin Ends
             /\ Head(u).type \notin Ends
  <2>1. i + 1 \in 1..Len(u) /\ u[i + 1].type \in NeedsFile
    BY <1>1, <1>2
  <2>2. file # Nothing /\ \A j \in 1..i : u[j].type \notin Ends
    BY <2>1, <1>1 DEF Safe
  <2>3. ASSUME NEW j \in 1..(i - 1) PROVE Tail(u)[j].type \notin Ends
    <3>1. j + 1 \in 1..i /\ Tail(u)[j] = u[j + 1]
      BY <1>1
    <3> QED BY <2>2, <3>1
  <2> QED BY <1>1, <2>2, <2>3
<1> QED BY <1>1, <1>2 DEF Safe

LEMMA SafeMore ==
  ASSUME NEW u, IsSeq(u), NEW file, Safe(u, file), NEW r,
         r.type \in NeedsFile => file # Nothing /\ \A t \in Ends : ~Has(u, t)
  PROVE  Safe(Append(u, r), file)
<1> SUFFICES ASSUME NEW i \in 1..(Len(u) + 1), Append(u, r)[i].type \in NeedsFile
             PROVE  file # Nothing /\ \A j \in 1..(i - 1) : Append(u, r)[j].type \notin Ends
  BY AtEnd DEF Safe
<1>1. Len(u) \in Nat /\ \A j \in 1..(i - 1) : j \in 1..Len(u) /\ Append(u, r)[j] = u[j]
  BY AtEnd
<1>2. CASE i \in 1..Len(u)
  BY <1>1, <1>2, AtEnd DEF Safe
<1>3. CASE i = Len(u) + 1
  <2>1. r.type \in NeedsFile
    BY <1>3, AtEnd
  <2> QED BY <1>1, <2>1, InIndex DEF Has
<1> QED BY <1>1, <1>2, <1>3

LEMMA SafePrefix ==
  ASSUME NEW u, IsSeq(u), NEW file, Safe(u, file), NEW k \in 0..Len(u)
  PROVE  Safe(SubSeq(u, 1, k), file)
<1>1. Len(SubSeq(u, 1, k)) = k /\ Len(u) \in Nat /\ \A i \in 1..k : SubSeq(u, 1, k)[i] = u[i]
  BY DEF IsSeq
<1> QED BY <1>1 DEF Safe

LEMMA SafeNothing == \A file : Safe(<<>>, file)
BY DEF Safe

\* The first text or edit, and those that follow: a document that is opened
\* makes the file valid.
LEMMA RightTail ==
  ASSUME NEW a, IsSeq(a), a # <<>>, NEW valid \in BOOLEAN, NEW doc, Right(a, valid, doc),
         NEW later \in BOOLEAN,
         later => valid \/ Head(a).type = "LOAD_FILE" \/ Opens(Head(a))
  PROVE  /\ Right(Tail(a), later, doc)
         /\ Head(a).type = "LOAD_FILE" \/ (Head(a).type = "CRDT" /\ valid) => Head(a).body = doc
<1>1. /\ Len(a) \in Nat \ {0} /\ Len(Tail(a)) = Len(a) - 1 /\ Head(a) = a[1]
      /\ \A k \in 1..Len(Tail(a)) : Tail(a)[k] = a[k + 1]
  BY AtTail
<1>2. Head(a).type = "LOAD_FILE" \/ (Head(a).type = "CRDT" /\ valid) => Head(a).body = doc
  BY <1>1 DEF Right
<1>3. ASSUME NEW i \in 1..Len(Tail(a)),
             \/ Tail(a)[i].type = "LOAD_FILE"
             \/ Tail(a)[i].type = "CRDT" /\
                  (later \/ \E j \in 1..(i - 1) : Tail(a)[j].type = "LOAD_FILE" \/ Opens(Tail(a)[j]))
      PROVE  Tail(a)[i].body = doc
  <2>1. i + 1 \in 1..Len(a) /\ Tail(a)[i] = a[i + 1]
    BY <1>1
  <2>2. CASE a[i + 1].type = "LOAD_FILE"
    BY <2>1, <2>2 DEF Right
  <2>3. CASE a[i + 1].type = "CRDT" /\ later
    <3>1. valid \/ \E j \in 1..((i + 1) - 1) : a[j].type = "LOAD_FILE" \/ Opens(a[j])
      BY <1>1, <2>3
    <3> QED BY <2>1, <2>3, <3>1 DEF Right
  <2>4. CASE a[i + 1].type = "CRDT" /\
               \E j \in 1..(i - 1) : Tail(a)[j].type = "LOAD_FILE" \/ Opens(Tail(a)[j])
    <3>1. PICK j \in 1..(i - 1) : Tail(a)[j].type = "LOAD_FILE" \/ Opens(Tail(a)[j])
      BY <2>4
    <3>2. j + 1 \in 1..((i + 1) - 1) /\ a[j + 1] = Tail(a)[j]
      BY <1>1
    <3> QED BY <2>1, <2>4, <3>1, <3>2 DEF Right
  <2> QED BY <1>3, <2>1, <2>2, <2>3, <2>4
<1> QED BY <1>2, <1>3 DEF Right

LEMMA RightMore ==
  ASSUME NEW a, IsSeq(a), NEW valid, NEW doc, Right(a, valid, doc), NEW m,
         (\/ m.type = "LOAD_FILE"
          \/ m.type = "CRDT" /\ (valid \/ \E n \in ToSet(a) : n.type = "LOAD_FILE" \/ Opens(n)))
           => m.body = doc
  PROVE  Right(Append(a, m), valid, doc)
<1> DEFINE p == Append(a, m)
<1>1. /\ Len(a) \in Nat /\ Len(p) = Len(a) + 1 /\ p[Len(a) + 1] = m
      /\ \A i \in 1..Len(a) : p[i] = a[i]
  BY AtEnd
<1> HIDE DEF p
<1>2. ASSUME NEW i \in 1..Len(p),
             \/ p[i].type = "LOAD_FILE"
             \/ p[i].type = "CRDT" /\
                  (valid \/ \E j \in 1..(i - 1) : p[j].type = "LOAD_FILE" \/ Opens(p[j]))
      PROVE  p[i].body = doc
  <2>1. \A j \in 1..(i - 1) : j \in 1..Len(a) /\ p[j] = a[j]
    BY <1>1
  <2>2. CASE i \in 1..Len(a)
    BY <1>1, <1>2, <2>1, <2>2 DEF Right
  <2>3. CASE i = Len(a) + 1
    <3>1. \A j \in 1..(i - 1) : p[j] \in ToSet(a)
      BY <2>1, InIndex
    <3> QED BY <1>1, <1>2, <2>3, <3>1
  <2> QED BY <1>1, <2>2, <2>3
<1>3. Right(p, valid, doc)
  BY <1>2 DEF Right
<1> QED BY <1>3 DEF p

\* Nothing in a queue concerns the text.
LEMMA RightNothing ==
  ASSUME NEW a, IsSeq(a), NEW valid \in BOOLEAN, ~Has(a, "LOAD_FILE"),
         ~Has(a, "CRDT") \/ (~valid /\ ~Has(a, "OPEN_FILE"))
  PROVE  \A doc : Right(a, valid, doc)
<1>1. \A i \in 1..Len(a) : a[i] \in ToSet(a)
  BY InIndex
<1>2. \A i \in 1..Len(a) : a[i].type # "LOAD_FILE"
  BY <1>1 DEF Has
<1>3. CASE ~Has(a, "CRDT")
  BY <1>1, <1>2, <1>3 DEF Right, Has
<1>4. CASE ~valid /\ ~Has(a, "OPEN_FILE")
  <2>1. Len(a) \in Nat
    BY InIndex
  <2>2. \A i \in 1..Len(a) : \A j \in 1..(i - 1) : a[j].type \notin {"LOAD_FILE", "OPEN_FILE"}
    BY <1>1, <1>2, <1>4, <2>1 DEF Has
  <2> QED BY <1>2, <1>4, <2>2 DEF Right, Opens
<1> QED BY <1>3, <1>4

-----------------------------------------------------------------------------
(* What the user does.                                                     *)

\* Two clients that differ in these fields only, of those the invariant is about.
TalkFields ==
  {"state", "modal", "kind", "access", "dialog", "editor", "busy", "hash", "valid", "copy",
   "user", "alias", "field"}
But(c, e, fields) == \A f \in TalkFields \ fields : e[f] = c[f]

\* One request more has reached the session, and nothing is due.
Sends(s, t, r) ==
  /\ t.up = Append(s.up, r) /\ t.user = s.user /\ t.file = s.file /\ t.joined = s.joined
Rest(u, a) == Quiet(u) /\ Quiet(a)

\* A client that differs in nothing that the invariant is about.
LEMMA UnseenChange ==
  ASSUME NEW c, NEW e, NEW s, NEW a, NEW d, NEW sp, Talk(c, s, a, d, sp), But(c, e, {})
  PROVE  Talk(e, s, a, d, sp)
<1>1. /\ e.state = c.state /\ e.modal = c.modal /\ e.kind = c.kind /\ e.access = c.access
      /\ e.dialog = c.dialog /\ e.editor = c.editor /\ e.busy = c.busy /\ e.hash = c.hash
      /\ e.valid = c.valid /\ e.copy = c.copy /\ e.user = c.user /\ e.alias = c.alias
      /\ e.field = c.field
  BY DEF But, TalkFields
<1>2. Expected(e, s.up, a) /\ Dialogs(e, s.up, a) /\ Windows(e, s, a)
  BY <1>1 DEF Talk, Expected, Dialogs, Windows, Moving, Broken
<1>3. Texts(e, s, a, d.docs) /\ Profiles(e, s, a, d, sp)
  BY <1>1 DEF Talk, Texts, Profiles, Shows, Moving, Broken
<1> QED BY <1>2, <1>3 DEF Talk

\* A request opens an exchange; one that is not answered does not.
LEMMA ExchangeOpens ==
  ASSUME NEW u, IsSeq(u), NEW a, Rest(u, a), NEW r,
         r.type \in Answerable \cup {"CRDT", "CHAT", "SAVE_FILE"}
  PROVE  Exchange(Append(u, r), a)
<1>1. \A y : Has(Append(u, r), y) <=> Has(u, y) \/ r.type = y
  BY HasMore
<1>2. CASE r.type \in Single
  <2>1. Only(Append(u, r), r.type)
    <3>1. Lone(Append(u, r))
      <4>1. Quiet(u)
        BY DEF Rest
      <4> QED BY <4>1, LoneMore
    <3> QED BY <1>1, <3>1 DEF Only
  <2> QED BY <1>2, <2>1 DEF Exchange, Rest
<1>3. CASE r.type \notin Single
  <2>1. \/ Among(Append(u, r), {"LOAD_FILE"})
        \/ Among(Append(u, r), {"QUIT_FILE", "GET_FILES"})
    BY <1>1, <1>3 DEF Among, Rest, Quiet, Single, Answerable
  <2>2. Among(a, {"LOAD_FILE"}) /\ Among(a, {"QUIT_FILE", "GET_FILES"})
    BY DEF Among, Rest, Quiet
  <2> QED BY <2>1, <2>2 DEF Exchange
<1> QED BY <1>2, <1>3

\* Nothing is due.
LEMMA AtRest ==
  ASSUME NEW u, NEW a, IsSeq(a), Rest(u, a)
  PROVE  /\ \A y \in Answerable : ~Has(u, y) /\ ~Has(a, y) /\ ~Due(u, a, y)
         /\ ~OpenThenLoad(a) /\ \A doc : Right(a, FALSE, doc)
         /\ \A c : Moving(c, u, a) <=> Broken(c)
<1>1. \A y \in Answerable : ~Has(u, y) /\ ~Has(a, y) /\ ~Due(u, a, y)
  BY DEF Rest, Quiet, Due
<1>2. ~OpenThenLoad(a) /\ \A doc : Right(a, FALSE, doc)
  BY <1>1, OpenHas, RightNothing DEF Answerable
<1> QED BY <1>1, <1>2 DEF Moving, Answerable

\* A request is sent while nothing is due.
LEMMA AtSending ==
  ASSUME NEW s, NEW t, NEW a, IsSeq(s.up), IsSeq(a), Rest(s.up, a), NEW r, Sends(s, t, r)
  PROVE  /\ \A y \in Answerable : ~Has(s.up, y) /\ ~Has(a, y)
         /\ \A y : Has(t.up, y) <=> Has(s.up, y) \/ r.type = y
         /\ ToSet(t.up) = ToSet(s.up) \cup {r}
         /\ ~OpenThenLoad(a) /\ \A doc : Right(a, FALSE, doc)
<1>1. t.up = Append(s.up, r)
  BY DEF Sends
<1>2. \A y : Has(t.up, y) <=> Has(s.up, y) \/ r.type = y
  BY <1>1, HasMore
<1>3. ToSet(t.up) = ToSet(s.up) \cup {r}
  BY <1>1, AtEnd
<1>4. \A y \in Answerable : ~Has(s.up, y) /\ ~Has(a, y)
  BY AtRest
<1>5. ~OpenThenLoad(a) /\ \A doc : Right(a, FALSE, doc)
  BY AtRest
<1> QED BY <1>2, <1>3, <1>4, <1>5

\* What the user does while nothing is due.
LEMMA TalkLogin ==
  ASSUME NEW c, NEW e, NEW s, NEW t, NEW a, NEW d, NEW sp, NEW r,
         IsSeq(s.up), IsSeq(a), Talk(c, s, a, d, sp), Rest(s.up, a), ~c.modal,
         Sends(s, t, r), c.access, But(c, e, {"state"}),
         \/ r.type = "LOGIN" /\ e.state = "CONNECTED_NOT_LOGGED"
         \/ r.type = "SIGNUP" /\ e.state = "CONNECTED_NOT_SIGNED"
  PROVE  Talk(e, t, a, d, sp)
<1>1. /\ \A y \in Answerable : ~Has(s.up, y) /\ ~Has(a, y)
      /\ \A y : Has(t.up, y) <=> Has(s.up, y) \/ r.type = y
      /\ ToSet(t.up) = ToSet(s.up) \cup {r}
  BY AtSending
<1>2. /\ e.modal = c.modal /\ e.kind = c.kind /\ e.access = c.access
      /\ e.dialog = c.dialog /\ e.editor = c.editor /\ e.busy = c.busy /\ e.hash = c.hash
      /\ e.valid = c.valid /\ e.copy = c.copy /\ e.user = c.user /\ e.alias = c.alias
      /\ e.field = c.field
  BY DEF But, TalkFields
<1>3. Exchange(t.up, a)
  BY ExchangeOpens DEF Sends, Answerable
<1>4. Expected(e, t.up, a) /\ Dialogs(e, t.up, a)
  BY <1>1, <1>2 DEF Talk, Expected, Dialogs, Due, Answerable
<1>5. Windows(e, t, a)
  BY <1>1, <1>2 DEF Talk, Windows, Moving, Broken, Due, Answerable, Sends
<1>6. Texts(e, t, a, d.docs)
  BY <1>1, <1>2 DEF Talk, Texts, Shows, Moving, Broken, Due, Answerable, Sends
<1>7. Profiles(e, t, a, d, sp)
  BY <1>1, <1>2 DEF Talk, Profiles, Answerable, Sends
<1> QED BY <1>3, <1>4, <1>5, <1>6, <1>7 DEF Talk

LEMMA TalkOpen ==
  ASSUME NEW c, NEW e, NEW s, NEW t, NEW a, NEW d, NEW sp, NEW r,
         IsSeq(s.up), IsSeq(a), Talk(c, s, a, d, sp), Rest(s.up, a), ~c.modal,
         Sends(s, t, r), c.dialog,
         But(c, e, {"state", "hash", "valid", "dialog", "busy", "editor", "copy"}),
         r.type = "OPEN_FILE", r.hash = e.hash, e.state = "CONNECTED_NOT_OPENFILE",
         e.valid = FALSE, e.dialog = FALSE, e.busy = TRUE, e.editor = "shown"
  PROVE  Talk(e, t, a, d, sp)
<1>1. /\ \A y \in Answerable : ~Has(s.up, y) /\ ~Has(a, y)
      /\ \A y : Has(t.up, y) <=> Has(s.up, y) \/ r.type = y
      /\ ToSet(t.up) = ToSet(s.up) \cup {r}
      /\ ~OpenThenLoad(a) /\ \A doc : Right(a, FALSE, doc)
  BY AtSending
<1>2. /\ e.modal = c.modal /\ e.kind = c.kind /\ e.access = c.access
      /\ e.user = c.user /\ e.alias = c.alias /\ e.field = c.field
  BY DEF But, TalkFields
<1>a. ~c.access
  BY DEF Talk, Dialogs
<1>3. Exchange(t.up, a)
  BY ExchangeOpens DEF Sends, Answerable
<1>4. Expected(e, t.up, a) /\ Dialogs(e, t.up, a)
  BY <1>1, <1>2, <1>a DEF Talk, Expected, Dialogs, Due, Answerable
<1>5. Windows(e, t, a)
  BY <1>1, <1>2, <1>a DEF Talk, Windows, Moving, Broken, Due, Answerable, Sends
<1>6. Texts(e, t, a, d.docs)
  <2>1. \A m \in ToSet(s.up) : m.type # "OPEN_FILE"
    BY <1>1 DEF Has, Answerable
  <2> QED BY <1>1, <2>1 DEF Texts, Moving, Due
<1>7. Profiles(e, t, a, d, sp)
  BY <1>1, <1>2, <1>a DEF Talk, Profiles, Answerable, Sends
<1> QED BY <1>3, <1>4, <1>5, <1>6, <1>7 DEF Talk

\* The two requests of the dialog that the client's state does not change with.
LEMMA TalkDialog ==
  ASSUME NEW c, NEW e, NEW s, NEW t, NEW a, NEW d, NEW sp, NEW r,
         IsSeq(s.up), IsSeq(a), Talk(c, s, a, d, sp), Rest(s.up, a), ~c.modal,
         Sends(s, t, r), c.dialog, But(c, e, {"field"}),
         r.type = "DELETE_FILE" \/ (r.type = "UPDATE_USER" /\ r.alias = e.field)
  PROVE  Talk(e, t, a, d, sp)
<1>1. /\ \A y \in Answerable : ~Has(s.up, y) /\ ~Has(a, y)
      /\ \A y : Has(t.up, y) <=> Has(s.up, y) \/ r.type = y
      /\ ToSet(t.up) = ToSet(s.up) \cup {r}
  BY AtSending
<1>2. /\ e.state = c.state /\ e.modal = c.modal /\ e.kind = c.kind /\ e.access = c.access
      /\ e.dialog = c.dialog /\ e.editor = c.editor /\ e.busy = c.busy /\ e.hash = c.hash
      /\ e.valid = c.valid /\ e.copy = c.copy /\ e.user = c.user /\ e.alias = c.alias
  BY DEF But, TalkFields
<1>3. Exchange(t.up, a)
  BY ExchangeOpens DEF Sends, Answerable
<1>4. Expected(e, t.up, a) /\ Dialogs(e, t.up, a)
  BY <1>1, <1>2 DEF Talk, Expected, Dialogs, Due, Answerable
<1>5. Windows(e, t, a)
  BY <1>1, <1>2 DEF Talk, Windows, Moving, Broken, Due, Answerable, Sends
<1>6. Texts(e, t, a, d.docs)
  BY <1>1, <1>2 DEF Talk, Texts, Shows, Moving, Broken, Due, Answerable, Sends
<1>7. Profiles(e, t, a, d, sp)
  <2>1. \A m \in ToSet(s.up) \cup ToSet(a) : m.type # "UPDATE_USER"
    BY <1>1 DEF Has, Answerable
  <2> QED BY <1>1, <1>2, <2>1 DEF Talk, Profiles, Answerable, Sends
<1> QED BY <1>3, <1>4, <1>5, <1>6, <1>7 DEF Talk

\* The user logs out, with the button or by closing the dialog.
LEMMA TalkLogout ==
  ASSUME NEW c, NEW e, NEW s, NEW t, NEW a, NEW d, NEW sp, NEW r,
         IsSeq(s.up), IsSeq(a), Talk(c, s, a, d, sp), Rest(s.up, a), ~c.modal,
         Sends(s, t, r), c.dialog, r.type = "LOGOUT",
         \/ But(c, e, {"state"})
         \/ /\ But(c, e, {"state", "dialog", "field", "access"})
            /\ e.dialog = FALSE /\ e.access = TRUE /\ c.editor # "shown"
  PROVE  Talk(e, t, a, d, sp)
<1>1. /\ \A y \in Answerable : ~Has(s.up, y) /\ ~Has(a, y)
      /\ \A y : Has(t.up, y) <=> Has(s.up, y) \/ r.type = y
      /\ ToSet(t.up) = ToSet(s.up) \cup {r}
  BY AtSending
<1>2. /\ e.modal = c.modal /\ e.kind = c.kind
      /\ e.editor = c.editor /\ e.busy = c.busy /\ e.hash = c.hash
      /\ e.valid = c.valid /\ e.copy = c.copy /\ e.user = c.user /\ e.alias = c.alias
  BY DEF But, TalkFields
<1>b. (e.dialog = c.dialog /\ e.access = c.access) \/ (~e.dialog /\ e.access /\ e.editor # "shown")
  <2>1. CASE But(c, e, {"state"})
    BY <2>1 DEF But, TalkFields
  <2>2. CASE e.dialog = FALSE /\ e.access = TRUE /\ c.editor # "shown"
    BY <1>2, <2>2
  <2> QED BY <2>1, <2>2
<1>a. ~c.access /\ ((e.dialog = c.dialog /\ e.access = c.access) \/ (~e.dialog /\ e.access /\ e.editor # "shown"))
  BY <1>b DEF Talk, Dialogs
<1>3. Exchange(t.up, a)
  BY ExchangeOpens DEF Sends, Answerable
<1>4. Expected(e, t.up, a) /\ Dialogs(e, t.up, a)
  BY <1>1, <1>2, <1>a DEF Talk, Expected, Dialogs, Due, Answerable
<1>5. Windows(e, t, a)
  BY <1>1, <1>2, <1>a DEF Talk, Windows, Moving, Broken, Due, Answerable, Sends
<1>6. Texts(e, t, a, d.docs)
  BY <1>1, <1>2 DEF Talk, Texts, Shows, Moving, Broken, Due, Answerable, Sends
<1>7. Profiles(e, t, a, d, sp)
  <2>1. \A m \in ToSet(s.up) \cup ToSet(a) : m.type # "UPDATE_USER"
    BY <1>1 DEF Has, Answerable
  <2> QED BY <1>1, <1>2, <1>a, <2>1 DEF Talk, Profiles, Answerable, Sends
<1> QED BY <1>3, <1>4, <1>5, <1>6, <1>7 DEF Talk

\* The list is asked for, or the editor is closed.
LEMMA TalkMenu ==
  ASSUME NEW c, NEW e, NEW s, NEW t, NEW a, NEW d, NEW sp, NEW r,
         IsSeq(s.up), IsSeq(a), Talk(c, s, a, d, sp), Rest(s.up, a), ~c.modal,
         Sends(s, t, r), c.editor = "shown",
         \/ r.type = "GET_FILES" /\ But(c, e, {"state"}) /\ e.state = "CONNECTED_AND_LOGGED"
         \/ r.type = "QUIT_FILE" /\ But(c, e, {"editor"}) /\ e.editor = "hidden"
  PROVE  Talk(e, t, a, d, sp)
<1>1. /\ \A y \in Answerable : ~Has(s.up, y) /\ ~Has(a, y)
      /\ \A y : Has(t.up, y) <=> Has(s.up, y) \/ r.type = y
      /\ ToSet(t.up) = ToSet(s.up) \cup {r}
  BY AtSending
<1>2. /\ e.modal = c.modal /\ e.kind = c.kind /\ e.access = c.access
      /\ e.dialog = c.dialog /\ e.busy = c.busy /\ e.hash = c.hash
      /\ e.valid = c.valid /\ e.copy = c.copy /\ e.user = c.user /\ e.alias = c.alias
      /\ e.field = c.field
  BY DEF But, TalkFields
<1>a. ~c.access /\ (r.type = "GET_FILES" => e.editor = c.editor) /\ (r.type = "QUIT_FILE" => e.state = c.state)
  BY DEF But, TalkFields, Talk, Dialogs
<1>3. Exchange(t.up, a)
  BY ExchangeOpens DEF Sends, Answerable
<1>4. Expected(e, t.up, a) /\ Dialogs(e, t.up, a)
  BY <1>1, <1>2, <1>a DEF Talk, Expected, Dialogs, Due, Answerable
<1>5. Windows(e, t, a)
  BY <1>1, <1>2, <1>a DEF Talk, Windows, Moving, Broken, Due, Answerable, Sends
<1>6. Texts(e, t, a, d.docs)
  BY <1>1, <1>2, <1>a DEF Talk, Texts, Shows, Moving, Broken, Due, Answerable, Sends
<1>7. Profiles(e, t, a, d, sp)
  BY <1>1, <1>2, <1>a DEF Talk, Profiles, Answerable, Sends
<1> QED BY <1>3, <1>4, <1>5, <1>6, <1>7 DEF Talk

\* An edit, a text to be saved or a message: nothing comes back of it.
LEMMA TalkEdit ==
  ASSUME NEW c, NEW s, NEW t, NEW a, NEW d, NEW sp, NEW r,
         IsSeq(s.up), IsSeq(a), Talk(c, s, a, d, sp), Rest(s.up, a),
         Sends(s, t, r), r.type \in {"CRDT", "CHAT", "SAVE_FILE"}
  PROVE  Talk(c, t, a, d, sp)
<1>1. /\ \A y \in Answerable : Has(t.up, y) <=> Has(s.up, y)
      /\ \A m \in ToSet(t.up) : m \in ToSet(s.up) \/ m = r
  BY HasMore, AtEnd DEF Sends, Answerable
<1>2. Exchange(t.up, a)
  BY ExchangeOpens DEF Sends, Answerable
<1>3. Expected(c, t.up, a) /\ Dialogs(c, t.up, a) /\ Windows(c, t, a)
  BY <1>1 DEF Talk, Expected, Dialogs, Windows, Moving, Due, Quiet, Answerable, Sends
<1>4. Texts(c, t, a, d.docs) /\ Profiles(c, t, a, d, sp)
  BY <1>1 DEF Talk, Texts, Profiles, Moving, Due, Answerable, Sends
<1> QED BY <1>2, <1>3, <1>4 DEF Talk

\* The CRDT refuses an edit.
LEMMA TalkIllegal ==
  ASSUME NEW c, NEW e, NEW s, NEW a, NEW d, NEW sp,
         IsSeq(s.up), IsSeq(a), Talk(c, s, a, d, sp), Rest(s.up, a), ~c.modal,
         c.editor = "shown", But(c, e, {"valid", "modal", "kind"}),
         e.valid = FALSE, e.modal = TRUE, e.kind = "CRDT_ILLEGAL"
  PROVE  Talk(e, s, a, d, sp)
<1>1. /\ \A y \in Answerable : ~Has(s.up, y) /\ ~Has(a, y)
      /\ ~OpenThenLoad(a) /\ \A doc : Right(a, FALSE, doc)
  BY AtRest
<1>2. /\ e.state = c.state /\ e.access = c.access
      /\ e.dialog = c.dialog /\ e.editor = c.editor /\ e.busy = c.busy /\ e.hash = c.hash
      /\ e.copy = c.copy /\ e.user = c.user /\ e.alias = c.alias /\ e.field = c.field
  BY DEF But, TalkFields
<1>4. Expected(e, s.up, a) /\ Dialogs(e, s.up, a)
  BY <1>1, <1>2 DEF Talk, Expected, Dialogs, Due, Answerable, Rest
<1>5. Windows(e, s, a)
  BY <1>1, <1>2 DEF Talk, Windows, Moving, Broken, Due, Answerable
<1>6. Texts(e, s, a, d.docs)
  BY <1>1, <1>2 DEF Talk, Texts, Shows, Moving, Broken, Due, Answerable
<1>7. Profiles(e, s, a, d, sp)
  BY <1>1, <1>2 DEF Talk, Profiles, Answerable
<1> QED BY <1>4, <1>5, <1>6, <1>7 DEF Talk

\* A window is closed and nothing is sent: the dialog over the editor, or a
\* message that nothing has to be done about.
LEMMA TalkClosed ==
  ASSUME NEW c, NEW e, NEW s, NEW a, NEW d, NEW sp,
         IsSeq(s.up), IsSeq(a), Talk(c, s, a, d, sp), Rest(s.up, a), ~Broken(c),
         But(c, e, {"dialog", "modal", "field"}),
         e.dialog = c.dialog \/ e.dialog = FALSE, e.modal = FALSE
  PROVE  Talk(e, s, a, d, sp)
<1>1. \A y \in Answerable : ~Has(s.up, y) /\ ~Has(a, y)
  BY AtRest
<1>2. /\ e.state = c.state /\ e.kind = c.kind /\ e.access = c.access
      /\ e.editor = c.editor /\ e.busy = c.busy /\ e.hash = c.hash
      /\ e.valid = c.valid /\ e.copy = c.copy /\ e.user = c.user /\ e.alias = c.alias
  BY DEF But, TalkFields
<1>3. \A m \in ToSet(s.up) \cup ToSet(a) : m.type # "UPDATE_USER"
  BY <1>1 DEF Has, Answerable
<1>4. Expected(e, s.up, a) /\ Dialogs(e, s.up, a)
  BY <1>1, <1>2 DEF Talk, Expected, Dialogs, Due, Answerable
<1>5. Windows(e, s, a)
  BY <1>1, <1>2 DEF Talk, Windows, Moving, Broken, Due, Answerable
<1>6. Texts(e, s, a, d.docs)
  BY <1>1, <1>2 DEF Talk, Texts, Shows, Moving, Broken, Due, Answerable
<1>7. Profiles(e, s, a, d, sp)
  BY <1>1, <1>2, <1>3 DEF Talk, Profiles, Answerable
<1> QED BY <1>4, <1>5, <1>6, <1>7 DEF Talk

\* A message dialog that sends QUIT or LOAD, once or, with its button, twice.
LEMMA TalkRepair ==
  ASSUME NEW c, NEW e, NEW s, NEW t, NEW a, NEW d, NEW sp, NEW r,
         IsSeq(s.up), IsSeq(a), Talk(c, s, a, d, sp), Rest(s.up, a), c.modal,
         t.user = s.user, t.file = s.file, t.joined = s.joined,
         t.up = Append(s.up, r) \/ t.up = Append(Append(s.up, r), r),
         But(c, e, {"modal"}), e.modal = FALSE,
         \/ c.kind = "OPENFILE_ERROR" /\ r.type = "QUIT_FILE"
         \/ c.kind = "CRDT_ILLEGAL" /\ r.type = "LOAD_FILE"
  PROVE  Talk(e, t, a, d, sp)
<1>1. /\ \A y \in Answerable : ~Has(s.up, y) /\ ~Has(a, y)
      /\ ~OpenThenLoad(a)
  BY AtRest
<1>a. /\ \A y : Has(t.up, y) <=> Has(s.up, y) \/ r.type = y
      /\ ToSet(t.up) = ToSet(s.up) \cup {r}
  <2>1. /\ IsSeq(Append(s.up, r)) /\ ToSet(Append(s.up, r)) = ToSet(s.up) \cup {r}
        /\ \A y : Has(Append(s.up, r), y) <=> Has(s.up, y) \/ r.type = y
    BY AtEnd, HasMore
  <2> DEFINE p == Append(s.up, r)
  <2>2. /\ \A y : Has(Append(p, r), y) <=> Has(p, y) \/ r.type = y
        /\ ToSet(Append(p, r)) = ToSet(p) \cup {r}
    <3> HIDE DEF p
    <3>1. IsSeq(p)
      BY <2>1 DEF p
    <3> QED BY <3>1, AtEnd, HasMore
  <2> QED BY <2>1, <2>2
<1>2. /\ e.state = c.state /\ e.kind = c.kind /\ e.access = c.access
      /\ e.dialog = c.dialog /\ e.editor = c.editor /\ e.busy = c.busy /\ e.hash = c.hash
      /\ e.valid = c.valid /\ e.copy = c.copy /\ e.user = c.user /\ e.alias = c.alias
      /\ e.field = c.field
  BY DEF But, TalkFields
<1>3. Exchange(t.up, a)
  BY <1>1, <1>a DEF Exchange, Among, Answerable
<1>b. ~c.access /\ (c.kind = "CRDT_ILLEGAL" => c.editor = "shown")
  BY DEF Talk, Dialogs
<1>4. Expected(e, t.up, a) /\ Dialogs(e, t.up, a)
  BY <1>1, <1>2, <1>a, <1>b DEF Talk, Expected, Dialogs, Due, Answerable
<1>5. Windows(e, t, a)
  BY <1>1, <1>2, <1>a, <1>b DEF Talk, Windows, Moving, Broken, Due, Answerable
<1>6. Texts(e, t, a, d.docs)
  BY <1>1, <1>2, <1>a, <1>b DEF Talk, Texts, Shows, Moving, Broken, Due, Answerable
<1>7. Profiles(e, t, a, d, sp)
  BY <1>1, <1>2, <1>a, <1>b DEF Talk, Profiles, Answerable
<1> QED BY <1>3, <1>4, <1>5, <1>6, <1>7 DEF Talk

-----------------------------------------------------------------------------
(* How an exchange goes on.                                                *)

\* What is no answer and asks for none changes nothing.
LEMMA ExchangeAside ==
  ASSUME NEW u, IsSeq(u), NEW a, IsSeq(a), Exchange(u, a)
  PROVE  /\ u # <<>> /\ Head(u).type \notin Answerable => Exchange(Tail(u), a)
         /\ a # <<>> /\ Head(a).type \notin Answerable => Exchange(u, Tail(a))
         /\ \A m : m.type \notin Answerable => Exchange(u, Append(a, m))
<1>1. ASSUME u # <<>>, Head(u).type \notin Answerable PROVE Exchange(Tail(u), a)
  <2>1. \A y \in Answerable : Has(Tail(u), y) <=> Has(u, y)
    BY <1>1, HasTail
  <2>2. Lone(u) => Lone(Tail(u))
    BY <1>1, LoneTail
  <2>3. /\ Quiet(u) => Quiet(Tail(u)) 
        /\ \A types : Among(u, types) => Among(Tail(u), types)
        /\ \A type \in Single : Only(u, type) => Only(Tail(u), type)
    BY <2>1, <2>2 DEF Quiet, Among, Only, Single, Answerable
  <2> QED BY <2>3 DEF Exchange
<1>2. ASSUME a # <<>>, Head(a).type \notin Answerable PROVE Exchange(u, Tail(a))
  <2>1. /\ \A y \in Answerable : Has(Tail(a), y) <=> Has(a, y)
        /\ NotOpened(a) => NotOpened(Tail(a))
    BY <1>2, HasTail, AtTail DEF NotOpened
  <2>2. Lone(a) => Lone(Tail(a))
    BY <1>2, LoneTail
  <2>3. /\ Quiet(a) => Quiet(Tail(a)) 
        /\ \A types : Among(a, types) => Among(Tail(a), types)
        /\ \A type \in Single : Only(a, type) => Only(Tail(a), type)
    BY <2>1, <2>2 DEF Quiet, Among, Only, Single, Answerable
  <2>4. OpenThenLoad(a) => OpenThenLoad(Tail(a))
    BY <1>2, OpenTail DEF Opens, Answerable
  <2> QED BY <2>1, <2>3, <2>4 DEF Exchange
<1>3. ASSUME NEW m, m.type \notin Answerable PROVE Exchange(u, Append(a, m))
  <2>1. /\ \A y \in Answerable : Has(Append(a, m), y) <=> Has(a, y)
        /\ NotOpened(a) => NotOpened(Append(a, m))
    BY <1>3, HasMore, AtEnd DEF NotOpened, Opens, Answerable
  <2>2. Lone(a) => Lone(Append(a, m))
    BY <1>3, LoneMore
  <2>3. /\ Quiet(a) => Quiet(Append(a, m))
        /\ \A types : Among(a, types) => Among(Append(a, m), types)
        /\ \A type \in Single : Only(a, type) => Only(Append(a, m), type)
    BY <2>1, <2>2 DEF Quiet, Among, Only, Single, Answerable
  <2>4. OpenThenLoad(a) => OpenThenLoad(Append(a, m))
    BY <1>3, OpenMore
  <2> QED BY <2>1, <2>3, <2>4 DEF Exchange
<1> QED BY <1>1, <1>2, <1>3

\* Which exchange a request or an answer belongs to.
LEMMA ExchangeIs ==
  ASSUME NEW u, IsSeq(u), NEW a, IsSeq(a), Exchange(u, a)
  PROVE  /\ Due(u, a, "LOAD_FILE") => 
              \/ Among(u, {"LOAD_FILE"}) /\ Among(a, {"LOAD_FILE"})
              \/ Quiet(u) /\ OpenThenLoad(a)
         /\ Due(u, a, "QUIT_FILE") \/ Due(u, a, "GET_FILES") =>
              Among(u, {"QUIT_FILE", "GET_FILES"}) /\ Among(a, {"QUIT_FILE", "GET_FILES"})
         /\ \A type \in Single : Has(u, type) => Only(u, type) /\ Quiet(a)
         /\ \A type \in Single : Has(a, type) =>
              /\ Quiet(u)
              /\ \/ Only(a, type) /\ NotOpened(a)
                 \/ type = "OPEN_FILE" /\ OpenThenLoad(a)
<1>1. Single \subseteq Answerable /\ {"LOAD_FILE", "QUIT_FILE", "GET_FILES"} \subseteq Answerable \ Single
  BY DEF Single, Answerable
<1>2. CASE Among(u, {"LOAD_FILE"}) /\ Among(a, {"LOAD_FILE"})
  BY <1>1, <1>2 DEF Among, Due, Single
<1>3. CASE Among(u, {"QUIT_FILE", "GET_FILES"}) /\ Among(a, {"QUIT_FILE", "GET_FILES"})
  BY <1>1, <1>3 DEF Among, Due, Single
<1>4. CASE \E type \in Single : Only(u, type) /\ Quiet(a)
  <2>1. PICK type \in Single : Only(u, type) /\ Quiet(a)
    BY <1>4
  <2>2. \A y \in Answerable : Has(u, y) => y = type
    BY <1>1, <2>1, LoneHas DEF Only
  <2>3. \A y \in Answerable : ~Has(a, y)
    BY <2>1 DEF Quiet
  <2> QED BY <1>1, <2>1, <2>2, <2>3 DEF Due
<1>5. CASE \E type \in Single : Quiet(u) /\ Only(a, type) /\ NotOpened(a)
  <2>1. PICK type \in Single : Quiet(u) /\ Only(a, type) /\ NotOpened(a)
    BY <1>5
  <2>2. \A y \in Answerable : Has(a, y) => y = type
    BY <1>1, <2>1, LoneHas DEF Only
  <2>3. \A y \in Answerable : ~Has(u, y)
    BY <2>1 DEF Quiet
  <2> QED BY <1>1, <2>1, <2>2, <2>3 DEF Due
<1>6. CASE Quiet(u) /\ OpenThenLoad(a)
  <2>1. \A y \in Answerable : Has(a, y) => y \in {"OPEN_FILE", "LOAD_FILE"}
    BY <1>6, OpenHas DEF Among
  <2>2. \A y \in Answerable : ~Has(u, y)
    BY <1>6 DEF Quiet
  <2> QED BY <1>1, <1>6, <2>1, <2>2 DEF Due, Single
<1> QED BY <1>2, <1>3, <1>4, <1>5, <1>6 DEF Exchange

\* The server takes a request of an exchange of one.
LEMMA ExchangeServed ==
  ASSUME NEW u, IsSeq(u), u # <<>>, NEW a, IsSeq(a), Exchange(u, a), Head(u).type \in Single
  PROVE  /\ Quiet(a) /\ Quiet(Tail(u))
         /\ \A m : m.type = Head(u).type /\ ~Opens(m) => Exchange(Tail(u), Append(a, m))
         /\ \A m, n : Opens(m) /\ n.type = "LOAD_FILE" =>
              /\ OpenThenLoad(Append(Append(a, m), n))
              /\ Exchange(Tail(u), Append(Append(a, m), n))
<1>1. Only(u, Head(u).type) /\ Quiet(a)
  <2>1. Has(u, Head(u).type)
    BY HasTail
  <2> QED BY <2>1, ExchangeIs
<1>2. Quiet(Tail(u))
  BY <1>1, LoneTail DEF Only, Single, Answerable
<1>3. ASSUME NEW m, m.type = Head(u).type, ~Opens(m)
      PROVE  Exchange(Tail(u), Append(a, m))
  <2>1. Lone(Append(a, m)) /\ Has(Append(a, m), m.type)
    BY <1>1, LoneMore, HasMore
  <2>2. NotOpened(Append(a, m))
    <3>1. \A n \in ToSet(a) : ~Opens(n)
      BY <1>1 DEF Quiet, Has, Opens, Answerable
    <3> QED BY <1>3, <3>1, AtEnd DEF NotOpened
  <2> QED BY <1>2, <1>3, <2>1, <2>2 DEF Exchange, Only
<1>4. ASSUME NEW m, NEW n, Opens(m), n.type = "LOAD_FILE"
      PROVE  OpenThenLoad(Append(Append(a, m), n)) /\ Exchange(Tail(u), Append(Append(a, m), n))
  BY <1>1, <1>2, <1>4, OpenBoth DEF Exchange
<1> QED BY <1>1, <1>2, <1>3, <1>4

\* The client takes the answer of an exchange of one, or the first of two.
LEMMA ExchangeAnswered ==
  ASSUME NEW u, IsSeq(u), NEW a, IsSeq(a), a # <<>>, Exchange(u, a), Head(a).type \in Single
  PROVE  /\ Quiet(u)
         /\ \/ ~Opens(Head(a)) /\ Quiet(Tail(a))
            \/ Opens(Head(a)) /\ OpenThenLoad(a) /\ Only(Tail(a), "LOAD_FILE")
<1>1. Has(a, Head(a).type) /\ Head(a) \in ToSet(a) /\ Head(a).type \in Answerable
  BY HasTail, AtTail DEF Single, Answerable
<1>2. Quiet(u) /\ (\/ Only(a, Head(a).type) /\ NotOpened(a)
                   \/ OpenThenLoad(a))
  BY <1>1, ExchangeIs
<1>3. CASE Only(a, Head(a).type) /\ NotOpened(a)
  BY <1>1, <1>2, <1>3, LoneTail DEF Only, NotOpened
<1>4. CASE OpenThenLoad(a)
  BY <1>1, <1>2, <1>4, OpenTail
<1> QED BY <1>2, <1>3, <1>4

-----------------------------------------------------------------------------
(* What the server does.                                                   *)

\* The tables after a step that leaves the client alone.
Later(c, d, f, sp, q) ==
  /\ Shows(c, f.docs) = Shows(c, d.docs)
  /\ "exec" \notin q => "exec" \notin sp /\ f.alias = d.alias

\* The aliases only are looked at.
LEMMA SameAlias ==
  ASSUME NEW d, NEW f, f.alias = d.alias
  PROVE  \A u : AliasOf(f, u) = AliasOf(d, u)
BY DEF AliasOf

\* Nothing happens to the conversation.
LEMMA TalkLater ==
  ASSUME NEW c, NEW s, NEW a, NEW d, NEW f, NEW sp, NEW q, Talk(c, s, a, d, sp),
         Later(c, d, f, sp, q)
  PROVE  Talk(c, s, a, f, q)
<1>1. Texts(c, s, a, f.docs)
  BY DEF Talk, Texts, Later
<1>2. Profiles(c, s, a, f, q)
  BY SameAlias DEF Talk, Profiles, Later
<1> QED BY <1>1, <1>2 DEF Talk

\* A request is taken from the queue and its answer is added.
LEMMA AtServing ==
  ASSUME NEW u, IsSeq(u), u # <<>>, NEW a, IsSeq(a), NEW m
  PROVE  /\ \A y : Has(u, y) <=> Head(u).type = y \/ Has(Tail(u), y)
         /\ \A y : Has(Append(a, m), y) <=> Has(a, y) \/ m.type = y
         /\ ToSet(u) = {Head(u)} \cup ToSet(Tail(u))
         /\ ToSet(Append(a, m)) = ToSet(a) \cup {m}
         /\ m.type = Head(u).type => \A y : Due(Tail(u), Append(a, m), y) <=> Due(u, a, y)
<1>1. \A y : Has(u, y) <=> Head(u).type = y \/ Has(Tail(u), y)
  BY HasTail
<1>2. \A y : Has(Append(a, m), y) <=> Has(a, y) \/ m.type = y
  BY HasMore
<1> QED BY <1>1, <1>2, AtTail, AtEnd DEF Due

\* A request of an exchange of one that is answered by one.
Answering(u, a, b, type) ==
  \A y \in Answerable : ~Has(a, y) /\ ~Has(u, y) /\ (Has(b, y) <=> type = y)
LEMMA AtSingle ==
  ASSUME NEW c, NEW u, IsSeq(u), u # <<>>, NEW a, IsSeq(a), Exchange(u, a), Dialogs(c, u, a),
         NEW m, m.type \in Single, m.type = Head(u).type, ~Opens(m)
  PROVE  /\ ~c.modal /\ Exchange(Tail(u), Append(a, m))
         /\ ~OpenThenLoad(a) /\ ~OpenThenLoad(Append(a, m))
         /\ Answering(Tail(u), a, Append(a, m), m.type)
<1>2. Quiet(a) /\ Quiet(Tail(u)) /\ Exchange(Tail(u), Append(a, m))
  BY ExchangeServed
<1>3. ~c.modal
  BY HasTail DEF Dialogs, Quiet, Single, Answerable
<1>4. \A y \in Answerable :
        ~Has(a, y) /\ ~Has(Tail(u), y) /\ (Has(Append(a, m), y) <=> m.type = y)
  BY <1>2, HasMore DEF Quiet
<1>5. ~OpenThenLoad(a) /\ ~OpenThenLoad(Append(a, m))
  <2>1. ~OpenThenLoad(a)
    BY <1>4, OpenHas DEF Answerable
  <2>2. IsSeq(Append(a, m)) /\ "OPEN_FILE" \in Answerable /\ "LOAD_FILE" \in Answerable
    BY AtEnd DEF Answerable
  <2>3. ~OpenThenLoad(Append(a, m))
    <3>1. ~(Has(Append(a, m), "OPEN_FILE") /\ Has(Append(a, m), "LOAD_FILE"))
      BY <1>4, <2>2
    <3> QED BY <2>2, <3>1, OpenHas
  <2> QED BY <2>1, <2>3
<1> QED BY <1>2, <1>3, <1>4, <1>5 DEF Answering

\* A new account, or a row that is deleted.
LEMMA TalkAccount ==
  ASSUME NEW c, NEW s, NEW t, NEW a, NEW b, NEW d, NEW f, NEW sp, NEW q, NEW m,
         IsSeq(s.up), s.up # <<>>, IsSeq(a), Talk(c, s, a, d, sp), Later(c, d, f, sp, q),
         t.up = Tail(s.up), b = Append(a, m), m.type = Head(s.up).type,
         m.type \in {"SIGNUP", "DELETE_FILE"}, m.result \in {"SUCCESS", "BAD", "ERROR"},
         t.user = s.user, t.file = s.file, t.joined = s.joined
  PROVE  Talk(c, t, b, f, q)
<1>a. Talk(c, s, a, f, q)
  BY TalkLater
<1>b. m.type \in Single /\ ~Opens(m)
  BY DEF Single, Opens
<1>1. /\ \A y : Has(s.up, y) <=> Head(s.up).type = y \/ Has(t.up, y)
      /\ \A y : Has(b, y) <=> Has(a, y) \/ m.type = y
      /\ ToSet(s.up) = {Head(s.up)} \cup ToSet(t.up)
      /\ ToSet(b) = ToSet(a) \cup {m}
      /\ \A y : Due(t.up, b, y) <=> Due(s.up, a, y)
  BY AtServing
<1>2. /\ ~c.modal /\ Exchange(t.up, b) /\ ~OpenThenLoad(a) /\ ~OpenThenLoad(b)
      /\ \A y \in Answerable : ~Has(a, y) /\ ~Has(t.up, y) /\ (Has(b, y) <=> m.type = y)
  <2>1. Exchange(s.up, a) /\ Dialogs(c, s.up, a)
    BY DEF Talk
  <2>2. ~c.modal /\ Exchange(t.up, b) /\ ~OpenThenLoad(a) /\ ~OpenThenLoad(b)
    BY <1>b, <2>1, AtSingle
  <2>3. Answering(t.up, a, b, m.type)
    BY <1>b, <2>1, AtSingle
  <2> QED BY <2>2, <2>3 DEF Answering
<1>3. Expected(c, t.up, b) /\ Results(b) /\ Dialogs(c, t.up, b)
  BY <1>a, <1>1, <1>2 DEF Talk, Expected, Results, Dialogs
<1>4. Windows(c, t, b)
  BY <1>a, <1>1, <1>2 DEF Talk, Windows, Moving, Answerable
<1>5. Texts(c, t, b, f.docs)
  <2>1. Right(b, c.valid, Shows(c, f.docs))
    BY <1>a, RightMore DEF Talk, Texts
  <2> QED BY <1>a, <1>1, <1>2, <2>1 DEF Talk, Texts, Moving
<1>6. Profiles(c, t, b, f, q)
  BY <1>a, <1>1, <1>2 DEF Talk, Profiles, Answerable
<1> QED BY <1>2, <1>3, <1>4, <1>5, <1>6 DEF Talk

\* The login: the user of the session may be another one.
LEMMA TalkLoggingIn ==
  ASSUME NEW c, NEW s, NEW t, NEW a, NEW b, NEW d, NEW f, NEW sp, NEW q, NEW m,
         IsSeq(s.up), s.up # <<>>, IsSeq(a), Talk(c, s, a, d, sp), Later(c, d, f, sp, q),
         t.up = Tail(s.up), b = Append(a, m), m.type = Head(s.up).type,
         m.type = "LOGIN", m.result \in {"SUCCESS", "BAD", "ERROR"},
         m.result = "SUCCESS" => m.body.user = t.user /\ m.body.alias = AliasOf(f, t.user),
         t.file = s.file, t.joined = s.joined
  PROVE  Talk(c, t, b, f, q)
<1>a. Talk(c, s, a, f, q)
  BY TalkLater
<1>b. m.type \in Single /\ ~Opens(m)
  BY DEF Single, Opens
<1>1. /\ \A y : Has(s.up, y) <=> Head(s.up).type = y \/ Has(t.up, y)
      /\ \A y : Has(b, y) <=> Has(a, y) \/ m.type = y
      /\ ToSet(s.up) = {Head(s.up)} \cup ToSet(t.up)
      /\ ToSet(b) = ToSet(a) \cup {m}
      /\ \A y : Due(t.up, b, y) <=> Due(s.up, a, y)
  BY AtServing
<1>2. /\ ~c.modal /\ Exchange(t.up, b) /\ ~OpenThenLoad(a) /\ ~OpenThenLoad(b)
      /\ \A y \in Answerable : ~Has(a, y) /\ ~Has(t.up, y) /\ (Has(b, y) <=> m.type = y)
  <2>1. Exchange(s.up, a) /\ Dialogs(c, s.up, a)
    BY DEF Talk
  <2>2. ~c.modal /\ Exchange(t.up, b) /\ ~OpenThenLoad(a) /\ ~OpenThenLoad(b)
    BY <1>b, <2>1, AtSingle
  <2>3. Answering(t.up, a, b, m.type)
    BY <1>b, <2>1, AtSingle
  <2> QED BY <2>2, <2>3 DEF Answering
<1>3. Expected(c, t.up, b) /\ Results(b) /\ Dialogs(c, t.up, b)
  BY <1>a, <1>1, <1>2 DEF Talk, Expected, Results, Dialogs
<1>4. Windows(c, t, b)
  BY <1>a, <1>1, <1>2 DEF Talk, Windows, Moving, Answerable
<1>5. Texts(c, t, b, f.docs)
  <2>1. Right(b, c.valid, Shows(c, f.docs))
    BY <1>a, RightMore DEF Talk, Texts
  <2> QED BY <1>a, <1>1, <1>2, <2>1 DEF Talk, Texts, Moving
<1>6. Profiles(c, t, b, f, q)
  <2>1. c.access
    BY <1>a, <1>1 DEF Talk, Expected, Due
  <2>2. \A n \in ToSet(a) : n.type # "LOGIN"
    BY <1>2 DEF Has, Answerable
  <2> QED BY <1>1, <2>1, <2>2 DEF Profiles
<1> QED BY <1>2, <1>3, <1>4, <1>5, <1>6 DEF Talk

\* A new alias.
LEMMA TalkUpdate ==
  ASSUME NEW c, NEW s, NEW t, NEW a, NEW b, NEW d, NEW f, NEW sp, NEW q, NEW m,
         IsSeq(s.up), s.up # <<>>, IsSeq(a), Talk(c, s, a, d, sp),
         f.docs = d.docs, "exec" \notin q => "exec" \notin sp,
         t.up = Tail(s.up), b = Append(a, m), m.type = Head(s.up).type,
         m.type = "UPDATE_USER", m.result \in {"SUCCESS", "ERROR"},
         "exec" \notin q => AliasOf(f, s.user) =
             IF m.result = "SUCCESS" THEN Head(s.up).alias ELSE AliasOf(d, s.user),
         t.user = s.user, t.file = s.file, t.joined = s.joined
  PROVE  Talk(c, t, b, f, q)
<1>b. m.type \in Single /\ ~Opens(m)
  BY DEF Single, Opens
<1>1. /\ \A y : Has(s.up, y) <=> Head(s.up).type = y \/ Has(t.up, y)
      /\ \A y : Has(b, y) <=> Has(a, y) \/ m.type = y
      /\ ToSet(s.up) = {Head(s.up)} \cup ToSet(t.up)
      /\ ToSet(b) = ToSet(a) \cup {m}
      /\ \A y : Due(t.up, b, y) <=> Due(s.up, a, y)
  BY AtServing
<1>2. /\ ~c.modal /\ Exchange(t.up, b) /\ ~OpenThenLoad(a) /\ ~OpenThenLoad(b)
      /\ \A y \in Answerable : ~Has(a, y) /\ ~Has(t.up, y) /\ (Has(b, y) <=> m.type = y)
  <2>1. Exchange(s.up, a) /\ Dialogs(c, s.up, a)
    BY DEF Talk
  <2>2. ~c.modal /\ Exchange(t.up, b) /\ ~OpenThenLoad(a) /\ ~OpenThenLoad(b)
    BY <1>b, <2>1, AtSingle
  <2>3. Answering(t.up, a, b, m.type)
    BY <1>b, <2>1, AtSingle
  <2> QED BY <2>2, <2>3 DEF Answering
<1>3. Expected(c, t.up, b) /\ Results(b) /\ Dialogs(c, t.up, b)
  BY <1>1, <1>2 DEF Talk, Expected, Results, Dialogs
<1>4. Windows(c, t, b)
  BY <1>1, <1>2 DEF Talk, Windows, Moving, Answerable
<1>5. Texts(c, t, b, f.docs)
  <2>1. Right(b, c.valid, Shows(c, f.docs))
    BY RightMore DEF Talk, Texts
  <2> QED BY <1>1, <1>2, <2>1 DEF Talk, Texts, Moving
<1>6. Profiles(c, t, b, f, q)
  <2>1. \A n \in ToSet(a) : n.type \notin {"LOGIN", "UPDATE_USER"}
    BY <1>2 DEF Has, Answerable
  <2>2. \A n \in ToSet(t.up) : n.type # "UPDATE_USER"
    BY <1>2 DEF Has, Answerable
  <2>3. ~c.access => s.user = c.user
    BY DEF Talk, Profiles
  <2>4. "exec" \notin q /\ ~c.access =>
          c.alias = AliasOf(d, c.user) /\ Head(s.up).alias = c.field
    BY <1>1, <1>2 DEF Talk, Profiles, Answerable
  <2> QED BY <1>1, <2>1, <2>2, <2>3, <2>4 DEF Profiles
<1> QED BY <1>2, <1>3, <1>4, <1>5, <1>6 DEF Talk

\* The others have nothing else under way with them.
Passing(u, a, types) ==
  Among(u, types) /\ Among(a, types) /\ ~OpenThenLoad(a)
LEMMA AtPassing ==
  ASSUME NEW c, NEW u, IsSeq(u), u # <<>>, NEW a, IsSeq(a), Exchange(u, a), Dialogs(c, u, a),
         NEW m, m.type = Head(u).type, m.type \in {"QUIT_FILE", "GET_FILES", "LOAD_FILE"}
  PROVE  /\ ~c.modal /\ Exchange(Tail(u), Append(a, m))
         /\ LET types == IF m.type = "LOAD_FILE" THEN {"LOAD_FILE"} ELSE {"QUIT_FILE", "GET_FILES"}
            IN  Passing(u, a, types) /\ Passing(Tail(u), Append(a, m), types)
<1> DEFINE types == IF m.type = "LOAD_FILE" THEN {"LOAD_FILE"} ELSE {"QUIT_FILE", "GET_FILES"}
<1>1. /\ \A y : Has(u, y) <=> Head(u).type = y \/ Has(Tail(u), y)
      /\ \A y : Has(Append(a, m), y) <=> Has(a, y) \/ m.type = y
  BY AtServing
<1>2. Among(u, types) /\ Among(a, types)
  <2>1. CASE m.type = "LOAD_FILE"
    BY <1>1, <2>1, ExchangeIs DEF Due, Quiet, Answerable
  <2>2. CASE m.type # "LOAD_FILE"
    BY <1>1, <2>2, ExchangeIs DEF Due
  <2> QED BY <2>1, <2>2
<1>3. Among(Tail(u), types) /\ Among(Append(a, m), types)
  BY <1>1, <1>2 DEF Among
<1>4. \A q : IsSeq(q) /\ Among(q, types) => ~OpenThenLoad(q)
  BY OpenHas DEF Among, Answerable
<1>5. IsSeq(Append(a, m))
  BY AtEnd
<1>6. Exchange(Tail(u), Append(a, m))
  BY <1>3 DEF Exchange
<1>7. ~c.modal
  BY <1>1 DEF Dialogs, Quiet, Answerable
<1> QED BY <1>2, <1>3, <1>4, <1>5, <1>6, <1>7 DEF Passing

\* The logout.
LEMMA TalkLoggingOut ==
  ASSUME NEW c, NEW s, NEW t, NEW a, NEW b, NEW d, NEW f, NEW sp, NEW q, NEW m,
         IsSeq(s.up), s.up # <<>>, IsSeq(a), Talk(c, s, a, d, sp), Later(c, d, f, sp, q),
         t.up = Tail(s.up), b = Append(a, m), m.type = Head(s.up).type,
         m.type = "LOGOUT", m.result = "SUCCESS", t.user = s.user, ~t.joined
  PROVE  Talk(c, t, b, f, q)
<1>a. Talk(c, s, a, f, q)
  BY TalkLater
<1>b. m.type \in Single /\ ~Opens(m)
  BY DEF Single, Opens
<1>1. /\ \A y : Has(s.up, y) <=> Head(s.up).type = y \/ Has(t.up, y)
      /\ \A y : Has(b, y) <=> Has(a, y) \/ m.type = y
      /\ ToSet(s.up) = {Head(s.up)} \cup ToSet(t.up)
      /\ ToSet(b) = ToSet(a) \cup {m}
      /\ \A y : Due(t.up, b, y) <=> Due(s.up, a, y)
  BY AtServing
<1>2. /\ ~c.modal /\ Exchange(t.up, b) /\ ~OpenThenLoad(a) /\ ~OpenThenLoad(b)
      /\ \A y \in Answerable : ~Has(a, y) /\ ~Has(t.up, y) /\ (Has(b, y) <=> m.type = y)
  <2>1. Exchange(s.up, a) /\ Dialogs(c, s.up, a)
    BY DEF Talk
  <2>2. ~c.modal /\ Exchange(t.up, b) /\ ~OpenThenLoad(a) /\ ~OpenThenLoad(b)
    BY <1>b, <2>1, AtSingle
  <2>3. Answering(t.up, a, b, m.type)
    BY <1>b, <2>1, AtSingle
  <2> QED BY <2>2, <2>3 DEF Answering
<1>3. Expected(c, t.up, b) /\ Results(b) /\ Dialogs(c, t.up, b)
  BY <1>a, <1>1, <1>2 DEF Talk, Expected, Results, Dialogs
<1>4. Windows(c, t, b)
  BY <1>a, <1>1, <1>2 DEF Talk, Windows, Moving, Answerable, Due
<1>5. Texts(c, t, b, f.docs)
  <2>1. Right(b, c.valid, Shows(c, f.docs))
    BY <1>a, RightMore DEF Talk, Texts
  <2> QED BY <1>a, <1>1, <1>2, <2>1 DEF Talk, Texts
<1>6. Profiles(c, t, b, f, q)
  BY <1>a, <1>1, <1>2 DEF Talk, Profiles, Answerable
<1> QED BY <1>2, <1>3, <1>4, <1>5, <1>6 DEF Talk

\* The editor that was closed, or the list of documents.
LEMMA TalkPassing ==
  ASSUME NEW c, NEW s, NEW t, NEW a, NEW b, NEW d, NEW f, NEW sp, NEW q, NEW m,
         IsSeq(s.up), s.up # <<>>, IsSeq(a), Talk(c, s, a, d, sp), Later(c, d, f, sp, q),
         t.up = Tail(s.up), b = Append(a, m), m.type = Head(s.up).type,
         m.result = "SUCCESS", t.user = s.user,
         \/ m.type = "QUIT_FILE" /\ ~t.joined
         \/ m.type = "GET_FILES" /\ t.joined = s.joined /\ t.file = s.file
  PROVE  Talk(c, t, b, f, q)
<1>a. Talk(c, s, a, f, q)
  BY TalkLater
<1>1. /\ \A y : Has(s.up, y) <=> Head(s.up).type = y \/ Has(t.up, y)
      /\ \A y : Has(b, y) <=> Has(a, y) \/ m.type = y
      /\ ToSet(s.up) = {Head(s.up)} \cup ToSet(t.up)
      /\ ToSet(b) = ToSet(a) \cup {m}
      /\ \A y : Due(t.up, b, y) <=> Due(s.up, a, y)
  BY AtServing
<1>2. /\ ~c.modal /\ Exchange(t.up, b) /\ ~OpenThenLoad(a) /\ ~OpenThenLoad(b)
      /\ \A y \in Answerable \ {"QUIT_FILE", "GET_FILES"} :
           ~Has(a, y) /\ ~Has(s.up, y) /\ ~Has(b, y) /\ ~Has(t.up, y)
  <2>1. Exchange(s.up, a) /\ Dialogs(c, s.up, a)
    BY DEF Talk
  <2>2. ~c.modal /\ Exchange(t.up, b)
    BY <2>1, AtPassing
  <2>3. Passing(s.up, a, {"QUIT_FILE", "GET_FILES"}) /\ Passing(t.up, b, {"QUIT_FILE", "GET_FILES"})
    BY <2>1, AtPassing
  <2> QED BY <2>2, <2>3 DEF Passing, Among
<1>3. Expected(c, t.up, b) /\ Results(b) /\ Dialogs(c, t.up, b)
  BY <1>a, <1>1, <1>2 DEF Talk, Expected, Results, Dialogs
<1>4. Windows(c, t, b)
  <2>1. ~c.access
    BY <1>a, <1>1 DEF Talk, Expected, Due
  <2> QED BY <1>a, <1>1, <1>2, <2>1 DEF Talk, Windows, Moving, Answerable, Due
<1>5. Texts(c, t, b, f.docs)
  <2>1. Right(b, c.valid, Shows(c, f.docs))
    BY <1>a, RightMore DEF Talk, Texts
  <2> QED BY <1>a, <1>1, <1>2, <2>1 DEF Talk, Texts, Moving, Due
<1>6. Profiles(c, t, b, f, q)
  BY <1>a, <1>1, <1>2 DEF Talk, Profiles, Answerable
<1> QED BY <1>2, <1>3, <1>4, <1>5, <1>6 DEF Talk

\* The text, once more.
LEMMA TalkLoading ==
  ASSUME NEW c, NEW s, NEW t, NEW a, NEW b, NEW d, NEW f, NEW sp, NEW q, NEW m,
         IsSeq(s.up), s.up # <<>>, IsSeq(a), Talk(c, s, a, d, sp), Later(c, d, f, sp, q),
         t.up = Tail(s.up), b = Append(a, m), m.type = Head(s.up).type,
         m.type = "LOAD_FILE", m.result = "SUCCESS", m.body = s.file,
         t.user = s.user, t.joined = s.joined, t.file = s.file
  PROVE  Talk(c, t, b, f, q)
<1>a. Talk(c, s, a, f, q)
  BY TalkLater
<1>1. /\ \A y : Has(s.up, y) <=> Head(s.up).type = y \/ Has(t.up, y)
      /\ \A y : Has(b, y) <=> Has(a, y) \/ m.type = y
      /\ ToSet(s.up) = {Head(s.up)} \cup ToSet(t.up)
      /\ ToSet(b) = ToSet(a) \cup {m}
      /\ \A y : Due(t.up, b, y) <=> Due(s.up, a, y)
  BY AtServing
<1>2. /\ ~c.modal /\ Exchange(t.up, b) /\ ~OpenThenLoad(a) /\ ~OpenThenLoad(b)
      /\ \A y \in Answerable \ {"LOAD_FILE"} :
           ~Has(a, y) /\ ~Has(s.up, y) /\ ~Has(b, y) /\ ~Has(t.up, y)
  <2>1. Exchange(s.up, a) /\ Dialogs(c, s.up, a)
    BY DEF Talk
  <2>2. ~c.modal /\ Exchange(t.up, b)
    BY <2>1, AtPassing
  <2>3. Passing(s.up, a, {"LOAD_FILE"}) /\ Passing(t.up, b, {"LOAD_FILE"})
    BY <2>1, AtPassing
  <2> QED BY <2>2, <2>3 DEF Passing, Among
<1>3. Expected(c, t.up, b) /\ Results(b) /\ Dialogs(c, t.up, b)
  BY <1>a, <1>1, <1>2 DEF Talk, Expected, Results, Dialogs
<1>4. Windows(c, t, b)
  <2>1. ~c.access
    BY <1>a, <1>1 DEF Talk, Expected, Due
  <2> QED BY <1>a, <1>1, <1>2, <2>1 DEF Talk, Windows, Moving, Answerable, Due
<1>5. Texts(c, t, b, f.docs)
  <2>0. ~Moving(c, s.up, a) /\ c.editor = "shown"
    BY <1>a, <1>1, <1>2 DEF Talk, Expected, Due, Moving, Broken, Answerable
  <2>2. s.file = Shows(c, f.docs)
    BY <1>a, <2>0 DEF Talk, Texts, Windows
  <2>1. Right(b, c.valid, Shows(c, f.docs))
    BY <1>a, <2>2, RightMore DEF Talk, Texts
  <2> QED BY <1>a, <1>1, <1>2, <2>1 DEF Talk, Texts, Moving, Due
<1>6. Profiles(c, t, b, f, q)
  BY <1>a, <1>1, <1>2 DEF Talk, Profiles, Answerable
<1> QED BY <1>2, <1>3, <1>4, <1>5, <1>6 DEF Talk

\* A document that is not opened.
LEMMA TalkRefused ==
  ASSUME NEW c, NEW s, NEW t, NEW a, NEW b, NEW d, NEW f, NEW sp, NEW q, NEW m,
         IsSeq(s.up), s.up # <<>>, IsSeq(a), Talk(c, s, a, d, sp), Later(c, d, f, sp, q),
         t.up = Tail(s.up), b = Append(a, m), m.type = Head(s.up).type,
         m.type = "OPEN_FILE", m.result \in {"BAD", "ERROR"},
         t.user = s.user
  PROVE  Talk(c, t, b, f, q)
<1>a. Talk(c, s, a, f, q)
  BY TalkLater
<1>b. m.type \in Single /\ ~Opens(m)
  BY DEF Single, Opens
<1>1. /\ \A y : Has(s.up, y) <=> Head(s.up).type = y \/ Has(t.up, y)
      /\ \A y : Has(b, y) <=> Has(a, y) \/ m.type = y
      /\ ToSet(s.up) = {Head(s.up)} \cup ToSet(t.up)
      /\ ToSet(b) = ToSet(a) \cup {m}
      /\ \A y : Due(t.up, b, y) <=> Due(s.up, a, y)
  BY AtServing
<1>2. /\ ~c.modal /\ Exchange(t.up, b) /\ ~OpenThenLoad(a) /\ ~OpenThenLoad(b)
      /\ \A y \in Answerable : ~Has(a, y) /\ ~Has(t.up, y) /\ (Has(b, y) <=> m.type = y)
  <2>1. Exchange(s.up, a) /\ Dialogs(c, s.up, a)
    BY DEF Talk
  <2>2. ~c.modal /\ Exchange(t.up, b) /\ ~OpenThenLoad(a) /\ ~OpenThenLoad(b)
    BY <1>b, <2>1, AtSingle
  <2>3. Answering(t.up, a, b, m.type)
    BY <1>b, <2>1, AtSingle
  <2> QED BY <2>2, <2>3 DEF Answering
<1>c. ~c.access /\ ~c.valid /\ Due(t.up, b, "OPEN_FILE")
  BY <1>a, <1>1 DEF Talk, Expected, Due
<1>3. Expected(c, t.up, b) /\ Results(b) /\ Dialogs(c, t.up, b)
  BY <1>a, <1>1, <1>2 DEF Talk, Expected, Results, Dialogs
<1>4. Windows(c, t, b)
  BY <1>a, <1>1, <1>2, <1>c DEF Talk, Windows, Moving, Answerable
<1>5. Texts(c, t, b, f.docs)
  <2>1. Right(b, c.valid, Shows(c, f.docs))
    BY <1>a, RightMore DEF Talk, Texts
  <2> QED BY <1>a, <1>1, <1>2, <1>c, <2>1 DEF Talk, Texts, Moving
<1>6. Profiles(c, t, b, f, q)
  BY <1>a, <1>1, <1>2 DEF Talk, Profiles, Answerable
<1> QED BY <1>2, <1>3, <1>4, <1>5, <1>6 DEF Talk

\* A document that is opened: two answers.
LEMMA TalkOpening ==
  ASSUME NEW c, NEW s, NEW t, NEW a, NEW b, NEW d, NEW f, NEW sp, NEW q, NEW m, NEW n,
         IsSeq(s.up), s.up # <<>>, IsSeq(a), Talk(c, s, a, d, sp), Later(c, d, f, sp, q),
         t.up = Tail(s.up), b = Append(Append(a, m), n), Head(s.up).type = "OPEN_FILE",
         Opens(m), n.type = "LOAD_FILE", n.result = "SUCCESS",
         t.user = s.user, t.joined, t.file = Shows(c, f.docs), n.body = t.file
  PROVE  Talk(c, t, b, f, q)
<1> DEFINE p == Append(a, m)
<1>a. Talk(c, s, a, f, q)
  BY TalkLater
<1>0. IsSeq(p) /\ m.type = "OPEN_FILE" /\ m.result = "SUCCESS" /\ "OPEN_FILE" \in Single
  BY AtEnd DEF Opens, Single
<1>1. /\ \A y : Has(s.up, y) <=> y = "OPEN_FILE" \/ Has(t.up, y)
      /\ \A y : Has(p, y) <=> Has(a, y) \/ y = "OPEN_FILE"
      /\ ToSet(s.up) = {Head(s.up)} \cup ToSet(t.up)
      /\ ToSet(p) = ToSet(a) \cup {m}
  BY <1>0, AtServing
<1> HIDE DEF p
<1>d. b = Append(p, n)
  BY DEF p
<1>e. /\ \A y : Has(b, y) <=> Has(p, y) \/ y = "LOAD_FILE"
      /\ ToSet(b) = ToSet(p) \cup {n}
  BY <1>0, <1>d, HasMore, AtEnd
<1>2. /\ ~c.modal /\ Exchange(t.up, b) /\ OpenThenLoad(b)
      /\ \A y \in Answerable : ~Has(a, y) /\ ~Has(t.up, y)
  <2>1. Exchange(s.up, a) /\ Dialogs(c, s.up, a)
    BY DEF Talk
  <2>2. Quiet(a) /\ Quiet(t.up) /\ Exchange(t.up, b) /\ OpenThenLoad(b)
    BY <1>0, <2>1, ExchangeServed
  <2>3. ~c.modal
    BY <1>1, <2>1 DEF Dialogs, Quiet, Answerable
  <2> QED BY <2>2, <2>3 DEF Quiet
<1>c. ~c.access /\ ~c.valid /\ ~c.dialog /\ c.editor = "shown"
  BY <1>a, <1>1 DEF Talk, Expected, Due
<1>3. Expected(c, t.up, b) /\ Results(b) /\ Dialogs(c, t.up, b)
  BY <1>a, <1>0, <1>1, <1>e, <1>2, <1>c DEF Talk, Expected, Results, Dialogs, Due, Answerable
<1>4. Windows(c, t, b)
  BY <1>a, <1>1, <1>e, <1>2, <1>c DEF Windows, Answerable
<1>5. Texts(c, t, b, f.docs)
  <2>1. Right(p, c.valid, Shows(c, f.docs))
    BY <1>a, <1>0, <1>c, RightMore DEF Talk, Texts, p
  <2>2. Right(b, c.valid, Shows(c, f.docs))
    BY <1>0, <1>d, <2>1, RightMore
  <2> QED BY <1>a, <1>1, <1>2, <2>2 DEF Talk, Texts
<1>6. Profiles(c, t, b, f, q)
  BY <1>a, <1>0, <1>1, <1>e, <1>2 DEF Talk, Profiles, Answerable
<1> QED BY <1>2, <1>3, <1>4, <1>5, <1>6 DEF Talk

\* What is not answered, or with what the others get too.
LEMMA TalkAside ==
  ASSUME NEW c, NEW s, NEW t, NEW a, NEW b, NEW d, NEW f, NEW sp, NEW q,
         IsSeq(s.up), IsSeq(a), Talk(c, s, a, d, sp), Later(c, d, f, sp, q),
         t.user = s.user, t.joined = s.joined, t.file = s.file,
         \/ t.up = s.up
         \/ /\ s.up # <<>> /\ t.up = Tail(s.up)
            /\ Head(s.up).type \in {"CRDT", "SAVE_FILE", "CHAT"},
         \/ b = a
         \/ \E m : /\ b = Append(a, m) /\ m.type \in {"CRDT", "CHAT"} /\ m.result = "SUCCESS"
                   /\ m.type = "CRDT" => s.joined /\ m.body = s.file
  PROVE  Talk(c, t, b, f, q)
<1>a. Talk(c, s, a, f, q)
  BY TalkLater
<1>1. /\ \A y \in Answerable : Has(t.up, y) <=> Has(s.up, y)
      /\ \A r \in ToSet(t.up) : r \in ToSet(s.up)
      /\ Exchange(t.up, a)
  <2>1. CASE t.up = s.up
    BY <1>a, <2>1 DEF Talk
  <2>2. CASE s.up # <<>> /\ t.up = Tail(s.up) /\ Head(s.up).type \in {"CRDT", "SAVE_FILE", "CHAT"}
    <3>1. Exchange(t.up, a)
      BY <1>a, <2>2, ExchangeAside DEF Talk, Answerable
    <3> QED BY <2>2, <3>1, HasTail, AtTail DEF Answerable
  <2> QED BY <2>1, <2>2
<1>s. IsSeq(t.up)
  BY AtTail
<1>u. Talk(c, t, a, f, q)
  <2>1. Expected(c, t.up, a) /\ Dialogs(c, t.up, a) /\ Windows(c, t, a)
    BY <1>a, <1>1 DEF Talk, Expected, Dialogs, Windows, Moving, Due, Answerable, Quiet
  <2>2. Texts(c, t, a, f.docs) /\ Profiles(c, t, a, f, q)
    BY <1>a, <1>1 DEF Talk, Texts, Profiles, Moving, Due, Answerable
  <2> QED BY <1>a, <1>1, <2>1, <2>2 DEF Talk
<1>2. CASE b = a
  BY <1>u, <1>2
<1>3. ASSUME NEW m, b = Append(a, m), m.type \in {"CRDT", "CHAT"}, m.result = "SUCCESS",
             m.type = "CRDT" => t.joined /\ m.body = t.file
      PROVE  Talk(c, t, b, f, q)
  <2>1. /\ \A y : Has(b, y) <=> Has(a, y) \/ m.type = y
        /\ ToSet(b) = ToSet(a) \cup {m} /\ IsSeq(b)
    BY <1>3, HasMore, AtEnd
  <2>2. Exchange(t.up, b)
    BY <1>3, <1>u, <1>s, ExchangeAside DEF Talk, Answerable
  <2>3. OpenThenLoad(b) => OpenThenLoad(a)
    \* by the exchange
    <3>1. CASE OpenThenLoad(b)
      <4>1. Has(b, "OPEN_FILE") /\ Has(b, "LOAD_FILE")
        BY <2>1, <3>1, OpenHas
      <4>2. Has(a, "OPEN_FILE") /\ Has(a, "LOAD_FILE")
        BY <1>3, <2>1, <4>1
      <4>3. "OPEN_FILE" \in Single /\ "OPEN_FILE" # "LOAD_FILE" /\ {"OPEN_FILE", "LOAD_FILE"} \subseteq Answerable
        BY DEF Single, Answerable
      <4>4. \/ Only(a, "OPEN_FILE") /\ NotOpened(a)
            \/ OpenThenLoad(a)
        BY <1>u, <1>s, <4>2, <4>3, ExchangeIs DEF Talk
      <4> QED BY <4>2, <4>3, <4>4, LoneHas DEF Only
    <3> QED BY <3>1
  <2>4. Expected(c, t.up, b) /\ Results(b) /\ Dialogs(c, t.up, b)
    BY <1>3, <1>u, <2>1 DEF Talk, Expected, Results, Dialogs, Due, Quiet, Answerable
  <2>5. Windows(c, t, b)
    BY <1>3, <1>u, <2>1, <2>3 DEF Talk, Windows, Moving, Due
  <2>6. Texts(c, t, b, f.docs)
    <3>1. m.type = "CRDT" /\ (c.valid \/ \E n \in ToSet(a) : n.type = "LOAD_FILE" \/ Opens(n))
            => m.body = Shows(c, f.docs)
      <4> SUFFICES ASSUME m.type = "CRDT",
                          c.valid \/ \E n \in ToSet(a) : n.type = "LOAD_FILE" \/ Opens(n)
                   PROVE  t.file = Shows(c, f.docs)
        BY <1>3
      <4>1. t.joined
        BY <1>3
      <4>2. CASE c.valid
        BY <1>u, <4>1, <4>2 DEF Talk, Texts
      <4>3. CASE Has(a, "LOAD_FILE")
        <5>1. \/ Among(t.up, {"LOAD_FILE"}) /\ Among(a, {"LOAD_FILE"})
              \/ OpenThenLoad(a)
          BY <1>u, <1>s, <4>3, ExchangeIs DEF Talk, Due
        <5>2. OpenThenLoad(a) => t.file = Shows(c, f.docs)
          BY <1>u, <4>1 DEF Talk, Texts
        <5>3. Among(t.up, {"LOAD_FILE"}) /\ Among(a, {"LOAD_FILE"}) => ~Moving(c, t.up, a)
          BY <1>u, <4>3 DEF Talk, Among, Moving, Due, Broken, Dialogs, Quiet, Answerable
        <5> QED BY <1>u, <4>1, <5>1, <5>2, <5>3 DEF Talk, Texts
      <4>4. CASE \E n \in ToSet(a) : Opens(n)
        <5>1. Has(a, "OPEN_FILE") /\ ~NotOpened(a) /\ "OPEN_FILE" \in Single
          BY <4>4 DEF Has, Opens, NotOpened, Single
        <5>2. OpenThenLoad(a)
          BY <1>u, <1>s, <5>1, ExchangeIs DEF Talk
        <5> QED BY <1>u, <4>1, <5>2 DEF Talk, Texts
      <4> QED BY <4>2, <4>3, <4>4 DEF Has
    <3>2. Right(b, c.valid, Shows(c, f.docs))
      BY <1>3, <1>u, <3>1, RightMore DEF Talk, Texts
    <3> QED BY <1>3, <1>u, <2>1, <2>3, <3>2 DEF Talk, Texts, Moving, Due
  <2>7. Profiles(c, t, b, f, q)
    BY <1>3, <1>u, <2>1 DEF Talk, Profiles
  <2> QED BY <2>2, <2>4, <2>5, <2>6, <2>7 DEF Talk
<1> QED BY <1>2, <1>3

-----------------------------------------------------------------------------
(* What the client does with an answer.                                    *)

\* Nothing is due any more once the answer of an exchange of one is taken.
LEMMA AtAnswer ==
  ASSUME NEW c, NEW s, NEW a, NEW d, NEW sp, IsSeq(s.up), IsSeq(a), a # <<>>,
         Talk(c, s, a, d, sp), Head(a).type \in Single, ~Opens(Head(a))
  PROVE  /\ Rest(s.up, Tail(a)) /\ Exchange(s.up, Tail(a)) /\ ~c.modal
         /\ ~OpenThenLoad(a) /\ ~OpenThenLoad(Tail(a))
         /\ \A y : Has(a, y) <=> Head(a).type = y \/ Has(Tail(a), y)
         /\ \A y \in Answerable : ~Has(s.up, y) /\ ~Has(Tail(a), y)
         /\ ToSet(a) = {Head(a)} \cup ToSet(Tail(a))
         /\ \A y \in Answerable : Due(s.up, a, y) <=> Head(a).type = y
<1>1. Quiet(s.up) /\ Quiet(Tail(a))
  BY ExchangeAnswered DEF Talk
<1>2. /\ \A y : Has(a, y) <=> Head(a).type = y \/ Has(Tail(a), y)
      /\ ToSet(a) = {Head(a)} \cup ToSet(Tail(a)) /\ IsSeq(Tail(a))
  BY HasTail, AtTail
<1>3. \A y \in Answerable : ~Has(s.up, y) /\ ~Has(Tail(a), y)
  BY <1>1 DEF Quiet
<1>4. Exchange(s.up, Tail(a))
  BY <1>3 DEF Exchange, Among
<1>5. ~OpenThenLoad(a) /\ ~OpenThenLoad(Tail(a))
  <2>1. {"OPEN_FILE", "LOAD_FILE"} \subseteq Answerable
    BY DEF Answerable
  <2>2. ~OpenThenLoad(Tail(a))
    BY <1>2, <1>3, <2>1, OpenHas
  <2>3. ~(Has(a, "OPEN_FILE") /\ Has(a, "LOAD_FILE"))
    BY <1>2, <1>3, <2>1
  <2> QED BY <2>2, <2>3, OpenHas
<1>6. ~c.modal
  BY <1>2 DEF Talk, Dialogs, Quiet, Single, Answerable
<1>7. \A y \in Answerable : Due(s.up, a, y) <=> Head(a).type = y
  BY <1>2, <1>3 DEF Due
<1> QED BY <1>1, <1>2, <1>3, <1>4, <1>5, <1>6, <1>7 DEF Rest

\* A request that is not carried out is reported as what it was.
LEMMA BlameIsRight ==
  ASSUME NEW c, NEW s, NEW a, NEW d, NEW sp, IsSeq(s.up), IsSeq(a), a # <<>>,
         Talk(c, s, a, d, sp)
  PROVE  /\ Head(a).result \in {"BAD", "ERROR"} => Head(a).type \in Single /\ ~Opens(Head(a))
         /\ Head(a).result = "BAD" => ClientErrorKind(c, Head(a)) = Blame(Head(a))
         /\ Head(a).result = "ERROR" => ServerErrorKind(Head(a)) = Blame(Head(a))
<1>1. Head(a) \in ToSet(a) /\ Has(a, Head(a).type)
  BY AtTail, HasTail
<1>2. Head(a).result \in {"BAD", "ERROR"} => Head(a).type \in Single /\ ~Opens(Head(a))
  BY <1>1 DEF Talk, Results, Single, Opens
<1>3. ASSUME Head(a).result = "BAD" PROVE ClientErrorKind(c, Head(a)) = Blame(Head(a))
  <2>1. Head(a).type \in {"LOGIN", "SIGNUP", "OPEN_FILE", "DELETE_FILE"}
    BY <1>1, <1>3 DEF Talk, Results
  <2>2. \A y \in Answerable : Due(s.up, a, y) <=> Head(a).type = y
    BY <1>2, <1>3, AtAnswer
  <2>3. Expected(c, s.up, a) /\ Dialogs(c, s.up, a)
    BY DEF Talk
  <2>4. CASE Head(a).type = "LOGIN"
    BY <1>3, <2>2, <2>3, <2>4 DEF Expected, ClientErrorKind, Blame, Answerable
  <2>5. CASE Head(a).type = "SIGNUP"
    BY <1>3, <2>2, <2>3, <2>5 DEF Expected, ClientErrorKind, Blame, Answerable
  <2>6. CASE Head(a).type = "OPEN_FILE"
    BY <1>3, <2>2, <2>3, <2>6 DEF Expected, ClientErrorKind, Blame, Answerable
  <2>7. CASE Head(a).type = "DELETE_FILE"
    <3>1. c.state \in {"CONNECTED", "CONNECTED_AND_LOGGED"}
      BY <2>2, <2>3, <2>7 DEF Expected, Dialogs, Answerable
    <3> QED BY <1>3, <2>7, <3>1 DEF ClientErrorKind, Blame
  <2> QED BY <2>1, <2>4, <2>5, <2>6, <2>7
<1>4. ASSUME Head(a).result = "ERROR" PROVE ServerErrorKind(Head(a)) = Blame(Head(a))
  BY <1>1, <1>4 DEF Talk, Results, ServerErrorKind, Blame
<1> QED BY <1>2, <1>3, <1>4

\* A refusal or an error is shown.
LEMMA TalkError ==
  ASSUME NEW c, NEW e, NEW s, NEW a, NEW d, NEW sp, IsSeq(s.up), IsSeq(a), a # <<>>,
         Talk(c, s, a, d, sp), c.valid \in BOOLEAN, Head(a).result \in {"BAD", "ERROR"},
         But(c, e, {"modal", "kind"}), e.modal = TRUE, e.kind = Blame(Head(a))
  PROVE  Talk(e, s, Tail(a), d, sp)
<1> DEFINE m == Head(a)
           b == Tail(a)
<1>0. m.type \in Single /\ ~Opens(m)
  BY BlameIsRight
<1>1. /\ Rest(s.up, b) /\ Exchange(s.up, b) /\ ~c.modal
      /\ ~OpenThenLoad(a) /\ ~OpenThenLoad(b)
      /\ \A y : Has(a, y) <=> m.type = y \/ Has(b, y)
      /\ \A y \in Answerable : ~Has(s.up, y) /\ ~Has(b, y)
      /\ ToSet(a) = {m} \cup ToSet(b)
      /\ \A y \in Answerable : Due(s.up, a, y) <=> m.type = y
  BY <1>0, AtAnswer
<1>2. /\ e.state = c.state /\ e.access = c.access
      /\ e.dialog = c.dialog /\ e.editor = c.editor /\ e.busy = c.busy /\ e.hash = c.hash
      /\ e.valid = c.valid /\ e.copy = c.copy /\ e.user = c.user /\ e.alias = c.alias
      /\ e.field = c.field
  BY DEF But, TalkFields
<1>3. Right(b, c.valid, Shows(c, d.docs))
  BY RightTail DEF Talk, Texts
<1> HIDE DEF m, b
<1>4. /\ m.result = "BAD" => m.type \in {"LOGIN", "SIGNUP", "OPEN_FILE", "DELETE_FILE"}
      /\ m.result = "ERROR" =>
           m.type \in {"LOGIN", "SIGNUP", "OPEN_FILE", "DELETE_FILE", "UPDATE_USER"}
      /\ m.result \in {"BAD", "ERROR"} /\ e.kind = Blame(m)
  BY <1>1 DEF Talk, Results, m
<1>5. /\ Expected(c, s.up, a) /\ Dialogs(c, s.up, a) /\ Windows(c, s, a)
      /\ Texts(c, s, a, d.docs) /\ Profiles(c, s, a, d, sp) /\ Results(a)
  BY DEF Talk
<1>6. Expected(e, s.up, b) /\ Results(b) /\ Dialogs(e, s.up, b)
  <2>1. Expected(e, s.up, b) /\ Results(b)
    BY <1>1, <1>2, <1>5 DEF Expected, Results, Due, Answerable
  <2>2. e.dialog => ~e.access /\ e.state \in {"CONNECTED", "CONNECTED_AND_LOGGED"}
    BY <1>1, <1>2, <1>4, <1>5 DEF Dialogs, Answerable
  <2>3. /\ e.kind \in {"LOGIN_ERROR", "UPDATE_USER_ERROR", "OPENFILE_ERROR", "FILE_ERROR",
                       "SERVER_ERROR"}
        /\ e.kind = "OPENFILE_ERROR" => ~e.access
    BY <1>1, <1>2, <1>4, <1>5 DEF Blame, Expected, Answerable
  <2> QED BY <1>1, <1>2, <1>5, <2>1, <2>2, <2>3 DEF Dialogs, Rest
<1>7. Moving(c, s.up, a) => Moving(e, s.up, b)
  BY <1>1, <1>4 DEF Moving, Broken, Blame, Answerable
<1>8. Windows(e, s, b)
  BY <1>1, <1>2, <1>4, <1>5, <1>7 DEF Windows, Answerable
<1>9. Texts(e, s, b, d.docs)
  BY <1>1, <1>2, <1>3, <1>5, <1>7 DEF Texts, Shows
<1>10. Profiles(e, s, b, d, sp)
  BY <1>1, <1>2, <1>4, <1>5 DEF Profiles, Answerable
<1>11. Talk(e, s, b, d, sp)
  BY <1>1, <1>6, <1>8, <1>9, <1>10 DEF Talk
<1> QED BY <1>11 DEF b

\* The answer of an exchange of one; it is a success.
LEMMA TalkDone ==
  ASSUME NEW c, NEW e, NEW s, NEW a, NEW d, NEW sp, IsSeq(s.up), IsSeq(a), a # <<>>,
         Talk(c, s, a, d, sp), c.valid \in BOOLEAN, Head(a).result = "SUCCESS",
         \/ /\ Head(a).type = "LOGIN" /\ e.state = "CONNECTED" /\ e.user = Head(a).body.user
            /\ e.alias = Head(a).body.alias /\ e.access = FALSE /\ e.dialog = TRUE
            /\ But(c, e, {"state", "user", "alias", "field", "access", "dialog"})
         \/ Head(a).type = "SIGNUP" /\ But(c, e, {"state"})
         \/ /\ Head(a).type = "LOGOUT" /\ e.valid = FALSE /\ e.dialog = FALSE /\ e.access = TRUE
            /\ e.editor # "shown" /\ But(c, e, {"state", "valid", "dialog", "editor", "access"})
         \/ /\ Head(a).type = "UPDATE_USER" /\ e.alias = c.field /\ e.modal = TRUE
            /\ e.kind = "GENERIC_SUCCESS" /\ But(c, e, {"alias", "modal", "kind"})
  PROVE  Talk(e, s, Tail(a), d, sp)
<1> DEFINE m == Head(a)
           b == Tail(a)
<1>0. m.type \in Single /\ ~Opens(m)
  BY DEF Single, Opens
<1>1. /\ Rest(s.up, b) /\ Exchange(s.up, b) /\ ~c.modal
      /\ ~OpenThenLoad(a) /\ ~OpenThenLoad(b)
      /\ \A y : Has(a, y) <=> m.type = y \/ Has(b, y)
      /\ \A y \in Answerable : ~Has(s.up, y) /\ ~Has(b, y)
      /\ ToSet(a) = {m} \cup ToSet(b)
      /\ \A y \in Answerable : Due(s.up, a, y) <=> m.type = y
  BY <1>0, AtAnswer
<1>3. Right(b, c.valid, Shows(c, d.docs)) /\ IsSeq(b)
  BY RightTail, AtTail DEF Talk, Texts
<1>5. /\ Expected(c, s.up, a) /\ Dialogs(c, s.up, a) /\ Windows(c, s, a)
      /\ Texts(c, s, a, d.docs) /\ Profiles(c, s, a, d, sp) /\ Results(a)
  BY DEF Talk
<1> HIDE DEF m, b
<1>r. Results(b)
  BY <1>1, <1>5 DEF Results
<1>x. Expected(e, s.up, b)
  BY <1>1 DEF Expected, Due, Answerable
<1>6. ASSUME m.type = "LOGIN", e.state = "CONNECTED", e.user = m.body.user, m.result = "SUCCESS",
             e.alias = m.body.alias, e.access = FALSE, e.dialog = TRUE,
             But(c, e, {"state", "user", "alias", "field", "access", "dialog"})
      PROVE  Talk(e, s, b, d, sp)
  <2>1. /\ e.modal = c.modal /\ e.kind = c.kind /\ e.editor = c.editor /\ e.busy = c.busy
        /\ e.hash = c.hash /\ e.valid = c.valid /\ e.copy = c.copy
    BY <1>6 DEF But, TalkFields
  <2>2. c.access /\ ~Due(s.up, a, "LOGOUT")
    BY <1>1, <1>5, <1>6 DEF Expected, Answerable
  <2>3. c.editor # "shown" /\ ~s.joined /\ (c.valid => ~Has(b, "CRDT"))
    BY <1>1, <1>5, <2>2 DEF Dialogs, Windows
  <2>4. Dialogs(e, s.up, b) /\ Windows(e, s, b)
    BY <1>1, <1>6, <2>1, <2>3 DEF Dialogs, Windows, Answerable
  <2>5. Right(b, e.valid, Shows(e, d.docs))
    BY <1>1, <1>3, <2>1, <2>3, RightNothing DEF Answerable
  <2>6. Texts(e, s, b, d.docs)
    BY <1>1, <1>5, <2>1, <2>3, <2>5 DEF Texts
  <2>7. Profiles(e, s, b, d, sp)
    <3>1. /\ \A r \in ToSet(s.up) : r.type # "UPDATE_USER"
          /\ \A n \in ToSet(b) : n.type \notin {"UPDATE_USER", "LOGIN"}
      BY <1>1 DEF Has, Answerable
    <3> QED BY <1>1, <1>5, <1>6, <3>1 DEF Profiles
  <2> QED BY <1>1, <1>r, <1>x, <2>4, <2>6, <2>7 DEF Talk
<1>7. ASSUME m.type = "SIGNUP", But(c, e, {"state"}) PROVE Talk(e, s, b, d, sp)
  <2>1. /\ e.modal = c.modal /\ e.kind = c.kind /\ e.access = c.access
        /\ e.dialog = c.dialog /\ e.editor = c.editor /\ e.busy = c.busy /\ e.hash = c.hash
        /\ e.valid = c.valid /\ e.copy = c.copy /\ e.user = c.user /\ e.alias = c.alias
        /\ e.field = c.field
    BY <1>7 DEF But, TalkFields
  <2>2. c.access
    BY <1>1, <1>5, <1>7 DEF Expected, Answerable
  <2>3. Dialogs(e, s.up, b) /\ Windows(e, s, b)
    BY <1>1, <1>5, <1>7, <2>1, <2>2 DEF Dialogs, Windows, Moving, Broken, Due, Answerable
  <2>4. Texts(e, s, b, d.docs)
    BY <1>1, <1>3, <1>5, <1>7, <2>1 DEF Texts, Shows, Moving, Broken, Due, Answerable
  <2>5. Profiles(e, s, b, d, sp)
    BY <1>1, <1>5, <2>1, <2>2 DEF Profiles
  <2> QED BY <1>1, <1>r, <1>x, <2>3, <2>4, <2>5 DEF Talk
<1>8. ASSUME m.type = "LOGOUT", e.valid = FALSE, e.dialog = FALSE, e.access = TRUE,
             e.editor # "shown", But(c, e, {"state", "valid", "dialog", "editor", "access"})
      PROVE  Talk(e, s, b, d, sp)
  <2>1. /\ e.modal = c.modal /\ e.kind = c.kind /\ e.busy = c.busy /\ e.hash = c.hash
        /\ e.copy = c.copy /\ e.user = c.user /\ e.alias = c.alias /\ e.field = c.field
    BY <1>8 DEF But, TalkFields
  <2>2. ~s.joined
    BY <1>1, <1>5, <1>8 DEF Windows
  <2>3. Dialogs(e, s.up, b) /\ Windows(e, s, b)
    BY <1>1, <1>8, <2>1, <2>2 DEF Dialogs, Windows, Answerable
  <2>4. Right(b, FALSE, Shows(e, d.docs))
    BY <1>1, <1>3, RightNothing DEF Answerable
  <2>5. Texts(e, s, b, d.docs)
    BY <1>1, <1>5, <1>8, <2>1, <2>2, <2>4 DEF Texts
  <2>6. Profiles(e, s, b, d, sp)
    BY <1>1, <1>5, <1>8 DEF Profiles
  <2> QED BY <1>1, <1>r, <1>x, <2>3, <2>5, <2>6 DEF Talk
<1>9. ASSUME m.type = "UPDATE_USER", e.alias = c.field, e.modal = TRUE, m.result = "SUCCESS",
             e.kind = "GENERIC_SUCCESS", But(c, e, {"alias", "modal", "kind"})
      PROVE  Talk(e, s, b, d, sp)
  <2>1. /\ e.state = c.state /\ e.access = c.access
        /\ e.dialog = c.dialog /\ e.editor = c.editor /\ e.busy = c.busy /\ e.hash = c.hash
        /\ e.valid = c.valid /\ e.copy = c.copy /\ e.user = c.user /\ e.field = c.field
    BY <1>9 DEF But, TalkFields
  <2>3. Dialogs(e, s.up, b)
    BY <1>1, <1>5, <1>9, <2>1 DEF Dialogs, Rest, Answerable
  <2>4. Windows(e, s, b)
    BY <1>1, <1>5, <1>9, <2>1 DEF Windows, Moving, Broken, Due, Answerable
  <2>5. Texts(e, s, b, d.docs)
    BY <1>1, <1>3, <1>5, <1>9, <2>1 DEF Texts, Shows, Moving, Broken, Due, Answerable
  <2>6. Profiles(e, s, b, d, sp)
    <3>1. /\ \A r \in ToSet(s.up) : r.type # "UPDATE_USER"
          /\ \A n \in ToSet(b) : n.type \notin {"UPDATE_USER", "LOGIN"}
      BY <1>1 DEF Has, Answerable
    <3> QED BY <1>1, <1>5, <1>9, <2>1, <3>1 DEF Profiles
  <2> QED BY <1>1, <1>r, <1>x, <2>3, <2>4, <2>5, <2>6 DEF Talk
<1>10. Talk(e, s, b, d, sp)
  BY <1>6, <1>7, <1>8, <1>9 DEF m
<1> QED BY <1>10 DEF b

\* A document has been opened; the text is next.
LEMMA TalkOpened ==
  ASSUME NEW c, NEW e, NEW s, NEW a, NEW d, NEW sp, IsSeq(s.up), IsSeq(a), a # <<>>,
         Talk(c, s, a, d, sp), c.valid \in BOOLEAN, Opens(Head(a)),
         But(c, e, {"state", "valid"}), e.valid = TRUE
  PROVE  Talk(e, s, Tail(a), d, sp)
<1> DEFINE m == Head(a)
           b == Tail(a)
<1>0. m.type \in Single /\ m.type = "OPEN_FILE"
  BY DEF Single, Opens
<1>1. Quiet(s.up) /\ OpenThenLoad(a) /\ Only(b, "LOAD_FILE")
  BY <1>0, ExchangeAnswered DEF Talk
<1>2. /\ \A y : Has(a, y) <=> m.type = y \/ Has(b, y)
      /\ ToSet(a) = {m} \cup ToSet(b) /\ IsSeq(b)
  BY HasTail, AtTail
<1>3. Right(b, TRUE, Shows(c, d.docs))
  BY RightTail DEF Talk, Texts
<1>5. /\ Expected(c, s.up, a) /\ Dialogs(c, s.up, a) /\ Windows(c, s, a)
      /\ Texts(c, s, a, d.docs) /\ Profiles(c, s, a, d, sp) /\ Results(a)
  BY DEF Talk
<1> HIDE DEF m, b
<1>6. /\ \A y \in Answerable : ~Has(s.up, y)
      /\ \A y \in Answerable : Has(b, y) <=> y = "LOAD_FILE"
      /\ ~OpenThenLoad(b)
  <2>1. \A y \in Answerable : Has(b, y) <=> y = "LOAD_FILE"
    BY <1>1, <1>2, LoneHas DEF Only, Answerable
  <2> QED BY <1>1, <1>2, <2>1, OpenHas DEF Quiet, Answerable
<1>7. Exchange(s.up, b)
  BY <1>6 DEF Exchange, Among
<1>8. ~c.access /\ ~c.dialog /\ c.editor = "shown" /\ s.joined /\ ~c.modal
  BY <1>0, <1>1, <1>2, <1>5, <1>6 DEF Expected, Windows, Due, Dialogs, Quiet, Answerable
<1>9. /\ e.modal = c.modal /\ e.kind = c.kind /\ e.access = c.access
      /\ e.dialog = c.dialog /\ e.editor = c.editor /\ e.busy = c.busy /\ e.hash = c.hash
      /\ e.copy = c.copy /\ e.user = c.user /\ e.alias = c.alias /\ e.field = c.field
  BY DEF But, TalkFields
<1>10. Expected(e, s.up, b) /\ Dialogs(e, s.up, b) /\ Results(b)
  BY <1>2, <1>5, <1>6, <1>8, <1>9 DEF Expected, Dialogs, Results, Due, Answerable
<1>11. Windows(e, s, b)
  BY <1>6, <1>8, <1>9 DEF Windows, Due, Answerable
<1>12. Texts(e, s, b, d.docs)
  BY <1>1, <1>3, <1>5, <1>8, <1>9 DEF Texts, Shows
<1>13. Profiles(e, s, b, d, sp)
  BY <1>0, <1>2, <1>5, <1>9 DEF Profiles
<1>14. Talk(e, s, b, d, sp)
  BY <1>7, <1>10, <1>11, <1>12, <1>13 DEF Talk
<1> QED BY <1>14 DEF b

\* A row has been deleted: the list is asked for.
LEMMA TalkDeleted ==
  ASSUME NEW c, NEW e, NEW s, NEW t, NEW a, NEW d, NEW sp, NEW r,
         IsSeq(s.up), IsSeq(a), a # <<>>,
         Talk(c, s, a, d, sp), c.valid \in BOOLEAN, Head(a).type = "DELETE_FILE",
         Sends(s, t, r), r.type = "GET_FILES", But(c, e, {"state"}),
         e.state = "CONNECTED_AND_LOGGED"
  PROVE  Talk(e, t, Tail(a), d, sp)
<1> DEFINE m == Head(a)
           b == Tail(a)
<1>0. m.type \in Single /\ ~Opens(m)
  BY DEF Single, Opens
<1>1. /\ Rest(s.up, b) /\ ~c.modal /\ ~OpenThenLoad(a) /\ ~OpenThenLoad(b)
      /\ \A y : Has(a, y) <=> m.type = y \/ Has(b, y)
      /\ \A y \in Answerable : ~Has(s.up, y) /\ ~Has(b, y)
      /\ ToSet(a) = {m} \cup ToSet(b)
      /\ \A y \in Answerable : Due(s.up, a, y) <=> m.type = y
  BY <1>0, AtAnswer
<1>2. /\ e.modal = c.modal /\ e.kind = c.kind /\ e.access = c.access
      /\ e.dialog = c.dialog /\ e.editor = c.editor /\ e.busy = c.busy /\ e.hash = c.hash
      /\ e.valid = c.valid /\ e.copy = c.copy /\ e.user = c.user /\ e.alias = c.alias
      /\ e.field = c.field
  BY DEF But, TalkFields
<1>3. Right(b, c.valid, Shows(c, d.docs))
  BY RightTail DEF Talk, Texts
<1>4. /\ \A y : Has(t.up, y) <=> Has(s.up, y) \/ r.type = y
      /\ ToSet(t.up) = ToSet(s.up) \cup {r}
  BY HasMore, AtEnd DEF Sends
<1>5. /\ Expected(c, s.up, a) /\ Dialogs(c, s.up, a) /\ Windows(c, s, a)
      /\ Texts(c, s, a, d.docs) /\ Profiles(c, s, a, d, sp) /\ Results(a)
  BY DEF Talk
<1>6. Exchange(t.up, b)
  BY <1>1, ExchangeOpens DEF Sends, Answerable
<1> HIDE DEF m, b
<1>7. ~c.access
  BY <1>1, <1>5 DEF Expected, Dialogs, Answerable, m
<1>8. Expected(e, t.up, b) /\ Dialogs(e, t.up, b) /\ Results(b)
  BY <1>1, <1>2, <1>4, <1>5, <1>7 DEF Expected, Dialogs, Results, Due, Answerable
<1>9. ~Moving(c, s.up, a) <=> ~Moving(e, t.up, b)
  BY <1>1, <1>2, <1>4 DEF Moving, Broken, Due, Answerable, m
<1>10. Windows(e, t, b)
  BY <1>1, <1>2, <1>4, <1>5, <1>7, <1>9 DEF Windows, Sends, Answerable
<1>11. Texts(e, t, b, d.docs)
  BY <1>1, <1>2, <1>3, <1>4, <1>5, <1>9 DEF Texts, Shows, Sends
<1>12. Profiles(e, t, b, d, sp)
  BY <1>1, <1>2, <1>4, <1>5, <1>7 DEF Profiles, Sends, Answerable, m
<1>13. Talk(e, t, b, d, sp)
  BY <1>6, <1>8, <1>10, <1>11, <1>12 DEF Talk
<1> QED BY <1>13 DEF b

\* The list of documents.
LEMMA TalkListed ==
  ASSUME NEW c, NEW e, NEW s, NEW a, NEW d, NEW sp, IsSeq(s.up), IsSeq(a), a # <<>>,
         Talk(c, s, a, d, sp), c.valid \in BOOLEAN, Head(a).type = "GET_FILES",
         But(c, e, {"field", "dialog"}), e.dialog = TRUE
  PROVE  Talk(e, s, Tail(a), d, sp)
<1> DEFINE m == Head(a)
           b == Tail(a)
<1>2. /\ \A y : Has(a, y) <=> m.type = y \/ Has(b, y)
      /\ ToSet(a) = {m} \cup ToSet(b) /\ IsSeq(b)
  BY HasTail, AtTail
<1>3. Right(b, c.valid, Shows(c, d.docs))
  BY RightTail DEF Talk, Texts
<1>5. /\ Expected(c, s.up, a) /\ Dialogs(c, s.up, a) /\ Windows(c, s, a)
      /\ Texts(c, s, a, d.docs) /\ Profiles(c, s, a, d, sp) /\ Results(a) /\ Exchange(s.up, a)
  BY DEF Talk
<1>6. Among(s.up, {"QUIT_FILE", "GET_FILES"}) /\ Among(a, {"QUIT_FILE", "GET_FILES"})
  BY <1>2, <1>5, ExchangeIs DEF Due
<1>7. /\ \A y \in Answerable \ {"QUIT_FILE", "GET_FILES"} :
           ~Has(s.up, y) /\ ~Has(a, y) /\ ~Has(b, y)
      /\ Exchange(s.up, b)
  BY <1>2, <1>6 DEF Among, Exchange
<1>8. ~OpenThenLoad(a) /\ ~OpenThenLoad(b)
  BY <1>2, <1>7, OpenHas DEF Answerable
<1> HIDE DEF m, b
<1>9. ~c.access /\ c.state = "CONNECTED_AND_LOGGED" /\ ~c.modal
  BY <1>2, <1>5 DEF Expected, Dialogs, Due, Quiet, Answerable, m
<1>10. /\ e.modal = c.modal /\ e.kind = c.kind /\ e.access = c.access /\ e.state = c.state
       /\ e.editor = c.editor /\ e.busy = c.busy /\ e.hash = c.hash /\ e.valid = c.valid
       /\ e.copy = c.copy /\ e.user = c.user /\ e.alias = c.alias
  BY DEF But, TalkFields
<1>11. \A y \in Answerable : y # "GET_FILES" => (Due(s.up, a, y) <=> Due(s.up, b, y))
  BY <1>2 DEF Due, m
<1>12. Expected(e, s.up, b) /\ Dialogs(e, s.up, b) /\ Results(b)
  BY <1>2, <1>5, <1>7, <1>9, <1>10 DEF Expected, Dialogs, Results, Due, Answerable
<1>13. Windows(e, s, b)
  BY <1>2, <1>5, <1>8, <1>9, <1>10, <1>11 DEF Windows, Moving, Broken, Answerable, m
<1>14. Texts(e, s, b, d.docs)
  BY <1>3, <1>5, <1>8, <1>10, <1>11 DEF Texts, Shows, Moving, Broken, Answerable
<1>15. Profiles(e, s, b, d, sp)
  <2>1. /\ \A r \in ToSet(s.up) : r.type # "UPDATE_USER"
        /\ \A n \in ToSet(b) : n.type \notin {"UPDATE_USER", "LOGIN"}
    BY <1>7 DEF Has, Answerable
  <2> QED BY <1>5, <1>7, <1>10, <2>1 DEF Profiles, Answerable
<1>16. Talk(e, s, b, d, sp)
  BY <1>7, <1>12, <1>13, <1>14, <1>15 DEF Talk
<1> QED BY <1>16 DEF b

\* The editor that was closed: the list is asked for.
LEMMA TalkQuit ==
  ASSUME NEW c, NEW e, NEW s, NEW t, NEW a, NEW d, NEW sp, NEW r,
         IsSeq(s.up), IsSeq(a), a # <<>>,
         Talk(c, s, a, d, sp), c.valid \in BOOLEAN, Head(a).type = "QUIT_FILE",
         Sends(s, t, r), r.type = "GET_FILES", But(c, e, {"state", "editor"}),
         e.state = "CONNECTED_AND_LOGGED", e.editor # "shown"
  PROVE  Talk(e, t, Tail(a), d, sp)
<1> DEFINE m == Head(a)
           b == Tail(a)
<1>2. /\ \A y : Has(a, y) <=> m.type = y \/ Has(b, y)
      /\ ToSet(a) = {m} \cup ToSet(b) /\ IsSeq(b)
  BY HasTail, AtTail
<1>4. /\ \A y : Has(t.up, y) <=> Has(s.up, y) \/ r.type = y
      /\ ToSet(t.up) = ToSet(s.up) \cup {r}
  BY HasMore, AtEnd DEF Sends
<1>3. Right(b, c.valid, Shows(c, d.docs))
  BY RightTail DEF Talk, Texts
<1>5. /\ Expected(c, s.up, a) /\ Dialogs(c, s.up, a) /\ Windows(c, s, a)
      /\ Texts(c, s, a, d.docs) /\ Profiles(c, s, a, d, sp) /\ Results(a) /\ Exchange(s.up, a)
  BY DEF Talk
<1>6. Among(s.up, {"QUIT_FILE", "GET_FILES"}) /\ Among(a, {"QUIT_FILE", "GET_FILES"})
  BY <1>2, <1>5, ExchangeIs DEF Due
<1>7. /\ \A y \in Answerable \ {"QUIT_FILE", "GET_FILES"} :
           ~Has(s.up, y) /\ ~Has(a, y) /\ ~Has(b, y) /\ ~Has(t.up, y)
      /\ Exchange(t.up, b)
  BY <1>2, <1>4, <1>6 DEF Among, Exchange
<1>8. ~OpenThenLoad(a) /\ ~OpenThenLoad(b)
  BY <1>2, <1>7, OpenHas DEF Answerable
<1> HIDE DEF m, b
<1>9. ~c.access /\ ~c.modal
  BY <1>2, <1>5 DEF Expected, Dialogs, Due, Quiet, Answerable, m
<1>10. /\ e.modal = c.modal /\ e.kind = c.kind /\ e.access = c.access /\ e.dialog = c.dialog
       /\ e.busy = c.busy /\ e.hash = c.hash /\ e.valid = c.valid
       /\ e.copy = c.copy /\ e.user = c.user /\ e.alias = c.alias /\ e.field = c.field
  BY DEF But, TalkFields
<1>12. Expected(e, t.up, b) /\ Dialogs(e, t.up, b) /\ Results(b)
  BY <1>2, <1>4, <1>5, <1>7, <1>9, <1>10 DEF Expected, Dialogs, Results, Due, Answerable
<1>13. ~Moving(e, t.up, b) => ~s.joined
  BY <1>2, <1>4, <1>5 DEF Windows, Moving, Due, m
<1>14. Windows(e, t, b)
  BY <1>2, <1>4, <1>5, <1>7, <1>8, <1>9, <1>10, <1>13 DEF Windows, Sends, Answerable, m
<1>15. Texts(e, t, b, d.docs)
  BY <1>3, <1>4, <1>5, <1>8, <1>10, <1>13 DEF Texts, Shows, Sends
<1>16. Profiles(e, t, b, d, sp)
  BY <1>2, <1>4, <1>5, <1>7, <1>9, <1>10 DEF Profiles, Sends, Answerable, m
<1>17. Talk(e, t, b, d, sp)
  BY <1>7, <1>12, <1>14, <1>15, <1>16 DEF Talk
<1> QED BY <1>17 DEF b

\* The text.
LEMMA TalkLoaded ==
  ASSUME NEW c, NEW e, NEW s, NEW a, NEW d, NEW sp, IsSeq(s.up), IsSeq(a), a # <<>>,
         Talk(c, s, a, d, sp), c.valid \in BOOLEAN, Head(a).type = "LOAD_FILE",
         But(c, e, {"valid", "copy", "busy"}), e.valid = TRUE, e.copy = Head(a).body
  PROVE  Talk(e, s, Tail(a), d, sp)
<1> DEFINE m == Head(a)
           b == Tail(a)
<1>2. /\ \A y : Has(a, y) <=> m.type = y \/ Has(b, y)
      /\ ToSet(a) = {m} \cup ToSet(b) /\ IsSeq(b)
  BY HasTail, AtTail
<1>3. Right(b, TRUE, Shows(c, d.docs)) /\ m.body = Shows(c, d.docs)
  BY RightTail DEF Talk, Texts
<1>5. /\ Expected(c, s.up, a) /\ Dialogs(c, s.up, a) /\ Windows(c, s, a)
      /\ Texts(c, s, a, d.docs) /\ Profiles(c, s, a, d, sp) /\ Results(a) /\ Exchange(s.up, a)
  BY DEF Talk
<1>6. Among(s.up, {"LOAD_FILE"}) /\ Among(a, {"LOAD_FILE"})
  <2>1. ~OpenThenLoad(a)
    BY OpenTail DEF Opens, Answerable
  <2> QED BY <1>2, <1>5, <2>1, ExchangeIs DEF Due
<1>7. /\ \A y \in Answerable \ {"LOAD_FILE"} : ~Has(s.up, y) /\ ~Has(a, y) /\ ~Has(b, y)
      /\ Exchange(s.up, b)
  BY <1>2, <1>6 DEF Among, Exchange
<1>8. ~OpenThenLoad(a) /\ ~OpenThenLoad(b)
  BY <1>2, <1>7, OpenHas DEF Answerable
<1> HIDE DEF m, b
<1>9. ~c.access /\ c.editor = "shown" /\ ~c.modal
  BY <1>2, <1>5 DEF Expected, Dialogs, Due, Quiet, Answerable, m
<1>10. /\ e.modal = c.modal /\ e.kind = c.kind /\ e.access = c.access /\ e.state = c.state
       /\ e.editor = c.editor /\ e.dialog = c.dialog /\ e.hash = c.hash
       /\ e.user = c.user /\ e.alias = c.alias /\ e.field = c.field
  BY DEF But, TalkFields
<1>11. ~Moving(c, s.up, a) /\ ~Moving(e, s.up, b)
  BY <1>7, <1>9, <1>10 DEF Moving, Broken, Due, Answerable
<1>12. Expected(e, s.up, b) /\ Dialogs(e, s.up, b) /\ Results(b)
  BY <1>2, <1>5, <1>7, <1>9, <1>10 DEF Expected, Dialogs, Results, Due, Answerable
<1>13. Windows(e, s, b)
  BY <1>2, <1>5, <1>7, <1>8, <1>9, <1>10, <1>11 DEF Windows, Answerable
<1>14. Texts(e, s, b, d.docs)
  BY <1>3, <1>5, <1>10, <1>11 DEF Texts, Shows, m
<1>15. Profiles(e, s, b, d, sp)
  BY <1>2, <1>5, <1>7, <1>10 DEF Profiles, Answerable
<1>16. Talk(e, s, b, d, sp)
  BY <1>7, <1>12, <1>13, <1>14, <1>15 DEF Talk
<1> QED BY <1>16 DEF b

\* What others write.
LEMMA TalkHeard ==
  ASSUME NEW c, NEW s, NEW a, NEW d, NEW sp, IsSeq(s.up), IsSeq(a), a # <<>>,
         Talk(c, s, a, d, sp), c.valid \in BOOLEAN, Head(a).type \in {"CRDT", "CHAT"}
  PROVE  Talk(c, s, Tail(a), d, sp)
<1> DEFINE m == Head(a)
           b == Tail(a)
<1>2. /\ \A y : Has(a, y) <=> m.type = y \/ Has(b, y)
      /\ ToSet(a) = {m} \cup ToSet(b) /\ IsSeq(b)
  BY HasTail, AtTail
<1>3. Right(b, c.valid, Shows(c, d.docs))
  BY RightTail DEF Talk, Texts
<1>5. /\ Expected(c, s.up, a) /\ Dialogs(c, s.up, a) /\ Windows(c, s, a)
      /\ Texts(c, s, a, d.docs) /\ Profiles(c, s, a, d, sp) /\ Results(a) /\ Exchange(s.up, a)
  BY DEF Talk
<1>6. Exchange(s.up, b)
  BY <1>5, ExchangeAside DEF Answerable
<1>7. \A y \in Answerable : Has(b, y) <=> Has(a, y)
  BY <1>2 DEF Answerable
<1>8. OpenThenLoad(b) => OpenThenLoad(a)
  <2>1. "OPEN_FILE" \in Single /\ {"OPEN_FILE", "LOAD_FILE"} \subseteq Answerable
    BY DEF Single, Answerable
  <2>2. OpenThenLoad(b) => Has(a, "OPEN_FILE") /\ Has(a, "LOAD_FILE")
    BY <1>2, <1>7, <2>1, OpenHas
  <2>3. Has(a, "OPEN_FILE") => Only(a, "OPEN_FILE") \/ OpenThenLoad(a)
    BY <1>5, <2>1, ExchangeIs
  <2> QED BY <2>1, <2>2, <2>3, LoneHas DEF Only
<1> HIDE DEF m, b
<1>9. \A y \in Answerable : Due(s.up, b, y) <=> Due(s.up, a, y)
  BY <1>7 DEF Due
<1>10. Expected(c, s.up, b) /\ Dialogs(c, s.up, b) /\ Results(b)
  BY <1>2, <1>5, <1>7, <1>9 DEF Expected, Dialogs, Results, Quiet, Answerable
<1>11. Windows(c, s, b)
  BY <1>2, <1>5, <1>7, <1>8, <1>9 DEF Windows, Moving, Answerable
<1>12. Texts(c, s, b, d.docs)
  BY <1>3, <1>5, <1>8, <1>9 DEF Texts, Moving, Answerable
<1>13. Profiles(c, s, b, d, sp)
  BY <1>2, <1>5, <1>7 DEF Profiles, Answerable
<1>14. Talk(c, s, b, d, sp)
  BY <1>5, <1>6, <1>10, <1>11, <1>12, <1>13 DEF Talk
<1> QED BY <1>14 DEF b

-----------------------------------------------------------------------------
(* A step of the client.                                                   *)

\* What is known of the state from its types.
LEMMA Known ==
  ASSUME CInv
  PROVE  /\ IsSeq(session.up) /\ IsSeq(ghost.up) /\ IsSeq(answers)
         /\ DOMAIN client = ClientFields /\ client.sent = <<>>
         /\ client.modal \in BOOLEAN /\ client.valid \in BOOLEAN /\ client.dialog \in BOOLEAN
         /\ client.access \in BOOLEAN
         /\ client.socket \in {"opening", "open", "lost", "closed"}
         /\ DOMAIN session = {"user", "file", "joined", "up"}
         /\ DOMAIN ghost = {"user", "file", "joined", "up"}
         /\ session.user \in Users /\ (session.joined => session.file \in db.docs)
         /\ db.docs \subseteq Docs /\ Nothing \notin db.docs /\ hasty \in BOOLEAN
         /\ \A r \in ToSet(session.up) : r.type = "OPEN_FILE" => r.hash \in db.docs \cup Names
         /\ \A r \in ToSet(session.up) : r.type \in Answerable \cup {"CRDT", "CHAT", "SAVE_FILE"}
         /\ \A m \in ToSet(answers) : /\ m.type \in Answerable \cup {"CRDT", "CHAT"}
                                      /\ m.result \in {"SUCCESS", "BAD", "ERROR"}
<1>1. IsSeq(session.up) /\ IsSeq(ghost.up) /\ IsSeq(answers)
  BY DEF CInv, IsSession, AreRequests, AreAnswers, IsSeq
<1>2. /\ DOMAIN client = ClientFields /\ client.sent = <<>>
      /\ client.modal \in BOOLEAN /\ client.valid \in BOOLEAN /\ client.dialog \in BOOLEAN
      /\ client.access \in BOOLEAN
      /\ client.socket \in {"opening", "open", "lost", "closed"}
  BY DEF CInv, IsClient, Typed
<1>3. /\ DOMAIN session = {"user", "file", "joined", "up"}
      /\ DOMAIN ghost = {"user", "file", "joined", "up"}
      /\ session.user \in Users /\ (session.joined => session.file \in db.docs)
  BY DEF CInv, IsSession
<1>4. db.docs \subseteq Docs /\ Nothing \notin db.docs /\ hasty \in BOOLEAN
  BY NamesAssumption DEF CInv, AreTables, Counters
<1>5. /\ \A r \in ToSet(session.up) : r.type = "OPEN_FILE" => r.hash \in db.docs \cup Names
      /\ \A r \in ToSet(session.up) : r.type \in Answerable \cup {"CRDT", "CHAT", "SAVE_FILE"}
  BY DEF CInv, IsSession, AreRequests, IsRequest
<1>6. \A m \in ToSet(answers) : /\ m.type \in Answerable \cup {"CRDT", "CHAT"}
                                /\ m.result \in {"SUCCESS", "BAD", "ERROR"}
  BY DEF CInv, AreAnswers, IsAnswer
<1> QED BY <1>1, <1>2, <1>3, <1>4, <1>5, <1>6

\* Who does not act rashly acts while nothing is due.
LEMMA CalmAtRest ==
  ASSUME CInv, ~Awaiting
  PROVE  Rest(session.up, answers)
<1> DEFINE u == session.up
           a == answers
<1>1. IsSeq(u) /\ IsSeq(a)
  BY Known
<1>2. ToSet(u) \cup ToSet(a) \subseteq ToSet(u \o a)
  <2> HIDE DEF u, a
  <2>1. u \in Seq(ToSet(u) \cup ToSet(a)) /\ a \in Seq(ToSet(u) \cup ToSet(a))
    BY <1>1 DEF IsSeq
  <2>2. u \o a \in Seq(ToSet(u) \cup ToSet(a)) /\ Len(u \o a) = Len(u) + Len(a)
        /\ Len(u) \in Nat /\ Len(a) \in Nat
    BY <2>1
  <2>3. /\ \A i \in 1..Len(u) : i \in 1..Len(u \o a) /\ (u \o a)[i] = u[i]
        /\ \A i \in 1..Len(a) : Len(u) + i \in 1..Len(u \o a) /\ (u \o a)[Len(u) + i] = a[i]
    BY <2>1, <2>2
  <2>4. IsSeq(u \o a)
    BY <2>2, InSeq DEF IsSeq
  <2>5. ToSet(u \o a) = {(u \o a)[i] : i \in 1..Len(u \o a)}
    BY <2>4, InIndex
  <2>6. ToSet(u) = {u[i] : i \in 1..Len(u)} /\ ToSet(a) = {a[i] : i \in 1..Len(a)}
    BY <1>1, InIndex
  <2> QED BY <2>3, <2>5, <2>6
<1>3. \A m \in ToSet(u \o a) : m.type \notin Answerable
  BY DEF Awaiting
<1> HIDE DEF u, a
<1>4. Rest(u, a)
  BY <1>2, <1>3 DEF Rest, Quiet, Has
<1> QED BY <1>4 DEF u, a

\* The same session: tlapm does not know that a record with the fields of
\* another one equals it.
Same(s, t) == t.up = s.up /\ t.user = s.user /\ t.file = s.file /\ t.joined = s.joined
LEMMA SameTalk ==
  ASSUME NEW c, NEW s, NEW t, NEW a, NEW d, NEW sp, Talk(c, s, a, d, sp), Same(s, t)
  PROVE  Talk(c, t, a, d, sp)
BY DEF Talk, Same, Windows, Texts, Profiles

LEMMA OneSent ==
  ASSUME NEW r
  PROVE  /\ Append(<<>>, r) = <<r>> /\ IsSeq(<<r>>) /\ <<r>> \o <<r>> = Append(<<r>>, r)
         /\ <<r>> # <<>>
<1>1. Append(<<>>, r) = <<r>> /\ <<r>> # <<>>
  OBVIOUS
<1>2. IsSeq(<<r>>)
  BY InOne DEF IsSeq
<1> QED BY <1>1, <1>2, AddedOne

\* What a handler's requests become.
LEMMA BecomeOpen ==
  ASSUME CInv, NEW c, NEW rest, Become(c, rest), client.socket = "open", c.socket = "open"
  PROVE  /\ client' = [c EXCEPT !.sent = <<>>] /\ answers' = rest /\ ghost' = ghost
         /\ c.sent = <<>> => Same(session, session')
         /\ \A r : c.sent = <<r>> => Sends(session, session', r)
         /\ \A r : c.sent = Append(<<r>>, r) =>
              /\ session'.user = session.user /\ session'.file = session.file
              /\ session'.joined = session.joined
              /\ session'.up = Append(Append(session.up, r), r)
<1>1. /\ client' = [c EXCEPT !.sent = <<>>] /\ answers' = rest /\ ghost' = ghost
      /\ session' = [session EXCEPT !.up = @ \o c.sent]
  BY DEF Become, Online
<1>2. IsSeq(session.up) /\ DOMAIN session = {"user", "file", "joined", "up"}
  BY Known
<1>a. /\ session'.user = session.user /\ session'.file = session.file
      /\ session'.joined = session.joined /\ session'.up = session.up \o c.sent
  BY <1>1, <1>2
<1>3. c.sent = <<>> => session'.up = session.up
  BY <1>2, <1>a DEF IsSeq
<1>4. ASSUME NEW r, c.sent = <<r>> PROVE Sends(session, session', r)
  BY <1>2, <1>4, <1>a, AddedOne DEF Sends
<1>5. ASSUME NEW r, c.sent = Append(<<r>>, r)
      PROVE  session'.up = Append(Append(session.up, r), r)
  <2>1. c.sent = <<r>> \o <<r>>
    BY <1>5, OneSent
  <2> QED BY <1>2, <1>a, <2>1, AddedTwo
<1> QED BY <1>1, <1>a, <1>3, <1>4, <1>5 DEF Same

LEMMA BecomeAway ==
  ASSUME NEW c, NEW rest, Become(c, rest), client.socket # "open", c.socket = client.socket,
         DOMAIN session = {"user", "file", "joined", "up"}
  PROVE  /\ client' = [c EXCEPT !.sent = <<>>] /\ answers' = rest /\ ghost' = ghost
         /\ Same(session, session')
<1>1. /\ client' = [c EXCEPT !.sent = <<>>] /\ answers' = rest /\ ghost' = ghost
      /\ session' = [session EXCEPT !.up = session.up]
  BY DEF Become, Online
<1> QED BY <1>1 DEF Same

\* A client of which only the requests are taken.
LEMMA SentAway ==
  ASSUME NEW c, DOMAIN c = ClientFields, NEW e, e = [c EXCEPT !.sent = <<>>]
  PROVE  But(c, e, {}) /\ e.socket = c.socket /\ e.hash = c.hash
BY DEF But, TalkFields, ClientFields

\* A connection that is not there any more leaves a session that is safe.
Given(c) == c.socket \in {"opening", "closed"} /\
            (c.socket = "opening" => c.access /\ ~c.dialog /\ c.editor # "shown" /\ ~c.modal)
LEMMA ConnGiven ==
  ASSUME CInv, NEW c, Conn(client, session, ghost, answers, db.docs), DOMAIN c = ClientFields,
         Become(c, answers), Given(c), c.hash = client.hash, UNCHANGED db
  PROVE  Conn(client', session', ghost', answers', db'.docs) /\ client'.socket # "open"
<1>1. /\ But(c, client', {}) /\ client'.socket = c.socket /\ client'.hash = c.hash
  BY SentAway DEF Become
<1>2. /\ client'.access = c.access /\ client'.dialog = c.dialog /\ client'.editor = c.editor
      /\ client'.modal = c.modal
  BY <1>1 DEF But, TalkFields
<1>3. Safe(NoSession.up, NoSession.file)
  BY SafeNothing DEF NoSession
<1>4. CASE Online(client)
  <2>1. GiveUp
    BY <1>4 DEF Become, Online, Given
  <2>2. PICK k \in 0..Len(session.up) : ghost' = [session EXCEPT !.up = SubSeq(@, 1, k)]
    BY <2>1 DEF GiveUp
  <2>3. Safe(ghost'.up, ghost'.file)
    <3>1. ghost'.up = SubSeq(session.up, 1, k) /\ ghost'.file = session.file
      BY <2>2, Known
    <3> QED BY <3>1, Known, SafePrefix DEF Conn
  <2>4. session' = NoSession /\ answers' = <<>>
    BY <2>1 DEF GiveUp
  <2> QED BY <1>1, <1>2, <1>3, <2>3, <2>4 DEF Conn, Given, NoSession
<1>5. CASE ~Online(client)
  <2>1. session.up = <<>> /\ answers = <<>> /\ client.socket \in {"opening", "closed"}
    BY <1>5, Known DEF Conn, Online
  <2>2. session'.up = session.up /\ answers' = answers /\ ghost' = ghost
    <3>1. session' = [session EXCEPT !.up = session.up] /\ answers' = answers /\ ghost' = ghost
      BY <1>5 DEF Become, Given
    <3> QED BY <3>1, Known
  <2> QED BY <1>1, <1>2, <2>1, <2>2, SafeNothing DEF Conn, Given
<1> QED BY <1>4, <1>5

\* What a handler may do while nothing is due: nothing, or send one request.
Deed(c) ==
  /\ DOMAIN c = ClientFields /\ c.socket = client.socket
  /\ c.hash = client.hash \/ c.hash \in db.docs \cup Names
  /\ c.socket = "opening" => c.access /\ ~c.dialog /\ c.editor # "shown" /\ ~c.modal
  /\ client.socket = "open" =>
       \/ c.sent = <<>> /\ Talk(c, session, answers, db, spoilt)
       \/ \E r : /\ c.sent = <<r>>
                 /\ r.type \in NeedsFile => session.file # Nothing /\ Quiet(session.up)
                 /\ \A t : Sends(session, t, r) => Talk(c, t, answers, db, spoilt)
LEMMA DeedKeeps ==
  ASSUME CInv, TalkInv, ~hasty, NEW c, Deed(c), Become(c, answers), UNCHANGED <<db, crashed, spoilt>>
  PROVE  TalkInv'
<1>1. ~crashed /\ Conn(client, session, ghost, answers, db.docs)
  BY DEF TalkInv
<1>2. But(c, client', {}) /\ client'.socket = c.socket /\ client'.hash = c.hash
  BY SentAway DEF Become, Deed
<1>3. /\ client'.access = c.access /\ client'.dialog = c.dialog /\ client'.editor = c.editor
      /\ client'.modal = c.modal
  BY <1>2 DEF But, TalkFields
<1>4. /\ client'.hash \in db.docs \/ client'.hash \in Names \/ client'.hash = Nothing
      /\ client'.socket = "opening" =>
           client'.access /\ ~client'.dialog /\ client'.editor # "shown" /\ ~client'.modal
  BY <1>1, <1>2, <1>3 DEF Deed, Conn
<1>5. CASE client.socket # "open"
  <2>1. answers' = answers /\ ghost' = ghost /\ Same(session, session')
    BY <1>5, Known, BecomeAway DEF Deed
  <2>2. Conn(client', session', ghost', answers', db'.docs) /\ client'.socket # "open"
    BY <1>1, <1>2, <1>4, <1>5, <2>1 DEF Conn, Deed, Same
  <2> QED BY <1>1, <2>2 DEF TalkInv
<1>6. CASE client.socket = "open"
  <2>1. c.socket = "open"
    BY <1>6 DEF Deed
  <2>2. answers' = answers /\ ghost' = ghost
    BY <1>6, <2>1, BecomeOpen
  <2>3. CASE c.sent = <<>> /\ Talk(c, session, answers, db, spoilt)
    <3>1. Same(session, session')
      BY <1>6, <2>1, <2>3, BecomeOpen
    <3>2. Talk(client', session', answers, db, spoilt)
      BY <1>2, <2>3, <3>1, UnseenChange, SameTalk
    <3>3. Conn(client', session', ghost', answers', db'.docs)
      BY <1>1, <1>2, <1>4, <2>1, <2>2, <3>1 DEF Conn, Same
    <3> QED BY <1>1, <2>2, <3>1, <3>2, <3>3 DEF TalkInv
  <2>4. CASE \E r : /\ c.sent = <<r>>
                    /\ r.type \in NeedsFile => session.file # Nothing /\ Quiet(session.up)
                    /\ \A t : Sends(session, t, r) => Talk(c, t, answers, db, spoilt)
    <3>1. PICK r : /\ c.sent = <<r>>
                   /\ r.type \in NeedsFile => session.file # Nothing /\ Quiet(session.up)
                   /\ \A t : Sends(session, t, r) => Talk(c, t, answers, db, spoilt)
      BY <2>4
    <3>2. Sends(session, session', r)
      BY <1>6, <2>1, <3>1, BecomeOpen
    <3>3. Talk(c, session', answers, db, spoilt)
      BY <3>1, <3>2
    <3>4. Talk(client', session', answers, db, spoilt)
      BY <1>2, <3>3, UnseenChange
    <3>5. Safe(session'.up, session'.file)
      <4>1. r.type \in NeedsFile => session.file # Nothing /\ \A y \in Ends : ~Has(session.up, y)
        BY <3>1 DEF Quiet, Ends, Answerable
      <4>2. Safe(Append(session.up, r), session.file)
        BY <1>1, <4>1, Known, SafeMore DEF Conn
      <4> QED BY <3>2, <4>2 DEF Sends
    <3>6. Conn(client', session', ghost', answers', db'.docs)
      BY <1>1, <1>2, <1>4, <2>1, <2>2, <3>5 DEF Conn
    <3> QED BY <1>1, <2>2, <3>4, <3>6 DEF TalkInv
  <2> QED BY <1>6, <2>3, <2>4 DEF Deed
<1> QED BY <1>5, <1>6

\* The two ways to send, by what the invariant is about.
LEMMA AskDoes ==
  ASSUME NEW c, DOMAIN c = ClientFields, NEW r, NEW state
  PROVE  /\ DOMAIN Ask(c, r, state) = ClientFields
         /\ Ask(c, r, state).socket = c.socket /\ Ask(c, r, state).hash = c.hash
         /\ But(c, Ask(c, r, state), {"state"})
         /\ c.socket = "open" => /\ Ask(c, r, state).sent = Append(c.sent, r)
                                 /\ Ask(c, r, state).state = state
BY DEF Ask, Online, But, TalkFields, ClientFields

LEMMA TellDoes ==
  ASSUME NEW c, DOMAIN c = ClientFields, NEW r, NEW kind
  PROVE  /\ DOMAIN Tell(c, r, kind) = ClientFields
         /\ Tell(c, r, kind).socket = c.socket /\ Tell(c, r, kind).hash = c.hash
         /\ But(c, Tell(c, r, kind), {"modal", "kind"})
         /\ c.socket = "open" => /\ Tell(c, r, kind).sent = Append(c.sent, r)
                                 /\ But(c, Tell(c, r, kind), {})
BY DEF Tell, Show, Online, But, TalkFields, ClientFields

\* What the invariant says of a user who may act.
LEMMA Calm ==
  ASSUME CInv, TalkInv, ~hasty, ~Awaiting
  PROVE  /\ Rest(session.up, answers) /\ IsSeq(session.up) /\ IsSeq(answers)
         /\ client.socket = "open" => Talk(client, session, answers, db, spoilt)
         /\ client.socket = "opening" =>
              client.access /\ ~client.dialog /\ client.editor # "shown" /\ ~client.modal
BY CalmAtRest, Known DEF TalkInv, Conn

\* The forms.
LEMMA LoginDeed ==
  ASSUME CInv, TalkInv, ~hasty, ~Awaiting, ~client.modal, client.access, NEW r, NEW state,
         \/ r.type = "LOGIN" /\ state = "CONNECTED_NOT_LOGGED"
         \/ r.type = "SIGNUP" /\ state = "CONNECTED_NOT_SIGNED"
  PROVE  Deed(Ask([client EXCEPT !.loader = TRUE], r, state))
<1> DEFINE c == [client EXCEPT !.loader = TRUE]
           e == Ask(c, r, state)
<1>1. DOMAIN c = ClientFields /\ But(client, c, {}) /\ c.socket = client.socket
      /\ c.hash = client.hash /\ c.sent = <<>>
  BY Known DEF But, TalkFields, ClientFields
<1> HIDE DEF c
<1>2. /\ DOMAIN e = ClientFields /\ e.socket = c.socket /\ e.hash = c.hash /\ But(c, e, {"state"})
      /\ c.socket = "open" => e.sent = Append(c.sent, r) /\ e.state = state
  BY <1>1, AskDoes
<1> HIDE DEF e
<1>3. But(client, e, {"state"})
  BY <1>1, <1>2 DEF But
<1>4. e.socket = "opening" => e.access /\ ~e.dialog /\ e.editor # "shown" /\ ~e.modal
  BY <1>1, <1>2, <1>3, Calm DEF But, TalkFields
<1>5. ASSUME client.socket = "open"
      PROVE  /\ e.sent = <<r>> /\ r.type \notin NeedsFile
             /\ \A t : Sends(session, t, r) => Talk(e, t, answers, db, spoilt)
  <2>1. e.sent = <<r>> /\ e.state = state
    BY <1>1, <1>2, <1>5, OneSent
  <2>2. r.type \notin NeedsFile
    BY DEF NeedsFile
  <2>3. ASSUME NEW t, Sends(session, t, r) PROVE Talk(e, t, answers, db, spoilt)
    BY <1>3, <1>5, <2>1, <2>3, Calm, TalkLogin
  <2> QED BY <2>1, <2>2, <2>3
<1>6. Deed(e)
  BY <1>1, <1>2, <1>4, <1>5 DEF Deed
<1> QED BY <1>6 DEF e, c

\* A document is opened.
LEMMA OpenDeed ==
  ASSUME CInv, TalkInv, ~hasty, ~Awaiting, ~client.modal, client.dialog, NEW choice,
         NEW t, t.hash \in db.docs \cup Names
  PROVE  Deed(SendOpenFile([client EXCEPT !.choice.link = choice], t))
<1> DEFINE b == [client EXCEPT !.choice.link = choice]
           c == OpenWindows(b, t)
           r == [type |-> "OPEN_FILE", hash |-> t.hash, name |-> t.name]
           e == Ask(c, r, "CONNECTED_NOT_OPENFILE")
           fields == {"state", "hash", "valid", "dialog", "busy", "editor", "copy"}
<1>1. DOMAIN b = ClientFields /\ But(client, b, {}) /\ b.socket = client.socket
      /\ b.hash = client.hash /\ b.sent = <<>>
  BY Known DEF But, TalkFields, ClientFields
<1> HIDE DEF b
<1>2. /\ DOMAIN c = ClientFields /\ c.socket = b.socket /\ c.sent = b.sent /\ c.state = b.state
      /\ But(b, c, fields) /\ c.hash = t.hash /\ c.valid = FALSE /\ c.dialog = FALSE
      /\ c.busy = TRUE /\ c.editor = "shown"
  BY <1>1 DEF OpenWindows, InitEditor, But, TalkFields, ClientFields
<1> HIDE DEF c
<1>3. r.type = "OPEN_FILE" /\ r.hash = t.hash
  OBVIOUS
<1> HIDE DEF r
<1>4. /\ DOMAIN e = ClientFields /\ e.socket = c.socket /\ e.hash = c.hash /\ But(c, e, {"state"})
      /\ c.socket = "open" => e.sent = Append(c.sent, r) /\ e.state = "CONNECTED_NOT_OPENFILE"
  BY <1>2, AskDoes
<1> HIDE DEF e
<1>5. /\ But(client, e, fields) /\ e.valid = FALSE /\ e.dialog = FALSE
      /\ e.busy = TRUE /\ e.editor = "shown"
  BY <1>1, <1>2, <1>4 DEF But, TalkFields
<1> HIDE DEF fields
<1>6. client.socket # "opening"
  BY Calm
<1>7. ASSUME client.socket = "open"
      PROVE  /\ e.sent = <<r>> /\ r.type \notin NeedsFile
             /\ \A u : Sends(session, u, r) => Talk(e, u, answers, db, spoilt)
  <2>1. e.sent = <<r>> /\ e.state = "CONNECTED_NOT_OPENFILE"
    BY <1>1, <1>2, <1>4, <1>7, OneSent
  <2>2. r.type \notin NeedsFile
    BY <1>3 DEF NeedsFile
  <2>3. ASSUME NEW u, Sends(session, u, r) PROVE Talk(e, u, answers, db, spoilt)
    BY <1>2, <1>3, <1>4, <1>5, <1>7, <2>1, <2>3, Calm, TalkOpen DEF fields
  <2> QED BY <2>1, <2>2, <2>3
<1>8. Deed(e)
  BY <1>1, <1>2, <1>4, <1>6, <1>7 DEF Deed
<1>9. CASE c.state = "CONNECTED_AND_OPENED"
  <2> DEFINE x == [[c EXCEPT !.chat = FALSE] EXCEPT !.editor = "hidden"]
             y == Tell(x, Request("QUIT_FILE"), "GENERIC_ERROR")
             z == Ask(y, r, "CONNECTED_NOT_OPENFILE")
  <2>1. client.socket # "open"
    BY <1>1, <1>2, <1>9, Calm, AtRest DEF Talk, Dialogs, Answerable, But, TalkFields
  <2>2. DOMAIN x = ClientFields /\ x.socket = c.socket /\ x.hash = c.hash
    BY <1>2 DEF ClientFields
  <2> HIDE DEF x
  <2>3. DOMAIN y = ClientFields /\ y.socket = x.socket /\ y.hash = x.hash
    BY <2>2, TellDoes
  <2> HIDE DEF y
  <2>4. DOMAIN z = ClientFields /\ z.socket = y.socket /\ z.hash = y.hash
    BY <2>3, AskDoes
  <2> HIDE DEF z
  <2>5. Deed(z)
    BY <1>1, <1>2, <1>6, <2>1, <2>2, <2>3, <2>4 DEF Deed
  <2>6. SendOpenFile(b, t) = z
    BY <1>9 DEF SendOpenFile, AskFor, CloseEditor, SendQuit, c, r, x, y, z
  <2> QED BY <2>5, <2>6 DEF b
<1>10. CASE c.state # "CONNECTED_AND_OPENED"
  BY <1>8, <1>10 DEF SendOpenFile, AskFor, e, c, b, r
<1> QED BY <1>9, <1>10

\* One request is sent, of a client b that has got ready for it.
Ready(b) ==
  /\ DOMAIN b = ClientFields /\ b.socket = client.socket /\ b.hash = client.hash
  /\ b.sent = <<>> /\ client.socket # "opening"
Sound(r) == r.type \in NeedsFile => session.file # Nothing /\ Quiet(session.up)
LEMMA AskDeed ==
  ASSUME NEW b, Ready(b), NEW r, NEW state, client.socket = "open" => Sound(r),
         \A e, t : /\ client.socket = "open" /\ But(b, e, {"state"}) /\ e.state = state
                   /\ Sends(session, t, r)
                   => Talk(e, t, answers, db, spoilt)
  PROVE  Deed(Ask(b, r, state))
<1> DEFINE e == Ask(b, r, state)
<1>1. /\ DOMAIN e = ClientFields /\ e.socket = b.socket /\ e.hash = b.hash /\ But(b, e, {"state"})
      /\ b.socket = "open" => e.sent = Append(b.sent, r) /\ e.state = state
  BY AskDoes DEF Ready
<1> HIDE DEF e
<1>2. client.socket = "open" => e.sent = <<r>>
  BY <1>1, OneSent DEF Ready
<1>3. Deed(e)
  BY <1>1, <1>2 DEF Deed, Ready, Sound
<1> QED BY <1>3 DEF e

LEMMA TellDeed ==
  ASSUME NEW b, Ready(b), NEW r, NEW kind, client.socket = "open" => Sound(r),
         \A e, t : client.socket = "open" /\ But(b, e, {}) /\ Sends(session, t, r)
                   => Talk(e, t, answers, db, spoilt)
  PROVE  Deed(Tell(b, r, kind))
<1> DEFINE e == Tell(b, r, kind)
<1>1. /\ DOMAIN e = ClientFields /\ e.socket = b.socket /\ e.hash = b.hash
      /\ b.socket = "open" => e.sent = Append(b.sent, r) /\ But(b, e, {})
  BY TellDoes DEF Ready
<1> HIDE DEF e
<1>2. client.socket = "open" => e.sent = <<r>>
  BY <1>1, OneSent DEF Ready
<1>3. Deed(e)
  BY <1>1, <1>2 DEF Deed, Ready, Sound
<1> QED BY <1>3 DEF e

\* The dialog.
LEMMA DialogDeed ==
  ASSUME CInv, TalkInv, ~hasty, ~Awaiting, ~client.modal, client.dialog
  PROVE  /\ \A choice, hash : Deed(SendDelete([client EXCEPT !.choice = choice], hash))
         /\ \A alias : Deed(SendUpdateUser(client, alias))
         /\ Deed(SendLogout(client))
         /\ Deed(CloseDialog(client))
<1>0. client.socket # "opening" /\ client.sent = <<>> /\ DOMAIN client = ClientFields
  BY Calm, Known
<1>1. ASSUME NEW choice, NEW hash
      PROVE  Deed(SendDelete([client EXCEPT !.choice = choice], hash))
  <2> DEFINE b == [client EXCEPT !.choice = choice]
             r == [type |-> "DELETE_FILE", hash |-> hash]
  <2>1. Ready(b) /\ But(client, b, {})
    BY <1>0 DEF Ready, But, TalkFields, ClientFields
  <2> HIDE DEF b
  <2>2. r.type = "DELETE_FILE"
    OBVIOUS
  <2> HIDE DEF r
  <2>3. ASSUME NEW e, NEW t, client.socket = "open", But(b, e, {}), Sends(session, t, r)
        PROVE  Talk(e, t, answers, db, spoilt)
    <3>1. But(client, e, {"field"})
      BY <2>1, <2>3 DEF But
    <3> QED BY <2>2, <2>3, <3>1, Calm, TalkDialog
  <2>4. Deed(Tell(b, r, "FILE_ERROR"))
    BY <2>1, <2>2, <2>3, TellDeed DEF Sound, NeedsFile
  <2> QED BY <2>4 DEF SendDelete, b, r
<1>2. ASSUME NEW alias PROVE Deed(SendUpdateUser(client, alias))
  <2> DEFINE b == [client EXCEPT !.field = alias]
             r == [type |-> "UPDATE_USER", alias |-> alias]
  <2>1. Ready(b) /\ But(client, b, {"field"}) /\ b.field = alias
    BY <1>0 DEF Ready, But, TalkFields, ClientFields
  <2> HIDE DEF b
  <2>2. r.type = "UPDATE_USER" /\ r.alias = alias
    OBVIOUS
  <2> HIDE DEF r
  <2>3. ASSUME NEW e, NEW t, client.socket = "open", But(b, e, {}), Sends(session, t, r)
        PROVE  Talk(e, t, answers, db, spoilt)
    <3>1. But(client, e, {"field"}) /\ e.field = alias
      BY <2>1, <2>3 DEF But, TalkFields
    <3> QED BY <2>2, <2>3, <3>1, Calm, TalkDialog
  <2>4. Deed(Tell(b, r, "GENERIC_ERROR"))
    BY <2>1, <2>2, <2>3, TellDeed DEF Sound, NeedsFile
  <2> QED BY <2>4 DEF SendUpdateUser, b, r
<1> DEFINE r == Request("LOGOUT")
<1>3. r.type = "LOGOUT"
  BY DEF Request
<1> HIDE DEF r
<1>4. Deed(SendLogout(client))
  <2>1. Ready(client)
    BY <1>0 DEF Ready
  <2>2. ASSUME NEW e, NEW t, client.socket = "open", But(client, e, {"state"}),
               Sends(session, t, r)
        PROVE  Talk(e, t, answers, db, spoilt)
    BY <1>3, <2>2, Calm, TalkLogout
  <2> QED BY <1>3, <2>1, <2>2, AskDeed DEF SendLogout, Sound, NeedsFile, r
<1>5. Deed(CloseDialog(client))
  <2> DEFINE closed == [client EXCEPT !.dialog = FALSE, !.choice = NoChoice, !.field = Nothing]
             b == [closed EXCEPT !.access = TRUE, !.loader = TRUE]
  <2>1. /\ Ready(closed) /\ But(client, closed, {"dialog", "field"}) /\ closed.dialog = FALSE
    BY <1>0 DEF Ready, But, TalkFields, ClientFields
  <2>2. CASE client.editor = "shown"
    <3>1. But(client, closed, {"dialog", "modal", "field"}) /\ closed.modal = FALSE
      BY <2>1, Known DEF But, TalkFields
    <3> HIDE DEF closed
    <3>2. client.socket = "open" => Talk(closed, session, answers, db, spoilt)
      BY <2>1, <3>1, Calm, TalkClosed DEF Broken
    <3>3. Deed(closed)
      BY <2>1, <3>2 DEF Deed, Ready
    <3> QED BY <2>2, <3>3 DEF CloseDialog, closed
  <2>3. CASE client.editor # "shown"
    <3>1. /\ Ready(b) /\ But(closed, b, {"access"}) /\ b.access = TRUE
      BY <2>1 DEF Ready, But, TalkFields, ClientFields
    <3>2. /\ But(client, b, {"dialog", "field", "access"}) /\ b.dialog = FALSE
      BY <2>1, <3>1 DEF But, TalkFields
    <3> HIDE DEF closed, b
    <3>3. ASSUME NEW e, NEW t, client.socket = "open", But(b, e, {"state"}),
                 Sends(session, t, r)
          PROVE  Talk(e, t, answers, db, spoilt)
      <4>1. /\ But(client, e, {"state", "dialog", "field", "access"}) /\ e.dialog = FALSE
            /\ e.access = TRUE
        BY <3>1, <3>2, <3>3 DEF But, TalkFields
      <4> QED BY <1>3, <2>3, <3>3, <4>1, Calm, TalkLogout
    <3>4. Deed(Ask(b, r, "CONNECTED_NOT_LOGGED"))
      BY <1>3, <3>1, <3>3, AskDeed DEF Sound, NeedsFile
    <3> QED BY <2>3, <3>4 DEF CloseDialog, SendLogout, closed, b, r
  <2> QED BY <2>2, <2>3
<1> QED BY <1>1, <1>2, <1>4, <1>5

\* The editor, and the chat window next to it.
LEMMA EditorDeed ==
  ASSUME CInv, TalkInv, ~hasty, ~Awaiting, ~client.modal, client.editor = "shown"
  PROVE  /\ Deed(SendGetFiles(client)) /\ Deed(CloseEditor(client))
         /\ Deed(SendCrdt(client)) /\ Deed(SendMessage(client)) /\ Deed(SendSave(client))
         /\ Deed(RefuseEdit(client))
<1>0. /\ client.socket # "opening" /\ client.sent = <<>> /\ DOMAIN client = ClientFields
      /\ Ready(client)
  BY Calm, Known DEF Ready
<1>1. Deed(SendGetFiles(client))
  <2> DEFINE r == Request("GET_FILES")
  <2>1. r.type = "GET_FILES"
    BY DEF Request
  <2> HIDE DEF r
  <2>2. ASSUME NEW e, NEW t, client.socket = "open", But(client, e, {"state"}),
               e.state = "CONNECTED_AND_LOGGED", Sends(session, t, r)
        PROVE  Talk(e, t, answers, db, spoilt)
    BY <2>1, <2>2, Calm, TalkMenu
  <2> QED BY <1>0, <2>1, <2>2, AskDeed DEF SendGetFiles, Sound, NeedsFile, r
<1>2. Deed(CloseEditor(client))
  <2> DEFINE r == Request("QUIT_FILE")
             b == [client EXCEPT !.editor = "hidden"]
  <2>1. r.type = "QUIT_FILE"
    BY DEF Request
  <2>2. Ready(b) /\ But(client, b, {"editor"}) /\ b.editor = "hidden"
    BY <1>0 DEF Ready, But, TalkFields, ClientFields
  <2> HIDE DEF r, b
  <2>3. ASSUME NEW e, NEW t, client.socket = "open", But(b, e, {}), Sends(session, t, r)
        PROVE  Talk(e, t, answers, db, spoilt)
    <3>1. But(client, e, {"editor"}) /\ e.editor = "hidden"
      BY <2>2, <2>3 DEF But, TalkFields
    <3> QED BY <2>1, <2>3, <3>1, Calm, TalkMenu
  <2>4. Deed(Tell(b, r, "GENERIC_ERROR"))
    BY <2>1, <2>2, <2>3, TellDeed DEF Sound, NeedsFile
  <2> QED BY <2>4 DEF CloseEditor, SendQuit, r, b
<1>3. client.socket = "open" => session.file # Nothing /\ Quiet(session.up)
  <2> SUFFICES ASSUME client.socket = "open" PROVE session.file # Nothing /\ Quiet(session.up)
    OBVIOUS
  <2>1. Windows(client, session, answers) /\ ~Moving(client, session.up, answers)
    BY Calm, AtRest DEF Talk, Broken
  <2> QED BY <2>1, Calm, Known DEF Windows, Rest
<1>4. ASSUME NEW type \in {"CRDT", "CHAT", "SAVE_FILE"}, NEW e, NEW t, client.socket = "open",
             But(client, e, {}), Sends(session, t, Request(type))
      PROVE  Talk(e, t, answers, db, spoilt)
  <2>1. Talk(client, t, answers, db, spoilt)
    <3>1. Request(type).type = type
      BY DEF Request
    <3> QED BY <1>4, <3>1, Calm, TalkEdit
  <2> QED BY <1>4, <2>1, UnseenChange
<1>5. Deed(SendCrdt(client)) /\ Deed(SendMessage(client))
  BY <1>0, <1>3, <1>4, TellDeed DEF SendCrdt, SendMessage, Sound
<1>6. Deed(SendSave(client))
  <2> DEFINE r == Request("SAVE_FILE")
             e == [client EXCEPT !.sent = Append(@, r)]
  <2>1. DOMAIN e = ClientFields /\ But(client, e, {}) /\ e.socket = client.socket
        /\ e.hash = client.hash /\ e.sent = <<r>>
    BY <1>0, OneSent DEF But, TalkFields, ClientFields
  <2> HIDE DEF e
  <2>2. client.socket = "open" =>
          \A t : Sends(session, t, r) => Talk(e, t, answers, db, spoilt)
    BY <1>4, <2>1
  <2>3. Deed(e)
    BY <1>0, <1>3, <2>1, <2>2 DEF Deed
  <2>4. client.socket = "open" => SendSave(client) = e
    BY DEF SendSave, Online, e
  <2>5. client.socket # "open" => Deed(e) /\ Deed(client)
    BY <1>0, <2>3 DEF Deed
  <2>6. SendSave(client) \in {e, client}
    BY DEF SendSave, e
  <2> QED BY <2>3, <2>4, <2>5, <2>6
<1>7. Deed(RefuseEdit(client))
  <2> DEFINE e == RefuseEdit(client)
  <2>1. /\ DOMAIN e = ClientFields /\ But(client, e, {"valid", "modal", "kind"})
        /\ e.socket = client.socket /\ e.hash = client.hash /\ e.sent = <<>>
        /\ e.valid = FALSE /\ e.modal = TRUE /\ e.kind = "CRDT_ILLEGAL"
    BY <1>0 DEF But, TalkFields, ClientFields, RefuseEdit, Show
  <2> HIDE DEF e
  <2>2. client.socket = "open" => Talk(e, session, answers, db, spoilt)
    BY <2>1, Calm, TalkIllegal
  <2>3. Deed(e)
    BY <1>0, <2>1, <2>2 DEF Deed
  <2> QED BY <2>3 DEF e
<1> QED BY <1>1, <1>2, <1>5, <1>6, <1>7

\* A form or the list: what the invariant is about stays as it is.
LEMMA FormDeed ==
  ASSUME CInv, TalkInv, ~hasty
  PROVE  /\ \A form : Deed([client EXCEPT !.form = form])
         /\ \A choice : Deed([client EXCEPT !.choice = choice])
<1>1. ASSUME NEW e, DOMAIN e = ClientFields, But(client, e, {}), e.socket = client.socket,
             e.hash = client.hash, e.sent = <<>>
      PROVE  Deed(e)
  <2>1. client.socket = "open" => Talk(e, session, answers, db, spoilt)
    BY <1>1, UnseenChange DEF TalkInv
  <2>2. e.socket = "opening" => e.access /\ ~e.dialog /\ e.editor # "shown" /\ ~e.modal
    BY <1>1 DEF TalkInv, Conn, But, TalkFields
  <2> QED BY <1>1, <2>1, <2>2 DEF Deed
<1>2. ASSUME NEW form PROVE Deed([client EXCEPT !.form = form])
  <2> DEFINE e == [client EXCEPT !.form = form]
  <2>1. /\ DOMAIN e = ClientFields /\ But(client, e, {}) /\ e.socket = client.socket
        /\ e.hash = client.hash /\ e.sent = <<>>
    BY Known DEF But, TalkFields, ClientFields
  <2> HIDE DEF e
  <2>2. Deed(e)
    BY <1>1, <2>1
  <2> QED BY <2>2 DEF e
<1>3. ASSUME NEW choice PROVE Deed([client EXCEPT !.choice = choice])
  <2> DEFINE e == [client EXCEPT !.choice = choice]
  <2>1. /\ DOMAIN e = ClientFields /\ But(client, e, {}) /\ e.socket = client.socket
        /\ e.hash = client.hash /\ e.sent = <<>>
    BY Known DEF But, TalkFields, ClientFields
  <2> HIDE DEF e
  <2>2. Deed(e)
    BY <1>1, <2>1
  <2> QED BY <2>2 DEF e
<1> QED BY <1>2, <1>3

\* What the user does, but for attending to a message.
LEMMA UserTalks ==
  ASSUME CInv, TalkInv, UserActs, ~Dismiss
  PROVE  TalkInv'
<1> SUFFICES ASSUME ~hasty' PROVE TalkInv'
  BY DEF TalkInv
<1>1. ASSUME NEW c, NEW rash, Act(c, rash), ~hasty /\ ~rash => Deed(c)
      PROVE  TalkInv'
  <2>1. ~hasty /\ ~rash /\ Become(c, answers) /\ UNCHANGED <<db, crashed, spoilt>>
    BY <1>1 DEF Act
  <2> QED BY <1>1, <2>1, DeedKeeps
<1>2. ASSUME NEW c, User(c), ~hasty /\ ~Awaiting /\ ~client.modal => Deed(c)
      PROVE  TalkInv'
  <2>1. Act(c, Rash) /\ (~hasty /\ ~Rash => Deed(c))
    BY <1>2 DEF User, Rash
  <2> QED BY <1>1, <2>1
<1>3. ASSUME NEW c, FillIn(c), ~hasty => Deed(c)
      PROVE  TalkInv'
  BY <1>1, <1>3 DEF FillIn
<1>4. CASE Login
  <2>1. PICK l \in Logins : User(SendLogin(client, l.user, l.password))
    BY <1>4 DEF Login
  <2>2. client.access
    BY <1>4 DEF Login, FormShown
  <2>3. ~hasty /\ ~Awaiting /\ ~client.modal => Deed(SendLogin(client, l.user, l.password))
    BY <2>2, LoginDeed DEF SendLogin
  <2> QED BY <1>2, <2>1, <2>3
<1>5. CASE Signup
  <2>1. PICK a \in Signups : User(SendSignup(client, a))
    BY <1>5 DEF Signup
  <2>2. client.access
    BY <1>5 DEF Signup, FormShown
  <2>3. ~hasty /\ ~Awaiting /\ ~client.modal => Deed(SendSignup(client, a))
    BY <2>2, LoginDeed DEF SendSignup
  <2> QED BY <1>2, <2>1, <2>3
<1>6. CASE SwitchForm
  BY <1>3, <1>6, FormDeed DEF SwitchForm
<1>7. CASE Pick
  BY <1>3, <1>7, FormDeed DEF Pick
<1>8. CASE Open
  <2> DEFINE t == Target(client.files, client.choice)
             b == [client EXCEPT !.choice.link = SelectedLink(client.files, client.choice)]
  <2>1. client.dialog /\ CanOpen(client.choice) /\ User(SendOpenFile(b, t))
    BY <1>8 DEF Open
  <2>2. t.hash \in db.docs \cup Names
    BY <2>1, OpenedKeeps DEF CInv, IsClient, AreTables
  <2>3. ~hasty /\ ~Awaiting /\ ~client.modal => Deed(SendOpenFile(b, t))
    BY <2>1, <2>2, OpenDeed
  <2> QED BY <1>2, <2>1, <2>3
<1>9. CASE Delete \/ SaveProfile \/ Leave
  BY <1>2, <1>9, DialogDeed DEF Delete, SaveProfile, Leave
<1>10. CASE Menu \/ Close \/ Edit \/ Save \/ EditIllegal
  BY <1>2, <1>10, EditorDeed DEF Menu, Close, Edit, Save, EditIllegal, EditorShown
<1>11. CASE Say
  <2>1. Act(SendMessage(client), Rash \/ client.editor # "shown")
    BY <1>11 DEF Say
  <2> QED BY <1>1, <2>1, EditorDeed DEF Rash
<1> QED BY <1>4, <1>5, <1>6, <1>7, <1>8, <1>9, <1>10, <1>11 DEF UserActs

\* What the action of a message dialog does: it connects anew, asks for a
\* repair, or only changes what is shown.
Reconnects == {"CONNECTION_TIMEOUT", "GENERIC_ERROR", "SERVER_ERROR"}
Repairs == {"CRDT_ERROR", "CHAT_ERROR", "INPUT_ERROR", "OPENFILE_ERROR", "CRDT_ILLEGAL"}
Repair(kind) == Request(IF kind = "CRDT_ILLEGAL" THEN "LOAD_FILE" ELSE "QUIT_FILE")
LEMMA ActionDoes ==
  ASSUME NEW c, DOMAIN c = ClientFields, c.kind \in Kinds
  PROVE  /\ DOMAIN ModalAction(c) = ClientFields /\ ModalAction(c).hash = c.hash
         /\ ModalAction(c).kind \in Kinds
         /\ c.kind \in Reconnects =>
              Given(ModalAction(c)) /\ ModalAction(c).kind = c.kind
         /\ c.kind \notin Reconnects => ModalAction(c).socket = c.socket
         /\ c.kind \notin Reconnects \cup Repairs =>
              /\ But(c, ModalAction(c), {"modal", "field"}) /\ ModalAction(c).sent = c.sent
              /\ ModalAction(c).modal = FALSE \/ ModalAction(c).modal = c.modal
         /\ c.kind \in Repairs /\ c.socket = "open" =>
              /\ But(c, ModalAction(c), {"modal"}) /\ ModalAction(c).modal = FALSE
              /\ ModalAction(c).sent = Append(c.sent, Repair(c.kind))
<1> DEFINE e == ModalAction(c)
<1>1. CASE c.kind \in Reconnects
  <2>1. e = InitState(c)
    BY <1>1 DEF ModalAction, Reconnects
  <2>2. /\ DOMAIN e = ClientFields /\ e.hash = c.hash /\ e.kind = c.kind /\ e.socket = "opening"
        /\ e.access = TRUE /\ e.dialog = FALSE /\ e.editor # "shown" /\ e.modal = FALSE
    BY <2>1 DEF InitState, ClientFields
  <2> HIDE DEF e
  <2>3. Given(e) /\ e.kind = c.kind /\ e.hash = c.hash /\ DOMAIN e = ClientFields
    BY <2>2 DEF Given
  <2> QED BY <1>1, <2>3 DEF e, Reconnects, Repairs
<1>2. CASE c.kind \in Repairs
  <2> DEFINE b == Hide(c)
             r == Repair(c.kind)
             kind == IF c.kind = "CRDT_ILLEGAL" THEN "CRDT_ERROR" ELSE "GENERIC_ERROR"
  <2>1. e = Tell(b, r, kind)
    BY <1>2 DEF ModalAction, Repairs, SendQuit, SendLoad, Repair
  <2>2. /\ DOMAIN b = ClientFields /\ But(c, b, {"modal"}) /\ b.hash = c.hash
        /\ b.socket = c.socket /\ b.sent = c.sent /\ b.modal = FALSE /\ b.kind = c.kind
    BY DEF Hide, But, TalkFields, ClientFields
  <2> HIDE DEF b, r, kind
  <2>3. /\ DOMAIN e = ClientFields /\ e.socket = b.socket /\ e.hash = b.hash
        /\ b.socket = "open" => e.sent = Append(b.sent, r) /\ But(b, e, {})
    BY <2>1, <2>2, TellDoes
  <2>4. e.kind \in Kinds
    BY <1>2, <2>1, <2>2 DEF Tell, Show, Kinds, kind, ClientFields
  <2> HIDE DEF e
  <2>5. c.socket = "open" => But(c, e, {"modal"}) /\ e.modal = FALSE
    BY <2>2, <2>3 DEF But, TalkFields
  <2> QED BY <1>2, <2>2, <2>3, <2>4, <2>5 DEF e, r, Reconnects, Repairs
<1>3. CASE c.kind \notin Reconnects \cup Repairs
  <2>1. \/ e = [Hide(c) EXCEPT !.loader = FALSE]
        \/ e = [c EXCEPT !.field = c.alias]
        \/ e = Hide(c)
    BY <1>3 DEF ModalAction, Reconnects, Repairs, Kinds
  <2>2. /\ DOMAIN e = ClientFields /\ e.socket = c.socket /\ e.hash = c.hash /\ e.kind = c.kind
        /\ But(c, e, {"modal", "field"}) /\ e.sent = c.sent
        /\ e.modal = FALSE \/ e.modal = c.modal
    BY <2>1 DEF Hide, But, TalkFields, ClientFields
  <2> QED BY <1>3, <2>2
<1> QED BY <1>1, <1>2, <1>3

\* The message is hidden.
LEMMA HideDoes ==
  ASSUME NEW c, DOMAIN c = ClientFields
  PROVE  /\ DOMAIN Hide(c) = ClientFields /\ But(c, Hide(c), {"modal"}) /\ Hide(c).hash = c.hash
         /\ Hide(c).socket = c.socket /\ Hide(c).sent = c.sent /\ Hide(c).modal = FALSE
         /\ Hide(c).kind = c.kind /\ (Given(c) => Given(Hide(c)))
BY DEF Hide, But, TalkFields, ClientFields, Given

\* QUIT or LOAD is sent, once or, with the button, twice.
LEMMA RepairKeeps ==
  ASSUME CInv, TalkInv, ~hasty, client.socket = "open", client.modal,
         NEW c, Become(c, answers), UNCHANGED <<db, crashed, spoilt>>,
         DOMAIN c = ClientFields, c.socket = "open", c.hash = client.hash,
         But(client, c, {"modal"}), c.modal = FALSE,
         NEW r, c.sent = <<r>> \/ c.sent = Append(<<r>>, r),
         \/ client.kind = "OPENFILE_ERROR" /\ r.type = "QUIT_FILE"
         \/ client.kind = "CRDT_ILLEGAL" /\ r.type = "LOAD_FILE"
  PROVE  TalkInv'
<1>1. /\ ~crashed /\ Conn(client, session, ghost, answers, db.docs)
      /\ Talk(client, session, answers, db, spoilt)
  BY DEF TalkInv
<1>2. But(c, client', {}) /\ client'.socket = "open" /\ client'.hash = client.hash
  BY SentAway DEF Become
<1>3. But(client, client', {"modal"}) /\ client'.modal = FALSE
  BY <1>2 DEF But, TalkFields
<1>4. IsSeq(session.up) /\ IsSeq(answers) /\ Rest(session.up, answers)
  BY <1>1, Known DEF Talk, Dialogs, Rest
<1>5. /\ session'.user = session.user /\ session'.file = session.file
      /\ session'.joined = session.joined /\ answers' = answers /\ ghost' = ghost
      /\ session'.up = Append(session.up, r) \/ session'.up = Append(Append(session.up, r), r)
  <2>1. answers' = answers /\ ghost' = ghost
    BY BecomeOpen
  <2>2. CASE c.sent = <<r>>
    <3>1. Sends(session, session', r)
      BY <2>2, BecomeOpen
    <3> QED BY <2>1, <3>1 DEF Sends
  <2>3. CASE c.sent = Append(<<r>>, r)
    BY <2>1, <2>3, BecomeOpen
  <2> QED BY <2>2, <2>3
<1>6. Talk(client', session', answers, db, spoilt)
  BY <1>1, <1>3, <1>4, <1>5, TalkRepair
<1>7. Safe(session'.up, session'.file)
  <2>1. r.type \in NeedsFile => session.file # Nothing
    <3>1. r.type \in NeedsFile => client.kind = "CRDT_ILLEGAL"
      BY DEF NeedsFile
    <3>2. client.kind = "CRDT_ILLEGAL" => session.joined
      BY <1>1, <1>4, AtRest DEF Talk, Windows, Dialogs, Broken
    <3> QED BY <3>1, <3>2, Known
  <2>2. \A y \in Ends : ~Has(session.up, y)
    BY <1>4 DEF Rest, Quiet, Ends, Answerable
  <2> DEFINE p == Append(session.up, r)
  <2>3. Safe(p, session.file)
    BY <1>1, <1>4, <2>1, <2>2, SafeMore DEF Conn
  <2>4. IsSeq(p) /\ \A y : Has(p, y) <=> Has(session.up, y) \/ r.type = y
    BY <1>4, AtEnd, HasMore
  <2> HIDE DEF p
  <2>5. r.type \in NeedsFile => \A y \in Ends : ~Has(p, y)
    BY <2>2, <2>4 DEF NeedsFile, Ends
  <2>6. Safe(Append(p, r), session.file)
    BY <2>1, <2>3, <2>4, <2>5, SafeMore
  <2> QED BY <1>5, <2>3, <2>6 DEF p
<1>8. Conn(client', session', ghost', answers', db'.docs)
  BY <1>1, <1>2, <1>5, <1>7 DEF Conn
<1> QED BY <1>1, <1>5, <1>6, <1>8 DEF TalkInv

\* What the button and the close box of a message do.
LEMMA DismissDoes ==
  ASSUME CInv, client.modal, NEW c \in {ModalButton(client), ModalEscape(client)}
  PROVE  /\ client.kind \in Kinds /\ DOMAIN c = ClientFields /\ c.hash = client.hash
         /\ Given(c) \/ c.socket = client.socket
         /\ client.kind \in Reconnects => Given(c)
         /\ client.kind \in Repairs /\ client.socket = "open" =>
              /\ c.socket = "open" /\ But(client, c, {"modal"}) /\ c.modal = FALSE
              /\ \/ c.sent = <<Repair(client.kind)>>
                 \/ c.sent = Append(<<Repair(client.kind)>>, Repair(client.kind))
         /\ client.kind \notin Reconnects \cup Repairs /\ client.socket = "open" =>
              /\ c.socket = "open" /\ But(client, c, {"modal", "field"}) /\ c.modal = FALSE
              /\ c.sent = <<>>
<1>1. client.kind \in Kinds /\ DOMAIN client = ClientFields /\ client.sent = <<>>
  BY Known DEF CInv, IsClient, Typed
<1> DEFINE h == Hide(client)
           x == ModalAction(h)
           y == ModalAction(client)
           z == Hide(y)
           w == ModalAction(z)
<1>2. /\ DOMAIN h = ClientFields /\ But(client, h, {"modal"}) /\ h.hash = client.hash
      /\ h.socket = client.socket /\ h.sent = <<>> /\ h.modal = FALSE /\ h.kind = client.kind
  BY <1>1, HideDoes
<1>3. c = x \/ c = w
  BY DEF ModalButton, ModalEscape
<1> HIDE DEF h
<1>4. CASE client.kind \in Reconnects
  <2>1. Given(x) /\ DOMAIN x = ClientFields /\ x.hash = client.hash
    BY <1>1, <1>2, <1>4, ActionDoes
  <2>2. Given(y) /\ DOMAIN y = ClientFields /\ y.hash = client.hash /\ y.kind = client.kind
    BY <1>1, <1>4, ActionDoes
  <2> HIDE DEF y
  <2>3. DOMAIN z = ClientFields /\ z.hash = client.hash /\ z.kind = client.kind
    BY <2>2, HideDoes
  <2> HIDE DEF z
  <2>4. Given(w) /\ DOMAIN w = ClientFields /\ w.hash = client.hash
    BY <1>1, <1>4, <2>3, ActionDoes
  <2> QED BY <1>1, <1>3, <1>4, <2>1, <2>4 DEF Reconnects, Repairs
<1>5. CASE client.kind \notin Reconnects /\ client.socket # "open"
  <2>1. x.socket = client.socket /\ DOMAIN x = ClientFields /\ x.hash = client.hash
    BY <1>1, <1>2, <1>5, ActionDoes
  <2>2. y.socket = client.socket /\ DOMAIN y = ClientFields /\ y.hash = client.hash
        /\ y.kind \in Kinds
    BY <1>1, <1>5, ActionDoes
  <2> HIDE DEF y
  <2>3. z.socket = client.socket /\ DOMAIN z = ClientFields /\ z.hash = client.hash
        /\ z.kind \in Kinds
    BY <2>2, HideDoes
  <2> HIDE DEF z
  <2>4. DOMAIN w = ClientFields /\ w.hash = client.hash /\ (w.socket = client.socket \/ Given(w))
    BY <2>3, ActionDoes
  <2> QED BY <1>1, <1>3, <1>5, <2>1, <2>4
<1>6. CASE client.kind \in Repairs /\ client.socket = "open"
  <2> DEFINE r == Repair(client.kind)
  <2>0. client.kind \notin Reconnects
    BY <1>6 DEF Reconnects, Repairs
  <2>1. /\ DOMAIN x = ClientFields /\ x.socket = "open" /\ x.hash = client.hash
        /\ But(client, x, {"modal"}) /\ x.modal = FALSE /\ x.sent = <<r>>
    <3>1. /\ DOMAIN x = ClientFields /\ x.socket = "open" /\ x.hash = client.hash
          /\ But(h, x, {"modal"}) /\ x.modal = FALSE /\ x.sent = Append(<<>>, r)
      BY <1>1, <1>2, <1>6, <2>0, ActionDoes
    <3> QED BY <1>2, <3>1, OneSent DEF But
  <2>2. /\ DOMAIN y = ClientFields /\ y.socket = "open" /\ y.hash = client.hash
        /\ But(client, y, {"modal"}) /\ y.modal = FALSE /\ y.sent = <<r>>
        /\ y.kind = client.kind
    <3>1. /\ DOMAIN y = ClientFields /\ y.socket = "open" /\ y.hash = client.hash
          /\ But(client, y, {"modal"}) /\ y.modal = FALSE /\ y.sent = Append(<<>>, r)
      BY <1>1, <1>6, <2>0, ActionDoes
    <3> QED BY <3>1, OneSent DEF But, TalkFields
  <2> HIDE DEF y
  <2>3. /\ DOMAIN z = ClientFields /\ z.socket = "open" /\ z.hash = client.hash
        /\ But(y, z, {"modal"}) /\ z.modal = FALSE /\ z.sent = <<r>> /\ z.kind = client.kind
    BY <2>2, HideDoes
  <2> HIDE DEF z
  <2>4. /\ DOMAIN w = ClientFields /\ w.socket = "open" /\ w.hash = client.hash
        /\ But(z, w, {"modal"}) /\ w.modal = FALSE /\ w.sent = Append(<<r>>, r)
    BY <1>1, <1>6, <2>0, <2>3, ActionDoes
  <2>5. But(client, w, {"modal"})
    BY <2>2, <2>3, <2>4 DEF But
  <2> HIDE DEF r, x, w
  <2>6. /\ DOMAIN c = ClientFields /\ c.socket = "open" /\ c.hash = client.hash
        /\ But(client, c, {"modal"}) /\ c.modal = FALSE
        /\ c.sent = <<r>> \/ c.sent = Append(<<r>>, r)
    BY <1>3, <2>1, <2>4, <2>5
  <2> QED BY <1>1, <1>6, <2>0, <2>6 DEF r
<1>7. CASE client.kind \notin Reconnects \cup Repairs /\ client.socket = "open"
  <2>1. /\ DOMAIN x = ClientFields /\ x.socket = "open" /\ x.hash = client.hash
        /\ But(client, x, {"modal", "field"}) /\ x.modal = FALSE /\ x.sent = <<>>
    <3>1. /\ DOMAIN x = ClientFields /\ x.socket = "open" /\ x.hash = client.hash
          /\ But(h, x, {"modal", "field"}) /\ x.modal = FALSE /\ x.sent = <<>>
      BY <1>1, <1>2, <1>7, ActionDoes
    <3> QED BY <1>2, <3>1 DEF But
  <2>2. /\ DOMAIN y = ClientFields /\ y.socket = "open" /\ y.hash = client.hash
        /\ But(client, y, {"modal", "field"}) /\ y.sent = <<>> /\ y.kind = client.kind
    <3>1. /\ DOMAIN y = ClientFields /\ y.socket = "open" /\ y.hash = client.hash
          /\ But(client, y, {"modal", "field"}) /\ y.sent = <<>>
      BY <1>1, <1>7, ActionDoes
    <3> QED BY <3>1 DEF But, TalkFields
  <2> HIDE DEF y
  <2>3. /\ DOMAIN z = ClientFields /\ z.socket = "open" /\ z.hash = client.hash
        /\ But(y, z, {"modal"}) /\ z.modal = FALSE /\ z.sent = <<>> /\ z.kind = client.kind
    BY <2>2, HideDoes
  <2> HIDE DEF z
  <2>4. /\ DOMAIN w = ClientFields /\ w.socket = "open" /\ w.hash = client.hash
        /\ But(z, w, {"modal", "field"}) /\ w.modal = FALSE /\ w.sent = <<>>
    BY <1>1, <1>7, <2>3, ActionDoes
  <2>5. But(client, w, {"modal", "field"})
    BY <2>2, <2>3, <2>4 DEF But
  <2> HIDE DEF x, w
  <2> QED BY <1>1, <1>3, <1>7, <2>1, <2>4, <2>5
<1> QED BY <1>4, <1>5, <1>6, <1>7

\* The user attends to a message, with its button or its close box.
LEMMA DismissTalks ==
  ASSUME CInv, TalkInv, Dismiss
  PROVE  TalkInv'
<1>1. PICK c \in {ModalButton(client), ModalEscape(client)} : Silent(c)
  BY DEF Dismiss
<1>2. Become(c, answers) /\ UNCHANGED <<db, crashed, hasty, spoilt>> /\ client.modal
  BY <1>1 DEF Silent, Dismiss
<1> SUFFICES ASSUME ~hasty PROVE TalkInv'
  BY <1>2 DEF TalkInv
<1>3. ~crashed /\ Conn(client, session, ghost, answers, db.docs)
  BY DEF TalkInv
<1>4. /\ client.kind \in Kinds /\ DOMAIN c = ClientFields /\ c.hash = client.hash
      /\ Given(c) \/ c.socket = client.socket
      /\ client.kind \in Reconnects => Given(c)
      /\ client.kind \in Repairs /\ client.socket = "open" =>
           /\ c.socket = "open" /\ But(client, c, {"modal"}) /\ c.modal = FALSE
           /\ \/ c.sent = <<Repair(client.kind)>>
              \/ c.sent = Append(<<Repair(client.kind)>>, Repair(client.kind))
      /\ client.kind \notin Reconnects \cup Repairs /\ client.socket = "open" =>
           /\ c.socket = "open" /\ But(client, c, {"modal", "field"}) /\ c.modal = FALSE
           /\ c.sent = <<>>
  BY <1>2, DismissDoes
<1>5. CASE Given(c)
  <2>1. Conn(client', session', ghost', answers', db'.docs) /\ client'.socket # "open"
    BY <1>2, <1>3, <1>4, <1>5, ConnGiven
  <2> QED BY <1>2, <1>3, <2>1 DEF TalkInv
<1>6. CASE client.socket # "open" /\ c.socket = client.socket
  <2>1. Deed(c)
    BY <1>2, <1>3, <1>4, <1>6 DEF Deed, Conn
  <2> QED BY <1>2, <2>1, DeedKeeps
<1>7. CASE client.socket = "open" /\ client.kind \notin Reconnects
  <2>1. /\ Talk(client, session, answers, db, spoilt) /\ Rest(session.up, answers)
        /\ client.kind \in {"LOGIN_ERROR", "UPDATE_USER_ERROR", "OPENFILE_ERROR", "CRDT_ILLEGAL",
                      "GENERIC_SUCCESS", "FILE_ERROR", "SERVER_ERROR"}
    BY <1>2, <1>7 DEF TalkInv, Talk, Dialogs, Rest
  <2>2. CASE client.kind \in Repairs
    <3> DEFINE r == Repair(client.kind)
    <3>1. \/ client.kind = "OPENFILE_ERROR" /\ r.type = "QUIT_FILE"
          \/ client.kind = "CRDT_ILLEGAL" /\ r.type = "LOAD_FILE"
      BY <2>1, <2>2 DEF Repair, Request, Repairs
    <3> HIDE DEF r
    <3>2. /\ DOMAIN c = ClientFields /\ c.socket = "open" /\ c.hash = client.hash
          /\ But(client, c, {"modal"}) /\ c.modal = FALSE
          /\ c.sent = <<r>> \/ c.sent = Append(<<r>>, r)
      BY <1>4, <1>7, <2>2 DEF r
    <3> QED BY <1>2, <1>7, <3>1, <3>2, RepairKeeps
  <2>3. CASE client.kind \notin Repairs
    <3>1. /\ DOMAIN c = ClientFields /\ c.socket = "open" /\ c.hash = client.hash
          /\ But(client, c, {"dialog", "modal", "field"}) /\ c.dialog = client.dialog
          /\ c.modal = FALSE /\ c.sent = <<>>
      BY <1>4, <1>7, <2>3 DEF But, TalkFields
    <3>2. ~Broken(client)
      BY <1>7, <2>3 DEF Broken, Reconnects, Repairs
    <3>3. Talk(c, session, answers, db, spoilt)
      BY <2>1, <3>1, <3>2, Known, TalkClosed
    <3>4. Deed(c)
      BY <1>7, <3>1, <3>3 DEF Deed
    <3> QED BY <1>2, <3>4, DeedKeeps
  <2> QED BY <2>2, <2>3
<1> QED BY <1>4, <1>5, <1>6, <1>7

-----------------------------------------------------------------------------
(* A message from the server.                                              *)

\* What an answer changes in the windows, and what the handler asks for next.
Lists == {"DELETE_FILE", "QUIT_FILE"}
Becomes(c, e, m) ==
  \/ /\ m.result \in {"BAD", "ERROR"} /\ But(c, e, {"modal", "kind"}) /\ e.modal = TRUE
     /\ e.kind = IF m.result = "BAD" THEN ClientErrorKind(c, m) ELSE ServerErrorKind(m)
  \/ /\ m.result = "SUCCESS"
     /\ \/ /\ m.type = "LOGIN" /\ e.state = "CONNECTED" /\ e.user = m.body.user
           /\ e.alias = m.body.alias /\ e.access = FALSE /\ e.dialog = TRUE
           /\ But(c, e, {"state", "user", "alias", "field", "access", "dialog"})
        \/ m.type = "SIGNUP" /\ But(c, e, {"state"})
        \/ /\ m.type = "LOGOUT" /\ e.valid = FALSE /\ e.dialog = FALSE /\ e.access = TRUE
           /\ e.editor # "shown" /\ But(c, e, {"state", "valid", "dialog", "editor", "access"})
        \/ /\ m.type = "UPDATE_USER" /\ e.alias = c.field /\ e.modal = TRUE
           /\ e.kind = "GENERIC_SUCCESS" /\ But(c, e, {"alias", "modal", "kind"})
        \/ m.type = "GET_FILES" /\ But(c, e, {"field", "dialog"}) /\ e.dialog = TRUE
        \/ m.type = "OPEN_FILE" /\ But(c, e, {"state", "valid"}) /\ e.valid = TRUE
        \/ m.type = "DELETE_FILE" /\ But(c, e, {"state"}) /\ e.state = "CONNECTED_AND_LOGGED"
        \/ /\ m.type = "LOAD_FILE" /\ But(c, e, {"valid", "copy", "busy"})
           /\ e.valid = TRUE /\ e.copy = m.body
        \/ /\ m.type = "QUIT_FILE" /\ But(c, e, {"state", "editor"})
           /\ e.state = "CONNECTED_AND_LOGGED" /\ e.editor # "shown"
        \/ m.type \in {"CRDT", "CHAT"} /\ But(c, e, {})

LEMMA ResponseDoes ==
  ASSUME NEW c, DOMAIN c = ClientFields, c.socket = "open", c.sent = <<>>, NEW m,
         m.type \in Answerable \cup {"CRDT", "CHAT"}, m.result \in {"SUCCESS", "BAD", "ERROR"}
  PROVE  LET e == Response(c, m)
         IN  /\ DOMAIN e = ClientFields /\ e.socket = "open" /\ e.hash = c.hash
             /\ Becomes(c, e, m)
             /\ IF m.result = "SUCCESS" /\ m.type \in Lists
                THEN e.sent = <<Request("GET_FILES")>> ELSE e.sent = <<>>
<1> DEFINE b == [c EXCEPT !.timer = FALSE]
           e == Response(c, m)
<1>1. /\ DOMAIN b = ClientFields /\ b.socket = "open" /\ b.hash = c.hash /\ b.sent = <<>>
      /\ But(c, b, {})
  BY DEF But, TalkFields, ClientFields
<1>2. CASE m.result \in {"BAD", "ERROR"}
  <2> DEFINE kind == IF m.result = "BAD" THEN ClientErrorKind(c, m) ELSE ServerErrorKind(m)
  <2>1. e = Show(b, kind)
    BY <1>2 DEF Response
  <2> HIDE DEF e, b, kind
  <2>2. /\ DOMAIN e = ClientFields /\ e.socket = "open" /\ e.hash = c.hash /\ e.sent = <<>>
        /\ e.modal = TRUE /\ e.kind = kind /\ But(b, e, {"modal", "kind"})
    BY <1>1, <2>1 DEF Show, But, TalkFields, ClientFields
  <2>3. But(c, e, {"modal", "kind"})
    BY <1>1, <2>2 DEF But
  <2>4. Becomes(c, e, m)
    BY <1>2, <2>2, <2>3 DEF Becomes, kind
  <2> QED BY <1>2, <2>2, <2>4 DEF e
<1>3. CASE m.result = "SUCCESS"
  <2>1. e = Answered(b, m)
    BY <1>3 DEF Response
  <2> HIDE DEF e, b
  <2> SUFFICES /\ DOMAIN e = ClientFields /\ e.socket = "open" /\ e.hash = c.hash
               /\ Becomes(b, e, m)
               /\ IF m.type \in Lists THEN e.sent = <<Request("GET_FILES")>> ELSE e.sent = <<>>
    <3>1. ASSUME NEW fields, But(b, e, fields) PROVE But(c, e, fields)
      BY <1>1, <3>1 DEF But
    <3>2. b.field = c.field
      BY <1>1 DEF But, TalkFields
    <3>3. ASSUME Becomes(b, e, m) PROVE Becomes(c, e, m)
      BY <1>3, <3>1, <3>2, <3>3 DEF Becomes
    <3> QED BY <1>3, <3>3 DEF e
  <2>2. CASE m.type = "LOGIN"
    <3>1. e = LoggedIn(b, m.body)
      BY <2>1, <2>2 DEF Answered
    <3> QED BY <1>1, <1>3, <2>2, <3>1 DEF LoggedIn, But, TalkFields, ClientFields, Becomes, Lists
  <2>3. CASE m.type = "SIGNUP"
    <3>1. e = SignedUp(b)
      BY <2>1, <2>3 DEF Answered
    <3> QED BY <1>1, <1>3, <2>3, <3>1 DEF SignedUp, But, TalkFields, ClientFields, Becomes, Lists
  <2>4. CASE m.type = "LOGOUT"
    <3>1. e = LoggedOut(b)
      BY <2>1, <2>4 DEF Answered
    <3> QED BY <1>1, <1>3, <2>4, <3>1 DEF LoggedOut, But, TalkFields, ClientFields, Becomes, Lists
  <2>5. CASE m.type = "UPDATE_USER"
    <3>1. e = Show([b EXCEPT !.alias = b.field], "GENERIC_SUCCESS")
      BY <2>1, <2>5 DEF Answered, UserUpdated
    <3> QED BY <1>1, <1>3, <2>5, <3>1 DEF Show, But, TalkFields, ClientFields, Becomes, Lists
  <2>6. CASE m.type = "GET_FILES"
    <3>1. e = FilesListed(b, m.body)
      BY <2>1, <2>6 DEF Answered
    <3> QED BY <1>1, <1>3, <2>6, <3>1 DEF FilesListed, But, TalkFields, ClientFields, Becomes, Lists
  <2>7. CASE m.type = "OPEN_FILE"
    <3>1. e = [b EXCEPT !.state = "CONNECTED_AND_OPENED", !.valid = TRUE]
      BY <2>1, <2>7 DEF Answered
    <3> QED BY <1>1, <1>3, <2>7, <3>1 DEF But, TalkFields, ClientFields, Becomes, Lists
  <2>8. CASE m.type = "DELETE_FILE"
    <3>1. e = Ask(b, Request("GET_FILES"), "CONNECTED_AND_LOGGED")
      BY <2>1, <2>8 DEF Answered, SendGetFiles
    <3>2. /\ DOMAIN e = ClientFields /\ e.socket = "open" /\ e.hash = c.hash
          /\ But(b, e, {"state"}) /\ e.state = "CONNECTED_AND_LOGGED"
          /\ e.sent = <<Request("GET_FILES")>>
      BY <1>1, <3>1, AskDoes, OneSent
    <3> QED BY <1>3, <2>8, <3>2 DEF Becomes, Lists
  <2>9. CASE m.type = "LOAD_FILE"
    <3>1. e = FileLoaded(b, m.body)
      BY <2>1, <2>9 DEF Answered
    <3> QED BY <1>1, <1>3, <2>9, <3>1 DEF FileLoaded, But, TalkFields, ClientFields, Becomes, Lists
  <2>10. CASE m.type = "QUIT_FILE"
    <3> DEFINE x == [b EXCEPT !.editor = IF @ = "none" THEN @ ELSE "hidden", !.chat = FALSE]
    <3>1. e = Ask(x, Request("GET_FILES"), "CONNECTED_AND_LOGGED")
      BY <2>1, <2>10 DEF Answered, SendGetFiles, FileQuit
    <3>2. /\ DOMAIN x = ClientFields /\ x.socket = "open" /\ x.hash = c.hash /\ x.sent = <<>>
          /\ But(b, x, {"editor"}) /\ x.editor # "shown"
      BY <1>1 DEF But, TalkFields, ClientFields
    <3> HIDE DEF x
    <3>3. /\ DOMAIN e = ClientFields /\ e.socket = "open" /\ e.hash = c.hash
          /\ But(x, e, {"state"}) /\ e.state = "CONNECTED_AND_LOGGED"
          /\ e.sent = <<Request("GET_FILES")>>
      BY <3>1, <3>2, AskDoes, OneSent
    <3>4. But(b, e, {"state", "editor"}) /\ e.editor # "shown"
      BY <3>2, <3>3 DEF But, TalkFields
    <3> QED BY <1>3, <2>10, <3>3, <3>4 DEF Becomes, Lists
  <2>11. CASE m.type \in {"CRDT", "CHAT"}
    <3>1. e = b
      BY <2>1, <2>11 DEF Answered
    <3> QED BY <1>1, <1>3, <2>11, <3>1 DEF But, Becomes, Lists
  <2> QED BY <2>2, <2>3, <2>4, <2>5, <2>6, <2>7, <2>8, <2>9, <2>10, <2>11 DEF Answerable
<1> QED BY <1>2, <1>3

\* An answer ends what the client waited for, or an edit or a message is heard.
LEMMA TalkAnswer ==
  ASSUME NEW c, NEW e, NEW s, NEW t, NEW a, NEW d, NEW sp, IsSeq(s.up), IsSeq(a), a # <<>>,
         Talk(c, s, a, d, sp), c.valid \in BOOLEAN, Becomes(c, e, Head(a)),
         IF Head(a).result = "SUCCESS" /\ Head(a).type \in Lists
         THEN Sends(s, t, Request("GET_FILES")) ELSE Same(s, t)
  PROVE  Talk(e, t, Tail(a), d, sp)
<1> DEFINE m == Head(a)
<1>1. CASE m.result \in {"BAD", "ERROR"}
  <2>1. /\ But(c, e, {"modal", "kind"}) /\ e.modal = TRUE
        /\ e.kind = IF m.result = "BAD" THEN ClientErrorKind(c, m) ELSE ServerErrorKind(m)
    BY <1>1 DEF Becomes
  <2>2. e.kind = Blame(m)
    BY <1>1, <2>1, BlameIsRight
  <2>3. Talk(e, s, Tail(a), d, sp)
    BY <1>1, <2>1, <2>2, TalkError
  <2> QED BY <1>1, <2>3, SameTalk
<1>2. CASE m.result = "SUCCESS" /\ m.type \in Lists
  <2>1. Sends(s, t, Request("GET_FILES")) /\ Request("GET_FILES").type = "GET_FILES"
    BY <1>2 DEF Request
  <2>2. CASE m.type = "DELETE_FILE"
    <3>1. But(c, e, {"state"}) /\ e.state = "CONNECTED_AND_LOGGED"
      BY <1>2, <2>2 DEF Becomes
    <3> QED BY <2>1, <2>2, <3>1, TalkDeleted
  <2>3. CASE m.type = "QUIT_FILE"
    <3>1. But(c, e, {"state", "editor"}) /\ e.state = "CONNECTED_AND_LOGGED" /\ e.editor # "shown"
      BY <1>2, <2>3 DEF Becomes
    <3> QED BY <2>1, <2>3, <3>1, TalkQuit
  <2> QED BY <1>2, <2>2, <2>3 DEF Lists
<1>3. CASE m.result = "SUCCESS" /\ m.type \notin Lists
  <2>1. CASE m.type \in {"LOGIN", "SIGNUP", "LOGOUT", "UPDATE_USER"}
    <3>1. Talk(e, s, Tail(a), d, sp)
      BY <1>3, <2>1, TalkDone DEF Becomes
    <3> QED BY <1>3, <3>1, SameTalk
  <2>2. CASE m.type = "GET_FILES"
    <3>1. Talk(e, s, Tail(a), d, sp)
      BY <1>3, <2>2, TalkListed DEF Becomes
    <3> QED BY <1>3, <3>1, SameTalk
  <2>3. CASE m.type = "OPEN_FILE"
    <3>1. Talk(e, s, Tail(a), d, sp)
      BY <1>3, <2>3, TalkOpened DEF Becomes, Opens
    <3> QED BY <1>3, <3>1, SameTalk
  <2>4. CASE m.type = "LOAD_FILE"
    <3>1. Talk(e, s, Tail(a), d, sp)
      BY <1>3, <2>4, TalkLoaded DEF Becomes
    <3> QED BY <1>3, <3>1, SameTalk
  <2>5. CASE m.type \in {"CRDT", "CHAT"}
    <3>1. But(c, e, {})
      BY <1>3, <2>5 DEF Becomes
    <3>2. Talk(c, s, Tail(a), d, sp)
      BY <2>5, TalkHeard
    <3> QED BY <1>3, <3>1, <3>2, UnseenChange, SameTalk
  <2> QED BY <1>3, <2>1, <2>2, <2>3, <2>4, <2>5 DEF Becomes, Lists
<1> QED BY <1>1, <1>2, <1>3 DEF Becomes

\* The client handles a message.
LEMMA ReceiveTalks ==
  ASSUME CInv, TalkInv, Receive
  PROVE  TalkInv'
<1> DEFINE c == Response(client, Head(answers))
<1>1. /\ Become(c, Tail(answers)) /\ answers # <<>>
      /\ UNCHANGED <<db, crashed, hasty, spoilt>>
  BY DEF Receive
<1> SUFFICES ASSUME ~hasty PROVE TalkInv'
  BY <1>1 DEF TalkInv
<1>2. /\ ~crashed /\ Conn(client, session, ghost, answers, db.docs) /\ client.socket = "open"
      /\ Talk(client, session, answers, db, spoilt)
  BY <1>1 DEF TalkInv, Conn
<1>3. /\ IsSeq(session.up) /\ IsSeq(answers) /\ DOMAIN client = ClientFields
      /\ client.sent = <<>> /\ client.valid \in BOOLEAN
  BY Known
<1>4. Head(answers) \in ToSet(answers)
  BY <1>1, <1>3, AtTail
<1>5. /\ DOMAIN c = ClientFields /\ c.socket = "open" /\ c.hash = client.hash
      /\ Becomes(client, c, Head(answers))
      /\ IF Head(answers).result = "SUCCESS" /\ Head(answers).type \in Lists
         THEN c.sent = <<Request("GET_FILES")>> ELSE c.sent = <<>>
  BY <1>2, <1>3, <1>4, Known, ResponseDoes
<1> HIDE DEF c
<1>6. /\ client' = [c EXCEPT !.sent = <<>>] /\ answers' = Tail(answers) /\ ghost' = ghost
      /\ c.sent = <<>> => Same(session, session')
      /\ c.sent = <<Request("GET_FILES")>> => Sends(session, session', Request("GET_FILES"))
  BY <1>1, <1>2, <1>5, BecomeOpen
<1>7. But(c, client', {}) /\ client'.socket = "open" /\ client'.hash = client.hash
  BY <1>5, <1>6, SentAway
<1>8. Talk(c, session', Tail(answers), db, spoilt)
  BY <1>1, <1>2, <1>3, <1>5, <1>6, TalkAnswer
<1>9. Talk(client', session', answers', db', spoilt')
  BY <1>1, <1>6, <1>7, <1>8, UnseenChange
<1>10. Safe(session'.up, session'.file)
  <2>1. CASE Same(session, session')
    BY <1>2, <2>1 DEF Conn, Same
  <2>2. CASE Sends(session, session', Request("GET_FILES"))
    <3>1. Request("GET_FILES").type \notin NeedsFile
      BY DEF Request, NeedsFile
    <3>2. Safe(Append(session.up, Request("GET_FILES")), session.file)
      BY <1>2, <1>3, <3>1, SafeMore DEF Conn
    <3> QED BY <2>2, <3>2 DEF Sends
  <2> QED BY <1>5, <1>6, <2>1, <2>2
<1>11. Conn(client', session', ghost', answers', db'.docs)
  BY <1>1, <1>2, <1>6, <1>7, <1>10 DEF Conn
<1> QED BY <1>1, <1>2, <1>7, <1>9, <1>11 DEF TalkInv

-----------------------------------------------------------------------------
(* A step of the server.                                                   *)

\* A document that is made is none that a name could be taken for.
LEMMA ShowsStays ==
  ASSUME NEW c, NEW docs, NEW more, docs \subseteq more, more \subseteq Docs,
         c.hash \in docs \/ c.hash \in Names \/ c.hash = Nothing
  PROVE  Shows(c, more) = Shows(c, docs)
<1>1. ASSUME NEW n \in Names PROVE n \notin Docs
  <2>1. DOMAIN n = {"base", "nth"}
    BY <1>1 DEF Names
  <2>2. ASSUME n \in Docs PROVE DOMAIN n = {"owner", "title"}
    BY <2>2 DEF Docs
  <2>3. {"base", "nth"} # {"owner", "title"}
    OBVIOUS
  <2> QED BY <2>1, <2>2, <2>3
<1> QED BY <1>1, NamesAssumption DEF Shows

\* What a request that is handled leaves of its session, answers and changes.
Keeps(s, t) == t.user = s.user /\ t.file = s.file /\ t.joined = s.joined
Asked(r, d, u) == IF r.hash \in d.docs THEN r.hash ELSE Doc(u, r.hash)
Replies(s, t, r, d, f, failing, m) ==
  \/ /\ r.type = "LOGIN" /\ f.alias = d.alias /\ t.file = s.file /\ t.joined = s.joined
     /\ m.result = "SUCCESS" => m.body.user = t.user /\ m.body.alias = AliasOf(d, t.user)
  \/ r.type \in {"SIGNUP", "DELETE_FILE"} /\ Keeps(s, t) /\ f.alias = d.alias
  \/ /\ r.type = "UPDATE_USER" /\ Keeps(s, t) /\ m.result \in {"SUCCESS", "ERROR"}
     /\ f.docs = d.docs
     /\ "exec" \notin failing =>
          AliasOf(f, s.user) = IF m.result = "SUCCESS" THEN r.alias ELSE AliasOf(d, s.user)
  \/ /\ r.type \in {"GET_FILES", "LOAD_FILE", "CHAT"} /\ Keeps(s, t) /\ f.alias = d.alias
     /\ m.result = "SUCCESS" /\ (r.type = "LOAD_FILE" => m.body = s.file)
  \/ /\ r.type \in {"LOGOUT", "QUIT_FILE"} /\ t.user = s.user /\ ~t.joined /\ f.alias = d.alias
     /\ m.result = "SUCCESS"
  \/ /\ r.type = "OPEN_FILE" /\ m.result \in {"BAD", "ERROR"} /\ t.user = s.user
     /\ f.alias = d.alias
Serves(s, e, r, d, failing) ==
  \/ \E m : /\ e.answers = <<m>> /\ m.type = r.type /\ m.result \in {"SUCCESS", "BAD", "ERROR"}
            /\ Replies(s, e.session, r, d, e.db, failing, m)
  \/ \E m, n : /\ e.answers = <<m>> \o <<n>> /\ Opens(m) /\ n.type = "LOAD_FILE"
               /\ n.result = "SUCCESS" /\ n.body = e.session.file
               /\ r.type = "OPEN_FILE" /\ e.session.user = s.user /\ e.session.joined
               /\ e.session.file = Asked(r, d, s.user) /\ e.db.alias = d.alias
  \/ /\ r.type \in {"CRDT", "SAVE_FILE", "CHAT"} /\ e.answers = <<>> /\ Keeps(s, e.session)
     /\ e.db.alias = d.alias

\* The parts of an effect.
LEMMA SaidIs ==
  ASSUME NEW s, NEW type, NEW result, NEW body, NEW d
  PROVE  LET e == Said(s, type, result, body, d)
             m == [type |-> type, result |-> result, body |-> body]
         IN  e.session = s /\ e.db = d /\ e.answers = <<m>> /\ m.type = type
             /\ m.result = result /\ m.body = body
BY DEF Said, Effect, Answer

LEMMA LeftIs ==
  ASSUME NEW s, DOMAIN s = {"user", "file", "joined", "up"}, s.joined \in BOOLEAN
  PROVE  /\ DOMAIN Left(s) = {"user", "file", "joined", "up"}
         /\ Left(s).user = s.user /\ Left(s).up = s.up /\ Left(s).joined = FALSE
BY DEF Left

\* connectToFile.
LEMMA ConnectServes ==
  ASSUME NEW s, NEW b, DOMAIN b = {"user", "file", "joined", "up"}, b.user = s.user,
         NEW r, r.type = "OPEN_FILE", NEW d, AreTables(d), NEW failing
  PROVE  LET e == Connect(b, r, d, failing) IN e.session.up = b.up /\ Serves(s, e, r, d, failing)
<1> DEFINE e == Connect(b, r, d, failing)
<1>1. ASSUME NEW t, t.user = s.user, t.up = b.up, NEW f, f.alias = d.alias,
             NEW result \in {"BAD", "ERROR"}, e = Said(t, "OPEN_FILE", result, Nothing, f)
      PROVE  e.session.up = b.up /\ Serves(s, e, r, d, failing)
  <2> DEFINE m == [type |-> "OPEN_FILE", result |-> result, body |-> Nothing]
  <2>1. e.session = t /\ e.db = f /\ e.answers = <<m>> /\ m.type = r.type /\ m.result = result
    BY <1>1, SaidIs
  <2> HIDE DEF m, e
  <2>2. Replies(s, e.session, r, d, e.db, failing, m)
    BY <1>1, <2>1 DEF Replies
  <2>3. Serves(s, e, r, d, failing)
    BY <1>1, <2>1, <2>2 DEF Serves
  <2> QED BY <1>1, <2>1, <2>3
<1>2. ASSUME NEW doc, doc = Asked(r, d, s.user), NEW f, f.alias = d.alias,
             e = InDocument(b, doc, f)
      PROVE  e.session.up = b.up /\ Serves(s, e, r, d, failing)
  <2> DEFINE m == [type |-> "OPEN_FILE", result |-> "SUCCESS", body |-> Nothing]
             n == [type |-> "LOAD_FILE", result |-> "SUCCESS", body |-> doc]
  <2>1. /\ e.session = [b EXCEPT !.file = doc, !.joined = TRUE] /\ e.answers = <<m>> \o <<n>>
        /\ e.db.alias = d.alias
    BY <1>2 DEF InDocument, Effect, Answer
  <2>2. /\ e.session.up = b.up /\ e.session.file = doc /\ e.session.joined = TRUE
        /\ e.session.user = s.user
    BY <2>1
  <2>3. Opens(m) /\ n.type = "LOAD_FILE" /\ n.result = "SUCCESS" /\ n.body = doc
    BY DEF Opens
  <2> HIDE DEF m, n, e
  <2>4. \E x, y : /\ e.answers = <<x>> \o <<y>> /\ Opens(x) /\ y.type = "LOAD_FILE"
                  /\ y.result = "SUCCESS" /\ y.body = e.session.file
                  /\ r.type = "OPEN_FILE" /\ e.session.user = s.user /\ e.session.joined
                  /\ e.session.file = Asked(r, d, s.user) /\ e.db.alias = d.alias
    <3> WITNESS m, n
    <3> QED BY <1>2, <2>1, <2>2, <2>3
  <2>5. Serves(s, e, r, d, failing)
    BY <2>4, Zenon DEF Serves
  <2> QED BY <2>2, <2>5
<1>3. ASSUME NEW f, DOMAIN f = DOMAIN d, f.alias = d.alias, NEW shared, NEW doc,
             doc = Asked(r, d, s.user), e = Participate(b, r, doc, shared, f, failing)
      PROVE  e.session.up = b.up /\ Serves(s, e, r, d, failing)
  <2> DEFINE w == WithFile(f, b.user, r.name, doc)
  <2>1. w.alias = d.alias
    BY <1>3 DEF WithFile, AreTables
  <2>2. \A x : [b EXCEPT !.file = x].user = s.user /\ [b EXCEPT !.file = x].up = b.up
    OBVIOUS
  <2> HIDE DEF w, e
  <2>3. \/ \E x \in {doc, Nothing} : e = Said([b EXCEPT !.file = x], "OPEN_FILE", "ERROR", Nothing, f)
        \/ \E g \in {f, w} : e = InDocument(b, doc, g)
    BY <1>3, ParticipateIs DEF w
  <2>4. CASE \E x \in {doc, Nothing} : e = Said([b EXCEPT !.file = x], "OPEN_FILE", "ERROR", Nothing, f)
    <3>1. PICK x \in {doc, Nothing} : e = Said([b EXCEPT !.file = x], "OPEN_FILE", "ERROR", Nothing, f)
      BY <2>4
    <3> DEFINE t == [b EXCEPT !.file = x]
    <3>2. t.user = s.user /\ t.up = b.up
      BY <2>2
    <3> HIDE DEF t
    <3> QED BY <1>1, <1>3, <3>1, <3>2 DEF e, t
  <2>5. CASE \E g \in {f, w} : e = InDocument(b, doc, g)
    BY <1>2, <1>3, <2>1, <2>5 DEF e
  <2> QED BY <2>3, <2>4, <2>5 DEF e
<1>4. ASSUME r.hash \in d.docs, NEW shared, e = Participate(b, r, r.hash, shared, d, failing)
      PROVE  e.session.up = b.up /\ Serves(s, e, r, d, failing)
  <2>1. r.hash = Asked(r, d, s.user)
    BY <1>4 DEF Asked
  <2> HIDE DEF e
  <2> QED BY <1>3, <1>4, <2>1 DEF e
<1>5. ASSUME r.hash \notin d.docs,
             e = Participate(b, r, Doc(b.user, r.hash), FALSE,
                             WithFile(d, b.user, r.name, Doc(b.user, r.hash)), failing)
      PROVE  e.session.up = b.up /\ Serves(s, e, r, d, failing)
  <2> DEFINE new == Doc(b.user, r.hash)
             f == WithFile(d, b.user, r.name, new)
  <2>1. new = Asked(r, d, s.user) /\ f.alias = d.alias
    BY <1>5 DEF Asked, WithFile, AreTables
  <2>2. DOMAIN f = DOMAIN d
    BY DEF WithFile, AreTables
  <2> HIDE DEF new, f, e
  <2>3. e = Participate(b, r, new, FALSE, f, failing)
    BY <1>5 DEF new, f, e
  <2> QED BY <1>3, <2>1, <2>2, <2>3 DEF e
<1>6. [b EXCEPT !.file = Nothing].user = s.user /\ [b EXCEPT !.file = Nothing].up = b.up
  OBVIOUS
<1> DEFINE none == [b EXCEPT !.file = Nothing]
           new == Doc(b.user, r.hash)
           f == WithFile(d, b.user, r.name, new)
<1>7. \/ r.hash \in d.docs /\ \E shared : e = Participate(b, r, r.hash, shared, d, failing)
      \/ e = Said(b, "OPEN_FILE", "BAD", Nothing, d)
      \/ e = Said(none, "OPEN_FILE", "ERROR", Nothing, d)
      \/ r.hash \notin d.docs /\ e = Participate(b, r, new, FALSE, f, failing)
  BY ConnectIs, Zenon
<1>8. ASSUME r.hash \in d.docs /\ \E shared : e = Participate(b, r, r.hash, shared, d, failing)
      PROVE  e.session.up = b.up /\ Serves(s, e, r, d, failing)
  <2> HIDE DEF e
  <2> QED BY <1>4, <1>8
<1>9. ASSUME e = Said(b, "OPEN_FILE", "BAD", Nothing, d)
      PROVE  e.session.up = b.up /\ Serves(s, e, r, d, failing)
  <2> HIDE DEF e
  <2> QED BY <1>1, <1>9
<1>10. ASSUME e = Said(none, "OPEN_FILE", "ERROR", Nothing, d)
      PROVE  e.session.up = b.up /\ Serves(s, e, r, d, failing)
  <2> HIDE DEF e, none
  <2>1. none.user = s.user /\ none.up = b.up
    BY <1>6 DEF none
  <2> QED BY <1>1, <1>10, <2>1
<1>11. ASSUME r.hash \notin d.docs /\ e = Participate(b, r, new, FALSE, f, failing)
      PROVE  e.session.up = b.up /\ Serves(s, e, r, d, failing)
  BY <1>5, <1>11
<1> HIDE DEF e, none, new, f
<1>12. e.session.up = b.up /\ Serves(s, e, r, d, failing)
  BY <1>7, <1>8, <1>9, <1>10, <1>11
<1> QED BY <1>12 DEF e

\* Whatever comes of a request, the session keeps the rest of its requests,
\* and its document but for those that end its part in it.
LEMMA HandledServes ==
  ASSUME NEW s, DOMAIN s = {"user", "file", "joined", "up"}, s.joined \in BOOLEAN,
         NEW r, r.type \in Answerable \cup {"CRDT", "CHAT", "SAVE_FILE"},
         NEW d, AreTables(d), NEW failing, NEW other
  PROVE  LET e == Handled(s, other, r, d, failing)
         IN  e.session.up = s.up /\ Serves(s, e, r, d, failing)
<1> DEFINE e == Handled(s, other, r, d, failing)
<1>1. ASSUME NEW t, t.up = s.up, NEW result \in {"SUCCESS", "BAD", "ERROR"}, NEW body, NEW f,
             e = Said(t, r.type, result, body, f),
             \A m : m.result = result /\ m.body = body => Replies(s, t, r, d, f, failing, m)
      PROVE  e.session.up = s.up /\ Serves(s, e, r, d, failing)
  <2> DEFINE m == [type |-> r.type, result |-> result, body |-> body]
  <2>1. e.session = t /\ e.db = f /\ e.answers = <<m>> /\ m.type = r.type
        /\ m.result = result /\ m.body = body
    BY <1>1, SaidIs
  <2> HIDE DEF m, e
  <2>2. Replies(s, e.session, r, d, e.db, failing, m)
    BY <1>1, <2>1
  <2>3. Serves(s, e, r, d, failing)
    BY <1>1, <2>1, <2>2 DEF Serves
  <2> QED BY <1>1, <2>1, <2>3
<1>2. ASSUME r.type \in {"CRDT", "SAVE_FILE", "CHAT"}, e = Effect(s, <<>>, d)
      PROVE  e.session.up = s.up /\ Serves(s, e, r, d, failing)
  BY <1>2 DEF Effect, Serves, Keeps
<1>3. CASE r.type = "LOGIN"
  <2> DEFINE l == LoginUser(d.accounts, s.user, r.user, r.password, "first" \in failing)
             t == [s EXCEPT !.user = l.user]
             body == IF l.result = "SUCCESS"
                     THEN [user |-> l.user, alias |-> AliasOf(d, l.user),
                           files |-> FilesOf(d, l.user, failing)]
                     ELSE Nothing
  <2>1. e = Said(t, r.type, l.result, body, d)
    BY <1>3 DEF Handled, HandleLogin
  <2>2. l.result \in {"SUCCESS", "BAD", "ERROR"}
    BY DEF LoginUser
  <2> HIDE DEF l
  <2>3. /\ t.user = l.user /\ t.file = s.file /\ t.joined = s.joined /\ t.up = s.up
        /\ l.result = "SUCCESS" => body.user = l.user /\ body.alias = AliasOf(d, l.user)
    OBVIOUS
  <2> HIDE DEF t, body, e
  <2>4. \A m : m.result = l.result /\ m.body = body => Replies(s, t, r, d, d, failing, m)
    BY <1>3, <2>3 DEF Replies
  <2>5. e.session.up = s.up /\ Serves(s, e, r, d, failing)
    BY <1>1, <2>1, <2>2, <2>3, <2>4
  <2> QED BY <2>5 DEF e
<1>4. CASE r.type = "SIGNUP"
  <2> DEFINE n == SignupUser(d.accounts, r.account, failing)
             f == [d EXCEPT !.accounts = n.accounts]
  <2>1. e = Said(s, r.type, n.result, r.account, f)
    BY <1>4 DEF Handled, HandleSignup
  <2>2. n.result \in {"SUCCESS", "BAD", "ERROR"}
    BY DEF SignupUser
  <2>3. f.alias = d.alias
    BY DEF AreTables
  <2> HIDE DEF n, f, e
  <2>4. \A m : Replies(s, s, r, d, f, failing, m)
    BY <1>4, <2>3 DEF Replies, Keeps
  <2>5. e.session.up = s.up /\ Serves(s, e, r, d, failing)
    BY <1>1, <2>1, <2>2, <2>4
  <2> QED BY <2>5 DEF e
<1>5. CASE r.type = "UPDATE_USER"
  <2> DEFINE alias == [u \in DOMAIN d.alias \cup {s.user} |->
                         IF u = s.user THEN r.alias ELSE d.alias[u]]
             f == [d EXCEPT !.alias = alias]
  <2>1. f.docs = d.docs /\ AliasOf(f, s.user) = r.alias
    BY DEF AreTables, AliasOf
  <2> HIDE DEF e
  <2>2. CASE "exec" \in failing
    <3>1. \/ e = Said(s, r.type, "ERROR", Nothing, d)
          \/ e = Said(s, r.type, "SUCCESS", Nothing, d)
      BY <1>5, <2>2 DEF Handled, HandleUpdateUser, e
    <3>2. \A m : m.result \in {"SUCCESS", "ERROR"} => Replies(s, s, r, d, d, failing, m)
      BY <1>5, <2>2 DEF Replies, Keeps
    <3>3. e.session.up = s.up /\ Serves(s, e, r, d, failing)
      BY <1>1, <3>1, <3>2 DEF e
    <3> QED BY <3>3 DEF e
  <2>3. CASE "exec" \notin failing
    <3>1. \/ e = Said(s, r.type, "ERROR", Nothing, d)
          \/ e = Said(s, r.type, "SUCCESS", Nothing, f)
      BY <1>5, <2>3 DEF Handled, HandleUpdateUser, e
    <3> HIDE DEF f
    <3>2. /\ \A m : m.result = "ERROR" => Replies(s, s, r, d, d, failing, m)
          /\ \A m : m.result = "SUCCESS" => Replies(s, s, r, d, f, failing, m)
      BY <1>5, <2>1 DEF Replies, Keeps
    <3>3. e.session.up = s.up /\ Serves(s, e, r, d, failing)
      BY <1>1, <3>1, <3>2 DEF e
    <3> QED BY <3>3 DEF e
  <2> QED BY <2>2, <2>3
<1>6. CASE r.type = "GET_FILES"
  <2> DEFINE body == FilesOf(d, s.user, failing)
  <2>1. e = Said(s, r.type, "SUCCESS", body, d)
    BY <1>6 DEF Handled, HandleGetFiles
  <2> HIDE DEF e, body
  <2>2. \A m : m.result = "SUCCESS" => Replies(s, s, r, d, d, failing, m)
    BY <1>6 DEF Replies, Keeps
  <2>3. e.session.up = s.up /\ Serves(s, e, r, d, failing)
    BY <1>1, <2>1, <2>2
  <2> QED BY <2>3 DEF e
<1>7. CASE r.type = "OPEN_FILE"
  <2> HIDE DEF e
  <2>1. CASE e = Said(s, r.type, "BAD", Nothing, d)
    <3>1. \A m : m.result = "BAD" => Replies(s, s, r, d, d, failing, m)
      BY <1>7 DEF Replies
    <3>2. e.session.up = s.up /\ Serves(s, e, r, d, failing)
      BY <1>1, <2>1, <3>1 DEF e
    <3> QED BY <3>2 DEF e
  <2>2. CASE e = Connect(Left(s), r, d, failing)
    <3> DEFINE b == Left(s)
               x == Connect(b, r, d, failing)
    <3>1. DOMAIN b = {"user", "file", "joined", "up"} /\ b.user = s.user /\ b.up = s.up
      BY LeftIs
    <3> HIDE DEF b
    <3>2. x.session.up = b.up /\ Serves(s, x, r, d, failing)
      BY <1>7, <3>1, ConnectServes
    <3> QED BY <2>2, <3>1, <3>2 DEF b, e
  <2> QED BY <1>7, <2>1, <2>2 DEF e, Handled, HandleOpenFile
<1>8. CASE r.type = "DELETE_FILE"
  <2> DEFINE b == [d EXCEPT !.rows = @ \ {x \in RowsOf(d, s.user) : x.doc = r.hash}]
  <2>1. \E result \in {"SUCCESS", "BAD", "ERROR"} : \E f \in {d, b} :
          e = Said(s, r.type, result, Nothing, f)
    BY <1>8 DEF Handled, HandleDelete
  <2>a. b.alias = d.alias
    BY DEF AreTables
  <2> HIDE DEF b
  <2>2. PICK result \in {"SUCCESS", "BAD", "ERROR"}, f \in {d, b} :
          f.alias = d.alias /\ e = Said(s, r.type, result, Nothing, f)
    BY <2>1, <2>a
  <2> HIDE DEF e
  <2>3. \A m : Replies(s, s, r, d, f, failing, m)
    BY <1>8, <2>2 DEF Replies, Keeps
  <2>4. e.session.up = s.up /\ Serves(s, e, r, d, failing)
    BY <1>1, <2>2, <2>3 DEF e
  <2> QED BY <2>4 DEF e
<1>9. CASE r.type \in {"LOGOUT", "QUIT_FILE"}
  <2>1. e = Said(Left(s), r.type, "SUCCESS", Nothing, d)
    BY <1>9 DEF Handled
  <2> HIDE DEF e
  <2>2. Left(s).user = s.user /\ Left(s).up = s.up /\ Left(s).joined = FALSE
    BY LeftIs
  <2>3. \A m : m.result = "SUCCESS" => Replies(s, Left(s), r, d, d, failing, m)
    BY <1>9, <2>2 DEF Replies
  <2>4. e.session.up = s.up /\ Serves(s, e, r, d, failing)
    BY <1>1, <2>1, <2>2, <2>3 DEF e
  <2> QED BY <2>4 DEF e
<1>10. CASE r.type = "LOAD_FILE"
  <2>1. e = Said(s, r.type, "SUCCESS", s.file, d)
    BY <1>10 DEF Handled
  <2> HIDE DEF e
  <2>2. \A m : m.result = "SUCCESS" /\ m.body = s.file => Replies(s, s, r, d, d, failing, m)
    BY <1>10 DEF Replies, Keeps
  <2>3. e.session.up = s.up /\ Serves(s, e, r, d, failing)
    BY <1>1, <2>1, <2>2 DEF e
  <2> QED BY <2>3 DEF e
<1>11. CASE r.type \in {"CRDT", "SAVE_FILE", "CHAT"}
  <2>1. e = Effect(s, <<>>, d) \/ (r.type = "CHAT" /\ e = Said(s, r.type, "SUCCESS", s.file, d))
    BY <1>11 DEF Handled
  <2> HIDE DEF e
  <2>2. ASSUME r.type = "CHAT" PROVE \A m : m.result = "SUCCESS" => Replies(s, s, r, d, d, failing, m)
    BY <2>2 DEF Replies, Keeps
  <2>3. e.session.up = s.up /\ Serves(s, e, r, d, failing)
    BY <1>1, <1>2, <1>11, <2>1, <2>2 DEF e
  <2> QED BY <2>3 DEF e
<1> QED BY <1>3, <1>4, <1>5, <1>6, <1>7, <1>8, <1>9, <1>10, <1>11 DEF Answerable

\* The same of the request at the front.
LEMMA TakenServes ==
  ASSUME NEW s, DOMAIN s = {"user", "file", "joined", "up"}, s.joined \in BOOLEAN,
         Head(s.up).type \in Answerable \cup {"CRDT", "CHAT", "SAVE_FILE"},
         NEW d, AreTables(d), NEW failing, NEW other
  PROVE  LET e == Handled([s EXCEPT !.up = Tail(@)], other, Head(s.up), d, failing)
         IN  e.session.up = Tail(s.up) /\ Serves(s, e, Head(s.up), d, failing)
<1> DEFINE t == [s EXCEPT !.up = Tail(@)]
           r == Head(s.up)
           e == Handled(t, other, r, d, failing)
<1>1. /\ DOMAIN t = {"user", "file", "joined", "up"} /\ t.joined \in BOOLEAN /\ t.up = Tail(s.up)
      /\ t.user = s.user /\ t.file = s.file /\ t.joined = s.joined
  OBVIOUS
<1> HIDE DEF t, r
<1>2. e.session.up = t.up /\ Serves(t, e, r, d, failing)
  BY <1>1, HandledServes DEF r
<1> HIDE DEF e
<1>3. Serves(s, e, r, d, failing)
  <2>1. ASSUME NEW f, NEW m, Replies(t, e.session, r, d, f, failing, m)
        PROVE  Replies(s, e.session, r, d, f, failing, m)
    BY <1>1, <2>1 DEF Replies, Keeps
  <2>2. Keeps(t, e.session) => Keeps(s, e.session)
    BY <1>1 DEF Keeps
  <2> QED BY <1>1, <1>2, <2>1, <2>2 DEF Serves
<1> QED BY <1>1, <1>2, <1>3 DEF e, t, r

\* What is left of the requests is safe.
LEMMA ServedSafe ==
  ASSUME NEW s, IsSeq(s.up), s.up # <<>>, Safe(s.up, s.file), NEW e, NEW d, NEW failing,
         e.session.up = Tail(s.up), Serves(s, e, Head(s.up), d, failing)
  PROVE  Safe(e.session.up, e.session.file)
<1>1. CASE Head(s.up).type \in Ends
  BY <1>1, SafeTail
<1>2. CASE Head(s.up).type \notin Ends
  <2>1. e.session.file = s.file
    BY <1>2 DEF Serves, Replies, Keeps, Ends
  <2> QED BY <2>1, SafeTail
<1> QED BY <1>1, <1>2

\* A request that is handled: the session, its answers and the tables are what
\* the client is to see of it.
LEMMA ServedTalks ==
  ASSUME NEW c, NEW s, NEW a, NEW d, NEW e, NEW sp, NEW q, NEW failing,
         IsSeq(s.up), s.up # <<>>, IsSeq(a), Talk(c, s, a, d, sp),
         e.session.up = Tail(s.up), Serves(s, e, Head(s.up), d, failing),
         Shows(c, e.db.docs) = Shows(c, d.docs),
         "exec" \notin q => "exec" \notin sp /\ "exec" \notin failing
  PROVE  Talk(c, e.session, a \o e.answers, e.db, q)
<1> DEFINE t == e.session
           f == e.db
           r == Head(s.up)
           b == a \o e.answers
<1>1. f.alias = d.alias => Later(c, d, f, sp, q)
  BY DEF Later
<1>2. ASSUME NEW m, e.answers = <<m>>, m.type = r.type, m.result \in {"SUCCESS", "BAD", "ERROR"},
             Replies(s, t, r, d, f, failing, m)
      PROVE  Talk(c, t, b, f, q)
  <2>1. b = Append(a, m)
    BY <1>2, AddedOne
  <2>2. CASE r.type = "LOGIN"
    <3>1. /\ f.alias = d.alias /\ t.file = s.file /\ t.joined = s.joined
          /\ m.result = "SUCCESS" => m.body.user = t.user /\ m.body.alias = AliasOf(d, t.user)
      BY <1>2, <2>2 DEF Replies
    <3>2. m.result = "SUCCESS" => m.body.user = t.user /\ m.body.alias = AliasOf(f, t.user)
      BY <3>1, SameAlias
    <3> HIDE DEF t, f, b
    <3> QED BY <1>1, <1>2, <2>1, <2>2, <3>1, <3>2, TalkLoggingIn DEF t
  <2>3. CASE r.type \in {"SIGNUP", "DELETE_FILE"}
    <3>1. Keeps(s, t) /\ f.alias = d.alias
      BY <1>2, <2>3 DEF Replies
    <3> QED BY <1>1, <1>2, <2>1, <2>3, <3>1, TalkAccount DEF Keeps
  <2>4. CASE r.type = "UPDATE_USER"
    <3>1. /\ Keeps(s, t) /\ m.result \in {"SUCCESS", "ERROR"} /\ f.docs = d.docs
          /\ "exec" \notin failing =>
               AliasOf(f, s.user) = IF m.result = "SUCCESS" THEN r.alias ELSE AliasOf(d, s.user)
      BY <1>2, <2>4 DEF Replies
    <3> QED BY <1>2, <2>1, <2>4, <3>1, TalkUpdate DEF Keeps
  <2>5. CASE r.type = "LOGOUT"
    <3>1. t.user = s.user /\ ~t.joined /\ f.alias = d.alias /\ m.result = "SUCCESS"
      BY <1>2, <2>5 DEF Replies
    <3> QED BY <1>1, <1>2, <2>1, <2>5, <3>1, TalkLoggingOut
  <2>6. CASE r.type \in {"QUIT_FILE", "GET_FILES"}
    <3>1. /\ t.user = s.user /\ f.alias = d.alias /\ m.result = "SUCCESS"
          /\ r.type = "QUIT_FILE" => ~t.joined
          /\ r.type = "GET_FILES" => Keeps(s, t)
      BY <1>2, <2>6 DEF Replies, Keeps
    <3> QED BY <1>1, <1>2, <2>1, <2>6, <3>1, TalkPassing DEF Keeps
  <2>7. CASE r.type = "LOAD_FILE"
    <3>1. Keeps(s, t) /\ f.alias = d.alias /\ m.result = "SUCCESS" /\ m.body = s.file
      BY <1>2, <2>7 DEF Replies
    <3> QED BY <1>1, <1>2, <2>1, <2>7, <3>1, TalkLoading DEF Keeps
  <2>8. CASE r.type = "OPEN_FILE"
    <3>1. t.user = s.user /\ f.alias = d.alias /\ m.result \in {"BAD", "ERROR"}
      BY <1>2, <2>8 DEF Replies
    <3> QED BY <1>1, <1>2, <2>1, <2>8, <3>1, TalkRefused
  <2>9. CASE r.type = "CHAT"
    <3>1. Keeps(s, t) /\ f.alias = d.alias /\ m.result = "SUCCESS"
      BY <1>2, <2>9 DEF Replies
    <3>2. \E n : /\ b = Append(a, n) /\ n.type \in {"CRDT", "CHAT"} /\ n.result = "SUCCESS"
                 /\ n.type = "CRDT" => s.joined /\ n.body = s.file
      BY <1>2, <2>1, <2>9, <3>1
    <3> HIDE DEF b, t, f
    <3>3. Later(c, d, f, sp, q)
      BY <1>1, <3>1
    <3>4. t.user = s.user /\ t.joined = s.joined /\ t.file = s.file /\ t.up = Tail(s.up)
      BY <3>1 DEF Keeps, t
    <3> QED BY <2>9, <3>2, <3>3, <3>4, TalkAside
  <2> QED BY <1>2, <2>2, <2>3, <2>4, <2>5, <2>6, <2>7, <2>8, <2>9 DEF Replies
<1>3. ASSUME NEW m, NEW n, e.answers = <<m>> \o <<n>>, Opens(m), n.type = "LOAD_FILE",
             n.result = "SUCCESS", n.body = t.file, r.type = "OPEN_FILE", t.user = s.user,
             t.joined, t.file = Asked(r, d, s.user), f.alias = d.alias
      PROVE  Talk(c, t, b, f, q)
  <2>1. b = Append(Append(a, m), n)
    <3>1. a \o (<<m>> \o <<n>>) = Append(Append(a, m), n)
      BY AddedTwo
    <3> QED BY <1>3, <3>1, Zenon
  <2>2. r.hash = c.hash
    <3>1. r \in ToSet(s.up)
      BY AtTail
    <3> QED BY <1>3, <3>1 DEF Talk, Texts
  <2>3. s.user = c.user
    <3>1. Due(s.up, a, "OPEN_FILE")
      BY <1>3, HasTail DEF Due
    <3> QED BY <3>1 DEF Talk, Expected, Profiles
  <2>4. t.file = Shows(c, f.docs)
    BY <1>3, <2>2, <2>3 DEF Asked, Shows
  <2> QED BY <1>1, <1>3, <2>1, <2>4, TalkOpening
<1>4. ASSUME r.type \in {"CRDT", "SAVE_FILE", "CHAT"}, e.answers = <<>>, Keeps(s, t),
             f.alias = d.alias
      PROVE  Talk(c, t, b, f, q)
  <2>1. b = a
    BY <1>4 DEF IsSeq
  <2>2. t.user = s.user /\ t.joined = s.joined /\ t.file = s.file /\ t.up = Tail(s.up)
    BY <1>4 DEF Keeps
  <2>3. Later(c, d, f, sp, q)
    BY <1>1, <1>4
  <2> HIDE DEF b, t, f
  <2> QED BY <1>4, <2>1, <2>2, <2>3, TalkAside
<1> HIDE DEF b
<1>5. Talk(c, t, b, f, q)
  BY <1>2, <1>3, <1>4 DEF Serves
<1> QED BY <1>5 DEF b

\* The session handles a request.
LEMMA ServeTalks ==
  ASSUME CInv, TalkInv, Serve
  PROVE  TalkInv'
<1>1. session.up # <<>> /\ hasty' = hasty
  BY DEF Serve, Crash
<1> SUFFICES ASSUME ~hasty PROVE TalkInv'
  BY <1>1 DEF TalkInv
<1>2. ~crashed /\ Conn(client, session, ghost, answers, db.docs)
  BY DEF TalkInv
<1>3. /\ IsSeq(session.up) /\ IsSeq(answers) /\ DOMAIN session = {"user", "file", "joined", "up"}
      /\ session.joined \in BOOLEAN /\ AreTables(db)
  BY Known DEF CInv, IsSession
<1>4. ~Fatal(session)
  BY <1>1, <1>2, <1>3, SafeTail DEF Conn, Fatal
<1>5. PICK failing \in Failures(Head(session.up).type) :
        LET e == Effects(session, ghost, failing)
        IN  /\ session' = e.session /\ db' = e.db
            /\ answers' = IF client.socket = "open" THEN answers \o e.answers ELSE answers
            /\ spoilt' = spoilt \cup (failing \cap {"exec"}) \cup
                 (IF failing \subseteq {"full"} /\ Head(session.up).type # "DELETE_FILE"
                  THEN {} ELSE {"names"})
            /\ UNCHANGED <<client, ghost, crashed>>
  BY <1>4 DEF Serve
<1> DEFINE e == Effects(session, ghost, failing)
<1>6. e.session.up = Tail(session.up) /\ Serves(session, e, Head(session.up), db, failing)
  <2>1. Head(session.up) \in ToSet(session.up)
    BY <1>1, <1>3, AtTail
  <2> QED BY <1>3, <2>1, Known, TakenServes DEF Effects
<1>7. db.docs \subseteq e.db.docs /\ e.db.docs \subseteq Docs
  <2>1. IsEffect(e, db, failing)
    BY <1>1, TakenIsEffect DEF CInv
  <2> QED BY <2>1 DEF IsEffect, AreTables
<1>8. /\ session' = e.session /\ db' = e.db
      /\ answers' = (IF client.socket = "open" THEN answers \o e.answers ELSE answers)
      /\ "exec" \notin spoilt' => "exec" \notin spoilt /\ "exec" \notin failing
      /\ UNCHANGED <<client, ghost, crashed>>
  BY <1>5
<1> HIDE DEF e
<1>9. Safe(session'.up, session'.file)
  BY <1>1, <1>2, <1>3, <1>6, <1>8, ServedSafe DEF Conn
<1>10. Conn(client', session', ghost', answers', db'.docs)
  BY <1>1, <1>2, <1>7, <1>8, <1>9 DEF Conn
<1>11. ASSUME client.socket = "open" PROVE Talk(client', session', answers', db', spoilt')
  <2>1. Talk(client, session, answers, db, spoilt)
    BY <1>11 DEF TalkInv
  <2>2. Shows(client, e.db.docs) = Shows(client, db.docs)
    BY <1>2, <1>7, ShowsStays DEF Conn
  <2>3. Talk(client, e.session, answers \o e.answers, e.db, spoilt')
    BY <1>1, <1>3, <1>6, <1>8, <2>1, <2>2, ServedTalks
  <2> QED BY <1>8, <1>11, <2>3
<1> QED BY <1>2, <1>8, <1>10, <1>11 DEF TalkInv

\* A session that is left behind does not disturb the conversation: what it
\* changes of the alias is counted.
LEMMA GhostTalks ==
  ASSUME CInv, TalkInv, ServeGhost \/ Disconnect
  PROVE  TalkInv'
<1>1. hasty' = hasty
  BY DEF ServeGhost, Crash, Disconnect
<1> SUFFICES ASSUME ~hasty PROVE TalkInv'
  BY <1>1 DEF TalkInv
<1>2. ~crashed /\ Conn(client, session, ghost, answers, db.docs)
  BY DEF TalkInv
<1>3. CASE Disconnect
  <2>1. ghost' = NoSession /\ UNCHANGED <<client, session, answers, db, crashed, spoilt>>
    BY <1>3 DEF Disconnect
  <2>2. Conn(client', session', ghost', answers', db'.docs)
    BY <1>2, <2>1, SafeNothing DEF Conn, NoSession
  <2> QED BY <1>2, <2>1, <2>2 DEF TalkInv
<1>4. CASE ServeGhost
  <2>1. ghost.up # <<>>
    BY <1>4 DEF ServeGhost
  <2>2. /\ IsSeq(ghost.up) /\ DOMAIN ghost = {"user", "file", "joined", "up"}
        /\ ghost.joined \in BOOLEAN /\ AreTables(db)
        /\ Head(ghost.up).type \in Answerable \cup {"CRDT", "CHAT", "SAVE_FILE"}
    <3>1. /\ IsSeq(ghost.up) /\ DOMAIN ghost = {"user", "file", "joined", "up"}
          /\ ghost.joined \in BOOLEAN /\ AreTables(db)
      BY Known DEF CInv, IsSession
    <3>2. Head(ghost.up) \in ToSet(ghost.up)
      BY <2>1, <3>1, AtTail
    <3> QED BY <3>1, <3>2 DEF CInv, IsSession, AreRequests, IsRequest
  <2>3. ~Fatal(ghost)
    BY <1>2, <2>1, <2>2, SafeTail DEF Conn, Fatal
  <2> DEFINE e == Effects(ghost, session, {})
  <2>4. /\ ghost' = e.session /\ db' = e.db
        /\ "exec" \notin spoilt' => "exec" \notin spoilt /\ db'.alias = db.alias
        /\ UNCHANGED <<client, session, answers, crashed>>
    <3>1. /\ ghost' = e.session /\ db' = e.db
          /\ spoilt' = spoilt \cup {t \in {"exec"} : db'.alias # db.alias}
                               \cup {t \in {"names"} : db'.rows # db.rows}
          /\ UNCHANGED <<client, session, answers, crashed>>
      BY <1>4, <2>3 DEF ServeGhost
    <3>2. "exec" \notin spoilt' => "exec" \notin spoilt /\ db'.alias = db.alias
      BY <3>1
    <3> QED BY <3>1, <3>2
  <2>5. e.session.up = Tail(ghost.up) /\ Serves(ghost, e, Head(ghost.up), db, {})
    BY <2>2, TakenServes DEF Effects
  <2>6. db.docs \subseteq e.db.docs /\ e.db.docs \subseteq Docs
    <3>1. IsEffect(e, db, {})
      BY <2>1, TakenIsEffect DEF CInv
    <3> QED BY <3>1 DEF IsEffect, AreTables
  <2> HIDE DEF e
  <2>7. Safe(ghost'.up, ghost'.file)
    BY <1>2, <2>1, <2>2, <2>4, <2>5, ServedSafe DEF Conn
  <2>8. Conn(client', session', ghost', answers', db'.docs)
    BY <1>2, <2>4, <2>6, <2>7 DEF Conn
  <2>9. Shows(client, db'.docs) = Shows(client, db.docs)
    BY <1>2, <2>4, <2>6, ShowsStays DEF Conn
  <2>10. Later(client, db, db', spoilt, spoilt')
    BY <2>4, <2>9 DEF Later
  <2>11. client.socket = "open" => Talk(client', session', answers', db', spoilt')
    BY <2>4, <2>10, TalkLater DEF TalkInv
  <2> QED BY <1>2, <2>4, <2>8, <2>11 DEF TalkInv
<1> QED BY <1>3, <1>4

\* Others edit the document, or say something.
LEMMA PeerTalks ==
  ASSUME CInv, TalkInv, Peer
  PROVE  TalkInv'
<1>1. /\ session.joined /\ client.socket = "open"
      /\ UNCHANGED <<client, session, ghost, db, crashed, hasty, spoilt>>
  BY DEF Peer
<1> SUFFICES ASSUME ~hasty PROVE TalkInv'
  BY <1>1 DEF TalkInv
<1>2. /\ ~crashed /\ Conn(client, session, ghost, answers, db.docs)
      /\ Talk(client, session, answers, db, spoilt)
  BY <1>1 DEF TalkInv
<1>3. PICK type \in {"CRDT", "CHAT"} : answers' = answers \o Answer(type, "SUCCESS", session.file)
  BY DEF Peer
<1> DEFINE m == [type |-> type, result |-> "SUCCESS", body |-> session.file]
<1>4. m.type \in {"CRDT", "CHAT"} /\ m.result = "SUCCESS" /\ m.body = session.file
  OBVIOUS
<1>5. answers' = Append(answers, m)
  BY <1>3, Known, AddedOne DEF Answer
<1> HIDE DEF m
<1>6. Later(client, db, db, spoilt, spoilt)
  BY DEF Later
<1>7. \E n : /\ answers' = Append(answers, n) /\ n.type \in {"CRDT", "CHAT"} /\ n.result = "SUCCESS"
             /\ n.type = "CRDT" => session.joined /\ n.body = session.file
  BY <1>1, <1>4, <1>5
<1>8. Talk(client, session, answers', db, spoilt)
  BY <1>2, <1>6, <1>7, Known, TalkAside
<1>9. Conn(client', session', ghost', answers', db'.docs)
  BY <1>1, <1>2 DEF Conn
<1> QED BY <1>1, <1>2, <1>8, <1>9 DEF TalkInv

-----------------------------------------------------------------------------
(* The connection.                                                         *)

\* A new connection has nothing to wait for.
LEMMA AcceptTalks ==
  ASSUME CInv, TalkInv, Accept
  PROVE  TalkInv'
<1>1. /\ client.socket = "opening" /\ client' = Opened(client) /\ session' = NewSession
      /\ UNCHANGED <<answers, ghost, db, crashed, hasty, spoilt>>
  BY DEF Accept
<1> SUFFICES ASSUME ~hasty PROVE TalkInv'
  BY <1>1 DEF TalkInv
<1>2. ~crashed /\ Conn(client, session, ghost, answers, db.docs)
  BY DEF TalkInv
<1>3. /\ answers = <<>> /\ client.access /\ ~client.dialog /\ client.editor # "shown"
      /\ ~client.modal
  BY <1>1, <1>2 DEF Conn
<1>4. /\ client'.access /\ ~client'.dialog /\ client'.editor # "shown" /\ ~client'.modal
      /\ client'.hash = client.hash /\ client'.socket = "open"
  BY <1>1, <1>3, Known DEF Opened, ClientFields
<1>5. session'.up = <<>> /\ session'.file = Nothing /\ session'.joined = FALSE
  BY <1>1 DEF NewSession, NoSession
<1>6. Conn(client', session', ghost', answers', db'.docs)
  BY <1>1, <1>2, <1>4, <1>5, SafeNothing DEF Conn
<1>7. Talk(client', session', <<>>, db, spoilt)
  <2>1. /\ \A t : ~Has(<<>>, t) /\ ~Due(<<>>, <<>>, t)
        /\ ToSet(<<>>) = {} /\ ~OpenThenLoad(<<>>)
    BY HasNothing DEF Due, ToSet, OpenThenLoad
  <2>2. Exchange(session'.up, <<>>)
    BY <1>5, <2>1 DEF Exchange, Among
  <2>3. Expected(client', session'.up, <<>>) /\ Results(<<>>)
    BY <1>5, <2>1 DEF Expected, Results
  <2>4. Dialogs(client', session'.up, <<>>)
    BY <1>4, <1>5, <2>1 DEF Dialogs
  <2>5. Windows(client', session', <<>>)
    BY <1>4, <1>5, <2>1 DEF Windows
  <2>6. Texts(client', session', <<>>, db.docs)
    BY <1>4, <1>5, <2>1 DEF Texts, Right
  <2>7. Profiles(client', session', <<>>, db, spoilt)
    BY <1>4, <1>5, <2>1 DEF Profiles
  <2> QED BY <2>2, <2>3, <2>4, <2>5, <2>6, <2>7 DEF Talk
<1> QED BY <1>1, <1>2, <1>3, <1>6, <1>7 DEF TalkInv

\* A connection that is given up, and one that breaks.
LEMMA BreakTalks ==
  ASSUME CInv, TalkInv, Timeout \/ Lose \/ Drop
  PROVE  TalkInv'
<1>1. UNCHANGED <<db, crashed, hasty, spoilt>>
  BY DEF Timeout, Lose, Drop, Silent
<1> SUFFICES ASSUME ~hasty PROVE TalkInv'
  BY <1>1 DEF TalkInv
<1>2. ~crashed /\ Conn(client, session, ghost, answers, db.docs)
  BY DEF TalkInv
<1>3. ASSUME NEW c, Silent(c), Given(c), DOMAIN c = ClientFields, c.hash = client.hash
      PROVE  TalkInv'
  <2>1. Become(c, answers)
    BY <1>3 DEF Silent
  <2>2. Conn(client', session', ghost', answers', db'.docs) /\ client'.socket # "open"
    BY <1>1, <1>2, <1>3, <2>1, ConnGiven
  <2> QED BY <1>1, <1>2, <2>2 DEF TalkInv
<1>4. CASE Timeout
  <2>1. Silent(TimedOut(client))
    BY <1>4 DEF Timeout
  <2>2. /\ Given(TimedOut(client)) /\ DOMAIN TimedOut(client) = ClientFields
        /\ TimedOut(client).hash = client.hash
    BY Known DEF TimedOut, Show, Given, ClientFields
  <2> QED BY <1>3, <2>1, <2>2
<1>5. CASE Drop
  <2> DEFINE c == [client EXCEPT !.socket = "closed"]
  <2>1. Silent(c)
    BY <1>5 DEF Drop
  <2>2. Given(c) /\ DOMAIN c = ClientFields /\ c.hash = client.hash
    BY Known DEF Given, ClientFields
  <2> HIDE DEF c
  <2> QED BY <1>3, <2>1, <2>2
<1>6. CASE Lose
  <2>1. /\ client' = [client EXCEPT !.socket = "lost"] /\ answers' = <<>> /\ ghost' = ghost
        /\ \E k \in 0..Len(session.up) : session' = [session EXCEPT !.up = SubSeq(@, 1, k)]
    BY <1>6 DEF Lose
  <2>2. client'.socket = "lost" /\ client'.hash = client.hash
    BY <2>1, Known DEF ClientFields
  <2>3. PICK k \in 0..Len(session.up) :
          session'.up = SubSeq(session.up, 1, k) /\ session'.file = session.file
    BY <2>1, Known
  <2>4. Safe(session'.up, session'.file)
    BY <1>2, <2>3, Known, SafePrefix DEF Conn
  <2>5. Conn(client', session', ghost', answers', db'.docs)
    BY <1>1, <1>2, <2>1, <2>2, <2>4 DEF Conn
  <2> QED BY <1>1, <1>2, <2>2, <2>5 DEF TalkInv
<1> QED BY <1>4, <1>5, <1>6

-----------------------------------------------------------------------------
(* The specification.                                                      *)

LEMMA TalkInit == Init => TalkInv
<1> SUFFICES ASSUME Init PROVE Conn(client, session, ghost, answers, db.docs)
                                 /\ ~crashed /\ client.socket # "open"
  BY DEF TalkInv
<1>1. /\ client.socket = "opening" /\ client.access /\ ~client.dialog /\ client.editor # "shown"
      /\ ~client.modal /\ client.hash = Nothing
  BY DEF Init, NewClient
<1>2. session.up = <<>> /\ ghost.up = <<>> /\ answers = <<>> /\ ~crashed
  BY DEF Init, NoSession
<1> QED BY <1>1, <1>2, SafeNothing DEF Conn

\* Every step keeps the invariant.
LEMMA TalkStep ==
  ASSUME CInv, TalkInv, [Next]_vars
  PROVE  TalkInv'
<1>1. CASE UserActs
  BY <1>1, UserTalks, DismissTalks
<1>2. CASE SystemActs
  BY <1>2, ServeTalks, GhostTalks, ReceiveTalks, AcceptTalks, BreakTalks DEF SystemActs
<1>3. CASE Peer \/ Lose \/ Drop
  BY <1>3, PeerTalks, BreakTalks
<1>4. CASE UNCHANGED vars
  BY <1>4 DEF vars, TalkInv
<1> QED BY <1>1, <1>2, <1>3, <1>4 DEF Next

LEMMA TalkAlways == Spec => [](CInv /\ TalkInv)
BY CInvInit, TalkInit, CInvStep, TalkStep, PTL DEF Spec

\* A patient user's requests never make the server use the document of a
\* session that has none, although four handlers do not look whether there is
\* one: every request for it is sent while the session has its document, and
\* nothing that takes it away is handled before.  (kk_session.cpp:258-279)
THEOREM NoFileIsNull == Spec => []NoNullFile
<1>1. TalkInv => NoNullFile
  BY DEF TalkInv, NoNullFile, Patient
<1> QED BY <1>1, TalkAlways, PTL

\* When nothing is under way, the windows show what the server does for the
\* user: an editor with a valid text is of the document that his session
\* takes part in, without an editor it takes part in none, and the dialog
\* belongs to its user.  (KKClient's handlers, disconnectFromFile)
THEOREM WindowsAgree == Spec => []Agreement
<1>1. TalkInv => Agreement
  <2> SUFFICES ASSUME TalkInv, ~hasty, Settled
               PROVE  /\ EditorShown /\ client.valid =>
                           session.joined /\ session.file = client.copy
                      /\ client.dialog /\ client.editor # "shown" => ~session.joined
                      /\ FormShown => ~session.joined
                      /\ client.dialog => session.user = client.user
    BY DEF Agreement, Patient
  <2>1. session.up = <<>> /\ answers = <<>> /\ ~client.modal
    BY DEF Settled
  <2>2. Talk(client, session, <<>>, db, spoilt)
    BY DEF TalkInv, Settled
  <2>3. \A t : ~Due(<<>>, <<>>, t)
    BY HasNothing DEF Due
  <2>4. ~Moving(client, session.up, <<>>)
    BY <2>1, <2>3 DEF Moving, Broken
  <2>5. /\ client.editor = "shown" <=> session.joined
        /\ client.access => ~session.joined
    BY <2>1, <2>2, <2>3, <2>4 DEF Talk, Windows
  <2>6. /\ client.editor = "shown" /\ ~client.busy => client.copy = Shows(client, db.docs)
        /\ session.joined => session.file = Shows(client, db.docs)
    BY <2>2, <2>4 DEF Talk, Texts
  <2>7. client.dialog => session.user = client.user
    BY <2>2 DEF Talk, Dialogs, Profiles
  <2> QED BY <2>5, <2>6, <2>7 DEF EditorShown, FormShown
<1> QED BY <1>1, TalkAlways, PTL

\* The alias that the client shows is the one that the server has, whatever
\* was typed, refused, cleared or asked again in between, unless an UPDATE
\* failed unnoticed or one of an earlier connection came late.
\* (handleUpdateUserResponse)
THEOREM ProfileIsSame == Spec => []ProfileAgrees
<1>1. TalkInv => ProfileAgrees
  <2> SUFFICES ASSUME TalkInv, ~hasty, Settled, client.dialog, "exec" \notin spoilt
               PROVE  client.alias = AliasOf(db, client.user)
    BY DEF ProfileAgrees, Patient
  <2>1. Talk(client, session, <<>>, db, spoilt)
    BY DEF TalkInv, Settled
  <2> QED BY <2>1, HasNothing DEF Talk, Dialogs, Profiles
<1> QED BY <1>1, TalkAlways, PTL

\* No edit and no text is applied to the copy of another document: what is
\* still on its way when the user goes to the next one is dropped, and what
\* arrives while the file is valid is of the document of the windows.
\* (sendOpenFileRequest, handleCrdtResponse, handleLoadFileResponse)
THEOREM TextIsRight == Spec => []RightText
<1>1. Init => RightText
  BY DEF Init, RightText
<1>2. ASSUME CInv, TalkInv, RightText, [Next]_vars PROVE RightText'
  <2> SUFFICES ASSUME ~hasty' PROVE {"CRDT", "LOAD_FILE"} \cap astray' = {}
    BY DEF RightText, Patient
  <2>2. CASE Receive
    <3> DEFINE m == Head(answers)
    <3>1. /\ answers # <<>> /\ hasty' = hasty
          /\ astray' = astray \cup
               {t \in {"CRDT", "LOAD_FILE", "CHAT"} :
                  t = m.type /\ m.body # WindowsOf(client) /\ ~Drops(client, m)}
      BY <2>2 DEF Receive
    <3>2. Talk(client, session, answers, db, spoilt) /\ {"CRDT", "LOAD_FILE"} \cap astray = {}
      BY <1>2, <3>1 DEF TalkInv, Conn, RightText, Patient
    <3>3. Right(answers, client.valid, WindowsOf(client))
      BY <3>2 DEF Talk, Texts, Shows, WindowsOf
    <3>4. m.type = "LOAD_FILE" \/ (m.type = "CRDT" /\ client.valid) => m.body = WindowsOf(client)
      BY <1>2, <3>1, <3>3, Known, RightTail
    <3> QED BY <3>1, <3>2, <3>4 DEF Drops
  <2>3. CASE UNCHANGED <<astray, hasty>>
    BY <1>2, <2>3 DEF RightText, Patient
  <2>4. CASE UserActs
    <3>1. UNCHANGED astray /\ (hasty' = hasty \/ ~hasty)
      BY <2>4 DEF UserActs, Login, SwitchForm, Signup, Pick, Open, Delete, SaveProfile, Leave,
                  Menu, Close, Edit, Save, EditIllegal, Say, Dismiss, User, FillIn, Act, Silent
    <3> QED BY <1>2, <3>1 DEF RightText, Patient
  <2>5. CASE Serve \/ ServeGhost \/ Disconnect \/ Accept \/ Timeout \/ Peer \/ Lose \/ Drop
    <3>1. UNCHANGED <<astray, hasty>>
      BY <2>5 DEF Serve, ServeGhost, Crash, Disconnect, Accept, Timeout, Peer, Lose, Drop, Silent
    <3> QED BY <2>3, <3>1
  <2>6. CASE UNCHANGED vars
    BY <2>3, <2>6 DEF vars
  <2> QED BY <1>2, <2>2, <2>4, <2>5, <2>6 DEF Next, SystemActs
<1> QED BY <1>1, <1>2, TalkAlways, PTL DEF Spec

\* A refused request is reported as what it was, although the client decides
\* that by its own state and not by the answer: its state still is the one of
\* the request whose answer comes.  (handleClientErrorResponse)
THEOREM BlameIsCorrect == Spec => RightBlame
<1>1. ASSUME CInv, TalkInv, Patient, Receive, Head(answers).result # "SUCCESS"
      PROVE  client'.kind = Blame(Head(answers))
  <2> DEFINE m == Head(answers)
             c == Response(client, m)
  <2>1. Become(c, Tail(answers)) /\ answers # <<>>
    BY <1>1 DEF Receive
  <2>2. Talk(client, session, answers, db, spoilt) /\ client.socket = "open"
    BY <1>1, <2>1 DEF TalkInv, Conn, Patient
  <2>3. m \in ToSet(answers)
    BY <1>1, <2>1, Known, AtTail
  <2>4. m.result \in {"BAD", "ERROR"} /\ m.type \in Answerable \cup {"CRDT", "CHAT"}
    BY <1>1, <2>3, Known
  <2>5. DOMAIN c = ClientFields /\ Becomes(client, c, m)
    BY <1>1, <2>2, <2>4, Known, ResponseDoes
  <2>6. c.kind = Blame(m)
    BY <1>1, <2>1, <2>2, <2>4, <2>5, Known, BlameIsRight DEF Becomes
  <2>7. But(c, client', {})
    <3> HIDE DEF c
    <3> QED BY <2>1, <2>5, SentAway DEF Become
  <2> QED BY <2>6, <2>7 DEF But, TalkFields
<1>2. ASSUME CInv, TalkInv, [Next]_vars
      PROVE  [Patient /\ Receive /\ Head(answers).result # "SUCCESS" =>
                client'.kind = Blame(Head(answers))]_vars
  BY <1>1, <1>2
<1> QED BY <1>2, TalkAlways, PTL DEF Spec, RightBlame

-----------------------------------------------------------------------------
(* The list of documents.                                                  *)

\* The names in the list of a user, and how many begin with some words.
NamesOf(d, u) == {r.name : r \in RowsOf(d, u)}
Alike(names, base) == Cardinality({n \in names : IsPrefix(base, Text(n))})
Row(u, name, doc) == [user |-> u, name |-> name, doc |-> doc]

\* No number is higher than the names that begin with its base, so that the next one
\* (createInnerFilename) is free.
Numbered(d) ==
  /\ \A r \in d.rows : /\ r = Row(r.user, r.name, r.doc)
                       /\ r.name.nth \leq Alike(NamesOf(d, r.user), r.name.base)
  /\ \A doc \in d.docs : doc.title.nth < 2

\* A name that is asked for is the one that the document has in the list, or
\* is free and no higher than the next number.
Fits(names, name) == name \in names \/ name.nth \leq Alike(names, name.base) + 1
Proper(r, u, d) ==
  /\ r.name \in NamesOf(d, u) => Row(u, r.name, r.hash) \in d.rows
  /\ Fits(NamesOf(d, u), r.name)
  /\ r.hash \notin d.docs => r.hash.nth < 2
Orders(s, d) ==
  \A r \in ToSet(s.up) : r.type = "OPEN_FILE" => Lone(s.up) /\ Proper(r, s.user, d)

\* What the line shows is what is asked for.
Apt(files, c) ==
  CanOpen(c) =>
    /\ c.pastedLink # Nothing =>
         /\ c.text \in DOMAIN files => files[c.text] = c.pastedLink
         /\ Fits(DOMAIN files, c.text)
    /\ c.pastedLink = Nothing =>
         /\ c.link = LinkOf(files, c.text)
         /\ c.name = IF c.text \in DOMAIN files THEN c.text ELSE Nothing
         /\ c.text \notin DOMAIN files => c.text.nth < 2

\* The session takes part in the document of the windows (Texts).
Works(c, s, a) == s.joined /\ (c.valid \/ OpenThenLoad(a) \/ ~Moving(c, s.up, a))

\* The lists that are shown or on their way are the rows of the user.
Current(c, s, a, d) ==
  /\ \A m \in ToSet(a) : m.result = "SUCCESS" =>
       /\ m.type = "LOGIN" => m.body.files = FilesOf(d, s.user, {})
       /\ m.type = "GET_FILES" => m.body = FilesOf(d, s.user, {})
  /\ c.dialog => /\ c.files = FilesOf(d, c.user, {})
                 /\ Has(s.up, "DELETE_FILE") \/ Apt(c.files, c.choice)
ListedSo(c, s, a, d) ==
  /\ \A r \in ToSet(s.up) : r.type = "OPEN_FILE" => r.name = c.name
  /\ Current(c, s, a, d)
  /\ Works(c, s, a) => Row(c.user, c.name, s.file) \in d.rows

\* While no list is spoilt.
ListInv ==
  ~hasty /\ "names" \notin spoilt /\ Unnumbered =>
    /\ Numbered(db) /\ Orders(session, db)
    /\ client.socket = "open" => ListedSo(client, session, answers, db)

-----------------------------------------------------------------------------
(* Names.                                                                  *)

\* A name begins with its base, and with itself.
LEMMA NamesAre ==
  ASSUME NEW n \in Names
  PROVE  n.nth \in Nat /\ IsPrefix(n.base, Text(n)) /\ IsPrefix(Text(n), Text(n))
<1>1. n.base \in Seq(Words) /\ n.nth \in Nat /\ n.nth \in Words
  <2>1. n.base \in Seq(Words) /\ n.nth \in Nat
    BY DEF Names
  <2> QED BY <2>1 DEF Words
<1>2. ASSUME NEW s \in Seq(Words) PROVE IsPrefix(s, s)
  BY DEF IsPrefix
<1>3. ASSUME NEW s \in Seq(Words), NEW w \in Words PROVE IsPrefix(s, Append(s, w))
  BY DEF IsPrefix
<1>4. Text(n) \in Seq(Words)
  BY NumberedName
<1> QED BY <1>1, <1>2, <1>3, <1>4 DEF Text

\* The list is the rows, by name.
LEMMA FilesAreRows ==
  ASSUME NEW d, AreTables(d), Numbered(d), NEW u
  PROVE  /\ IsList(FilesOf(d, u, {}), d.docs)
         /\ DOMAIN FilesOf(d, u, {}) = NamesOf(d, u)
         /\ \A n \in NamesOf(d, u) : Row(u, n, FilesOf(d, u, {})[n]) \in d.rows
<1>1. IsList(FilesOf(d, u, {}), d.docs)
  BY FilesAreList
<1>2. FilesOf(d, u, {}) = [n \in NamesOf(d, u) |-> (CHOOSE r \in RowsOf(d, u) : r.name = n).doc]
  BY DEF FilesOf, NamesOf
<1>3. ASSUME NEW n \in NamesOf(d, u)
      PROVE  Row(u, n, (CHOOSE r \in RowsOf(d, u) : r.name = n).doc) \in d.rows
  <2> DEFINE q == CHOOSE r \in RowsOf(d, u) : r.name = n
  <2>1. q \in RowsOf(d, u) /\ q.name = n
    BY DEF NamesOf
  <2> HIDE DEF q
  <2>2. q \in d.rows /\ q.user = u
    BY <2>1 DEF RowsOf
  <2>3. q = Row(u, n, q.doc)
    BY <2>1, <2>2 DEF Numbered
  <2>4. Row(u, n, q.doc) \in d.rows
    BY <2>2, <2>3
  <2> QED BY <2>4 DEF q
<1> QED BY <1>1, <1>2, <1>3

\* The names that begin alike are counted, and more names are not fewer.
LEMMA AlikeIs ==
  ASSUME NEW names, IsFiniteSet(names), NEW base
  PROVE  /\ Alike(names, base) \in Nat
         /\ \A n \in names : IsPrefix(base, Text(n)) => Alike(names, base) \geq 1
         /\ \A more : names \subseteq more /\ IsFiniteSet(more) => Alike(names, base) \leq Alike(more, base)
         /\ \A n : n \notin names /\ IsPrefix(base, Text(n))
                  => Alike(names \cup {n}, base) = Alike(names, base) + 1
<1> DEFINE S == {n \in names : IsPrefix(base, Text(n))}
<1>1. IsFiniteSet(S) /\ Cardinality(S) \in Nat
  BY FS_Subset, FS_CardinalityType
<1>2. ASSUME NEW n \in names, IsPrefix(base, Text(n)) PROVE Cardinality(S) \geq 1
  <2>1. Cardinality(S) # 0
    BY <1>1, <1>2, FS_EmptySet
  <2> QED BY <1>1, <2>1
<1>3. ASSUME NEW more, names \subseteq more, IsFiniteSet(more)
      PROVE  Cardinality(S) \leq Cardinality({n \in more : IsPrefix(base, Text(n))})
  <2> DEFINE T == {n \in more : IsPrefix(base, Text(n))}
  <2>1. IsFiniteSet(T) /\ S \subseteq T
    BY <1>3, FS_Subset
  <2> QED BY <2>1, FS_Subset
<1>4. ASSUME NEW n, n \notin names, IsPrefix(base, Text(n))
      PROVE  Cardinality({x \in names \cup {n} : IsPrefix(base, Text(x))}) = Cardinality(S) + 1
  <2>1. {x \in names \cup {n} : IsPrefix(base, Text(x))} = S \cup {n} /\ n \notin S
    BY <1>4
  <2> QED BY <1>1, <2>1, FS_AddElement
<1> QED BY <1>1, <1>2, <1>3, <1>4 DEF Alike

\* The next number is free.
LEMMA InnerNameFits ==
  ASSUME NEW d, AreTables(d), Numbered(d), NEW u, NEW n \in Names, n.nth < 2
  PROVE  LET files == FilesOf(d, u, {})
         IN  InnerName(files, n) \notin DOMAIN files /\ Fits(DOMAIN files, InnerName(files, n))
<1> DEFINE files == FilesOf(d, u, {})
           k == Alike(DOMAIN files, Text(n))
           m == Name(Text(n), k + 1)
<1>1. IsFiniteSet(DOMAIN files) /\ DOMAIN files \subseteq Names /\ DOMAIN files = NamesOf(d, u)
  BY FilesAreRows DEF IsList
<1>2. k \in Nat /\ (k = 0 => n \notin DOMAIN files)
  BY <1>1, AlikeIs, NamesAre
<1>3. InnerName(files, n) = IF k = 0 THEN n ELSE m
  BY DEF InnerName, Alike
<1>4. n.nth \in Nat /\ m.base = Text(n) /\ m.nth = k + 1
  BY <1>2, NamesAre DEF Name
<1>5. \A r \in NamesOf(d, u) : r.nth \leq Alike(NamesOf(d, u), r.base)
  BY DEF NamesOf, RowsOf, Numbered
<1> HIDE DEF files, k, m
<1>6. m \notin DOMAIN files
  <2> SUFFICES ASSUME m \in DOMAIN files PROVE FALSE
    OBVIOUS
  <2>1. m.nth \leq k
    BY <1>1, <1>4, <1>5 DEF k
  <2> QED BY <1>2, <1>4, <2>1
<1>7. Fits(DOMAIN files, n)
  <2>1. Alike(DOMAIN files, n.base) \in Nat
    BY <1>1, AlikeIs
  <2> QED BY <1>4, <2>1 DEF Fits
<1>8. Fits(DOMAIN files, m)
  BY <1>2, <1>4 DEF Fits, k
<1> QED BY <1>2, <1>3, <1>6, <1>7, <1>8 DEF files

-----------------------------------------------------------------------------
(* What is chosen.                                                         *)

\* Another text in the line.
LEMMA TextChangedApt ==
  ASSUME NEW files, NEW docs, docs \subseteq Docs, NEW c, IsChoice(files, c, TRUE, docs),
         NEW text \in Names \cup {Invalid}, text = c.text => Apt(files, c),
         text \in Names \ DOMAIN files => text.nth < 2
  PROVE  Apt(files, TextChanged(files, c, text))
<1> DEFINE new == [c EXCEPT !.text = text]
           fresh == [new EXCEPT !.pastedName = Nothing, !.pastedLink = Nothing]
           found == [fresh EXCEPT !.link = LinkOf(files, text),
                                  !.name = IF text \in DOMAIN files THEN text ELSE Nothing]
<1>2. CASE text = c.text
  BY <1>2 DEF TextChanged
<1>3. CASE text # c.text
  <2>1. ~(text = c.pastedName /\ text # Nothing)
    BY <1>3 DEF IsChoice, Pasted
  <2>2. TextChanged(files, c, text) = IF CanOpen(fresh) THEN found ELSE fresh
    BY <1>3, <2>1 DEF TextChanged
  <2>3. DOMAIN c = ChoiceFields
    BY DEF IsChoice, ChoiceTyped
  <2>4. CASE CanOpen(fresh)
    <3>1. text \in Names
      BY <2>3, <2>4 DEF CanOpen, ChoiceFields
    <3>2. /\ found.text = text /\ found.pastedLink = Nothing /\ found.link = LinkOf(files, text)
          /\ found.name = IF text \in DOMAIN files THEN text ELSE Nothing
      BY <2>3 DEF ChoiceFields
    <3> HIDE DEF found
    <3>3. Apt(files, found)
      BY <3>1, <3>2 DEF Apt
    <3> QED BY <2>2, <2>4, <3>3
  <2>5. CASE ~CanOpen(fresh)
    BY <2>2, <2>5 DEF Apt
  <2> QED BY <2>4, <2>5
<1> QED BY <1>2, <1>3

\* What can be done to the choice keeps it apt.
LEMMA ChosenApt ==
  ASSUME CInv, Unnumbered, Numbered(db), client.dialog, NEW u, client.files = FilesOf(db, u, {}),
         Apt(client.files, client.choice), NEW e \in Chosen
  PROVE  Apt(client.files, e)
<1> DEFINE files == client.files
           c == client.choice
<1>1. IsChoice(files, c, TRUE, db.docs) /\ db.docs \subseteq Docs /\ AreTables(db)
  BY DEF CInv, IsClient, Typed, AreTables
<1>2. DOMAIN files \subseteq Names /\ DOMAIN c = ChoiceFields
  BY <1>1 DEF IsChoice, IsList, ChoiceTyped
<1>3. CASE \E row \in DOMAIN files : e = RowClicked(files, c, row)
  <2>1. PICK row \in DOMAIN files : e = RowClicked(files, c, row)
    BY <1>3
  <2> DEFINE b == DeleteClicked(c, row)
  <2>2. /\ b.name = row /\ b.text = c.text /\ b.link = c.link /\ b.pastedLink = c.pastedLink
    BY <1>2 DEF DeleteClicked, ChoiceFields
  <2>3. IsChoice(files, b, TRUE, db.docs)
    BY <1>1, ClickedKeeps
  <2>4. e = TextChanged(files, b, row)
    BY <2>1 DEF RowClicked, DeleteClicked
  <2> HIDE DEF b
  <2>5. row = b.text => Apt(files, b)
    BY <2>2 DEF Apt, CanOpen
  <2> QED BY <1>1, <1>2, <2>3, <2>4, <2>5, TextChangedApt
<1>4. CASE \E t \in Titles : e = TextChanged(files, c, t)
  <2>1. PICK t \in Titles : e = TextChanged(files, c, t)
    BY <1>4
  <2>2. t = Invalid \/ (t \in Names /\ t.nth < 2)
    BY NamesAssumption DEF FirstNames, Unnumbered
  <2>3. t \in Names \cup {Invalid} /\ (t \in Names \ DOMAIN files => t.nth < 2)
    BY <2>2, NamesAssumption
  <2> QED BY <1>1, <2>1, <2>3, TextChangedApt
<1>5. CASE \E doc \in db.docs : e = LinkPasted(files, c, doc)
  <2>1. PICK doc \in db.docs : e = LinkPasted(files, c, doc)
    BY <1>5
  <2> DEFINE known == {n \in DOMAIN files : files[n] = doc}
             name == IF known # {} THEN CHOOSE n \in known : TRUE ELSE InnerName(files, doc.title)
  <2>2. doc.title \in Names /\ doc.title.nth < 2
    BY <1>1 DEF Docs, Numbered
  <2>3. /\ name \in DOMAIN files => files[name] = doc
        /\ Fits(DOMAIN files, name)
    <3>1. CASE known # {}
      BY <3>1 DEF Fits
    <3>2. CASE known = {}
      BY <1>1, <2>2, <3>2, InnerNameFits
    <3> QED BY <3>1, <3>2
  <2>4. e = [c EXCEPT !.text = name, !.pastedName = name, !.pastedLink = doc]
    BY <2>1 DEF LinkPasted
  <2> HIDE DEF name
  <2>5. e.text = name /\ e.pastedLink = doc /\ doc # Nothing
    BY <1>1, <1>2, <2>4, NamesAssumption DEF ChoiceFields
  <2> QED BY <2>3, <2>5 DEF Apt
<1> QED BY <1>3, <1>4, <1>5 DEF Chosen

\* What the open button asks for is proper.
LEMMA TargetProper ==
  ASSUME NEW d, AreTables(d), Numbered(d), NEW u, NEW files, files = FilesOf(d, u, {}),
         NEW c, IsChoice(files, c, TRUE, d.docs), CanOpen(c), Apt(files, c),
         NEW r, r.hash = Target(files, c).hash, r.name = Target(files, c).name
  PROVE  Proper(r, u, d)
<1>1. /\ IsList(files, d.docs) /\ DOMAIN files = NamesOf(d, u)
      /\ \A n \in DOMAIN files : Row(u, n, files[n]) \in d.rows
  BY FilesAreRows
<1>2. /\ c.text \in Names /\ Nothing \notin DOMAIN files /\ Nothing \notin Names
      /\ c.pastedLink \in d.docs \cup {Nothing} /\ d.docs \subseteq Docs
  BY NamesAssumption DEF CanOpen, IsChoice, ChoiceTyped, IsList, AreTables
<1>3. CASE c.pastedLink # Nothing
  <2>1. r.hash = c.pastedLink /\ r.name = c.text
    BY <1>3 DEF Target, IsChoice, Pasted
  <2> QED BY <1>1, <1>2, <1>3, <2>1 DEF Apt, Proper
<1>4. CASE c.pastedLink = Nothing /\ c.text \in DOMAIN files
  <2>1. c.link = files[c.text] /\ c.name = c.text /\ c.link \in d.docs
    BY <1>1, <1>4 DEF Apt, LinkOf, IsList
  <2>2. c.link # Nothing
    BY <1>2, <2>1, NamesAssumption
  <2>3. r.hash = c.link /\ r.name = c.text
    BY <1>4, <2>1, <2>2 DEF Target, SelectedLink
  <2> QED BY <1>1, <1>4, <2>1, <2>3 DEF Proper, Fits
<1>5. CASE c.pastedLink = Nothing /\ c.text \notin DOMAIN files
  <2>1. c.link = Nothing /\ c.name = Nothing /\ c.text.nth < 2
    BY <1>5 DEF Apt, LinkOf
  <2>2. r.hash = c.text /\ r.name = c.text
    BY <1>2, <1>5, <2>1 DEF Target, SelectedLink, LinkOf
  <2>3. Alike(DOMAIN files, c.text.base) \in Nat /\ c.text.nth \in Nat
    BY <1>1, <1>2, AlikeIs, NamesAre DEF IsList
  <2>4. Fits(DOMAIN files, c.text)
    BY <2>1, <2>3 DEF Fits
  <2> QED BY <1>1, <1>5, <2>1, <2>2, <2>4 DEF Proper
<1> QED BY <1>3, <1>4, <1>5

\* A document that is opened is in the list under the name that was asked for,
\* and the numbers still count.
LEMMA OpenedIsRow ==
  ASSUME NEW d, AreTables(d), Numbered(d), NEW u, NEW r, r.name \in Names, Proper(r, u, d),
         NEW doc, doc = Asked(r, d, u), NEW f, f.docs = d.docs \cup {doc}, IsFiniteSet(f.rows),
         f.rows = IF NameFree(d, u, r.name) THEN d.rows \cup {Row(u, r.name, doc)} ELSE d.rows
  PROVE  Numbered(f) /\ Row(u, r.name, doc) \in f.rows
<1>1. NameFree(d, u, r.name) <=> r.name \notin NamesOf(d, u)
  BY DEF NameFree, NamesOf
<1>2. \A v : IsFiniteSet(NamesOf(d, v))
  BY FilesAreRows DEF IsList
<1>3. \A x \in f.docs : x.title.nth < 2
  BY DEF Numbered, Proper, Asked, Doc
<1>4. CASE r.name \in NamesOf(d, u)
  <2>1. f.rows = d.rows /\ Row(u, r.name, r.hash) \in d.rows
    BY <1>1, <1>4 DEF Proper
  <2>2. r.hash \in d.docs
    BY <2>1 DEF AreTables, Row
  <2>3. \A v : NamesOf(f, v) = NamesOf(d, v)
    BY <2>1 DEF NamesOf, RowsOf
  <2> QED BY <1>3, <2>1, <2>2, <2>3 DEF Numbered, Asked
<1>5. CASE r.name \notin NamesOf(d, u)
  <2> DEFINE x == Row(u, r.name, doc)
  <2>1. f.rows = d.rows \cup {x} /\ x.user = u /\ x.name = r.name /\ x.doc = doc
    BY <1>1, <1>5 DEF Row
  <2> HIDE DEF x
  <2>2. /\ NamesOf(f, u) = NamesOf(d, u) \cup {r.name}
        /\ \A v : v # u => NamesOf(f, v) = NamesOf(d, v)
    BY <2>1 DEF NamesOf, RowsOf
  <2>3. \A v : NamesOf(d, v) \subseteq NamesOf(f, v) /\ IsFiniteSet(NamesOf(f, v))
    BY <1>2, <2>2, FS_AddElement
  <2>4. ASSUME NEW y \in d.rows PROVE y.name.nth \leq Alike(NamesOf(f, y.user), y.name.base)
    <3>1. /\ Alike(NamesOf(d, y.user), y.name.base) \leq Alike(NamesOf(f, y.user), y.name.base)
          /\ Alike(NamesOf(d, y.user), y.name.base) \in Nat
          /\ Alike(NamesOf(f, y.user), y.name.base) \in Nat
      BY <1>2, <2>3, AlikeIs
    <3>2. y.name.nth \leq Alike(NamesOf(d, y.user), y.name.base) /\ y.name.nth \in Nat
      BY NamesAre DEF Numbered, AreTables
    <3> QED BY <3>1, <3>2
  <2>5. r.name.nth \leq Alike(NamesOf(f, u), r.name.base)
    BY <1>2, <1>5, <2>2, AlikeIs, NamesAre DEF Proper, Fits
  <2>6. x = Row(x.user, x.name, x.doc)
    BY <2>1 DEF x
  <2>7. Numbered(f)
    BY <1>3, <2>1, <2>4, <2>5, <2>6 DEF Numbered
  <2> QED BY <2>1, <2>7 DEF x
<1> QED BY <1>4, <1>5

-----------------------------------------------------------------------------
(* What a request does to the lists.                                       *)

\* It changes none, and says what they are, or it opens a document.
Tells(m, d, u) ==
  /\ ~Opens(m)
  /\ m.result = "SUCCESS" =>
       /\ m.type = "LOGIN" => m.body.files = FilesOf(d, u, {})
       /\ m.type = "GET_FILES" => m.body = FilesOf(d, u, {})
Relists(u, e, r, d) ==
  \/ /\ e.db.rows = d.rows /\ e.db.docs = d.docs
     /\ \A m \in ToSet(e.answers) : Tells(m, d, e.session.user)
  \/ /\ r.type = "OPEN_FILE" /\ e.session.user = u /\ e.session.file = Asked(r, d, u)
     /\ r.hash \in d.docs \/ NameFree(d, u, r.name)
     /\ e.db.docs = d.docs \cup {e.session.file}
     /\ e.db.rows = IF NameFree(d, u, r.name)
                    THEN d.rows \cup {Row(u, r.name, e.session.file)} ELSE d.rows

\* The tables but the accounts and the aliases.
LEMMA OtherTables ==
  ASSUME NEW d, AreTables(d), NEW x
  PROVE  /\ [d EXCEPT !.accounts = x].rows = d.rows /\ [d EXCEPT !.accounts = x].docs = d.docs
         /\ [d EXCEPT !.alias = x].rows = d.rows /\ [d EXCEPT !.alias = x].docs = d.docs
BY DEF AreTables

\* addFile twice is addFile.
LEMMA WithFileTwice ==
  ASSUME NEW d, AreTables(d), NEW u, NEW name, NEW doc,
         NEW b, b = WithFile(d, u, name, doc), NEW c, c = WithFile(b, u, name, doc),
         NEW rows, rows = IF NameFree(d, u, name) THEN d.rows \cup {Row(u, name, doc)} ELSE d.rows
  PROVE  /\ b.docs = d.docs \cup {doc} /\ b.rows = rows
         /\ c.docs = d.docs \cup {doc} /\ c.rows = rows
<1> DEFINE new == Row(u, name, doc)
           Rows(x) == IF NameFree(x, u, name) THEN x.rows \cup {new} ELSE x.rows
<1>1. /\ b = [d EXCEPT !.docs = d.docs \cup {doc}, !.rows = Rows(d)]
      /\ c = [b EXCEPT !.docs = b.docs \cup {doc}, !.rows = Rows(b)]
  BY DEF WithFile, Row
<1>2. new.user = u /\ new.name = name
  BY DEF Row
<1> HIDE DEF new, Rows
<1>3. b.docs = d.docs \cup {doc} /\ b.rows = Rows(d) /\ DOMAIN b = DOMAIN d
  BY <1>1 DEF AreTables
<1>4. c.docs = b.docs \cup {doc} /\ c.rows = Rows(b)
  BY <1>1, <1>3 DEF AreTables
<1>5. ~NameFree(b, u, name)
  <2>1. CASE NameFree(d, u, name)
    BY <1>2, <1>3, <2>1 DEF Rows, NameFree, RowsOf
  <2>2. CASE ~NameFree(d, u, name)
    BY <1>3, <2>2 DEF Rows, NameFree, RowsOf
  <2> QED BY <2>1, <2>2
<1>6. c.rows = b.rows
  BY <1>4, <1>5 DEF Rows
<1>7. c.docs = d.docs \cup {doc}
  BY <1>3, <1>4
<1> QED BY <1>3, <1>6, <1>7 DEF Rows, new

LEMMA ConnectRelists ==
  ASSUME NEW s, DOMAIN s = {"user", "file", "joined", "up"},
         NEW r, r.type = "OPEN_FILE", NEW d, AreTables(d), NEW failing,
         failing \cap {"free", "create", "add", "row"} = {}
  PROVE  Relists(s.user, Connect(s, r, d, failing), r, d)
<1> DEFINE e == Connect(s, r, d, failing)
           doc == Asked(r, d, s.user)
           b == WithFile(d, s.user, r.name, doc)
           c == WithFile(b, s.user, r.name, doc)
           rows == IF NameFree(d, s.user, r.name)
                   THEN d.rows \cup {Row(s.user, r.name, doc)} ELSE d.rows
<1>1. "free" \notin failing /\ "create" \notin failing /\ "add" \notin failing /\ "row" \notin failing
  OBVIOUS
<1>2. \A x, f, shared : Participate(s, r, x, shared, f, failing)
                          = InDocument(s, x, WithFile(f, s.user, r.name, x))
  BY <1>1 DEF Participate
<1>3. \/ r.hash \in d.docs /\ e = InDocument(s, doc, b)
      \/ e = Said(s, "OPEN_FILE", "BAD", Nothing, d)
      \/ r.hash \notin d.docs /\ NameFree(d, s.user, r.name) /\ e = InDocument(s, doc, c)
  <2>1. CASE r.hash \in d.docs
    <3>1. doc = r.hash
      BY <2>1 DEF Asked
    <3>2. \E shared : e = Participate(s, r, r.hash, shared, d, failing)
      BY <2>1 DEF Connect
    <3> QED BY <1>2, <2>1, <3>1, <3>2
  <2>2. CASE r.hash \notin d.docs
    <3>1. doc = Doc(s.user, r.hash)
      BY <2>2 DEF Asked
    <3> HIDE DEF doc
    <3>2. \/ e = Said(s, "OPEN_FILE", "BAD", Nothing, d)
          \/ NameFree(d, s.user, r.name) /\ e = Participate(s, r, doc, FALSE, b, failing)
      BY <1>1, <2>2, <3>1 DEF Connect
    <3> QED BY <1>2, <2>2, <3>2 DEF doc
  <2> QED BY <2>1, <2>2
<1>4. /\ b.docs = d.docs \cup {doc} /\ b.rows = rows
      /\ c.docs = d.docs \cup {doc} /\ c.rows = rows
  <2>1. /\ b = WithFile(d, s.user, r.name, doc) /\ c = WithFile(b, s.user, r.name, doc)
        /\ rows = IF NameFree(d, s.user, r.name)
                  THEN d.rows \cup {Row(s.user, r.name, doc)} ELSE d.rows
    OBVIOUS
  <2> HIDE DEF b, c, rows, doc, e
  <2> QED BY <2>1, WithFileTwice
<1>5. ASSUME NEW f, f.docs = d.docs \cup {doc}, f.rows = rows, e = InDocument(s, doc, f),
             r.hash \in d.docs \/ NameFree(d, s.user, r.name)
      PROVE  Relists(s.user, e, r, d)
  <2>1. e.session = [s EXCEPT !.file = doc, !.joined = TRUE] /\ e.db = f
    BY <1>5 DEF InDocument, Effect
  <2> HIDE DEF rows, e, doc
  <2>2. e.session.user = s.user /\ e.session.file = doc
    BY <2>1
  <2> QED BY <1>5, <2>1, <2>2 DEF Relists, rows, doc
<1>6. ASSUME e = Said(s, "OPEN_FILE", "BAD", Nothing, d)
      PROVE  Relists(s.user, e, r, d)
  <2> DEFINE m == [type |-> "OPEN_FILE", result |-> "BAD", body |-> Nothing]
  <2>1. e.session = s /\ e.db = d /\ e.answers = <<m>> /\ m.type = "OPEN_FILE" /\ m.result = "BAD"
    BY <1>6, SaidIs
  <2> HIDE DEF e, m
  <2>2. ToSet(e.answers) = {m} /\ Tells(m, d, s.user)
    BY <2>1, InOne DEF Tells, Opens
  <2>3. Relists(s.user, e, r, d)
    BY <2>1, <2>2 DEF Relists
  <2> QED BY <2>3 DEF e
<1>7. ASSUME NEW f \in {b, c}, e = InDocument(s, doc, f),
             r.hash \in d.docs \/ NameFree(d, s.user, r.name)
      PROVE  Relists(s.user, e, r, d)
  <2> HIDE DEF e, doc, b, c, rows
  <2>1. f.docs = d.docs \cup {doc} /\ f.rows = rows
    BY <1>4
  <2> QED BY <1>5, <1>7, <2>1
<1> HIDE DEF e, doc, b, c, rows
<1>8. Relists(s.user, e, r, d)
  BY <1>3, <1>6, <1>7
<1> QED BY <1>8 DEF e

LEMMA HandledRelists ==
  ASSUME NEW s, DOMAIN s = {"user", "file", "joined", "up"}, s.joined \in BOOLEAN,
         NEW r, r.type \in (Answerable \cup {"CRDT", "CHAT", "SAVE_FILE"}) \ {"DELETE_FILE"},
         NEW d, AreTables(d), NEW failing, failing \subseteq {"full"}, NEW other
  PROVE  Relists(s.user, Handled(s, other, r, d, failing), r, d)
<1> DEFINE e == Handled(s, other, r, d, failing)
<1>0. /\ "first" \notin failing /\ "second" \notin failing
      /\ failing \cap {"free", "create", "add", "row"} = {}
  OBVIOUS
<1>1. ASSUME NEW t, NEW result, NEW body, NEW f, f.rows = d.rows, f.docs = d.docs,
             e = Said(t, r.type, result, body, f), r.type = "OPEN_FILE" => result # "SUCCESS",
             result = "SUCCESS" =>
               /\ r.type = "LOGIN" => body.files = FilesOf(d, t.user, {})
               /\ r.type = "GET_FILES" => body = FilesOf(d, t.user, {})
      PROVE  Relists(s.user, e, r, d)
  <2> DEFINE m == [type |-> r.type, result |-> result, body |-> body]
  <2>1. e.session = t /\ e.db = f /\ e.answers = <<m>> /\ m.type = r.type
        /\ m.result = result /\ m.body = body
    BY <1>1, SaidIs
  <2> HIDE DEF m, e
  <2>2. ToSet(e.answers) = {m} /\ Tells(m, d, t.user)
    BY <1>1, <2>1, InOne DEF Tells, Opens
  <2> QED BY <1>1, <2>1, <2>2 DEF Relists
<1>2. ASSUME e = Effect(s, <<>>, d) PROVE Relists(s.user, e, r, d)
  <2> HIDE DEF e
  <2>1. e.db = d /\ e.answers = <<>>
    BY <1>2 DEF Effect
  <2>2. ToSet(e.answers) = {}
    BY <2>1, InOne
  <2> QED BY <2>1, <2>2 DEF Relists
<1>3. CASE r.type = "LOGIN"
  <2> DEFINE l == LoginUser(d.accounts, s.user, r.user, r.password, "first" \in failing)
             t == [s EXCEPT !.user = l.user]
             body == IF l.result = "SUCCESS"
                     THEN [user |-> l.user, alias |-> AliasOf(d, l.user),
                           files |-> FilesOf(d, l.user, failing)]
                     ELSE Nothing
  <2>1. e = Said(t, r.type, l.result, body, d)
    BY <1>3 DEF Handled, HandleLogin
  <2>2. FilesOf(d, l.user, failing) = FilesOf(d, l.user, {})
    BY <1>0 DEF FilesOf
  <2> HIDE DEF l
  <2>3. t.user = l.user /\ (l.result = "SUCCESS" => body.files = FilesOf(d, l.user, {}))
    BY <2>2
  <2> HIDE DEF t, body, e
  <2>4. Relists(s.user, e, r, d)
    BY <1>1, <1>3, <2>1, <2>3
  <2> QED BY <2>4 DEF e
<1>4. CASE r.type = "SIGNUP"
  <2> DEFINE n == SignupUser(d.accounts, r.account, failing)
             f == [d EXCEPT !.accounts = n.accounts]
  <2>1. e = Said(s, r.type, n.result, r.account, f) /\ f.rows = d.rows /\ f.docs = d.docs
    BY <1>4, OtherTables DEF Handled, HandleSignup
  <2> HIDE DEF n, f, e
  <2>2. Relists(s.user, e, r, d)
    BY <1>1, <1>4, <2>1
  <2> QED BY <2>2 DEF e
<1>5. CASE r.type = "UPDATE_USER"
  <2> DEFINE alias == [u \in DOMAIN d.alias \cup {s.user} |->
                         IF u = s.user THEN r.alias ELSE d.alias[u]]
             f == [d EXCEPT !.alias = alias]
  <2>1. /\ e = Said(s, r.type, "SUCCESS", Nothing, f) \/ e = Said(s, r.type, "SUCCESS", Nothing, d)
        /\ f.rows = d.rows /\ f.docs = d.docs
    BY <1>0, <1>5, OtherTables DEF Handled, HandleUpdateUser
  <2> HIDE DEF f, e
  <2>2. Relists(s.user, e, r, d)
    BY <1>1, <1>5, <2>1
  <2> QED BY <2>2 DEF e
<1>6. CASE r.type = "GET_FILES"
  <2>1. FilesOf(d, s.user, failing) = FilesOf(d, s.user, {})
    BY <1>0 DEF FilesOf
  <2>2. e = Said(s, r.type, "SUCCESS", FilesOf(d, s.user, {}), d)
    BY <1>6, <2>1 DEF Handled, HandleGetFiles
  <2> HIDE DEF e
  <2>3. Relists(s.user, e, r, d)
    BY <1>1, <1>6, <2>2
  <2> QED BY <2>3 DEF e
<1>7. CASE r.type = "OPEN_FILE"
  <2> HIDE DEF e
  <2>1. CASE e = Said(s, r.type, "BAD", Nothing, d)
    <3>1. Relists(s.user, e, r, d)
      BY <1>1, <1>7, <2>1
    <3> QED BY <3>1 DEF e
  <2>2. CASE e = Connect(Left(s), r, d, failing)
    <3>1. DOMAIN Left(s) = {"user", "file", "joined", "up"} /\ Left(s).user = s.user
      BY LeftIs
    <3>2. Relists(s.user, Connect(Left(s), r, d, failing), r, d)
      BY <1>0, <1>7, <3>1, ConnectRelists
    <3> QED BY <2>2, <3>2 DEF e
  <2> QED BY <1>7, <2>1, <2>2 DEF e, Handled, HandleOpenFile
<1>8. CASE r.type \in {"LOGOUT", "QUIT_FILE", "LOAD_FILE", "CRDT", "SAVE_FILE", "CHAT"}
  <2>1. \/ e = Said(Left(s), r.type, "SUCCESS", Nothing, d)
        \/ e = Said(s, r.type, "SUCCESS", s.file, d)
        \/ e = Effect(s, <<>>, d)
    BY <1>8 DEF Handled
  <2> HIDE DEF e
  <2>2. Relists(s.user, e, r, d)
    BY <1>1, <1>2, <1>8, <2>1
  <2> QED BY <2>2 DEF e
<1> QED BY <1>3, <1>4, <1>5, <1>6, <1>7, <1>8 DEF Answerable

\* The same of the request at the front of a session.
LEMMA TakenRelists ==
  ASSUME CInv, NEW s, IsSession(s, db.docs), s.up # <<>>, Head(s.up).type # "DELETE_FILE",
         NEW failing, failing \subseteq {"full"}, NEW other
  PROVE  Relists(s.user, Effects(s, other, failing), Head(s.up), db)
<1> DEFINE t == [s EXCEPT !.up = Tail(@)]
           r == Head(s.up)
<1>1. DOMAIN t = {"user", "file", "joined", "up"} /\ t.joined \in BOOLEAN /\ t.user = s.user
  BY DEF IsSession
<1>2. r.type \in (Answerable \cup {"CRDT", "CHAT", "SAVE_FILE"}) \ {"DELETE_FILE"}
  <2>1. r \in ToSet(s.up)
    BY AtTail DEF IsSession, AreRequests, IsSeq
  <2> QED BY <2>1 DEF IsSession, AreRequests, IsRequest
<1>3. AreTables(db)
  BY DEF CInv
<1> HIDE DEF t, r
<1>4. Relists(t.user, Handled(t, other, r, db, failing), r, db)
  BY <1>1, <1>2, <1>3, HandledRelists
<1> QED BY <1>1, <1>4 DEF Effects, t, r

-----------------------------------------------------------------------------
(* Whether the session still takes part in the document of the windows.    *)

\* A document that has been opened is on its way with its text.
LEMMA OpenedComes ==
  ASSUME NEW u, IsSeq(u), NEW a, IsSeq(a), Exchange(u, a), NEW m \in ToSet(a), Opens(m)
  PROVE  OpenThenLoad(a) /\ Quiet(u)
<1>1. Has(a, "OPEN_FILE") /\ ~NotOpened(a)
  BY DEF Has, Opens, NotOpened
<1> QED BY <1>1, ExchangeIs DEF Single

\* With the request at the front, what its handling leaves and answers.
LEMMA ServedWorks ==
  ASSUME NEW c, NEW s, NEW a, NEW d, NEW e, NEW sp, NEW failing,
         IsSeq(s.up), s.up # <<>>, IsSeq(a), Talk(c, s, a, d, sp),
         e.session.up = Tail(s.up), Serves(s, e, Head(s.up), d, failing),
         Works(c, e.session, a \o e.answers)
  PROVE  \/ Works(c, s, a) /\ e.session.file = s.file
         \/ \E m \in ToSet(e.answers) : Opens(m)
<1> DEFINE t == e.session
           r == Head(s.up)
           b == a \o e.answers
<1>1. t.joined /\ (c.valid \/ OpenThenLoad(b) \/ ~Moving(c, t.up, b))
  BY DEF Works
<1>2. ASSUME NEW m, e.answers = <<m>>, m.type = r.type, ~Opens(m),
             Replies(s, t, r, d, e.db, failing, m)
      PROVE  Works(c, s, a) /\ t.file = s.file
  <2>1. b = Append(a, m)
    BY <1>2, AddedOne
  <2>2. /\ \A y : Due(t.up, b, y) <=> Due(s.up, a, y)
        /\ ToSet(b) = ToSet(a) \cup {m} /\ IsSeq(b) /\ Has(s.up, r.type)
    <3>1. /\ \A y : Due(Tail(s.up), Append(a, m), y) <=> Due(s.up, a, y)
          /\ ToSet(Append(a, m)) = ToSet(a) \cup {m} /\ Has(s.up, r.type)
      BY <1>2, AtServing
    <3>2. IsSeq(Append(a, m))
      BY AtEnd
    <3> QED BY <2>1, <3>1, <3>2
  <2> HIDE DEF b
  <2>3. Moving(c, t.up, b) <=> Moving(c, s.up, a)
    BY <2>2 DEF Moving
  <2>4. OpenThenLoad(b) => OpenThenLoad(a) /\ Quiet(s.up)
    <3> SUFFICES ASSUME OpenThenLoad(b) PROVE OpenThenLoad(a) /\ Quiet(s.up)
      OBVIOUS
    <3>1. \E n \in ToSet(b) : Opens(n)
      BY <2>2, OpenHas
    <3>2. \E n \in ToSet(a) : Opens(n)
      BY <1>2, <2>2, <3>1
    <3> QED BY <3>2, OpenedComes DEF Talk
  <2>5. r.type # "OPEN_FILE"
    <3> SUFFICES ASSUME r.type = "OPEN_FILE" PROVE FALSE
      OBVIOUS
    <3>1. Has(s.up, "OPEN_FILE")
      BY <2>2
    <3>2. ~c.valid /\ Moving(c, t.up, b)
      BY <2>3, <3>1 DEF Talk, Expected, Due, Moving
    <3>3. ~OpenThenLoad(b)
      BY <2>4, <3>1 DEF Quiet, Answerable
    <3> QED BY <1>1, <3>2, <3>3
  <2>6. t.joined = s.joined /\ t.file = s.file
    BY <1>1, <1>2, <2>5 DEF Replies, Keeps
  <2> QED BY <1>1, <2>3, <2>4, <2>6 DEF Works
<1>3. ASSUME r.type \notin Answerable, e.answers = <<>>, Keeps(s, t)
      PROVE  Works(c, s, a) /\ t.file = s.file
  <2>1. b = a
    BY <1>3 DEF IsSeq
  <2>2. \A y \in Answerable : Due(t.up, b, y) <=> Due(s.up, a, y)
    BY <1>3, <2>1, HasTail DEF Due
  <2>3. Moving(c, t.up, b) <=> Moving(c, s.up, a)
    BY <2>2 DEF Moving, Answerable
  <2> QED BY <1>1, <1>3, <2>1, <2>3 DEF Works, Keeps
<1>4. CASE \E m : /\ e.answers = <<m>> /\ m.type = r.type
                  /\ Replies(s, t, r, d, e.db, failing, m)
  BY <1>2, <1>4, InOne
<1>5. CASE \E m, n : e.answers = <<m>> \o <<n>> /\ Opens(m)
  <2>1. PICK m, n : e.answers = <<m>> \o <<n>> /\ Opens(m)
    BY <1>5
  <2>2. e.answers = Append(<<m>>, n)
    BY <2>1, OneSent, AddedOne
  <2>3. m \in ToSet(e.answers)
    BY <2>2, InOne, OneSent, AtEnd
  <2> QED BY <2>1, <2>3
<1>6. CASE r.type \in {"CRDT", "SAVE_FILE", "CHAT"} /\ e.answers = <<>> /\ Keeps(s, t)
  BY <1>3, <1>6 DEF Answerable
<1> QED BY <1>4, <1>5, <1>6 DEF Serves

\* With the message at the front, what the client makes of it.
LEMMA AnsweredWorks ==
  ASSUME NEW c, NEW e, NEW s, NEW t, NEW a, NEW d, NEW sp, IsSeq(s.up), IsSeq(a), a # <<>>,
         Talk(c, s, a, d, sp), c.valid \in BOOLEAN, Becomes(c, e, Head(a)),
         Head(a).type \in Answerable \cup {"CRDT", "CHAT"},
         t.joined = s.joined, ToSet(s.up) \subseteq ToSet(t.up), Works(e, t, Tail(a))
  PROVE  Works(c, s, a) /\ e.user = c.user
<1> DEFINE m == Head(a)
<1>1. s.joined
  BY DEF Works
<1>2. /\ \A y : Has(a, y) <=> m.type = y \/ Has(Tail(a), y)
      /\ \A y : Has(s.up, y) => Has(t.up, y)
      /\ m \in ToSet(a) /\ ToSet(Tail(a)) \subseteq ToSet(a) /\ IsSeq(Tail(a))
  BY HasTail, AtTail DEF Has
<1>3. ~Has(a, "LOGOUT") /\ (Has(a, "QUIT_FILE") => Has(s.up, "QUIT_FILE"))
  BY <1>1 DEF Talk, Windows
<1>4. m.type # "LOGIN"
  <2> SUFFICES ASSUME m.type = "LOGIN" PROVE FALSE
    OBVIOUS
  <2>1. Has(a, "LOGIN")
    BY <1>2
  <2>2. Quiet(s.up) /\ c.access
    BY <2>1, ExchangeIs DEF Talk, Expected, Due, Single
  <2>3. ~Due(s.up, a, "LOGOUT")
    BY <1>3, <2>2 DEF Due, Quiet, Answerable
  <2> QED BY <1>1, <2>2, <2>3 DEF Talk, Windows
<1>5. e.user = c.user
  BY <1>4 DEF Becomes, But, TalkFields
<1>6. SUFFICES ASSUME ~Works(c, s, a) PROVE FALSE
  BY <1>5
<1>7. ~c.valid /\ ~OpenThenLoad(a) /\ Moving(c, s.up, a)
  BY <1>1, <1>6 DEF Works
<1>8. ~OpenThenLoad(Tail(a)) /\ ~Opens(m)
  BY <1>2, <1>7, OpenHas, OpenedComes DEF Talk
<1>9. CASE Broken(c)
  <2>1. m.type \in {"CRDT", "CHAT"}
    BY <1>2, <1>9 DEF Broken, Talk, Dialogs, Quiet
  <2>2. But(c, e, {})
    BY <1>2, <2>1 DEF Becomes, Talk, Results
  <2>3. ~e.valid /\ Broken(e)
    BY <1>7, <1>9, <2>2 DEF But, TalkFields, Broken
  <2> QED BY <1>8, <2>3 DEF Works, Moving
<1>10. CASE ~Broken(c)
  <2>1. m.type # "LOAD_FILE"
    <3> SUFFICES ASSUME m.type = "LOAD_FILE" PROVE FALSE
      OBVIOUS
    <3>1. Due(s.up, a, "LOAD_FILE")
      BY <1>2 DEF Due
    <3>2. Among(s.up, {"LOAD_FILE"}) /\ Among(a, {"LOAD_FILE"})
      BY <1>7, <3>1, ExchangeIs DEF Talk
    <3> QED BY <1>7, <1>10, <3>2 DEF Among, Moving, Due, Answerable
  <2>2. ~e.valid
    BY <1>7, <1>8, <2>1 DEF Becomes, But, TalkFields, Opens
  <2>3. ~Moving(e, t.up, Tail(a))
    BY <1>8, <2>2 DEF Works
  <2>4. CASE m.type = "OPEN_FILE"
    <3>1. m.result \in {"BAD", "ERROR"}
      BY <1>8, <2>4 DEF Becomes, Opens
    <3>2. e.modal = TRUE /\ e.kind = Blame(m)
      BY <3>1, BlameIsRight DEF Becomes
    <3>3. Broken(e)
      BY <2>4, <3>1, <3>2 DEF Broken, Blame
    <3> QED BY <2>3, <3>3 DEF Moving
  <2>5. CASE m.type # "OPEN_FILE"
    <3>1. Due(s.up, a, "OPEN_FILE") => Due(t.up, Tail(a), "OPEN_FILE")
      BY <1>2, <2>5 DEF Due
    <3>2. Due(s.up, a, "LOGOUT") => Due(t.up, Tail(a), "LOGOUT")
      BY <1>2, <1>3 DEF Due
    <3>3. Due(s.up, a, "QUIT_FILE") => Due(t.up, Tail(a), "QUIT_FILE")
      BY <1>2, <1>3 DEF Due
    <3> QED BY <1>7, <1>10, <2>3, <3>1, <3>2, <3>3 DEF Moving
  <2> QED BY <2>4, <2>5
<1> QED BY <1>9, <1>10

-----------------------------------------------------------------------------
(* What a step leaves of the list.                                         *)

\* Tables with the same documents and rows.
LEMMA SameLists ==
  ASSUME NEW d, NEW f, f.rows = d.rows, f.docs = d.docs
  PROVE  /\ Numbered(d) => Numbered(f)
         /\ \A s : Orders(s, d) => Orders(s, f)
         /\ \A c, s, a : ListedSo(c, s, a, d) => ListedSo(c, s, a, f)
<1>1. \A u : RowsOf(f, u) = RowsOf(d, u)
  BY DEF RowsOf
<1>2. ASSUME NEW u PROVE FilesOf(f, u, {}) = FilesOf(d, u, {}) /\ NamesOf(f, u) = NamesOf(d, u)
  <2>1. RowsOf(f, u) = RowsOf(d, u)
    BY <1>1
  <2>2. NamesOf(f, u) = NamesOf(d, u)
    BY <2>1, Zenon DEF NamesOf
  <2>3. FilesOf(f, u, {}) = FilesOf(d, u, {})
    <3> DEFINE List(rows) == [n \in {r.name : r \in rows} |-> (CHOOSE r \in rows : r.name = n).doc]
    <3>1. FilesOf(f, u, {}) = List(RowsOf(f, u)) /\ FilesOf(d, u, {}) = List(RowsOf(d, u))
      BY DEF FilesOf
    <3> HIDE DEF List
    <3> QED BY <2>1, <3>1
  <2> QED BY <2>2, <2>3
<1>3. Numbered(d) => Numbered(f)
  BY <1>2 DEF Numbered
<1>4. \A r, u : Proper(r, u, d) => Proper(r, u, f)
  BY <1>2 DEF Proper
<1>5. \A s : Orders(s, d) => Orders(s, f)
  BY <1>4 DEF Orders
<1>6. \A c, s, a : Current(c, s, a, d) => Current(c, s, a, f)
  BY <1>2 DEF Current
<1> QED BY <1>3, <1>5, <1>6 DEF ListedSo

\* No document is asked for that was not asked for before.
OldOpens(s, t) == \A r \in ToSet(t.up) : r.type = "OPEN_FILE" => r \in ToSet(s.up)
LEMMA OrdersStay ==
  ASSUME NEW s, NEW t, NEW d, Orders(s, d), OldOpens(s, t), t.user = s.user,
         Has(t.up, "OPEN_FILE") => Lone(t.up)
  PROVE  Orders(t, d)
BY DEF Orders, OldOpens, Has

\* What is listed stays so.
LEMMA ListedStays ==
  ASSUME NEW c, NEW e, NEW s, NEW t, NEW a, NEW b, NEW d, ListedSo(c, s, a, d),
         e.name = c.name, OldOpens(s, t),
         \A m \in ToSet(b) : \/ m \in ToSet(a) /\ t.user = s.user
                             \/ m.type \in {"LOGIN", "GET_FILES"} => Tells(m, d, t.user),
         e.dialog => /\ c.dialog /\ e.files = c.files /\ e.user = c.user
                     /\ Has(s.up, "DELETE_FILE") \/ Apt(c.files, c.choice) =>
                          Has(t.up, "DELETE_FILE") \/ Apt(e.files, e.choice),
         Works(e, t, b) => Works(c, s, a) /\ t.file = s.file /\ e.user = c.user
  PROVE  ListedSo(e, t, b, d)
<1>1. Current(e, t, b, d)
  <2>1. ASSUME NEW m \in ToSet(b), m.result = "SUCCESS"
        PROVE  /\ m.type = "LOGIN" => m.body.files = FilesOf(d, t.user, {})
               /\ m.type = "GET_FILES" => m.body = FilesOf(d, t.user, {})
    BY <2>1 DEF ListedSo, Current, Tells
  <2>2. e.dialog => /\ e.files = FilesOf(d, e.user, {})
                    /\ Has(t.up, "DELETE_FILE") \/ Apt(e.files, e.choice)
    BY DEF ListedSo, Current
  <2> QED BY <2>1, <2>2 DEF Current
<1> QED BY <1>1 DEF ListedSo, OldOpens

-----------------------------------------------------------------------------
(* A step of the server.                                                   *)

\* A request that opens no document.
LEMMA OthersServed ==
  ASSUME NEW c, NEW s, NEW a, NEW d, NEW e, NEW sp, NEW failing,
         IsSeq(s.up), s.up # <<>>, IsSeq(a), Orders(s, d), Head(s.up).type # "DELETE_FILE",
         e.session.up = Tail(s.up), Serves(s, e, Head(s.up), d, failing),
         \A m \in ToSet(e.answers) : Tells(m, d, e.session.user)
  PROVE  /\ Orders(e.session, d)
         /\ /\ Talk(c, s, a, d, sp) /\ ListedSo(c, s, a, d)
            /\ ToSet(a \o e.answers) \subseteq ToSet(a) \cup ToSet(e.answers)
            => ListedSo(c, e.session, a \o e.answers, d)
<1> DEFINE t == e.session
           r == Head(s.up)
           b == a \o e.answers
<1>1. ToSet(s.up) = {r} \cup ToSet(t.up) /\ OldOpens(s, t)
  BY AtTail DEF OldOpens
<1>2. Has(t.up, "OPEN_FILE") => Has(s.up, "OPEN_FILE") /\ Lone(s.up)
  BY <1>1 DEF Orders, Has
<1>3. Has(t.up, "OPEN_FILE") => Lone(t.up) /\ r.type # "LOGIN"
  BY <1>2, LoneTail DEF Quiet, Answerable
<1>4. r.type # "LOGIN" => t.user = s.user
  BY DEF Serves, Replies, Keeps
<1>5. Orders(t, d)
  <2>1. CASE r.type = "LOGIN"
    BY <1>3, <2>1 DEF Orders, Has
  <2>2. CASE r.type # "LOGIN"
    BY <1>1, <1>3, <1>4, <2>2, OrdersStay
  <2> QED BY <2>1, <2>2
<1>6. ASSUME Talk(c, s, a, d, sp), ListedSo(c, s, a, d),
             ToSet(b) \subseteq ToSet(a) \cup ToSet(e.answers)
      PROVE  ListedSo(c, t, b, d)
  <2>1. ASSUME NEW m \in ToSet(b)
        PROVE  \/ m \in ToSet(a) /\ t.user = s.user
               \/ m.type \in {"LOGIN", "GET_FILES"} => Tells(m, d, t.user)
    <3>1. CASE m \in ToSet(e.answers)
      BY <3>1
    <3>2. CASE m \in ToSet(a) /\ r.type = "LOGIN"
      <4>1. Has(s.up, "LOGIN")
        BY <3>2, HasTail
      <4>2. Quiet(a)
        BY <1>6, <4>1, ExchangeIs DEF Talk, Single
      <4> QED BY <3>2, <4>2 DEF Quiet, Has, Answerable
    <3>3. CASE m \in ToSet(a) /\ r.type # "LOGIN"
      BY <1>4, <3>3
    <3> QED BY <1>6, <3>1, <3>2, <3>3
  <2>2. Has(s.up, "DELETE_FILE") => Has(t.up, "DELETE_FILE")
    BY HasTail
  <2>3. Works(c, t, b) => Works(c, s, a) /\ t.file = s.file
    BY <1>6, ServedWorks DEF Tells
  <2> HIDE DEF t, b, r
  <2> QED BY <1>1, <1>6, <2>1, <2>2, <2>3, ListedStays
<1> QED BY <1>5, <1>6

\* A request that opens one.
LEMMA OpenServed ==
  ASSUME NEW c, NEW s, NEW a, NEW d, NEW e, NEW sp, NEW failing,
         IsSeq(s.up), s.up # <<>>, IsSeq(a), AreTables(d), AreTables(e.db), Numbered(d),
         Orders(s, d), Head(s.up).type = "OPEN_FILE", Head(s.up).name \in Names,
         e.session.up = Tail(s.up), Serves(s, e, Head(s.up), d, failing),
         e.session.file = Asked(Head(s.up), d, s.user),
         e.db.docs = d.docs \cup {e.session.file},
         e.db.rows = IF NameFree(d, s.user, Head(s.up).name)
                     THEN d.rows \cup {Row(s.user, Head(s.up).name, e.session.file)} ELSE d.rows
  PROVE  /\ Numbered(e.db) /\ Orders(e.session, e.db)
         /\ /\ Talk(c, s, a, d, sp) /\ ListedSo(c, s, a, d)
            /\ ToSet(a \o e.answers) \subseteq ToSet(a) \cup ToSet(e.answers)
            => ListedSo(c, e.session, a \o e.answers, e.db)
<1> DEFINE t == e.session
           f == e.db
           r == Head(s.up)
           b == a \o e.answers
<1>1. r \in ToSet(s.up) /\ ToSet(s.up) = {r} \cup ToSet(t.up)
  BY AtTail
<1>2. Lone(s.up) /\ Proper(r, s.user, d)
  BY <1>1 DEF Orders
<1>3. IsFiniteSet(f.rows)
  BY DEF AreTables
<1>4. Numbered(f) /\ Row(s.user, r.name, t.file) \in f.rows
  <2> HIDE DEF r, f, t
  <2> QED BY <1>2, <1>3, OpenedIsRow DEF r, f, t
<1>5. ~Has(t.up, "OPEN_FILE")
  BY <1>2, LoneTail DEF Quiet, Answerable
<1>6. Orders(t, f)
  BY <1>5 DEF Orders, Has
<1>7. ASSUME Talk(c, s, a, d, sp), ListedSo(c, s, a, d),
             ToSet(b) \subseteq ToSet(a) \cup ToSet(e.answers)
      PROVE  ListedSo(c, t, b, f)
  <2>1. Has(s.up, "OPEN_FILE")
    BY HasTail
  <2>2. Quiet(a) /\ ~c.dialog /\ s.user = c.user
    BY <1>7, <2>1, ExchangeIs DEF Talk, Single, Expected, Due, Profiles
  <2>3. \A m \in ToSet(e.answers) : m.type \notin {"LOGIN", "GET_FILES"}
    <3>1. CASE \E m : e.answers = <<m>> /\ m.type = r.type
      BY <3>1, InOne
    <3>2. CASE \E m, n : e.answers = <<m>> \o <<n>> /\ Opens(m) /\ n.type = "LOAD_FILE"
      <4>1. PICK m, n : e.answers = <<m>> \o <<n>> /\ Opens(m) /\ n.type = "LOAD_FILE"
        BY <3>2
      <4>2. e.answers = Append(<<m>>, n)
        BY <4>1, OneSent, AddedOne
      <4>3. ToSet(e.answers) = {m, n}
        BY <4>2, InOne, OneSent, AtEnd
      <4> QED BY <4>1, <4>3 DEF Opens
    <3> QED BY <3>1, <3>2 DEF Serves
  <2>4. \A m \in ToSet(b) : m.type \notin {"LOGIN", "GET_FILES"}
    BY <1>7, <2>2, <2>3 DEF Quiet, Has, Answerable
  <2>5. Current(c, t, b, f)
    BY <2>2, <2>4 DEF Current
  <2>6. r.name = c.name
    BY <1>1, <1>7 DEF ListedSo
  <2> HIDE DEF t, b, r, f
  <2> QED BY <1>4, <1>5, <2>2, <2>5, <2>6 DEF ListedSo, Has
<1> QED BY <1>4, <1>6, <1>7

\* What is assumed of a step that keeps a list from being spoilt.
LEMMA ListsBefore ==
  ASSUME ListInv, ~hasty, "names" \notin spoilt, Unnumbered
  PROVE  /\ Numbered(db) /\ Orders(session, db)
         /\ client.socket = "open" => ListedSo(client, session, answers, db)
BY DEF ListInv

\* The session handles a request.
LEMMA ServeLists ==
  ASSUME CInv, TalkInv, ListInv, Serve
  PROVE  ListInv'
<1>1. session.up # <<>> /\ hasty' = hasty
  BY DEF Serve, Crash
<1> SUFFICES ASSUME ~hasty, "names" \notin spoilt', Unnumbered PROVE ListInv'
  BY <1>1 DEF ListInv, Unnumbered
<1>2. ~crashed /\ Conn(client, session, ghost, answers, db.docs)
  BY DEF TalkInv
<1>3. /\ IsSeq(session.up) /\ IsSeq(answers) /\ DOMAIN session = {"user", "file", "joined", "up"}
      /\ session.joined \in BOOLEAN /\ AreTables(db) /\ IsSession(session, db.docs)
  BY Known DEF CInv, IsSession
<1>4. ~Fatal(session)
  BY <1>1, <1>2, <1>3, SafeTail DEF Conn, Fatal
<1>5. PICK failing \in Failures(Head(session.up).type) :
        LET e == Effects(session, ghost, failing)
        IN  /\ session' = e.session /\ db' = e.db
            /\ answers' = IF client.socket = "open" THEN answers \o e.answers ELSE answers
            /\ spoilt' = spoilt \cup (failing \cap {"exec"}) \cup
                 (IF failing \subseteq {"full"} /\ Head(session.up).type # "DELETE_FILE"
                  THEN {} ELSE {"names"})
            /\ client' = client
  BY <1>4 DEF Serve
<1> DEFINE e == Effects(session, ghost, failing)
           s == session
           r == Head(session.up)
<1>6. /\ "names" \notin spoilt /\ failing \subseteq {"full"} /\ r.type # "DELETE_FILE"
      /\ session' = e.session /\ db' = e.db /\ client' = client
      /\ answers' = (IF client.socket = "open" THEN answers \o e.answers ELSE answers)
  BY <1>5
<1>7. r \in ToSet(s.up) /\ IsRequest(r, db.docs)
  BY <1>1, <1>3, AtTail DEF IsSession, AreRequests
<1>8. e.session.up = Tail(s.up) /\ Serves(s, e, r, db, failing)
  BY <1>3, <1>7, TakenServes DEF Effects, IsRequest
<1>9. AreTables(e.db) /\ IsSeq(e.answers)
  <2>1. IsEffect(e, db, failing)
    BY <1>1, <1>3, TakenIsEffect
  <2> QED BY <2>1 DEF IsEffect, AreAnswers, IsSeq
<1>10. Relists(s.user, e, r, db)
  BY <1>1, <1>3, <1>6, TakenRelists
<1> HIDE DEF e
<1>11. ToSet(answers \o e.answers) \subseteq ToSet(answers) \cup ToSet(e.answers)
  BY <1>3, <1>9, InConcat DEF IsSeq
<1>12. /\ Numbered(db) /\ Orders(s, db)
       /\ client.socket = "open" => /\ ListedSo(client, s, answers, db)
                                    /\ Talk(client, s, answers, db, spoilt)
  BY <1>6, ListsBefore DEF TalkInv
<1>13. CASE /\ e.db.rows = db.rows /\ e.db.docs = db.docs
            /\ \A m \in ToSet(e.answers) : Tells(m, db, e.session.user)
  <2>1. /\ Orders(e.session, db)
        /\ client.socket = "open" => ListedSo(client, e.session, answers \o e.answers, db)
    BY <1>1, <1>3, <1>6, <1>8, <1>11, <1>12, <1>13, OthersServed
  <2>2. /\ Numbered(e.db) /\ Orders(e.session, e.db)
        /\ client.socket = "open" => ListedSo(client, e.session, answers \o e.answers, e.db)
    BY <1>12, <1>13, <2>1, SameLists
  <2> QED BY <1>6, <2>2 DEF ListInv
<1>14. CASE ~(/\ e.db.rows = db.rows /\ e.db.docs = db.docs
              /\ \A m \in ToSet(e.answers) : Tells(m, db, e.session.user))
  <2>1. /\ r.type = "OPEN_FILE" /\ e.session.file = Asked(r, db, s.user)
        /\ e.db.docs = db.docs \cup {e.session.file}
        /\ e.db.rows = IF NameFree(db, s.user, r.name)
                       THEN db.rows \cup {Row(s.user, r.name, e.session.file)} ELSE db.rows
    BY <1>10, <1>14 DEF Relists
  <2>2. r.name \in Names
    BY <1>7, <2>1 DEF IsRequest
  <2>3. /\ Numbered(e.db) /\ Orders(e.session, e.db)
        /\ client.socket = "open" => ListedSo(client, e.session, answers \o e.answers, e.db)
    BY <1>1, <1>3, <1>8, <1>9, <1>11, <1>12, <2>1, <2>2, OpenServed
  <2> QED BY <1>6, <2>3 DEF ListInv
<1> QED BY <1>13, <1>14

\* The session that is left behind may insert a row or delete one: that is
\* counted; else it changes nothing of the lists.
LEMMA DeleteRelists ==
  ASSUME NEW s, NEW r, NEW d, AreTables(d), NEW failing
  PROVE  HandleDelete(s, r, d, failing).db.docs = d.docs
<1> DEFINE e == HandleDelete(s, r, d, failing)
           f == [d EXCEPT !.rows = @ \ {x \in RowsOf(d, s.user) : x.doc = r.hash}]
<1>1. f.docs = d.docs
  BY DEF AreTables
<1> HIDE DEF f
<1>2. \E result, body : e = Said(s, "DELETE_FILE", result, body, d)
                         \/ e = Said(s, "DELETE_FILE", result, body, f)
  BY DEF HandleDelete, f
<1> HIDE DEF e
<1>3. PICK result, body : \/ e = Said(s, "DELETE_FILE", result, body, d)
                          \/ e = Said(s, "DELETE_FILE", result, body, f)
  BY <1>2
<1>4. e.db = d \/ e.db = f
  BY <1>3 DEF Said, Effect
<1> QED BY <1>1, <1>4 DEF e

LEMMA GhostLists ==
  ASSUME CInv, TalkInv, ListInv, ServeGhost \/ Disconnect
  PROVE  ListInv'
<1>1. hasty' = hasty
  BY DEF ServeGhost, Crash, Disconnect
<1> SUFFICES ASSUME ~hasty, "names" \notin spoilt', Unnumbered PROVE ListInv'
  BY <1>1 DEF ListInv, Unnumbered
<1>2. ASSUME UNCHANGED <<client, session, answers>>, "names" \notin spoilt,
             db'.rows = db.rows, db'.docs = db.docs
      PROVE  ListInv'
  BY <1>2, ListsBefore, SameLists DEF ListInv
<1>3. CASE Disconnect
  <2>1. UNCHANGED <<client, session, answers, db, spoilt>>
    BY <1>3 DEF Disconnect
  <2> QED BY <1>2, <2>1
<1>4. CASE ServeGhost
  <2>1. ghost.up # <<>> /\ ~crashed /\ Conn(client, session, ghost, answers, db.docs)
    BY <1>4 DEF ServeGhost, TalkInv
  <2>2. IsSeq(ghost.up) /\ IsSession(ghost, db.docs) /\ AreTables(db)
    BY Known DEF CInv
  <2>3. ~Fatal(ghost)
    BY <2>1, <2>2, SafeTail DEF Conn, Fatal
  <2> DEFINE e == Effects(ghost, session, {})
             r == Head(ghost.up)
  <2>4. /\ db' = e.db /\ UNCHANGED <<client, session, answers>>
        /\ spoilt' = spoilt \cup {t \in {"exec"} : db'.alias # db.alias}
                             \cup {t \in {"names"} : db'.rows # db.rows}
    BY <1>4, <2>3 DEF ServeGhost
  <2>5. "names" \notin spoilt /\ e.db.rows = db.rows
    BY <2>4
  <2>6. e.db.docs = db.docs
    <3>1. CASE r.type = "DELETE_FILE"
      <4>1. e = HandleDelete([ghost EXCEPT !.up = Tail(@)], r, db, {})
        BY <3>1 DEF Effects, Handled
      <4> QED BY <2>2, <4>1, DeleteRelists
    <3>2. CASE r.type # "DELETE_FILE"
      <4> HIDE DEF e
      <4>1. Relists(ghost.user, e, r, db)
        BY <2>1, <2>2, <3>2, TakenRelists DEF e
      <4>2. CASE e.db.docs = db.docs
        BY <4>2
      <4>3. CASE /\ e.session.file = Asked(r, db, ghost.user)
                 /\ r.hash \in db.docs \/ NameFree(db, ghost.user, r.name)
                 /\ e.db.docs = db.docs \cup {e.session.file}
                 /\ e.db.rows = IF NameFree(db, ghost.user, r.name)
                                THEN db.rows \cup {Row(ghost.user, r.name, e.session.file)}
                                ELSE db.rows
        <5>1. ~NameFree(db, ghost.user, r.name)
          <6> DEFINE x == Row(ghost.user, r.name, e.session.file)
          <6>1. x.user = ghost.user /\ x.name = r.name
            BY DEF Row
          <6> HIDE DEF x, r
          <6>2. NameFree(db, ghost.user, r.name) => x \in db.rows
            BY <2>5, <4>3 DEF x
          <6> QED BY <6>1, <6>2 DEF NameFree, RowsOf
        <5> QED BY <4>3, <5>1 DEF Asked
      <4> QED BY <4>1, <4>2, <4>3 DEF Relists
    <3> QED BY <3>1, <3>2
  <2> HIDE DEF e
  <2> QED BY <1>2, <2>4, <2>5, <2>6
<1> QED BY <1>3, <1>4

-----------------------------------------------------------------------------
(* A message from the server.                                              *)

\* What it does to the list.
Shown(c, e, m) ==
  /\ e.name = c.name
  /\ CASE m.result = "SUCCESS" /\ m.type = "LOGIN" -> e.files = m.body.files /\ e.choice = NoChoice
       [] m.result = "SUCCESS" /\ m.type = "GET_FILES" -> e.files = m.body /\ e.choice = NoChoice
       [] OTHER -> e.files = c.files /\ e.choice = c.choice /\ (e.dialog => c.dialog)

LEMMA ResponseShows ==
  ASSUME NEW c, DOMAIN c = ClientFields, NEW m,
         m.type \in Answerable \cup {"CRDT", "CHAT"}, m.result \in {"SUCCESS", "BAD", "ERROR"}
  PROVE  Shown(c, Response(c, m), m)
<1> DEFINE s == [c EXCEPT !.timer = FALSE]
           e == Response(c, m)
<1>1. /\ DOMAIN s = ClientFields /\ s.name = c.name /\ s.files = c.files /\ s.choice = c.choice
      /\ s.dialog = c.dialog
  BY DEF ClientFields
<1> HIDE DEF s
<1>2. CASE m.result # "SUCCESS"
  <2>1. PICK kind : e = Show(s, kind)
    BY <1>2 DEF Response, s
  <2> HIDE DEF e
  <2>2. e.name = s.name /\ e.files = s.files /\ e.choice = s.choice /\ e.dialog = s.dialog
    BY <1>1, <2>1 DEF Show, ClientFields
  <2>3. Shown(c, e, m)
    BY <1>1, <1>2, <2>2 DEF Shown
  <2> QED BY <2>3 DEF e
<1>3. CASE m.result = "SUCCESS"
  <2>1. e = Answered(s, m)
    BY <1>3 DEF Response, s
  <2> HIDE DEF e
  <2>2. CASE m.type = "LOGIN"
    <3>1. e = LoggedIn(s, m.body)
      BY <2>1, <2>2 DEF Answered
    <3>2. e.name = s.name /\ e.files = m.body.files /\ e.choice = NoChoice
      BY <1>1, <3>1 DEF LoggedIn, ClientFields
    <3>3. Shown(c, e, m)
      BY <1>1, <1>3, <2>2, <3>2 DEF Shown
    <3> QED BY <3>3 DEF e
  <2>3. CASE m.type = "GET_FILES"
    <3>1. e = FilesListed(s, m.body)
      BY <2>1, <2>3 DEF Answered
    <3>2. e.name = s.name /\ e.files = m.body /\ e.choice = NoChoice
      BY <1>1, <3>1 DEF FilesListed, ClientFields
    <3>3. Shown(c, e, m)
      BY <1>1, <1>3, <2>3, <3>2 DEF Shown
    <3> QED BY <3>3 DEF e
  <2>4. ASSUME e.name = s.name, e.files = s.files, e.choice = s.choice, e.dialog => s.dialog,
               m.type \notin {"LOGIN", "GET_FILES"}
        PROVE  Shown(c, Response(c, m), m)
    <3>1. Shown(c, e, m)
      BY <1>1, <2>4 DEF Shown
    <3> QED BY <3>1 DEF e
  <2>5. CASE m.type \in {"SIGNUP", "LOGOUT"}
    <3>1. e = SignedUp(s) \/ e = LoggedOut(s)
      BY <2>1, <2>5 DEF Answered
    <3>2. e.name = s.name /\ e.files = s.files /\ e.choice = s.choice /\ (e.dialog => s.dialog)
      BY <1>1, <3>1 DEF SignedUp, LoggedOut, ClientFields
    <3> QED BY <2>4, <2>5, <3>2
  <2>6. CASE m.type = "UPDATE_USER"
    <3>1. e = UserUpdated(s)
      BY <2>1, <2>6 DEF Answered
    <3>2. e.name = s.name /\ e.files = s.files /\ e.choice = s.choice /\ (e.dialog => s.dialog)
      BY <1>1, <3>1 DEF UserUpdated, Show, ClientFields
    <3> QED BY <2>4, <2>6, <3>2
  <2>7. CASE m.type \in {"OPEN_FILE", "LOAD_FILE", "CRDT", "CHAT"}
    <3>1. \/ e = [s EXCEPT !.state = "CONNECTED_AND_OPENED", !.valid = TRUE]
          \/ e = FileLoaded(s, m.body) \/ e = s
      BY <2>1, <2>7 DEF Answered
    <3>2. e.name = s.name /\ e.files = s.files /\ e.choice = s.choice /\ (e.dialog => s.dialog)
      BY <1>1, <3>1 DEF FileLoaded, ClientFields
    <3> QED BY <2>4, <2>7, <3>2
  <2>8. CASE m.type \in Lists
    <3>1. e = SendGetFiles(s) \/ e = FileQuit(s)
      BY <2>1, <2>8 DEF Answered, Lists
    <3>2. e.name = s.name /\ e.files = s.files /\ e.choice = s.choice /\ (e.dialog => s.dialog)
      BY <1>1, <3>1 DEF SendGetFiles, FileQuit, Ask, Online, ClientFields
    <3> QED BY <2>4, <2>8, <3>2 DEF Lists
  <2> QED BY <2>2, <2>3, <2>5, <2>6, <2>7, <2>8 DEF Answerable, Lists
<1> QED BY <1>2, <1>3

\* With the message at the front.
LEMMA AnswerLists ==
  ASSUME NEW c, NEW e, NEW s, NEW t, NEW a, NEW d, NEW sp, IsSeq(s.up), IsSeq(a), a # <<>>,
         Talk(c, s, a, d, sp), Orders(s, d), ListedSo(c, s, a, d),
         c.valid \in BOOLEAN, Becomes(c, e, Head(a)), Shown(c, e, Head(a)),
         Head(a).type \in Answerable \cup {"CRDT", "CHAT"},
         IF Head(a).result = "SUCCESS" /\ Head(a).type \in Lists
         THEN Sends(s, t, Request("GET_FILES")) ELSE Same(s, t)
  PROVE  Orders(t, d) /\ ListedSo(e, t, Tail(a), d)
<1> DEFINE m == Head(a)
           g == Request("GET_FILES")
<1>1. g.type = "GET_FILES" /\ m \in ToSet(a) /\ ToSet(Tail(a)) \subseteq ToSet(a)
  BY AtTail DEF Request
<1> HIDE DEF g
<1>2. /\ t.user = s.user /\ t.file = s.file /\ t.joined = s.joined
      /\ t.up = s.up \/ t.up = Append(s.up, g)
      /\ ToSet(s.up) \subseteq ToSet(t.up) /\ OldOpens(s, t)
  <2>1. CASE Same(s, t)
    BY <2>1 DEF Same, OldOpens
  <2>2. CASE Sends(s, t, g)
    <3>1. t.up = Append(s.up, g)
      BY <2>2 DEF Sends
    <3>2. ToSet(t.up) = ToSet(s.up) \cup {g}
      BY <3>1, AtEnd
    <3> QED BY <1>1, <2>2, <3>1, <3>2 DEF Sends, OldOpens
  <2> QED BY <2>1, <2>2 DEF g
<1>3. Orders(t, d)
  <2>1. ASSUME Has(t.up, "OPEN_FILE") PROVE Lone(t.up)
    <3>1. Has(s.up, "OPEN_FILE")
      BY <1>2, <2>1 DEF OldOpens, Has
    <3>2. Lone(s.up) /\ Quiet(a)
      BY <3>1, ExchangeIs DEF Talk, Single, Orders, Has
    <3>3. m.type \notin Lists
      BY <1>1, <3>2 DEF Quiet, Has, Lists, Answerable
    <3> QED BY <3>2, <3>3 DEF Same
  <2> QED BY <1>2, <2>1, OrdersStay
<1>4. Works(e, t, Tail(a)) => Works(c, s, a) /\ e.user = c.user
  BY <1>2, AnsweredWorks
<1>5. CASE m.result = "SUCCESS" /\ m.type \in {"LOGIN", "GET_FILES"}
  <2>1. e.files = FilesOf(d, s.user, {}) /\ e.choice = NoChoice /\ e.name = c.name
    BY <1>1, <1>5 DEF Shown, ListedSo, Current
  <2>2. e.user = s.user
    <3>1. CASE m.type = "LOGIN"
      BY <1>1, <1>5, <3>1 DEF Becomes, Talk, Profiles
    <3>2. CASE m.type = "GET_FILES"
      <4>1. s.user = c.user
        BY <1>1, <3>2 DEF Talk, Expected, Profiles, Due, Has
      <4> QED BY <1>5, <3>2, <4>1 DEF Becomes, But, TalkFields
    <3> QED BY <1>5, <3>1, <3>2
  <2>3. Apt(e.files, e.choice)
    BY <2>1 DEF Apt, CanOpen, NoChoice
  <2>4. Current(e, t, Tail(a), d)
    BY <1>1, <1>2, <2>1, <2>2, <2>3 DEF ListedSo, Current
  <2>5. ListedSo(e, t, Tail(a), d)
    BY <1>2, <1>4, <2>1, <2>4 DEF ListedSo, OldOpens
  <2> QED BY <1>3, <2>5
<1>6. CASE ~(m.result = "SUCCESS" /\ m.type \in {"LOGIN", "GET_FILES"})
  <2>1. e.name = c.name /\ e.files = c.files /\ e.choice = c.choice /\ (e.dialog => c.dialog)
    BY <1>6 DEF Shown
  <2>2. e.user = c.user
    BY <1>6 DEF Becomes, But, TalkFields
  <2>3. Has(s.up, "DELETE_FILE") => Has(t.up, "DELETE_FILE")
    BY <1>2 DEF Has
  <2>4. ListedSo(e, t, Tail(a), d)
    BY <1>1, <1>2, <1>4, <2>1, <2>2, <2>3, ListedStays
  <2> QED BY <1>3, <2>4
<1> QED BY <1>5, <1>6

LEMMA SentShows ==
  ASSUME NEW c, DOMAIN c = ClientFields, NEW e, e = [c EXCEPT !.sent = <<>>]
  PROVE  /\ But(c, e, {}) /\ e.socket = c.socket /\ e.name = c.name /\ e.files = c.files
         /\ e.choice = c.choice
BY DEF But, TalkFields, ClientFields

\* A client that differs in nothing that the list is about.
LEMMA UnseenList ==
  ASSUME NEW c, NEW e, NEW s, NEW a, NEW d, But(c, e, {}), e.name = c.name, e.files = c.files,
         e.choice = c.choice, ListedSo(c, s, a, d)
  PROVE  ListedSo(e, s, a, d)
<1>1. e.user = c.user /\ e.dialog = c.dialog /\ e.valid = c.valid /\ e.modal = c.modal
      /\ e.kind = c.kind
  BY DEF But, TalkFields
<1> QED BY <1>1 DEF ListedSo, Current, Works, Moving, Broken

LEMMA ReceiveLists ==
  ASSUME CInv, TalkInv, ListInv, Receive
  PROVE  ListInv'
<1> DEFINE c == Response(client, Head(answers))
<1>1. Become(c, Tail(answers)) /\ answers # <<>> /\ UNCHANGED <<db, hasty, spoilt>>
  BY DEF Receive
<1> SUFFICES ASSUME ~hasty, "names" \notin spoilt, Unnumbered PROVE ListInv'
  BY <1>1 DEF ListInv, Unnumbered
<1>2. /\ Conn(client, session, ghost, answers, db.docs) /\ client.socket = "open"
      /\ Talk(client, session, answers, db, spoilt)
  BY <1>1 DEF TalkInv, Conn
<1>3. Numbered(db) /\ Orders(session, db) /\ ListedSo(client, session, answers, db)
  BY <1>2, ListsBefore
<1>4. /\ IsSeq(session.up) /\ IsSeq(answers) /\ DOMAIN client = ClientFields
      /\ client.sent = <<>> /\ client.valid \in BOOLEAN
      /\ Head(answers).type \in Answerable \cup {"CRDT", "CHAT"}
      /\ Head(answers).result \in {"SUCCESS", "BAD", "ERROR"}
  <2>1. Head(answers) \in ToSet(answers)
    BY <1>1, Known, AtTail
  <2> QED BY <2>1, Known
<1>5. /\ DOMAIN c = ClientFields /\ c.socket = "open" /\ Becomes(client, c, Head(answers))
      /\ IF Head(answers).result = "SUCCESS" /\ Head(answers).type \in Lists
         THEN c.sent = <<Request("GET_FILES")>> ELSE c.sent = <<>>
  BY <1>2, <1>4, ResponseDoes
<1>6. Shown(client, c, Head(answers))
  BY <1>4, ResponseShows
<1> HIDE DEF c
<1>7. /\ client' = [c EXCEPT !.sent = <<>>] /\ answers' = Tail(answers)
      /\ c.sent = <<>> => Same(session, session')
      /\ c.sent = <<Request("GET_FILES")>> => Sends(session, session', Request("GET_FILES"))
  BY <1>1, <1>2, <1>5, BecomeOpen
<1>8. Orders(session', db) /\ ListedSo(c, session', Tail(answers), db)
  BY <1>1, <1>2, <1>3, <1>4, <1>5, <1>6, <1>7, AnswerLists
<1>9. ListedSo(client', session', answers', db)
  BY <1>5, <1>7, <1>8, SentShows, UnseenList
<1> QED BY <1>1, <1>3, <1>8, <1>9 DEF ListInv

-----------------------------------------------------------------------------
(* What the user does.                                                     *)

\* Nothing that the list is about, but that it is closed; or a row is deleted.
Like(b) ==
  /\ DOMAIN b = ClientFields /\ b.sent = <<>> /\ b.socket = client.socket
  /\ b.name = client.name /\ b.user = client.user
  /\ b.dialog => client.dialog /\ b.files = client.files
Mild(c) ==
  client.socket = "open" =>
    /\ c.name = client.name /\ c.user = client.user
    /\ c.dialog => /\ client.dialog /\ c.files = client.files
                   /\ c.choice = client.choice \/ Has(c.sent, "DELETE_FILE")
    /\ ~Has(c.sent, "OPEN_FILE")

LEMMA LikeMild ==
  ASSUME NEW b, Like(b), NEW r, r.type # "OPEN_FILE",
         b.dialog => b.choice = client.choice \/ r.type = "DELETE_FILE"
  PROVE  /\ \A state : Mild(Ask(b, r, state))
         /\ \A kind : Mild(Tell(b, r, kind))
         /\ (b.dialog => b.choice = client.choice) => Mild(b)
<1>1. /\ DOMAIN b = ClientFields /\ b.sent = <<>> /\ b.socket = client.socket
      /\ b.name = client.name /\ b.user = client.user
      /\ b.dialog => client.dialog /\ b.files = client.files
  BY DEF Like
<1>2. ToSet(<<r>>) = {r} /\ Append(<<>>, r) = <<r>> /\ \A y : ~Has(<<>>, y)
  BY InOne, OneSent, HasNothing
<1>3. ASSUME NEW e, client.socket = "open", e.sent = <<r>>, e.name = b.name, e.user = b.user,
             e.dialog = b.dialog, e.files = b.files, e.choice = b.choice
      PROVE  Mild(e)
  BY <1>1, <1>2, <1>3 DEF Mild, Has
<1>4. ASSUME NEW state, client.socket = "open" PROVE Mild(Ask(b, r, state))
  <2> DEFINE e == Ask(b, r, state)
  <2>1. /\ e.sent = <<r>> /\ e.name = b.name /\ e.user = b.user /\ e.dialog = b.dialog
        /\ e.files = b.files /\ e.choice = b.choice
    BY <1>1, <1>2, <1>4 DEF Ask, Online, ClientFields
  <2> HIDE DEF e
  <2>2. Mild(e)
    BY <1>3, <1>4, <2>1
  <2> QED BY <2>2 DEF e
<1>5. ASSUME NEW kind, client.socket = "open" PROVE Mild(Tell(b, r, kind))
  <2> DEFINE e == Tell(b, r, kind)
  <2>1. /\ e.sent = <<r>> /\ e.name = b.name /\ e.user = b.user /\ e.dialog = b.dialog
        /\ e.files = b.files /\ e.choice = b.choice
    BY <1>1, <1>2, <1>5 DEF Tell, Online, ClientFields
  <2> HIDE DEF e
  <2>2. Mild(e)
    BY <1>3, <1>5, <2>1
  <2> QED BY <2>2 DEF e
<1>6. (b.dialog => b.choice = client.choice) => Mild(b)
  BY <1>1, <1>2 DEF Mild
<1> QED BY <1>4, <1>5, <1>6 DEF Mild

\* Nothing is due, and no document is asked for.
LEMMA MildLists ==
  ASSUME CInv, TalkInv, ListInv, ~hasty, "names" \notin spoilt, Unnumbered,
         Rest(session.up, answers), NEW c, Mild(c), DOMAIN c = ClientFields,
         c.socket = client.socket, Become(c, answers), UNCHANGED <<db, spoilt>>,
         client.socket = "open" =>
           \/ c.sent = <<>>
           \/ \E r : c.sent = <<r>> \/ c.sent = Append(<<r>>, r),
         Broken(client) => (c.valid => client.valid) /\ Has(c.sent, "QUIT_FILE")
  PROVE  ListInv'
<1>1. Numbered(db) /\ Orders(session, db)
  BY ListsBefore
<1>2. CASE client.socket # "open"
  <2>1. Same(session, session') /\ client' = [c EXCEPT !.sent = <<>>]
    BY <1>2, Known, BecomeAway
  <2>2. client'.socket # "open"
    BY <1>2, <2>1, SentShows
  <2>3. Orders(session', db)
    BY <1>1, <2>1 DEF Orders, Same
  <2> QED BY <1>1, <2>2, <2>3 DEF ListInv
<1>3. CASE client.socket = "open"
  <2>1. /\ Talk(client, session, answers, db, spoilt) /\ ListedSo(client, session, answers, db)
        /\ IsSeq(session.up) /\ IsSeq(answers)
    BY <1>3, ListsBefore, Known DEF TalkInv
  <2>2. /\ client' = [c EXCEPT !.sent = <<>>] /\ answers' = answers
        /\ session'.user = session.user /\ session'.file = session.file
        /\ session'.joined = session.joined
        /\ ToSet(session'.up) = ToSet(session.up) \cup ToSet(c.sent)
    <3>1. client' = [c EXCEPT !.sent = <<>>] /\ answers' = answers
      BY <1>3, BecomeOpen
    <3>2. CASE c.sent = <<>>
      <4>1. Same(session, session') /\ ToSet(<<>>) = {}
        BY <1>3, <3>2, BecomeOpen, InOne
      <4> QED BY <3>1, <3>2, <4>1 DEF Same
    <3>3. CASE \E r : c.sent = <<r>>
      <4>1. PICK r : c.sent = <<r>>
        BY <3>3
      <4>2. Sends(session, session', r) /\ ToSet(c.sent) = {r}
        BY <1>3, <4>1, BecomeOpen, InOne
      <4>3. ToSet(Append(session.up, r)) = ToSet(session.up) \cup {r}
        BY <2>1, AtEnd
      <4> QED BY <3>1, <4>2, <4>3 DEF Sends
    <3>4. CASE \E r : c.sent = Append(<<r>>, r)
      <4>1. PICK r : c.sent = Append(<<r>>, r)
        BY <3>4
      <4>2. /\ session'.user = session.user /\ session'.file = session.file
            /\ session'.joined = session.joined
            /\ session'.up = Append(Append(session.up, r), r)
        BY <1>3, <4>1, BecomeOpen
      <4>3. ToSet(c.sent) = {r}
        BY <4>1, OneSent, InOne, AtEnd
      <4> DEFINE p == Append(session.up, r)
      <4>4. IsSeq(p) /\ ToSet(p) = ToSet(session.up) \cup {r}
        BY <2>1, AtEnd
      <4> HIDE DEF p
      <4>5. ToSet(Append(p, r)) = ToSet(p) \cup {r}
        BY <4>4, AtEnd
      <4> QED BY <3>1, <4>2, <4>3, <4>4, <4>5 DEF p
    <3> QED BY <1>3, <3>2, <3>3, <3>4
  <2>3. \A y : Has(session'.up, y) <=> Has(session.up, y) \/ Has(c.sent, y)
    BY <2>2 DEF Has
  <2>4. ~Has(session'.up, "OPEN_FILE")
    BY <1>3, <2>3 DEF Mild, Rest, Quiet, Answerable
  <2>5. Orders(session', db) /\ OldOpens(session, session')
    BY <2>4 DEF Orders, OldOpens, Has
  <2>6. Works(c, session', answers) => Works(client, session, answers)
    <3>1. CASE Broken(client)
      <4>1. ~OpenThenLoad(answers) /\ Moving(c, session'.up, answers)
        BY <2>1, <2>3, <3>1, AtRest DEF Moving, Due
      <4> QED BY <2>2, <3>1, <4>1 DEF Works
    <3>2. CASE ~Broken(client)
      BY <2>1, <2>2, <3>2, AtRest DEF Works
    <3> QED BY <3>1, <3>2
  <2>7. ListedSo(c, session', answers, db)
    <3>1. /\ c.name = client.name /\ c.user = client.user
          /\ c.dialog => /\ client.dialog /\ c.files = client.files
                         /\ c.choice = client.choice \/ Has(session'.up, "DELETE_FILE")
      BY <1>3, <2>3 DEF Mild
    <3>2. Has(session.up, "DELETE_FILE") => Has(session'.up, "DELETE_FILE")
      BY <2>3
    <3> QED BY <2>1, <2>2, <2>5, <2>6, <3>1, <3>2, ListedStays
  <2>8. ListedSo(client', session', answers', db)
    BY <2>2, <2>7, SentShows, UnseenList
  <2> QED BY <1>1, <2>5, <2>8 DEF ListInv
<1> QED BY <1>2, <1>3

\* What the user does but for the forms, the choice and the open button.
LEMMA DeedsMild ==
  ASSUME CInv
  PROVE  /\ \A user, password : Mild(SendLogin(client, user, password))
         /\ \A account : Mild(SendSignup(client, account))
         /\ \A choice, hash : Mild(SendDelete([client EXCEPT !.choice = choice], hash))
         /\ \A alias : Mild(SendUpdateUser(client, alias))
         /\ Mild(SendLogout(client)) /\ Mild(CloseDialog(client))
         /\ Mild(SendGetFiles(client)) /\ Mild(CloseEditor(client)) /\ Mild(SendCrdt(client))
         /\ Mild(SendMessage(client)) /\ Mild(SendSave(client)) /\ Mild(RefuseEdit(client))
<1>1. DOMAIN client = ClientFields /\ client.sent = <<>>
  BY Known
<1>2. /\ Like(client) /\ \A type : Request(type).type = type
      /\ \A r : r.type # "OPEN_FILE" => /\ \A state : Mild(Ask(client, r, state))
                                        /\ \A kind : Mild(Tell(client, r, kind))
  <2>1. Like(client)
    BY <1>1 DEF Like
  <2> QED BY <2>1, LikeMild DEF Request
<1>3. ASSUME NEW r, r.type # "OPEN_FILE", NEW state
      PROVE  Mild(Ask([client EXCEPT !.loader = TRUE], r, state))
  <2> DEFINE b == [client EXCEPT !.loader = TRUE]
  <2>1. Like(b) /\ b.choice = client.choice
    BY <1>1 DEF Like, ClientFields
  <2> HIDE DEF b
  <2>2. Mild(Ask(b, r, state))
    BY <1>3, <2>1, LikeMild
  <2> QED BY <2>2 DEF b
<1>4. \A user, password : Mild(SendLogin(client, user, password))
  BY <1>3 DEF SendLogin
<1>5. \A account : Mild(SendSignup(client, account))
  BY <1>3 DEF SendSignup
<1>6. ASSUME NEW choice, NEW hash
      PROVE  Mild(SendDelete([client EXCEPT !.choice = choice], hash))
  <2> DEFINE b == [client EXCEPT !.choice = choice]
             r == [type |-> "DELETE_FILE", hash |-> hash]
  <2>1. Like(b) /\ r.type = "DELETE_FILE"
    BY <1>1 DEF Like, ClientFields
  <2> HIDE DEF b, r
  <2>2. Mild(Tell(b, r, "FILE_ERROR"))
    BY <2>1, LikeMild
  <2> QED BY <2>2 DEF SendDelete, b, r
<1>7. ASSUME NEW alias PROVE Mild(SendUpdateUser(client, alias))
  <2> DEFINE b == [client EXCEPT !.field = alias]
             r == [type |-> "UPDATE_USER", alias |-> alias]
  <2>1. Like(b) /\ b.choice = client.choice /\ r.type = "UPDATE_USER"
    BY <1>1 DEF Like, ClientFields
  <2> HIDE DEF b, r
  <2>2. Mild(Tell(b, r, "GENERIC_ERROR"))
    BY <2>1, LikeMild
  <2> QED BY <2>2 DEF SendUpdateUser, b, r
<1>8. Mild(SendLogout(client)) /\ Mild(SendGetFiles(client))
  BY <1>2 DEF SendLogout, SendGetFiles
<1>9. Mild(CloseDialog(client))
  <2> DEFINE b == [client EXCEPT !.dialog = FALSE, !.choice = NoChoice, !.field = Nothing]
             x == [b EXCEPT !.access = TRUE, !.loader = TRUE]
             r == Request("LOGOUT")
  <2>1. Like(b) /\ ~b.dialog /\ Like(x) /\ ~x.dialog /\ r.type = "LOGOUT"
    BY <1>1 DEF Like, ClientFields, Request
  <2>2. CloseDialog(client) \in {b, Ask(x, r, "CONNECTED_NOT_LOGGED")}
    BY DEF CloseDialog, SendLogout
  <2> HIDE DEF b, r, x
  <2>3. Mild(b) /\ Mild(Ask(x, r, "CONNECTED_NOT_LOGGED"))
    BY <2>1, LikeMild
  <2> QED BY <2>2, <2>3
<1>10. Mild(CloseEditor(client))
  <2> DEFINE b == [client EXCEPT !.editor = "hidden"]
             r == Request("QUIT_FILE")
  <2>1. Like(b) /\ b.choice = client.choice /\ r.type = "QUIT_FILE"
    BY <1>1 DEF Like, ClientFields, Request
  <2> HIDE DEF b, r
  <2>2. Mild(Tell(b, r, "GENERIC_ERROR"))
    BY <2>1, LikeMild
  <2> QED BY <2>2 DEF CloseEditor, SendQuit, b, r
<1>11. Mild(SendCrdt(client)) /\ Mild(SendMessage(client))
  BY <1>2 DEF SendCrdt, SendMessage
<1>12. Mild(SendSave(client))
  <2> DEFINE r == Request("SAVE_FILE")
             e == [client EXCEPT !.sent = Append(@, r)]
  <2>1. /\ e.sent = <<r>> /\ e.name = client.name /\ e.user = client.user
        /\ e.dialog = client.dialog /\ e.files = client.files /\ e.choice = client.choice
    BY <1>1, OneSent DEF ClientFields
  <2>2. ToSet(<<r>>) = {r} /\ r.type = "SAVE_FILE"
    BY <1>2, InOne
  <2>3. SendSave(client) = e \/ client.socket # "open"
    BY DEF SendSave, Online
  <2> HIDE DEF e, r
  <2>4. Mild(e)
    BY <2>1, <2>2 DEF Mild, Has
  <2> QED BY <2>3, <2>4 DEF Mild
<1>13. Mild(RefuseEdit(client))
  <2> DEFINE b == RefuseEdit(client)
             r == Request("QUIT_FILE")
  <2>1. Like(b) /\ b.choice = client.choice /\ r.type = "QUIT_FILE"
    BY <1>1 DEF Like, ClientFields, RefuseEdit, Show, Request
  <2> HIDE DEF b, r
  <2>2. Mild(b)
    BY <2>1, LikeMild
  <2> QED BY <2>2 DEF b
<1> QED BY <1>4, <1>5, <1>6, <1>7, <1>8, <1>9, <1>10, <1>11, <1>12, <1>13

\* A form or the choice is changed, and nothing is sent.
LEMMA FillLists ==
  ASSUME CInv, TalkInv, ListInv, SwitchForm \/ Pick
  PROVE  ListInv'
<1> SUFFICES ASSUME ~hasty', "names" \notin spoilt', Unnumbered PROVE ListInv'
  BY DEF ListInv, Unnumbered
<1>1. PICK e : /\ Become(e, answers) /\ e.sent = <<>> /\ e.socket = client.socket
               /\ UNCHANGED <<db, spoilt>> /\ ~hasty /\ DOMAIN e = ClientFields
               /\ But(client, e, {}) /\ e.name = client.name /\ e.files = client.files
               /\ e.choice = client.choice \/ (client.dialog /\ e.choice \in Chosen)
  <2>1. DOMAIN client = ClientFields /\ client.sent = <<>>
    BY Known
  <2>2. CASE SwitchForm
    <3> DEFINE form == IF client.form = "login" THEN "signup" ELSE "login"
               e == [client EXCEPT !.form = form]
    <3>1. Become(e, answers) /\ UNCHANGED <<db, spoilt>> /\ ~hasty
      BY <2>2 DEF SwitchForm, FillIn, Act
    <3>2. /\ e.sent = <<>> /\ e.socket = client.socket /\ DOMAIN e = ClientFields
          /\ But(client, e, {}) /\ e.name = client.name /\ e.files = client.files
          /\ e.choice = client.choice
      BY <2>1 DEF But, TalkFields, ClientFields
    <3> HIDE DEF e
    <3> QED BY <3>1, <3>2
  <2>3. CASE Pick
    <3>1. PICK choice \in Chosen : FillIn([client EXCEPT !.choice = choice])
      BY <2>3 DEF Pick
    <3> DEFINE e == [client EXCEPT !.choice = choice]
    <3>2. Become(e, answers) /\ UNCHANGED <<db, spoilt>> /\ ~hasty /\ client.dialog
      BY <2>3, <3>1 DEF Pick, FillIn, Act
    <3>3. /\ e.sent = <<>> /\ e.socket = client.socket /\ DOMAIN e = ClientFields
          /\ But(client, e, {}) /\ e.name = client.name /\ e.files = client.files
          /\ e.choice = choice
      BY <2>1 DEF But, TalkFields, ClientFields
    <3> HIDE DEF e
    <3> QED BY <3>1, <3>2, <3>3
  <2> QED BY <2>2, <2>3
<1>2. Numbered(db) /\ Orders(session, db)
  BY <1>1, ListsBefore
<1>3. client' = [e EXCEPT !.sent = <<>>] /\ answers' = answers /\ Same(session, session')
  BY <1>1, Known, BecomeOpen, BecomeAway
<1>4. But(e, client', {}) /\ client'.socket = client.socket /\ client'.name = e.name
      /\ client'.files = e.files /\ client'.choice = e.choice
  BY <1>1, <1>3, SentShows
<1>5. Orders(session', db)
  BY <1>2, <1>3 DEF Orders, Same
<1>6. ASSUME client.socket = "open" PROVE ListedSo(client', session', answers', db)
  <2>1. ListedSo(client, session, answers, db)
    BY <1>1, <1>6, ListsBefore
  <2>2. e.user = client.user /\ e.dialog = client.dialog /\ e.valid = client.valid
        /\ e.modal = client.modal /\ e.kind = client.kind
    BY <1>1 DEF But, TalkFields
  <2>3. /\ Works(e, session', answers) => Works(client, session, answers)
        /\ session'.file = session.file /\ session'.user = session.user
        /\ OldOpens(session, session') /\ session'.up = session.up
    BY <1>3, <2>2 DEF Works, Moving, Broken, Same, OldOpens
  <2>4. e.dialog => (Apt(client.files, client.choice) => Apt(e.files, e.choice))
    <3>1. CASE e.choice = client.choice
      BY <1>1, <3>1
    <3>2. CASE client.dialog /\ e.choice \in Chosen
      <4>1. client.files = FilesOf(db, client.user, {})
        BY <2>1, <3>2 DEF ListedSo, Current
      <4> QED BY <1>1, <1>2, <3>2, <4>1, ChosenApt
    <3> QED BY <1>1, <3>1, <3>2
  <2>5. ListedSo(e, session', answers, db)
    BY <1>1, <2>1, <2>2, <2>3, <2>4, ListedStays
  <2> QED BY <1>3, <1>4, <2>5, UnseenList
<1> QED BY <1>1, <1>2, <1>4, <1>5, <1>6 DEF ListInv

\* The open button.
LEMMA OpenShows ==
  ASSUME NEW c, DOMAIN c = ClientFields, c.sent = <<>>, c.socket = "open",
         c.state # "CONNECTED_AND_OPENED", NEW t, NEW link
  PROVE  LET e == SendOpenFile([c EXCEPT !.choice.link = link], t)
             r == [type |-> "OPEN_FILE", hash |-> t.hash, name |-> t.name]
         IN  /\ e.sent = <<r>> /\ e.name = t.name /\ e.dialog = FALSE /\ e.valid = FALSE
             /\ e.socket = "open" /\ DOMAIN e = ClientFields
<1> DEFINE b == [c EXCEPT !.choice.link = link]
           w == OpenWindows(b, t)
           r == [type |-> "OPEN_FILE", hash |-> t.hash, name |-> t.name]
           e == Ask(w, r, "CONNECTED_NOT_OPENFILE")
<1>1. /\ DOMAIN b = ClientFields /\ b.sent = <<>> /\ b.socket = "open" /\ b.state = c.state
  BY DEF ClientFields
<1> HIDE DEF b
<1>2. /\ DOMAIN w = ClientFields /\ w.sent = <<>> /\ w.socket = "open" /\ w.state = c.state
      /\ w.name = t.name /\ w.dialog = FALSE /\ w.valid = FALSE
  BY <1>1 DEF OpenWindows, InitEditor, ClientFields
<1>3. SendOpenFile(b, t) = e
  BY <1>2 DEF SendOpenFile, AskFor
<1> HIDE DEF w, r
<1>4. /\ e.sent = <<r>> /\ e.name = t.name /\ e.dialog = FALSE /\ e.valid = FALSE
      /\ e.socket = "open" /\ DOMAIN e = ClientFields
  BY <1>2, OneSent DEF Ask, Online, ClientFields
<1> HIDE DEF e
<1> QED BY <1>3, <1>4 DEF b, r

LEMMA OpenLists ==
  ASSUME CInv, TalkInv, ListInv, Open
  PROVE  ListInv'
<1> DEFINE o == Target(client.files, client.choice)
           r == [type |-> "OPEN_FILE", hash |-> o.hash, name |-> o.name]
           e == SendOpenFile([client EXCEPT !.choice.link =
                                SelectedLink(client.files, client.choice)], o)
<1>1. client.dialog /\ CanOpen(client.choice) /\ User(e)
  BY DEF Open
<1> SUFFICES ASSUME ~hasty', "names" \notin spoilt', Unnumbered PROVE ListInv'
  BY DEF ListInv, Unnumbered
<1>2. /\ Become(e, answers) /\ UNCHANGED <<db, spoilt>> /\ ~hasty /\ ~Awaiting
      /\ "names" \notin spoilt
  BY <1>1 DEF User, Act, Rash
<1>3. Numbered(db) /\ Orders(session, db)
  BY <1>2, ListsBefore
<1>4. Rest(session.up, answers) /\ DOMAIN client = ClientFields /\ client.sent = <<>>
      /\ IsSeq(session.up) /\ IsSeq(answers)
  BY <1>2, Calm, Known
<1>5. CASE client.socket # "open"
  <2>1. client.hash = client.hash /\ o.hash \in db.docs \cup Names
    BY <1>1, OpenedKeeps DEF CInv, IsClient, AreTables
  <2>2. e.socket = client.socket /\ DOMAIN e = ClientFields
    BY <1>1, <1>2, <2>1, OpenDeed DEF Deed, Open, User, Act, Rash
  <2> HIDE DEF e
  <2>3. Same(session, session') /\ client' = [e EXCEPT !.sent = <<>>]
    BY <1>2, <1>5, <2>2, Known, BecomeAway
  <2>4. client'.socket # "open"
    BY <1>5, <2>2, <2>3, SentShows
  <2>5. Orders(session', db)
    BY <1>3, <2>3 DEF Orders, Same
  <2> QED BY <1>2, <1>3, <2>4, <2>5 DEF ListInv
<1>6. CASE client.socket = "open"
  <2>1. /\ Talk(client, session, answers, db, spoilt) /\ ListedSo(client, session, answers, db)
    BY <1>2, <1>6, ListsBefore DEF TalkInv
  <2>2. /\ client.state # "CONNECTED_AND_OPENED" /\ session.user = client.user
        /\ client.files = FilesOf(db, client.user, {}) /\ Apt(client.files, client.choice)
        /\ ~Has(session.up, "OPEN_FILE")
    BY <1>1, <1>4, <2>1, AtRest
       DEF Talk, Dialogs, Profiles, ListedSo, Current, Answerable
  <2>3. /\ e.sent = <<r>> /\ e.name = o.name /\ e.dialog = FALSE /\ e.valid = FALSE
        /\ e.socket = "open" /\ DOMAIN e = ClientFields
    BY <1>4, <1>6, <2>2, OpenShows
  <2>4. r.type = "OPEN_FILE" /\ r.hash = o.hash /\ r.name = o.name
    OBVIOUS
  <2> HIDE DEF e, r
  <2>5. IsChoice(client.files, client.choice, TRUE, db.docs) /\ AreTables(db)
    BY <1>1 DEF CInv, IsClient
  <2>6. Proper(r, session.user, db)
    BY <1>1, <1>3, <2>2, <2>4, <2>5, TargetProper
  <2>7. /\ client' = [e EXCEPT !.sent = <<>>] /\ answers' = answers
        /\ Sends(session, session', r)
    BY <1>2, <1>6, <2>3, BecomeOpen
  <2>8. /\ ToSet(session'.up) = ToSet(session.up) \cup {r} /\ Lone(session'.up)
        /\ \A m \in ToSet(session'.up) : m.type = "OPEN_FILE" => m = r
    <3>1. /\ ToSet(Append(session.up, r)) = ToSet(session.up) \cup {r}
          /\ Lone(Append(session.up, r))
      BY <1>4, AtEnd, LoneMore DEF Rest
    <3> QED BY <2>2, <2>7, <3>1 DEF Sends, Has
  <2>9. Orders(session', db)
    BY <2>6, <2>7, <2>8 DEF Orders, Sends
  <2>10. ListedSo(e, session', answers, db)
    <3>1. Current(e, session', answers, db)
      BY <2>1, <2>3, <2>7 DEF ListedSo, Current, Sends
    <3>2. ~Works(e, session', answers)
      <4>1. ~OpenThenLoad(answers)
        BY <1>4, AtRest
      <4>2. Moving(e, session'.up, answers)
        BY <2>4, <2>8 DEF Moving, Due, Has
      <4> QED BY <2>3, <4>1, <4>2 DEF Works
    <3> QED BY <2>3, <2>4, <2>8, <3>1, <3>2 DEF ListedSo
  <2>11. ListedSo(client', session', answers', db)
    BY <2>3, <2>7, <2>10, SentShows, UnseenList
  <2> QED BY <1>2, <1>3, <2>9, <2>11 DEF ListInv
<1> QED BY <1>5, <1>6

\* What the user does, but for attending to a message.
LEMMA UserLists ==
  ASSUME CInv, TalkInv, ListInv, UserActs, ~Dismiss
  PROVE  ListInv'
<1> SUFFICES ASSUME ~hasty', "names" \notin spoilt', Unnumbered PROVE ListInv'
  BY DEF ListInv, Unnumbered
<1>1. ASSUME NEW c, NEW rash, Act(c, rash), Rash => rash, Mild(c),
             ~hasty /\ ~Awaiting /\ ~client.modal => Deed(c)
      PROVE  ListInv'
  <2>1. ~hasty /\ ~rash /\ Become(c, answers) /\ UNCHANGED <<db, spoilt>>
    BY <1>1 DEF Act
  <2>2. ~Awaiting /\ ~client.modal
    BY <1>1, <2>1 DEF Rash
  <2>3. Deed(c) /\ Rest(session.up, answers) /\ ~Broken(client)
    BY <1>1, <2>1, <2>2, Calm DEF Broken
  <2>4. /\ DOMAIN c = ClientFields /\ c.socket = client.socket
        /\ client.socket = "open" => c.sent = <<>> \/ \E r : c.sent = <<r>>
    BY <2>3 DEF Deed
  <2> QED BY <1>1, <2>1, <2>3, <2>4, MildLists
<1>2. ASSUME NEW c, User(c), Mild(c), ~hasty /\ ~Awaiting /\ ~client.modal => Deed(c)
      PROVE  ListInv'
  BY <1>1, <1>2 DEF User
<1>3. CASE Login
  <2>1. PICK l \in Logins : User(SendLogin(client, l.user, l.password))
    BY <1>3 DEF Login
  <2>2. client.access
    BY <1>3 DEF Login, FormShown
  <2>3. ~hasty /\ ~Awaiting /\ ~client.modal => Deed(SendLogin(client, l.user, l.password))
    BY <2>2, LoginDeed DEF SendLogin
  <2> QED BY <1>2, <2>1, <2>3, DeedsMild
<1>4. CASE Signup
  <2>1. PICK a \in Signups : User(SendSignup(client, a))
    BY <1>4 DEF Signup
  <2>2. client.access
    BY <1>4 DEF Signup, FormShown
  <2>3. ~hasty /\ ~Awaiting /\ ~client.modal => Deed(SendSignup(client, a))
    BY <2>2, LoginDeed DEF SendSignup
  <2> QED BY <1>2, <2>1, <2>3, DeedsMild
<1>5. CASE SwitchForm \/ Pick
  BY <1>5, FillLists
<1>6. CASE Open
  BY <1>6, OpenLists
<1>7. CASE Delete \/ SaveProfile \/ Leave
  BY <1>2, <1>7, DialogDeed, DeedsMild DEF Delete, SaveProfile, Leave
<1>8. CASE Menu \/ Close \/ Edit \/ Save \/ EditIllegal
  BY <1>2, <1>8, EditorDeed, DeedsMild DEF Menu, Close, Edit, Save, EditIllegal, EditorShown
<1>9. CASE Say
  <2>1. Act(SendMessage(client), Rash \/ client.editor # "shown")
    BY <1>9 DEF Say
  <2>2. client.editor = "shown"
    BY <2>1 DEF Act
  <2> QED BY <1>1, <2>1, <2>2, EditorDeed, DeedsMild
<1> QED BY <1>3, <1>4, <1>5, <1>6, <1>7, <1>8, <1>9 DEF UserActs

\* The action of a message dialog leaves the list, or closes it.
Alongside(c, e) ==
  /\ e.name = c.name /\ e.user = c.user /\ e.files = c.files /\ e.choice = c.choice
  /\ e.dialog => c.dialog
LEMMA ActionShows ==
  ASSUME NEW c, DOMAIN c = ClientFields, c.kind \in Kinds
  PROVE  /\ Alongside(c, ModalAction(c)) /\ DOMAIN ModalAction(c) = ClientFields
         /\ ModalAction(c).kind \in Kinds
         /\ Alongside(c, Hide(c)) /\ DOMAIN Hide(c) = ClientFields /\ Hide(c).kind = c.kind
<1> DEFINE e == ModalAction(c)
           h == Hide(c)
<1>1. DOMAIN e = ClientFields /\ e.kind \in Kinds
  BY ActionDoes
<1>2. Alongside(c, h) /\ DOMAIN h = ClientFields /\ h.kind = c.kind
  BY DEF Alongside, Hide, ClientFields
<1>3. Alongside(c, e)
  <2>1. \/ e = InitState(c) \/ e = [Hide(c) EXCEPT !.loader = FALSE] \/ e = [c EXCEPT !.field = c.alias]
        \/ e = Tell(h, Request("QUIT_FILE"), "GENERIC_ERROR")
        \/ e = Tell(h, Request("LOAD_FILE"), "CRDT_ERROR") \/ e = Hide(c)
    BY DEF ModalAction, SendQuit, SendLoad, Kinds
  <2>2. CASE e = InitState(c) \/ e = [Hide(c) EXCEPT !.loader = FALSE]
             \/ e = [c EXCEPT !.field = c.alias] \/ e = Hide(c)
    BY <2>2 DEF Alongside, InitState, Hide, ClientFields
  <2>3. ASSUME NEW r, NEW kind, e = Tell(h, r, kind) PROVE Alongside(c, e)
    <3> HIDE DEF h
    <3>1. Alongside(h, Tell(h, r, kind))
      BY <1>2 DEF Alongside, Tell, Show, ClientFields
    <3> HIDE DEF e
    <3> QED BY <1>2, <2>3, <3>1 DEF Alongside
  <2> HIDE DEF e
  <2> QED BY <2>1, <2>2, <2>3
<1> QED BY <1>1, <1>2, <1>3

LEMMA DismissShows ==
  ASSUME CInv, client.modal, NEW c \in {ModalButton(client), ModalEscape(client)}
  PROVE  Alongside(client, c)
<1> DEFINE h == Hide(client)
           x == ModalAction(h)
           y == ModalAction(client)
           z == Hide(y)
           w == ModalAction(z)
<1>1. client.kind \in Kinds /\ DOMAIN client = ClientFields
  BY Known DEF CInv, IsClient, Typed
<1>2. /\ Alongside(client, y) /\ DOMAIN y = ClientFields /\ y.kind \in Kinds
      /\ Alongside(client, h) /\ DOMAIN h = ClientFields /\ h.kind = client.kind
  BY <1>1, ActionShows
<1>3. c = x \/ c = w
  BY DEF ModalButton, ModalEscape
<1> HIDE DEF h, y
<1>4. Alongside(h, x) /\ Alongside(y, z) /\ DOMAIN z = ClientFields /\ z.kind \in Kinds
  BY <1>1, <1>2, ActionShows
<1> HIDE DEF z, x
<1>5. Alongside(z, w)
  BY <1>4, ActionShows
<1> HIDE DEF w
<1> QED BY <1>2, <1>3, <1>4, <1>5 DEF Alongside

\* A connection that is given up has no requests.
LEMMA GivenLists ==
  ASSUME CInv, TalkInv, ListInv, ~hasty, "names" \notin spoilt, Unnumbered, NEW c, Given(c),
         DOMAIN c = ClientFields, c.hash = client.hash, Become(c, answers),
         UNCHANGED <<db, spoilt>>
  PROVE  ListInv'
<1>1. Conn(client', session', ghost', answers', db'.docs)
  BY ConnGiven DEF TalkInv
<1>2. client' = [c EXCEPT !.sent = <<>>]
  BY DEF Become
<1>3. client'.socket \in {"opening", "closed"}
  BY <1>2, SentShows DEF Given
<1>4. session'.up = <<>>
  BY <1>1, <1>3 DEF Conn
<1>5. Orders(session', db)
  BY <1>4, HasNothing DEF Orders, Has
<1> QED BY <1>3, <1>5, ListsBefore DEF ListInv

\* The user attends to a message.
LEMMA DismissLists ==
  ASSUME CInv, TalkInv, ListInv, Dismiss
  PROVE  ListInv'
<1>1. PICK c \in {ModalButton(client), ModalEscape(client)} : Silent(c)
  BY DEF Dismiss
<1>2. Become(c, answers) /\ UNCHANGED <<db, hasty, spoilt>> /\ client.modal
  BY <1>1 DEF Silent, Dismiss
<1> SUFFICES ASSUME ~hasty, "names" \notin spoilt, Unnumbered PROVE ListInv'
  BY <1>2 DEF ListInv, Unnumbered
<1>3. /\ client.kind \in Kinds /\ DOMAIN c = ClientFields /\ c.hash = client.hash
      /\ Given(c) \/ c.socket = client.socket
      /\ client.kind \in Reconnects => Given(c)
      /\ client.kind \in Repairs /\ client.socket = "open" =>
           /\ c.socket = "open" /\ But(client, c, {"modal"})
           /\ \/ c.sent = <<Repair(client.kind)>>
              \/ c.sent = Append(<<Repair(client.kind)>>, Repair(client.kind))
      /\ client.kind \notin Reconnects \cup Repairs /\ client.socket = "open" =>
           c.socket = "open" /\ c.sent = <<>>
  BY <1>2, DismissDoes
<1>4. CASE Given(c)
  BY <1>2, <1>3, <1>4, GivenLists
<1>5. CASE client.socket # "open" /\ c.socket = client.socket
  <2>1. Same(session, session') /\ client' = [c EXCEPT !.sent = <<>>]
    BY <1>2, <1>5, Known, BecomeAway
  <2>2. client'.socket # "open"
    BY <1>3, <1>5, <2>1, SentShows
  <2>3. Orders(session', db) /\ Numbered(db)
    BY <2>1, ListsBefore DEF Orders, Same
  <2> QED BY <1>2, <2>2, <2>3 DEF ListInv
<1>6. CASE client.socket = "open" /\ client.kind \notin Reconnects
  <2> DEFINE r == Repair(client.kind)
  <2>1. Rest(session.up, answers) /\ (client.kind = "OPENFILE_ERROR" <=> Broken(client))
    BY <1>2, <1>6 DEF TalkInv, Talk, Dialogs, Rest, Broken, Reconnects
  <2>2. r.type \in {"QUIT_FILE", "LOAD_FILE"} /\ (client.kind = "OPENFILE_ERROR" => r.type = "QUIT_FILE")
    BY DEF Repair, Request
  <2> HIDE DEF r
  <2>3. c.sent = <<>> \/ c.sent = <<r>> \/ c.sent = Append(<<r>>, r)
    BY <1>3, <1>6 DEF r
  <2>4. ToSet(c.sent) \subseteq {r} /\ (c.sent # <<>> => ToSet(c.sent) = {r})
    <3>1. IsSeq(<<r>>) /\ ToSet(<<r>>) = {r} /\ ToSet(<<>>) = {}
      BY OneSent, InOne
    <3>2. ToSet(Append(<<r>>, r)) = {r}
      BY <3>1, AtEnd
    <3>3. CASE c.sent = <<>>
      BY <3>1, <3>3
    <3>4. CASE c.sent = <<r>>
      BY <3>1, <3>4
    <3>5. CASE c.sent = Append(<<r>>, r)
      BY <3>2, <3>5
    <3> QED BY <2>3, <3>3, <3>4, <3>5
  <2>5. Mild(c)
    <3>1. Alongside(client, c)
      BY <1>2, DismissShows
    <3>2. ~Has(c.sent, "OPEN_FILE")
      BY <2>2, <2>4 DEF Has
    <3> QED BY <3>1, <3>2 DEF Mild, Alongside
  <2>6. Broken(client) => (c.valid => client.valid) /\ Has(c.sent, "QUIT_FILE")
    <3> SUFFICES ASSUME Broken(client)
                 PROVE  (c.valid => client.valid) /\ Has(c.sent, "QUIT_FILE")
      OBVIOUS
    <3>1. client.kind \in Repairs /\ r.type = "QUIT_FILE"
      BY <2>1, <2>2 DEF Repairs
    <3>2. c.valid = client.valid
      BY <1>3, <1>6, <3>1 DEF But, TalkFields
    <3>3. r \in ToSet(c.sent)
      <4>1. c.sent = <<r>> \/ c.sent = Append(<<r>>, r)
        BY <1>3, <1>6, <3>1 DEF r
      <4>2. <<r>> # <<>> /\ Append(<<r>>, r) # <<>>
        <5>1. IsSeq(<<r>>) /\ <<r>> # <<>> /\ ToSet(<<r>>) = {r} /\ ToSet(<<>>) = {}
          BY OneSent, InOne
        <5>2. ToSet(Append(<<r>>, r)) = {r}
          BY <5>1, AtEnd
        <5> QED BY <5>1, <5>2
      <4>3. c.sent # <<>>
        BY <4>1, <4>2
      <4> QED BY <2>4, <4>3
    <3> QED BY <3>1, <3>2, <3>3 DEF Has
  <2>7. c.socket = "open"
    BY <1>3, <1>6
  <2>8. \/ c.sent = <<>>
        \/ \E q : c.sent = <<q>> \/ c.sent = Append(<<q>>, q)
    BY <2>3
  <2> QED BY <1>2, <1>3, <1>6, <2>1, <2>5, <2>6, <2>7, <2>8, MildLists
<1> QED BY <1>3, <1>4, <1>5, <1>6

\* Others edit the document, or say something.
LEMMA PeerLists ==
  ASSUME CInv, TalkInv, ListInv, Peer
  PROVE  ListInv'
<1>1. /\ session.joined /\ client.socket = "open"
      /\ UNCHANGED <<client, session, ghost, db, crashed, hasty, spoilt>>
  BY DEF Peer
<1> SUFFICES ASSUME ~hasty, "names" \notin spoilt, Unnumbered PROVE ListInv'
  BY <1>1 DEF ListInv, Unnumbered
<1>2. /\ Numbered(db) /\ Orders(session, db) /\ ListedSo(client, session, answers, db)
      /\ Talk(client, session, answers, db, spoilt)
  BY <1>1, ListsBefore DEF TalkInv
<1>3. PICK type \in {"CRDT", "CHAT"} : answers' = answers \o Answer(type, "SUCCESS", session.file)
  BY DEF Peer
<1> DEFINE m == [type |-> type, result |-> "SUCCESS", body |-> session.file]
<1>4. m.type \in {"CRDT", "CHAT"}
  OBVIOUS
<1>5. IsSeq(answers) /\ answers' = Append(answers, m)
  BY <1>3, Known, AddedOne DEF Answer
<1> HIDE DEF m
<1>6. ToSet(answers') = ToSet(answers) \cup {m} /\ IsSeq(answers')
  BY <1>5, AtEnd
<1>7. \A t : Has(answers', t) <=> Has(answers, t) \/ m.type = t
  BY <1>5, HasMore
<1>8. OpenThenLoad(answers') => OpenThenLoad(answers)
  <2> SUFFICES ASSUME OpenThenLoad(answers') PROVE OpenThenLoad(answers)
    OBVIOUS
  <2>1. PICK n \in ToSet(answers') : Opens(n)
    BY <1>6, OpenHas
  <2>2. n \in ToSet(answers)
    BY <1>4, <1>6, <2>1 DEF Opens
  <2>3. IsSeq(session.up) /\ Exchange(session.up, answers)
    BY <1>2, Known DEF Talk
  <2> QED BY <1>5, <2>1, <2>2, <2>3, OpenedComes
<1>9. Moving(client, session.up, answers') <=> Moving(client, session.up, answers)
  BY <1>4, <1>7 DEF Moving, Due, Answerable
<1>10. Works(client, session, answers') => Works(client, session, answers)
  BY <1>8, <1>9 DEF Works
<1>11. OldOpens(session, session)
  BY DEF OldOpens
<1>12. ListedSo(client, session, answers', db)
  <2>1. \A n \in ToSet(answers') : n \in ToSet(answers) \/ n.type \notin {"LOGIN", "GET_FILES"}
    BY <1>4, <1>6
  <2> QED BY <1>2, <1>10, <1>11, <2>1, ListedStays
<1> QED BY <1>1, <1>2, <1>12 DEF ListInv

-----------------------------------------------------------------------------
(* The connection.                                                         *)

\* A new connection has nothing on its way.
LEMMA AcceptLists ==
  ASSUME CInv, TalkInv, ListInv, Accept
  PROVE  ListInv'
<1>1. /\ client.socket = "opening" /\ client' = Opened(client) /\ session' = NewSession
      /\ UNCHANGED <<answers, db, hasty, spoilt>>
  BY DEF Accept
<1> SUFFICES ASSUME ~hasty, "names" \notin spoilt, Unnumbered PROVE ListInv'
  BY <1>1 DEF ListInv, Unnumbered
<1>2. answers = <<>> /\ ~client.dialog
  BY <1>1 DEF TalkInv, Conn
<1>3. ~client'.dialog
  BY <1>1, <1>2, Known DEF Opened, ClientFields
<1>4. session'.up = <<>> /\ session'.joined = FALSE
  BY <1>1 DEF NewSession, NoSession
<1>5. ToSet(<<>>) = {}
  BY InOne
<1>6. Orders(session', db) /\ ListedSo(client', session', <<>>, db)
  BY <1>3, <1>4, <1>5 DEF Orders, ListedSo, Current, Works
<1> QED BY <1>1, <1>2, <1>6, ListsBefore DEF ListInv

\* A connection that is given up, and one that breaks.
LEMMA BreakLists ==
  ASSUME CInv, TalkInv, ListInv, Timeout \/ Lose \/ Drop
  PROVE  ListInv'
<1>1. UNCHANGED <<db, hasty, spoilt>>
  BY DEF Timeout, Lose, Drop, Silent
<1> SUFFICES ASSUME ~hasty, "names" \notin spoilt, Unnumbered PROVE ListInv'
  BY <1>1 DEF ListInv, Unnumbered
<1>2. ASSUME NEW c, Silent(c), Given(c), DOMAIN c = ClientFields, c.hash = client.hash
      PROVE  ListInv'
  BY <1>2, GivenLists DEF Silent
<1>3. CASE Timeout
  <2>1. Silent(TimedOut(client))
    BY <1>3 DEF Timeout
  <2>2. /\ Given(TimedOut(client)) /\ DOMAIN TimedOut(client) = ClientFields
        /\ TimedOut(client).hash = client.hash
    BY Known DEF TimedOut, Show, Given, ClientFields
  <2> QED BY <1>2, <2>1, <2>2
<1>4. CASE Drop
  <2> DEFINE c == [client EXCEPT !.socket = "closed"]
  <2>1. Silent(c)
    BY <1>4 DEF Drop
  <2>2. Given(c) /\ DOMAIN c = ClientFields /\ c.hash = client.hash
    BY Known DEF Given, ClientFields
  <2> HIDE DEF c
  <2> QED BY <1>2, <2>1, <2>2
<1>5. CASE Lose
  <2>1. /\ client' = [client EXCEPT !.socket = "lost"]
        /\ \E k \in 0..Len(session.up) : session' = [session EXCEPT !.up = SubSeq(@, 1, k)]
    BY <1>5 DEF Lose
  <2>2. client'.socket = "lost"
    BY <2>1, Known DEF ClientFields
  <2>3. PICK k \in 0..Len(session.up) :
          session'.up = SubSeq(session.up, 1, k) /\ session'.user = session.user
    BY <2>1, Known
  <2>4. /\ IsSeq(session.up) /\ IsSeq(session'.up) /\ Len(session'.up) = k
        /\ ToSet(session'.up) \subseteq ToSet(session.up)
        /\ \A i \in 1..k : session'.up[i] = session.up[i]
    BY <2>3, Known, InPrefix DEF IsSeq
  <2>5. Lone(session.up) => Lone(session'.up)
    <3>1. Len(session.up) \in Nat
      BY <2>4 DEF IsSeq
    <3> QED BY <2>3, <2>4, <3>1 DEF Lone
  <2>6. Orders(session', db)
    BY <2>3, <2>4, <2>5, ListsBefore DEF Orders
  <2> QED BY <1>1, <2>2, <2>6, ListsBefore DEF ListInv
<1> QED BY <1>3, <1>4, <1>5

-----------------------------------------------------------------------------
(* The specification.                                                      *)

\* With unnumbered names the tables are numbered as the server numbers them.
LEMMA ListInit == Init => ListInv
<1> SUFFICES ASSUME Init, Unnumbered PROVE Numbered(db) /\ Orders(session, db)
  <2>1. Init => client.socket = "opening"
    BY DEF Init, NewClient
  <2> QED BY <2>1 DEF ListInv
<1>1. db = InitialDB /\ session.up = <<>>
  BY DEF Init, NoSession
<1>2. Orders(session, db)
  BY <1>1, InOne DEF Orders
<1>3. ASSUME NEW r \in db.rows
      PROVE  /\ r = Row(r.user, r.name, r.doc)
             /\ r.name.nth \leq Alike(NamesOf(db, r.user), r.name.base)
  <2>1. r = Row(r.user, r.name, r.doc) /\ IsFiniteSet(db.rows)
    BY <1>1, InitialDBAssumption DEF Row
  <2>2. r.name \in FirstNames
    BY <1>1 DEF FirstNames
  <2>3. r.name \in Names /\ r.name.nth \in Nat /\ r.name.nth < 2
    BY <2>2, NamesAssumption, NamesAre DEF Unnumbered
  <2>4. r.name \in NamesOf(db, r.user) /\ IsFiniteSet(NamesOf(db, r.user))
    <3>1. IsFiniteSet(RowsOf(db, r.user)) /\ r \in RowsOf(db, r.user)
      BY <2>1, FS_Subset DEF RowsOf
    <3>2. AreTables(db) /\ r.name \in NamesOf(db, r.user)
      BY <3>1, CInvInit DEF CInv, NamesOf
    <3>3. IsFiniteSet(DOMAIN FilesOf(db, r.user, {}))
      BY <3>2, FilesAreList DEF IsList
    <3>4. DOMAIN FilesOf(db, r.user, {}) = NamesOf(db, r.user)
      BY DEF FilesOf, NamesOf
    <3> QED BY <3>2, <3>3, <3>4
  <2>5. Alike(NamesOf(db, r.user), r.name.base) \in Nat
        /\ Alike(NamesOf(db, r.user), r.name.base) \geq 1
    BY <2>3, <2>4, AlikeIs, NamesAre
  <2> QED BY <2>1, <2>3, <2>5
<1>4. ASSUME NEW d \in db.docs PROVE d.title.nth < 2
  BY <1>1 DEF Unnumbered, FirstNames
<1> QED BY <1>2, <1>3, <1>4 DEF Numbered

\* Every step keeps the invariant.
LEMMA ListStep ==
  ASSUME CInv, TalkInv, ListInv, [Next]_vars
  PROVE  ListInv'
<1>1. CASE UserActs
  BY <1>1, UserLists, DismissLists
<1>2. CASE SystemActs
  BY <1>2, ServeLists, GhostLists, ReceiveLists, AcceptLists, BreakLists DEF SystemActs
<1>3. CASE Peer \/ Lose \/ Drop
  BY <1>3, PeerLists, BreakLists
<1>4. CASE UNCHANGED vars
  <2>1. UNCHANGED <<client, session, answers, db, hasty, spoilt>>
    BY <1>4 DEF vars
  <2> QED BY <2>1 DEF ListInv, Unnumbered
<1> QED BY <1>1, <1>2, <1>3, <1>4 DEF Next

LEMMA ListAlways == Spec => [](CInv /\ TalkInv /\ ListInv)
BY CInvInit, TalkInit, ListInit, CInvStep, TalkStep, ListStep, PTL DEF Spec

\* When nothing is under way, the document that a patient user edits is in his
\* list, under the name that his window shows: neither typing, clicking and
\* pasting in the dialog nor the number that the server gives to a name leads
\* to the name of another row.
\* (on_openFileButton_clicked, createInnerFilename, connectToFile)
THEOREM WorkIsListed == Spec => []Listed
<1>1. TalkInv /\ ListInv => Listed
  <2> SUFFICES ASSUME TalkInv, ListInv, ~hasty, Settled, EditorShown, client.valid,
                      "names" \notin spoilt, Unnumbered
               PROVE  Row(client.user, client.name, client.copy) \in db.rows
    BY DEF Listed, Patient, Row
  <2>1. session.up = <<>> /\ answers = <<>> /\ ~client.modal /\ client.socket = "open"
    BY DEF Settled
  <2>2. Talk(client, session, <<>>, db, spoilt) /\ ListedSo(client, session, <<>>, db)
    BY <2>1, ListsBefore DEF TalkInv
  <2>3. \A t : ~Due(<<>>, <<>>, t)
    BY HasNothing DEF Due
  <2>4. ~Moving(client, session.up, <<>>)
    BY <2>1, <2>3 DEF Moving, Broken
  <2>5. client.editor = "shown" /\ ~client.busy
    BY DEF EditorShown, Settled
  <2>6. session.joined
    BY <2>1, <2>2, <2>3, <2>4, <2>5 DEF Talk, Windows
  <2>7. session.file = client.copy
    <3>1. client.editor = "shown" /\ ~client.busy => client.copy = Shows(client, db.docs)
      BY <2>2, <2>4 DEF Talk, Texts
    <3>2. session.joined => session.file = Shows(client, db.docs)
      BY <2>2, <2>4 DEF Talk, Texts
    <3> QED BY <2>5, <2>6, <3>1, <3>2
  <2>8. Works(client, session, <<>>)
    BY <2>6 DEF Works
  <2> QED BY <2>2, <2>7, <2>8 DEF ListedSo
<1> QED BY <1>1, ListAlways, PTL
=============================================================================
