------------------------------ MODULE KKClient ------------------------------
(***************************************************************************)
(* A client (KKWindows) and its session on the server: logging in, the     *)
(* list of documents, opening, editing and closing one, the dialogs, the   *)
(* timer and new connections.  The others who use the server are what      *)
(* reaches the client of them: edits, messages and refusals.               *)
(*                                                                         *)
(* A connection that the client gives up leaves its session behind: until  *)
(* the server handles the disconnection it is still in its document, next  *)
(* to the session of the new connection.                                   *)
(***************************************************************************)
EXTENDS KKWindows, KKAccounts

CONSTANTS
  Aliases,        \* what a user may be called
  InitialDB,      \* the database at the start
  Logins,         \* what is typed in the form of the login,
  Signups,        \* in the form of a new account
  Titles,         \* and in the line for the name of a document
  Plans           \* bounds: how often each thing happens; every run picks one


VARIABLES
  client,     \* the client's state (KKWindows)
  session,    \* the session of its connection
  answers,    \* what the server has sent and the client has not handled
  ghost,      \* the session of an earlier connection
  db,         \* the tables: accounts, rows of FILES, documents, aliases
  crashed,    \* the server has used the document of a session that has none
  told,       \* history: accounts the user was told to have created
  hasty,      \* history: the user has acted with something unattended
  spoilt,     \* history: "exec" a query failed unnoticed, "names" any call
              \* failed or a document was deleted; either too when a connection
              \* given up changed the profile or the list
  astray,     \* history: an edit or a text came to the copy of another document
  left        \* what is left of the plan

vars == <<client, session, answers, ghost, db, crashed, told, hasty, spoilt, astray, left>>

Deeds == {"login", "signup", "pick", "open", "menu", "close", "edit", "illegal", "say",
          "profile", "delete", "leave", "peer", "fail", "refuse", "lose", "drop", "slow"}

\* Who may own a document, and what a document may be called: names made of
\* the words of what is typed or there from the start, and of numbers.
Users == {l.user : l \in Logins} \cup {d.owner : d \in InitialDB.docs} \cup {Nobody, Nothing}
FirstNames ==
  (Titles \ {Invalid}) \cup {d.title : d \in InitialDB.docs} \cup {r.name : r \in InitialDB.rows}
Words == (UNION {ToSet(n.base) : n \in FirstNames}) \cup Nat
Names == [base : Seq(Words), nth : Nat]
Docs == [owner : Users, title : Names]

ASSUME NamesAssumption ==
  Nothing \notin Names /\ Invalid \notin Names /\ Nothing \notin Docs
  /\ FirstNames \subseteq Names

\* The rows of FILES are of documents that exist.
ASSUME InitialDBAssumption ==
  /\ InitialDB = [accounts |-> InitialDB.accounts, rows |-> InitialDB.rows,
                  docs |-> InitialDB.docs, alias |-> InitialDB.alias]
  /\ InitialDB.docs \subseteq Docs
  /\ IsFiniteSet(InitialDB.rows)
  /\ \A r \in InitialDB.rows :
       r = [user |-> r.user, name |-> r.name, doc |-> r.doc] /\ r.doc \in InitialDB.docs

ASSUME PlansAssumption == Plans \subseteq [Deeds -> Nat]

Spend(deed) == left[deed] > 0 /\ left' = [left EXCEPT ![deed] = @ - 1]

NoSession == [user |-> Nothing, file |-> Nothing, joined |-> FALSE, up |-> <<>>]
NewSession == [NoSession EXCEPT !.user = Nobody]

Init ==
  /\ client = NewClient /\ session = NoSession /\ ghost = NoSession /\ answers = <<>>
  /\ db = InitialDB /\ crashed = FALSE
  /\ told = {} /\ hasty = FALSE /\ spoilt = {} /\ astray = {}
  /\ left \in Plans

-----------------------------------------------------------------------------
(* What becomes of the client, its connection and the requests it sends.   *)

\* Requests that are answered; the client is to get an answer to one.
Answerable == {"LOGIN", "SIGNUP", "LOGOUT", "UPDATE_USER", "GET_FILES", "OPEN_FILE",
               "DELETE_FILE", "LOAD_FILE", "QUIT_FILE"}
Awaiting == \E m \in ToSet(session.up \o answers) : m.type \in Answerable

\* The connection is given up: what has reached the server is handled still.
\* Bound: one earlier session at a time.
GiveUp ==
  /\ ghost = NoSession
  /\ \E k \in 0..Len(session.up) : ghost' = [session EXCEPT !.up = SubSeq(@, 1, k)]
  /\ session' = NoSession /\ answers' = <<>>

Become(c, rest) ==
  /\ client' = [c EXCEPT !.sent = <<>>]
  /\ IF Online(client) /\ ~Online(c)
     THEN GiveUp
     ELSE /\ session' = [session EXCEPT !.up = IF c.socket = "open" THEN @ \o c.sent ELSE @]
          /\ answers' = rest /\ UNCHANGED ghost

\* What the user does with something unattended: an answer that is still to
\* come, a dialog, or a chat window whose document is not there any more; only
\* a form may be filled in while an answer is due.
\* Bound: after that he only dismisses dialogs.
Rash == Awaiting \/ client.modal

Silent(c) == Become(c, answers) /\ UNCHANGED <<db, crashed, told, hasty, spoilt, astray>>
Act(c, rash) ==
  /\ ~hasty /\ hasty' = rash
  /\ Become(c, answers) /\ UNCHANGED <<db, crashed, told, spoilt, astray>>
User(c) == Act(c, Rash)
FillIn(c) == Act(c, client.modal)

-----------------------------------------------------------------------------
(* The user.                                                               *)

FormShown == client.access /\ ~client.loader
EditorShown == client.editor = "shown" /\ ~client.busy

Login ==
  /\ FormShown /\ client.form = "login" /\ Spend("login")
  /\ \E l \in Logins : User(SendLogin(client, l.user, l.password))
SwitchForm ==
  /\ FormShown /\ left["signup"] > 0 /\ UNCHANGED left
  /\ FillIn([client EXCEPT !.form = IF @ = "login" THEN "signup" ELSE "login"])
Signup ==
  /\ FormShown /\ client.form = "signup" /\ Spend("signup")
  /\ \E a \in Signups : User(SendSignup(client, a))

\* What can be done to the choice in the list of documents.
Chosen ==
  {RowClicked(client.files, client.choice, row) : row \in DOMAIN client.files}
    \cup {TextChanged(client.files, client.choice, t) : t \in Titles}
    \cup {LinkPasted(client.files, client.choice, d) : d \in db.docs}
Pick ==
  /\ client.dialog /\ Spend("pick")
  /\ \E c \in Chosen : FillIn([client EXCEPT !.choice = c])

\* Bound: a name whose document was deleted is not taken again.
Open ==
  /\ client.dialog /\ CanOpen(client.choice) /\ Spend("open")
  /\ LET t == Target(client.files, client.choice)
     IN  /\ t.hash \in db.docs \/ Doc(client.user, t.name) \notin db.docs
         /\ User(SendOpenFile([client EXCEPT !.choice.link =
                                 SelectedLink(client.files, client.choice)], t))

\* The delete icon of a row.
Delete ==
  /\ client.dialog /\ Spend("delete")
  /\ \E row \in DOMAIN client.files :
       User(SendDelete([client EXCEPT !.choice = DeleteClicked(@, row)], client.files[row]))
SaveProfile ==
  /\ client.dialog /\ Spend("profile")
  /\ \E a \in Aliases \ {client.field} : User(SendUpdateUser(client, a))
Leave ==
  /\ client.dialog /\ Spend("leave")
  /\ User(SendLogout(client)) \/ User(CloseDialog(client))

Menu == EditorShown /\ Spend("menu") /\ User(SendGetFiles(client))
Close == client.editor = "shown" /\ Spend("close") /\ User(CloseEditor(client))
Edit == EditorShown /\ Spend("edit") /\ User(SendCrdt(client))
Save == EditorShown /\ client.valid /\ Spend("edit") /\ User(SendSave(client))
EditIllegal == EditorShown /\ Spend("illegal") /\ User(RefuseEdit(client))
Say == client.chat /\ Spend("say") /\ Act(SendMessage(client), Rash \/ client.editor # "shown")

Dismiss ==
  /\ client.modal /\ UNCHANGED left
  /\ Silent(ModalButton(client)) \/ Silent(ModalEscape(client))

-----------------------------------------------------------------------------
(* The session (KKSession): what a request r does to a session s and the   *)
(* database d while the first or a later database call fails.              *)

Effect(s, ms, d) == [session |-> s, answers |-> ms, db |-> d]
Answer(type, result, body) == <<[type |-> type, result |-> result, body |-> body]>>
Said(s, type, result, body, d) == Effect(s, Answer(type, result, body), d)

\* getUserFiles
RowsOf(d, u) == {r \in d.rows : r.user = u}
FilesOf(d, u, failing) ==
  IF "second" \in failing THEN <<>>
  ELSE [n \in {r.name : r \in RowsOf(d, u)} |->
          (CHOOSE r \in RowsOf(d, u) : r.name = n).doc]
NameFree(d, u, name) == \A r \in RowsOf(d, u) : r.name # name

\* A new account's alias is its username.
AliasOf(d, u) == IF u \in DOMAIN d.alias THEN d.alias[u] ELSE u

HandleLogin(s, r, d, failing) ==
  LET l == LoginUser(d.accounts, s.user, r.user, r.password, "first" \in failing)
      t == [s EXCEPT !.user = l.user]
  IN  Said(t, "LOGIN", l.result,
           IF l.result = "SUCCESS"
           THEN [user |-> l.user, alias |-> AliasOf(d, l.user),
                 files |-> FilesOf(d, l.user, failing)]
           ELSE Nothing, d)

HandleSignup(s, r, d, failing) ==
  LET n == SignupUser(d.accounts, r.account, failing)
  IN  Said(s, "SIGNUP", n.result, r.account, [d EXCEPT !.accounts = n.accounts])

\* An UPDATE that fails is not noticed.
HandleUpdateUser(s, r, d, failing) ==
  CASE "first" \in failing -> Said(s, "UPDATE_USER", "ERROR", Nothing, d)
    [] "exec" \in failing  -> Said(s, "UPDATE_USER", "SUCCESS", Nothing, d)
    [] OTHER -> Said(s, "UPDATE_USER", "SUCCESS", Nothing,
            [d EXCEPT !.alias = [u \in DOMAIN @ \cup {s.user} |->
                                   IF u = s.user THEN r.alias ELSE @[u]]])

HandleGetFiles(s, r, d, failing) ==
  Said(s, "GET_FILES", "SUCCESS", FilesOf(d, s.user, failing), d)

\* disconnectFromFile.  (Variant: the session stays in its document.)
LeftStaying(s) == s
Left(s) == IF s.joined THEN [s EXCEPT !.file = Nothing, !.joined = FALSE] ELSE s

\* addFile: a name that is taken is not inserted, which nobody notices.
\* (Variant: the name is listed, the document is not there.)
RowOnly(d, u, name, doc) ==
  [d EXCEPT !.rows = @ \cup {[user |-> u, name |-> name, doc |-> doc]}]
WithFile(d, u, name, doc) ==
  [d EXCEPT !.docs = @ \cup {doc},
            !.rows = IF NameFree(d, u, name)
                     THEN @ \cup {[user |-> u, name |-> name, doc |-> doc]} ELSE @]

InDocument(s, doc, d) ==
  Effect([s EXCEPT !.file = doc, !.joined = TRUE],
         Answer("OPEN_FILE", "SUCCESS", Nothing) \o Answer("LOAD_FILE", "SUCCESS", doc), d)

\* connectToFile, second half: the user takes part in a document, which he
\* shares already or not.
Participate(s, r, doc, shared, d, failing) ==
  CASE "add" \in failing /\ ~shared ->
         Said([s EXCEPT !.file = doc], "OPEN_FILE", "ERROR", Nothing, d)
    [] "add" \in failing /\ shared /\ NameFree(d, s.user, r.name) ->
         Said([s EXCEPT !.file = Nothing], "OPEN_FILE", "ERROR", Nothing, d)
    [] "add" \notin failing /\ "row" \in failing -> InDocument(s, doc, d)
    [] OTHER -> InDocument(s, doc, WithFile(d, s.user, r.name, doc))

\* connectToFile.  Who has a document in the list shares it.
Connect(s, r, d, failing) ==
  LET new  == Doc(s.user, r.hash)
      free == "free" \notin failing /\ NameFree(d, s.user, r.name)
  IN  CASE r.hash \in d.docs ->
             Participate(s, r, r.hash, \E x \in RowsOf(d, s.user) : x.doc = r.hash, d, failing)
        [] r.hash \notin d.docs /\ ~free -> Said(s, "OPEN_FILE", "BAD", Nothing, d)
        [] r.hash \notin d.docs /\ free /\ "create" \in failing ->
             Said([s EXCEPT !.file = Nothing], "OPEN_FILE", "ERROR", Nothing, d)
        [] OTHER ->
             Participate(s, r, new, FALSE, WithFile(d, s.user, r.name, new), failing)

\* handleOpenFileRequest: other is the other session of the user.
Participates(s, doc) == s.joined /\ s.file = doc
HandleOpenFile(s, other, r, d, failing) ==
  IF \/ "full" \in failing /\ r.hash \in d.docs
     \/ Participates(s, r.hash)
     \/ Participates(other, r.hash) /\ other.user = s.user
  THEN Said(s, "OPEN_FILE", "BAD", Nothing, d)
  ELSE Connect(Left(s), r, d, failing)

HandleDelete(s, r, d, failing) ==
  LET deleted == [d EXCEPT !.rows = @ \ {x \in RowsOf(d, s.user) : x.doc = r.hash}]
  IN  CASE s.file = r.hash -> Said(s, "DELETE_FILE", "BAD", Nothing, d)
        [] s.file # r.hash /\ "first" \in failing -> Said(s, "DELETE_FILE", "ERROR", Nothing, d)
        [] s.file # r.hash /\ "second" \in failing ->
             Said(s, "DELETE_FILE", "ERROR", Nothing, deleted)
        [] OTHER -> Said(s, "DELETE_FILE", "SUCCESS", Nothing, deleted)

\* handleRequest
Handled(s, other, r, d, failing) ==
  CASE r.type = "LOGIN"       -> HandleLogin(s, r, d, failing)
    [] r.type = "SIGNUP"      -> HandleSignup(s, r, d, failing)
    [] r.type = "UPDATE_USER" -> HandleUpdateUser(s, r, d, failing)
    [] r.type = "GET_FILES"   -> HandleGetFiles(s, r, d, failing)
    [] r.type = "OPEN_FILE"   -> HandleOpenFile(s, other, r, d, failing)
    [] r.type = "DELETE_FILE" -> HandleDelete(s, r, d, failing)
    [] r.type \in {"LOGOUT", "QUIT_FILE"} -> Said(Left(s), r.type, "SUCCESS", Nothing, d)
    [] r.type = "LOAD_FILE"   -> Said(s, "LOAD_FILE", "SUCCESS", s.file, d)
    [] r.type = "CHAT"        -> IF s.joined THEN Said(s, "CHAT", "SUCCESS", s.file, d)
                                             ELSE Effect(s, <<>>, d)
    [] r.type \in {"CRDT", "SAVE_FILE"} -> Effect(s, <<>>, d)

\* The calls of a request that may fail.  Of those of OPEN_FILE: existFile-
\* ByUsername and addFile for a new document; addShareFile or addFile for a
\* participant; and the row that is not inserted, since existFileByUsername or
\* the INSERT itself fails.  Whether a document exists and is shared makes no
\* difference when the query for it fails: it is taken to.  But for a name, that
\* opens a document whose hash it is: KKStore has that, here it is left out.
Calls(type) ==
  CASE type \in {"LOGIN", "DELETE_FILE"} -> {{"first"}, {"second"}}
    [] type = "OPEN_FILE"   -> {{"free"}, {"create"}, {"add"}, {"row"}}
    [] type = "SIGNUP"      -> SUBSET SignupCalls \ {{}}
    [] type = "UPDATE_USER" -> {{"first"}, {"exec"}}
    [] type = "GET_FILES"   -> {{"second"}}
    [] OTHER                -> {}
Failing(type, failing) ==
  \/ failing = {} /\ UNCHANGED left
  \/ failing = {"full"} /\ type = "OPEN_FILE" /\ Spend("refuse")
  \/ failing \in Calls(type) /\ Spend("fail")
Failures(type) == {{}, {"full"}} \cup Calls(type)

NeedsFile == {"LOAD_FILE", "CRDT", "CHAT", "SAVE_FILE"}
Fatal(s) == Head(s.up).type \in NeedsFile /\ s.file = Nothing
Effects(s, other, failing) ==
  Handled([s EXCEPT !.up = Tail(@)], other, Head(s.up), db, failing)

\* The server is gone, and with it every connection.
Crash ==
  /\ crashed' = TRUE
  /\ session' = NoSession /\ ghost' = NoSession /\ answers' = <<>>
  /\ client' = [client EXCEPT !.socket = IF Online(client) THEN "closed" ELSE @]
  /\ UNCHANGED <<db, told, hasty, spoilt, astray, left>>

\* A request of the client is handled; nobody reads a connection that is lost.
\* told: an account whose creation is reported with no call failing.
Serve ==
  /\ session.up # <<>>
  /\ IF Fatal(session) THEN Crash
     ELSE \E failing \in Failures(Head(session.up).type) :
            LET e == Effects(session, ghost, failing)
            IN  /\ Failing(Head(session.up).type, failing)
                /\ session' = e.session /\ db' = e.db
                /\ answers' = IF client.socket = "open" THEN answers \o e.answers ELSE answers
                /\ told' = told \cup {m.body : m \in {x \in ToSet(e.answers) :
                                        failing = {} /\ x.type = "SIGNUP" /\ x.result = "SUCCESS"}}
                /\ spoilt' = spoilt \cup (failing \cap {"exec"}) \cup
                     (IF failing \subseteq {"full"} /\ Head(session.up).type # "DELETE_FILE"
                      THEN {} ELSE {"names"})
                /\ UNCHANGED <<client, ghost, crashed, hasty, astray>>

\* The same for what an earlier connection had sent; at last the server
\* handles its disconnection.
ServeGhost ==
  /\ ghost.up # <<>>
  /\ IF Fatal(ghost) THEN Crash
     ELSE LET e == Effects(ghost, session, {})
          IN  /\ ghost' = e.session /\ db' = e.db
              /\ spoilt' = spoilt \cup {t \in {"exec"} : db'.alias # db.alias}
                                   \cup {t \in {"names"} : db'.rows # db.rows}
              /\ UNCHANGED <<client, session, answers, crashed, told, hasty, astray, left>>
Disconnect ==
  /\ ghost # NoSession /\ ghost.up = <<>>
  /\ ghost' = NoSession
  /\ UNCHANGED <<client, session, answers, db, crashed, told, hasty, spoilt, astray, left>>

\* Somebody else edits the document, or says something.
Peer ==
  /\ session.joined /\ client.socket = "open" /\ Spend("peer")
  /\ \E type \in {"CRDT", "CHAT"} :
       answers' = answers \o Answer(type, "SUCCESS", session.file)
  /\ UNCHANGED <<client, session, ghost, db, crashed, told, hasty, spoilt, astray>>

-----------------------------------------------------------------------------
(* The connection and the timer.                                           *)

\* The document the windows are of: a new one is asked for under its name.
WindowsOf(c) == IF c.hash \in db.docs THEN c.hash ELSE Doc(c.user, c.hash)

\* handleCrdtResponse drops edits while the file is not valid.
Drops(c, m) == m.type = "CRDT" /\ ~c.valid

\* handleResponse
Receive ==
  /\ answers # <<>>
  /\ LET m == Head(answers)
     IN  /\ Become(Response(client, m), Tail(answers))
         /\ astray' = astray \cup
              {t \in {"CRDT", "LOAD_FILE", "CHAT"} :
                 t = m.type /\ m.body # WindowsOf(client) /\ ~Drops(client, m)}
  /\ UNCHANGED <<db, crashed, told, hasty, spoilt, left>>

\* handleOpenedConnection; the server makes a session.
Accept ==
  /\ client.socket = "opening" /\ ~crashed
  /\ client' = Opened(client) /\ session' = NewSession
  /\ UNCHANGED <<answers, ghost, db, crashed, told, hasty, spoilt, astray, left>>

\* Bound: an answer is late only so often, while the connection works.
Timeout ==
  /\ client.timer
  /\ IF client.socket = "open" THEN Spend("slow") ELSE UNCHANGED left
  /\ Silent(TimedOut(client))

\* The link breaks: nobody notices, or the socket does (the client does not
\* connect to its signal).
Lose ==
  /\ client.socket = "open" /\ Spend("lose")
  /\ \E k \in 0..Len(session.up) : session' = [session EXCEPT !.up = SubSeq(@, 1, k)]
  /\ client' = [client EXCEPT !.socket = "lost"] /\ answers' = <<>>
  /\ UNCHANGED <<ghost, db, crashed, told, hasty, spoilt, astray>>
Drop == client.socket = "open" /\ Spend("drop") /\ Silent([client EXCEPT !.socket = "closed"])

-----------------------------------------------------------------------------
UserActs ==
  \/ Login \/ SwitchForm \/ Signup \/ Pick \/ Open \/ Delete \/ SaveProfile \/ Leave
  \/ Menu \/ Close \/ Edit \/ Save \/ EditIllegal \/ Say \/ Dismiss
SystemActs == Serve \/ ServeGhost \/ Disconnect \/ Receive \/ Accept \/ Timeout
Next == UserActs \/ SystemActs \/ Peer \/ Lose \/ Drop

\* The event loops of the client and of the server handle what has arrived,
\* and a timer that is not stopped fires.
Fairness ==
  WF_vars(Serve) /\ WF_vars(ServeGhost) /\ WF_vars(Disconnect) /\ WF_vars(Receive)
    /\ WF_vars(Timeout)

Spec == Init /\ [][Next]_vars
FairSpec == Spec /\ Fairness

-----------------------------------------------------------------------------
(* Properties.                                                             *)

TypeOK ==
  /\ client.state \in {"NOT_CONNECTED", "CONNECTED", "CONNECTED_NOT_LOGGED",
                       "CONNECTED_NOT_SIGNED", "CONNECTED_AND_LOGGED",
                       "CONNECTED_NOT_OPENFILE", "CONNECTED_AND_OPENED"}
  /\ client.socket \in {"opening", "open", "lost", "closed"} /\ client.sent = <<>>
  /\ client.editor \in {"none", "hidden", "shown"} /\ client.form \in {"login", "signup"}
  /\ \A b \in {"timer", "modal", "access", "loader", "dialog", "busy", "chat", "valid"} :
       client[b] \in BOOLEAN
  /\ client.copy \in db.docs \cup {Nothing}
  /\ \A s \in {session, ghost} : s.joined => s.file \in db.docs
  /\ crashed \in BOOLEAN /\ hasty \in BOOLEAN /\ left \in [Deeds -> Nat]

\* A user who waits for answers, attends to a dialog before anything else and
\* leaves a chat window alone whose editor is gone.  The windows let him do
\* otherwise; then the properties below do not hold.
Patient == ~hasty

Settled ==
  client.socket = "open" /\ session.up = <<>> /\ answers = <<>> /\ ~client.modal

\* When nothing is under way, the windows show what the server does for this
\* user: an editor with a valid text is of the document its session takes
\* part in, and without an editor the session takes part in none; the dialog
\* belongs to the user of the session.  (KKClient's handlers, disconnectFromFile)
Agreement ==
  Patient /\ Settled =>
    /\ EditorShown /\ client.valid => session.joined /\ session.file = client.copy
    /\ client.dialog /\ client.editor # "shown" => ~session.joined
    /\ FormShown => ~session.joined
    /\ client.dialog => session.user = client.user

\* No edit and no text is applied to the copy of another document: fileValid
\* keeps out what was still on its way when the user went to the next one.
\* (sendOpenFileRequest, handleCrdtResponse)
RightText == Patient => {"CRDT", "LOAD_FILE"} \cap astray = {}

\* No request for the document of a session reaches a session that has none:
\* the four handlers dereference it without a check.  (kk_session.cpp:258-279)
NoNullFile == Patient => ~crashed

\* What an answer that is not a success is about.
Blame(m) ==
  CASE m.type \in {"LOGIN", "SIGNUP"} /\ m.result = "BAD" -> "LOGIN_ERROR"
    [] m.type = "OPEN_FILE" /\ m.result = "BAD" -> "OPENFILE_ERROR"
    [] m.type = "DELETE_FILE" /\ m.result = "BAD" -> "FILE_ERROR"
    [] m.type = "UPDATE_USER" -> "UPDATE_USER_ERROR"
    [] OTHER -> "SERVER_ERROR"

\* A refused request is reported as what it was, although the client decides
\* that by its own state and not by the answer: a wrong report would retry or
\* quit the wrong thing.  (handleClientErrorResponse)
RightBlame ==
  [][Patient /\ Receive /\ Head(answers).result # "SUCCESS" =>
       client'.kind = Blame(Head(answers))]_vars

\* The alias that the client shows is the one the server has, whatever was
\* typed, refused or cleared in between, unless an UPDATE failed unnoticed.
\* (handleUpdateUserResponse)
ProfileAgrees ==
  Patient /\ Settled /\ client.dialog /\ "exec" \notin spoilt => client.alias = AliasOf(db, client.user)

\* Who is told that an account was created can use it, unless a call to the
\* database failed.  (signupUser, whose insertion reports nothing)
ToldTruly == told \subseteq db.accounts

\* A document that the user works on is listed under the name he opened it
\* by, unless his list could not be read, a name has become free again or
\* names are typed with numbers: createInnerFilename counts names without
\* looking at the numbers in use, and the insertion of a name that is taken is
\* not noticed.  (connectToFile)
Unnumbered == \A n \in FirstNames : n.nth < 2
Listed ==
  Patient /\ Settled /\ EditorShown /\ client.valid /\ "names" \notin spoilt /\ Unnumbered =>
    [user |-> client.user, name |-> client.name, doc |-> client.copy] \in db.rows

\* The open button asks for the document whose name the line shows, whichever
\* of typing, clicking and pasting came last; a click on a delete icon that
\* selects another row is excepted.  (on_openFileButton_clicked)
ShownIsOpened ==
  LET c == client.choice
      t == Target(client.files, c)
  IN  Patient /\ CanOpen(c) /\ c.name \in {Nothing, c.text} =>
        /\ t.name = c.text
        /\ c.pastedLink = Nothing =>
             t.hash = IF c.text \in DOMAIN client.files THEN client.files[c.text] ELSE c.text

\* A user who sees nothing that he can use gets a window again, if only to be
\* told that the server does not answer: unless a message that is no answer
\* has stopped the timer and then the connection breaks.
\* (handleTimeOutConnection, handleResponse)
Usable == client.modal \/ FormShown \/ client.dialog \/ EditorShown
Reached ==
  Patient /\ ~Usable ~> ~Patient \/ Usable \/ (~client.timer /\ client.socket # "open")
=============================================================================
