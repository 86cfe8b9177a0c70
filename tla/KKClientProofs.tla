--------------------------- MODULE KKClientProofs ---------------------------
(***************************************************************************)
(* Theorems about a client and its session (KKClient).  Every handler of   *)
(* the client keeps what a client is, whatever it is composed of; so does  *)
(* what the session does to the tables.                                    *)
(***************************************************************************)
EXTENDS KKClient, FiniteSetTheorems, TLAPS

-----------------------------------------------------------------------------
(* What signing up does to the table of users, for every table, account    *)
(* and choice of calls that fail.                                          *)

\* USERNAME and EMAIL are keys.
Keys(accounts) ==
  \A a, b \in accounts : a.user = b.user \/ a.email = b.email => a = b

\* The insertion adds the account or nothing, and keeps the keys.
LEMMA InsertedKeys ==
  ASSUME NEW accounts, NEW a, NEW failing, Keys(accounts)
  PROVE  /\ accounts \subseteq Inserted(accounts, a, failing)
         /\ Inserted(accounts, a, failing) \subseteq accounts \cup {a}
         /\ Keys(Inserted(accounts, a, failing))
<1>1. CASE "exec" \in failing \/ HasUsername(accounts, a.user) \/ HasEmail(accounts, a.email)
  <2>1. Inserted(accounts, a, failing) = accounts
    BY <1>1 DEF Inserted
  <2> QED BY <2>1
<1>2. CASE ~("exec" \in failing \/ HasUsername(accounts, a.user) \/ HasEmail(accounts, a.email))
  <2>1. Inserted(accounts, a, failing) = accounts \cup {a}
    BY <1>2 DEF Inserted
  <2>2. \A b \in accounts : b.user # a.user /\ b.email # a.email
    BY <1>2 DEF HasUsername, HasEmail
  <2>3. Keys(accounts \cup {a})
    BY <2>2 DEF Keys
  <2> QED BY <2>1, <2>3
<1> QED BY <1>1, <1>2

\* Whatever call fails, signing up (KKDataBase::signupUser) takes no account
\* away, makes none but the one asked for, and never two with one username or
\* one address: also when both checks were skipped by a closed database.
THEOREM SignupKeepsKeys ==
  ASSUME NEW accounts, NEW a, NEW failing, Keys(accounts)
  PROVE  LET n == SignupUser(accounts, a, failing)
         IN  /\ accounts \subseteq n.accounts
             /\ n.accounts \subseteq accounts \cup {a}
             /\ Keys(n.accounts)
<1> DEFINE n == SignupUser(accounts, a, failing)
<1>1. n.accounts = accounts \/ n.accounts = Inserted(accounts, a, failing)
  BY DEF SignupUser
<1>2. CASE n.accounts = accounts
  BY <1>2
<1>3. CASE n.accounts = Inserted(accounts, a, failing)
  BY <1>3, InsertedKeys
<1> QED BY <1>1, <1>2, <1>3

\* Who is told that an account was made, with no call failing, has it: the
\* checks of signupUser find every clash that the insertion would not report.
THEOREM SignupTellsTruly ==
  ASSUME NEW accounts, NEW a
  PROVE  LET n == SignupUser(accounts, a, {})
         IN  n.result = "SUCCESS" => a \in n.accounts
<1>1. CASE HasUsername(accounts, a.user) \/ HasEmail(accounts, a.email)
  BY <1>1 DEF SignupUser
<1>2. CASE ~HasUsername(accounts, a.user) /\ ~HasEmail(accounts, a.email)
  BY <1>2 DEF SignupUser, Inserted
<1> QED BY <1>1, <1>2

-----------------------------------------------------------------------------
(* What a client, a session and the tables are.                            *)

ClientFields ==
  {"state", "timer", "socket", "sent", "modal", "kind", "access", "loader", "form", "dialog",
   "files", "choice", "field", "editor", "busy", "chat", "hash", "name", "valid", "copy",
   "user", "alias"}
States ==
  {"NOT_CONNECTED", "CONNECTED", "CONNECTED_NOT_LOGGED", "CONNECTED_NOT_SIGNED",
   "CONNECTED_AND_LOGGED", "CONNECTED_NOT_OPENFILE", "CONNECTED_AND_OPENED"}
Kinds ==
  {"CONNECTION_TIMEOUT", "GENERIC_ERROR", "SERVER_ERROR", "LOGIN_ERROR", "UPDATE_USER_ERROR",
   "CRDT_ERROR", "CHAT_ERROR", "INPUT_ERROR", "OPENFILE_ERROR", "CRDT_ILLEGAL",
   "GENERIC_SUCCESS", "FILE_ERROR"}

\* A message dialog that is shown is about something.
Typed(c, docs) ==
  /\ DOMAIN c = ClientFields
  /\ c.state \in States /\ c.socket \in {"opening", "open", "lost", "closed"}
  /\ c.editor \in {"none", "hidden", "shown"} /\ c.form \in {"login", "signup"}
  /\ c.timer \in BOOLEAN /\ c.modal \in BOOLEAN /\ c.access \in BOOLEAN /\ c.loader \in BOOLEAN
  /\ c.dialog \in BOOLEAN /\ c.busy \in BOOLEAN /\ c.chat \in BOOLEAN /\ c.valid \in BOOLEAN
  /\ c.copy \in docs \cup {Nothing}
  /\ c.modal => c.kind \in Kinds

\* A list of documents, and what is chosen in it.  What was pasted is the
\* name in the line; else the link that is kept is the one of that name,
\* unless an icon has taken the row away from it since the dialog is hidden.
IsList(files, docs) ==
  /\ DOMAIN files \subseteq Names /\ IsFiniteSet(DOMAIN files)
  /\ \A n \in DOMAIN files : files[n] \in docs
ChoiceFields == {"text", "name", "link", "pastedName", "pastedLink"}
ChoiceTyped(c, docs) ==
  /\ DOMAIN c = ChoiceFields
  /\ c.text \in Names \cup {Nothing, Invalid} /\ c.name \in Names \cup {Nothing}
  /\ c.link \in docs \cup {Nothing} /\ c.pastedName \in Names \cup {Nothing}
  /\ c.pastedLink \in docs \cup {Nothing}
Pasted(c) ==
  /\ c.pastedLink # Nothing => c.pastedName = c.text /\ c.text \in Names
  /\ c.pastedLink = Nothing => c.pastedName = Nothing
Linked(files, c, shown) ==
  c.pastedLink = Nothing /\ CanOpen(c) =>
    /\ shown \/ c.name \in {Nothing, c.text} => c.link = LinkOf(files, c.text)
    /\ c.link # Nothing => c.name # Nothing
IsChoice(files, c, shown, docs) ==
  IsList(files, docs) /\ ChoiceTyped(c, docs) /\ Pasted(c) /\ Linked(files, c, shown)

IsRequest(r, docs) ==
  /\ r.type \in Answerable \cup {"CRDT", "CHAT", "SAVE_FILE"}
  /\ r.type = "LOGIN" => r.user \in Users
  /\ r.type = "OPEN_FILE" => r.hash \in docs \cup Names /\ r.name \in Names
IsAnswer(m, docs) ==
  /\ m.type \in Answerable \cup {"CRDT", "CHAT"}
  /\ m.result \in {"SUCCESS", "BAD", "ERROR"}
  /\ m.type = "LOGIN" /\ m.result = "SUCCESS" => IsList(m.body.files, docs)
  /\ m.type = "GET_FILES" /\ m.result = "SUCCESS" => IsList(m.body, docs)
  /\ m.type = "LOAD_FILE" => m.body \in docs \cup {Nothing}
AreRequests(q, docs) == q \in Seq(ToSet(q)) /\ \A r \in ToSet(q) : IsRequest(r, docs)
AreAnswers(q, docs) == q \in Seq(ToSet(q)) /\ \A m \in ToSet(q) : IsAnswer(m, docs)

IsClient(c, docs) ==
  Typed(c, docs) /\ IsChoice(c.files, c.choice, c.dialog, docs) /\ AreRequests(c.sent, docs)

IsSession(s, docs) ==
  /\ DOMAIN s = {"user", "file", "joined", "up"}
  /\ s.user \in Users /\ s.file \in docs \cup {Nothing} /\ s.joined \in BOOLEAN
  /\ s.joined => s.file \in docs
  /\ AreRequests(s.up, docs)

AreTables(d) ==
  /\ DOMAIN d = {"accounts", "rows", "docs", "alias"}
  /\ d.docs \subseteq Docs
  /\ IsFiniteSet(d.rows) /\ \A r \in d.rows : r.name \in Names /\ r.doc \in d.docs

-----------------------------------------------------------------------------
(* Sequences by what is in them.                                           *)

LEMMA InSeq ==
  ASSUME NEW S, NEW q \in Seq(S)
  PROVE  q \in Seq(ToSet(q)) /\ ToSet(q) \subseteq S
BY DEF ToSet

LEMMA InTail ==
  ASSUME NEW q, q \in Seq(ToSet(q)), q # <<>>
  PROVE  /\ Head(q) \in ToSet(q)
         /\ Tail(q) \in Seq(ToSet(Tail(q))) /\ ToSet(Tail(q)) \subseteq ToSet(q)
<1>1. Head(q) \in ToSet(q) /\ Tail(q) \in Seq(ToSet(q))
  OBVIOUS
<1> QED BY <1>1, InSeq

LEMMA InConcat ==
  ASSUME NEW q, q \in Seq(ToSet(q)), NEW r, r \in Seq(ToSet(r))
  PROVE  q \o r \in Seq(ToSet(q \o r)) /\ ToSet(q \o r) \subseteq ToSet(q) \cup ToSet(r)
<1>1. q \o r \in Seq(ToSet(q) \cup ToSet(r))
  <2>1. q \in Seq(ToSet(q) \cup ToSet(r)) /\ r \in Seq(ToSet(q) \cup ToSet(r))
    OBVIOUS
  <2> QED BY <2>1
<1> QED BY <1>1, InSeq

LEMMA InAppend ==
  ASSUME NEW q, q \in Seq(ToSet(q)), NEW r
  PROVE  Append(q, r) \in Seq(ToSet(Append(q, r))) /\ ToSet(Append(q, r)) \subseteq ToSet(q) \cup {r}
<1>1. Append(q, r) \in Seq(ToSet(q) \cup {r})
  OBVIOUS
<1> QED BY <1>1, InSeq

LEMMA InPrefix ==
  ASSUME NEW q, q \in Seq(ToSet(q)), NEW k \in 0..Len(q)
  PROVE  /\ SubSeq(q, 1, k) \in Seq(ToSet(SubSeq(q, 1, k)))
         /\ ToSet(SubSeq(q, 1, k)) \subseteq ToSet(q)
<1>1. SubSeq(q, 1, k) \in Seq(ToSet(q))
  OBVIOUS
<1> QED BY <1>1, InSeq

LEMMA InOne ==
  ASSUME NEW r
  PROVE  <<r>> \in Seq(ToSet(<<r>>)) /\ ToSet(<<r>>) = {r} /\ ToSet(<<>>) = {} /\ <<>> \in Seq({})
BY DEF ToSet

-----------------------------------------------------------------------------
(* The handlers of the client.                                             *)

\* A choice whose dialog is hidden is one that may be shown no more.
LEMMA HiddenChoice ==
  ASSUME NEW files, NEW c, NEW shown, NEW docs, IsChoice(files, c, shown, docs)
  PROVE  IsChoice(files, c, FALSE, docs)
BY DEF IsChoice, Linked

LEMMA FreshChoice ==
  ASSUME NEW files, NEW shown, NEW docs, IsList(files, docs)
  PROVE  IsChoice(files, NoChoice, shown, docs)
BY DEF IsChoice, ChoiceTyped, Pasted, Linked, NoChoice, CanOpen, ChoiceFields

\* A handler that leaves the list, the choice and the requests alone, and
\* does not show the dialog.
Beside(c, e) ==
  /\ e.files = c.files /\ e.choice = c.choice /\ e.sent = c.sent
  /\ e.dialog = c.dialog \/ e.dialog = FALSE
LEMMA BesideKeeps ==
  ASSUME NEW c, NEW e, NEW docs, IsClient(c, docs), Typed(e, docs), Beside(c, e)
  PROVE  IsClient(e, docs)
<1>1. IsChoice(e.files, e.choice, e.dialog, docs)
  BY HiddenChoice DEF IsClient, Beside
<1> QED BY <1>1 DEF IsClient, Beside

LEMMA ShowKeeps ==
  ASSUME NEW c, NEW docs, IsClient(c, docs), NEW kind \in Kinds
  PROVE  IsClient(Show(c, kind), docs)
<1>1. Typed(Show(c, kind), docs) /\ Beside(c, Show(c, kind))
  BY DEF IsClient, Typed, Beside, Show, ClientFields
<1> QED BY <1>1, BesideKeeps

LEMMA HideKeeps ==
  ASSUME NEW c, NEW docs, IsClient(c, docs)
  PROVE  IsClient(Hide(c), docs)
<1>1. Typed(Hide(c), docs) /\ Beside(c, Hide(c))
  BY DEF IsClient, Typed, Beside, Hide, ClientFields
<1> QED BY <1>1, BesideKeeps

\* A request is sent.
LEMMA SentKeeps ==
  ASSUME NEW c, NEW docs, IsClient(c, docs), NEW r, IsRequest(r, docs)
  PROVE  IsClient([c EXCEPT !.sent = Append(@, r)], docs)
<1> DEFINE e == [c EXCEPT !.sent = Append(@, r)]
<1>1. Typed(e, docs) /\ e.files = c.files /\ e.choice = c.choice /\ e.dialog = c.dialog
  BY DEF IsClient, Typed, ClientFields
<1>2. e.sent = Append(c.sent, r)
  BY DEF IsClient, Typed, ClientFields
<1>3. AreRequests(e.sent, docs)
  BY <1>2, InAppend DEF IsClient, AreRequests
<1> QED BY <1>1, <1>3 DEF IsClient

LEMMA TellKeeps ==
  ASSUME NEW c, NEW docs, IsClient(c, docs), NEW r, IsRequest(r, docs), NEW kind \in Kinds
  PROVE  IsClient(Tell(c, r, kind), docs)
BY SentKeeps, ShowKeeps DEF Tell

LEMMA AskKeeps ==
  ASSUME NEW c, NEW docs, IsClient(c, docs), NEW r, IsRequest(r, docs), NEW state \in States
  PROVE  IsClient(Ask(c, r, state), docs)
<1> DEFINE timed == [c EXCEPT !.timer = TRUE]
           e == [timed EXCEPT !.state = state]
<1>1. Typed(timed, docs) /\ Beside(c, timed)
  BY DEF IsClient, Typed, Beside, ClientFields
<1>2. IsClient(timed, docs)
  BY <1>1, BesideKeeps
<1>3. Typed(e, docs) /\ Beside(timed, e)
  <2> HIDE DEF timed
  <2> QED BY <1>2 DEF IsClient, Typed, Beside, ClientFields
<1>4. IsClient(e, docs)
  <2> HIDE DEF timed, e
  <2> QED BY <1>2, <1>3, BesideKeeps
<1>5. [timed EXCEPT !.sent = Append(@, r), !.state = state] = [e EXCEPT !.sent = Append(@, r)]
  OBVIOUS
<1> QED BY <1>2, <1>4, <1>5, SentKeeps DEF Ask

\* The requests that the handlers send.
LEMMA PlainRequest ==
  ASSUME NEW type \in {"GET_FILES", "LOGOUT", "LOAD_FILE", "CHAT", "QUIT_FILE", "CRDT",
                       "SAVE_FILE"}, NEW docs
  PROVE  IsRequest(Request(type), docs)
BY DEF IsRequest, Request, Answerable

LEMMA LoginKeeps ==
  ASSUME NEW c, NEW docs, IsClient(c, docs), NEW user \in Users, NEW password
  PROVE  IsClient(SendLogin(c, user, password), docs)
<1> DEFINE e == [c EXCEPT !.loader = TRUE]
           r == [type |-> "LOGIN", user |-> user, password |-> password]
<1>1. IsClient(e, docs)
  <2>1. Typed(e, docs) /\ Beside(c, e)
    BY DEF IsClient, Typed, Beside, ClientFields
  <2> QED BY <2>1, BesideKeeps
<1>2. IsRequest(r, docs) /\ "CONNECTED_NOT_LOGGED" \in States
  BY DEF IsRequest, Answerable, States
<1> QED BY <1>1, <1>2, AskKeeps DEF SendLogin

LEMMA SignupKeeps ==
  ASSUME NEW c, NEW docs, IsClient(c, docs), NEW account
  PROVE  IsClient(SendSignup(c, account), docs)
<1> DEFINE e == [c EXCEPT !.loader = TRUE]
           r == [type |-> "SIGNUP", account |-> account]
<1>1. IsClient(e, docs)
  <2>1. Typed(e, docs) /\ Beside(c, e)
    BY DEF IsClient, Typed, Beside, ClientFields
  <2> QED BY <2>1, BesideKeeps
<1>2. IsRequest(r, docs) /\ "CONNECTED_NOT_SIGNED" \in States
  BY DEF IsRequest, Answerable, States
<1> QED BY <1>1, <1>2, AskKeeps DEF SendSignup

LEMMA PlainSends ==
  ASSUME NEW c, NEW docs, IsClient(c, docs)
  PROVE  /\ IsClient(SendGetFiles(c), docs) /\ IsClient(SendLogout(c), docs)
         /\ IsClient(SendLoad(c), docs) /\ IsClient(SendMessage(c), docs)
         /\ IsClient(SendQuit(c), docs) /\ IsClient(SendCrdt(c), docs)
         /\ IsClient(SendSave(c), docs)
<1>1. {"CONNECTED_AND_LOGGED", "CONNECTED_NOT_LOGGED"} \subseteq States
  BY DEF States
<1>2. {"CRDT_ERROR", "CHAT_ERROR", "GENERIC_ERROR"} \subseteq Kinds
  BY DEF Kinds
<1>3. IsClient(SendGetFiles(c), docs) /\ IsClient(SendLogout(c), docs)
  BY <1>1, AskKeeps, PlainRequest DEF SendGetFiles, SendLogout
<1>4. /\ IsClient(SendLoad(c), docs) /\ IsClient(SendMessage(c), docs)
      /\ IsClient(SendQuit(c), docs) /\ IsClient(SendCrdt(c), docs)
  BY <1>2, TellKeeps, PlainRequest DEF SendLoad, SendMessage, SendQuit, SendCrdt
<1>5. IsClient(SendSave(c), docs)
  BY SentKeeps, PlainRequest DEF SendSave
<1> QED BY <1>3, <1>4, <1>5

LEMMA DeleteKeeps ==
  ASSUME NEW c, NEW docs, IsClient(c, docs), NEW hash
  PROVE  IsClient(SendDelete(c, hash), docs)
<1>1. IsRequest([type |-> "DELETE_FILE", hash |-> hash], docs) /\ "FILE_ERROR" \in Kinds
  BY DEF IsRequest, Answerable, Kinds
<1> QED BY <1>1, TellKeeps DEF SendDelete

LEMMA UpdateKeeps ==
  ASSUME NEW c, NEW docs, IsClient(c, docs), NEW alias
  PROVE  IsClient(SendUpdateUser(c, alias), docs)
<1> DEFINE e == [c EXCEPT !.field = alias]
<1>1. IsClient(e, docs)
  <2>1. Typed(e, docs) /\ Beside(c, e)
    BY DEF IsClient, Typed, Beside, ClientFields
  <2> QED BY <2>1, BesideKeeps
<1>2. IsRequest([type |-> "UPDATE_USER", alias |-> alias], docs) /\ "GENERIC_ERROR" \in Kinds
  BY DEF IsRequest, Answerable, Kinds
<1> QED BY <1>1, <1>2, TellKeeps DEF SendUpdateUser

LEMMA CloseEditorKeeps ==
  ASSUME NEW c, NEW docs, IsClient(c, docs)
  PROVE  IsClient(CloseEditor(c), docs)
<1> DEFINE e == [c EXCEPT !.editor = "hidden"]
<1>1. Typed(e, docs) /\ Beside(c, e)
  BY DEF IsClient, Typed, Beside, ClientFields
<1> QED BY <1>1, BesideKeeps, PlainSends DEF CloseEditor

LEMMA RefuseEditKeeps ==
  ASSUME NEW c, NEW docs, IsClient(c, docs)
  PROVE  IsClient(RefuseEdit(c), docs)
<1> DEFINE e == [c EXCEPT !.valid = FALSE]
<1>1. Typed(e, docs) /\ Beside(c, e)
  BY DEF IsClient, Typed, Beside, ClientFields
<1>2. "CRDT_ILLEGAL" \in Kinds
  BY DEF Kinds
<1> QED BY <1>1, <1>2, BesideKeeps, ShowKeeps DEF RefuseEdit

\* sendOpenFileRequest, which hides the dialog and may close the editor first.
LEMMA OpenFileKeeps ==
  ASSUME NEW c, NEW docs, Typed(c, docs), IsChoice(c.files, c.choice, FALSE, docs),
         AreRequests(c.sent, docs),
         NEW t, t.hash \in docs \cup Names, t.name \in Names
  PROVE  IsClient(SendOpenFile(c, t), docs)
<1> DEFINE o == OpenWindows(c, t)
           n == [o EXCEPT !.chat = FALSE]
           r == [type |-> "OPEN_FILE", hash |-> t.hash, name |-> t.name]
<1>1. /\ Typed(o, docs) /\ o.files = c.files /\ o.choice = c.choice /\ o.sent = c.sent
      /\ o.dialog = FALSE
  BY DEF Typed, ClientFields, OpenWindows, InitEditor
<1>2. IsClient(o, docs)
  BY <1>1 DEF IsClient
<1>3. Typed(n, docs) /\ Beside(o, n)
  <2> HIDE DEF o
  <2> QED BY <1>2 DEF IsClient, Typed, Beside, ClientFields
<1>4. IsClient(CloseEditor(n), docs)
  <2> HIDE DEF o, n
  <2> QED BY <1>2, <1>3, BesideKeeps, CloseEditorKeeps
<1>5. IsRequest(r, docs) /\ "CONNECTED_NOT_OPENFILE" \in States
  BY DEF IsRequest, Answerable, States
<1> QED BY <1>2, <1>4, <1>5, AskKeeps DEF SendOpenFile, AskFor

\* A new connection, also from a dialog.
LEMMA InitStateKeeps ==
  ASSUME NEW c, NEW docs, IsClient(c, docs)
  PROVE  IsClient(InitState(c), docs)
<1>1. Typed(InitState(c), docs) /\ Beside(c, InitState(c))
  BY DEF IsClient, Typed, Beside, ClientFields, InitState, States
<1> QED BY <1>1, BesideKeeps

LEMMA CloseDialogKeeps ==
  ASSUME NEW c, NEW docs, IsClient(c, docs)
  PROVE  IsClient(CloseDialog(c), docs)
<1> DEFINE closed == [c EXCEPT !.dialog = FALSE, !.choice = NoChoice, !.field = Nothing]
           back == [closed EXCEPT !.access = TRUE, !.loader = TRUE]
<1>1. IsClient(closed, docs)
  <2>1. Typed(closed, docs) /\ closed.files = c.files /\ closed.sent = c.sent
        /\ closed.choice = NoChoice
    BY DEF IsClient, Typed, ClientFields
  <2> HIDE DEF closed
  <2> QED BY <2>1, FreshChoice DEF IsClient, IsChoice
<1>2. Typed(back, docs) /\ Beside(closed, back)
  <2> HIDE DEF closed
  <2> QED BY <1>1 DEF IsClient, Typed, Beside, ClientFields
<1>3. IsClient(SendLogout(back), docs)
  <2> HIDE DEF closed, back
  <2> QED BY <1>1, <1>2, BesideKeeps, PlainSends
<1> QED BY <1>1, <1>3 DEF CloseDialog

\* What a message dialog does: it is about one of the kinds.
LEMMA ModalActionKeeps ==
  ASSUME NEW c, NEW docs, IsClient(c, docs), c.kind \in Kinds
  PROVE  IsClient(ModalAction(c), docs) /\ ModalAction(c).kind \in Kinds
<1> DEFINE h == Hide(c)
           l == [h EXCEPT !.loader = FALSE]
           f == [c EXCEPT !.field = c.alias]
<1>h. IsClient(h, docs) /\ h.kind \in Kinds
  BY HideKeeps DEF Hide, IsClient, Typed, ClientFields
<1>1. CASE c.kind \in {"CONNECTION_TIMEOUT", "GENERIC_ERROR", "SERVER_ERROR"}
  <2>1. ModalAction(c) = InitState(c)
    BY <1>1 DEF ModalAction
  <2>2. InitState(c).kind \in Kinds
    BY DEF InitState, IsClient, Typed, ClientFields
  <2> QED BY <2>1, <2>2, InitStateKeeps
<1>2. CASE c.kind = "LOGIN_ERROR"
  <2>1. ModalAction(c) = l
    BY <1>2 DEF ModalAction
  <2>2. Typed(l, docs) /\ Beside(h, l) /\ l.kind \in Kinds
    <3> HIDE DEF h
    <3> QED BY <1>h DEF IsClient, Typed, Beside, ClientFields
  <2> HIDE DEF h, l
  <2> QED BY <1>h, <2>1, <2>2, BesideKeeps
<1>3. CASE c.kind = "UPDATE_USER_ERROR"
  <2>1. ModalAction(c) = f
    BY <1>3 DEF ModalAction
  <2>2. Typed(f, docs) /\ Beside(c, f) /\ f.kind \in Kinds
    BY DEF IsClient, Typed, Beside, ClientFields
  <2> HIDE DEF f
  <2> QED BY <2>1, <2>2, BesideKeeps
<1>4. CASE c.kind \in {"CRDT_ERROR", "CHAT_ERROR", "INPUT_ERROR", "OPENFILE_ERROR"}
  <2>1. ModalAction(c) = SendQuit(h)
    BY <1>4 DEF ModalAction
  <2>2. SendQuit(h).kind \in Kinds
    <3> HIDE DEF h
    <3> QED BY <1>h DEF SendQuit, Tell, Show, IsClient, Typed, ClientFields, Kinds
  <2> HIDE DEF h
  <2> QED BY <1>h, <2>1, <2>2, PlainSends
<1>5. CASE c.kind = "CRDT_ILLEGAL"
  <2>1. ModalAction(c) = SendLoad(h)
    BY <1>5 DEF ModalAction
  <2>2. SendLoad(h).kind \in Kinds
    <3> HIDE DEF h
    <3> QED BY <1>h DEF SendLoad, Tell, Show, IsClient, Typed, ClientFields, Kinds
  <2> HIDE DEF h
  <2> QED BY <1>h, <2>1, <2>2, PlainSends
<1>6. CASE c.kind \in {"GENERIC_SUCCESS", "FILE_ERROR"}
  <2>1. ModalAction(c) = h
    BY <1>6 DEF ModalAction
  <2> QED BY <1>h, <2>1
<1> QED BY <1>1, <1>2, <1>3, <1>4, <1>5, <1>6 DEF Kinds

LEMMA DismissKeeps ==
  ASSUME NEW c, NEW docs, IsClient(c, docs), c.modal
  PROVE  IsClient(ModalButton(c), docs) /\ IsClient(ModalEscape(c), docs)
<1>1. c.kind \in Kinds
  BY DEF IsClient, Typed
<1>2. \A e : IsClient(e, docs) /\ e.kind \in Kinds => IsClient(Hide(e), docs) /\ Hide(e).kind \in Kinds
  BY HideKeeps DEF Hide, IsClient, Typed, ClientFields
<1>3. IsClient(ModalEscape(c), docs)
  BY <1>1, <1>2, ModalActionKeeps DEF ModalEscape
<1>4. IsClient(Hide(ModalAction(c)), docs) /\ Hide(ModalAction(c)).kind \in Kinds
  BY <1>1, <1>2, ModalActionKeeps
<1> QED BY <1>3, <1>4, ModalActionKeeps DEF ModalButton

\* The answers that the client handles.
LEMMA ListedKeeps ==
  ASSUME NEW c, NEW docs, IsClient(c, docs), NEW files, IsList(files, docs)
  PROVE  IsClient(FilesListed(c, files), docs)
<1> DEFINE e == FilesListed(c, files)
<1>1. Typed(e, docs) /\ e.files = files /\ e.choice = NoChoice /\ e.sent = c.sent
  BY DEF IsClient, Typed, ClientFields, FilesListed
<1> QED BY <1>1, FreshChoice DEF IsClient

LEMMA LoggedInKeeps ==
  ASSUME NEW c, NEW docs, IsClient(c, docs), NEW body, IsList(body.files, docs)
  PROVE  IsClient(LoggedIn(c, body), docs)
<1> DEFINE e == LoggedIn(c, body)
<1>1. Typed(e, docs) /\ e.files = body.files /\ e.choice = NoChoice /\ e.sent = c.sent
  BY DEF IsClient, Typed, ClientFields, LoggedIn, States
<1> QED BY <1>1, FreshChoice DEF IsClient

LEMMA LoadedKeeps ==
  ASSUME NEW c, NEW docs, IsClient(c, docs), NEW doc \in docs \cup {Nothing}
  PROVE  IsClient(FileLoaded(c, doc), docs)
<1>1. Typed(FileLoaded(c, doc), docs) /\ Beside(c, FileLoaded(c, doc))
  BY DEF IsClient, Typed, Beside, ClientFields, FileLoaded
<1> QED BY <1>1, BesideKeeps

LEMMA AnsweredKeeps ==
  ASSUME NEW c, NEW docs, IsClient(c, docs), NEW m, IsAnswer(m, docs), m.result = "SUCCESS"
  PROVE  IsClient(Answered(c, m), docs)
<1>1. CASE m.type = "LOGIN"
  BY <1>1, LoggedInKeeps DEF Answered, IsAnswer
<1>2. CASE m.type = "SIGNUP"
  <2>1. Typed(SignedUp(c), docs) /\ Beside(c, SignedUp(c))
    BY DEF IsClient, Typed, Beside, ClientFields, SignedUp, States
  <2> QED BY <1>2, <2>1, BesideKeeps DEF Answered
<1>3. CASE m.type = "LOGOUT"
  <2>1. Typed(LoggedOut(c), docs) /\ Beside(c, LoggedOut(c))
    BY DEF IsClient, Typed, Beside, ClientFields, LoggedOut, States
  <2> QED BY <1>3, <2>1, BesideKeeps DEF Answered
<1>4. CASE m.type = "UPDATE_USER"
  <2> DEFINE e == [c EXCEPT !.alias = c.field]
  <2>1. Typed(e, docs) /\ Beside(c, e)
    BY DEF IsClient, Typed, Beside, ClientFields
  <2>2. "GENERIC_SUCCESS" \in Kinds
    BY DEF Kinds
  <2> QED BY <1>4, <2>1, <2>2, BesideKeeps, ShowKeeps DEF Answered, UserUpdated
<1>5. CASE m.type = "GET_FILES"
  BY <1>5, ListedKeeps DEF Answered, IsAnswer
<1>6. CASE m.type = "OPEN_FILE"
  <2> DEFINE e == [c EXCEPT !.state = "CONNECTED_AND_OPENED", !.valid = TRUE]
  <2>1. Typed(e, docs) /\ Beside(c, e)
    BY DEF IsClient, Typed, Beside, ClientFields, States
  <2> QED BY <1>6, <2>1, BesideKeeps DEF Answered
<1>7. CASE m.type = "DELETE_FILE"
  BY <1>7, PlainSends DEF Answered
<1>8. CASE m.type = "LOAD_FILE"
  BY <1>8, LoadedKeeps DEF Answered, IsAnswer
<1>9. CASE m.type = "QUIT_FILE"
  <2> DEFINE e == [c EXCEPT !.editor = IF @ = "none" THEN @ ELSE "hidden", !.chat = FALSE]
  <2>1. Typed(e, docs) /\ Beside(c, e)
    BY DEF IsClient, Typed, Beside, ClientFields
  <2> QED BY <1>9, <2>1, BesideKeeps, PlainSends DEF Answered, FileQuit
<1>10. CASE m.type \in {"CRDT", "CHAT"}
  BY <1>10 DEF Answered
<1> QED BY <1>1, <1>2, <1>3, <1>4, <1>5, <1>6, <1>7, <1>8, <1>9, <1>10 DEF IsAnswer, Answerable

LEMMA ResponseKeeps ==
  ASSUME NEW c, NEW docs, IsClient(c, docs), NEW m, IsAnswer(m, docs)
  PROVE  IsClient(Response(c, m), docs)
<1> DEFINE stopped == [c EXCEPT !.timer = FALSE]
<1>1. IsClient(stopped, docs)
  <2>1. Typed(stopped, docs) /\ Beside(c, stopped)
    BY DEF IsClient, Typed, Beside, ClientFields
  <2> QED BY <2>1, BesideKeeps
<1>2. ClientErrorKind(c, m) \in Kinds /\ ServerErrorKind(m) \in Kinds
  BY DEF ClientErrorKind, ServerErrorKind, Kinds
<1> HIDE DEF stopped
<1>3. CASE m.result = "SUCCESS"
  <2>1. Response(c, m) = Answered(stopped, m)
    BY <1>3 DEF Response, stopped
  <2> QED BY <1>1, <1>3, <2>1, AnsweredKeeps
<1>4. CASE m.result = "BAD"
  <2>1. Response(c, m) = Show(stopped, ClientErrorKind(c, m))
    BY <1>4 DEF Response, stopped
  <2> QED BY <1>1, <1>2, <2>1, ShowKeeps
<1>5. CASE m.result = "ERROR"
  <2>1. Response(c, m) = Show(stopped, ServerErrorKind(m))
    BY <1>5 DEF Response, stopped
  <2> QED BY <1>1, <1>2, <2>1, ShowKeeps
<1> QED BY <1>3, <1>4, <1>5 DEF IsAnswer

LEMMA ConnectionKeeps ==
  ASSUME NEW c, NEW docs, IsClient(c, docs)
  PROVE  /\ IsClient(Opened(c), docs) /\ IsClient(TimedOut(c), docs)
         /\ \A s \in {"lost", "closed"} : IsClient([c EXCEPT !.socket = s], docs)
<1>1. Typed(Opened(c), docs) /\ Beside(c, Opened(c))
  BY DEF IsClient, Typed, Beside, ClientFields, Opened, States
<1>2. Typed(TimedOut(c), docs) /\ Beside(c, TimedOut(c))
  BY DEF IsClient, Typed, Beside, ClientFields, TimedOut, Show, Kinds
<1>3. ASSUME NEW s \in {"lost", "closed"}
      PROVE  Typed([c EXCEPT !.socket = s], docs) /\ Beside(c, [c EXCEPT !.socket = s])
  BY DEF IsClient, Typed, Beside, ClientFields
<1> QED BY <1>1, <1>2, <1>3, BesideKeeps

-----------------------------------------------------------------------------
(* The list of documents (KKPicker).                                       *)

\* Documents may be added while a list is shown.
LEMMA MoreDocs ==
  ASSUME NEW docs, NEW more, docs \subseteq more
  PROVE  /\ \A files : IsList(files, docs) => IsList(files, more)
         /\ \A r : IsRequest(r, docs) => IsRequest(r, more)
         /\ \A m : IsAnswer(m, docs) => IsAnswer(m, more)
         /\ \A c : IsClient(c, docs) => IsClient(c, more)
         /\ \A s : IsSession(s, docs) => IsSession(s, more)
         /\ \A q : AreAnswers(q, docs) => AreAnswers(q, more)
<1>1. \A files : IsList(files, docs) => IsList(files, more)
  BY DEF IsList
<1>2. \A r : IsRequest(r, docs) => IsRequest(r, more)
  BY DEF IsRequest
<1>3. \A m : IsAnswer(m, docs) => IsAnswer(m, more)
  BY <1>1 DEF IsAnswer
<1>4. \A q : AreRequests(q, docs) => AreRequests(q, more)
  BY <1>2 DEF AreRequests
<1>5. \A q : AreAnswers(q, docs) => AreAnswers(q, more)
  BY <1>3 DEF AreAnswers
<1>6. \A c : Typed(c, docs) => Typed(c, more)
  BY DEF Typed
<1>7. \A files, c, shown : IsChoice(files, c, shown, docs) => IsChoice(files, c, shown, more)
  BY <1>1 DEF IsChoice, ChoiceTyped
<1>8. \A s : IsSession(s, docs) => IsSession(s, more)
  BY <1>4 DEF IsSession
<1> QED BY <1>1, <1>2, <1>3, <1>4, <1>5, <1>6, <1>7, <1>8 DEF IsClient

\* A numbered name is a name.
LEMMA NumberedName ==
  ASSUME NEW n \in Names, NEW k \in Nat
  PROVE  Text(n) \in Seq(Words) /\ Name(Text(n), k) \in Names
<1>1. n.base \in Seq(Words) /\ n.nth \in Nat
  BY DEF Names
<1>2. n.nth \in Words
  BY <1>1 DEF Words
<1>3. Text(n) \in Seq(Words)
  BY <1>1, <1>2 DEF Text
<1> QED BY <1>3 DEF Names, Name

LEMMA InnerNameIsName ==
  ASSUME NEW files, NEW docs, IsList(files, docs), NEW n \in Names
  PROVE  InnerName(files, n) \in Names
<1> DEFINE S == {f \in DOMAIN files : IsPrefix(Text(n), Text(f))}
<1>1. Cardinality(S) + 1 \in Nat
  <2>1. IsFiniteSet(S)
    BY FS_Subset DEF IsList
  <2> QED BY <2>1, FS_CardinalityType
<1>2. InnerName(files, n) \in {n, Name(Text(n), Cardinality(S) + 1)}
  BY DEF InnerName
<1> QED BY <1>1, <1>2, NumberedName

LEMMA LinkInList ==
  ASSUME NEW files, NEW docs, docs \subseteq Docs, IsList(files, docs), NEW n
  PROVE  /\ LinkOf(files, n) \in docs \cup {Nothing}
         /\ LinkOf(files, n) # Nothing <=> n \in DOMAIN files
BY NamesAssumption DEF LinkOf, IsList

LEMMA TextChangedKeeps ==
  ASSUME NEW files, NEW c, NEW docs, docs \subseteq Docs, IsChoice(files, c, TRUE, docs),
         NEW text \in Names \cup {Nothing, Invalid}
  PROVE  IsChoice(files, TextChanged(files, c, text), TRUE, docs)
<1> DEFINE new == [c EXCEPT !.text = text]
           fresh == [new EXCEPT !.pastedName = Nothing, !.pastedLink = Nothing]
           found == [fresh EXCEPT !.link = LinkOf(files, text),
                                  !.name = IF text \in DOMAIN files THEN text ELSE Nothing]
<1>1. CASE text = c.text
  BY <1>1 DEF TextChanged
<1>2. CASE text # c.text /\ text = c.pastedName /\ text # Nothing
  <2>1. c.pastedLink # Nothing
    BY <1>2 DEF IsChoice, Pasted
  <2> QED BY <1>2, <2>1 DEF IsChoice, Pasted
<1>3. CASE ~(text = c.text) /\ ~(text # c.text /\ text = c.pastedName /\ text # Nothing)
  <2>1. TextChanged(files, c, text) = IF CanOpen(fresh) THEN found ELSE fresh
    BY <1>3 DEF TextChanged
  <2>2. /\ ChoiceTyped(fresh, docs) /\ fresh.text = text
        /\ fresh.pastedLink = Nothing /\ fresh.pastedName = Nothing
    BY DEF IsChoice, ChoiceTyped, ChoiceFields
  <2>3. CASE CanOpen(fresh)
    <3>1. /\ DOMAIN found = ChoiceFields /\ found.text = text /\ found.pastedLink = Nothing
          /\ found.pastedName = Nothing /\ found.link = LinkOf(files, text)
          /\ found.name = IF text \in DOMAIN files THEN text ELSE Nothing
      BY <2>2 DEF ChoiceTyped, ChoiceFields
    <3>2. text \in Names /\ text # Nothing
      BY <2>2, <2>3 DEF CanOpen
    <3> HIDE DEF found
    <3>3. ChoiceTyped(found, docs)
      BY <3>1, <3>2, LinkInList DEF ChoiceTyped, IsChoice
    <3>4. Pasted(found)
      BY <3>1 DEF Pasted
    <3>5. Linked(files, found, TRUE)
      <4>1. LinkOf(files, text) # Nothing => text \in DOMAIN files
        BY LinkInList DEF IsChoice
      <4> QED BY <3>1, <3>2, <4>1 DEF Linked
    <3> QED BY <2>1, <2>3, <3>3, <3>4, <3>5 DEF IsChoice
  <2>4. CASE ~CanOpen(fresh)
    BY <2>1, <2>2, <2>4 DEF IsChoice, Pasted, Linked
  <2> QED BY <2>3, <2>4
<1> QED BY <1>1, <1>2, <1>3

LEMMA LinkPastedKeeps ==
  ASSUME NEW files, NEW c, NEW docs, docs \subseteq Docs, IsChoice(files, c, TRUE, docs),
         NEW doc \in docs
  PROVE  IsChoice(files, LinkPasted(files, c, doc), TRUE, docs)
<1> DEFINE e == LinkPasted(files, c, doc)
           known == {n \in DOMAIN files : files[n] = doc}
<1>1. PICK name \in Names : e = [c EXCEPT !.text = name, !.pastedName = name, !.pastedLink = doc]
  <2> DEFINE name == IF known # {} THEN CHOOSE n \in known : TRUE
                     ELSE InnerName(files, doc.title)
  <2>1. doc.title \in Names
    BY DEF Docs
  <2>2. name \in Names
    <3>1. CASE known # {}
      BY <3>1 DEF IsChoice, IsList
    <3>2. CASE known = {}
      BY <2>1, <3>2, InnerNameIsName DEF IsChoice
    <3> QED BY <3>1, <3>2
  <2> QED BY <2>2 DEF LinkPasted
<1>2. /\ DOMAIN e = ChoiceFields /\ e.text = name /\ e.pastedName = name /\ e.pastedLink = doc
      /\ e.name = c.name /\ e.link = c.link /\ doc # Nothing
  BY <1>1, NamesAssumption DEF IsChoice, ChoiceTyped, ChoiceFields
<1> QED BY <1>2 DEF IsChoice, ChoiceTyped, Pasted, Linked

\* A click on a row, and one on its delete icon.
LEMMA ClickedKeeps ==
  ASSUME NEW files, NEW c, NEW docs, docs \subseteq Docs, IsChoice(files, c, TRUE, docs),
         NEW row \in DOMAIN files
  PROVE  /\ IsChoice(files, DeleteClicked(c, row), TRUE, docs)
         /\ IsChoice(files, RowClicked(files, c, row), TRUE, docs)
<1> DEFINE e == DeleteClicked(c, row)
<1>1. row \in Names /\ row # Nothing
  BY NamesAssumption DEF IsChoice, IsList
<1>2. /\ DOMAIN e = ChoiceFields /\ e.name = row /\ e.text = c.text /\ e.link = c.link
      /\ e.pastedName = c.pastedName /\ e.pastedLink = c.pastedLink
  BY DEF IsChoice, ChoiceTyped, ChoiceFields, DeleteClicked
<1>3. IsChoice(files, e, TRUE, docs)
  <2> HIDE DEF e
  <2>1. ChoiceTyped(e, docs) /\ Pasted(e)
    BY <1>1, <1>2 DEF IsChoice, ChoiceTyped, Pasted
  <2>2. Linked(files, e, TRUE)
    BY <1>1, <1>2 DEF IsChoice, Linked, CanOpen
  <2> QED BY <2>1, <2>2 DEF IsChoice
<1>4. RowClicked(files, c, row) = TextChanged(files, e, row)
  BY DEF RowClicked, DeleteClicked
<1> QED BY <1>1, <1>3, <1>4, TextChangedKeeps

\* The open button: what it asks for is a document or a new name.
LEMMA OpenedKeeps ==
  ASSUME NEW files, NEW c, NEW docs, docs \subseteq Docs, IsChoice(files, c, TRUE, docs),
         CanOpen(c)
  PROVE  /\ IsChoice(files, [c EXCEPT !.link = SelectedLink(files, c)], FALSE, docs)
         /\ Target(files, c).hash \in docs \cup Names /\ Target(files, c).name \in Names
<1> DEFINE link == SelectedLink(files, c)
           e == [c EXCEPT !.link = link]
<1>1. c.text \in Names /\ c.text # Nothing /\ Nothing \notin DOMAIN files /\ Nothing \notin docs
  BY NamesAssumption DEF CanOpen, IsChoice, ChoiceTyped, IsList
<1>2. LinkOf(files, Nothing) = Nothing
  BY <1>1 DEF LinkOf
<1>3. link \in docs \cup {Nothing} /\ link = IF c.link # Nothing THEN c.link ELSE LinkOf(files, c.name)
  BY LinkInList DEF SelectedLink, IsChoice, ChoiceTyped
<1> HIDE DEF link
<1>4. /\ DOMAIN e = ChoiceFields /\ e.link = link /\ e.text = c.text /\ e.name = c.name
      /\ e.pastedName = c.pastedName /\ e.pastedLink = c.pastedLink
  BY DEF IsChoice, ChoiceTyped, ChoiceFields
<1> HIDE DEF e
<1>5. ChoiceTyped(e, docs) /\ Pasted(e)
  BY <1>3, <1>4 DEF IsChoice, ChoiceTyped, Pasted
<1>6. c.pastedLink = Nothing /\ link # Nothing => c.name # Nothing
  BY <1>2, <1>3 DEF IsChoice, Linked
<1>7. c.pastedLink = Nothing => c.link = LinkOf(files, c.text)
  BY DEF IsChoice, Linked
<1>8. Linked(files, e, FALSE)
  <2> SUFFICES ASSUME c.pastedLink = Nothing
               PROVE  /\ c.name \in {Nothing, c.text} => link = LinkOf(files, c.text)
                      /\ link # Nothing => c.name # Nothing
    BY <1>4 DEF Linked
  <2>1. c.name = Nothing => link = LinkOf(files, c.text)
    BY <1>2, <1>3, <1>7
  <2>2. c.name = c.text => link = LinkOf(files, c.text)
    BY <1>3, <1>7
  <2> QED BY <1>6, <2>1, <2>2
<1>9. Target(files, c).hash \in docs \cup Names /\ Target(files, c).name \in Names
  <2>1. CASE c.pastedLink # Nothing
    <3>1. c.pastedLink \in docs /\ c.pastedName \in Names
      BY <2>1 DEF IsChoice, ChoiceTyped, Pasted
    <3> QED BY <2>1, <3>1 DEF Target
  <2>2. CASE c.pastedLink = Nothing /\ link # Nothing
    <3>1. link \in docs /\ c.name \in Names
      BY <1>3, <1>6, <2>2 DEF IsChoice, ChoiceTyped
    <3> QED BY <2>2, <3>1 DEF Target, link
  <2>3. CASE c.pastedLink = Nothing /\ link = Nothing
    BY <1>1, <2>3 DEF Target, link
  <2> QED BY <2>1, <2>2, <2>3
<1> QED BY <1>5, <1>8, <1>9 DEF IsChoice, e, link

\* What ShownIsOpened says, of a choice.
LEMMA ChoiceIsShown ==
  ASSUME NEW files, NEW c, NEW shown, NEW docs, docs \subseteq Docs,
         IsChoice(files, c, shown, docs), CanOpen(c), c.name \in {Nothing, c.text}
  PROVE  /\ Target(files, c).name = c.text
         /\ c.pastedLink = Nothing =>
              Target(files, c).hash = IF c.text \in DOMAIN files THEN files[c.text] ELSE c.text
<1> DEFINE link == SelectedLink(files, c)
<1>1. c.text # Nothing /\ Nothing \notin DOMAIN files
  BY NamesAssumption DEF CanOpen, IsChoice, IsList
<1>2. CASE c.pastedLink # Nothing
  BY <1>2 DEF Target, IsChoice, Pasted
<1>3. CASE c.pastedLink = Nothing
  <2>1. c.link = LinkOf(files, c.text) /\ (c.link # Nothing => c.name # Nothing)
    BY <1>3 DEF IsChoice, Linked
  <2>2. link = LinkOf(files, c.text)
    <3>1. c.name = Nothing => LinkOf(files, c.name) = Nothing
      BY <1>1 DEF LinkOf
    <3> QED BY <2>1, <3>1 DEF SelectedLink
  <2>3. link # Nothing <=> c.text \in DOMAIN files
    BY <2>2, LinkInList DEF IsChoice
  <2>4. CASE link # Nothing
    <3>1. c.name = c.text
      <4>1. c.name # Nothing
        BY <1>1, <2>1, <2>4 DEF SelectedLink, LinkOf
      <4> QED BY <4>1
    <3>2. link = files[c.text]
      BY <2>2, <2>3, <2>4 DEF LinkOf
    <3> QED BY <1>3, <2>3, <2>4, <3>1, <3>2 DEF Target
  <2>5. CASE link = Nothing
    BY <1>3, <2>3, <2>5 DEF Target
  <2> QED BY <2>4, <2>5
<1> QED BY <1>2, <1>3

-----------------------------------------------------------------------------
(* The session and the tables.                                             *)

LEMMA FilesAreList ==
  ASSUME NEW d, AreTables(d), NEW u, NEW failing
  PROVE  IsList(FilesOf(d, u, failing), d.docs)
<1> DEFINE rows == RowsOf(d, u)
           names == {r.name : r \in rows}
           f == [r \in rows |-> r.name]
           files == [n \in names |-> (CHOOSE r \in rows : r.name = n).doc]
<1>1. rows \subseteq d.rows /\ IsFiniteSet(rows)
  BY FS_Subset DEF AreTables, RowsOf
<1>2. IsFiniteSet(names)
  <2>1. f \in Surjection(rows, names)
    BY DEF Surjection
  <2> QED BY <1>1, <2>1, FS_Surjection
<1>3. names \subseteq Names
  BY <1>1 DEF AreTables
<1>4. \A n \in names : files[n] \in d.docs
  <2>1. ASSUME NEW n \in names PROVE (CHOOSE r \in rows : r.name = n) \in rows
    OBVIOUS
  <2> QED BY <1>1, <2>1 DEF AreTables
<1>5. IsList(files, d.docs)
  BY <1>2, <1>3, <1>4 DEF IsList
<1>6. IsList(<<>>, d.docs)
  <2>1. DOMAIN <<>> = {}
    OBVIOUS
  <2> QED BY <2>1, FS_EmptySet DEF IsList
<1> QED BY <1>5, <1>6 DEF FilesOf

\* What a request may do: the tables grow, but for rows that are deleted, and
\* a new account that is reported with no call failing is there.
Reports(ms, accounts) ==
  \A m \in ToSet(ms) : m.type = "SIGNUP" /\ m.result = "SUCCESS" => m.body \in accounts
IsEffect(e, d, failing) ==
  /\ AreTables(e.db) /\ d.docs \subseteq e.db.docs /\ d.accounts \subseteq e.db.accounts
  /\ IsSession(e.session, e.db.docs) /\ AreAnswers(e.answers, e.db.docs)
  /\ failing = {} => Reports(e.answers, e.db.accounts)

LEMMA SaidIsEffect ==
  ASSUME NEW d, AreTables(d), NEW s, IsSession(s, d.docs), NEW failing,
         NEW type, NEW result, NEW body, type # "SIGNUP",
         IsAnswer([type |-> type, result |-> result, body |-> body], d.docs)
  PROVE  IsEffect(Said(s, type, result, body, d), d, failing)
<1> DEFINE m == [type |-> type, result |-> result, body |-> body]
           e == Said(s, type, result, body, d)
<1>1. e.session = s /\ e.db = d /\ e.answers = <<m>>
  BY DEF Said, Effect, Answer
<1>2. ToSet(<<m>>) = {m} /\ <<m>> \in Seq(ToSet(<<m>>)) /\ m.type = type
  BY InOne
<1> HIDE DEF m
<1>3. AreAnswers(<<m>>, d.docs)
  BY <1>2 DEF AreAnswers, m
<1>4. Reports(<<m>>, d.accounts)
  BY <1>2 DEF Reports
<1> QED BY <1>1, <1>3, <1>4 DEF IsEffect

LEMMA SilentIsEffect ==
  ASSUME NEW d, AreTables(d), NEW s, IsSession(s, d.docs), NEW failing
  PROVE  IsEffect(Effect(s, <<>>, d), d, failing)
BY InOne DEF IsEffect, Effect, AreAnswers, Reports

\* An answer without a text or a list.
LEMMA PlainAnswer ==
  ASSUME NEW type \in {"LOGIN", "GET_FILES"}, NEW result \in {"BAD", "ERROR"}, NEW body, NEW docs
  PROVE  IsAnswer([type |-> type, result |-> result, body |-> body], docs)
BY DEF IsAnswer, Answerable

LEMMA OtherAnswer ==
  ASSUME NEW type \in (Answerable \cup {"CHAT", "CRDT"}) \ {"LOGIN", "GET_FILES", "LOAD_FILE"},
         NEW result \in {"SUCCESS", "BAD", "ERROR"}, NEW body, NEW docs
  PROVE  IsAnswer([type |-> type, result |-> result, body |-> body], docs)
BY DEF IsAnswer, Answerable

LEMMA LoginIsEffect ==
  ASSUME NEW d, AreTables(d), NEW s, IsSession(s, d.docs), NEW failing,
         NEW r, r.user \in Users
  PROVE  IsEffect(HandleLogin(s, r, d, failing), d, failing)
<1> DEFINE l == LoginUser(d.accounts, s.user, r.user, r.password, "first" \in failing)
           t == [s EXCEPT !.user = l.user]
           body == IF l.result = "SUCCESS"
                   THEN [user |-> l.user, alias |-> AliasOf(d, l.user),
                         files |-> FilesOf(d, l.user, failing)]
                   ELSE Nothing
<1>1. l.user \in Users /\ l.result \in {"SUCCESS", "BAD", "ERROR"}
  <2>1. s.user \in Users /\ Nobody \in Users
    BY DEF IsSession, Users
  <2> QED BY <2>1 DEF LoginUser
<1>2. HandleLogin(s, r, d, failing) = Said(t, "LOGIN", l.result, body, d)
  BY DEF HandleLogin
<1> HIDE DEF l
<1>3. IsSession(t, d.docs)
  BY <1>1 DEF IsSession
<1>4. IsAnswer([type |-> "LOGIN", result |-> l.result, body |-> body], d.docs)
  <2>1. IsList(FilesOf(d, l.user, failing), d.docs)
    BY FilesAreList
  <2> QED BY <1>1, <2>1 DEF IsAnswer, Answerable
<1> HIDE DEF t, body
<1> QED BY <1>2, <1>3, <1>4, SaidIsEffect

LEMMA SignupIsEffect ==
  ASSUME NEW d, AreTables(d), NEW s, IsSession(s, d.docs), NEW failing, NEW r
  PROVE  IsEffect(HandleSignup(s, r, d, failing), d, failing)
<1> DEFINE n == SignupUser(d.accounts, r.account, failing)
           e == HandleSignup(s, r, d, failing)
           m == [type |-> "SIGNUP", result |-> n.result, body |-> r.account]
<1>1. /\ e.session = s /\ e.answers = <<m>> /\ e.db = [d EXCEPT !.accounts = n.accounts]
  BY DEF HandleSignup, Said, Effect, Answer
<1>2. AreTables(e.db) /\ e.db.docs = d.docs /\ e.db.accounts = n.accounts
  BY <1>1 DEF AreTables
<1>3. n.result \in {"SUCCESS", "BAD", "ERROR"} /\ d.accounts \subseteq n.accounts
  BY DEF SignupUser, Inserted
<1>4. failing = {} /\ n.result = "SUCCESS" => r.account \in n.accounts
  BY SignupTellsTruly
<1>5. ToSet(<<m>>) = {m} /\ <<m>> \in Seq(ToSet(<<m>>)) /\ m.result = n.result /\ m.body = r.account
  BY InOne
<1> HIDE DEF n
<1>6. IsAnswer(m, d.docs)
  BY <1>3, OtherAnswer DEF Answerable
<1> HIDE DEF m, e
<1>7. AreAnswers(<<m>>, d.docs)
  BY <1>5, <1>6 DEF AreAnswers
<1>8. failing = {} => Reports(<<m>>, n.accounts)
  BY <1>4, <1>5 DEF Reports
<1>9. IsEffect(e, d, failing)
  BY <1>1, <1>2, <1>3, <1>7, <1>8 DEF IsEffect
<1> QED BY <1>9 DEF e

LEMMA UpdateIsEffect ==
  ASSUME NEW d, AreTables(d), NEW s, IsSession(s, d.docs), NEW failing, NEW r
  PROVE  IsEffect(HandleUpdateUser(s, r, d, failing), d, failing)
<1> DEFINE alias == [u \in DOMAIN d.alias \cup {s.user} |->
                       IF u = s.user THEN r.alias ELSE d.alias[u]]
           b == [d EXCEPT !.alias = alias]
<1>1. HandleUpdateUser(s, r, d, failing) \in
        {Said(s, "UPDATE_USER", "ERROR", Nothing, d), Said(s, "UPDATE_USER", "SUCCESS", Nothing, d),
         Said(s, "UPDATE_USER", "SUCCESS", Nothing, b)}
  BY DEF HandleUpdateUser
<1>2. AreTables(b) /\ b.docs = d.docs /\ b.accounts = d.accounts
  BY DEF AreTables
<1> HIDE DEF b
<1>3. \A docs : \A result \in {"SUCCESS", "ERROR"} :
        IsAnswer([type |-> "UPDATE_USER", result |-> result, body |-> Nothing], docs)
  BY OtherAnswer DEF Answerable
<1>4. IsEffect(Said(s, "UPDATE_USER", "SUCCESS", Nothing, b), b, failing)
  BY <1>2, <1>3, SaidIsEffect
<1>5. IsEffect(Said(s, "UPDATE_USER", "SUCCESS", Nothing, b), d, failing)
  BY <1>2, <1>4 DEF IsEffect
<1> QED BY <1>1, <1>3, <1>5, SaidIsEffect

LEMMA LeftKeeps ==
  ASSUME NEW s, NEW docs, IsSession(s, docs)
  PROVE  IsSession(Left(s), docs)
BY DEF Left, IsSession

\* addFile: the tables with a document, and perhaps a row.
LEMMA WithFileIs ==
  ASSUME NEW d, AreTables(d), NEW u, NEW name \in Names, NEW doc \in Docs,
         NEW b, b = WithFile(d, u, name, doc)
  PROVE  AreTables(b) /\ b.docs = d.docs \cup {doc} /\ b.accounts = d.accounts
<1> DEFINE new == [user |-> u, name |-> name, doc |-> doc]
           rows == IF NameFree(d, u, name) THEN d.rows \cup {new} ELSE d.rows
<1>1. b = [d EXCEPT !.docs = d.docs \cup {doc}, !.rows = rows]
  BY DEF WithFile
<1>2. new.name = name /\ new.doc = doc /\ rows \in {d.rows, d.rows \cup {new}}
  OBVIOUS
<1> HIDE DEF new, rows
<1>3. /\ b.docs = d.docs \cup {doc} /\ b.rows = rows /\ DOMAIN b = DOMAIN d
      /\ b.accounts = d.accounts
  BY <1>1 DEF AreTables
<1>4. IsFiniteSet(rows)
  <2>1. IsFiniteSet(d.rows)
    BY DEF AreTables
  <2>2. IsFiniteSet(d.rows \cup {new})
    BY <2>1, FS_AddElement
  <2> QED BY <1>2, <2>1, <2>2
<1>5. AreTables(b)
  BY <1>2, <1>3, <1>4 DEF AreTables
<1> QED BY <1>3, <1>5

\* The document that is joined is there.
LEMMA InDocumentIsEffect ==
  ASSUME NEW d, AreTables(d), NEW s, IsSession(s, d.docs), NEW failing, NEW doc \in d.docs
  PROVE  IsEffect(InDocument(s, doc, d), d, failing)
<1> DEFINE e == InDocument(s, doc, d)
           m1 == [type |-> "OPEN_FILE", result |-> "SUCCESS", body |-> Nothing]
           m2 == [type |-> "LOAD_FILE", result |-> "SUCCESS", body |-> doc]
<1>1. /\ e.session = [s EXCEPT !.file = doc, !.joined = TRUE]
      /\ e.answers = <<m1>> \o <<m2>> /\ e.db = d
  BY DEF InDocument, Effect, Answer
<1>2. IsSession(e.session, d.docs)
  BY <1>1 DEF IsSession
<1>3. IsAnswer(m1, d.docs) /\ m1.type # "SIGNUP"
  BY OtherAnswer DEF Answerable
<1>4. IsAnswer(m2, d.docs) /\ m2.type # "SIGNUP"
  BY DEF IsAnswer, Answerable
<1> HIDE DEF m1, m2, e
<1>5. /\ <<m1>> \o <<m2>> \in Seq(ToSet(<<m1>> \o <<m2>>))
      /\ ToSet(<<m1>> \o <<m2>>) \subseteq {m1, m2}
  <2>1. <<m1>> \in Seq(ToSet(<<m1>>)) /\ <<m2>> \in Seq(ToSet(<<m2>>))
    BY InOne
  <2>2. ToSet(<<m1>>) = {m1} /\ ToSet(<<m2>>) = {m2}
    BY InOne
  <2> QED BY <2>1, <2>2, InConcat
<1>6. AreAnswers(e.answers, d.docs) /\ Reports(e.answers, d.accounts)
  BY <1>1, <1>3, <1>4, <1>5 DEF AreAnswers, Reports
<1>7. IsEffect(e, d, failing)
  BY <1>1, <1>2, <1>6 DEF IsEffect
<1> QED BY <1>7 DEF e

\* What taking part comes to: a refusal, or the document.
LEMMA ParticipateIs ==
  ASSUME NEW s, NEW r, NEW doc, NEW shared, NEW d, NEW failing
  PROVE  LET e == Participate(s, r, doc, shared, d, failing)
         IN  \/ \E f \in {doc, Nothing} :
                   e = Said([s EXCEPT !.file = f], "OPEN_FILE", "ERROR", Nothing, d)
             \/ \E b \in {d, WithFile(d, s.user, r.name, doc)} : e = InDocument(s, doc, b)
BY DEF Participate

LEMMA ParticipateIsEffect ==
  ASSUME NEW d, AreTables(d), NEW s, IsSession(s, d.docs), ~s.joined, NEW failing, NEW shared,
         NEW r, r.name \in Names, NEW doc \in d.docs
  PROVE  IsEffect(Participate(s, r, doc, shared, d, failing), d, failing)
<1> DEFINE e == Participate(s, r, doc, shared, d, failing)
           w == WithFile(d, s.user, r.name, doc)
<1>1. AreTables(w) /\ w.docs = d.docs /\ w.accounts = d.accounts
  <2>1. doc \in Docs
    BY DEF AreTables
  <2> HIDE DEF e
  <2>3. w = WithFile(d, s.user, r.name, doc)
    OBVIOUS
  <2> HIDE DEF w
  <2>2. AreTables(w) /\ w.docs = d.docs \cup {doc} /\ w.accounts = d.accounts
    BY <2>1, <2>3, WithFileIs
  <2> QED BY <2>2
<1> HIDE DEF w
<1>2. ASSUME NEW f \in {doc, Nothing},
             e = Said([s EXCEPT !.file = f], "OPEN_FILE", "ERROR", Nothing, d)
      PROVE  IsEffect(e, d, failing)
  <2>1. IsAnswer([type |-> "OPEN_FILE", result |-> "ERROR", body |-> Nothing], d.docs)
    BY OtherAnswer DEF Answerable
  <2>2. IsSession([s EXCEPT !.file = f], d.docs)
    BY DEF IsSession
  <2> DEFINE t == [s EXCEPT !.file = f]
  <2> HIDE DEF e, t
  <2>3. IsEffect(Said(t, "OPEN_FILE", "ERROR", Nothing, d), d, failing)
    BY <2>1, <2>2, SaidIsEffect DEF t
  <2> QED BY <1>2, <2>3 DEF t
<1>3. ASSUME NEW b \in {d, w}, e = InDocument(s, doc, b)
      PROVE  IsEffect(e, d, failing)
  <2>1. AreTables(b) /\ b.docs = d.docs /\ b.accounts = d.accounts
    BY <1>1
  <2>2. IsEffect(e, b, failing)
    BY <1>3, <2>1, InDocumentIsEffect
  <2> QED BY <2>1, <2>2 DEF IsEffect
<1>4. \/ \E f \in {doc, Nothing} :
           e = Said([s EXCEPT !.file = f], "OPEN_FILE", "ERROR", Nothing, d)
      \/ \E b \in {d, w} : e = InDocument(s, doc, b)
  BY ParticipateIs DEF w
<1> HIDE DEF e
<1>5. IsEffect(e, d, failing)
  BY <1>2, <1>3, <1>4
<1> QED BY <1>5 DEF e

\* connectToFile
LEMMA ConnectIs ==
  ASSUME NEW s, NEW r, NEW d, NEW failing
  PROVE  LET e   == Connect(s, r, d, failing)
             new == Doc(s.user, r.hash)
         IN  \/ r.hash \in d.docs /\ \E shared : e = Participate(s, r, r.hash, shared, d, failing)
             \/ e = Said(s, "OPEN_FILE", "BAD", Nothing, d)
             \/ r.hash \notin d.docs /\ e = Said([s EXCEPT !.file = Nothing], "OPEN_FILE", "ERROR", Nothing, d)
             \/ /\ r.hash \notin d.docs /\ NameFree(d, s.user, r.name)
                /\ e = Participate(s, r, new, FALSE, WithFile(d, s.user, r.name, new), failing)
BY DEF Connect

LEMMA OpenIsEffect ==
  ASSUME NEW d, AreTables(d), NEW s, IsSession(s, d.docs), NEW failing, NEW other,
         NEW r, r.hash \in d.docs \cup Names, r.name \in Names
  PROVE  IsEffect(HandleOpenFile(s, other, r, d, failing), d, failing)
<1>1. \A docs : \A result \in {"BAD", "ERROR"} :
        IsAnswer([type |-> "OPEN_FILE", result |-> result, body |-> Nothing], docs)
  BY OtherAnswer DEF Answerable
<1> DEFINE t == Left(s)
<1>2. IsSession(t, d.docs) /\ ~t.joined /\ IsSession([t EXCEPT !.file = Nothing], d.docs)
  <2>1. IsSession(t, d.docs) /\ ~t.joined
    BY DEF Left, IsSession
  <2> HIDE DEF t
  <2> QED BY <2>1 DEF IsSession
<1>3. t.user \in Users
  BY <1>2 DEF IsSession
<1> HIDE DEF t
<1>4. IsEffect(Connect(t, r, d, failing), d, failing)
  <2> DEFINE e == Connect(t, r, d, failing)
             new == Doc(t.user, r.hash)
             b == WithFile(d, t.user, r.name, new)
  <2>1. ASSUME r.hash \in d.docs, NEW shared, e = Participate(t, r, r.hash, shared, d, failing)
        PROVE  IsEffect(e, d, failing)
    BY <1>2, <2>1, ParticipateIsEffect
  <2>2. ASSUME e = Said(t, "OPEN_FILE", "BAD", Nothing, d) PROVE IsEffect(e, d, failing)
    BY <1>1, <1>2, <2>2, SaidIsEffect
  <2>3. ASSUME e = Said([t EXCEPT !.file = Nothing], "OPEN_FILE", "ERROR", Nothing, d)
        PROVE  IsEffect(e, d, failing)
    <3> DEFINE u == [t EXCEPT !.file = Nothing]
    <3>1. IsSession(u, d.docs)
      BY <1>2
    <3> HIDE DEF u, e
    <3>2. IsEffect(Said(u, "OPEN_FILE", "ERROR", Nothing, d), d, failing)
      BY <1>1, <3>1, SaidIsEffect
    <3> QED BY <2>3, <3>2 DEF u
  <2>4. ASSUME r.hash \notin d.docs, e = Participate(t, r, new, FALSE, b, failing)
        PROVE  IsEffect(e, d, failing)
    <3>1. new \in Docs
      BY <1>3, <2>4 DEF Docs, Doc
    <3> HIDE DEF new
    <3> HIDE DEF e
    <3>5. b = WithFile(d, t.user, r.name, new)
      OBVIOUS
    <3> HIDE DEF b
    <3>2. AreTables(b) /\ b.docs = d.docs \cup {new} /\ b.accounts = d.accounts
      BY <3>1, <3>5, WithFileIs
    <3>3. IsSession(t, b.docs) /\ new \in b.docs
      BY <1>2, <3>2, MoreDocs
    <3>4. IsEffect(e, b, failing)
      BY <1>2, <2>4, <3>2, <3>3, ParticipateIsEffect
    <3> QED BY <3>2, <3>4 DEF IsEffect
  <2>5. \/ r.hash \in d.docs /\ \E shared : e = Participate(t, r, r.hash, shared, d, failing)
        \/ e = Said(t, "OPEN_FILE", "BAD", Nothing, d)
        \/ e = Said([t EXCEPT !.file = Nothing], "OPEN_FILE", "ERROR", Nothing, d)
        \/ r.hash \notin d.docs /\ e = Participate(t, r, new, FALSE, b, failing)
    BY ConnectIs, Zenon
  <2> HIDE DEF e, b, new
  <2>6. IsEffect(e, d, failing)
    BY <2>1, <2>2, <2>3, <2>4, <2>5
  <2> QED BY <2>6 DEF e
<1>5. IsEffect(Said(s, "OPEN_FILE", "BAD", Nothing, d), d, failing)
  BY <1>1, SaidIsEffect
<1> QED BY <1>4, <1>5 DEF HandleOpenFile, t

LEMMA DeleteIsEffect ==
  ASSUME NEW d, AreTables(d), NEW s, IsSession(s, d.docs), NEW failing, NEW r
  PROVE  IsEffect(HandleDelete(s, r, d, failing), d, failing)
<1> DEFINE b == [d EXCEPT !.rows = @ \ {x \in RowsOf(d, s.user) : x.doc = r.hash}]
<1>1. \E result \in {"SUCCESS", "BAD", "ERROR"} : \E x \in {d, b} :
        HandleDelete(s, r, d, failing) = Said(s, "DELETE_FILE", result, Nothing, x)
  BY DEF HandleDelete
<1>2. AreTables(b) /\ b.docs = d.docs /\ b.accounts = d.accounts
  <2>1. /\ b.rows \subseteq d.rows /\ DOMAIN b = DOMAIN d /\ b.docs = d.docs
        /\ b.accounts = d.accounts
    BY DEF AreTables
  <2> HIDE DEF b
  <2>2. IsFiniteSet(b.rows)
    BY <2>1, FS_Subset DEF AreTables
  <2> QED BY <2>1, <2>2 DEF AreTables
<1> HIDE DEF b
<1>3. ASSUME NEW result \in {"SUCCESS", "BAD", "ERROR"}, NEW x \in {d, b}
      PROVE  IsEffect(Said(s, "DELETE_FILE", result, Nothing, x), d, failing)
  <2>1. IsAnswer([type |-> "DELETE_FILE", result |-> result, body |-> Nothing], x.docs)
    BY OtherAnswer DEF Answerable
  <2>2. AreTables(x) /\ IsSession(s, x.docs)
    BY <1>2
  <2>3. IsEffect(Said(s, "DELETE_FILE", result, Nothing, x), x, failing)
    BY <2>1, <2>2, SaidIsEffect
  <2> QED BY <1>2, <2>3 DEF IsEffect
<1> QED BY <1>1, <1>3

\* handleRequest.
LEMMA HandledIsEffect ==
  ASSUME NEW d, AreTables(d), NEW s, IsSession(s, d.docs), NEW failing, NEW other,
         NEW r, IsRequest(r, d.docs)
  PROVE  IsEffect(Handled(s, other, r, d, failing), d, failing)
<1>1. CASE r.type \in {"LOGIN", "SIGNUP", "UPDATE_USER"}
  BY <1>1, LoginIsEffect, SignupIsEffect, UpdateIsEffect DEF Handled, IsRequest
<1>2. CASE r.type \in {"OPEN_FILE", "DELETE_FILE"}
  BY <1>2, OpenIsEffect, DeleteIsEffect DEF Handled, IsRequest
<1>3. CASE r.type = "GET_FILES"
  <2>1. Handled(s, other, r, d, failing) =
          Said(s, "GET_FILES", "SUCCESS", FilesOf(d, s.user, failing), d)
    BY <1>3 DEF Handled, HandleGetFiles
  <2>2. IsList(FilesOf(d, s.user, failing), d.docs)
    BY FilesAreList
  <2>3. IsAnswer([type |-> "GET_FILES", result |-> "SUCCESS",
                  body |-> FilesOf(d, s.user, failing)], d.docs)
    BY <2>2 DEF IsAnswer, Answerable
  <2> QED BY <2>1, <2>3, SaidIsEffect
<1>4. CASE r.type \in {"LOGOUT", "QUIT_FILE"}
  <2>1. Handled(s, other, r, d, failing) = Said(Left(s), r.type, "SUCCESS", Nothing, d)
    BY <1>4 DEF Handled
  <2>2. IsAnswer([type |-> r.type, result |-> "SUCCESS", body |-> Nothing], d.docs)
    BY <1>4, OtherAnswer DEF Answerable
  <2> QED BY <1>4, <2>1, <2>2, LeftKeeps, SaidIsEffect
<1>5. CASE r.type = "LOAD_FILE"
  <2>1. Handled(s, other, r, d, failing) = Said(s, "LOAD_FILE", "SUCCESS", s.file, d)
    BY <1>5 DEF Handled
  <2>2. IsAnswer([type |-> "LOAD_FILE", result |-> "SUCCESS", body |-> s.file], d.docs)
    BY DEF IsAnswer, Answerable, IsSession
  <2> QED BY <2>1, <2>2, SaidIsEffect
<1>6. CASE r.type = "CHAT"
  <2>1. Handled(s, other, r, d, failing) \in
          {Said(s, "CHAT", "SUCCESS", s.file, d), Effect(s, <<>>, d)}
    BY <1>6 DEF Handled
  <2>2. IsAnswer([type |-> "CHAT", result |-> "SUCCESS", body |-> s.file], d.docs)
    BY OtherAnswer DEF Answerable
  <2> QED BY <2>1, <2>2, SaidIsEffect, SilentIsEffect
<1>7. CASE r.type \in {"CRDT", "SAVE_FILE"}
  BY <1>7, SilentIsEffect DEF Handled
<1> QED BY <1>1, <1>2, <1>3, <1>4, <1>5, <1>6, <1>7 DEF IsRequest, Answerable

-----------------------------------------------------------------------------
(* The specification.                                                      *)

Counters == crashed \in BOOLEAN /\ hasty \in BOOLEAN /\ left \in [Deeds -> Nat]
CInv ==
  /\ AreTables(db) /\ IsClient(client, db.docs) /\ client.sent = <<>>
  /\ IsSession(session, db.docs) /\ IsSession(ghost, db.docs) /\ AreAnswers(answers, db.docs)
  /\ told \subseteq db.accounts /\ Counters

\* What a step that keeps the tables has to show.
LEMMA SameTables ==
  ASSUME CInv, UNCHANGED <<db, told>>, IsClient(client', db.docs), client'.sent = <<>>,
         IsSession(session', db.docs), IsSession(ghost', db.docs), AreAnswers(answers', db.docs),
         Counters'
  PROVE  CInv'
BY DEF CInv

LEMMA SpendKeeps ==
  ASSUME CInv, NEW deed \in Deeds, Spend(deed)
  PROVE  left' \in [Deeds -> Nat]
BY DEF CInv, Counters, Spend

LEMMA NoSessionIsSession == IsSession(NoSession, db.docs) /\ IsSession(NewSession, db.docs)
<1>1. AreRequests(<<>>, db.docs)
  BY InOne DEF AreRequests
<1> QED BY <1>1 DEF IsSession, NoSession, NewSession, Users

LEMMA PrefixIsSession ==
  ASSUME NEW s, NEW docs, IsSession(s, docs), NEW k \in 0..Len(s.up)
  PROVE  IsSession([s EXCEPT !.up = SubSeq(@, 1, k)], docs)
<1>1. AreRequests(SubSeq(s.up, 1, k), docs)
  BY InPrefix DEF IsSession, AreRequests
<1> QED BY <1>1 DEF IsSession

\* Whatever handler a step of the client is, its requests go to its session
\* or its connection is given up.
LEMMA BecomeKeeps ==
  ASSUME CInv, NEW c, IsClient(c, db.docs), NEW rest, AreAnswers(rest, db.docs), Become(c, rest)
  PROVE  /\ IsClient(client', db.docs) /\ client'.sent = <<>>
         /\ IsSession(session', db.docs) /\ IsSession(ghost', db.docs)
         /\ AreAnswers(answers', db.docs)
<1>1. IsSession(session, db.docs) /\ IsSession(ghost, db.docs)
  BY DEF CInv
<1>2. IsClient(client', db.docs) /\ client'.sent = <<>>
  <2>1. client' = [c EXCEPT !.sent = <<>>]
    BY DEF Become
  <2>2. /\ Typed(client', db.docs) /\ client'.files = c.files /\ client'.choice = c.choice
        /\ client'.dialog = c.dialog /\ client'.sent = <<>>
    BY <2>1 DEF IsClient, Typed, ClientFields
  <2>3. AreRequests(<<>>, db.docs)
    BY InOne DEF AreRequests
  <2> QED BY <2>2, <2>3 DEF IsClient
<1>3. CASE Online(client) /\ ~Online(c)
  <2>1. GiveUp
    BY <1>3 DEF Become
  <2>2. IsSession(ghost', db.docs)
    BY <1>1, <2>1, PrefixIsSession DEF GiveUp
  <2>3. AreAnswers(<<>>, db.docs)
    BY InOne DEF AreAnswers
  <2> QED BY <1>2, <2>1, <2>2, <2>3, NoSessionIsSession DEF GiveUp
<1>4. CASE ~(Online(client) /\ ~Online(c))
  <2>1. /\ session' = [session EXCEPT !.up = IF c.socket = "open" THEN @ \o c.sent ELSE @]
        /\ answers' = rest /\ ghost' = ghost
    BY <1>4 DEF Become
  <2>2. AreRequests(session.up \o c.sent, db.docs)
    BY <1>1, InConcat DEF IsSession, AreRequests, IsClient
  <2>3. IsSession(session', db.docs)
    BY <1>1, <2>1, <2>2 DEF IsSession
  <2> QED BY <1>1, <1>2, <2>1, <2>3
<1> QED BY <1>3, <1>4

LEMMA ActKeeps ==
  ASSUME CInv, NEW c, IsClient(c, db.docs), Become(c, answers),
         UNCHANGED <<db, crashed, told>>, hasty' \in BOOLEAN, left' \in [Deeds -> Nat]
  PROVE  CInv'
<1>1. AreAnswers(answers, db.docs) /\ Counters'
  BY DEF CInv, Counters
<1> QED BY <1>1, BecomeKeeps, SameTables

\* The user does something, also with something unattended.
LEMMA UserKeeps ==
  ASSUME CInv, NEW c, IsClient(c, db.docs), User(c) \/ FillIn(c), left' \in [Deeds -> Nat]
  PROVE  CInv'
<1>1. client.modal \in BOOLEAN
  BY DEF CInv, IsClient, Typed
<1>2. Become(c, answers) /\ UNCHANGED <<db, crashed, told>> /\ hasty' \in BOOLEAN
  BY <1>1 DEF User, FillIn, Act, Rash
<1> QED BY <1>2, ActKeeps

LEMMA SilentKeeps ==
  ASSUME CInv, NEW c, IsClient(c, db.docs), Silent(c), left' \in [Deeds -> Nat]
  PROVE  CInv'
<1>1. Become(c, answers) /\ UNCHANGED <<db, crashed, told, hasty>>
  BY DEF Silent
<1>2. hasty' \in BOOLEAN
  BY <1>1 DEF CInv, Counters
<1> QED BY <1>1, <1>2, ActKeeps

LEMMA CInvInit == Init => CInv
<1> SUFFICES ASSUME Init PROVE CInv
  OBVIOUS
<1>1. AreTables(db)
  <2>1. \A r \in InitialDB.rows : r.name \in Names
    BY NamesAssumption DEF FirstNames
  <2>2. DOMAIN InitialDB = {"accounts", "rows", "docs", "alias"}
    BY InitialDBAssumption
  <2> QED BY <2>1, <2>2, InitialDBAssumption DEF Init, AreTables
<1>2. IsClient(client, db.docs) /\ client.sent = <<>>
  <2>1. Typed(NewClient, db.docs)
    BY DEF Typed, NewClient, ClientFields, States
  <2>2. IsList(<<>>, db.docs)
    BY FS_EmptySet DEF IsList
  <2>3. AreRequests(<<>>, db.docs)
    BY InOne DEF AreRequests
  <2>4. /\ NewClient.files = <<>> /\ NewClient.choice = NoChoice /\ NewClient.sent = <<>>
        /\ NewClient.dialog = FALSE
    BY DEF NewClient
  <2> QED BY <2>1, <2>2, <2>3, <2>4, FreshChoice DEF Init, IsClient
<1>3. AreAnswers(<<>>, db.docs)
  BY InOne DEF AreAnswers
<1>4. Counters
  BY PlansAssumption DEF Init, Counters
<1> QED BY <1>1, <1>2, <1>3, <1>4, NoSessionIsSession DEF Init, CInv

\* What the user does.
LEMMA DeedsAreSpent ==
  {"login", "signup", "pick", "open", "menu", "close", "edit", "illegal", "say", "profile",
   "delete", "leave", "peer", "fail", "refuse", "lose", "drop", "slow"} \subseteq Deeds
BY DEF Deeds

LEMMA AccessKeeps ==
  ASSUME CInv, Login \/ SwitchForm \/ Signup
  PROVE  CInv'
<1>1. IsClient(client, db.docs) /\ left \in [Deeds -> Nat]
  BY DEF CInv, Counters
<1>2. CASE Login
  <2>1. PICK l \in Logins : User(SendLogin(client, l.user, l.password))
    BY <1>2 DEF Login
  <2>2. l.user \in Users
    BY DEF Users
  <2>3. left' \in [Deeds -> Nat]
    BY <1>2, SpendKeeps, DeedsAreSpent DEF Login
  <2> QED BY <1>1, <2>1, <2>2, <2>3, LoginKeeps, UserKeeps
<1>3. CASE SwitchForm
  <2> DEFINE e == [client EXCEPT !.form = IF @ = "login" THEN "signup" ELSE "login"]
  <2>1. Typed(e, db.docs) /\ Beside(client, e)
    BY <1>1 DEF IsClient, Typed, Beside, ClientFields
  <2>2. FillIn(e) /\ left' \in [Deeds -> Nat]
    BY <1>1, <1>3 DEF SwitchForm
  <2> HIDE DEF e
  <2> QED BY <1>1, <2>1, <2>2, BesideKeeps, UserKeeps
<1>4. CASE Signup
  <2>1. PICK a \in Signups : User(SendSignup(client, a))
    BY <1>4 DEF Signup
  <2>2. left' \in [Deeds -> Nat]
    BY <1>4, SpendKeeps, DeedsAreSpent DEF Signup
  <2> QED BY <1>1, <2>1, <2>2, SignupKeeps, UserKeeps
<1> QED BY <1>2, <1>3, <1>4

LEMMA ChosenIsChoice ==
  ASSUME CInv, client.dialog, NEW c \in Chosen
  PROVE  IsChoice(client.files, c, TRUE, db.docs)
<1>1. IsChoice(client.files, client.choice, TRUE, db.docs) /\ db.docs \subseteq Docs
  BY DEF CInv, IsClient, Typed, AreTables
<1>2. Titles \subseteq Names \cup {Invalid}
  BY NamesAssumption DEF FirstNames
<1>3. CASE \E row \in DOMAIN client.files : c = RowClicked(client.files, client.choice, row)
  BY <1>1, <1>3, ClickedKeeps
<1>4. CASE \E t \in Titles : c = TextChanged(client.files, client.choice, t)
  BY <1>1, <1>2, <1>4, TextChangedKeeps
<1>5. CASE \E doc \in db.docs : c = LinkPasted(client.files, client.choice, doc)
  BY <1>1, <1>5, LinkPastedKeeps
<1> QED BY <1>3, <1>4, <1>5 DEF Chosen

LEMMA PickKeeps ==
  ASSUME CInv, Pick
  PROVE  CInv'
<1>1. PICK c \in Chosen : FillIn([client EXCEPT !.choice = c])
  BY DEF Pick
<1> DEFINE e == [client EXCEPT !.choice = c]
<1>2. IsChoice(client.files, c, TRUE, db.docs) /\ client.dialog
  BY ChosenIsChoice DEF Pick
<1>3. /\ Typed(e, db.docs) /\ e.files = client.files /\ e.choice = c
      /\ e.sent = client.sent /\ e.dialog = client.dialog
  BY DEF CInv, IsClient, Typed, ClientFields
<1>4. client.dialog = TRUE
  BY <1>2 DEF CInv, IsClient, Typed
<1> HIDE DEF e
<1>5. IsClient(e, db.docs)
  BY <1>2, <1>3, <1>4 DEF CInv, IsClient
<1>6. left' \in [Deeds -> Nat]
  BY SpendKeeps, DeedsAreSpent DEF Pick
<1> QED BY <1>1, <1>5, <1>6, UserKeeps DEF e

LEMMA OpenKeeps ==
  ASSUME CInv, Open
  PROVE  CInv'
<1> DEFINE t == Target(client.files, client.choice)
           link == SelectedLink(client.files, client.choice)
           e == [client EXCEPT !.choice.link = link]
           c == [client.choice EXCEPT !.link = link]
<1>1. IsChoice(client.files, client.choice, TRUE, db.docs) /\ db.docs \subseteq Docs
  BY DEF CInv, IsClient, Typed, AreTables, Open
<1>2. CanOpen(client.choice) /\ User(SendOpenFile(e, t))
  BY DEF Open
<1>3. /\ IsChoice(client.files, c, FALSE, db.docs)
      /\ t.hash \in db.docs \cup Names /\ t.name \in Names
  BY <1>1, <1>2, OpenedKeeps
<1> HIDE DEF t, link
<1>4. /\ Typed(e, db.docs) /\ e.files = client.files /\ e.choice = c /\ e.sent = client.sent
  BY DEF CInv, IsClient, Typed, ClientFields
<1> HIDE DEF e, c
<1>5. AreRequests(e.sent, db.docs)
  BY <1>4 DEF CInv, IsClient
<1>6. IsClient(SendOpenFile(e, t), db.docs)
  BY <1>3, <1>4, <1>5, OpenFileKeeps
<1>7. left' \in [Deeds -> Nat]
  BY SpendKeeps, DeedsAreSpent DEF Open
<1> QED BY <1>2, <1>6, <1>7, UserKeeps

LEMMA DialogKeeps ==
  ASSUME CInv, Delete \/ SaveProfile \/ Leave
  PROVE  CInv'
<1>1. IsClient(client, db.docs)
  BY DEF CInv
<1>2. CASE Delete
  <2>1. PICK row \in DOMAIN client.files :
          User(SendDelete([client EXCEPT !.choice = DeleteClicked(@, row)], client.files[row]))
    BY <1>2 DEF Delete
  <2> DEFINE c == DeleteClicked(client.choice, row)
             e == [client EXCEPT !.choice = c]
  <2>2. IsChoice(client.files, c, TRUE, db.docs) /\ client.dialog = TRUE
    BY <1>1, <1>2, ClickedKeeps DEF CInv, AreTables, IsClient, Typed, Delete
  <2> HIDE DEF c
  <2>3. /\ Typed(e, db.docs) /\ e.files = client.files /\ e.choice = c
        /\ e.sent = client.sent /\ e.dialog = client.dialog
    BY <1>1 DEF IsClient, Typed, ClientFields
  <2> HIDE DEF e
  <2>4. IsClient(e, db.docs)
    BY <1>1, <2>2, <2>3 DEF IsClient
  <2>5. User(SendDelete(e, client.files[row]))
    BY <2>1 DEF e, c
  <2>6. left' \in [Deeds -> Nat]
    BY <1>2, SpendKeeps, DeedsAreSpent DEF Delete
  <2> QED BY <2>4, <2>5, <2>6, DeleteKeeps, UserKeeps
<1>3. CASE SaveProfile
  <2>1. left' \in [Deeds -> Nat]
    BY <1>3, SpendKeeps, DeedsAreSpent DEF SaveProfile
  <2> QED BY <1>1, <1>3, <2>1, UpdateKeeps, UserKeeps DEF SaveProfile
<1>4. CASE Leave
  <2>1. left' \in [Deeds -> Nat]
    BY <1>4, SpendKeeps, DeedsAreSpent DEF Leave
  <2> QED BY <1>1, <1>4, <2>1, PlainSends, CloseDialogKeeps, UserKeeps DEF Leave
<1> QED BY <1>2, <1>3, <1>4

LEMMA EditorKeeps ==
  ASSUME CInv, Menu \/ Close \/ Edit \/ Save \/ EditIllegal \/ Say
  PROVE  CInv'
<1>1. IsClient(client, db.docs)
  BY DEF CInv
<1>2. left' \in [Deeds -> Nat]
  BY SpendKeeps, DeedsAreSpent DEF Menu, Close, Edit, Save, EditIllegal, Say
<1>3. CASE Menu \/ Close \/ Edit \/ Save \/ EditIllegal
  BY <1>1, <1>2, <1>3, PlainSends, CloseEditorKeeps, RefuseEditKeeps, UserKeeps
     DEF Menu, Close, Edit, Save, EditIllegal
<1>4. CASE Say
  <2>1. Become(SendMessage(client), answers) /\ UNCHANGED <<db, crashed, told>>
    BY <1>4, Zenon DEF Say, Act
  <2>2. hasty' \in BOOLEAN
    BY <1>1, <1>4 DEF Say, Act, Rash, IsClient, Typed
  <2> QED BY <1>1, <1>2, <2>1, <2>2, PlainSends, ActKeeps
<1> QED BY <1>3, <1>4

LEMMA DismissStep ==
  ASSUME CInv, Dismiss
  PROVE  CInv'
<1>1. IsClient(client, db.docs) /\ client.modal /\ left' \in [Deeds -> Nat]
  BY DEF CInv, Counters, Dismiss
<1> QED BY <1>1, DismissKeeps, SilentKeeps DEF Dismiss

\* What the server does.
LEMMA CrashKeeps ==
  ASSUME CInv, Crash
  PROVE  CInv'
<1> DEFINE s == IF Online(client) THEN "closed" ELSE client.socket
<1>1. client' = [client EXCEPT !.socket = s]
  BY DEF Crash
<1>2. IsClient(client', db.docs) /\ client'.sent = <<>>
  <2>1. s \in {"opening", "open", "lost", "closed"}
    BY DEF CInv, IsClient, Typed
  <2> HIDE DEF s
  <2>2. Typed(client', db.docs) /\ Beside(client, client') /\ client'.sent = client.sent
    BY <1>1, <2>1 DEF CInv, IsClient, Typed, Beside, ClientFields
  <2> QED BY <2>2, BesideKeeps DEF CInv
<1>3. AreAnswers(<<>>, db.docs)
  BY InOne DEF AreAnswers
<1>4. Counters' /\ UNCHANGED <<db, told>>
  BY DEF CInv, Counters, Crash
<1> QED BY <1>2, <1>3, <1>4, NoSessionIsSession, SameTables DEF Crash

\* A request is taken from the front and has its effect.
LEMMA TakenIsEffect ==
  ASSUME CInv, NEW s, IsSession(s, db.docs), s.up # <<>>, NEW other, NEW failing
  PROVE  IsEffect(Effects(s, other, failing), db, failing)
<1> DEFINE t == [s EXCEPT !.up = Tail(@)]
           r == Head(s.up)
<1>1. /\ r \in ToSet(s.up) /\ Tail(s.up) \in Seq(ToSet(Tail(s.up)))
      /\ ToSet(Tail(s.up)) \subseteq ToSet(s.up)
  BY InTail DEF IsSession, AreRequests
<1>2. AreRequests(Tail(s.up), db.docs) /\ IsRequest(r, db.docs)
  BY <1>1 DEF IsSession, AreRequests
<1>3. IsSession(t, db.docs)
  BY <1>2 DEF IsSession
<1>4. AreTables(db)
  BY DEF CInv
<1> HIDE DEF t, r
<1>5. IsEffect(Handled(t, other, r, db, failing), db, failing)
  BY <1>2, <1>3, <1>4, HandledIsEffect
<1> QED BY <1>5 DEF Effects, t, r

LEMMA ServeKeeps ==
  ASSUME CInv, Serve
  PROVE  CInv'
<1>1. IsSession(session, db.docs) /\ session.up # <<>>
  BY DEF CInv, Serve
<1>2. CASE Fatal(session)
  BY <1>2, CrashKeeps DEF Serve
<1>3. CASE ~Fatal(session)
  <2>1. PICK failing \in Failures(Head(session.up).type) :
          LET e == Effects(session, ghost, failing)
          IN  /\ Failing(Head(session.up).type, failing)
              /\ session' = e.session /\ db' = e.db
              /\ answers' = IF client.socket = "open" THEN answers \o e.answers ELSE answers
              /\ told' = told \cup {m.body : m \in {x \in ToSet(e.answers) :
                                      failing = {} /\ x.type = "SIGNUP" /\ x.result = "SUCCESS"}}
              /\ UNCHANGED <<client, ghost, crashed, hasty>>
    BY <1>3 DEF Serve
  <2> DEFINE e == Effects(session, ghost, failing)
  <2>2. IsEffect(e, db, failing)
    BY <1>1, TakenIsEffect
  <2> HIDE DEF e
  <2>3. /\ Failing(Head(session.up).type, failing)
        /\ session' = e.session /\ db' = e.db
        /\ answers' = (IF client.socket = "open" THEN answers \o e.answers ELSE answers)
        /\ UNCHANGED <<client, ghost, crashed, hasty>>
    BY <2>1 DEF e
  <2>4. told' = told \cup {m.body : m \in {x \in ToSet(e.answers) :
                               failing = {} /\ x.type = "SIGNUP" /\ x.result = "SUCCESS"}}
    BY <2>1 DEF e
  <2>5. /\ AreTables(db') /\ db.docs \subseteq db'.docs /\ db.accounts \subseteq db'.accounts
        /\ IsSession(session', db'.docs) /\ AreAnswers(e.answers, db'.docs)
    BY <2>2, <2>3 DEF IsEffect
  <2>6. /\ IsClient(client', db'.docs) /\ client'.sent = <<>> /\ IsSession(ghost', db'.docs)
        /\ AreAnswers(answers, db'.docs)
    BY <2>3, <2>5, MoreDocs DEF CInv
  <2>7. AreAnswers(answers', db'.docs)
    <3>1. AreAnswers(answers \o e.answers, db'.docs)
      BY <2>5, <2>6, InConcat DEF AreAnswers
    <3> QED BY <2>3, <2>6, <3>1
  <2>8. told' \subseteq db'.accounts
    <3>1. \A m \in ToSet(e.answers) :
            failing = {} /\ m.type = "SIGNUP" /\ m.result = "SUCCESS" => m.body \in db'.accounts
      BY <2>2, <2>3 DEF IsEffect, Reports
    <3>2. told \subseteq db'.accounts
      BY <2>5 DEF CInv
    <3> QED BY <2>4, <3>1, <3>2
  <2>9. Counters'
    <3>1. left' \in [Deeds -> Nat]
      BY <2>3, SpendKeeps, DeedsAreSpent DEF Failing, CInv, Counters
    <3> QED BY <2>3, <3>1 DEF CInv, Counters
  <2> QED BY <2>5, <2>6, <2>7, <2>8, <2>9 DEF CInv
<1> QED BY <1>2, <1>3

LEMMA GhostKeeps ==
  ASSUME CInv, ServeGhost \/ Disconnect
  PROVE  CInv'
<1>1. CASE ServeGhost /\ Fatal(ghost)
  BY <1>1, CrashKeeps DEF ServeGhost
<1>2. CASE ServeGhost /\ ~Fatal(ghost)
  <2> DEFINE e == Effects(ghost, session, {})
  <2>1. IsEffect(e, db, {})
    BY <1>2, TakenIsEffect DEF ServeGhost, CInv
  <2>2. /\ ghost' = e.session /\ db' = e.db
        /\ UNCHANGED <<client, session, answers, crashed, told, hasty, left>>
    BY <1>2 DEF ServeGhost
  <2> HIDE DEF e
  <2>3. /\ AreTables(db') /\ db.docs \subseteq db'.docs /\ db.accounts \subseteq db'.accounts
        /\ IsSession(ghost', db'.docs)
    BY <2>1, <2>2 DEF IsEffect
  <2>4. /\ IsClient(client', db'.docs) /\ client'.sent = <<>> /\ IsSession(session', db'.docs)
        /\ AreAnswers(answers', db'.docs)
    BY <2>2, <2>3, MoreDocs DEF CInv
  <2> QED BY <2>2, <2>3, <2>4 DEF CInv, Counters
<1>3. CASE Disconnect
  <2>1. /\ ghost' = NoSession
        /\ UNCHANGED <<client, session, answers, db, crashed, told, hasty, left>>
    BY <1>3 DEF Disconnect
  <2>2. Counters'
    BY <2>1 DEF CInv, Counters
  <2> QED BY <2>1, <2>2, NoSessionIsSession, SameTables DEF CInv
<1> QED BY <1>1, <1>2, <1>3

\* What arrives, and the connection.
LEMMA ReceiveKeeps ==
  ASSUME CInv, Receive
  PROVE  CInv'
<1>1. AreAnswers(answers, db.docs) /\ answers # <<>> /\ IsClient(client, db.docs)
  BY DEF CInv, Receive
<1>2. IsAnswer(Head(answers), db.docs) /\ AreAnswers(Tail(answers), db.docs)
  BY <1>1, InTail DEF AreAnswers
<1>3. Become(Response(client, Head(answers)), Tail(answers)) /\ UNCHANGED <<db, told>> /\ Counters'
  BY DEF Receive, CInv, Counters
<1> QED BY <1>1, <1>2, <1>3, ResponseKeeps, BecomeKeeps, SameTables

LEMMA PeerKeeps ==
  ASSUME CInv, Peer
  PROVE  CInv'
<1>1. PICK type \in {"CRDT", "CHAT"} : answers' = answers \o Answer(type, "SUCCESS", session.file)
  BY DEF Peer
<1> DEFINE m == [type |-> type, result |-> "SUCCESS", body |-> session.file]
<1>2. IsAnswer(m, db.docs)
  BY OtherAnswer DEF Answerable
<1>3. answers' = answers \o <<m>>
  BY <1>1 DEF Answer
<1> HIDE DEF m
<1>4. <<m>> \in Seq(ToSet(<<m>>)) /\ ToSet(<<m>>) = {m}
  BY InOne
<1>5. AreAnswers(answers', db.docs)
  BY <1>2, <1>3, <1>4, InConcat DEF CInv, AreAnswers
<1>6. left' \in [Deeds -> Nat]
  BY SpendKeeps, DeedsAreSpent DEF Peer
<1>7. Counters' /\ UNCHANGED <<client, session, ghost, db, told>>
  BY <1>6 DEF Peer, CInv, Counters
<1> QED BY <1>5, <1>7, SameTables DEF CInv

LEMMA AcceptKeeps ==
  ASSUME CInv, Accept
  PROVE  CInv'
<1>1. /\ client' = Opened(client) /\ session' = NewSession
      /\ UNCHANGED <<answers, ghost, db, crashed, told, hasty, left>>
  BY DEF Accept
<1>2. IsClient(client', db.docs)
  BY <1>1, ConnectionKeeps DEF CInv
<1>3. client'.sent = <<>>
  BY <1>1 DEF CInv, IsClient, Typed, ClientFields, Opened
<1>4. Counters'
  BY <1>1 DEF CInv, Counters
<1> QED BY <1>1, <1>2, <1>3, <1>4, NoSessionIsSession, SameTables DEF CInv

LEMMA TimeoutKeeps ==
  ASSUME CInv, Timeout
  PROVE  CInv'
<1>1. left' \in [Deeds -> Nat]
  BY SpendKeeps, DeedsAreSpent DEF Timeout, CInv, Counters
<1>2. Silent(TimedOut(client)) /\ IsClient(TimedOut(client), db.docs)
  BY ConnectionKeeps DEF Timeout, CInv
<1> QED BY <1>1, <1>2, SilentKeeps

LEMMA BreakKeeps ==
  ASSUME CInv, Lose \/ Drop
  PROVE  CInv'
<1>1. left' \in [Deeds -> Nat]
  BY SpendKeeps, DeedsAreSpent DEF Lose, Drop
<1>2. CASE Lose
  <2>1. /\ client' = [client EXCEPT !.socket = "lost"] /\ answers' = <<>>
        /\ UNCHANGED <<ghost, db, crashed, told, hasty>>
    BY <1>2 DEF Lose
  <2>2. IsClient(client', db.docs)
    BY <2>1, ConnectionKeeps DEF CInv
  <2>3. client'.sent = <<>>
    BY <2>1 DEF CInv, IsClient, Typed, ClientFields
  <2>4. IsSession(session', db.docs)
    BY <1>2, PrefixIsSession DEF Lose, CInv
  <2>5. AreAnswers(<<>>, db.docs)
    BY InOne DEF AreAnswers
  <2>6. Counters'
    BY <1>1, <2>1 DEF CInv, Counters
  <2> QED BY <2>1, <2>2, <2>3, <2>4, <2>5, <2>6, SameTables DEF CInv
<1>3. CASE Drop
  <2>1. Silent([client EXCEPT !.socket = "closed"])
    BY <1>3 DEF Drop
  <2>2. IsClient([client EXCEPT !.socket = "closed"], db.docs)
    BY ConnectionKeeps DEF CInv
  <2> QED BY <1>1, <2>1, <2>2, SilentKeeps
<1> QED BY <1>2, <1>3

LEMMA CInvStep ==
  ASSUME CInv, [Next]_vars
  PROVE  CInv'
<1>1. CASE UserActs
  BY <1>1, AccessKeeps, PickKeeps, OpenKeeps, DialogKeeps, EditorKeeps, DismissStep DEF UserActs
<1>2. CASE SystemActs
  BY <1>2, ServeKeeps, GhostKeeps, ReceiveKeeps, AcceptKeeps, TimeoutKeeps DEF SystemActs
<1>3. CASE Peer \/ Lose \/ Drop
  BY <1>3, PeerKeeps, BreakKeeps
<1>4. CASE UNCHANGED vars
  BY <1>4 DEF vars, CInv, Counters
<1> QED BY <1>1, <1>2, <1>3, <1>4 DEF Next

LEMMA CInvAlways == Spec => []CInv
BY CInvInit, CInvStep, PTL DEF Spec

\* Whatever the windows, dialogs, answers and connections go through, the
\* client has a state that its handlers know, a shown dialog has an action,
\* and the text in the editor and the document of a session that takes part
\* in one exist.  (KKClient's handlers, KKSession)
THEOREM ClientTypeCorrect == Spec => []TypeOK
<1>1. CInv => TypeOK
  <2> SUFFICES ASSUME CInv PROVE TypeOK
    OBVIOUS
  <2>1. \A b \in {"timer", "modal", "access", "loader", "dialog", "busy", "chat", "valid"} :
          client[b] \in BOOLEAN
    BY DEF CInv, IsClient, Typed
  <2>2. \A s \in {session, ghost} : s.joined => s.file \in db.docs
    BY DEF CInv, IsSession
  <2> QED BY <2>1, <2>2 DEF CInv, IsClient, Typed, TypeOK, States, Counters
<1> QED BY <1>1, CInvAlways, PTL

\* Who is told that an account was made, with no call to the database failing,
\* finds it in the table ever after.  (signupUser)
THEOREM ToldIsTrue == Spec => []ToldTruly
<1>1. CInv => ToldTruly
  BY DEF CInv, ToldTruly
<1> QED BY <1>1, CInvAlways, PTL

\* However typing, clicking, pasting, deleting and opening follow each other,
\* the open button asks for the document whose name the line shows.
\* (on_openFileButton_clicked)
THEOREM OpenedIsShown == Spec => []ShownIsOpened
<1>1. CInv => ShownIsOpened
  <2> SUFFICES ASSUME CInv, CanOpen(client.choice),
                      client.choice.name \in {Nothing, client.choice.text}
               PROVE  /\ Target(client.files, client.choice).name = client.choice.text
                      /\ client.choice.pastedLink = Nothing =>
                           Target(client.files, client.choice).hash =
                             IF client.choice.text \in DOMAIN client.files
                             THEN client.files[client.choice.text] ELSE client.choice.text
    BY DEF ShownIsOpened
  <2>1. IsChoice(client.files, client.choice, client.dialog, db.docs) /\ db.docs \subseteq Docs
    BY DEF CInv, IsClient, AreTables
  <2> QED BY <2>1, ChoiceIsShown
<1> QED BY <1>1, CInvAlways, PTL
=============================================================================
