----------------------------- MODULE KKWindows ------------------------------
(***************************************************************************)
(* KKClient: the handlers of the client, each a function of the client's   *)
(* state, so that one that calls another is their composition: closing the *)
(* editor from sendOpenFileRequest sends QUIT, which may show a dialog.    *)
(*                                                                         *)
(* A client c has                                                          *)
(*   state, timer    KKClient::state, and whether the request timer runs   *)
(*   socket          "opening", "open", "lost" (nobody has noticed that    *)
(*                   nothing arrives any more) or "closed"                 *)
(*   sent            the requests that this handler has sent               *)
(*   modal, kind     the message dialog is shown, the type it was last set *)
(*                   to (it keeps it when it is hidden)                    *)
(*   access, loader, form    the access dialog is shown, its loader hides  *)
(*                   its form, the form is "login" or "signup"             *)
(*   dialog, files, choice, field    the dialog with the documents is      *)
(*                   shown, its list, what is chosen in it (KKPicker), and *)
(*                   the alias of its profile form                         *)
(*   editor, busy, chat      the editor is "none", "hidden" or "shown", is *)
(*                   loading, and the chat window is shown                 *)
(*   hash, name, valid, copy     what was asked for, fileValid, and the    *)
(*                   document whose text is in the editor                  *)
(*   user, alias     KKUser                                                *)
(***************************************************************************)
EXTENDS KKPicker, Sequences, SequencesExt

NewClient ==
  [state |-> "NOT_CONNECTED", timer |-> TRUE, socket |-> "opening", sent |-> <<>>,
   modal |-> FALSE, kind |-> Nothing, access |-> TRUE, loader |-> TRUE, form |-> "login",
   dialog |-> FALSE, files |-> <<>>, choice |-> NoChoice, field |-> Nothing,
   editor |-> "none", busy |-> FALSE, chat |-> FALSE,
   hash |-> Nothing, name |-> Nothing, valid |-> FALSE, copy |-> Nothing,
   user |-> Nothing, alias |-> Nothing]

Request(type) == [type |-> type]

-----------------------------------------------------------------------------
(* Sending.                                                                *)

\* sendTextMessage accepts a message: the socket believes it is connected.
Online(c) == c.socket \in {"open", "lost"}

Show(c, kind) == [c EXCEPT !.modal = TRUE, !.kind = kind]
Hide(c) == [c EXCEPT !.modal = FALSE]

\* A request with a timeout, and the state it takes the client to.
Ask(c, r, state) ==
  LET timed == [c EXCEPT !.timer = TRUE]
  IN  IF Online(c) THEN [timed EXCEPT !.sent = Append(@, r), !.state = state] ELSE timed

\* A request without one: that it cannot be sent is told at once.
Tell(c, r, kind) == IF Online(c) THEN [c EXCEPT !.sent = Append(@, r)] ELSE Show(c, kind)

SendLogin(c, user, password) ==
  Ask([c EXCEPT !.loader = TRUE],
      [type |-> "LOGIN", user |-> user, password |-> password], "CONNECTED_NOT_LOGGED")
SendSignup(c, account) ==
  Ask([c EXCEPT !.loader = TRUE], [type |-> "SIGNUP", account |-> account],
      "CONNECTED_NOT_SIGNED")
SendGetFiles(c) == Ask(c, Request("GET_FILES"), "CONNECTED_AND_LOGGED")
SendLogout(c) == Ask(c, Request("LOGOUT"), "CONNECTED_NOT_LOGGED")
SendDelete(c, hash) == Tell(c, [type |-> "DELETE_FILE", hash |-> hash], "FILE_ERROR")
SendLoad(c) == Tell(c, Request("LOAD_FILE"), "CRDT_ERROR")
SendMessage(c) == Tell(c, Request("CHAT"), "CHAT_ERROR")

\* on_saveChangesButton_clicked takes over what the form shows.  (Variant: it
\* does not.)
SendUpdateUserOld(c, alias) ==
  Tell(c, [type |-> "UPDATE_USER", alias |-> alias], "GENERIC_ERROR")
SendUpdateUser(c, alias) ==
  Tell([c EXCEPT !.field = alias], [type |-> "UPDATE_USER", alias |-> alias], "GENERIC_ERROR")
SendQuit(c) == Tell(c, Request("QUIT_FILE"), "GENERIC_ERROR")
SendCrdt(c) == Tell(c, Request("CRDT"), "CRDT_ERROR")

\* onSaveCrdtToFile: whether it is sent is not looked at.
SendSave(c) == IF Online(c) THEN [c EXCEPT !.sent = Append(@, Request("SAVE_FILE"))] ELSE c

\* closeEvent of the editor.
CloseEditor(c) == SendQuit([c EXCEPT !.editor = "hidden"])

\* initEditor: the CRDT, the chat and the editor are new.
InitEditor(c) == [c EXCEPT !.copy = Nothing, !.editor = "hidden", !.chat = FALSE]

\* sendOpenFileRequest.  (Variant: the file stays valid.)
OpenWindows(c, t) ==
  [InitEditor(c) EXCEPT !.hash = t.hash, !.name = t.name, !.valid = FALSE,
                        !.dialog = FALSE, !.busy = TRUE, !.editor = "shown", !.chat = TRUE]
AskFor(c, t) ==
  Ask(IF c.state = "CONNECTED_AND_OPENED" THEN CloseEditor([c EXCEPT !.chat = FALSE]) ELSE c,
      [type |-> "OPEN_FILE", hash |-> t.hash, name |-> t.name], "CONNECTED_NOT_OPENFILE")
SendOpenFileStillValid(c, t) == AskFor([OpenWindows(c, t) EXCEPT !.valid = c.valid], t)
SendOpenFile(c, t) == AskFor(OpenWindows(c, t), t)

\* An edit the CRDT refuses (on...ToCrdt).
RefuseEdit(c) == Show([c EXCEPT !.valid = FALSE], "CRDT_ILLEGAL")

\* initState: a new connection; the chat window stays as it is.
InitState(c) ==
  [c EXCEPT !.state = "NOT_CONNECTED", !.timer = TRUE, !.socket = "opening",
            !.dialog = FALSE, !.modal = FALSE,
            !.editor = IF @ = "none" THEN @ ELSE "hidden",
            !.access = TRUE, !.loader = TRUE]

\* onOpenFileDialogClosed, after closeEvent has cleared the dialog.
CloseDialog(c) ==
  LET closed == [c EXCEPT !.dialog = FALSE, !.choice = NoChoice, !.field = Nothing]
  IN  IF c.editor = "shown" THEN closed
      ELSE SendLogout([closed EXCEPT !.access = TRUE, !.loader = TRUE])

-----------------------------------------------------------------------------
(* The message dialog.                                                     *)

\* handleModalActions.
ModalAction(c) ==
  CASE c.kind \in {"CONNECTION_TIMEOUT", "GENERIC_ERROR", "SERVER_ERROR"} -> InitState(c)
    [] c.kind = "LOGIN_ERROR" -> [Hide(c) EXCEPT !.loader = FALSE]
    [] c.kind = "UPDATE_USER_ERROR" -> [c EXCEPT !.field = c.alias]
    [] c.kind \in {"CRDT_ERROR", "CHAT_ERROR", "INPUT_ERROR", "OPENFILE_ERROR"} ->
         SendQuit(Hide(c))
    [] c.kind = "CRDT_ILLEGAL" -> SendLoad(Hide(c))
    [] c.kind \in {"GENERIC_SUCCESS", "FILE_ERROR"} -> Hide(c)

\* Its button: QMessageBox says that it was clicked, hides, and says that it
\* was rejected, and both are connected to the action.
ModalButton(c) == ModalAction(Hide(ModalAction(c)))

\* Escape, or its close box: it is hidden and rejected.
ModalEscape(c) == ModalAction(Hide(c))

-----------------------------------------------------------------------------
(* The answers of the server: [type, result, body].                        *)

\* handleClientErrorResponse: what the client was doing decides, only then
\* what the error is about.  (Variant: a new account is forgotten.)
ClientErrorKindNoSignup(c, m) ==
  CASE c.state = "CONNECTED_NOT_LOGGED" -> "LOGIN_ERROR"
    [] c.state = "CONNECTED_NOT_OPENFILE" -> "OPENFILE_ERROR"
    [] c.state = "CONNECTED_AND_OPENED" -> "CRDT_ERROR"
    [] OTHER -> IF m.type = "DELETE_FILE" THEN "FILE_ERROR" ELSE "GENERIC_ERROR"
ClientErrorKind(c, m) ==
  CASE c.state \in {"CONNECTED_NOT_LOGGED", "CONNECTED_NOT_SIGNED"} -> "LOGIN_ERROR"
    [] c.state = "CONNECTED_NOT_OPENFILE" -> "OPENFILE_ERROR"
    [] c.state = "CONNECTED_AND_OPENED" -> "CRDT_ERROR"
    [] OTHER -> IF m.type = "DELETE_FILE" THEN "FILE_ERROR" ELSE "GENERIC_ERROR"

\* handleServerErrorResponse
ServerErrorKind(m) ==
  CASE m.type = "UPDATE_USER" -> "UPDATE_USER_ERROR"
    [] m.type = "QUIT_FILE"   -> "INPUT_ERROR"
    [] OTHER                  -> "SERVER_ERROR"

\* handleLoginResponse; setUser fills the profile form.
LoggedIn(c, body) ==
  [c EXCEPT !.state = "CONNECTED", !.user = body.user, !.alias = body.alias,
            !.files = body.files, !.choice = NoChoice, !.field = body.alias,
            !.access = FALSE, !.dialog = TRUE]

\* handleSignupResponse
SignedUp(c) == [c EXCEPT !.state = "CONNECTED", !.loader = FALSE, !.form = "login"]

\* handleUpdateUserResponse: the profile is what the form has now.
UserUpdated(c) == Show([c EXCEPT !.alias = c.field], "GENERIC_SUCCESS")

\* handleLogoutResponse.  (Variant: the editor stays.)
LoggedOutEditing(c) ==
  [c EXCEPT !.state = "CONNECTED_NOT_LOGGED", !.dialog = FALSE,
            !.loader = FALSE, !.form = "login", !.access = TRUE]
LoggedOut(c) ==
  [c EXCEPT !.state = "CONNECTED_NOT_LOGGED", !.valid = FALSE, !.dialog = FALSE,
            !.editor = IF @ = "none" THEN @ ELSE "hidden", !.chat = FALSE,
            !.loader = FALSE, !.form = "login", !.access = TRUE]

\* handleGetFilesResponse: clear() empties the profile form too.
FilesListed(c, files) ==
  [c EXCEPT !.files = files, !.choice = NoChoice, !.field = Nothing, !.dialog = TRUE]

FileQuit(c) ==
  SendGetFiles([c EXCEPT !.editor = IF @ = "none" THEN @ ELSE "hidden", !.chat = FALSE])

\* handleLoadFileResponse.  (Variant: the editor stays blocked.)
FileLoadedBusy(c, doc) == [c EXCEPT !.valid = TRUE, !.copy = doc]
FileLoaded(c, doc) == [c EXCEPT !.valid = TRUE, !.copy = doc, !.busy = FALSE]

\* handleSuccessResponse.  CRDT and CHAT change the windows' contents only.
Answered(c, m) ==
  CASE m.type = "LOGIN"       -> LoggedIn(c, m.body)
    [] m.type = "SIGNUP"      -> SignedUp(c)
    [] m.type = "LOGOUT"      -> LoggedOut(c)
    [] m.type = "UPDATE_USER" -> UserUpdated(c)
    [] m.type = "GET_FILES"   -> FilesListed(c, m.body)
    [] m.type = "OPEN_FILE"   -> [c EXCEPT !.state = "CONNECTED_AND_OPENED", !.valid = TRUE]
    [] m.type = "DELETE_FILE" -> SendGetFiles(c)
    [] m.type = "LOAD_FILE"   -> FileLoaded(c, m.body)
    [] m.type = "QUIT_FILE"   -> FileQuit(c)
    [] m.type \in {"CRDT", "CHAT"} -> c

\* handleResponse: any message stops the timer.
Response(c, m) ==
  LET stopped == [c EXCEPT !.timer = FALSE]
  IN  CASE m.result = "SUCCESS" -> Answered(stopped, m)
        [] m.result = "BAD"     -> Show(stopped, ClientErrorKind(c, m))
        [] m.result = "ERROR"   -> Show(stopped, ServerErrorKind(m))

\* handleOpenedConnection
Opened(c) == [c EXCEPT !.state = "CONNECTED", !.timer = FALSE, !.loader = FALSE,
                       !.socket = "open"]

\* handleTimeOutConnection
TimedOut(c) == [Show(c, "CONNECTION_TIMEOUT") EXCEPT !.timer = FALSE, !.socket = "closed"]
=============================================================================
