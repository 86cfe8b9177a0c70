# Verification of klapklap

TLA+ models of klapklap, a collaborative text editor made of a server and of Qt
clients that edit the same documents over WebSockets, with the configurations
that TLC checks and the theorems that TLAPS proves. Paths below are relative to
`src/` of the repository.

## 1. Inventory of the system

| Component | State it keeps | Operations | Code |
|---|---|---|---|
| Document (`KKFile`) | participants, queue of messages, text (`KKCrdt`), chat history, list of users, a file; a consumer thread and a 10 s timer | join, leave, produce, consume, deliver, change text, flush, destroy | `server/src/classes/server/file` |
| Session (`KKSession`) | socket, user, pointer to the open document | one handler per request: LOGIN, LOGOUT, SIGNUP, UPDATE_USER, GET, OPEN, QUIT, DELETE, SAVE, LOAD, CRDT, CHAT; disconnection | `server/src/classes/server/session` |
| Server (`KKServer`) | sessions, the map of open documents, a pool of 50 threads | accept, end of a session | `server/src/classes/server` |
| Database (`KKDataBase`) | USERS, FILES (name, hash, user), FILES_OWNERS (user, hash, active) | one query per call; every call opens the connection | `server/src/classes/db`, `server/database` |
| File system (`KKFileSystem`) | one file per document | create (a new hash), open | `server/src/classes/server/filesys` |
| Text (`KKCrdt`, `KKChar`) | lines of characters with positions, one alignment per line | local and remote insertion, deletion, format, alignment; generation of positions | `libs/src/classes/crdt` |
| Client (`KKClient`) | connection state, `fileValid`, its text, the hash and name of the document, the user, a 10 s timer, which windows are shown | one request and one response handler per message, the actions of the message dialog, new connections | `client/src/classes/client` |
| Chat window (`KKChat`) | messages, participants and whether they are online | append, add, remove, set | `client/src/classes/chat` |
| Editor (`KKEditor`, `KKTextEdit`) | text shown, caret and selection before the last key, cursors and colours of the others, users whose text is highlighted | find out what the user changed, apply changes by others, move cursors, highlight | `client/src/classes/textedit` |
| Dialogs | list of documents, line of text, selected row, pasted link, forms | choose, create, share, delete, log in, sign up, message and its button | `client/src/classes/openfile`, `access`, `modal` |
| Accounts | rows of USERS | sign up, log in, change a profile | `server/src/classes/db`, `libs/src/classes/user` |
| Payload (`KKPayload`, `encodeCrdtChar`) | - | fields after their 3-digit lengths, in messages and in characters | `libs/src/classes/payload`, `crdt` |
| Tasks, crypt, logger, mail | - | `QRunnable`; hashes; log; SMTP | `libs/src/classes`, `server/src/classes/smtp` |

How they interact. A client applies an edit to its own text and sends it. The
session puts it in the document's queue with the name of its author. The
document's consumer thread takes it, sends it to every participant but the
author, and applies it to the server's text; the others apply what they receive.
Opening a document sends the chat history, the list of users and the text
(`LOAD_FILE`) and tells the others (`ADDED_PARTECIPANT`), past the queue.
The last one to leave closes the document: it goes from the map, `CLOSE_FILE`
ends its consumer, and its destructor writes it to disk.

What is hard. Everything on the server runs on the main thread except the
consumers, one per open document: the interleavings that matter are those of a
consumer with the handlers of the main thread (who holds which of
`participantsMutex`, `crdtMutex`, `messagesMutex`, and for how long), of a
document's destruction with its next opening, and of edits on the way with
joins, reloads and departures. Connections break between any two messages;
database calls fail one by one; the process may be interrupted while it writes.
The text has the hazards of its algorithms: random positions, bisection of
lines, deletions that cross. The client is one thread, but what it knows is old
when it is used: a refusal is explained by the client's state of now, a profile
is read back from a form, the open button combines three choices made at
different times, and the editor guesses what a key did from the caret and the
selection before it. `PROJECT.json` lists every hazard at its line.

What makes each part correct:

- document and session: no participant misses, invents or repeats an edit;
  edits are applied in causal order; chat and presence shown are right; no
  handler reaches a missing document; the consumer handles everything before it
  ends;
- text: copies stay sorted and well formed, a change does exactly what it says,
  copies converge, nothing is read that was not there when a change began;
- map, database, files: a session that was told it has a document open takes
  part in it, the map holds exactly the documents in use, a document one opens
  is in one's list, what was applied is kept;
- client: when nothing is under way, windows, session and tables agree; no edit
  reaches the copy of another document; errors are reported as what they are; a
  user always gets a usable window again;
- editor: what is shown is the text of the copy; the cursors of the others stay
  where they are in the text; only the text of clicked users is highlighted;
- payload: fields arrive as they were written.

## 2. Modules

| Module | What it models |
|---|---|
| `KKDocument` | what an open document promises, abstractly: one text that edits join once and in causal order, views that show edits of the text or their own |
| `KKRelay` | one open document in detail: `KKFile`, its consumer thread step by step, the session handlers that use it, both directions of every connection, and the clients' side of opening, editing, reloading, chatting and leaving |
| `MCRelay` | model values and bounds for it |
| `KKRelayProofs` | theorems about `KKRelay`: types, the session's pointer, the end of the queue |
| `KKRelayEdits`, `KKRelayViews` | its edits, on the server's side and on the clients'; the refinement of `KKDocument` |
| `KKRelayRoom` | its chat and presence |
| `KKPosition` | the order of characters (`KKChar::compareTo`) and the generator of positions, as sets of the positions it may return |
| `KKPositionProofs` | that this order is strict and total, and when the generator keeps it |
| `KKCrdt` | one copy of the text: `KKCrdt`'s insertions, deletions, alignments, searches and lines, as operators |
| `KKReplicas` | the copies of the server and of the clients exchanging changes through the order that the relay guarantees |
| `MCReplicas` | model values and bounds |
| `KKPayload` | how fields are written and read, in messages and characters |
| `KKStore` | all documents: map, objects, consumers, pool, database, disk, with failing calls and interruptions |
| `KKStoreProofs` | theorems about `KKStore` |
| `MCStore` | model values and bounds |
| `KKPicker` | the list of documents: line, row, pasted link, and what the open button asks for |
| `KKAccounts` | the table of users: signing up and logging in, with calls that fail |
| `KKWindows` | the client's handlers as functions of its state: requests, answers, dialogs, timer |
| `KKClient` | one client with `KKWindows`, its session and the session of a connection it has given up, with the tables |
| `KKClientProofs` | theorems about `KKClient` and `KKAccounts`: types, the choice in the list, accounts |
| `KKClientTalk` | its conversation with the session: the invariant of the exchanges and what follows from it |
| `MCClient` | model values, and the plans of what happens how often |
| `KKTextEdit` | the text shown, and how a change of it is found out |
| `KKEditor` | the editor between user, copy of the document and changes by others; composed of `KKTextEdit` and `KKPayload` |
| `MCEditor` | model values and plans |

Every module but `KKDocument`, the modules of proofs and the MC modules translates code;
`PROJECT.json` names the lines of each definition. Definitions described as a
"Variant" are what a plausible slip would make of the one beside them; the
properties are checked to fail with it.

### KKRelay

An edit is opaque; a text is the set of edits it holds (format changes and
alignments are edits too; an alignment is sent back to its author and applied
only then, so it is sent under the name `All`). Steps are the intervals between
points at which the other thread can be seen:

- the consumer: `Take` (up to the unlock of `messagesMutex`), `DeliverEdit` (the
  loop over the participants), `Apply` (`changeCrdtText`), `DeliverChat`.
  `participantsMutex` is held from `DeliverEdit` to `Apply` (`MutexFree` is the
  guard of the handlers that lock it);
- the main thread: `Join` (under the mutex: history, users, text) and then
  `AnnounceJoin`; `Leave` and then `AnnounceLeave`; `ReadText` and then
  `SendText`, for `LOAD_FILE` takes `crdtMutex` only; `HandleEdit`,
  `HandleChat`, `RejectOpen`, `LeaveNothing`; `Redirect` when the document has
  closed (the user gets another object, modelled in `KKStore`); `Destroy`, the
  deferred deletion, which does not wait for the consumer;
- the clients: user actions (`SendOpen`, `MakeEdit`, `Say`, `IllegalEdit`,
  `AskReload`, `SendQuit`) and `Receive`, one response at a time. Edits are
  dropped while `fileValid` is false, and a snapshot replaces the text, as in
  the code;
- `Break`: a connection breaks; the server still handles a part of what was
  sent, then the disconnection; the rest is `lost`.

`ctx`, `chatLog`, `missed`, `lost` and the like are history: no guard of the
program's steps reads them, except as bounds.

### KKPosition, KKCrdt, KKReplicas

Random choices are sets of outcomes. Lines are sequences; places are pairs
(line, characters before). The two searches are the bisection over the last
characters of the lines followed by the search in a line, with their early
returns. The code's own border cases are kept: `findIndexInLine` takes an
earlier character for found at 0, and `remoteDelete` on an empty text
adds an alignment. Two reads past the end of a vector are ordinary events of this
code: `localDelete` reads the lines at and after its start when a newline has
gone, though `deleteEmptyLines` may have removed them (delete the only newline of
a text: the vector is empty when `text[0]` is read), and `deleteEmptyLines` reads
the alignment one past the end. C++ leaves both undefined. The models take the
outcome of the program as built: a vector that shrinks keeps its memory, so that
the slot of a removed line holds the emptied list and that of a removed
alignment the last one. A build that checks indices would stop there. That
outcome exists only for slots that were there when the call began. A read of
anything else, like that of a character that never came, has no such outcome:
it sets `wild` (`LocalDeleteDefined`, `DeleteDefined`, `FindDefined`, `Lost`),
and that `NoWildRead` excludes. A font and a colour are one value. Opening a document again decodes
what the server encodes (`Decoded`). Left out: insertions of several characters
in one request (each is one change here), and the clearing of alignments when
they overflow a line list longer than the text.

A *plan* (here and in the client and the editor) says how often each thing
may happen in a behaviour; a run picks one of several at the start. That covers
combinations that one large bound would make too many of.

`placed` says that every new position lay between its neighbours, which the
generator does not ensure; `DeletedOnce` that no two sites deleted the same
character, `FormattedApart` that no site formatted a character that another
one formatted or deleted. The convergence that does hold is conditional on them. `twins` shows what
happens without `placed`, `idempotent` without `DeletedOnce`. The generator
places a character wrongly for two reasons: equal digits of two sites (below), and
a range exactly as wide as the boundary, in which it may draw the digit of the
character to the left again. `twins` leaves the second out (`TypedTogether`), so
that its counterexample is the one its finding tells.

### KKStore

A document has a hash, and a name for every user who shares it. `Open` is
`connectToFile` with its three ways (in the map, known to the database, new) and
its tail (`Participate`), every early return included. `down` is the set of
database calls of one request that fail: a query that fails answers neither
"found" nor "not found", which the code takes for "found". An INSERT that meets
a key is not noticed. `Destroy` is the deferred deletion of an object that nobody
points to, with its flush. `Start` gives a consumer a thread of the pool.
`Interrupt` ends the process, perhaps inside `flushCrdtText`, which has
emptied the file: the file is then `Torn`. Emails, images, dates and the
encryption of hashes are left out.

### KKPicker, KKAccounts, KKWindows, KKClient

A client is a record whose fields are `KKClient`'s members and which windows are
shown (`KKWindows` lists them). Every handler is a function from clients to
clients, so that a handler that calls others is their composition: opening a
document while one is open closes the editor, which sends `QUIT_FILE`, and its
answer asks for the list. `ModalButton` runs the dialog's action twice, since
both `buttonClicked` and `rejected` are connected to it.

`KKClient` adds the session with its requests (`up`), the answers on their way,
the tables, and `ghost`: a connection that the client gives up leaves its session
on the server, with what had arrived of its requests, until the server handles
the disconnection. Session handlers are functions too (`HandleLogin`,
`HandleOpenFile`, ...), applied by `Serve` with the set of database calls that
fail. Others are what reaches the client of them: edits, chat, a full document.
A document is identified by who created it and its first name. A name is a
sequence of words and perhaps a number at its end: `createInnerFilename` counts
the names that begin with the whole of the one typed, its number included, and
puts a number after that, as `InnerName` does word by word.

`Connect` and `Participate` are `connectToFile`. Each call of it may fail and has its own
answer: `existFileByUsername` for a new document (BAD), the creation and the first
`addFile` (ERROR), `addShareFile` or the `addFile` of a participant (ERROR, with
the session left at the document or at none), and an INSERT that is not noticed.
Left out here and modelled in `KKStore`: `getShareFileUsers` fails when a new
document is asked for, and one is opened whose hash is the name.

History variables: `hasty` (the user did something while an answer was due, past a
dialog, or in a chat window whose editor was closed; only a form may be filled in
while an answer is due), `spoilt` (`"exec"`: a call failed unnoticed, or a request
of a connection that was given up changed the alias late; `"names"`: a call failed,
names became free, or rows changed late), `astray`, `told`. They are read by
properties, and by the bound that a hasty user does no more than dismiss dialogs.

### KKTextEdit, KKEditor

The text is one sequence of characters, newlines among them; every character
typed has a value of its own, so that a character that lands in the wrong place
is seen. `KKTextEdit` has what Qt does with a text, its cursors and its undo
stack (modelled from how the code uses it), `Differences`, which is
`calculateDiffText` with all its branches, and `Notified`, the places between which
that asks for the alignments to be sent again. `NotifyAlignment` sends them, or
refuses places outside the text as it refuses a change; they come back with
`ReceiveOwn`. `KKEditor` has one action per thing
the user does (`Move`, `Type`, `Erase`, `Mouse`, `PasteText`, `CutText`, `UndoText`,
`RedoText`, `Style`, `Save`, `Click`) and per kind of change that arrives
(`Receive`, `ReceiveOwn`). Each is the whole handler, with the calls that go to the
copy of the document and back. The copy is here a sequence of characters with
their authors: where the CRDT puts a character is `KKReplicas`' matter, so a
remote change may be anywhere.

Undo has at most one entry, a deletion or a change of format, since
`updateColorText` clears the stack after every insertion. Nothing happens after the copy
refused a change (the document is opened again then) or after a change that was
looked for in a stale selection (`stale`); the actions that do this are
in the model, their consequences are not pursued.

### KKPayload

Text is a sequence of symbols, digits or `Letter`. `Written` and `Read` are the two
loops; `Encoded` adds the end of a message. The characters that the editor sends
are fields whose contents are fields again, as in `encodeCrdtChar`.

## 3. Runs

| Run | Question | Bounds |
|---|---|---|
| `relay_edits` | does every participant get every edit once, in causal order, and does the relay implement `KKDocument`? | 2 users, one opens twice; two text edits of two authors and one alignment |
| `relay_room` | chat history and presence | 3 users for 2 places, two chat messages, a history of 1, a broken connection; users and messages are interchangeable |
| `relay_live` | edits are applied and delivered, opens answered, under fairness, when connections break too | 2 users, one edit, one reload, a broken connection |
| `relay_rejoin` (violated) | README's requirement 3: a consistent representation in each client | 2 users, one edit |
| `relay_reload` (violated) | the dialog's "reloaded with the last version" | 2 users, one edit, one reload |
| `converge` | sorted, exact, well-formed, convergent texts, fonts included; reads of what is there | 2 sites, base 4, boundary 2; plans: 3 characters and a deletion; 2 characters and a deletion by each; 2 characters, a deletion of up to 2, an alignment and a reopening; 2 characters and a change of font by each |
| `twins` (violated) | README's requirement 3, of copies that miss nothing | 2 sites, base 32, boundary 10; 3 characters, the first of each site typed before it has read the other's |
| `idempotent` (violated) | README's idempotence | 2 sites, a crossing deletion |
| `store` | objects, map, tables and disk agree | user a with two sessions, user b with one; 1 name, 1 hash, 2 objects, 1 edit, 1 failed request or interruption, a pool of 1 |
| `client` | do windows, session and tables agree, do texts go where they belong, are errors reported right, is there always a window? | one client, two accounts, three documents; 11 plans: switching documents, editing with lost connections, a connection given up and made again, profiles, accounts, refusals, choosing, numbered names, logging out with something under way, clearing the profile's form, coming back after a broken connection |
| `editor` | is what is shown the text, do cursors and colours follow, do fields survive? | texts of up to 3 characters at first, two other users, one primary and one secondary colour, 2 characters in a change; 9 plans of two to four events |
| `store_crash` (violated) | README's "not to lose their content in case of accidental interruption" | 1 session, 1 document |

Why the bounds are enough for the cases in question. Rejoining needs a user
that opens twice and an edit that is still queued; overtaking and causality need
two edits of two authors and a third to tell alignment from text; a history of
one message makes every second chat message a trim. Base 4 and boundary 2 keep
both strategies, an even and an odd level and the fall to a deeper level that
32 and 10 have, with few random outcomes; one newline and two characters make
lines split, merge and vanish. Two sessions of one user and a second user make
every pair of openings that `KKStore` tells apart; two objects make one overlap
of destruction and opening. In `store` the two sessions of user a are
interchangeable, and in `relay_room` the users and the messages are, hence the
symmetry sets; no liveness is checked there. In `client` every pair of
requests that can cross is in some plan: two documents make stale answers
visible, two names with a common base make the numbering collide, one failure
hits every database call in turn. In `editor` three characters have an inner
one, two inserted in one change make runs and gaps, and two to four events make every
order of key, command, click and remote change; lengths of four binary digits
have fields that just fit and some that do not.
`CHECK_DEADLOCK FALSE` appears where users may stop editing for good.

Fairness. In `relay_live`: weak fairness of every client's `Receive` and of
every connection's `Handle`: both event loops serve every readable socket.
Weak fairness of `Continue`: the main thread goes on with the handler it is in.
Weak fairness of `Consume`: a runnable thread runs, as the pool's
threads do once started. In `client`: weak fairness of `Serve`, `ServeGhost`,
`Disconnect` and `Receive`, for the same reason, and of `Timeout`: a running `QTimer`
fires. Nothing obliges a user to act, nor a connection to be made. Mutexes are
held for one step only and never block for good, so weak fairness is enough.

`EditsApplied` exempts documents destroyed with a consumer still at work: the
code lets the destructor run then.

### Conditions, and what happens without them

Some properties hold under a condition that the code does not ensure. Each
condition is there because TLC finds a violation without it:

- `Patient` (client): the windows let a user act while answers are due. A second
  request then makes a refusal be explained wrongly (`kk_client.cpp:214`), a
  message or save after an opening that failed reaches a session without a
  document (`kk_session.cpp:258`), and windows and session disagree. Sending nothing is
  not enough: a key that the copy refuses while a LOGOUT is on its way shows a
  dialog whose button sends `LOAD_FILE` after it, to a session that has left; and
  closing the profile's form while an UPDATE is under way clears the field that the
  answer's handler reads the alias from. Both were found when the proof of the
  conversation failed, and are in plans of the run now.
- `spoilt` (`ProfileAgrees`, `Listed`): an UPDATE or INSERT that fails is not
  noticed; the session of a connection that was given up may carry out its UPDATE
  after the new one has logged in; `createInnerFilename` counts names that begin
  alike, so that after a deletion it may give a name that is taken
  (`openfiledialog.cpp:211`).
- `Unnumbered` (`Listed`): no title that is typed, or there at the start, carries a
  number. With "doc (2)" typed and in the list, the second document called "doc" is
  given the same name, and its row is not made.
- `Reached` excepts a timer stopped by a message that is no answer.
- A chat message still on its way does land in the chat window of the next
  document; no property excludes it.
- `stale` (`ShownIsText`): cut, paste, undo and redo look for their change in the
  selection of the last key (`kk_textedit.cpp:206`). When it was another, another
  range is sent: the copies of the others differ from what the user sees. Undo
  with nothing to undo, after a key or a remote change has left the flag set, sends a
  deletion of nothing that was deleted. Redo has no text to bring back, since
  `updateColorText` clears the stack.
- `blank` (`Highlighted`): a user clicked before having a colour is highlighted
  in none (`kk_editor.cpp:321`).
- `Whole` (`CursorsFollow`): `updateCursors` collapses a cursor that stands less
  than n characters after n inserted ones (`kk_editor.cpp:1049`); a replacement of
  several runs is out of its reach.
- Not about others' cursors but the user's own: `updateLocalCursor` moves a cursor
  that Qt has moved already, and a remote alignment of several lines leaves the
  caret at one of them. No property is stated: the code promises nothing.
- `Fits` (`FieldsSurvive`): a longer field does not arrive.
- `FormattedApart` (`FontsConverge`): crossing changes of font leave different
  fonts. A change of format of a character that is gone takes the first one of
  the text for it in the editor, and shows that one in the font.

### Findings

The violated runs state what the documentation or the program's own messages
say, and the code does otherwise: a user who rejoins before its own edit is
broadcast never sees it again (`kk_file.cpp:82`); a reload can miss the edit
being broadcast (`kk_session.cpp:266`); what is typed between
two characters that two users typed at once with equal digits stands elsewhere in
the author's copy than in the others (`kk_crdt.cpp:539`); a repeated deletion can take another character
(`kk_crdt.cpp:754`); an interrupted save loses the stored text
(`kk_file.cpp:207`).

## 4. Proofs

Every theorem holds for any values of the constants that satisfy the named
assumptions, so for any number of users, edits, documents and messages and for
any bounds. Each is proved from an inductive invariant: the property alone is
seldom kept by every step.

### The relay (`KKRelayProofs`, `KKRelayEdits`, `KKRelayViews`, `KKRelayRoom`)

| Theorem | Property | Invariant |
|---|---|---|
| `TypeCorrect` | `TypeOK` | itself |
| `SessionsHaveFile` | `SessionHasFile`: the handlers' unchecked pointer to the document is set | `IInv` |
| `CloseComesLast` | `CloseIsLast` | `IInv` |
| `NobodyMissesAnEdit` | `Agreement` | `EInv` |
| `NothingComesTwice` | `NoDuplicate` | `EInv` |
| `CausesComeFirst` | `Causal` | `EInv` |
| `RelayImplementsDocument` | `ImplementsDocument`: the refinement of `KKDocument` | `EInv` |
| `ChatHasNoGap` | `ChatContiguous` | `RInv` |
| `RoomIsShown` | `PresenceAgrees` | `RInv` |

Assumptions: `All` is no user's name; alignments are edits, and every edit has
an author; an edit is no chat message; the limits are positive, the bounds
numbers.

`IInv` adds to the types `Conversation`, which says for every phase of a client
which requests and responses can be on the way (an edit follows the response that
opened the document, and nothing follows a `QUIT` or a disconnection until it is
handled), and `Closing`, which says that an empty set of participants with the
main thread idle means a document that is closed or was never opened, and that
nobody is left to queue anything behind `CLOSE_FILE`.

`EInv` adds where edits are. On the server (`Pipeline`, `KKRelayEdits`) an edit is
in one place at a time, its author's connection, the queue, the consumer's hands
or the document, and each follows what its author had seen: this is what the queue's
order and the connections' have to preserve together, and a text read between
`Take` and `Apply` is a state that the document has been in (`Texts`). On a
client's side (`Client`, `KKRelayViews`) a text comes before any edit, and only
one if the client never reloads (`TextFirst`); what a channel brings is an edit of
the document that the replica has not, or a text (`Fresh`), in causal order;
and replica and channel together are the document with the client's own edits on
their way, but for the `missed` ones (`Agrees`). `Agreement` is not inductive
without the first two: an edit that overtook the text, or one that came twice, would
break it a step later. `missed` is no way out for the server: `Shows` bounds it by
the text edits of the client itself, that is those that rejoining loses (run
`relay_rejoin`).

The refinement goes by the steps: `SendOpen` and a received text are `Load`,
`MakeEdit` is `Write`, a received edit `See`, and `DeliverEdit`, where an edit
reaches the first participant, `Commit`; every other step, `Apply` too, leaves the
abstract document as it is. `EInv` supplies the guards of `KKDocument`: that the edit
is new, that its causes are there and that a text is a state of the document.

`RInv` says of the room that participants show, once they have read their channel,
the participants but for the one whose coming or going the main thread has not
announced yet (`Announced`); of the chat, that a chat window and the messages
on the way are, read in order, an end of the conversation and at least as long as
what the file keeps (`Heard`); and that the file keeps the end of the conversation
(`chatMessages = Trim(chatLog)`). Joining reads both lists under the mutex, so
the messages queued at that time come after it and nothing is shown twice.

### The server's documents (`KKStoreProofs`)

| Theorem | Property |
|---|---|
| `MemoryIsSafe` | `TypeOK` |
| `OpenedTakePart` | `InFile` |
| `MapHoldsTheUsed` | `OpenWhileUsed` |
| `EverybodyIsShown` | `ParticipantsShown` |
| `AppliedIsKept` | `NothingLost` |
| `OpenedIsListed` | `OpenLists`, an action property |

The invariant `SInv` has three parts, according to what may have failed. Always:
map and sessions point to live objects, the map to each under its own hash
(`Pointers`). While the database answers (`Used`): two sessions of one user never
share an object, since a participant is one entry by name and the first to leave would
take it from the other; the map has exactly the objects with participants; and
the list of an object has everybody in the table of owners. While no document was
opened during the destruction of its previous object: a document has one live
object (`OneAlive`), whose text, or the file if there is none, has every edit
applied (`Saved`). Assumptions: every session has a user, hashes are no names, the
closing entry of the queue is no edit, `Torn` is no text, the pool has a thread.

### The client and its session (`KKClientProofs`, `KKClientTalk`)

| Theorem | Property | Invariant |
|---|---|---|
| `ClientTypeCorrect` | `TypeOK` | `CInv` |
| `OpenedIsShown` | `ShownIsOpened` | `CInv` |
| `ToldIsTrue` | `ToldTruly` | `CInv` |
| `NoFileIsNull` | `NoNullFile` | `TalkInv` |
| `WindowsAgree` | `Agreement` | `TalkInv` |
| `ProfileIsSame` | `ProfileAgrees` | `TalkInv` |
| `TextIsRight` | `RightText` | `TalkInv`, and itself |
| `BlameIsCorrect` | `RightBlame`, an action property | `TalkInv` |
| `WorkIsListed` | `Listed` | `TalkInv`, `ListInv` |

Assumptions: the model values for nothing and for an invalid input are no names or
documents; a name is its base and its number; rows of the first tables are
finitely many, have a user, a name and a document, and the document exists; a plan
counts deeds.

`CInv` says what a client, a choice in the list, a request, an answer, a session and
the tables are. Since a handler is a function from clients to clients, there is one
lemma for each handler, that it keeps `IsClient`, and those of the steps compose
them. The part about the choice (`Pasted`, `Linked`) says that a
pasted name is the one in the line, and that otherwise the link that is kept is that
of the line's name; a click on an icon is the exception, and the dialog is hidden
then. `ToldTruly` needs that tables only grow, but for deleted rows of documents, and
what `SignupTellsTruly` says of `signupUser`. `TypeOK` and `ShownIsOpened` hold
of hasty users too.

`TalkInv` is about the two queues between a client and its session, the requests
`session.up` and the answers, and says of a user who is not hasty:

- `Exchange`: at most one exchange is under way, wherever its messages are: one
  request that has one answer; any number of LOAD_FILE, or of QUIT_FILE and
  GET_FILES, since a dialog runs its action twice; or the two answers to an opening,
  the document before its text. Edits and chat messages may be anywhere between.
- `Expected`: while an answer is due, the client is in the state by which its handlers
  will decide what the answer is about. `RightBlame` follows: `Results` says which
  requests can be refused or fail, and each has its own state.
- `Dialogs`: a message is shown only while nothing is due, so that what its button
  does is a new exchange; the exchange that it makes is lawful in each of the
  kinds that can be shown, CRDT_ILLEGAL only over the editor among them.
- `Windows`: the editor is shown if and only if the session takes part in a document,
  but while that is changing (`Moving`: LOGOUT, QUIT_FILE or OPEN_FILE is due, or
  the dialog shown says that it failed).
- `Texts`: the client's copy, the session's document, every text on its way and every
  edit that would be applied (`Right`: the file is valid, or a text comes before)
  are of the document the windows are of. An edit of the last document may be on the
  way only ahead of that, where `fileValid` drops it.
- `Profiles`: the alias of the client is the server's but while an UPDATE_USER is
  answered, and then the form still holds what was sent.
- `Conn`, with a connection or without: nothing that ends the session's part in its
  document is ahead of a request that uses it (`Safe`), also in the queue of a session that was given
  up; without a connection there are no answers, and while one is made no
  window but the access dialog.

None of these is inductive alone. `NoNullFile` needs `Windows` and `Exchange`, since
what is `Safe` to send depends on what is due; `Windows` needs `Expected`, since an
answer's handler decides by the state which windows it shows; `Expected` needs
`Dialogs`, since a button pressed changes the state. The proof follows a step in
three parts: what a user's deed sends, what a request handled makes of session
and tables, and what an answer makes of the windows, each stated on the values it
reads and changes (`But` names the fields that a handler may touch) and composed
for the actions afterwards.

`ListInv` adds, for a user who is not hasty, `Unnumbered` names and no list `spoilt`:

- `Numbered`: no number in a list is higher than the names that have its base, so that
  `createInnerFilename`, which gives the next one, gives a name that is free.
- `Orders`: an OPEN_FILE on its way asks for the document under the name it has in the
  list, or under a free one that keeps `Numbered`; it is the only request that
  is answered, so that no other changes the list before it.
- `Current`: the list in the dialog, and each list on its way, has the rows of the user;
  and what the line shows of it is what the open button will ask for (`Apt`).
- while the session takes part in the document of the windows (`Works`), that
  document is in the list under the name in the window.

The last needs all of the others, and `TalkInv`, which says what is due when the
session begins to take part in a document and when it leaves it. TLC checked `CInv`,
`TalkInv` and `ListInv` as invariants, with the values of `MCClient`, before they were
proved.

### Accounts and positions

`KKClientProofs` proves, of `signupUser` for every table, account and set of
failing calls: `SignupKeepsKeys`, that it removes no account and never makes two
with one username or address, and `SignupTellsTruly`, that a reported account
exists when no call failed. Both go by the cases of the two checks and of the
insertion, with the keys of the table as the only assumption.

`KKPositionProofs` is about characters of any sites and positions of any length:
`BeforeIsStrict` and `BeforeIsTotal`, that `compareTo` never leaves two ways to
sort distinct characters (the least digit in which two positions differ decides, and
exists since the numbers are well-founded); `DrawnInside` and `GeneratedBetween`,
that between two positions in order the generator finds some, whatever it draws,
and that each lies strictly between and is again a position of the same kind
(`WithinBase`: digits within the base of their level, no zero at the end), so that the
argument can be repeated for ever. Two hypotheses remain. The range from which the
digit is drawn is not exactly as wide as the boundary: there the draw may be one
too low or one too high, one of the two ways to lose `placed` in `converge`. And
the neighbours' positions differ: two sites may draw the same one, which is the
other way, and the finding of `twins`. The code excludes neither. `PowersOfTwo` states that
powers of two are positive numbers, which none of the provers knows.

### Only model-checked

- Liveness (`relay_live`, and of the client `Reached`): out of the prover's reach.
- `KKReplicas`, `KKEditor`, `KKPayload`: their texts are computed by recursion or
  folds over lines, runs and fields. What such a definition computes for
  every input needs induction over data.
- Every property of a violated run.

## 5. Not modelled, and why

Widgets, menus, printing, export, mail, log, TLS and encryption are I/O or library
code. The checks of what is typed into a form (`accessdialog.cpp`,
`openfiledialog.cpp`) decide only whether a request is made; the models take
any. Fonts and alignments are modelled in the copies and not as the editor shows
them: Qt's formats decide that. So `NotifyAlignment` has when alignments are sent and
when that is refused, not which ones `onNotifyAlignment` reads from the editor's
blocks; and since the copy is there one sequence of characters, it takes a place
within the text to be in a line. For an empty text `checkPosition` reads line 0
before it knows that there is one (`kk_crdt.cpp:346`): undefined as above. The constructors, setters and signal connections of
the windows are not mapped. `changeMultipleKKCharFormat`, `writeFile` and
`readFile` have no caller. The use of a
socket of the main thread from a consumer is undefined by Qt and taken as a
delivery. An object destroyed under its running consumer is undefined
behaviour: the consumer does nothing more in `KKRelay`, and only the text it had
already applied is written.

## 6. Plan

1. Done: the relay with the abstract document, the text with its fonts, the
   store, the client with its session, the editor, the wire format. Proved: the
   safety of the relay and its refinement of `KKDocument`, the safety of the
   store, types, choice and accounts of the client and its conversation with the
   session, the order of characters.
2. Proofs: type correctness of `KKEditor`, and of `KKReplicas` as far as it
   does not depend on what its searches compute.
3. Fonts and alignments as the editor shows them; the forms' checks.
