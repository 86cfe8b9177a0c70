------------------------------ MODULE KKRelay ------------------------------
(***************************************************************************)
(* One open document: the KKFile object, the consumer thread that drains   *)
(* its queue, the handlers of the server's main thread that use it (join,  *)
(* leave, edits, chat, reload) and the replicas of the clients.            *)
(*                                                                         *)
(* An edit is opaque here (an element of Edits) and a text is the set of   *)
(* edits it contains: what an edit does to the characters is the business  *)
(* of KKPosition and KKCrdt.  What matters here is who receives which edit,*)
(* in which order, and what a snapshot of the document contains.           *)
(*                                                                         *)
(* The server runs every socket handler on one thread; the consumer is the *)
(* only other thread.  An action is what one of them does between two      *)
(* points where the other can be seen: participantsMutex is held from      *)
(* Deliver to Apply, so no handler that needs it can run in between.       *)
(***************************************************************************)
EXTENDS Integers, Sequences, FiniteSets

CONSTANTS
  Users,            \* the users, one session each
  Edits,            \* CRDT requests (text, format and alignment changes)
  Alignments,       \* the edits that are alignment changes (CRDT_ALIGNM)
  Author,           \* the user that makes an edit
  Chats,            \* chat messages
  All,              \* the username "All" of a message that excludes nobody
  MaxParticipants,  \* active participants a file accepts (25 in the code)
  MaxRecent,        \* chat messages a file keeps (MaxRecentMessages, 100)
  MaxOpens,         \* bound: how often each user opens the document
  MaxReloads,       \* bound: how many illegal edits each user meets
  MaxCrashes        \* bound: how many connections break, in total

ASSUME UsersAssumption == All \notin Users
ASSUME ChatsAssumption == Chats \cap Edits = {}
ASSUME EditsAssumption == Alignments \subseteq Edits /\ Author \in [Edits -> Users]
ASSUME BoundsAssumption ==
  /\ MaxParticipants \in Nat \ {0}
  /\ MaxRecent \in Nat \ {0}
  /\ MaxOpens \in [Users -> Nat] /\ MaxReloads \in [Users -> Nat]
  /\ MaxCrashes \in Nat

VARIABLES
  \* the KKFile object
  participants,   \* users in the map of participants
  messages,       \* the queue between the main thread and the consumer
  crdt,           \* edits applied to the server's copy of the document
  chatMessages,   \* the last chat messages
  closed,         \* the file left the map of open files, CLOSE_FILE is queued
  \* the consumer thread
  consumer,       \* "wait", "deliver", "apply", "stopped" or "destroyed"
  item,           \* the queue entry it is working on
  \* the main thread
  main,           \* what it still has to do for the request in progress
  \* the two directions of every connection
  toServer, toClient,
  \* the clients
  phase,          \* where a client is with respect to the document
  fileValid,      \* KKClient::fileValid
  replica,        \* edits in the client's copy of the document
  chatView,       \* the chat window
  onlineView,     \* the users the chat window shows online
  \* history, read by properties and bounds only
  issued, said,   \* edits and chat messages sent so far
  ctx,            \* what the author of an edit had in its replica
  chatLog,        \* every chat message the consumer has handled, in order
  missed,         \* a user's own edits still queued when it (re)joined
  lost,           \* edits that a broken connection swallowed
  opens, reloads, crashes

fileVars    == <<participants, messages, crdt, chatMessages, closed>>
threadVars  == <<consumer, item, main>>
netVars     == <<toServer, toClient>>
clientVars  == <<phase, fileValid, replica, chatView, onlineView>>
historyVars == <<issued, said, ctx, chatLog, missed, lost, opens, reloads, crashes>>
vars == <<fileVars, threadVars, netVars, clientVars, historyVars>>

-----------------------------------------------------------------------------
(* Payloads: a request type and a body.                                    *)

Requests ==
  [type : {"OPEN", "QUIT", "LOAD", "DISCONNECT"}, body : {{}}]
    \cup [type : {"CRDT"}, body : SUBSET Edits]
    \cup [type : {"CHAT"}, body : SUBSET Chats]
Responses ==
  [type : {"OPEN", "REJECT", "QUIT"}, body : {{}}]
    \cup [type : {"CRDT", "LOAD"}, body : SUBSET Edits]
    \cup [type : {"CHAT"}, body : SUBSET Chats]
    \cup [type : {"SET", "ADDED", "REMOVED"}, body : SUBSET Users]
Items ==
  [type : {"CRDT"}, body : SUBSET Edits, username : Users \cup {All}]
    \cup [type : {"CHAT"}, body : SUBSET Chats, username : {All}]
    \cup [type : {"CLOSE"}, body : {{}}, username : {All}]

Payload(type, body) == [type |-> type, body |-> body]
Item(type, body, username) == [type |-> type, body |-> body, username |-> username]
NoItem == Item("CLOSE", {}, All)

Idle == [task |-> "idle", user |-> All, text |-> {}]
MainIdle == main.task = "idle"

\* participantsMutex is free: the consumer holds it from DeliverEdit to Apply.
\* (Variant: the handlers do not wait for the consumer.)
MutexIgnored == TRUE
MutexFree == consumer # "apply"

Connected(u) == phase[u] # "gone"

\* KKSession::deliver to one user; nobody reads a broken connection.
Deliver(channel, u, ms) == IF Connected(u) THEN channel \o ms ELSE channel

SendTo(u, ms) == toClient' = [toClient EXCEPT ![u] = Deliver(@, u, ms)]

\* The loop of KKFile::deliverMessages: every participant but username.
\* (Variant: the author is not left out.)
RelayToAll(m, username) ==
  toClient' = [u \in Users |->
    IF u \in participants THEN Deliver(toClient[u], u, <<m>>) ELSE toClient[u]]
Relay(m, username) ==
  toClient' = [u \in Users |->
    IF u \in participants /\ u # username THEN Deliver(toClient[u], u, <<m>>)
                                          ELSE toClient[u]]

Request(u, type) == MainIdle /\ toServer[u] # <<>> /\ Head(toServer[u]).type = type
Pop(u) == toServer' = [toServer EXCEPT ![u] = Tail(@)]

\* KKFile::produceMessages.  (Variant: the entry goes to the front.)
ProduceInFront(type, body, username) == messages' = <<Item(type, body, username)>> \o messages
Produce(type, body, username) == messages' = Append(messages, Item(type, body, username))

\* The last chat messages that a file keeps.  (Variant: the first ones.)
TrimNewest(s) == IF Len(s) > MaxRecent THEN SubSeq(s, 1, MaxRecent) ELSE s
Trim(s) == IF Len(s) > MaxRecent THEN SubSeq(s, Len(s) - MaxRecent + 1, Len(s)) ELSE s

\* The last participant has left.  (Variant: off by one.)
NobodyLeftOffByOne == Cardinality(participants) <= 1
NobodyLeft == participants = {}

\* The wait of consumeMessages is over.  (Variant: a lost wake-up.)
HasWorkMissed == Len(messages) > 1
HasWork == messages # <<>>

\* A user's own text edits that the consumer has not broadcast yet: it will
\* send them to everybody but their author.
OwnQueued(u) ==
  {e \in Edits \ Alignments : Author[e] = u /\
     (\/ \E i \in DOMAIN messages : e \in messages[i].body
      \/ consumer = "deliver" /\ e \in item.body)}

-----------------------------------------------------------------------------
Init ==
  /\ participants = {} /\ messages = <<>> /\ crdt = {} /\ chatMessages = <<>>
  /\ closed = FALSE
  /\ consumer = "wait" /\ item = NoItem /\ main = Idle
  /\ toServer = [u \in Users |-> <<>>] /\ toClient = [u \in Users |-> <<>>]
  /\ phase = [u \in Users |-> "out"]
  /\ fileValid = [u \in Users |-> FALSE]
  /\ replica = [u \in Users |-> {}]
  /\ chatView = [u \in Users |-> <<>>]
  /\ onlineView = [u \in Users |-> {}]
  /\ issued = {} /\ said = {} /\ ctx = [e \in Edits |-> {}] /\ chatLog = <<>>
  /\ missed = [u \in Users |-> {}] /\ lost = {}
  /\ opens = [u \in Users |-> 0] /\ reloads = [u \in Users |-> 0]
  /\ crashes = 0

-----------------------------------------------------------------------------
(* The clients: what a user does.                                          *)

Send(u, type, body) == toServer' = [toServer EXCEPT ![u] = Append(@, Payload(type, body))]

\* sendOpenFileRequest: a new CRDT and a new chat window, then the request.
SendOpen(u) ==
  /\ phase[u] = "out" /\ ~closed /\ opens[u] < MaxOpens[u]
  /\ phase' = [phase EXCEPT ![u] = "opening"]
  /\ fileValid' = [fileValid EXCEPT ![u] = FALSE]
  /\ replica' = [replica EXCEPT ![u] = {}]
  /\ chatView' = [chatView EXCEPT ![u] = <<>>]
  /\ onlineView' = [onlineView EXCEPT ![u] = {}]
  /\ opens' = [opens EXCEPT ![u] = @ + 1]
  /\ Send(u, "OPEN", {})
  /\ UNCHANGED <<fileVars, threadVars, toClient, issued, said, ctx, chatLog,
                 missed, lost, reloads, crashes>>

\* on...ToCrdt: a text edit is applied to the local CRDT and sent; an
\* alignment is only sent, and applied when it comes back.
MakeEdit(u, e) ==
  /\ phase[u] = "open" /\ e \notin issued /\ Author[e] = u
  /\ replica' = [replica EXCEPT ![u] = IF e \in Alignments THEN @ ELSE @ \cup {e}]
  /\ issued' = issued \cup {e}
  /\ ctx' = [ctx EXCEPT ![e] = replica[u]]
  /\ Send(u, "CRDT", {e})
  /\ UNCHANGED <<fileVars, threadVars, toClient, phase, fileValid, chatView,
                 onlineView, said, chatLog, missed, lost, opens, reloads, crashes>>

\* sendMessageRequest
Say(u, m) ==
  /\ phase[u] = "open" /\ m \notin said
  /\ said' = said \cup {m}
  /\ Send(u, "CHAT", {m})
  /\ UNCHANGED <<fileVars, threadVars, toClient, clientVars, issued, ctx,
                 chatLog, missed, lost, opens, reloads, crashes>>

\* An edit the local CRDT refuses: the file is marked invalid and a modal
\* dialog blocks the editor (CRDT_ILLEGAL).
IllegalEdit(u) ==
  /\ phase[u] = "open" /\ reloads[u] < MaxReloads[u]
  /\ phase' = [phase EXCEPT ![u] = "illegal"]
  /\ fileValid' = [fileValid EXCEPT ![u] = FALSE]
  /\ reloads' = [reloads EXCEPT ![u] = @ + 1]
  /\ UNCHANGED <<fileVars, threadVars, netVars, replica, chatView, onlineView,
                 issued, said, ctx, chatLog, missed, lost, opens, crashes>>

\* The dialog is closed: the document is asked for again.
AskReload(u) ==
  /\ phase[u] = "illegal"
  /\ phase' = [phase EXCEPT ![u] = "open"]
  /\ Send(u, "LOAD", {})
  /\ UNCHANGED <<fileVars, threadVars, toClient, fileValid, replica, chatView,
                 onlineView, historyVars>>

\* sendQuitFileRequest.  (Variant: the editor stays usable.)
SendQuitKeepEditing(u) ==
  /\ phase[u] = "open"
  /\ Send(u, "QUIT", {})
  /\ UNCHANGED <<fileVars, threadVars, toClient, clientVars, historyVars>>
SendQuit(u) ==
  /\ phase[u] = "open"
  /\ phase' = [phase EXCEPT ![u] = "quitting"]
  /\ Send(u, "QUIT", {})
  /\ UNCHANGED <<fileVars, threadVars, toClient, fileValid, replica, chatView,
                 onlineView, historyVars>>

\* The connection breaks.  The server still handles what had reached it,
\* then sees the disconnection; the rest of the requests is lost.
Break(u) ==
  /\ phase[u] \in {"opening", "open", "illegal", "quitting"} /\ crashes < MaxCrashes
  /\ \E k \in 0..Len(toServer[u]) :
       /\ toServer' = [toServer EXCEPT ![u] =
                         Append(SubSeq(@, 1, k), Payload("DISCONNECT", {}))]
       /\ lost' = lost \cup {e \in Edits : \E i \in (k+1)..Len(toServer[u]) :
                                              e \in toServer[u][i].body}
  /\ toClient' = [toClient EXCEPT ![u] = <<>>]
  /\ phase' = [phase EXCEPT ![u] = "gone"]
  /\ crashes' = crashes + 1
  /\ UNCHANGED <<fileVars, threadVars, fileValid, replica, chatView, onlineView,
                 issued, said, ctx, chatLog, missed, opens, reloads>>

-----------------------------------------------------------------------------
(* The clients: handleResponse.                                            *)

Response(u, type) == toClient[u] # <<>> /\ Head(toClient[u]).type = type
Took(u) == toClient' = [toClient EXCEPT ![u] = Tail(@)]

ReceiveOpen(u) ==
  /\ Response(u, "OPEN") /\ Took(u)
  /\ fileValid' = [fileValid EXCEPT ![u] = TRUE]
  /\ UNCHANGED <<fileVars, threadVars, toServer, phase, replica, chatView,
                 onlineView, historyVars>>

\* BAD_REQUEST while opening: the modal's action quits the file.
ReceiveReject(u) ==
  /\ Response(u, "REJECT") /\ Took(u)
  /\ phase' = [phase EXCEPT ![u] = "quitting"]
  /\ Send(u, "QUIT", {})
  /\ UNCHANGED <<fileVars, threadVars, fileValid, replica, chatView, onlineView,
                 historyVars>>

\* handleLoadFileResponse: the snapshot replaces the local CRDT.  (Variant:
\* the snapshot of an empty document is ignored.)
ReceiveLoadNonEmpty(u) ==
  /\ Response(u, "LOAD") /\ Took(u)
  /\ IF Head(toClient[u]).body = {}
     THEN UNCHANGED clientVars
     ELSE /\ fileValid' = [fileValid EXCEPT ![u] = TRUE]
          /\ replica' = [replica EXCEPT ![u] = Head(toClient[u]).body]
          /\ phase' = [phase EXCEPT ![u] = IF @ = "opening" THEN "open" ELSE @]
          /\ UNCHANGED <<chatView, onlineView>>
  /\ UNCHANGED <<fileVars, threadVars, toServer, historyVars>>
ReceiveLoad(u) ==
  /\ Response(u, "LOAD") /\ Took(u)
  /\ fileValid' = [fileValid EXCEPT ![u] = TRUE]
  /\ replica' = [replica EXCEPT ![u] = Head(toClient[u]).body]
  /\ phase' = [phase EXCEPT ![u] = IF @ = "opening" THEN "open" ELSE @]
  /\ UNCHANGED <<fileVars, threadVars, toServer, chatView, onlineView, historyVars>>

\* handleCrdtResponse: dropped while the file is not valid.
ReceiveEdit(u) ==
  /\ Response(u, "CRDT") /\ Took(u)
  /\ replica' = [replica EXCEPT ![u] = IF fileValid[u] THEN @ \cup Head(toClient[u]).body
                                                       ELSE @]
  /\ UNCHANGED <<fileVars, threadVars, toServer, phase, fileValid, chatView,
                 onlineView, historyVars>>

ReceiveChat(u) ==
  /\ Response(u, "CHAT") /\ Took(u)
  /\ \E m \in Head(toClient[u]).body :
       chatView' = [chatView EXCEPT ![u] = Append(@, m)]
  /\ UNCHANGED <<fileVars, threadVars, toServer, phase, fileValid, replica,
                 onlineView, historyVars>>

\* What a presence message does to the participants list of a client.
\* (Variant: a participant that leaves is still shown.)
PresenceKept(online, m) ==
  CASE m.type = "SET"   -> m.body
    [] m.type = "ADDED" -> online \cup m.body
    [] OTHER            -> online
Presence(online, m) ==
  CASE m.type = "SET"     -> m.body
    [] m.type = "ADDED"   -> online \cup m.body
    [] m.type = "REMOVED" -> online \ m.body
    [] OTHER              -> online

ReceivePresence(u) ==
  /\ \E type \in {"SET", "ADDED", "REMOVED"} : Response(u, type)
  /\ Took(u)
  /\ onlineView' = [onlineView EXCEPT ![u] = Presence(@, Head(toClient[u]))]
  /\ UNCHANGED <<fileVars, threadVars, toServer, phase, fileValid, replica,
                 chatView, historyVars>>

ReceiveQuit(u) ==
  /\ Response(u, "QUIT") /\ Took(u)
  /\ phase' = [phase EXCEPT ![u] = "out"]
  /\ UNCHANGED <<fileVars, threadVars, toServer, fileValid, replica, chatView,
                 onlineView, historyVars>>

Receive(u) ==
  \/ ReceiveOpen(u) \/ ReceiveReject(u) \/ ReceiveLoad(u) \/ ReceiveEdit(u)
  \/ ReceiveChat(u) \/ ReceivePresence(u) \/ ReceiveQuit(u)

-----------------------------------------------------------------------------
(* The main thread of the server: KKSession's handlers.                    *)

\* handleOpenFileRequest refuses a user that is in, or one too many.
RejectOpen(u) ==
  /\ Request(u, "OPEN") /\ MutexFree /\ ~closed
  /\ u \in participants \/ Cardinality(participants) >= MaxParticipants
  /\ Pop(u)
  /\ SendTo(u, <<Payload("REJECT", {})>>)
  /\ UNCHANGED <<fileVars, threadVars, clientVars, historyVars>>

\* connectToFile and KKFile::join, under participantsMutex; what is left is
\* to tell the others.
Join(u) ==
  /\ Request(u, "OPEN") /\ MutexFree /\ ~closed
  /\ u \notin participants /\ Cardinality(participants) < MaxParticipants
  /\ Pop(u)
  /\ participants' = participants \cup {u}
  /\ SendTo(u, <<Payload("OPEN", {})>>
               \o [i \in 1..Len(chatMessages) |-> Payload("CHAT", {chatMessages[i]})]
               \o <<Payload("SET", participants \cup {u}), Payload("LOAD", crdt)>>)
  /\ main' = [task |-> "joined", user |-> u, text |-> {}]
  /\ missed' = [missed EXCEPT ![u] = OwnQueued(u)]
  /\ UNCHANGED <<messages, crdt, chatMessages, closed, consumer, item, clientVars,
                 issued, said, ctx, chatLog, lost, opens, reloads, crashes>>

AnnounceJoin ==
  /\ main.task = "joined" /\ MutexFree
  /\ Relay(Payload("ADDED", {main.user}), main.user)
  /\ main' = Idle
  /\ UNCHANGED <<fileVars, consumer, item, toServer, clientVars, historyVars>>

\* The file is not open any more: connectToFile makes another KKFile, and
\* what the user does there is not this document object's business.
Redirect(u) ==
  /\ Request(u, "OPEN") /\ closed
  /\ Pop(u)
  /\ phase' = [phase EXCEPT ![u] = IF @ = "gone" THEN @ ELSE "away"]
  /\ UNCHANGED <<fileVars, threadVars, toClient, fileValid, replica, chatView,
                 onlineView, historyVars>>

\* handleCrdtRequest
HandleEdit(u) ==
  /\ Request(u, "CRDT")
  /\ Pop(u)
  /\ LET body == Head(toServer[u]).body
     IN  Produce("CRDT", body, IF body \subseteq Alignments THEN All ELSE u)
  /\ UNCHANGED <<participants, crdt, chatMessages, closed, threadVars, toClient,
                 clientVars, historyVars>>

\* handleChatRequest: the author gets its message back.  (Variant: it does
\* not, like the author of a text edit.)
HandleChatToOthers(u) ==
  /\ Request(u, "CHAT")
  /\ Pop(u)
  /\ Produce("CHAT", Head(toServer[u]).body, u)
  /\ UNCHANGED <<participants, crdt, chatMessages, closed, threadVars, toClient,
                 clientVars, historyVars>>
HandleChat(u) ==
  /\ Request(u, "CHAT")
  /\ Pop(u)
  /\ Produce("CHAT", Head(toServer[u]).body, All)
  /\ UNCHANGED <<participants, crdt, chatMessages, closed, threadVars, toClient,
                 clientVars, historyVars>>

\* handleLoadFileRequest: getCrdtText takes crdtMutex, not participantsMutex;
\* the answer is sent later, and the consumer may run in between.
ReadText(u) ==
  /\ Request(u, "LOAD")
  /\ Pop(u)
  /\ main' = [task |-> "reload", user |-> u, text |-> crdt]
  /\ UNCHANGED <<fileVars, consumer, item, toClient, clientVars, historyVars>>

SendText ==
  /\ main.task = "reload"
  /\ SendTo(main.user, <<Payload("LOAD", main.text)>>)
  /\ main' = Idle
  /\ UNCHANGED <<fileVars, consumer, item, toServer, clientVars, historyVars>>

\* What ends a QUIT request or a disconnection: the answer, or the end of
\* the session (after which the user may connect again).
Finish(u, type) ==
  phase' = [phase EXCEPT ![u] = IF type = "DISCONNECT" THEN "out" ELSE @]

\* disconnectFromFile, first half: contains and leave.
Leave(u, type) ==
  /\ Request(u, type) /\ type \in {"QUIT", "DISCONNECT"} /\ MutexFree
  /\ u \in participants
  /\ participants' = participants \ {u}
  /\ main' = [task |-> type, user |-> u, text |-> {}]
  /\ Pop(u)
  /\ UNCHANGED <<messages, crdt, chatMessages, closed, consumer, item, toClient,
                 clientVars, historyVars>>

\* disconnectFromFile, second half: tell the others, and close the file if
\* nobody is left.
AnnounceLeave ==
  /\ main.task \in {"QUIT", "DISCONNECT"} /\ MutexFree
  /\ LET u == main.user
         told == [v \in Users |->
                    IF v \in participants
                    THEN Deliver(toClient[v], v, <<Payload("REMOVED", {u})>>)
                    ELSE toClient[v]]
     IN  /\ toClient' = IF main.task = "QUIT"
                        THEN [told EXCEPT ![u] = Deliver(@, u, <<Payload("QUIT", {})>>)]
                        ELSE told
         /\ Finish(u, main.task)
  /\ IF NobodyLeft
     THEN closed' = TRUE /\ Produce("CLOSE", {}, All)
     ELSE UNCHANGED <<closed, messages>>
  /\ main' = Idle
  /\ UNCHANGED <<participants, crdt, chatMessages, consumer, item, toServer,
                 fileValid, replica, chatView, onlineView, historyVars>>

\* The session has no file: disconnectFromFile does nothing.
LeaveNothing(u, type) ==
  /\ Request(u, type) /\ type \in {"QUIT", "DISCONNECT"} /\ MutexFree
  /\ u \notin participants
  /\ Pop(u)
  /\ IF type = "QUIT" THEN SendTo(u, <<Payload("QUIT", {})>>) ELSE UNCHANGED toClient
  /\ Finish(u, type)
  /\ UNCHANGED <<fileVars, threadVars, fileValid, replica, chatView, onlineView,
                 historyVars>>

\* The last pointer to a file that nobody has open is gone: the event loop
\* deletes it, whatever its consumer is doing.  What the consumer does from
\* then on is undefined; here it does nothing any more.
Destroy ==
  /\ closed /\ MainIdle /\ consumer \notin {"stopped", "destroyed"}
  /\ consumer' = "destroyed"
  /\ item' = IF consumer = "apply" THEN item ELSE NoItem
  /\ UNCHANGED <<fileVars, main, netVars, clientVars, historyVars>>

Handle(u) ==
  \/ RejectOpen(u) \/ Join(u) \/ Redirect(u) \/ HandleEdit(u) \/ HandleChat(u)
  \/ ReadText(u)
  \/ \E type \in {"QUIT", "DISCONNECT"} : Leave(u, type) \/ LeaveNothing(u, type)

Continue == AnnounceJoin \/ AnnounceLeave \/ SendText \/ Destroy

-----------------------------------------------------------------------------
(* The consumer thread: KKFile::consumeMessages.                           *)

Take ==
  /\ consumer = "wait" /\ HasWork
  /\ messages' = Tail(messages)
  /\ IF Head(messages).type = "CLOSE"
     THEN consumer' = "stopped" /\ item' = NoItem
     ELSE consumer' = "deliver" /\ item' = Head(messages)
  /\ UNCHANGED <<participants, crdt, chatMessages, closed, main, netVars,
                 clientVars, historyVars>>

\* deliverMessages of a CRDT message, up to changeCrdtText.
DeliverEdit ==
  /\ consumer = "deliver" /\ item.type = "CRDT"
  /\ Relay(Payload("CRDT", item.body), item.username)
  /\ consumer' = "apply"
  /\ UNCHANGED <<fileVars, item, main, toServer, clientVars, historyVars>>

\* changeCrdtText, and the end of deliverMessages.
Apply ==
  /\ consumer = "apply"
  /\ crdt' = crdt \cup item.body
  /\ consumer' = "wait" /\ item' = NoItem
  /\ UNCHANGED <<participants, messages, chatMessages, closed, main, netVars,
                 clientVars, historyVars>>

\* deliverMessages of a CHAT message.
DeliverChat ==
  /\ consumer = "deliver" /\ item.type = "CHAT"
  /\ Relay(Payload("CHAT", item.body), item.username)
  /\ \E m \in item.body :
       /\ chatMessages' = Trim(Append(chatMessages, m))
       /\ chatLog' = Append(chatLog, m)
  /\ consumer' = "wait" /\ item' = NoItem
  /\ UNCHANGED <<participants, messages, crdt, closed, main, toServer, clientVars,
                 issued, said, ctx, missed, lost, opens, reloads, crashes>>

Consume == Take \/ DeliverEdit \/ Apply \/ DeliverChat

-----------------------------------------------------------------------------
UserAction(u) ==
  \/ SendOpen(u) \/ IllegalEdit(u) \/ AskReload(u) \/ SendQuit(u) \/ Break(u)
  \/ \E e \in Edits : MakeEdit(u, e)
  \/ \E m \in Chats : Say(u, m)

Next ==
  \/ \E u \in Users : UserAction(u) \/ Receive(u) \/ Handle(u)
  \/ Continue
  \/ Consume

Spec == Init /\ [][Next]_vars

\* The event loops of the server and of the clients serve every readable
\* socket, and a runnable consumer thread runs; nothing obliges a user to act.
Fairness ==
  /\ \A u \in Users : WF_vars(Receive(u)) /\ WF_vars(Handle(u))
  /\ WF_vars(Continue)
  /\ WF_vars(Consume)

FairSpec == Spec /\ Fairness

-----------------------------------------------------------------------------
(* Properties.                                                             *)

Tasks  == {"joined", "reload", "QUIT", "DISCONNECT"}
Phases == {"out", "opening", "open", "illegal", "quitting", "gone", "away"}

\* Every variable has its type; the consumer applies edits only.
FileTypeOK ==
  /\ participants \subseteq Users
  /\ messages \in Seq(Items)
  /\ crdt \subseteq Edits
  /\ chatMessages \in Seq(Chats)
  /\ closed \in BOOLEAN
ThreadTypeOK ==
  /\ consumer \in {"wait", "deliver", "apply", "stopped", "destroyed"}
  /\ item \in Items
  /\ consumer = "apply" => item.type = "CRDT"
  /\ main \in [task : Tasks, user : Users, text : SUBSET Edits] \cup {Idle}
ConnectionTypeOK ==
  /\ toServer \in [Users -> Seq(Requests)]
  /\ toClient \in [Users -> Seq(Responses)]
ClientTypeOK ==
  /\ phase \in [Users -> Phases]
  /\ fileValid \in [Users -> BOOLEAN]
  /\ replica \in [Users -> SUBSET Edits]
  /\ chatView \in [Users -> Seq(Chats)]
  /\ onlineView \in [Users -> SUBSET Users]
HistoryTypeOK ==
  /\ issued \subseteq Edits /\ said \subseteq Chats
  /\ ctx \in [Edits -> SUBSET Edits]
  /\ chatLog \in Seq(Chats)
  /\ missed \in [Users -> SUBSET Edits] /\ lost \subseteq Edits
  /\ opens \in [Users -> Nat] /\ reloads \in [Users -> Nat] /\ crashes \in Nat
TypeOK ==
  FileTypeOK /\ ThreadTypeOK /\ ConnectionTypeOK /\ ClientTypeOK /\ HistoryTypeOK

\* What a message still on its way to a client adds to its replica.
Incoming(m) == IF m.type \in {"CRDT", "LOAD"} THEN m.body ELSE {}
InFlight(u) == UNION {Incoming(toClient[u][i]) : i \in DOMAIN toClient[u]}

\* The edit that the consumer has sent to the participants but not applied.
Broadcasting == IF consumer \in {"apply", "destroyed"} THEN item.body ELSE {}

\* A user's own text edits between its keyboard and the consumer's broadcast.
OwnPending(u) ==
  OwnQueued(u) \cup
  {e \in Edits \ Alignments : Author[e] = u /\
     \E i \in DOMAIN toServer[u] : e \in toServer[u][i].body}

\* No participant misses an edit, and none invents one: what its replica
\* holds once it has read its channel is what the server has broadcast plus
\* its own edits on their way, except for the edits that were still queued
\* when it joined again.  A client that reloaded is excepted.  (join against
\* deliverMessages, kk_file.cpp)
Agreement ==
  \A u \in participants : Connected(u) /\ reloads[u] = 0 =>
    replica[u] \cup InFlight(u) = (crdt \cup Broadcasting \cup OwnPending(u)) \ missed[u]

\* No message of the consumer brings an edit that the client already has or
\* gets from an earlier message: remoteInsert would insert it twice.
NoDuplicate ==
  \A u \in Users : \A i \in DOMAIN toClient[u] :
    toClient[u][i].type = "CRDT" =>
      /\ toClient[u][i].body \cap replica[u] = {}
      /\ \A j \in 1..(i-1) : toClient[u][i].body \cap Incoming(toClient[u][j]) = {}

\* Edits are applied after every edit their author had seen, on the server
\* and in every replica: an edit never refers to a character not there yet.
Causal ==
  /\ \A e \in crdt : ctx[e] \subseteq crdt
  /\ \A u \in Users : reloads[u] = 0 =>
       \A e \in replica[u] : ctx[e] \subseteq replica[u] \cup missed[u]

\* The chat messages on their way to a client after the first i messages.
ChatsAfter(q, i) == Cardinality({j \in DOMAIN q : j > i /\ q[j].type = "CHAT"})

\* A participant's chat window is a contiguous end of the conversation that
\* stops where the messages still on their way begin: no gap, no repetition
\* and no disorder between the history join sends and the messages the
\* consumer relays, and together at least the last MaxRecent messages.
ShowsEnd(view, read) ==
  /\ Len(view) <= read
  /\ \A k \in DOMAIN view : view[k] = chatLog[read - Len(view) + k]
ContinuesWith(q) ==
  \A i \in DOMAIN q : q[i].type = "CHAT" =>
    q[i].body = {chatLog[Len(chatLog) - ChatsAfter(q, i)]}
ChatContiguous ==
  \A u \in participants : Connected(u) =>
    /\ ShowsEnd(chatView[u], Len(chatLog) - ChatsAfter(toClient[u], 0))
    /\ ContinuesWith(toClient[u])
    /\ Len(chatView[u]) + ChatsAfter(toClient[u], 0) >= Len(Trim(chatLog))

\* The users that a client shows online once it has read the messages q: the
\* last one that speaks of a user decides.
Speaks(m, v) == m.type = "SET" \/ (m.type \in {"ADDED", "REMOVED"} /\ v \in m.body)
ShownAfter(online, q) ==
  {v \in Users :
     LET told == {i \in DOMAIN q : Speaks(q[i], v)}
     IN  IF told = {}
         THEN v \in online
         ELSE \E i \in told : /\ \A j \in told : j <= i
                             /\ q[i].type # "REMOVED" /\ v \in q[i].body}

\* Once the main thread is between two requests, the list that a participant
\* will show when it has read its channel is the list of the participants,
\* though ADDED and REMOVED bypass the queue.
PresenceAgrees ==
  MainIdle => \A u \in participants : Connected(u) =>
    ShownAfter(onlineView[u], toClient[u]) = participants

\* A session that sends an edit, a chat message or a reload has a file: the
\* handlers dereference it without a check.
SessionHasFile ==
  \A u \in Users :
    toServer[u] # <<>> /\ Head(toServer[u]).type \in {"CRDT", "CHAT", "LOAD"}
      => u \in participants

\* CLOSE_FILE is the last entry of the queue: the consumer stops with every
\* edit and chat message handled.
CloseIsLast ==
  /\ \A i \in DOMAIN messages : messages[i].type = "CLOSE" => i = Len(messages)
  /\ consumer = "stopped" => messages = <<>>

\* An edit is applied by the server, unless a broken connection lost it or
\* the last participant left with the edit still in the queue.
EditsApplied ==
  \A e \in Edits : e \in issued ~> e \in crdt \cup lost \/ consumer = "destroyed"

\* An edit of the server reaches every participant that stays and has not
\* had to reload.
EditsDelivered ==
  \A u \in Users, e \in Edits :
    (e \in crdt /\ u \in participants)
      ~> (e \in replica[u] \cup missed[u] \/ u \notin participants
          \/ phase[u] = "gone" \/ reloads[u] > 0)

\* Who asks for the document gets an answer, or is sent to another one.
OpenAnswered == \A u \in Users : phase[u] = "opening" ~> phase[u] # "opening"

\* The relay implements the document of KKDocument, where an edit joins the
\* document as the consumer broadcasts it: whatever threads and connections
\* do, edits are never invented, never leave the document and join it in
\* causal order, and replicas only show edits of the document or their own.
Document == INSTANCE KKDocument WITH doc <- crdt \cup Broadcasting, view <- replica,
                                     written <- issued, seen <- ctx
ImplementsDocument == Document!Spec

\* When nothing is on its way, every client that has the document open shows
\* what the server has.
Quiescent ==
  /\ MainIdle /\ consumer = "wait" /\ messages = <<>>
  /\ \A u \in Users : toServer[u] = <<>> /\ toClient[u] = <<>>
ConsistentRepresentation ==
  Quiescent => \A u \in Users : phase[u] = "open" => replica[u] = crdt

\* The dialog of an illegal edit promises the last version of the document.
ReloadIsLatest ==
  Quiescent => \A u \in Users :
    phase[u] = "open" /\ reloads[u] > 0 => replica[u] = crdt
=============================================================================
