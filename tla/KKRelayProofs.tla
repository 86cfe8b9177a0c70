--------------------------- MODULE KKRelayProofs ---------------------------
(***************************************************************************)
(* Theorems about one open document (KKRelay), for every set of users,     *)
(* edits and chat messages and every bound.                                *)
(***************************************************************************)
EXTENDS KKRelay, SequenceTheorems, TLAPS

-----------------------------------------------------------------------------
(* Type correctness.                                                       *)

\* What Deliver, SendTo and Relay leave in the channels to the clients.
LEMMA DeliverType ==
  ASSUME NEW u, NEW channel \in Seq(Responses), NEW ms \in Seq(Responses)
  PROVE  Deliver(channel, u, ms) \in Seq(Responses)
BY DEF Deliver

LEMMA SendToType ==
  ASSUME TypeOK, NEW u \in Users, NEW ms \in Seq(Responses), SendTo(u, ms)
  PROVE  toClient' \in [Users -> Seq(Responses)]
BY DeliverType DEF TypeOK, ConnectionTypeOK, SendTo

LEMMA SendOneType ==
  ASSUME TypeOK, NEW u \in Users, NEW m \in Responses, SendTo(u, <<m>>)
  PROVE  toClient' \in [Users -> Seq(Responses)]
<1>1. <<m>> \in Seq(Responses)
  OBVIOUS
<1> QED
  BY <1>1, SendToType

LEMMA RelayType ==
  ASSUME TypeOK, NEW m \in Responses, NEW username, Relay(m, username)
  PROVE  toClient' \in [Users -> Seq(Responses)]
<1>1. <<m>> \in Seq(Responses)
  OBVIOUS
<1> QED
  BY <1>1, DeliverType DEF TypeOK, ConnectionTypeOK, Relay

\* Who handles a request, or receives a response, takes it from its channel.
LEMMA PopType ==
  ASSUME TypeOK, NEW u \in Users, NEW type, Request(u, type), Pop(u)
  PROVE  /\ toServer' \in [Users -> Seq(Requests)]
         /\ Head(toServer[u]) \in Requests
BY DEF TypeOK, ConnectionTypeOK, Request, Pop

LEMMA TookType ==
  ASSUME TypeOK, NEW u \in Users, NEW type, Response(u, type), Took(u)
  PROVE  /\ toClient' \in [Users -> Seq(Responses)]
         /\ Head(toClient[u]) \in Responses
BY DEF TypeOK, ConnectionTypeOK, Response, Took

LEMMA SendType ==
  ASSUME TypeOK, NEW u \in Users, NEW type, NEW body,
         Payload(type, body) \in Requests, Send(u, type, body)
  PROVE  toServer' \in [Users -> Seq(Requests)]
BY DEF TypeOK, ConnectionTypeOK, Send

\* The answer to who joins: OPEN, the last chat messages, SET and LOAD.
LEMMA JoinType ==
  ASSUME TypeOK, NEW u \in Users, Join(u)
  PROVE  toClient' \in [Users -> Seq(Responses)]
<1> DEFINE chats == [i \in 1..Len(chatMessages) |-> Payload("CHAT", {chatMessages[i]})]
<1>1. <<Payload("OPEN", {})>> \in Seq(Responses)
  BY DEF Payload, Responses
<1>2. chats \in Seq(Responses)
  <2>1. \A i \in 1..Len(chatMessages) : Payload("CHAT", {chatMessages[i]}) \in Responses
    BY DEF TypeOK, FileTypeOK, Payload, Responses
  <2> QED
    BY <2>1 DEF TypeOK, FileTypeOK
<1>3. <<Payload("SET", participants \cup {u}), Payload("LOAD", crdt)>> \in Seq(Responses)
  BY DEF TypeOK, FileTypeOK, Payload, Responses
<1> DEFINE answer == <<Payload("OPEN", {})>> \o chats
                       \o <<Payload("SET", participants \cup {u}), Payload("LOAD", crdt)>>
<1>4. answer \in Seq(Responses)
  <2> HIDE DEF chats
  <2> QED
    BY <1>1, <1>2, <1>3
<1>5. SendTo(u, answer)
  BY DEF Join
<1> HIDE DEF answer
<1> QED
  BY <1>4, <1>5, SendToType

LEMMA TrimType ==
  ASSUME NEW S, NEW s \in Seq(S)
  PROVE  Trim(s) \in Seq(S)
BY BoundsAssumption DEF Trim

LEMMA TypeInit == Init => TypeOK
<1> SUFFICES ASSUME Init PROVE TypeOK
  OBVIOUS
<1>1. FileTypeOK
  <2>1. closed \in BOOLEAN
    BY Zenon DEF Init
  <2> QED
    BY <2>1 DEF Init, FileTypeOK
<1>2. ThreadTypeOK
  BY DEF Init, ThreadTypeOK, NoItem, Item, Items
<1>3. ConnectionTypeOK
  BY DEF Init, ConnectionTypeOK
<1>4. ClientTypeOK
  BY DEF Init, ClientTypeOK, Phases
<1>5. HistoryTypeOK
  BY DEF Init, HistoryTypeOK
<1> QED
  BY <1>1, <1>2, <1>3, <1>4, <1>5 DEF TypeOK

LEMMA TypeUser ==
  ASSUME TypeOK, NEW u \in Users, UserAction(u)
  PROVE  TypeOK'
<1>1. CASE SendOpen(u)
  <2>1. toServer' \in [Users -> Seq(Requests)]
    BY <1>1, SendType DEF SendOpen, Payload, Requests
  <2>2. ConnectionTypeOK'
    BY <1>1, <2>1 DEF TypeOK, ConnectionTypeOK, SendOpen
  <2>3. ClientTypeOK'
    BY <1>1 DEF TypeOK, ClientTypeOK, SendOpen, Phases
  <2>4. HistoryTypeOK'
    BY <1>1 DEF TypeOK, HistoryTypeOK, SendOpen
  <2> QED
    BY <1>1, <2>2, <2>3, <2>4 DEF TypeOK, SendOpen, FileTypeOK,
       ThreadTypeOK, fileVars, threadVars, netVars, clientVars, historyVars
<1>2. CASE \E e \in Edits : MakeEdit(u, e)
  <2>1. toServer' \in [Users -> Seq(Requests)]
    BY <1>2, SendType DEF MakeEdit, Payload, Requests
  <2>2. ConnectionTypeOK'
    BY <1>2, <2>1 DEF TypeOK, ConnectionTypeOK, MakeEdit
  <2>3. ClientTypeOK'
    BY <1>2 DEF TypeOK, ClientTypeOK, MakeEdit
  <2>4. HistoryTypeOK'
    BY <1>2 DEF TypeOK, HistoryTypeOK, MakeEdit, ClientTypeOK
  <2> QED
    BY <1>2, <2>2, <2>3, <2>4 DEF TypeOK, MakeEdit, FileTypeOK,
       ThreadTypeOK, fileVars, threadVars, netVars, clientVars, historyVars
<1>3. CASE \E m \in Chats : Say(u, m)
  <2>1. toServer' \in [Users -> Seq(Requests)]
    BY <1>3, SendType DEF Say, Payload, Requests
  <2>2. ConnectionTypeOK'
    BY <1>3, <2>1 DEF TypeOK, ConnectionTypeOK, Say
  <2>3. HistoryTypeOK'
    BY <1>3 DEF TypeOK, HistoryTypeOK, Say
  <2> QED
    BY <1>3, <2>2, <2>3 DEF TypeOK, Say, FileTypeOK, ThreadTypeOK,
       ClientTypeOK, fileVars, threadVars, netVars, clientVars, historyVars
<1>4. CASE IllegalEdit(u)
  <2>1. ClientTypeOK'
    BY <1>4 DEF TypeOK, ClientTypeOK, IllegalEdit, Phases
  <2>2. HistoryTypeOK'
    BY <1>4 DEF TypeOK, HistoryTypeOK, IllegalEdit
  <2> QED
    BY <1>4, <2>1, <2>2 DEF TypeOK, IllegalEdit, FileTypeOK, ThreadTypeOK,
       ConnectionTypeOK, fileVars, threadVars, netVars, clientVars,
       historyVars
<1>5. CASE AskReload(u)
  <2>1. toServer' \in [Users -> Seq(Requests)]
    BY <1>5, SendType DEF AskReload, Payload, Requests
  <2>2. ConnectionTypeOK'
    BY <1>5, <2>1 DEF TypeOK, ConnectionTypeOK, AskReload
  <2>3. ClientTypeOK'
    BY <1>5 DEF TypeOK, ClientTypeOK, AskReload, Phases
  <2> QED
    BY <1>5, <2>2, <2>3 DEF TypeOK, AskReload, FileTypeOK, ThreadTypeOK,
       HistoryTypeOK, fileVars, threadVars, netVars, clientVars, historyVars
<1>6. CASE SendQuit(u)
  <2>1. toServer' \in [Users -> Seq(Requests)]
    BY <1>6, SendType DEF SendQuit, Payload, Requests
  <2>2. ConnectionTypeOK'
    BY <1>6, <2>1 DEF TypeOK, ConnectionTypeOK, SendQuit
  <2>3. ClientTypeOK'
    BY <1>6 DEF TypeOK, ClientTypeOK, SendQuit, Phases
  <2> QED
    BY <1>6, <2>2, <2>3 DEF TypeOK, SendQuit, FileTypeOK, ThreadTypeOK,
       HistoryTypeOK, fileVars, threadVars, netVars, clientVars, historyVars
<1>7. CASE Break(u)
  <2>1. toServer' \in [Users -> Seq(Requests)] /\ toClient' \in [Users -> Seq(Responses)]
    <3>1. Payload("DISCONNECT", {}) \in Requests
      BY DEF Payload, Requests
    <3>2. \A k \in 0..Len(toServer[u]) :
            Append(SubSeq(toServer[u], 1, k), Payload("DISCONNECT", {})) \in Seq(Requests)
      BY <3>1 DEF TypeOK, ConnectionTypeOK
    <3>3. toServer' \in [Users -> Seq(Requests)]
      BY <1>7, <3>2 DEF Break, TypeOK, ConnectionTypeOK
    <3>4. toClient' \in [Users -> Seq(Responses)]
      BY <1>7 DEF Break, TypeOK, ConnectionTypeOK
    <3> QED
      BY <3>3, <3>4
  <2>2. ConnectionTypeOK'
    BY <1>7, <2>1 DEF TypeOK, ConnectionTypeOK, Break
  <2>3. ClientTypeOK'
    BY <1>7 DEF TypeOK, ClientTypeOK, Break, Phases
  <2>4. HistoryTypeOK'
    BY <1>7 DEF TypeOK, HistoryTypeOK, Break
  <2> QED
    BY <1>7, <2>2, <2>3, <2>4 DEF TypeOK, Break, FileTypeOK, ThreadTypeOK,
       fileVars, threadVars, netVars, clientVars, historyVars
<1> QED
  BY <1>1, <1>2, <1>3, <1>4, <1>5, <1>6, <1>7 DEF UserAction

LEMMA TypeReceive ==
  ASSUME TypeOK, NEW u \in Users, Receive(u)
  PROVE  TypeOK'
<1>1. CASE ReceiveOpen(u)
  <2>1. toClient' \in [Users -> Seq(Responses)] /\ Head(toClient[u]) \in Responses
    BY <1>1, TookType DEF ReceiveOpen
  <2>2. ConnectionTypeOK'
    BY <1>1, <2>1 DEF TypeOK, ConnectionTypeOK, ReceiveOpen
  <2>3. ClientTypeOK'
    BY <1>1 DEF TypeOK, ClientTypeOK, ReceiveOpen
  <2> QED
    BY <1>1, <2>2, <2>3 DEF TypeOK, ReceiveOpen, FileTypeOK, ThreadTypeOK,
       HistoryTypeOK, fileVars, threadVars, netVars, clientVars, historyVars
<1>2. CASE ReceiveReject(u)
  <2>1. toClient' \in [Users -> Seq(Responses)] /\ Head(toClient[u]) \in Responses
    BY <1>2, TookType DEF ReceiveReject
  <2>2. toServer' \in [Users -> Seq(Requests)]
    BY <1>2, SendType DEF ReceiveReject, Payload, Requests
  <2>3. ConnectionTypeOK'
    BY <1>2, <2>1, <2>2 DEF TypeOK, ConnectionTypeOK, ReceiveReject
  <2>4. ClientTypeOK'
    BY <1>2 DEF TypeOK, ClientTypeOK, ReceiveReject, Phases
  <2> QED
    BY <1>2, <2>3, <2>4 DEF TypeOK, ReceiveReject, FileTypeOK, ThreadTypeOK,
       HistoryTypeOK, fileVars, threadVars, netVars, clientVars, historyVars
<1>3. CASE ReceiveLoad(u)
  <2>1. toClient' \in [Users -> Seq(Responses)] /\ Head(toClient[u]) \in Responses
    BY <1>3, TookType DEF ReceiveLoad
  <2>2. ConnectionTypeOK'
    BY <1>3, <2>1 DEF TypeOK, ConnectionTypeOK, ReceiveLoad
  <2>3. ClientTypeOK'
    BY <1>3, <2>1 DEF TypeOK, ClientTypeOK, ReceiveLoad, Phases, Response,
       Responses
  <2> QED
    BY <1>3, <2>2, <2>3 DEF TypeOK, ReceiveLoad, FileTypeOK, ThreadTypeOK,
       HistoryTypeOK, fileVars, threadVars, netVars, clientVars, historyVars
<1>4. CASE ReceiveEdit(u)
  <2>1. toClient' \in [Users -> Seq(Responses)] /\ Head(toClient[u]) \in Responses
    BY <1>4, TookType DEF ReceiveEdit
  <2>2. ConnectionTypeOK'
    BY <1>4, <2>1 DEF TypeOK, ConnectionTypeOK, ReceiveEdit
  <2>3. ClientTypeOK'
    BY <1>4, <2>1 DEF TypeOK, ClientTypeOK, ReceiveEdit, Response, Responses
  <2> QED
    BY <1>4, <2>2, <2>3 DEF TypeOK, ReceiveEdit, FileTypeOK, ThreadTypeOK,
       HistoryTypeOK, fileVars, threadVars, netVars, clientVars, historyVars
<1>5. CASE ReceiveChat(u)
  <2>1. toClient' \in [Users -> Seq(Responses)] /\ Head(toClient[u]) \in Responses
    BY <1>5, TookType DEF ReceiveChat
  <2>2. ConnectionTypeOK'
    BY <1>5, <2>1 DEF TypeOK, ConnectionTypeOK, ReceiveChat
  <2>3. ClientTypeOK'
    BY <1>5, <2>1 DEF TypeOK, ClientTypeOK, ReceiveChat, Response, Responses
  <2> QED
    BY <1>5, <2>2, <2>3 DEF TypeOK, ReceiveChat, FileTypeOK, ThreadTypeOK,
       HistoryTypeOK, fileVars, threadVars, netVars, clientVars, historyVars
<1>6. CASE ReceivePresence(u)
  <2>1. toClient' \in [Users -> Seq(Responses)] /\ Head(toClient[u]) \in Responses
    BY <1>6, TookType DEF ReceivePresence
  <2>2. ConnectionTypeOK'
    BY <1>6, <2>1 DEF TypeOK, ConnectionTypeOK, ReceivePresence
  <2>3. ClientTypeOK'
    BY <1>6, <2>1 DEF TypeOK, ClientTypeOK, ReceivePresence, Responses,
       Presence
  <2> QED
    BY <1>6, <2>2, <2>3 DEF TypeOK, ReceivePresence, FileTypeOK,
       ThreadTypeOK, HistoryTypeOK, fileVars, threadVars, netVars,
       clientVars, historyVars
<1>7. CASE ReceiveQuit(u)
  <2>1. toClient' \in [Users -> Seq(Responses)] /\ Head(toClient[u]) \in Responses
    BY <1>7, TookType DEF ReceiveQuit
  <2>2. ConnectionTypeOK'
    BY <1>7, <2>1 DEF TypeOK, ConnectionTypeOK, ReceiveQuit
  <2>3. ClientTypeOK'
    BY <1>7 DEF TypeOK, ClientTypeOK, ReceiveQuit, Phases
  <2> QED
    BY <1>7, <2>2, <2>3 DEF TypeOK, ReceiveQuit, FileTypeOK, ThreadTypeOK,
       HistoryTypeOK, fileVars, threadVars, netVars, clientVars, historyVars
<1> QED
  BY <1>1, <1>2, <1>3, <1>4, <1>5, <1>6, <1>7 DEF Receive

LEMMA TypeHandle ==
  ASSUME TypeOK, NEW u \in Users, Handle(u)
  PROVE  TypeOK'
<1>1. CASE RejectOpen(u)
  <2>1. toServer' \in [Users -> Seq(Requests)] /\ Head(toServer[u]) \in Requests
    BY <1>1, PopType DEF RejectOpen
  <2>2. toClient' \in [Users -> Seq(Responses)]
    <3>1. Payload("REJECT", {}) \in Responses
      BY DEF Payload, Responses
    <3> QED
      BY <1>1, <3>1, SendOneType DEF RejectOpen
  <2>3. ConnectionTypeOK'
    BY <1>1, <2>1, <2>2 DEF TypeOK, ConnectionTypeOK, RejectOpen
  <2> QED
    BY <1>1, <2>3 DEF TypeOK, RejectOpen, FileTypeOK, ThreadTypeOK,
       ClientTypeOK, HistoryTypeOK, fileVars, threadVars, netVars,
       clientVars, historyVars
<1>2. CASE Join(u)
  <2>1. toServer' \in [Users -> Seq(Requests)] /\ Head(toServer[u]) \in Requests
    BY <1>2, PopType DEF Join
  <2>2. toClient' \in [Users -> Seq(Responses)]
    BY <1>2, JoinType DEF Join
  <2>3. FileTypeOK'
    BY <1>2 DEF TypeOK, FileTypeOK, Join
  <2>4. ThreadTypeOK'
    BY <1>2 DEF TypeOK, ThreadTypeOK, Join, Tasks
  <2>5. ConnectionTypeOK'
    BY <1>2, <2>1, <2>2 DEF TypeOK, ConnectionTypeOK, Join
  <2>6. HistoryTypeOK'
    BY <1>2 DEF TypeOK, HistoryTypeOK, Join, OwnQueued
  <2> QED
    BY <1>2, <2>3, <2>4, <2>5, <2>6 DEF TypeOK, Join, ClientTypeOK,
       fileVars, threadVars, netVars, clientVars, historyVars
<1>3. CASE Redirect(u)
  <2>1. toServer' \in [Users -> Seq(Requests)] /\ Head(toServer[u]) \in Requests
    BY <1>3, PopType DEF Redirect
  <2>2. ConnectionTypeOK'
    BY <1>3, <2>1 DEF TypeOK, ConnectionTypeOK, Redirect
  <2>3. ClientTypeOK'
    BY <1>3 DEF TypeOK, ClientTypeOK, Redirect, Phases
  <2> QED
    BY <1>3, <2>2, <2>3 DEF TypeOK, Redirect, FileTypeOK, ThreadTypeOK,
       HistoryTypeOK, fileVars, threadVars, netVars, clientVars, historyVars
<1>4. CASE HandleEdit(u)
  <2>1. toServer' \in [Users -> Seq(Requests)] /\ Head(toServer[u]) \in Requests
    BY <1>4, PopType DEF HandleEdit
  <2>2. FileTypeOK'
    BY <1>4, <2>1 DEF TypeOK, FileTypeOK, HandleEdit, Produce, Item, Items,
       Request, Requests
  <2>3. ConnectionTypeOK'
    BY <1>4, <2>1 DEF TypeOK, ConnectionTypeOK, HandleEdit
  <2> QED
    BY <1>4, <2>2, <2>3 DEF TypeOK, HandleEdit, ThreadTypeOK, ClientTypeOK,
       HistoryTypeOK, fileVars, threadVars, netVars, clientVars, historyVars
<1>5. CASE HandleChat(u)
  <2>1. toServer' \in [Users -> Seq(Requests)] /\ Head(toServer[u]) \in Requests
    BY <1>5, PopType DEF HandleChat
  <2>2. FileTypeOK'
    BY <1>5, <2>1 DEF TypeOK, FileTypeOK, HandleChat, Produce, Item, Items,
       Request, Requests
  <2>3. ConnectionTypeOK'
    BY <1>5, <2>1 DEF TypeOK, ConnectionTypeOK, HandleChat
  <2> QED
    BY <1>5, <2>2, <2>3 DEF TypeOK, HandleChat, ThreadTypeOK, ClientTypeOK,
       HistoryTypeOK, fileVars, threadVars, netVars, clientVars, historyVars
<1>6. CASE ReadText(u)
  <2>1. toServer' \in [Users -> Seq(Requests)] /\ Head(toServer[u]) \in Requests
    BY <1>6, PopType DEF ReadText
  <2>2. ThreadTypeOK'
    BY <1>6 DEF TypeOK, ThreadTypeOK, ReadText, FileTypeOK, Tasks
  <2>3. ConnectionTypeOK'
    BY <1>6, <2>1 DEF TypeOK, ConnectionTypeOK, ReadText
  <2> QED
    BY <1>6, <2>2, <2>3 DEF TypeOK, ReadText, FileTypeOK, ClientTypeOK,
       HistoryTypeOK, fileVars, threadVars, netVars, clientVars, historyVars
<1>7. CASE \E type \in {"QUIT", "DISCONNECT"} : Leave(u, type)
  <2>1. toServer' \in [Users -> Seq(Requests)] /\ Head(toServer[u]) \in Requests
    BY <1>7, PopType DEF Leave
  <2>2. FileTypeOK'
    BY <1>7 DEF TypeOK, FileTypeOK, Leave
  <2>3. ThreadTypeOK'
    BY <1>7 DEF TypeOK, ThreadTypeOK, Leave, Tasks
  <2>4. ConnectionTypeOK'
    BY <1>7, <2>1 DEF TypeOK, ConnectionTypeOK, Leave
  <2> QED
    BY <1>7, <2>2, <2>3, <2>4 DEF TypeOK, Leave, ClientTypeOK,
       HistoryTypeOK, fileVars, threadVars, netVars, clientVars, historyVars
<1>8. CASE \E type \in {"QUIT", "DISCONNECT"} : LeaveNothing(u, type)
  <2>1. toServer' \in [Users -> Seq(Requests)] /\ Head(toServer[u]) \in Requests
    BY <1>8, PopType DEF LeaveNothing
  <2>2. toClient' \in [Users -> Seq(Responses)]
    <3>1. Payload("QUIT", {}) \in Responses
      BY DEF Payload, Responses
    <3>2. CASE SendTo(u, <<Payload("QUIT", {})>>)
      BY <3>1, <3>2, SendOneType
    <3>3. CASE UNCHANGED toClient
      BY <3>3 DEF TypeOK, ConnectionTypeOK
    <3> QED
      BY <1>8, <3>2, <3>3 DEF LeaveNothing
  <2>3. ConnectionTypeOK'
    BY <1>8, <2>1, <2>2 DEF TypeOK, ConnectionTypeOK, LeaveNothing
  <2>4. ClientTypeOK'
    BY <1>8 DEF TypeOK, ClientTypeOK, LeaveNothing, Phases, Finish
  <2> QED
    BY <1>8, <2>3, <2>4 DEF TypeOK, LeaveNothing, FileTypeOK, ThreadTypeOK,
       HistoryTypeOK, fileVars, threadVars, netVars, clientVars, historyVars
<1> QED
  BY <1>1, <1>2, <1>3, <1>4, <1>5, <1>6, <1>7, <1>8 DEF Handle

LEMMA TypeContinue ==
  ASSUME TypeOK, Continue
  PROVE  TypeOK'
<1>1. CASE AnnounceJoin
  <2>1. toClient' \in [Users -> Seq(Responses)]
    <3>1. main.user \in Users
      BY <1>1 DEF AnnounceJoin, TypeOK, ThreadTypeOK, Idle
    <3>2. Payload("ADDED", {main.user}) \in Responses
      BY <3>1 DEF Payload, Responses
    <3>3. Relay(Payload("ADDED", {main.user}), main.user)
      BY <1>1 DEF AnnounceJoin
    <3> QED
      BY <3>2, <3>3, RelayType
  <2>2. ThreadTypeOK'
    BY <1>1 DEF TypeOK, ThreadTypeOK, AnnounceJoin
  <2>3. ConnectionTypeOK'
    BY <1>1, <2>1 DEF TypeOK, ConnectionTypeOK, AnnounceJoin
  <2> QED
    BY <1>1, <2>2, <2>3 DEF TypeOK, AnnounceJoin, FileTypeOK, ClientTypeOK,
       HistoryTypeOK, fileVars, threadVars, netVars, clientVars, historyVars
<1>2. CASE AnnounceLeave
  <2>1. toClient' \in [Users -> Seq(Responses)]
    <3> DEFINE u == main.user
               told == [v \in Users |->
                          IF v \in participants
                          THEN Deliver(toClient[v], v, <<Payload("REMOVED", {u})>>)
                          ELSE toClient[v]]
    <3>1. u \in Users
      BY <1>2 DEF AnnounceLeave, TypeOK, ThreadTypeOK, Idle
    <3>2. <<Payload("REMOVED", {u})>> \in Seq(Responses)
      BY <3>1 DEF Payload, Responses
    <3>3. <<Payload("QUIT", {})>> \in Seq(Responses)
      BY DEF Payload, Responses
    <3>4. told \in [Users -> Seq(Responses)]
      BY <3>2, DeliverType DEF TypeOK, ConnectionTypeOK
    <3>5. [told EXCEPT ![u] = Deliver(@, u, <<Payload("QUIT", {})>>)]
            \in [Users -> Seq(Responses)]
      <4> HIDE DEF told
      <4>1. Deliver(told[u], u, <<Payload("QUIT", {})>>) \in Seq(Responses)
        BY <3>1, <3>3, <3>4, DeliverType
      <4> QED
        BY <3>1, <3>4, <4>1
    <3> QED
      BY <1>2, <3>4, <3>5 DEF AnnounceLeave
  <2>2. FileTypeOK'
    <3>1. CASE closed' = TRUE /\ Produce("CLOSE", {}, All)
      <4>1. Item("CLOSE", {}, All) \in Items
        BY DEF Item, Items
      <4>2. messages' \in Seq(Items)
        BY <3>1, <4>1 DEF Produce, TypeOK, FileTypeOK
      <4>3. closed' \in BOOLEAN
        BY <3>1, Zenon
      <4> QED
        BY <1>2, <4>2, <4>3 DEF AnnounceLeave, TypeOK, FileTypeOK
    <3>2. CASE UNCHANGED <<closed, messages>>
      BY <1>2, <3>2 DEF AnnounceLeave, TypeOK, FileTypeOK
    <3> QED
      BY <1>2, <3>1, <3>2 DEF AnnounceLeave
  <2>3. ThreadTypeOK'
    BY <1>2 DEF TypeOK, ThreadTypeOK, AnnounceLeave
  <2>4. ConnectionTypeOK'
    BY <1>2, <2>1 DEF TypeOK, ConnectionTypeOK, AnnounceLeave
  <2>5. ClientTypeOK'
    BY <1>2 DEF TypeOK, ClientTypeOK, AnnounceLeave, Phases, Finish
  <2> QED
    BY <1>2, <2>2, <2>3, <2>4, <2>5 DEF TypeOK, AnnounceLeave,
       HistoryTypeOK, fileVars, threadVars, netVars, clientVars, historyVars
<1>3. CASE SendText
  <2>1. toClient' \in [Users -> Seq(Responses)]
    <3>1. main.user \in Users /\ Payload("LOAD", main.text) \in Responses
      BY <1>3 DEF SendText, TypeOK, ThreadTypeOK, Idle, Payload, Responses
    <3> QED
      BY <1>3, <3>1, SendOneType DEF SendText
  <2>2. ThreadTypeOK'
    BY <1>3 DEF TypeOK, ThreadTypeOK, SendText
  <2>3. ConnectionTypeOK'
    BY <1>3, <2>1 DEF TypeOK, ConnectionTypeOK, SendText
  <2> QED
    BY <1>3, <2>2, <2>3 DEF TypeOK, SendText, FileTypeOK, ClientTypeOK,
       HistoryTypeOK, fileVars, threadVars, netVars, clientVars, historyVars
<1>4. CASE Destroy
  <2>1. ThreadTypeOK'
    BY <1>4 DEF TypeOK, ThreadTypeOK, Destroy, NoItem, Item, Items
  <2> QED
    BY <1>4, <2>1 DEF TypeOK, Destroy, FileTypeOK, ConnectionTypeOK,
       ClientTypeOK, HistoryTypeOK, fileVars, netVars, clientVars,
       historyVars
<1> QED
  BY <1>1, <1>2, <1>3, <1>4 DEF Continue

LEMMA TypeConsume ==
  ASSUME TypeOK, Consume
  PROVE  TypeOK'
<1>1. CASE Take
  <2>1. FileTypeOK'
    BY <1>1 DEF TypeOK, FileTypeOK, Take, HasWork
  <2>2. ThreadTypeOK'
    BY <1>1 DEF TypeOK, ThreadTypeOK, Take, FileTypeOK, HasWork, NoItem,
       Item, Items
  <2> QED
    BY <1>1, <2>1, <2>2 DEF TypeOK, Take, ConnectionTypeOK, ClientTypeOK,
       HistoryTypeOK, fileVars, threadVars, netVars, clientVars, historyVars
<1>2. CASE DeliverEdit
  <2>1. toClient' \in [Users -> Seq(Responses)]
    BY <1>2, RelayType DEF DeliverEdit, TypeOK, ThreadTypeOK, Items,
       Payload, Responses
  <2>2. ThreadTypeOK'
    BY <1>2 DEF TypeOK, ThreadTypeOK, DeliverEdit
  <2>3. ConnectionTypeOK'
    BY <1>2, <2>1 DEF TypeOK, ConnectionTypeOK, DeliverEdit
  <2> QED
    BY <1>2, <2>2, <2>3 DEF TypeOK, DeliverEdit, FileTypeOK, ClientTypeOK,
       HistoryTypeOK, fileVars, threadVars, netVars, clientVars, historyVars
<1>3. CASE Apply
  <2>1. FileTypeOK'
    BY <1>3 DEF TypeOK, FileTypeOK, Apply, ThreadTypeOK, Items
  <2>2. ThreadTypeOK'
    BY <1>3 DEF TypeOK, ThreadTypeOK, Apply, NoItem, Item, Items
  <2> QED
    BY <1>3, <2>1, <2>2 DEF TypeOK, Apply, ConnectionTypeOK, ClientTypeOK,
       HistoryTypeOK, fileVars, threadVars, netVars, clientVars, historyVars
<1>4. CASE DeliverChat
  <2>1. toClient' \in [Users -> Seq(Responses)]
    BY <1>4, RelayType DEF DeliverChat, TypeOK, ThreadTypeOK, Items,
       Payload, Responses
  <2>2. FileTypeOK'
    <3>1. PICK m \in item.body : chatMessages' = Trim(Append(chatMessages, m))
      BY <1>4 DEF DeliverChat
    <3>2. m \in Chats
      BY <1>4, <3>1 DEF DeliverChat, TypeOK, ThreadTypeOK, Items
    <3>3. chatMessages' \in Seq(Chats)
      <4>1. Append(chatMessages, m) \in Seq(Chats)
        BY <3>2 DEF TypeOK, FileTypeOK
      <4> QED
        BY <3>1, <4>1, TrimType
    <3> QED
      BY <1>4, <3>3 DEF DeliverChat, TypeOK, FileTypeOK
  <2>3. ThreadTypeOK'
    BY <1>4 DEF TypeOK, ThreadTypeOK, DeliverChat, NoItem, Item, Items
  <2>4. ConnectionTypeOK'
    BY <1>4, <2>1 DEF TypeOK, ConnectionTypeOK, DeliverChat
  <2>5. HistoryTypeOK'
    BY <1>4 DEF TypeOK, HistoryTypeOK, DeliverChat, ThreadTypeOK, Items
  <2> QED
    BY <1>4, <2>2, <2>3, <2>4, <2>5 DEF TypeOK, DeliverChat, ClientTypeOK,
       fileVars, threadVars, netVars, clientVars, historyVars
<1> QED
  BY <1>1, <1>2, <1>3, <1>4 DEF Consume

LEMMA TypeNext == TypeOK /\ [Next]_vars => TypeOK'
<1> SUFFICES ASSUME TypeOK, [Next]_vars PROVE TypeOK'
  OBVIOUS
<1>1. CASE UNCHANGED vars
  BY <1>1 DEF vars, fileVars, threadVars, netVars, clientVars, historyVars,
     TypeOK, FileTypeOK, ThreadTypeOK, ConnectionTypeOK, ClientTypeOK,
     HistoryTypeOK
<1>2. CASE \E u \in Users : UserAction(u) \/ Receive(u) \/ Handle(u)
  BY <1>2, TypeUser, TypeReceive, TypeHandle
<1>3. CASE Continue \/ Consume
  BY <1>3, TypeContinue, TypeConsume
<1> QED
  BY <1>1, <1>2, <1>3 DEF Next

\* Every variable keeps its type; in particular the consumer applies edits
\* only, and what a client takes for a text, a message or a presence is one
\* (TypeOK, checked in run relay_edits).
THEOREM TypeCorrect == Spec => []TypeOK
<1> QED
  BY TypeInit, TypeNext, PTL DEF Spec

-----------------------------------------------------------------------------
(* The conversation of a client and its session, and the end of the file.  *)
(* That a session has a file when it handles an edit, and that nothing is  *)
(* queued behind CLOSE_FILE, rests on the order of the requests on their   *)
(* way to the server, on what a client may do in each phase and on which   *)
(* answers are the last of their kind.                                     *)

Work == {"CRDT", "CHAT", "LOAD"}

\* The requests on their way: OPEN first, the work on the document only
\* while the user is a participant, then QUIT, then the disconnection.
InOrder(u) ==
  \A i \in 1..Len(toServer[u]) :
    /\ toServer[u][i].type \in Work =>
         u \in participants /\ \A j \in 1..(i-1) : toServer[u][j].type \in Work
    /\ toServer[u][i].type = "OPEN" => i = 1 /\ u \notin participants
    /\ toServer[u][i].type \in {"OPEN", "QUIT"} =>
         \A j \in (i+1)..Len(toServer[u]) : toServer[u][j].type = "DISCONNECT"
    /\ toServer[u][i].type = "DISCONNECT" => i = Len(toServer[u])

\* What a client in a phase may have sent and may be sent.
Fits(u) ==
  /\ phase[u] \in {"out", "away"} =>
       toServer[u] = <<>> /\ toClient[u] = <<>> /\ u \notin participants /\ main.user # u
  /\ phase[u] = "opening" /\ toServer[u] # <<>> =>
       /\ Len(toServer[u]) = 1 /\ toServer[u][1].type = "OPEN"
       /\ toClient[u] = <<>> /\ main.user # u
  /\ phase[u] \in {"open", "illegal"} =>
       u \in participants /\ \A i \in 1..Len(toServer[u]) : toServer[u][i].type \in Work
  /\ phase[u] = "quitting" =>
       \A i \in 1..Len(toServer[u]) : toServer[u][i].type \in Work \cup {"QUIT"}
  /\ phase[u] = "gone" => toClient[u] = <<>>

\* The answers on their way: nothing follows QUIT or REJECT, and who waits
\* for the document and is about to get it is a participant.
Answers(u) ==
  \A i \in 1..Len(toClient[u]) :
    /\ toClient[u][i].type \in {"QUIT", "REJECT"} =>
         /\ i = Len(toClient[u]) /\ toServer[u] = <<>>
         /\ u \notin participants /\ main.user # u
         /\ phase[u] = IF toClient[u][i].type = "QUIT" THEN "quitting" ELSE "opening"
    /\ toClient[u][i].type = "LOAD" /\ phase[u] = "opening" => u \in participants

\* The request that the main thread is in the middle of.
MainFits ==
  /\ main.task \in {"joined", "reload"} => main.user \in participants
  /\ main.task = "QUIT" =>
       /\ main.user \notin participants
       /\ \/ phase[main.user] = "gone"
          \/ phase[main.user] = "quitting" /\ toServer[main.user] = <<>>
  /\ main.task = "DISCONNECT" =>
       /\ main.user \notin participants
       /\ phase[main.user] = "gone" /\ toServer[main.user] = <<>>

Conversation == MainFits /\ \A u \in Users : InOrder(u) /\ Fits(u) /\ Answers(u)

\* The file closes once, when its last participant has left, and is then
\* used by nobody.
Closing ==
  /\ closed => participants = {} /\ main.task \notin {"QUIT", "DISCONNECT"}
  /\ consumer = "stopped" => closed /\ messages = <<>>
  /\ \A i \in 1..Len(messages) : messages[i].type = "CLOSE" => closed /\ i = Len(messages)

IInv == TypeOK /\ Conversation /\ Closing

-----------------------------------------------------------------------------

\* A step that does not concern a user keeps what holds of its conversation.
LEMMA OthersKeep ==
  ASSUME NEW v \in Users, InOrder(v), Fits(v), Answers(v),
         toServer'[v] = toServer[v], toClient'[v] = toClient[v], phase'[v] = phase[v],
         v \in participants' <=> v \in participants, main'.user # v
  PROVE  InOrder(v)' /\ Fits(v)' /\ Answers(v)'
BY DEF InOrder, Fits, Answers

LEMMA TailOfOne ==
  ASSUME NEW S, NEW s \in Seq(S), Len(s) = 1
  PROVE  Tail(s) = <<>>
<1>1. Tail(s) \in Seq(S) /\ Len(Tail(s)) = 0
  BY HeadTailProperties
<1> QED
  BY <1>1, EmptySeq

\* Taking the first request leaves the others in order; also when the set of
\* participants changes with it, after OPEN or QUIT.
LEMMA TailInOrder ==
  ASSUME NEW u \in Users, InOrder(u), toServer[u] \in Seq(Requests), toServer[u] # <<>>,
         toServer'[u] = Tail(toServer[u]),
         \/ u \in participants' <=> u \in participants
         \/ toServer[u][1].type \in {"OPEN", "QUIT"}
  PROVE  InOrder(u)'
<1> DEFINE s == toServer[u]
           t == toServer'[u]
           n == Len(s)
<1>1. /\ n \in Nat /\ n > 0 /\ t \in Seq(Requests) /\ Len(t) = n - 1
      /\ \A i \in 1..(n - 1) : t[i] = s[i + 1]
  BY EmptySeq
<1>2. \A i \in 1..n :
        /\ s[i].type \in Work =>
             u \in participants /\ \A j \in 1..(i - 1) : s[j].type \in Work
        /\ s[i].type = "OPEN" => i = 1
        /\ s[i].type \in {"OPEN", "QUIT"} => \A j \in (i + 1)..n : s[j].type = "DISCONNECT"
        /\ s[i].type = "DISCONNECT" => i = n
  BY DEF InOrder
<1>3. s[1].type \in {"OPEN", "QUIT"} => \A i \in 2..n : s[i].type \notin Work
  BY <1>1, <1>2 DEF Work
<1> HIDE DEF s, t, n
<1>4. ASSUME NEW i \in 1..(n - 1)
      PROVE  /\ t[i].type \in Work =>
                  u \in participants' /\ \A j \in 1..(i - 1) : t[j].type \in Work
             /\ t[i].type # "OPEN"
             /\ t[i].type = "QUIT" => \A j \in (i + 1)..(n - 1) : t[j].type = "DISCONNECT"
             /\ t[i].type = "DISCONNECT" => i = n - 1
  <2>1. i + 1 \in 2..n /\ i + 1 \in 1..n /\ t[i] = s[i + 1]
    BY <1>1
  <2>2. t[i].type \in Work => u \in participants'
    BY <1>2, <1>3, <2>1 DEF s
  <2>3. ASSUME t[i].type \in Work, NEW j \in 1..(i - 1) PROVE t[j].type \in Work
    <3>1. j + 1 \in 1..((i + 1) - 1) /\ t[j] = s[j + 1]
      BY <1>1
    <3> QED
      BY <1>2, <2>1, <2>3, <3>1
  <2>4. t[i].type # "OPEN"
    BY <1>2, <2>1
  <2>5. ASSUME t[i].type = "QUIT", NEW j \in (i + 1)..(n - 1) PROVE t[j].type = "DISCONNECT"
    <3>1. j + 1 \in ((i + 1) + 1)..n /\ t[j] = s[j + 1]
      BY <1>1
    <3> QED
      BY <1>2, <2>1, <2>5, <3>1
  <2>6. t[i].type = "DISCONNECT" => i = n - 1
    BY <1>1, <1>2, <2>1
  <2> QED
    BY <2>2, <2>3, <2>4, <2>5, <2>6
<1> QED
  BY <1>1, <1>4 DEF InOrder, t

\* Who asks for the document is not a participant, and has asked for nothing
\* else; the connection may be gone.
LEMMA OpenIsFirst ==
  ASSUME IInv, NEW u \in Users, Request(u, "OPEN")
  PROVE  /\ u \notin participants
         /\ \/ phase[u] = "opening" /\ Tail(toServer[u]) = <<>> /\ toClient[u] = <<>>
            \/ phase[u] = "gone" /\ toClient[u] = <<>>
<1>1. /\ toServer[u] \in Seq(Requests) /\ Len(toServer[u]) > 0
      /\ toServer[u][1].type = "OPEN" /\ phase[u] \in Phases
  BY DEF IInv, TypeOK, ConnectionTypeOK, ClientTypeOK, Request
<1>2. InOrder(u) /\ Fits(u)
  BY DEF IInv, Conversation
<1>3. Len(toServer[u]) = 1 => Tail(toServer[u]) = <<>>
  BY <1>1, TailOfOne
<1> QED
  BY <1>1, <1>2, <1>3 DEF InOrder, Fits, Work, Phases

\* Who quits has asked for nothing else, unless the connection is gone.
LEMMA QuitIsLast ==
  ASSUME IInv, NEW u \in Users, Request(u, "QUIT")
  PROVE  \/ phase[u] = "quitting" /\ Tail(toServer[u]) = <<>>
         \/ phase[u] = "gone" /\ toClient[u] = <<>>
<1>1. /\ toServer[u] \in Seq(Requests) /\ Len(toServer[u]) > 0
      /\ toServer[u][1].type = "QUIT" /\ phase[u] \in Phases
  BY DEF IInv, TypeOK, ConnectionTypeOK, ClientTypeOK, Request
<1>2. InOrder(u) /\ Fits(u)
  BY DEF IInv, Conversation
<1>3. CASE phase[u] = "quitting"
  <2>1. ASSUME NEW i \in 2..Len(toServer[u]) PROVE FALSE
    <3>1. toServer[u][i].type = "DISCONNECT"
      BY <1>1, <1>2 DEF InOrder
    <3>2. toServer[u][i].type \in Work \cup {"QUIT"}
      BY <1>1, <1>2, <1>3 DEF Fits
    <3> QED
      BY <3>1, <3>2 DEF Work
  <2>2. 2 \notin 2..Len(toServer[u])
    BY <2>1
  <2>3. Len(toServer[u]) = 1
    <3> DEFINE n == Len(toServer[u])
    <3>1. n \in Nat /\ n > 0
      BY <1>1
    <3>2. 2 \notin 2..n
      BY <2>2
    <3> HIDE DEF n
    <3>3. n = 1
      BY <3>1, <3>2
    <3> QED
      BY <3>3 DEF n
  <2> QED
    BY <1>1, <1>3, <2>3, TailOfOne
<1> QED
  BY <1>1, <1>2, <1>3 DEF Fits, Work, Phases

\* The disconnection is the last the server hears of a user.
LEMMA DisconnectIsLast ==
  ASSUME IInv, NEW u \in Users, Request(u, "DISCONNECT")
  PROVE  phase[u] = "gone" /\ Tail(toServer[u]) = <<>> /\ toClient[u] = <<>>
<1>1. /\ toServer[u] \in Seq(Requests) /\ Len(toServer[u]) > 0
      /\ toServer[u][1].type = "DISCONNECT" /\ phase[u] \in Phases
  BY DEF IInv, TypeOK, ConnectionTypeOK, ClientTypeOK, Request
<1>2. InOrder(u) /\ Fits(u)
  BY DEF IInv, Conversation
<1>3. Len(toServer[u]) = 1
  <2>1. 1 \in 1..Len(toServer[u])
    BY <1>1
  <2> QED
    BY <1>1, <1>2, <2>1, Zenon DEF InOrder
<1>4. Tail(toServer[u]) = <<>>
  BY <1>1, <1>3, TailOfOne
<1>5. phase[u] = "gone"
  BY <1>1, <1>2 DEF Fits, Work, Phases
<1> QED
  BY <1>2, <1>4, <1>5 DEF Fits

LEMMA ConversationUser ==
  ASSUME IInv, NEW u \in Users, UserAction(u)
  PROVE  Conversation'
<1>1. CASE SendOpen(u)
  <2>1. ASSUME NEW v \in Users PROVE InOrder(v)'
    BY <1>1, UsersAssumption DEF IInv, Conversation, InOrder, Fits, Work,
       SendOpen, Send, Payload, fileVars, threadVars, clientVars, netVars,
       historyVars
  <2>2. ASSUME NEW v \in Users PROVE Fits(v)'
    BY <1>1, UsersAssumption DEF IInv, Conversation, Fits, TypeOK,
       ClientTypeOK, SendOpen, Send, Payload, fileVars, threadVars,
       clientVars, netVars, historyVars
  <2>3. ASSUME NEW v \in Users PROVE Answers(v)'
    BY <1>1, UsersAssumption DEF IInv, Conversation, Fits, Answers,
       SendOpen, Send, Payload, fileVars, threadVars, clientVars, netVars,
       historyVars
  <2>4. MainFits'
    BY <1>1, UsersAssumption DEF IInv, Conversation, MainFits, SendOpen,
       Send, Payload, fileVars, threadVars, clientVars, netVars, historyVars
  <2> QED
    BY <2>1, <2>2, <2>3, <2>4 DEF Conversation
<1>2. CASE \E e \in Edits : MakeEdit(u, e)
  <2>1. ASSUME NEW v \in Users PROVE InOrder(v)'
    BY <1>2, UsersAssumption DEF IInv, Conversation, InOrder, Fits, Work,
       MakeEdit, Send, Payload, fileVars, threadVars, clientVars, netVars,
       historyVars
  <2>2. ASSUME NEW v \in Users PROVE Fits(v)'
    BY <1>2, UsersAssumption DEF IInv, Conversation, InOrder, Fits, Work,
       MakeEdit, Send, Payload, fileVars, threadVars, clientVars, netVars,
       historyVars
  <2>3. ASSUME NEW v \in Users PROVE Answers(v)'
    BY <1>2, UsersAssumption DEF IInv, Conversation, MainFits, InOrder,
       Fits, Answers, MakeEdit, Send, Payload, fileVars, threadVars,
       clientVars, netVars, historyVars
  <2>4. MainFits'
    BY <1>2, UsersAssumption DEF IInv, Conversation, MainFits, MakeEdit,
       Send, Payload, fileVars, threadVars, clientVars, netVars, historyVars
  <2> QED
    BY <2>1, <2>2, <2>3, <2>4 DEF Conversation
<1>3. CASE \E m \in Chats : Say(u, m)
  <2>1. ASSUME NEW v \in Users PROVE InOrder(v)'
    BY <1>3, UsersAssumption DEF IInv, Conversation, InOrder, Fits, Work,
       Say, Send, Payload, fileVars, threadVars, clientVars, netVars,
       historyVars
  <2>2. ASSUME NEW v \in Users PROVE Fits(v)'
    BY <1>3, UsersAssumption DEF IInv, Conversation, Fits, Work, Say, Send,
       Payload, fileVars, threadVars, clientVars, netVars, historyVars
  <2>3. ASSUME NEW v \in Users PROVE Answers(v)'
    BY <1>3, UsersAssumption DEF IInv, Conversation, MainFits, InOrder,
       Fits, Answers, Say, Send, Payload, fileVars, threadVars, clientVars,
       netVars, historyVars
  <2>4. MainFits'
    BY <1>3, UsersAssumption DEF IInv, Conversation, MainFits, Say, Send,
       Payload, fileVars, threadVars, clientVars, netVars, historyVars
  <2> QED
    BY <2>1, <2>2, <2>3, <2>4 DEF Conversation
<1>4. CASE IllegalEdit(u)
  <2>1. ASSUME NEW v \in Users PROVE InOrder(v)'
    BY <1>4, UsersAssumption DEF IInv, Conversation, InOrder, IllegalEdit,
       fileVars, threadVars, clientVars, netVars, historyVars
  <2>2. ASSUME NEW v \in Users PROVE Fits(v)'
    BY <1>4, UsersAssumption DEF IInv, Conversation, Fits, IllegalEdit,
       fileVars, threadVars, clientVars, netVars, historyVars
  <2>3. ASSUME NEW v \in Users PROVE Answers(v)'
    BY <1>4, UsersAssumption DEF IInv, Conversation, Fits, Answers,
       IllegalEdit, fileVars, threadVars, clientVars, netVars, historyVars
  <2>4. MainFits'
    BY <1>4, UsersAssumption DEF IInv, Conversation, MainFits, IllegalEdit,
       fileVars, threadVars, clientVars, netVars, historyVars
  <2> QED
    BY <2>1, <2>2, <2>3, <2>4 DEF Conversation
<1>5. CASE AskReload(u)
  <2>1. ASSUME NEW v \in Users PROVE InOrder(v)'
    BY <1>5, UsersAssumption DEF IInv, Conversation, InOrder, Fits, Work,
       AskReload, Send, Payload, fileVars, threadVars, clientVars, netVars,
       historyVars
  <2>2. ASSUME NEW v \in Users PROVE Fits(v)'
    BY <1>5, UsersAssumption DEF IInv, Conversation, Fits, Work, AskReload,
       Send, Payload, fileVars, threadVars, clientVars, netVars, historyVars
  <2>3. ASSUME NEW v \in Users PROVE Answers(v)'
    BY <1>5, UsersAssumption DEF IInv, Conversation, MainFits, InOrder,
       Fits, Answers, AskReload, Send, Payload, fileVars, threadVars,
       clientVars, netVars, historyVars
  <2>4. MainFits'
    BY <1>5, UsersAssumption DEF IInv, Conversation, MainFits, AskReload,
       Send, Payload, fileVars, threadVars, clientVars, netVars, historyVars
  <2> QED
    BY <2>1, <2>2, <2>3, <2>4 DEF Conversation
<1>6. CASE SendQuit(u)
  <2>1. ASSUME NEW v \in Users PROVE InOrder(v)'
    BY <1>6, UsersAssumption DEF IInv, Conversation, InOrder, Fits, Work,
       SendQuit, Send, Payload, fileVars, threadVars, clientVars, netVars,
       historyVars
  <2>2. ASSUME NEW v \in Users PROVE Fits(v)'
    BY <1>6, UsersAssumption DEF IInv, Conversation, Fits, Answers, TypeOK,
       ConnectionTypeOK, ClientTypeOK, SendQuit, Send, Payload, fileVars,
       threadVars, clientVars, netVars, historyVars
  <2>3. ASSUME NEW v \in Users PROVE Answers(v)'
    BY <1>6, UsersAssumption DEF IInv, Conversation, MainFits, InOrder,
       Fits, Answers, Work, SendQuit, Send, Payload, fileVars, threadVars,
       clientVars, netVars, historyVars
  <2>4. MainFits'
    BY <1>6, UsersAssumption DEF IInv, Conversation, MainFits, SendQuit,
       Send, Payload, fileVars, threadVars, clientVars, netVars, historyVars
  <2> QED
    BY <2>1, <2>2, <2>3, <2>4 DEF Conversation
<1>7. CASE Break(u)
  <2>1. ASSUME NEW v \in Users PROVE InOrder(v)'
    <3>1. InOrder(v) /\ participants' = participants
      BY <1>7 DEF IInv, Conversation, Break, fileVars
    <3>2. CASE v # u
      BY <1>7, <3>1, <3>2 DEF InOrder, IInv, TypeOK, ConnectionTypeOK, Break
    <3>3. CASE v = u
      <4> DEFINE s == toServer[u]
                 e == Payload("DISCONNECT", {})
      <4>1. PICK k \in 0..Len(s) : toServer'[u] = Append(SubSeq(s, 1, k), e)
        BY <1>7 DEF IInv, TypeOK, ConnectionTypeOK, Break
      <4>2. s \in Seq(Requests) /\ e.type = "DISCONNECT"
        BY DEF IInv, TypeOK, ConnectionTypeOK, Payload
      <4> HIDE DEF e
      <4>3. /\ Len(toServer'[u]) = k + 1 /\ toServer'[u][k + 1] = e
            /\ \A i \in 1..k : toServer'[u][i] = s[i]
        BY <4>1, <4>2
      <4>4. k \in Nat /\ k <= Len(s)
        BY <4>1, <4>2
      <4>5. \A i \in 1..Len(s) : s[i].type # "DISCONNECT"
        <5>1. Fits(u) /\ phase[u] \in {"opening", "open", "illegal", "quitting"}
          BY <1>7 DEF IInv, Conversation, Break
        <5>2. s # <<>> => Len(s) > 0
          BY <4>2, EmptySeq
        <5>3. s = <<>> => Len(s) = 0
          OBVIOUS
        <5> QED
          BY <4>2, <5>1, <5>2, <5>3 DEF Fits, Work
      <4> DEFINE t == toServer'[u]
      <4>6. \A i \in 1..(k + 1) :
              \/ i \in 1..k /\ i \in 1..Len(s) /\ t[i] = s[i]
              \/ i = k + 1 /\ t[i].type = "DISCONNECT"
        BY <4>2, <4>3, <4>4
      <4>7. Len(t) = k + 1 /\ k \in Nat /\ k <= Len(s) /\ Len(s) \in Nat
        BY <4>2, <4>3, <4>4
      <4>8. \A i \in 1..Len(s) :
              /\ s[i].type \in Work =>
                   u \in participants /\ \A j \in 1..(i - 1) : s[j].type \in Work
              /\ s[i].type = "OPEN" => i = 1 /\ u \notin participants
              /\ s[i].type \in {"OPEN", "QUIT"} => i = Len(s)
        <5>1. \A i \in 1..Len(s) : s[i].type \in {"OPEN", "QUIT"} => i = Len(s)
          BY <3>1, <3>3, <4>5, <4>7 DEF InOrder
        <5> QED
          BY <3>1, <3>3, <5>1 DEF InOrder
      <4> HIDE DEF s, t
      <4>9. ASSUME NEW i \in 1..(k + 1)
            PROVE  /\ t[i].type \in Work =>
                        u \in participants /\ \A j \in 1..(i - 1) : t[j].type \in Work
                   /\ t[i].type = "OPEN" => i = 1 /\ u \notin participants
                   /\ t[i].type \in {"OPEN", "QUIT"} =>
                        \A j \in (i + 1)..(k + 1) : t[j].type = "DISCONNECT"
                   /\ t[i].type = "DISCONNECT" => i = k + 1
        <5>1. CASE i = k + 1
          BY <4>6, <4>7, <5>1 DEF Work
        <5>2. CASE i \in 1..k
          <6>1. i \in 1..Len(s) /\ t[i] = s[i] /\ i # k + 1
            BY <4>6, <4>7, <5>2
          <6>2. \A j \in 1..(i - 1) : j \in 1..(k + 1) /\ j # k + 1 /\ t[j] = s[j]
            BY <4>6, <4>7, <5>2
          <6>3. i = Len(s) => \A j \in (i + 1)..(k + 1) : j = k + 1
            BY <4>7, <5>2
          <6> QED
            BY <4>5, <4>6, <4>7, <4>8, <6>1, <6>2, <6>3
        <5> QED
          BY <4>7, <5>1, <5>2
      <4> QED
        BY <3>1, <3>3, <4>7, <4>9 DEF InOrder, t
    <3> QED
      BY <3>2, <3>3
  <2>2. ASSUME NEW v \in Users PROVE Fits(v)'
    BY <1>7, UsersAssumption DEF IInv, Conversation, Fits, TypeOK,
       ConnectionTypeOK, ClientTypeOK, Break, fileVars, threadVars,
       clientVars, netVars, historyVars
  <2>3. ASSUME NEW v \in Users PROVE Answers(v)'
    BY <1>7, UsersAssumption DEF IInv, Conversation, Answers, TypeOK,
       ConnectionTypeOK, ClientTypeOK, Break, fileVars, threadVars,
       clientVars, netVars, historyVars
  <2>4. MainFits'
    BY <1>7, UsersAssumption DEF IInv, Conversation, MainFits, TypeOK,
       ClientTypeOK, Break, fileVars, threadVars, clientVars, netVars,
       historyVars
  <2> QED
    BY <2>1, <2>2, <2>3, <2>4 DEF Conversation
<1> QED
  BY <1>1, <1>2, <1>3, <1>4, <1>5, <1>6, <1>7 DEF UserAction

LEMMA ConversationReceive ==
  ASSUME IInv, NEW u \in Users, Receive(u)
  PROVE  Conversation'
<1>1. CASE ReceiveOpen(u)
  <2>1. ASSUME NEW v \in Users PROVE InOrder(v)'
    BY <1>1, UsersAssumption DEF IInv, Conversation, InOrder, ReceiveOpen,
       Took, fileVars, threadVars, clientVars, netVars, historyVars
  <2>2. ASSUME NEW v \in Users PROVE Fits(v)'
    BY <1>1, UsersAssumption DEF IInv, Conversation, Fits, ReceiveOpen,
       Took, fileVars, threadVars, clientVars, netVars, historyVars
  <2>3. ASSUME NEW v \in Users PROVE Answers(v)'
    BY <1>1, UsersAssumption DEF IInv, Conversation, Answers, ReceiveOpen,
       Took, fileVars, threadVars, clientVars, netVars, historyVars
  <2>4. MainFits'
    BY <1>1, UsersAssumption DEF IInv, Conversation, MainFits, ReceiveOpen,
       Took, fileVars, threadVars, clientVars, netVars, historyVars
  <2> QED
    BY <2>1, <2>2, <2>3, <2>4 DEF Conversation
<1>2. CASE ReceiveReject(u)
  <2>1. ASSUME NEW v \in Users PROVE InOrder(v)'
    BY <1>2, UsersAssumption DEF IInv, Conversation, InOrder, Answers, Work,
       ReceiveReject, Response, Took, Send, Payload, fileVars, threadVars,
       clientVars, netVars, historyVars
  <2>2. ASSUME NEW v \in Users PROVE Fits(v)'
    BY <1>2, UsersAssumption DEF IInv, Conversation, MainFits, Fits,
       Answers, TypeOK, ClientTypeOK, ReceiveReject, Response, Took, Send,
       Payload, fileVars, threadVars, clientVars, netVars, historyVars
  <2>3. ASSUME NEW v \in Users PROVE Answers(v)'
    BY <1>2, UsersAssumption DEF IInv, Conversation, MainFits, Fits,
       Answers, TypeOK, ConnectionTypeOK, ThreadTypeOK, ReceiveReject,
       Response, Took, Send, Payload, fileVars, threadVars, clientVars,
       netVars, historyVars
  <2>4. MainFits'
    BY <1>2, UsersAssumption DEF IInv, Conversation, MainFits, Answers,
       ReceiveReject, Response, Took, Send, Payload, fileVars, threadVars,
       clientVars, netVars, historyVars
  <2> QED
    BY <2>1, <2>2, <2>3, <2>4 DEF Conversation
<1>3. CASE ReceiveLoad(u)
  <2>1. ASSUME NEW v \in Users PROVE InOrder(v)'
    BY <1>3, UsersAssumption DEF IInv, Conversation, MainFits, InOrder,
       Work, ReceiveLoad, Took, fileVars, threadVars, clientVars, netVars,
       historyVars
  <2>2. ASSUME NEW v \in Users PROVE Fits(v)'
    BY <1>3, UsersAssumption DEF IInv, Conversation, Fits, Answers,
       ReceiveLoad, Response, Took, fileVars, threadVars, clientVars,
       netVars, historyVars
  <2>3. ASSUME NEW v \in Users PROVE Answers(v)'
    BY <1>3, UsersAssumption DEF IInv, Conversation, MainFits, Fits,
       Answers, Work, ReceiveLoad, Response, Took, fileVars, threadVars,
       clientVars, netVars, historyVars
  <2>4. MainFits'
    BY <1>3, UsersAssumption DEF IInv, Conversation, MainFits, ReceiveLoad,
       Took, fileVars, threadVars, clientVars, netVars, historyVars
  <2> QED
    BY <2>1, <2>2, <2>3, <2>4 DEF Conversation
<1>4. CASE ReceiveEdit(u)
  <2>1. ASSUME NEW v \in Users PROVE InOrder(v)'
    BY <1>4, UsersAssumption DEF IInv, Conversation, InOrder, ReceiveEdit,
       Took, fileVars, threadVars, clientVars, netVars, historyVars
  <2>2. ASSUME NEW v \in Users PROVE Fits(v)'
    BY <1>4, UsersAssumption DEF IInv, Conversation, Fits, ReceiveEdit,
       Took, fileVars, threadVars, clientVars, netVars, historyVars
  <2>3. ASSUME NEW v \in Users PROVE Answers(v)'
    BY <1>4, UsersAssumption DEF IInv, Conversation, Answers, ReceiveEdit,
       Took, fileVars, threadVars, clientVars, netVars, historyVars
  <2>4. MainFits'
    BY <1>4, UsersAssumption DEF IInv, Conversation, MainFits, ReceiveEdit,
       Took, fileVars, threadVars, clientVars, netVars, historyVars
  <2> QED
    BY <2>1, <2>2, <2>3, <2>4 DEF Conversation
<1>5. CASE ReceiveChat(u)
  <2>1. ASSUME NEW v \in Users PROVE InOrder(v)'
    BY <1>5, UsersAssumption DEF IInv, Conversation, MainFits, InOrder,
       Fits, Answers, Work, ReceiveChat, Took, fileVars, threadVars,
       clientVars, netVars, historyVars
  <2>2. ASSUME NEW v \in Users PROVE Fits(v)'
    BY <1>5, UsersAssumption DEF IInv, Conversation, Fits, ReceiveChat,
       Took, fileVars, threadVars, clientVars, netVars, historyVars
  <2>3. ASSUME NEW v \in Users PROVE Answers(v)'
    BY <1>5, UsersAssumption DEF IInv, Conversation, MainFits, InOrder,
       Fits, Answers, Work, ReceiveChat, Took, fileVars, threadVars,
       clientVars, netVars, historyVars
  <2>4. MainFits'
    BY <1>5, UsersAssumption DEF IInv, Conversation, MainFits, ReceiveChat,
       Took, fileVars, threadVars, clientVars, netVars, historyVars
  <2> QED
    BY <2>1, <2>2, <2>3, <2>4 DEF Conversation
<1>6. CASE ReceivePresence(u)
  <2>1. ASSUME NEW v \in Users PROVE InOrder(v)'
    BY <1>6, UsersAssumption DEF IInv, Conversation, InOrder, Answers, Work,
       ReceivePresence, Response, Took, fileVars, threadVars, clientVars,
       netVars, historyVars
  <2>2. ASSUME NEW v \in Users PROVE Fits(v)'
    BY <1>6, UsersAssumption DEF IInv, Conversation, Fits, ReceivePresence,
       Took, fileVars, threadVars, clientVars, netVars, historyVars
  <2>3. ASSUME NEW v \in Users PROVE Answers(v)'
    BY <1>6, UsersAssumption DEF IInv, Conversation, Answers,
       ReceivePresence, Took, fileVars, threadVars, clientVars, netVars,
       historyVars
  <2>4. MainFits'
    BY <1>6, UsersAssumption DEF IInv, Conversation, MainFits,
       ReceivePresence, Took, fileVars, threadVars, clientVars, netVars,
       historyVars
  <2> QED
    BY <2>1, <2>2, <2>3, <2>4 DEF Conversation
<1>7. CASE ReceiveQuit(u)
  <2>1. ASSUME NEW v \in Users PROVE InOrder(v)'
    BY <1>7, UsersAssumption DEF IInv, Conversation, InOrder, ReceiveQuit,
       Took, fileVars, threadVars, clientVars, netVars, historyVars
  <2>2. ASSUME NEW v \in Users PROVE Fits(v)'
    BY <1>7, UsersAssumption DEF IInv, Conversation, Fits, Answers, TypeOK,
       ConnectionTypeOK, ReceiveQuit, Response, Took, fileVars, threadVars,
       clientVars, netVars, historyVars
  <2>3. ASSUME NEW v \in Users PROVE Answers(v)'
    BY <1>7, UsersAssumption DEF IInv, Conversation, InOrder, Fits, Answers,
       TypeOK, ConnectionTypeOK, ReceiveQuit, Response, Took, fileVars,
       threadVars, clientVars, netVars, historyVars
  <2>4. MainFits'
    BY <1>7, UsersAssumption DEF IInv, Conversation, MainFits, Answers,
       ReceiveQuit, Response, Took, fileVars, threadVars, clientVars,
       netVars, historyVars
  <2> QED
    BY <2>1, <2>2, <2>3, <2>4 DEF Conversation
<1> QED
  BY <1>1, <1>2, <1>3, <1>4, <1>5, <1>6, <1>7 DEF Receive

\* Between two requests the main thread is busy with nobody.
LEMMA NobodyBusy ==
  ASSUME IInv, MainIdle
  PROVE  main = Idle /\ \A v \in Users : main.user # v
BY UsersAssumption DEF IInv, TypeOK, ThreadTypeOK, Tasks, MainIdle, Idle

\* What is sent to who joins contains no QUIT and no REJECT.
LEMMA JoinAnswer ==
  ASSUME TypeOK, NEW u \in Users, Join(u), toClient[u] = <<>>
  PROVE  /\ toClient'[u] \in Seq(Responses)
         /\ \A i \in 1..Len(toClient'[u]) : toClient'[u][i].type \notin {"QUIT", "REJECT"}
<1> DEFINE chats == [i \in 1..Len(chatMessages) |-> Payload("CHAT", {chatMessages[i]})]
           last  == <<Payload("SET", participants \cup {u}), Payload("LOAD", crdt)>>
           Other == {m \in Responses : m.type \notin {"QUIT", "REJECT"}}
<1>1. <<Payload("OPEN", {})>> \in Seq(Other)
  BY DEF Payload, Responses
<1>2. chats \in Seq(Other)
  <2>1. \A i \in 1..Len(chatMessages) : Payload("CHAT", {chatMessages[i]}) \in Other
    BY DEF TypeOK, FileTypeOK, Payload, Responses
  <2> HIDE DEF Other
  <2> QED
    BY <2>1 DEF TypeOK, FileTypeOK
<1>3. last \in Seq(Other)
  BY DEF TypeOK, FileTypeOK, Payload, Responses
<1> DEFINE answer == <<Payload("OPEN", {})>> \o chats \o last
<1>4. answer \in Seq(Other)
  <2> HIDE DEF chats, last, Other
  <2> QED
    BY <1>1, <1>2, <1>3
<1>5. toClient'[u] = answer \/ toClient'[u] = <<>>
  <2>1. SendTo(u, answer)
    BY DEF Join
  <2>2. <<>> \o answer = answer
    <3> HIDE DEF answer, Other
    <3> QED
      BY <1>4, ConcatEmptySeq
  <2> HIDE DEF answer
  <2> QED
    BY <2>1, <2>2 DEF SendTo, Deliver, TypeOK, ConnectionTypeOK
<1>6. toClient'[u] \in Seq(Other)
  <2> HIDE DEF answer, Other
  <2> QED
    BY <1>4, <1>5, EmptySeq
<1>7. Other \subseteq Responses /\ \A m \in Other : m.type \notin {"QUIT", "REJECT"}
  OBVIOUS
<1> QED
  <2> HIDE DEF Other
  <2> QED
    BY <1>6, <1>7

LEMMA LeaveConversation ==
  ASSUME IInv, NEW u \in Users, NEW type \in {"QUIT", "DISCONNECT"}, Leave(u, type)
  PROVE  Conversation'
<1>1. ASSUME NEW v \in Users, v # u PROVE InOrder(v)' /\ Fits(v)' /\ Answers(v)'
  BY <1>1, OthersKeep, NobodyBusy, UsersAssumption DEF IInv, Conversation,
     Leave, Pop, clientVars, netVars, historyVars
<1>2. InOrder(u)'
  BY DEF InOrder, Work, IInv, Conversation, Leave, Request, Pop, fileVars,
     threadVars, clientVars, netVars, historyVars
<1>3. Fits(u)'
  BY QuitIsLast, DisconnectIsLast DEF Fits, IInv, Conversation, Leave, Pop,
     threadVars, clientVars, netVars, historyVars
<1>4. Answers(u)'
  BY QuitIsLast, DisconnectIsLast DEF Answers, IInv, Conversation, Leave,
     threadVars, clientVars, netVars, historyVars
<1>5. MainFits'
  BY QuitIsLast, DisconnectIsLast DEF IInv, MainFits, TypeOK,
     ConnectionTypeOK, Leave, Pop, clientVars, netVars, historyVars
<1> QED
  BY <1>1, <1>2, <1>3, <1>4, <1>5 DEF Conversation

LEMMA LeaveNothingQuit ==
  ASSUME IInv, NEW u \in Users, LeaveNothing(u, "QUIT")
  PROVE  Conversation'
<1>1. ASSUME NEW v \in Users, v # u PROVE InOrder(v)' /\ Fits(v)' /\ Answers(v)'
  BY <1>1, OthersKeep, NobodyBusy, UsersAssumption DEF IInv, Conversation,
     TypeOK, ConnectionTypeOK, LeaveNothing, Request, Pop, SendTo, Connected,
     Payload, Finish, fileVars, threadVars, clientVars, netVars, historyVars
<1>2. InOrder(u)'
  BY DEF InOrder, IInv, Conversation, LeaveNothing, Pop, SendTo, Deliver,
     Connected, Payload, Finish, fileVars, threadVars, clientVars, netVars,
     historyVars
<1>3. Fits(u)'
  BY QuitIsLast, UsersAssumption DEF Fits, IInv, Conversation, TypeOK,
     ConnectionTypeOK, LeaveNothing, Pop, SendTo, Deliver, Connected, Payload,
     Finish, fileVars, threadVars, clientVars, netVars, historyVars
<1>4. Answers(u)'
  <2>1. CASE phase[u] = "gone" /\ toClient[u] = <<>>
    BY <2>1 DEF Answers, LeaveNothing, SendTo, Deliver, Connected, IInv,
       TypeOK, ConnectionTypeOK
  <2>2. CASE phase[u] = "quitting" /\ Tail(toServer[u]) = <<>>
    <3> DEFINE m == Payload("QUIT", {})
    <3>1. \A i \in 1..Len(toClient[u]) : toClient[u][i].type \notin {"QUIT", "REJECT"}
      BY DEF IInv, Conversation, Answers, LeaveNothing, Request
    <3>2. /\ toClient[u] \in Seq(Responses) /\ m \in Responses
          /\ toClient'[u] = toClient[u] \o <<m>>
      BY <2>2 DEF LeaveNothing, SendTo, Deliver, Connected, IInv, TypeOK,
         ConnectionTypeOK, Payload, Responses
    <3>3. /\ Len(toClient'[u]) = Len(toClient[u]) + 1
          /\ \A i \in 1..Len(toClient[u]) : toClient'[u][i] = toClient[u][i]
          /\ toClient'[u][Len(toClient[u]) + 1].type = "QUIT"
      BY <3>2 DEF Payload
    <3>4. /\ toServer'[u] = <<>> /\ u \notin participants' /\ main'.user # u
          /\ phase'[u] = "quitting"
      BY <2>2, NobodyBusy DEF LeaveNothing, Request, Pop, IInv, TypeOK,
         ConnectionTypeOK, Finish, fileVars, threadVars
    <3>5. \A i \in 1..Len(toClient'[u]) : i \in 1..Len(toClient[u]) \/ i = Len(toClient[u]) + 1
      BY <3>2, <3>3
    <3> QED
      BY <3>1, <3>3, <3>4, <3>5 DEF Answers
  <2> QED
    BY <2>1, <2>2, QuitIsLast DEF LeaveNothing
<1>5. MainFits'
  BY UsersAssumption DEF MainFits, LeaveNothing, Request, MainIdle, Connected,
     Payload, Finish, fileVars, threadVars, clientVars, netVars, historyVars
<1> QED
  BY <1>1, <1>2, <1>3, <1>4, <1>5 DEF Conversation

LEMMA LeaveNothingDisconnect ==
  ASSUME IInv, NEW u \in Users, LeaveNothing(u, "DISCONNECT")
  PROVE  Conversation'
<1>1. ASSUME NEW v \in Users, v # u PROVE InOrder(v)' /\ Fits(v)' /\ Answers(v)'
  BY <1>1, OthersKeep, NobodyBusy, UsersAssumption DEF IInv, Conversation,
     LeaveNothing, Request, Pop, Finish, fileVars, threadVars, clientVars,
     netVars, historyVars
<1>2. InOrder(u)'
  BY DisconnectIsLast DEF InOrder, IInv, Conversation, LeaveNothing, Pop,
     fileVars, threadVars, clientVars, netVars, historyVars
<1>3. Fits(u)'
  BY DisconnectIsLast, NobodyBusy DEF Fits, IInv, TypeOK, ConnectionTypeOK,
     LeaveNothing, Request, Pop, Finish, fileVars, threadVars, clientVars,
     netVars, historyVars
<1>4. Answers(u)'
  BY DisconnectIsLast DEF Answers, LeaveNothing, fileVars, threadVars,
     clientVars, netVars, historyVars
<1>5. MainFits'
  BY UsersAssumption DEF MainFits, LeaveNothing, Request, MainIdle,
     threadVars, clientVars, netVars, historyVars
<1> QED
  BY <1>1, <1>2, <1>3, <1>4, <1>5 DEF Conversation

LEMMA ConversationHandle ==
  ASSUME IInv, NEW u \in Users, Handle(u)
  PROVE  Conversation'
<1>1. CASE RejectOpen(u)
  <2>1. ASSUME NEW v \in Users, v # u PROVE InOrder(v)' /\ Fits(v)' /\ Answers(v)'
    BY <1>1, <2>1, OthersKeep, NobodyBusy, UsersAssumption DEF IInv,
       Conversation, RejectOpen, Request, Pop, SendTo, Connected, Payload,
       fileVars, threadVars, clientVars, netVars, historyVars
  <2>2. InOrder(u)'
    BY <1>1 DEF InOrder, IInv, Conversation, TypeOK, ConnectionTypeOK,
       RejectOpen, Request, Pop, SendTo, Deliver, Connected, Payload,
       fileVars, threadVars, clientVars, netVars, historyVars
  <2>3. Fits(u)'
    BY <1>1, OpenIsFirst, NobodyBusy DEF Fits, IInv, TypeOK,
       ConnectionTypeOK, RejectOpen, Pop, SendTo, Deliver, Connected,
       Payload, fileVars, threadVars, clientVars, netVars, historyVars
  <2>4. Answers(u)'
    BY <1>1, OpenIsFirst, NobodyBusy DEF Answers, IInv, TypeOK,
       ConnectionTypeOK, RejectOpen, Request, Pop, SendTo, Deliver,
       Connected, Payload, fileVars, threadVars, clientVars, netVars,
       historyVars
  <2>5. MainFits'
    BY <1>1, UsersAssumption DEF MainFits, RejectOpen, Request, MainIdle,
       Connected, Payload, fileVars, threadVars, clientVars, netVars,
       historyVars
  <2> QED
    BY <2>1, <2>2, <2>3, <2>4, <2>5 DEF Conversation
<1>2. CASE Join(u)
  <2>1. ASSUME NEW v \in Users, v # u PROVE InOrder(v)' /\ Fits(v)' /\ Answers(v)'
    BY <1>2, <2>1, OthersKeep, NobodyBusy, UsersAssumption DEF SendTo, IInv,
       Conversation, TypeOK, ConnectionTypeOK, Join, Pop, threadVars,
       clientVars, netVars, historyVars
  <2>2. InOrder(u)'
    <3>1. toServer[u] \in Seq(Requests) /\ InOrder(u)
      BY DEF IInv, Conversation, TypeOK, ConnectionTypeOK
    <3>2. /\ toServer[u] # <<>> /\ toServer[u][1].type = "OPEN"
          /\ toServer'[u] = Tail(toServer[u])
      BY <1>2, <3>1 DEF IInv, TypeOK, ConnectionTypeOK, Join, Request, Pop
    <3> QED
      BY <3>1, <3>2, TailInOrder
  <2>3. Fits(u)'
    BY <1>2, OpenIsFirst, NobodyBusy DEF Fits, SendTo, Deliver, Connected,
       IInv, TypeOK, ConnectionTypeOK, Join, Pop, MainIdle, Idle, fileVars,
       threadVars, clientVars, netVars, historyVars
  <2>4. Answers(u)'
    BY <1>2, OpenIsFirst, JoinAnswer, UsersAssumption DEF Answers, IInv,
       Join, threadVars, clientVars, netVars, historyVars
  <2>5. MainFits'
    BY <1>2, UsersAssumption DEF MainFits, Join, clientVars, netVars,
       historyVars
  <2> QED
    BY <2>1, <2>2, <2>3, <2>4, <2>5 DEF Conversation
<1>3. CASE Redirect(u)
  <2>1. ASSUME NEW v \in Users, v # u PROVE InOrder(v)' /\ Fits(v)' /\ Answers(v)'
    BY <1>3, <2>1, OthersKeep, NobodyBusy, UsersAssumption DEF IInv,
       Conversation, Redirect, Request, Pop, fileVars, threadVars,
       clientVars, netVars, historyVars
  <2>2. InOrder(u)'
    BY <1>3 DEF InOrder, IInv, Conversation, Redirect, Request, Pop,
       fileVars, threadVars, clientVars, netVars, historyVars
  <2>3. Fits(u)'
    BY <1>3, OpenIsFirst, NobodyBusy DEF Fits, IInv, TypeOK,
       ConnectionTypeOK, Redirect, Request, Pop, fileVars, threadVars,
       clientVars, netVars, historyVars
  <2>4. Answers(u)'
    BY <1>3, OpenIsFirst, NobodyBusy DEF Answers, Redirect, threadVars,
       clientVars, netVars, historyVars
  <2>5. MainFits'
    BY <1>3, UsersAssumption DEF MainFits, Redirect, Request, MainIdle,
       threadVars, clientVars, netVars, historyVars
  <2> QED
    BY <2>1, <2>2, <2>3, <2>4, <2>5 DEF Conversation
<1>4. CASE HandleEdit(u)
  <2>1. ASSUME NEW v \in Users PROVE InOrder(v)'
    BY <1>4, UsersAssumption DEF IInv, Conversation, InOrder, Fits, Answers,
       HandleEdit, Request, Pop, MainIdle, Idle, fileVars, threadVars,
       clientVars, netVars, historyVars
  <2>2. ASSUME NEW v \in Users PROVE Fits(v)'
    BY <1>4, UsersAssumption DEF IInv, Conversation, MainFits, InOrder,
       Fits, HandleEdit, Pop, MainIdle, Idle, fileVars, threadVars,
       clientVars, netVars, historyVars
  <2>3. ASSUME NEW v \in Users PROVE Answers(v)'
    BY <1>4, UsersAssumption DEF IInv, Conversation, MainFits, Answers,
       HandleEdit, Pop, MainIdle, Idle, fileVars, threadVars, clientVars,
       netVars, historyVars
  <2>4. MainFits'
    BY <1>4, UsersAssumption DEF MainFits, HandleEdit, Request, Pop,
       MainIdle, Idle, fileVars, threadVars, clientVars, netVars,
       historyVars
  <2> QED
    BY <2>1, <2>2, <2>3, <2>4 DEF Conversation
<1>5. CASE HandleChat(u)
  <2>1. ASSUME NEW v \in Users PROVE InOrder(v)'
    BY <1>5, UsersAssumption DEF IInv, Conversation, InOrder, Answers, Work,
       HandleChat, Pop, MainIdle, Idle, fileVars, threadVars, clientVars,
       netVars, historyVars
  <2>2. ASSUME NEW v \in Users PROVE Fits(v)'
    BY <1>5, UsersAssumption DEF IInv, Conversation, Fits, HandleChat, Pop,
       MainIdle, Idle, fileVars, threadVars, clientVars, netVars,
       historyVars
  <2>3. ASSUME NEW v \in Users PROVE Answers(v)'
    BY <1>5, UsersAssumption DEF IInv, Conversation, MainFits, InOrder,
       Fits, Answers, HandleChat, Pop, MainIdle, Idle, fileVars, threadVars,
       clientVars, netVars, historyVars
  <2>4. MainFits'
    BY <1>5, UsersAssumption DEF MainFits, HandleChat, Request, Pop,
       MainIdle, Idle, fileVars, threadVars, clientVars, netVars,
       historyVars
  <2> QED
    BY <2>1, <2>2, <2>3, <2>4 DEF Conversation
<1>6. CASE ReadText(u)
  <2>1. ASSUME NEW v \in Users PROVE InOrder(v)'
    <3>1. toServer[v] \in Seq(Requests) /\ InOrder(v) /\ participants' = participants
      BY <1>6 DEF IInv, Conversation, TypeOK, ConnectionTypeOK, ReadText, fileVars
    <3>2. CASE v # u
      BY <1>6, <3>1, <3>2 DEF IInv, TypeOK, ConnectionTypeOK, InOrder, ReadText, Pop
    <3>3. CASE v = u
      <4>1. toServer[v] # <<>> /\ toServer'[v] = Tail(toServer[v])
        BY <1>6, <3>3 DEF IInv, TypeOK, ConnectionTypeOK, ReadText, Request, Pop
      <4> QED
        BY <3>1, <4>1, TailInOrder
    <3> QED
      BY <3>2, <3>3
  <2>2. ASSUME NEW v \in Users PROVE Fits(v)'
    BY <1>6, UsersAssumption DEF IInv, Conversation, Fits, Answers,
       ReadText, Request, Pop, MainIdle, Idle, fileVars, threadVars,
       clientVars, netVars, historyVars
  <2>3. ASSUME NEW v \in Users PROVE Answers(v)'
    BY <1>6, UsersAssumption DEF IInv, Conversation, MainFits, InOrder,
       Fits, Answers, Work, ReadText, Request, Pop, MainIdle, Idle,
       fileVars, threadVars, clientVars, netVars, historyVars
  <2>4. MainFits'
    BY <1>6, UsersAssumption DEF IInv, Conversation, MainFits, InOrder,
       Answers, Work, ReadText, Request, Pop, MainIdle, Idle, fileVars,
       threadVars, clientVars, netVars, historyVars
  <2> QED
    BY <2>1, <2>2, <2>3, <2>4 DEF Conversation
<1>7. CASE Leave(u, "QUIT")
  BY <1>7, LeaveConversation
<1>8. CASE Leave(u, "DISCONNECT")
  BY <1>8, LeaveConversation
<1>9. CASE LeaveNothing(u, "QUIT")
  BY <1>9, LeaveNothingQuit
<1>10. CASE LeaveNothing(u, "DISCONNECT")
  BY <1>10, LeaveNothingDisconnect
<1> QED
  BY <1>1, <1>2, <1>3, <1>4, <1>5, <1>6, <1>7, <1>8, <1>9, <1>10 DEF Handle
LEMMA ConversationContinue ==
  ASSUME IInv, Continue
  PROVE  Conversation'
<1>1. CASE AnnounceJoin
  <2>1. ASSUME NEW v \in Users PROVE InOrder(v)'
    BY <1>1, UsersAssumption DEF IInv, Conversation, InOrder, AnnounceJoin,
       Deliver, Connected, Payload, Idle, fileVars, threadVars, clientVars,
       netVars, historyVars
  <2>2. ASSUME NEW v \in Users PROVE Fits(v)'
    BY <1>1, UsersAssumption DEF IInv, Conversation, InOrder, Fits,
       AnnounceJoin, Relay, Deliver, Connected, Payload, Idle, fileVars,
       threadVars, clientVars, netVars, historyVars
  <2>3. ASSUME NEW v \in Users PROVE Answers(v)'
    BY <1>1, UsersAssumption DEF IInv, Conversation, Answers, AnnounceJoin,
       Relay, Deliver, Connected, Payload, Idle, fileVars, threadVars,
       clientVars, netVars, historyVars
  <2>4. MainFits'
    BY <1>1, UsersAssumption DEF MainFits, AnnounceJoin, Deliver, Connected,
       Payload, Idle, fileVars, threadVars, clientVars, netVars, historyVars
  <2> QED
    BY <2>1, <2>2, <2>3, <2>4 DEF Conversation
<1>2. CASE AnnounceLeave
  <2>1. ASSUME NEW v \in Users PROVE InOrder(v)'
    BY <1>2, UsersAssumption DEF IInv, Conversation, MainFits, InOrder,
       Fits, Answers, Work, AnnounceLeave, Connected, Payload, Idle, Finish,
       fileVars, threadVars, clientVars, netVars, historyVars
  <2>2. ASSUME NEW v \in Users PROVE Fits(v)'
    BY <1>2, UsersAssumption DEF IInv, Conversation, MainFits, InOrder,
       Fits, Answers, AnnounceLeave, Deliver, Connected, Payload, Idle,
       Finish, fileVars, threadVars, clientVars, netVars, historyVars
  <2>3. ASSUME NEW v \in Users PROVE Answers(v)'
    <3> DEFINE u == main.user
    <3>1. u \in Users /\ u \notin participants
      BY <1>2 DEF AnnounceLeave, IInv, Conversation, MainFits, TypeOK,
         ThreadTypeOK, Idle
    <3>2. CASE v # u
      <4> DEFINE m == Payload("REMOVED", {u})
      <4>1. /\ toServer'[v] = toServer[v] /\ phase'[v] = phase[v]
            /\ participants' = participants /\ main'.user # v
        BY <1>2, <3>2, UsersAssumption DEF AnnounceLeave, Finish, Idle
      <4>2. \/ toClient'[v] = toClient[v]
            \/ v \in participants /\ toClient'[v] = toClient[v] \o <<m>>
        BY <1>2, <3>2 DEF AnnounceLeave, Deliver
      <4>3. toClient[v] \in Seq(Responses) /\ m.type = "REMOVED" /\ Answers(v)
        BY DEF IInv, Conversation, TypeOK, ConnectionTypeOK, Payload
      <4> HIDE DEF m
      <4>4. CASE toClient'[v] = toClient[v]
        BY <4>1, <4>3, <4>4 DEF Answers
      <4>5. CASE v \in participants /\ toClient'[v] = toClient[v] \o <<m>>
        <5>1. \A i \in 1..Len(toClient[v]) : toClient[v][i].type \notin {"QUIT", "REJECT"}
          BY <4>3, <4>5 DEF Answers
        <5>2. \A i \in 1..Len(toClient'[v]) :
                \/ i \in 1..Len(toClient[v]) /\ toClient'[v][i] = toClient[v][i]
                \/ toClient'[v][i] = m
          <6>1. m \in {m} /\ <<m>> \in Seq({m}) /\ Len(<<m>>) = 1 /\ <<m>>[1] = m
            OBVIOUS
          <6> QED
            BY <4>3, <4>5, <6>1
        <5>3. \A i \in 1..Len(toClient'[v]) : toClient'[v][i].type \notin {"QUIT", "REJECT"}
          BY <4>3, <5>1, <5>2
        <5> QED
          BY <4>1, <4>5, <5>3 DEF Answers
      <4> QED
        BY <4>2, <4>4, <4>5
    <3>3. CASE v = u /\ main.task = "QUIT" /\ phase[u] = "quitting"
      <4> DEFINE m == Payload("QUIT", {})
      <4>1. /\ toServer'[u] = <<>> /\ phase'[u] = "quitting"
            /\ u \notin participants' /\ main'.user # u
        BY <1>2, <3>1, <3>3, UsersAssumption DEF AnnounceLeave, Finish,
           Idle, IInv, Conversation, MainFits
      <4>2. toClient'[u] = toClient[u] \o <<m>>
        BY <1>2, <3>1, <3>3 DEF AnnounceLeave, Deliver, Connected
      <4>3. \A i \in 1..Len(toClient[u]) : toClient[u][i].type \notin {"QUIT", "REJECT"}
        BY <3>1 DEF IInv, Conversation, Answers
      <4>4. toClient[u] \in Seq(Responses) /\ m.type = "QUIT"
        BY <3>1 DEF IInv, TypeOK, ConnectionTypeOK, Payload
      <4> HIDE DEF m
      <4>5. /\ Len(toClient'[u]) = Len(toClient[u]) + 1
            /\ \A i \in 1..Len(toClient[u]) : toClient'[u][i] = toClient[u][i]
            /\ toClient'[u][Len(toClient[u]) + 1] = m
        BY <4>2, <4>4
      <4>6. \A i \in 1..Len(toClient'[u]) :
              i \in 1..Len(toClient[u]) \/ i = Len(toClient[u]) + 1
        BY <4>4, <4>5
      <4> QED
        BY <3>3, <4>1, <4>3, <4>4, <4>5, <4>6 DEF Answers
    <3>4. CASE v = u /\ phase[u] = "gone"
      <4>1. toClient'[u] = <<>>
        BY <1>2, <3>1, <3>4 DEF AnnounceLeave, Deliver, Connected, IInv,
           Conversation, Fits
      <4> QED
        BY <3>4, <4>1 DEF Answers
    <3> QED
      BY <1>2, <3>2, <3>3, <3>4 DEF AnnounceLeave, IInv, Conversation, MainFits
  <2>4. MainFits'
    BY <1>2, UsersAssumption DEF MainFits, AnnounceLeave, Connected,
       Payload, Idle, Finish, fileVars, threadVars, clientVars, netVars,
       historyVars
  <2> QED
    BY <2>1, <2>2, <2>3, <2>4 DEF Conversation
<1>3. CASE SendText
  <2>1. ASSUME NEW v \in Users PROVE InOrder(v)'
    BY <1>3, UsersAssumption DEF IInv, Conversation, InOrder, SendText,
       Deliver, Connected, Payload, Idle, fileVars, threadVars, clientVars,
       netVars, historyVars
  <2>2. ASSUME NEW v \in Users PROVE Fits(v)'
    BY <1>3, UsersAssumption DEF IInv, Conversation, Fits, SendText, SendTo,
       Deliver, Connected, Payload, Idle, fileVars, threadVars, clientVars,
       netVars, historyVars
  <2>3. ASSUME NEW v \in Users PROVE Answers(v)'
    BY <1>3, UsersAssumption DEF IInv, Conversation, MainFits, InOrder,
       Fits, Answers, SendText, SendTo, Deliver, Connected, Payload, Idle,
       fileVars, threadVars, clientVars, netVars, historyVars
  <2>4. MainFits'
    BY <1>3, UsersAssumption DEF MainFits, SendText, Deliver, Connected,
       Payload, Idle, fileVars, threadVars, clientVars, netVars, historyVars
  <2> QED
    BY <2>1, <2>2, <2>3, <2>4 DEF Conversation
<1>4. CASE Destroy
  BY <1>4 DEF IInv, Conversation, MainFits, InOrder, Fits, Answers, Destroy,
     fileVars, netVars, clientVars
<1> QED
  BY <1>1, <1>2, <1>3, <1>4 DEF Continue

LEMMA ConversationConsume ==
  ASSUME IInv, Consume
  PROVE  Conversation'
<1>1. CASE Take
  <2>1. ASSUME NEW v \in Users PROVE InOrder(v)'
    BY <1>1, UsersAssumption DEF IInv, Conversation, InOrder, Fits, Take,
       threadVars, clientVars, netVars, historyVars
  <2>2. ASSUME NEW v \in Users PROVE Fits(v)'
    BY <1>1, UsersAssumption DEF IInv, Conversation, Fits, Take, threadVars,
       clientVars, netVars, historyVars
  <2>3. ASSUME NEW v \in Users PROVE Answers(v)'
    BY <1>1, UsersAssumption DEF IInv, Conversation, Answers, Take,
       threadVars, clientVars, netVars, historyVars
  <2>4. MainFits'
    BY <1>1, UsersAssumption DEF IInv, Conversation, MainFits, Take,
       threadVars, clientVars, netVars, historyVars
  <2> QED
    BY <2>1, <2>2, <2>3, <2>4 DEF Conversation
<1>2. CASE DeliverEdit
  <2>1. ASSUME NEW v \in Users PROVE InOrder(v)'
    BY <1>2, UsersAssumption DEF IInv, Conversation, InOrder, DeliverEdit,
       Deliver, Connected, Payload, fileVars, threadVars, clientVars,
       netVars, historyVars
  <2>2. ASSUME NEW v \in Users PROVE Fits(v)'
    BY <1>2, UsersAssumption DEF IInv, Conversation, InOrder, Fits,
       DeliverEdit, Relay, Deliver, Connected, Payload, fileVars,
       threadVars, clientVars, netVars, historyVars
  <2>3. ASSUME NEW v \in Users PROVE Answers(v)'
    BY <1>2, UsersAssumption DEF IInv, Conversation, Fits, Answers,
       DeliverEdit, Relay, Deliver, Connected, Payload, fileVars,
       threadVars, clientVars, netVars, historyVars
  <2>4. MainFits'
    BY <1>2, UsersAssumption DEF IInv, Conversation, MainFits, DeliverEdit,
       Deliver, Connected, Payload, fileVars, threadVars, clientVars,
       netVars, historyVars
  <2> QED
    BY <2>1, <2>2, <2>3, <2>4 DEF Conversation
<1>3. CASE Apply
  <2>1. ASSUME NEW v \in Users PROVE InOrder(v)'
    BY <1>3, UsersAssumption DEF IInv, Conversation, InOrder, Apply,
       threadVars, clientVars, netVars, historyVars
  <2>2. ASSUME NEW v \in Users PROVE Fits(v)'
    BY <1>3, UsersAssumption DEF IInv, Conversation, Fits, Apply,
       threadVars, clientVars, netVars, historyVars
  <2>3. ASSUME NEW v \in Users PROVE Answers(v)'
    BY <1>3, UsersAssumption DEF IInv, Conversation, Answers, Apply,
       threadVars, clientVars, netVars, historyVars
  <2>4. MainFits'
    BY <1>3, UsersAssumption DEF IInv, Conversation, MainFits, Apply,
       threadVars, clientVars, netVars, historyVars
  <2> QED
    BY <2>1, <2>2, <2>3, <2>4 DEF Conversation
<1>4. CASE DeliverChat
  <2>1. ASSUME NEW v \in Users PROVE InOrder(v)'
    BY <1>4, UsersAssumption DEF IInv, Conversation, InOrder, DeliverChat,
       Deliver, Connected, Payload, fileVars, threadVars, clientVars,
       netVars, historyVars
  <2>2. ASSUME NEW v \in Users PROVE Fits(v)'
    BY <1>4, UsersAssumption DEF IInv, Conversation, InOrder, Fits,
       DeliverChat, Relay, Deliver, Connected, Payload, fileVars,
       threadVars, clientVars, netVars, historyVars
  <2>3. ASSUME NEW v \in Users PROVE Answers(v)'
    BY <1>4, UsersAssumption DEF IInv, Conversation, Answers, DeliverChat,
       Relay, Deliver, Connected, Payload, fileVars, threadVars, clientVars,
       netVars, historyVars
  <2>4. MainFits'
    BY <1>4, UsersAssumption DEF IInv, Conversation, MainFits, DeliverChat,
       Deliver, Connected, Payload, fileVars, threadVars, clientVars,
       netVars, historyVars
  <2> QED
    BY <2>1, <2>2, <2>3, <2>4 DEF Conversation
<1> QED
  BY <1>1, <1>2, <1>3, <1>4 DEF Consume

LEMMA ConversationStep == IInv /\ [Next]_vars => Conversation'
<1> SUFFICES ASSUME IInv, [Next]_vars PROVE Conversation'
  OBVIOUS
<1>1. CASE UNCHANGED vars
  BY <1>1 DEF vars, fileVars, threadVars, netVars, clientVars, IInv,
     Conversation, MainFits, InOrder, Fits, Answers
<1>2. CASE \E u \in Users : UserAction(u) \/ Receive(u) \/ Handle(u)
  BY <1>2, ConversationUser, ConversationReceive, ConversationHandle
<1>3. CASE Continue \/ Consume
  BY <1>3, ConversationContinue, ConversationConsume
<1> QED
  BY <1>1, <1>2, <1>3 DEF Next

\* A session handles an edit, a message or a reload as a participant.
LEMMA HandlerHasFile ==
  ASSUME IInv, NEW u \in Users, toServer[u] # <<>>, Head(toServer[u]).type \in Work
  PROVE  u \in participants
<1>1. toServer[u] \in Seq(Requests) /\ Len(toServer[u]) > 0
  BY DEF IInv, TypeOK, ConnectionTypeOK
<1> QED
  BY <1>1 DEF IInv, Conversation, InOrder

\* An entry that is not CLOSE_FILE may join the queue of an open file.
LEMMA ProduceKeeps ==
  ASSUME IInv, ~closed, NEW type \in {"CRDT", "CHAT"}, NEW body, NEW username,
         Produce(type, body, username)
  PROVE  \A i \in 1..Len(messages') : messages'[i].type # "CLOSE"
<1> DEFINE e == Item(type, body, username)
<1>1. /\ messages \in Seq(Items) /\ messages' = Append(messages, e) /\ e.type # "CLOSE"
      /\ \A i \in 1..Len(messages) : messages[i].type # "CLOSE"
  BY DEF IInv, TypeOK, FileTypeOK, Closing, Produce, Item
<1> HIDE DEF e
<1>2. \A i \in 1..Len(messages') :
        (i \in 1..Len(messages) /\ messages'[i] = messages[i]) \/ messages'[i] = e
  BY <1>1
<1> QED
  BY <1>1, <1>2

LEMMA ClosingStep == IInv /\ [Next]_vars => Closing'
<1> SUFFICES ASSUME IInv, [Next]_vars PROVE Closing'
  OBVIOUS
<1>1. CASE UNCHANGED <<participants, messages, closed, consumer, main>>
  BY <1>1 DEF IInv, Closing
<1>2. ASSUME NEW u \in Users, HandleEdit(u) \/ HandleChat(u) PROVE Closing'
  <2>1. u \in participants
    BY <1>2, HandlerHasFile DEF HandleEdit, HandleChat, Request, Work
  <2>2. ~closed /\ consumer # "stopped"
    BY <2>1 DEF IInv, Closing
  <2>3. \A i \in 1..Len(messages') : messages'[i].type # "CLOSE"
    BY <1>2, <2>2, ProduceKeeps DEF HandleEdit, HandleChat
  <2> QED
    BY <1>2, <2>2, <2>3 DEF HandleEdit, HandleChat, Closing, threadVars
<1>3. ASSUME NEW u \in Users, Join(u) PROVE Closing'
  BY <1>3 DEF Join, IInv, Closing
<1>4. ASSUME NEW u \in Users, ReadText(u) PROVE Closing'
  BY <1>4 DEF ReadText, IInv, Closing, fileVars
<1>5. ASSUME NEW u \in Users, NEW type \in {"QUIT", "DISCONNECT"}, Leave(u, type)
      PROVE Closing'
  BY <1>5 DEF Leave, IInv, Closing
<1>6. CASE AnnounceJoin \/ SendText
  BY <1>6 DEF AnnounceJoin, SendText, IInv, Closing, fileVars, Idle
<1>7. CASE AnnounceLeave
  <2>1. ~closed /\ consumer # "stopped" /\ main'.task = "idle"
    BY <1>7 DEF AnnounceLeave, IInv, Closing, Idle
  <2>2. CASE UNCHANGED <<closed, messages>>
    BY <1>7, <2>1, <2>2 DEF AnnounceLeave, IInv, Closing
  <2>3. CASE NobodyLeft /\ closed' = TRUE /\ Produce("CLOSE", {}, All)
    <3> DEFINE e == Item("CLOSE", {}, All)
    <3>1. /\ messages \in Seq(Items) /\ messages' = Append(messages, e)
          /\ \A i \in 1..Len(messages) : messages[i].type # "CLOSE"
      BY <2>1, <2>3 DEF IInv, TypeOK, FileTypeOK, Closing, Produce
    <3> HIDE DEF e
    <3>2. \A i \in 1..Len(messages') :
            (i \in 1..Len(messages) /\ messages'[i] = messages[i]) \/ i = Len(messages')
      BY <3>1
    <3> QED
      BY <1>7, <2>1, <2>3, <3>1, <3>2 DEF AnnounceLeave, Closing, NobodyLeft
  <2> QED
    BY <1>7, <2>2, <2>3 DEF AnnounceLeave
<1>8. CASE Take
  <2>1. messages \in Seq(Items) /\ messages # <<>> /\ messages' = Tail(messages)
    BY <1>8 DEF Take, HasWork, IInv, TypeOK, FileTypeOK
  <2>2. \A i \in 1..Len(messages') : messages'[i] = messages[i + 1] /\ i + 1 \in 1..Len(messages)
    BY <2>1
  <2>3. Head(messages).type = "CLOSE" => closed /\ messages' = <<>>
    <3>1. Head(messages) = messages[1] /\ 1 \in 1..Len(messages)
      BY <2>1
    <3> SUFFICES ASSUME Head(messages).type = "CLOSE" PROVE closed /\ messages' = <<>>
      OBVIOUS
    <3>2. closed /\ Len(messages) = 1
      BY <3>1 DEF IInv, Closing
    <3> QED
      BY <2>1, <3>2, TailOfOne
  <2>4. Len(messages') = Len(messages) - 1
    BY <2>1
  <2>5. ASSUME NEW i \in 1..Len(messages'), messages'[i].type = "CLOSE"
        PROVE  closed' /\ i = Len(messages')
    <3>1. i + 1 \in 1..Len(messages) /\ messages[i + 1].type = "CLOSE"
      BY <2>2, <2>5
    <3>2. closed /\ i + 1 = Len(messages)
      BY <3>1 DEF IInv, Closing
    <3>3. closed'
      BY <1>8, <3>2 DEF Take
    <3>4. Len(messages') = Len(messages) - 1 /\ i + 1 = Len(messages) /\ i \in Int
      BY <2>4, <3>2
    <3>5. i = Len(messages')
      BY <3>4
    <3> QED
      BY <3>3, <3>5
  <2>6. consumer' = "stopped" => Head(messages).type = "CLOSE"
    BY <1>8 DEF Take
  <2>7. participants' = participants /\ closed' = closed /\ main' = main
    BY <1>8 DEF Take
  <2> QED
    BY <2>3, <2>5, <2>6, <2>7 DEF IInv, Closing
<1>9. CASE DeliverEdit \/ Apply \/ DeliverChat
  BY <1>9 DEF DeliverEdit, Apply, DeliverChat, IInv, Closing, fileVars
<1>10. ASSUME NEW u \in Users, UserAction(u) PROVE Closing'
  <2>1. UNCHANGED <<fileVars, threadVars>>
    BY <1>10 DEF UserAction, SendOpen, MakeEdit, Say, IllegalEdit,
       AskReload, SendQuit, Break
  <2> QED
    BY <1>1, <2>1 DEF fileVars, threadVars
<1>11. ASSUME NEW u \in Users, Receive(u) PROVE Closing'
  <2>1. UNCHANGED <<fileVars, threadVars>>
    BY <1>11 DEF Receive, ReceiveOpen, ReceiveReject, ReceiveLoad,
       ReceiveEdit, ReceiveChat, ReceivePresence, ReceiveQuit
  <2> QED
    BY <1>1, <2>1 DEF fileVars, threadVars
<1>12. ASSUME NEW u \in Users, Handle(u) PROVE Closing'
  <2>1. CASE RejectOpen(u) \/ Redirect(u)
               \/ \E type \in {"QUIT", "DISCONNECT"} : LeaveNothing(u, type)
    <3>1. UNCHANGED <<fileVars, threadVars>>
      BY <2>1 DEF RejectOpen, Redirect, LeaveNothing
    <3> QED
      BY <1>1, <3>1 DEF fileVars, threadVars
  <2> QED
    BY <1>2, <1>3, <1>4, <1>5, <1>12, <2>1 DEF Handle
<1>13. CASE UNCHANGED vars
  BY <1>1, <1>13 DEF vars, fileVars, threadVars
<1>14. CASE Destroy
  BY <1>14 DEF Destroy, IInv, Closing, fileVars
<1> QED
  BY <1>6, <1>7, <1>8, <1>9, <1>10, <1>11, <1>12, <1>13, <1>14
     DEF Next, Continue, Consume

LEMMA IInvInit == Init => IInv
<1> SUFFICES ASSUME Init PROVE Conversation /\ Closing
  BY TypeInit DEF IInv
<1>1. Conversation
  BY UsersAssumption DEF Init, Conversation, MainFits, InOrder, Fits, Answers,
     Idle
<1>2. Closing
  BY DEF Init, Closing
<1> QED
  BY <1>1, <1>2

\* The conversation of every client with its session and the end of the file
\* are as IInv says.
LEMMA Inductive == Spec => []IInv
<1>1. IInv /\ [Next]_vars => IInv'
  BY TypeNext, ConversationStep, ClosingStep DEF IInv
<1> QED
  BY IInvInit, <1>1, PTL DEF Spec

\* The handlers of edits, chat messages and reloads, which use the session's
\* file without a check (kk_session.cpp:259-278), never run without one.
THEOREM SessionsHaveFile == Spec => []SessionHasFile
<1>1. IInv => SessionHasFile
  BY HandlerHasFile DEF SessionHasFile, Work
<1> QED
  BY <1>1, Inductive, PTL

\* CLOSE_FILE is the last entry of the queue, so the consumer stops with
\* every edit and message handled (kk_session.cpp:377, kk_file.cpp:106-123).
THEOREM CloseComesLast == Spec => []CloseIsLast
<1>1. IInv => CloseIsLast
  BY DEF IInv, Closing, CloseIsLast, TypeOK
<1> QED
  BY <1>1, Inductive, PTL
=============================================================================
