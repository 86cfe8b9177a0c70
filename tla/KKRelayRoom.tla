---------------------------- MODULE KKRelayRoom ----------------------------
(***************************************************************************)
(* The room of one open document (KKRelay): who is shown in it and what is *)
(* said there, for every set of users and messages and every bound.        *)
(*                                                                         *)
(* Both lists are made from two sources.  Who joins gets a list of the     *)
(* participants and the last messages of the chat (KKFile::join); from     *)
(* then on the main thread tells of every change of the participants, past *)
(* the queue, and the consumer relays every message of the queue.          *)
(***************************************************************************)
EXTENDS KKRelayProofs, FiniteSetTheorems

\* Whom a participant is going to show: the participants, but for the change
\* that the main thread has made and not announced yet.
Announced(u) ==
  IF main.task = "joined" /\ u # main.user THEN participants \ {main.user}
  ELSE IF main.task \in {"QUIT", "DISCONNECT"} THEN participants \cup {main.user}
  ELSE participants

\* A chat window and the messages that are coming, read in order, show an
\* end of the conversation (log).
Heard(view, q, log) ==
  /\ Len(view) + ChatsAfter(q, 0) <= Len(log)
  /\ \A k \in 1..Len(view) : view[k] = log[Len(log) - ChatsAfter(q, 0) - Len(view) + k]
  /\ \A i \in 1..Len(q) : q[i].type = "CHAT" =>
       ChatsAfter(q, i) < Len(log) /\ q[i].body = {log[Len(log) - ChatsAfter(q, i)]}
  /\ Len(view) + ChatsAfter(q, 0) >= Len(Trim(log))

Listens(u) == u \in participants /\ Connected(u)
Room(u) ==
  Listens(u) => /\ ShownAfter(onlineView[u], toClient[u]) = Announced(u)
                /\ Heard(chatView[u], toClient[u], chatLog)

\* Who waits for the document shows no message yet.
Blank(u) == phase[u] = "opening" /\ toServer[u] # <<>> => chatView[u] = <<>>

\* A chat message travels alone, to the server and through the queue.
Alone(m) == m.type = "CHAT" => \E c \in Chats : m.body = {c}
Said ==
  /\ \A u \in Users : \A i \in 1..Len(toServer[u]) : Alone(toServer[u][i])
  /\ \A i \in 1..Len(messages) : Alone(messages[i])
  /\ Alone(item)

RInv ==
  /\ IInv /\ Said /\ chatMessages = Trim(chatLog)
  /\ \A u \in Users : Blank(u) /\ Room(u)

-----------------------------------------------------------------------------
(* What a channel to a client says of the participants.                    *)

\* The i-th message is the last that speaks of v.
Decides(q, i, v) ==
  i \in 1..Len(q) /\ Speaks(q[i], v) /\ \A j \in (i+1)..Len(q) : ~Speaks(q[j], v)
Silent(q, v) == \A i \in 1..Len(q) : ~Speaks(q[i], v)
Shows(m, v) == m.type # "REMOVED" /\ v \in m.body

LEMMA ShownWhere ==
  ASSUME NEW q \in Seq(Responses), NEW online, NEW v \in Users
  PROVE  v \in ShownAfter(online, q) <=>
           \/ Silent(q, v) /\ v \in online
           \/ \E i \in 1..Len(q) : Decides(q, i, v) /\ Shows(q[i], v)
<1> DEFINE told == {i \in DOMAIN q : Speaks(q[i], v)}
<1>1. DOMAIN q = 1..Len(q) /\ Len(q) \in Nat
  OBVIOUS
<1>2. v \in ShownAfter(online, q) <=>
        IF told = {} THEN v \in online
        ELSE \E i \in told : /\ \A j \in told : j <= i
                             /\ q[i].type # "REMOVED" /\ v \in q[i].body
  BY DEF ShownAfter
<1>3. told = {} <=> Silent(q, v)
  BY <1>1 DEF Silent
<1>4. ASSUME NEW i \in 1..Len(q)
      PROVE  (i \in told /\ \A j \in told : j <= i) <=> Decides(q, i, v)
  BY <1>1 DEF Decides
<1> HIDE DEF told
<1>5. told \subseteq 1..Len(q)
  BY <1>1 DEF told
<1>6. \A i \in 1..Len(q) : Decides(q, i, v) => told # {}
  BY <1>4
<1> QED
  BY <1>2, <1>3, <1>4, <1>5, <1>6 DEF Shows

LEMMA ShownAppend ==
  ASSUME NEW q \in Seq(Responses), NEW m \in Responses, NEW online, NEW v \in Users
  PROVE  v \in ShownAfter(online, Append(q, m)) <=>
           IF Speaks(m, v) THEN Shows(m, v) ELSE v \in ShownAfter(online, q)
<1> DEFINE t == Append(q, m)
           n == Len(q)
<1>1. /\ n \in Nat /\ t \in Seq(Responses) /\ Len(t) = n + 1 /\ t[n + 1] = m
      /\ \A i \in 1..n : t[i] = q[i]
  OBVIOUS
<1>2. /\ v \in ShownAfter(online, t) <=>
           \/ Silent(t, v) /\ v \in online
           \/ \E i \in 1..Len(t) : Decides(t, i, v) /\ Shows(t[i], v)
      /\ v \in ShownAfter(online, q) <=>
           \/ Silent(q, v) /\ v \in online
           \/ \E i \in 1..Len(q) : Decides(q, i, v) /\ Shows(q[i], v)
  BY <1>1, ShownWhere
<1> HIDE DEF t, n
<1>3. CASE Speaks(m, v)
  <2>1. ~Silent(t, v) /\ Decides(t, n + 1, v)
    BY <1>1, <1>3 DEF Silent, Decides
  <2>2. \A i \in 1..(n + 1) : Decides(t, i, v) => i = n + 1
    BY <1>1, <1>3 DEF Decides
  <2> QED
    BY <1>1, <1>2, <1>3, <2>1, <2>2 DEF t
<1>4. CASE ~Speaks(m, v)
  <2>1. Silent(t, v) <=> Silent(q, v)
    BY <1>1, <1>4 DEF Silent, n
  <2>2. \A i \in 1..n : Decides(t, i, v) <=> Decides(q, i, v)
    BY <1>1, <1>4 DEF Decides, n
  <2>3. ~Decides(t, n + 1, v)
    BY <1>1, <1>4 DEF Decides
  <2>4. \A i \in 1..(n + 1) : i \in 1..n \/ i = n + 1
    BY <1>1
  <2> QED
    BY <1>1, <1>2, <1>4, <2>1, <2>2, <2>3, <2>4 DEF t, n
<1> QED
  BY <1>3, <1>4

LEMMA ShownTail ==
  ASSUME NEW q \in Seq(Responses), q # <<>>, NEW online
  PROVE  ShownAfter(Presence(online, Head(q)), Tail(q)) = ShownAfter(online, q)
<1> DEFINE t == Tail(q)
           n == Len(q)
           h == Head(q)
<1>1. /\ n \in Nat /\ n > 0 /\ t \in Seq(Responses) /\ Len(t) = n - 1
      /\ h = q[1] /\ h \in Responses /\ \A i \in 1..(n - 1) : t[i] = q[i + 1]
  BY EmptySeq
<1> SUFFICES ASSUME NEW v \in Users
             PROVE  v \in ShownAfter(Presence(online, h), t) <=> v \in ShownAfter(online, q)
  BY DEF ShownAfter
<1>2. v \in ShownAfter(Presence(online, h), t) <=>
        \/ Silent(t, v) /\ v \in Presence(online, h)
        \/ \E i \in 1..Len(t) : Decides(t, i, v) /\ Shows(t[i], v)
  BY <1>1, ShownWhere
<1>3. v \in ShownAfter(online, q) <=>
        \/ Silent(q, v) /\ v \in online
        \/ \E i \in 1..Len(q) : Decides(q, i, v) /\ Shows(q[i], v)
  BY ShownWhere
<1>4. v \in Presence(online, h) <=> IF Speaks(h, v) THEN Shows(h, v) ELSE v \in online
  BY <1>1 DEF Presence, Speaks, Shows
<1> HIDE DEF t, n, h
<1>5. Silent(q, v) <=> ~Speaks(h, v) /\ Silent(t, v)
  <2>1. \A i \in 1..n : i = 1 \/ (i - 1 \in 1..(n - 1) /\ q[i] = t[i - 1])
    BY <1>1
  <2>2. \A i \in 1..(n - 1) : i + 1 \in 1..n
    BY <1>1
  <2> QED
    BY <1>1, <2>1, <2>2 DEF Silent, n
<1>6. ASSUME NEW i \in 1..(n - 1) PROVE Decides(t, i, v) <=> Decides(q, i + 1, v)
  <2>1. i + 1 \in 1..n /\ t[i] = q[i + 1]
    BY <1>1
  <2>2. \A j \in (i + 1)..(n - 1) : j + 1 \in (i + 2)..n /\ t[j] = q[j + 1]
    BY <1>1
  <2>3. \A j \in (i + 2)..n : j - 1 \in (i + 1)..(n - 1) /\ t[j - 1] = q[j]
    BY <1>1
  <2> QED
    BY <1>1, <2>1, <2>2, <2>3 DEF Decides, n
<1>7. Decides(q, 1, v) <=> Speaks(h, v) /\ Silent(t, v)
  <2>1. \A j \in 2..n : j - 1 \in 1..(n - 1) /\ q[j] = t[j - 1]
    BY <1>1
  <2>2. \A i \in 1..(n - 1) : i + 1 \in 2..n
    BY <1>1
  <2> QED
    BY <1>1, <2>1, <2>2 DEF Decides, Silent, n
<1>8. (\E i \in 1..n : Decides(q, i, v) /\ Shows(q[i], v)) <=>
        \/ Decides(q, 1, v) /\ Shows(h, v)
        \/ \E i \in 1..(n - 1) : Decides(t, i, v) /\ Shows(t[i], v)
  <2>1. ASSUME NEW i \in 1..n, Decides(q, i, v), Shows(q[i], v), i # 1
        PROVE  \E j \in 1..(n - 1) : Decides(t, j, v) /\ Shows(t[j], v)
    <3>1. i - 1 \in 1..(n - 1) /\ (i - 1) + 1 = i
      BY <1>1, <2>1
    <3>2. Decides(t, i - 1, v) /\ t[i - 1] = q[i]
      BY <1>1, <1>6, <2>1, <3>1
    <3> QED
      BY <2>1, <3>1, <3>2
  <2>2. ASSUME NEW j \in 1..(n - 1), Decides(t, j, v), Shows(t[j], v)
        PROVE  \E i \in 1..n : Decides(q, i, v) /\ Shows(q[i], v)
    <3>1. j + 1 \in 1..n /\ Decides(q, j + 1, v) /\ t[j] = q[j + 1]
      BY <1>1, <1>6, <2>2
    <3> QED
      BY <2>2, <3>1
  <2>3. 1 \in 1..n
    BY <1>1
  <2> QED
    BY <1>1, <2>1, <2>2, <2>3
<1> QED
  BY <1>1, <1>2, <1>3, <1>4, <1>5, <1>7, <1>8 DEF n

-----------------------------------------------------------------------------
(* How many chat messages a channel to a client has left.                  *)

\* Where the chat messages after the i-th message of a channel are.
ChatPlaces(q, i) == {j \in DOMAIN q : j > i /\ q[j].type = "CHAT"}

LEMMA ChatsFinite ==
  ASSUME NEW q \in Seq(Responses), NEW i \in Nat
  PROVE  /\ IsFiniteSet(ChatPlaces(q, i))
         /\ ChatsAfter(q, i) = Cardinality(ChatPlaces(q, i))
         /\ ChatsAfter(q, i) \in Nat
<1>1. IsFiniteSet(1..Len(q)) /\ ChatPlaces(q, i) \in SUBSET (1..Len(q))
  <2>1. Len(q) \in Int /\ DOMAIN q = 1..Len(q)
    OBVIOUS
  <2>2. IsFiniteSet(1..Len(q))
    BY <2>1, FS_Interval
  <2> QED
    BY <2>1, <2>2 DEF ChatPlaces
<1>2. IsFiniteSet(ChatPlaces(q, i))
  BY <1>1, FS_Subset
<1>3. ChatsAfter(q, i) = Cardinality(ChatPlaces(q, i))
  BY DEF ChatsAfter, ChatPlaces
<1> QED
  BY <1>2, <1>3, FS_CardinalityType

LEMMA ChatsNone ==
  ASSUME NEW q \in Seq(Responses), NEW i \in Nat, \A j \in 1..Len(q) : j > i => q[j].type # "CHAT"
  PROVE  ChatsAfter(q, i) = 0
<1>1. ChatPlaces(q, i) = {}
  BY DEF ChatPlaces
<1> QED
  BY <1>1, ChatsFinite, FS_EmptySet

LEMMA ChatsAppend ==
  ASSUME NEW q \in Seq(Responses), NEW m \in Responses, NEW i \in 0..Len(q)
  PROVE  ChatsAfter(Append(q, m), i) =
           IF m.type = "CHAT" THEN ChatsAfter(q, i) + 1 ELSE ChatsAfter(q, i)
<1> DEFINE t == Append(q, m)
           n == Len(q)
<1>1. /\ n \in Nat /\ t \in Seq(Responses) /\ Len(t) = n + 1 /\ t[n + 1] = m
      /\ \A j \in 1..n : t[j] = q[j]
      /\ DOMAIN q = 1..n /\ DOMAIN t = 1..(n + 1) /\ i \in 0..n /\ i \in Nat
  OBVIOUS
<1> HIDE DEF t, n
<1>2. /\ ChatsAfter(q, i) = Cardinality(ChatPlaces(q, i)) /\ IsFiniteSet(ChatPlaces(q, i))
      /\ ChatsAfter(t, i) = Cardinality(ChatPlaces(t, i))
  BY <1>1, ChatsFinite
<1>3. ChatPlaces(t, i) = IF m.type = "CHAT" THEN ChatPlaces(q, i) \cup {n + 1} ELSE ChatPlaces(q, i)
  <2>1. \A j \in 1..(n + 1) : j \in 1..n \/ j = n + 1
    BY <1>1
  <2> QED
    BY <1>1, <2>1 DEF ChatPlaces
<1>4. n + 1 \notin ChatPlaces(q, i)
  BY <1>1 DEF ChatPlaces
<1>5. Cardinality(ChatPlaces(q, i) \cup {n + 1}) = Cardinality(ChatPlaces(q, i)) + 1
  BY <1>2, <1>4, FS_AddElement
<1> QED
  BY <1>2, <1>3, <1>5 DEF t

LEMMA ChatsTail ==
  ASSUME NEW q \in Seq(Responses), q # <<>>, NEW i \in 0..Len(Tail(q))
  PROVE  ChatsAfter(Tail(q), i) = ChatsAfter(q, i + 1)
<1> DEFINE t == Tail(q)
           n == Len(q)
           f == [j \in ChatPlaces(t, i) |-> j + 1]
<1>1. /\ n \in Nat /\ n > 0 /\ t \in Seq(Responses) /\ Len(t) = n - 1
      /\ \A j \in 1..(n - 1) : t[j] = q[j + 1]
      /\ DOMAIN q = 1..n /\ DOMAIN t = 1..(n - 1) /\ i \in Nat /\ i + 1 \in Nat
  BY EmptySeq
<1> HIDE DEF t, n
<1>2. /\ ChatsAfter(q, i + 1) = Cardinality(ChatPlaces(q, i + 1))
      /\ ChatsAfter(t, i) = Cardinality(ChatPlaces(t, i)) /\ IsFiniteSet(ChatPlaces(t, i))
  BY <1>1, ChatsFinite
<1>3. \A j \in ChatPlaces(t, i) : j \in Nat /\ j + 1 \in ChatPlaces(q, i + 1)
  BY <1>1 DEF ChatPlaces
<1>4. \A j \in ChatPlaces(q, i + 1) : j \in Int /\ j - 1 \in ChatPlaces(t, i) /\ (j - 1) + 1 = j
  BY <1>1 DEF ChatPlaces
<1>5. f \in [ChatPlaces(t, i) -> ChatPlaces(q, i + 1)]
  BY <1>3
<1>6. f \in Injection(ChatPlaces(t, i), ChatPlaces(q, i + 1))
  BY <1>3, <1>5 DEF Injection, IsInjective
<1>7. f \in Surjection(ChatPlaces(t, i), ChatPlaces(q, i + 1))
  BY <1>4, <1>5 DEF Surjection
<1>8. ExistsBijection(ChatPlaces(t, i), ChatPlaces(q, i + 1))
  BY <1>6, <1>7 DEF ExistsBijection, Bijection
<1> QED
  BY <1>2, <1>8, FS_Bijection DEF t

\* Reading the first message leaves the others.
LEMMA ChatsFirst ==
  ASSUME NEW q \in Seq(Responses), q # <<>>
  PROVE  ChatsAfter(q, 0) = IF Head(q).type = "CHAT" THEN ChatsAfter(q, 1) + 1 ELSE ChatsAfter(q, 1)
<1>1. /\ Len(q) > 0 /\ Head(q) = q[1] /\ DOMAIN q = 1..Len(q)
      /\ ChatsAfter(q, 0) = Cardinality(ChatPlaces(q, 0))
      /\ ChatsAfter(q, 1) = Cardinality(ChatPlaces(q, 1)) /\ IsFiniteSet(ChatPlaces(q, 1))
  BY EmptySeq, ChatsFinite
<1>2. ChatPlaces(q, 0) = IF q[1].type = "CHAT" THEN ChatPlaces(q, 1) \cup {1} ELSE ChatPlaces(q, 1)
  BY <1>1 DEF ChatPlaces
<1>3. 1 \notin ChatPlaces(q, 1)
  BY DEF ChatPlaces
<1> QED
  BY <1>1, <1>2, <1>3, FS_AddElement

\* The messages that a file keeps are the last ones of its conversation.
LEMMA TrimIsEnd ==
  ASSUME NEW S, NEW s \in Seq(S)
  PROVE  /\ Trim(s) \in Seq(S)
         /\ Len(Trim(s)) = IF Len(s) > MaxRecent THEN MaxRecent ELSE Len(s)
         /\ \A k \in 1..Len(Trim(s)) : Trim(s)[k] = s[Len(s) - Len(Trim(s)) + k]
<1>1. MaxRecent \in Nat /\ MaxRecent > 0 /\ Len(s) \in Nat
  BY BoundsAssumption
<1>2. CASE Len(s) > MaxRecent
  <2> DEFINE first == Len(s) - MaxRecent + 1
             t == SubSeq(s, first, Len(s))
  <2>1. first \in 1..Len(s) /\ Len(s) - first + 1 = MaxRecent
    BY <1>1, <1>2
  <2>2. t \in Seq(S) /\ Len(t) = MaxRecent /\ \A k \in 1..MaxRecent : t[k] = s[first + k - 1]
    BY <1>1, <2>1
  <2>3. \A k \in 1..MaxRecent : first + k - 1 = Len(s) - MaxRecent + k
    BY <1>1
  <2>4. Trim(s) = t
    BY <1>2 DEF Trim
  <2> HIDE DEF t, first
  <2> QED
    BY <1>2, <2>2, <2>3, <2>4
<1>3. CASE ~ (Len(s) > MaxRecent)
  BY <1>1, <1>3 DEF Trim
<1> QED
  BY <1>2, <1>3

LEMMA TrimAppend ==
  ASSUME NEW S, NEW s \in Seq(S), NEW m \in S
  PROVE  Trim(Append(Trim(s), m)) = Trim(Append(s, m))
<1> DEFINE a == Append(s, m)
           b == Append(Trim(s), m)
<1>1. /\ Trim(s) \in Seq(S)
      /\ Len(Trim(s)) = IF Len(s) > MaxRecent THEN MaxRecent ELSE Len(s)
      /\ \A k \in 1..Len(Trim(s)) : Trim(s)[k] = s[Len(s) - Len(Trim(s)) + k]
      /\ MaxRecent \in Nat /\ MaxRecent > 0
  BY TrimIsEnd, BoundsAssumption
<1> DEFINE c == Trim(s)
<1> HIDE DEF c
<1>2. /\ a \in Seq(S) /\ Len(a) = Len(s) + 1 /\ a[Len(s) + 1] = m
      /\ \A k \in 1..Len(s) : a[k] = s[k]
  OBVIOUS
<1>3. /\ b \in Seq(S) /\ Len(b) = Len(c) + 1 /\ b[Len(c) + 1] = m
      /\ \A k \in 1..Len(c) : b[k] = c[k]
  BY <1>1 DEF c
<1> HIDE DEF a, b
<1>4. /\ Trim(a) \in Seq(S) /\ Trim(b) \in Seq(S)
      /\ Len(Trim(a)) = IF Len(a) > MaxRecent THEN MaxRecent ELSE Len(a)
      /\ Len(Trim(b)) = IF Len(b) > MaxRecent THEN MaxRecent ELSE Len(b)
      /\ \A k \in 1..Len(Trim(a)) : Trim(a)[k] = a[Len(a) - Len(Trim(a)) + k]
      /\ \A k \in 1..Len(Trim(b)) : Trim(b)[k] = b[Len(b) - Len(Trim(b)) + k]
  BY <1>2, <1>3, TrimIsEnd
<1>5. Len(Trim(a)) = Len(Trim(b)) /\ Len(s) \in Nat /\ Len(c) \in Nat
  BY <1>1, <1>2, <1>3, <1>4 DEF c
<1>6. ASSUME NEW k \in 1..Len(Trim(a)) PROVE Trim(a)[k] = Trim(b)[k]
  <2> DEFINE n == Len(Trim(a))
             x == Len(a) - n + k
             y == Len(b) - n + k
  <2>1. Trim(a)[k] = a[x] /\ Trim(b)[k] = b[y]
    BY <1>4, <1>5
  <2>2. /\ n = IF Len(s) + 1 > MaxRecent THEN MaxRecent ELSE Len(s) + 1
        /\ Len(c) = IF Len(s) > MaxRecent THEN MaxRecent ELSE Len(s)
        /\ k \in 1..n /\ x = Len(s) + 1 - n + k /\ y = Len(c) + 1 - n + k
    BY <1>1, <1>2, <1>3, <1>4 DEF c
  <2>3. c \in Seq(S) /\ \A j \in 1..Len(c) : c[j] = s[Len(s) - Len(c) + j]
    BY <1>1 DEF c
  <2> HIDE DEF n, x, y
  <2>4. CASE k = n
    BY <1>1, <1>2, <1>3, <1>5, <2>1, <2>2, <2>4
  <2>5. CASE k # n
    <3>1. y \in 1..Len(c) /\ x \in 1..Len(s) /\ x = Len(s) - Len(c) + y
      <4> DEFINE l == Len(s)
                 p == Len(c)
      <4>1. l \in Nat /\ p \in Nat /\ MaxRecent \in Nat /\ MaxRecent > 0
        BY <1>1, <1>5
      <4>2. /\ n = IF l + 1 > MaxRecent THEN MaxRecent ELSE l + 1
            /\ p = IF l > MaxRecent THEN MaxRecent ELSE l
            /\ k \in 1..n /\ k # n /\ x = l + 1 - n + k /\ y = p + 1 - n + k
        BY <2>2, <2>5
      <4> HIDE DEF l, p
      <4>3. n \in Nat /\ k \in Nat /\ k >= 1 /\ k < n
        BY <4>1, <4>2
      <4>4. y \in 1..p /\ x \in 1..l /\ x = l - p + y
        BY <4>1, <4>2, <4>3
      <4> QED
        BY <4>4 DEF l, p
    <3> QED
      BY <1>2, <1>3, <2>1, <2>3, <3>1
  <2> QED
    BY <2>4, <2>5
<1> QED
  BY <1>4, <1>5, <1>6, SeqEqual DEF a, b

-----------------------------------------------------------------------------
(* What reading and sending messages does to a chat window.                *)

\* A message that is not of the chat changes nothing.
LEMMA HeardOther ==
  ASSUME NEW q \in Seq(Responses), NEW m \in Responses, m.type # "CHAT",
         NEW view \in Seq(Chats), NEW log \in Seq(Chats), Heard(view, q, log)
  PROVE  Heard(view, Append(q, m), log)
<1> DEFINE t == Append(q, m)
<1>1. /\ Len(q) \in Nat /\ Len(t) = Len(q) + 1 /\ t[Len(q) + 1] = m
      /\ \A i \in 1..Len(q) : t[i] = q[i]
  OBVIOUS
<1>2. \A i \in 0..Len(q) : ChatsAfter(t, i) = ChatsAfter(q, i)
  BY ChatsAppend
<1> HIDE DEF t
<1>3. ChatsAfter(t, 0) = ChatsAfter(q, 0)
  BY <1>1, <1>2
<1>4. ASSUME NEW i \in 1..Len(t), t[i].type = "CHAT"
      PROVE  /\ i \in 1..Len(q) /\ t[i] = q[i] /\ ChatsAfter(t, i) = ChatsAfter(q, i)
  <2>1. i \in 1..Len(q)
    BY <1>1, <1>4
  <2> QED
    BY <1>1, <1>2, <2>1
<1> QED
  BY <1>3, <1>4 DEF Heard, t

\* A message that the consumer relays continues the conversation.
LEMMA HeardSaid ==
  ASSUME NEW q \in Seq(Responses), NEW c \in Chats, NEW m \in Responses,
         m.type = "CHAT", m.body = {c},
         NEW view \in Seq(Chats), NEW log \in Seq(Chats), Heard(view, q, log)
  PROVE  Heard(view, Append(q, m), Append(log, c))
<1> DEFINE t == Append(q, m)
           l == Append(log, c)
           n == Len(q)
           x == Len(log)
           a == ChatsAfter(q, 0)
           v == Len(view)
<1>1. /\ n \in Nat /\ t \in Seq(Responses) /\ Len(t) = n + 1 /\ t[n + 1] = m
      /\ \A i \in 1..n : t[i] = q[i]
      /\ x \in Nat /\ l \in Seq(Chats) /\ Len(l) = x + 1 /\ l[x + 1] = c
      /\ \A i \in 1..x : l[i] = log[i]
      /\ v \in Nat
  OBVIOUS
<1>2. ASSUME NEW i \in 0..n
      PROVE  ChatsAfter(t, i) = ChatsAfter(q, i) + 1 /\ ChatsAfter(q, i) \in Nat
  <2>1. i \in Nat /\ i \in 0..Len(q)
    BY <1>1
  <2>2. ChatsAfter(q, i) \in Nat
    BY <2>1, ChatsFinite
  <2>3. ChatsAfter(t, i) = ChatsAfter(q, i) + 1
    BY <2>1, ChatsAppend
  <2> QED
    BY <2>2, <2>3
<1> HIDE DEF t, l
<1>3. ChatsAfter(t, n + 1) = 0
  BY <1>1, ChatsNone
<1>4. /\ v + a <= x
      /\ \A k \in 1..v : view[k] = log[x - a - v + k]
      /\ \A i \in 1..n : q[i].type = "CHAT" =>
           ChatsAfter(q, i) < x /\ q[i].body = {log[x - ChatsAfter(q, i)]}
      /\ v + a >= Len(Trim(log))
  BY DEF Heard
<1>5. ChatsAfter(t, 0) = a + 1 /\ a \in Nat
  BY <1>1, <1>2
<1> HIDE DEF n, x, a, v
<1>6. v + (a + 1) <= x + 1
  BY <1>1, <1>4, <1>5
<1>7. ASSUME NEW k \in 1..v PROVE view[k] = l[(x + 1) - (a + 1) - v + k]
  <2>1. x - a - v + k \in 1..x /\ (x + 1) - (a + 1) - v + k = x - a - v + k
    <3>1. x \in Nat /\ a \in Nat /\ v \in Nat /\ v + a <= x
      BY <1>1, <1>4, <1>5
    <3> QED
      BY <3>1
  <2> QED
    BY <1>1, <1>4, <2>1
<1>8. ASSUME NEW i \in 1..(n + 1), t[i].type = "CHAT"
      PROVE  ChatsAfter(t, i) < x + 1 /\ t[i].body = {l[(x + 1) - ChatsAfter(t, i)]}
  <2>1. CASE i = n + 1
    <3>1. ChatsAfter(t, i) = 0 /\ t[i] = m /\ (x + 1) - 0 = x + 1 /\ 0 < x + 1
      BY <1>1, <1>3, <2>1
    <3> QED
      BY <1>1, <3>1
  <2>2. CASE i # n + 1
    <3> DEFINE b == ChatsAfter(q, i)
    <3>1. i \in 1..n /\ i \in 0..n
      BY <1>1, <2>2
    <3>2. t[i] = q[i] /\ ChatsAfter(t, i) = b + 1 /\ b \in Nat
      BY <1>1, <1>2, <3>1
    <3>3. b < x /\ q[i].body = {log[x - b]}
      BY <1>4, <1>8, <3>1, <3>2
    <3> HIDE DEF b
    <3>4. x - b \in 1..x /\ (x + 1) - (b + 1) = x - b /\ b + 1 < x + 1
      BY <1>1, <3>2, <3>3
    <3> QED
      BY <1>1, <3>2, <3>3, <3>4
  <2> QED
    BY <2>1, <2>2
<1>9. v + (a + 1) >= Len(Trim(l))
  <2>1. /\ Len(Trim(log)) = IF x > MaxRecent THEN MaxRecent ELSE x
        /\ Len(Trim(l)) = IF x + 1 > MaxRecent THEN MaxRecent ELSE x + 1
    BY <1>1, TrimIsEnd DEF x
  <2> QED
    BY <1>1, <1>4, <1>5, <2>1, BoundsAssumption
<1>10. Heard(view, t, l)
  BY <1>1, <1>5, <1>6, <1>7, <1>8, <1>9 DEF Heard, v
<1> QED
  BY <1>10 DEF t, l

LEMMA HeardOtherRead ==
  ASSUME NEW q \in Seq(Responses), q # <<>>, Head(q).type # "CHAT",
         NEW view, NEW log, Heard(view, q, log)
  PROVE  Heard(view, Tail(q), log)
<1> DEFINE t == Tail(q)
<1>1. /\ Len(q) \in Nat /\ Len(q) > 0 /\ Len(t) = Len(q) - 1
      /\ \A i \in 1..Len(t) : t[i] = q[i + 1] /\ i + 1 \in 1..Len(q)
  BY EmptySeq
<1>2. \A i \in 0..Len(t) : ChatsAfter(t, i) = ChatsAfter(q, i + 1)
  BY ChatsTail
<1> HIDE DEF t
<1>3. ChatsAfter(t, 0) = ChatsAfter(q, 0)
  BY <1>1, <1>2, ChatsFirst
<1>4. \A i \in 1..Len(t) : ChatsAfter(t, i) = ChatsAfter(q, i + 1)
  BY <1>1, <1>2
<1> QED
  BY <1>1, <1>3, <1>4 DEF Heard, t

\* The client appends the message that it reads.
LEMMA HeardRead ==
  ASSUME NEW q \in Seq(Responses), q # <<>>, Head(q).type = "CHAT", NEW c \in Head(q).body,
         NEW view \in Seq(Chats), NEW log \in Seq(Chats), Heard(view, q, log), c \in Chats
  PROVE  Heard(Append(view, c), Tail(q), log)
<1> DEFINE t == Tail(q)
           w == Append(view, c)
           x == Len(log)
           a == ChatsAfter(q, 1)
           v == Len(view)
<1>1. /\ Len(q) \in Nat /\ Len(q) > 0 /\ Len(t) = Len(q) - 1
      /\ \A i \in 1..Len(t) : t[i] = q[i + 1] /\ i + 1 \in 1..Len(q)
      /\ Head(q) = q[1] /\ 1 \in 1..Len(q) /\ 0 \in 0..Len(t)
      /\ x \in Nat /\ v \in Nat /\ Len(w) = v + 1 /\ w[v + 1] = c
      /\ \A k \in 1..v : w[k] = view[k]
  BY EmptySeq
<1>2. \A i \in 0..Len(t) : ChatsAfter(t, i) = ChatsAfter(q, i + 1)
  BY ChatsTail
<1>3. ChatsAfter(t, 0) = a /\ ChatsAfter(q, 0) = a + 1 /\ a \in Nat
  <2>1. ChatsAfter(t, 0) = ChatsAfter(q, 0 + 1) /\ 0 + 1 = 1 /\ 1 \in Nat
    BY <1>1, <1>2
  <2>2. ChatsAfter(q, 0) = a + 1
    BY ChatsFirst
  <2>3. a \in Nat
    BY <2>1, ChatsFinite
  <2> QED
    BY <2>1, <2>2, <2>3
<1>4. /\ v + (a + 1) <= x
      /\ \A k \in 1..v : view[k] = log[x - (a + 1) - v + k]
      /\ \A i \in 1..Len(q) : q[i].type = "CHAT" =>
           ChatsAfter(q, i) < x /\ q[i].body = {log[x - ChatsAfter(q, i)]}
      /\ v + (a + 1) >= Len(Trim(log))
  BY <1>3 DEF Heard
<1>5. c = log[x - a]
  BY <1>1, <1>4
<1> HIDE DEF t, w, x, a, v
<1>6. (v + 1) + a <= x /\ (v + 1) + a >= Len(Trim(log))
  BY <1>1, <1>3, <1>4
<1>7. ASSUME NEW k \in 1..(v + 1) PROVE w[k] = log[x - a - (v + 1) + k]
  <2>1. CASE k = v + 1
    <3>1. x - a - (v + 1) + k = x - a
      BY <1>1, <1>3, <2>1
    <3> QED
      BY <1>1, <1>5, <2>1, <3>1
  <2>2. CASE k # v + 1
    <3>1. k \in 1..v /\ x - a - (v + 1) + k = x - (a + 1) - v + k
      BY <1>1, <1>3, <2>2
    <3> QED
      BY <1>1, <1>4, <3>1
  <2> QED
    BY <2>1, <2>2
<1>8. ASSUME NEW i \in 1..Len(t), t[i].type = "CHAT"
      PROVE  ChatsAfter(t, i) < x /\ t[i].body = {log[x - ChatsAfter(t, i)]}
  <2>1. i \in 0..Len(t) /\ i + 1 \in 1..Len(q) /\ t[i] = q[i + 1]
    BY <1>1
  <2> QED
    BY <1>2, <1>4, <1>8, <2>1
<1>9. Heard(w, t, log)
  BY <1>1, <1>3, <1>6, <1>7, <1>8 DEF Heard, x
<1> QED
  BY <1>9 DEF t, w

-----------------------------------------------------------------------------
(* What who joins is sent: OPEN, the last messages, the list, the text.    *)

History(q, n) ==
  /\ q \in Seq(Responses) /\ Len(q) = n + 3
  /\ q[1].type = "OPEN" /\ q[n + 2].type = "SET" /\ q[n + 3].type = "LOAD"
  /\ \A i \in 1..n : q[i + 1] = Payload("CHAT", {chatMessages[i]})

LEMMA JoinSends ==
  ASSUME IInv, NEW u \in Users, Join(u), phase[u] # "gone"
  PROVE  /\ phase[u] = "opening" /\ toServer[u] # <<>>
         /\ History(toClient'[u], Len(chatMessages))
         /\ toClient'[u][Len(chatMessages) + 2].body = participants \cup {u}
<1> DEFINE chats == [i \in 1..Len(chatMessages) |-> Payload("CHAT", {chatMessages[i]})]
           set == Payload("SET", participants \cup {u})
           load == Payload("LOAD", crdt)
           open == Payload("OPEN", {})
           n == Len(chatMessages)
           answer == <<open>> \o chats \o <<set, load>>
<1>1. TypeOK
  BY DEF IInv
<1>2. phase[u] = "opening" /\ toServer[u] # <<>> /\ toClient[u] = <<>>
  BY OpenIsFirst DEF Join, Request
<1>3. toClient'[u] = Deliver(toClient[u], u, answer)
  BY <1>1 DEF Join, SendTo, TypeOK, ConnectionTypeOK
<1>4. /\ open \in Responses /\ set \in Responses /\ load \in Responses /\ n \in Nat
      /\ open.type = "OPEN" /\ set.type = "SET" /\ load.type = "LOAD"
      /\ set.body = participants \cup {u}
  BY <1>1 DEF Payload, Responses, TypeOK, FileTypeOK
<1>5. /\ chats \in Seq(Responses) /\ Len(chats) = n
      /\ \A i \in 1..n : chats[i] = Payload("CHAT", {chatMessages[i]})
  <2>1. \A i \in 1..n : Payload("CHAT", {chatMessages[i]}) \in Responses
    BY <1>1 DEF TypeOK, FileTypeOK, Payload, Responses
  <2> QED
    BY <1>4, <2>1
<1> HIDE DEF chats, set, load, open, n
<1>6. /\ <<open>> \o chats \in Seq(Responses) /\ Len(<<open>> \o chats) = n + 1
      /\ (<<open>> \o chats)[1] = open
      /\ \A i \in 1..n : (<<open>> \o chats)[i + 1] = chats[i]
  <2>1. <<open>> \in Seq(Responses) /\ Len(<<open>>) = 1 /\ <<open>>[1] = open
    BY <1>4
  <2> DEFINE one == <<open>>
  <2> HIDE DEF one
  <2>2. /\ one \o chats \in Seq(Responses) /\ Len(one \o chats) = n + 1
        /\ (one \o chats)[1] = open
        /\ \A i \in 1..n : (one \o chats)[i + 1] = chats[i]
    BY <1>4, <1>5, <2>1 DEF one
  <2> QED
    BY <2>2 DEF one
<1> DEFINE head == <<open>> \o chats
<1> HIDE DEF head
<1>7. /\ answer \in Seq(Responses) /\ Len(answer) = n + 3
      /\ answer[n + 2] = set /\ answer[n + 3] = load
      /\ \A i \in 1..(n + 1) : answer[i] = head[i]
  <2>1. /\ <<set, load>> \in Seq(Responses) /\ Len(<<set, load>>) = 2
        /\ <<set, load>>[1] = set /\ <<set, load>>[2] = load
    BY <1>4
  <2> DEFINE two == <<set, load>>
  <2> HIDE DEF two
  <2>2. head \in Seq(Responses) /\ Len(head) = n + 1
    BY <1>6 DEF head
  <2>3. /\ head \o two \in Seq(Responses) /\ Len(head \o two) = n + 3
        /\ (head \o two)[n + 2] = set /\ (head \o two)[n + 3] = load
        /\ \A i \in 1..(n + 1) : (head \o two)[i] = head[i]
    BY <1>4, <2>1, <2>2 DEF two
  <2> QED
    BY <2>3 DEF head, two
<1>8. answer[1] = open /\ \A i \in 1..n : answer[i + 1] = Payload("CHAT", {chatMessages[i]})
  BY <1>4, <1>5, <1>6, <1>7 DEF head
<1> HIDE DEF answer
<1>9. toClient'[u] = answer
  BY <1>2, <1>3, <1>7, ConcatEmptySeq DEF Deliver, Connected
<1> QED
  BY <1>2, <1>4, <1>7, <1>8, <1>9 DEF History, n

LEMMA HistoryShown ==
  ASSUME NEW n \in Nat, NEW q, History(q, n), NEW online, NEW v \in Users
  PROVE  v \in ShownAfter(online, q) <=> v \in q[n + 2].body
<1>1. /\ q \in Seq(Responses) /\ Len(q) = n + 3 /\ n + 2 \in 1..Len(q)
      /\ \A i \in 1..Len(q) : i > n + 2 => q[i].type = "LOAD"
      /\ q[n + 2].type = "SET"
  BY DEF History
<1>2. Decides(q, n + 2, v)
  BY <1>1 DEF Decides, Speaks
<1>3. \A i \in 1..Len(q) : Decides(q, i, v) => i = n + 2
  BY <1>1, <1>2 DEF Decides
<1>4. ~Silent(q, v)
  BY <1>1 DEF Silent, Speaks
<1> QED
  BY <1>1, <1>2, <1>3, <1>4, ShownWhere DEF Shows

LEMMA HistoryHeard ==
  ASSUME NEW q, NEW log \in Seq(Chats), chatMessages = Trim(log), History(q, Len(chatMessages))
  PROVE  Heard(<<>>, q, log)
<1> DEFINE n == Len(chatMessages)
           x == Len(log)
<1>1. /\ chatMessages \in Seq(Chats) /\ n \in Nat /\ x \in Nat /\ n <= x
      /\ \A k \in 1..n : chatMessages[k] = log[x - n + k]
  BY TrimIsEnd, BoundsAssumption
<1>2. /\ q \in Seq(Responses) /\ Len(q) = n + 3
      /\ q[1].type = "OPEN" /\ q[n + 2].type = "SET" /\ q[n + 3].type = "LOAD"
      /\ \A i \in 1..n : q[i + 1] = Payload("CHAT", {chatMessages[i]})
  BY DEF History
<1> HIDE DEF n, x
<1>3. /\ \A i \in 1..(n + 3) : q[i].type = "CHAT" <=> i \in 2..(n + 1)
      /\ \A i \in 2..(n + 1) : q[i].body = {chatMessages[i - 1]}
  <2>1. \A i \in 2..(n + 1) : i - 1 \in 1..n /\ (i - 1) + 1 = i
    BY <1>1
  <2>2. \A i \in 2..(n + 1) : q[i] = Payload("CHAT", {chatMessages[i - 1]})
    BY <1>2, <2>1
  <2>3. \A i \in 1..(n + 3) : i \in 2..(n + 1) \/ i = 1 \/ i = n + 2 \/ i = n + 3
    BY <1>1
  <2>4. 1 \notin 2..(n + 1) /\ n + 2 \notin 2..(n + 1) /\ n + 3 \notin 2..(n + 1)
    BY <1>1
  <2>5. ASSUME NEW i \in 2..(n + 1)
        PROVE  q[i].type = "CHAT" /\ q[i].body = {chatMessages[i - 1]}
    <3>1. q[i] = Payload("CHAT", {chatMessages[i - 1]})
      BY <2>2
    <3> QED
      BY <3>1 DEF Payload
  <2>6. q[1].type # "CHAT" /\ q[n + 2].type # "CHAT" /\ q[n + 3].type # "CHAT"
    BY <1>2
  <2> QED
    BY <2>3, <2>4, <2>5, <2>6
<1>4. ASSUME NEW i \in 0..(n + 1)
      PROVE  ChatsAfter(q, i) = IF i = 0 THEN n ELSE n + 1 - i
  <2> DEFINE first == IF i = 0 THEN 2 ELSE i + 1
  <2>1. i \in Nat /\ first \in Int /\ n + 1 \in Int
    BY <1>1
  <2>2. ChatPlaces(q, i) = first..(n + 1)
    <3>1. DOMAIN q = 1..(n + 3)
      BY <1>2
    <3>2. \A j \in 1..(n + 3) : j \in first..(n + 1) <=> j > i /\ j \in 2..(n + 1)
      BY <1>1, <2>1
    <3>3. \A j \in first..(n + 1) : j \in 1..(n + 3)
      BY <1>1, <2>1
    <3> HIDE DEF first
    <3> QED
      BY <1>3, <3>1, <3>2, <3>3 DEF ChatPlaces
  <2> HIDE DEF first
  <2>3. Cardinality(first..(n + 1)) = IF first > n + 1 THEN 0 ELSE (n + 1) - first + 1
    BY <2>1, FS_Interval
  <2>4. ChatsAfter(q, i) = Cardinality(first..(n + 1))
    BY <1>2, <2>1, <2>2, ChatsFinite
  <2> QED
    BY <1>1, <2>3, <2>4 DEF first
<1>5. ChatsAfter(q, 0) = n
  BY <1>1, <1>4
<1>6. ASSUME NEW i \in 1..(n + 3), q[i].type = "CHAT"
      PROVE  ChatsAfter(q, i) < x /\ q[i].body = {log[x - ChatsAfter(q, i)]}
  <2>1. i \in 2..(n + 1) /\ i \in 0..(n + 1) /\ i # 0 /\ i - 1 \in 1..n
    BY <1>1, <1>3, <1>6
  <2>2. ChatsAfter(q, i) = n + 1 - i
    BY <1>4, <2>1
  <2>3. n + 1 - i < x /\ x - (n + 1 - i) = x - n + (i - 1)
    BY <1>1, <2>1
  <2> QED
    BY <1>1, <1>3, <2>1, <2>2, <2>3
<1>7. Len(<<>>) = 0
  OBVIOUS
<1>8. 0 + n <= x /\ 0 + n >= Len(Trim(log))
  BY <1>1 DEF n
<1> QED
  BY <1>2, <1>5, <1>6, <1>7, <1>8 DEF Heard, x

-----------------------------------------------------------------------------
(* Steps that say nothing new to a client.                                 *)

Mute(m) == m.type \notin {"CHAT", "SET", "ADDED", "REMOVED"}
QuietRoom(s, t) ==
  \/ t = s
  \/ s # <<>> /\ t = Tail(s) /\ Mute(Head(s))
  \/ \E m \in Responses : t = Append(s, m) /\ Mute(m)

LEMMA QuietRoomKeeps ==
  ASSUME NEW s \in Seq(Responses), NEW t, QuietRoom(s, t)
  PROVE  /\ \A online : ShownAfter(online, t) = ShownAfter(online, s)
         /\ \A view \in Seq(Chats), log \in Seq(Chats) : Heard(view, s, log) => Heard(view, t, log)
<1>1. CASE t = s
  BY <1>1
<1>2. CASE s # <<>> /\ t = Tail(s) /\ Mute(Head(s))
  <2>1. Head(s) \in Responses
    BY <1>2, EmptySeq
  <2>2. \A online : Presence(online, Head(s)) = online
    BY <1>2 DEF Presence, Mute
  <2>3. \A online : ShownAfter(Presence(online, Head(s)), t) = ShownAfter(online, s)
    BY <1>2, ShownTail
  <2>4. \A view, log : Heard(view, s, log) => Heard(view, t, log)
    BY <1>2, HeardOtherRead DEF Mute
  <2> QED
    BY <2>2, <2>3, <2>4
<1>3. ASSUME NEW m \in Responses, t = Append(s, m), Mute(m)
      PROVE  /\ \A online : ShownAfter(online, t) = ShownAfter(online, s)
             /\ \A view \in Seq(Chats), log \in Seq(Chats) :
                  Heard(view, s, log) => Heard(view, t, log)
  <2>1. \A v \in Users : ~Speaks(m, v)
    BY <1>3 DEF Mute, Speaks
  <2>2. ASSUME NEW online PROVE ShownAfter(online, t) = ShownAfter(online, s)
    <3>1. \A v \in Users : v \in ShownAfter(online, t) <=> v \in ShownAfter(online, s)
      BY <1>3, <2>1, ShownAppend
    <3> QED
      BY <3>1 DEF ShownAfter
  <2>3. m.type # "CHAT"
    BY <1>3 DEF Mute
  <2>4. \A view \in Seq(Chats), log \in Seq(Chats) : Heard(view, s, log) => Heard(view, t, log)
    BY <1>3, <2>3, HeardOther
  <2> QED
    BY <2>2, <2>4
<1> QED
  BY <1>1, <1>2, <1>3 DEF QuietRoom

\* A client that listened before and is told nothing keeps its room.
LEMMA RoomKept ==
  ASSUME RInv, NEW v \in Users, chatLog' = chatLog,
         Listens(v)' => /\ Listens(v) /\ Announced(v)' = Announced(v)
                        /\ QuietRoom(toClient[v], toClient'[v])
                        /\ chatView'[v] = chatView[v] /\ onlineView'[v] = onlineView[v]
  PROVE  Room(v)'
<1>1. /\ toClient[v] \in Seq(Responses) /\ chatView[v] \in Seq(Chats) /\ chatLog \in Seq(Chats)
  BY DEF RInv, IInv, TypeOK, ConnectionTypeOK, ClientTypeOK, HistoryTypeOK
<1> SUFFICES ASSUME Listens(v)'
             PROVE  /\ ShownAfter(onlineView'[v], toClient'[v]) = Announced(v)'
                    /\ Heard(chatView'[v], toClient'[v], chatLog')
  BY DEF Room
<1>2. ShownAfter(onlineView[v], toClient[v]) = Announced(v) /\ Heard(chatView[v], toClient[v], chatLog)
  BY DEF RInv, Room
<1> QED
  BY <1>1, <1>2, QuietRoomKeeps

\* What users do themselves.
LEMMA RoomUser ==
  ASSUME RInv, NEW u \in Users, UserAction(u), NEW v \in Users
  PROVE  Room(v)'
<1>1. TypeOK /\ Fits(u)
  BY DEF RInv, IInv, Conversation
<1>2. UNCHANGED <<participants, main, chatLog>>
  BY DEF UserAction, SendOpen, MakeEdit, Say, IllegalEdit, AskReload, SendQuit, Break,
     fileVars, threadVars, historyVars
<1>3. CASE SendOpen(u)
  BY <1>1, <1>2, <1>3, RoomKept DEF SendOpen, Fits, Listens, Connected, Announced, QuietRoom,
     TypeOK, ClientTypeOK
<1>4. CASE Break(u)
  <2>1. v # u => toClient'[v] = toClient[v] /\ phase'[v] = phase[v]
    BY <1>1, <1>4 DEF Break, TypeOK, ConnectionTypeOK, ClientTypeOK
  <2>2. phase'[u] = "gone" /\ chatView' = chatView /\ onlineView' = onlineView
    BY <1>1, <1>4 DEF Break, TypeOK, ClientTypeOK
  <2> QED
    BY <1>2, <2>1, <2>2, RoomKept DEF Listens, Connected, Announced, QuietRoom
<1>5. CASE \/ \E e \in Edits : MakeEdit(u, e)
           \/ \E m \in Chats : Say(u, m)
           \/ IllegalEdit(u) \/ AskReload(u) \/ SendQuit(u)
  <2>1. /\ UNCHANGED <<toClient, chatView, onlineView>>
        /\ phase'[v] = phase[v] \/ phase[v] # "gone"
    BY <1>1, <1>5 DEF MakeEdit, Say, IllegalEdit, AskReload, SendQuit, netVars, clientVars,
       TypeOK, ClientTypeOK
  <2> QED
    BY <1>2, <2>1, RoomKept DEF Listens, Connected, Announced, QuietRoom
<1> QED
  BY <1>3, <1>4, <1>5 DEF UserAction

\* A client reads its channel.
LEMMA RoomReceive ==
  ASSUME RInv, NEW u \in Users, Receive(u), NEW v \in Users
  PROVE  Room(v)'
<1>1. TypeOK /\ Fits(u) /\ Room(u)
  BY DEF RInv, IInv, Conversation
<1>2. /\ UNCHANGED <<participants, main, chatLog>>
      /\ toClient[u] # <<>> /\ toClient[u] \in Seq(Responses)
      /\ chatView[u] \in Seq(Chats) /\ chatLog \in Seq(Chats)
      /\ toClient'[u] = Tail(toClient[u])
      /\ v # u => /\ toClient'[v] = toClient[v] /\ phase'[v] = phase[v]
                  /\ chatView'[v] = chatView[v] /\ onlineView'[v] = onlineView[v]
  BY <1>1 DEF Receive, ReceiveOpen, ReceiveReject, ReceiveLoad, ReceiveEdit, ReceiveChat,
     ReceivePresence, ReceiveQuit, Response, Took, fileVars, threadVars, historyVars,
     TypeOK, ConnectionTypeOK, ClientTypeOK, HistoryTypeOK
<1>3. Connected(u)
  BY <1>1, <1>2 DEF Fits, Connected
<1>4. CASE v # u
  BY <1>2, <1>4, RoomKept DEF Listens, Connected, Announced, QuietRoom
<1>5. CASE ReceiveOpen(u) \/ ReceiveReject(u) \/ ReceiveLoad(u) \/ ReceiveEdit(u) \/ ReceiveQuit(u)
  <2>1. chatView' = chatView /\ onlineView' = onlineView /\ Mute(Head(toClient[u]))
    BY <1>5 DEF ReceiveOpen, ReceiveReject, ReceiveLoad, ReceiveEdit, ReceiveQuit, Response, Mute
  <2>2. CASE v = u
    BY <1>2, <1>3, <2>1, <2>2, RoomKept DEF Listens, Announced, QuietRoom
  <2> QED
    BY <1>4, <2>2
<1>6. CASE ReceiveChat(u)
  <2> SUFFICES ASSUME v = u, Listens(u)
               PROVE  /\ ShownAfter(onlineView'[u], toClient'[u]) = Announced(u)'
                      /\ Heard(chatView'[u], toClient'[u], chatLog')
    BY <1>2, <1>3, <1>4 DEF Room, Listens
  <2>1. /\ Head(toClient[u]).type = "CHAT" /\ onlineView' = onlineView
        /\ \E m \in Head(toClient[u]).body : chatView'[u] = Append(chatView[u], m)
    BY <1>1, <1>6 DEF ReceiveChat, Response, TypeOK, ClientTypeOK
  <2>2. Head(toClient[u]).body \subseteq Chats
    <3>1. Head(toClient[u]) \in Responses
      BY <1>2, EmptySeq
    <3> QED
      BY <2>1, <3>1 DEF Responses
  <2>3. Heard(chatView'[u], toClient'[u], chatLog')
    BY <1>1, <1>2, <2>1, <2>2, HeardRead DEF Room
  <2>4. Presence(onlineView[u], Head(toClient[u])) = onlineView[u]
    BY <2>1 DEF Presence
  <2>5. ShownAfter(onlineView[u], toClient'[u]) = ShownAfter(onlineView[u], toClient[u])
    BY <1>2, <2>4, ShownTail
  <2> QED
    BY <1>1, <1>2, <2>1, <2>3, <2>5 DEF Room, Announced
<1>7. CASE ReceivePresence(u)
  <2> SUFFICES ASSUME v = u, Listens(u)
               PROVE  /\ ShownAfter(onlineView'[u], toClient'[u]) = Announced(u)'
                      /\ Heard(chatView'[u], toClient'[u], chatLog')
    BY <1>2, <1>3, <1>4 DEF Room, Listens
  <2>1. /\ Head(toClient[u]).type # "CHAT" /\ chatView' = chatView
        /\ onlineView'[u] = Presence(onlineView[u], Head(toClient[u]))
    BY <1>1, <1>7 DEF ReceivePresence, Response, TypeOK, ClientTypeOK
  <2>2. Heard(chatView'[u], toClient'[u], chatLog')
    BY <1>1, <1>2, <2>1, HeardOtherRead DEF Room
  <2>3. ShownAfter(onlineView'[u], toClient'[u]) = ShownAfter(onlineView[u], toClient[u])
    BY <1>2, <2>1, ShownTail
  <2> QED
    BY <1>1, <1>2, <2>2, <2>3 DEF Room, Announced
<1> QED
  BY <1>5, <1>6, <1>7 DEF Receive

\* The main thread handles a request.  Who joins is sent the list and the
\* last messages; the others are told later.
LEMMA RoomJoin ==
  ASSUME RInv, NEW u \in Users, Join(u), NEW v \in Users
  PROVE  Room(v)'
<1>1. TypeOK /\ IInv /\ chatMessages = Trim(chatLog) /\ Blank(u) /\ main = Idle
  BY NobodyBusy DEF RInv, IInv, Join, Request
<1>2. /\ UNCHANGED <<chatLog, chatMessages, phase, chatView, onlineView>>
      /\ participants' = participants \cup {u} /\ u \notin participants
      /\ main' = [task |-> "joined", user |-> u, text |-> {}]
      /\ \A w \in Users : w # u => toClient'[w] = toClient[w]
  BY <1>1 DEF Join, clientVars, SendTo, TypeOK, ConnectionTypeOK
<1>3. CASE v # u
  <2>1. Announced(v)' = Announced(v)
    BY <1>1, <1>2, <1>3 DEF Announced, Idle
  <2> QED
    BY <1>2, <1>3, <2>1, RoomKept DEF Listens, Connected, QuietRoom
<1>4. CASE v = u
  <2> SUFFICES ASSUME phase[u] # "gone"
               PROVE  /\ ShownAfter(onlineView'[u], toClient'[u]) = Announced(u)'
                      /\ Heard(chatView'[u], toClient'[u], chatLog')
    BY <1>2, <1>4 DEF Room, Listens, Connected
  <2> DEFINE n == Len(chatMessages)
             q == toClient'[u]
  <2>1. /\ phase[u] = "opening" /\ toServer[u] # <<>>
        /\ History(q, n) /\ q[n + 2].body = participants \cup {u}
    BY <1>1, JoinSends
  <2>2. n \in Nat /\ participants \cup {u} \subseteq Users /\ chatLog \in Seq(Chats)
    BY <1>1 DEF TypeOK, FileTypeOK, HistoryTypeOK
  <2> HIDE DEF n, q
  <2>3. \A w \in Users : w \in ShownAfter(onlineView[u], q) <=> w \in participants \cup {u}
    BY <2>1, <2>2, HistoryShown
  <2>4. ShownAfter(onlineView[u], q) = participants \cup {u}
    BY <2>2, <2>3 DEF ShownAfter
  <2>5. Announced(u)' = participants \cup {u}
    BY <1>2 DEF Announced
  <2>6. chatView[u] = <<>>
    BY <1>1, <2>1 DEF Blank
  <2>7. Heard(<<>>, q, chatLog)
    BY <1>1, <2>1, <2>2, HistoryHeard DEF n
  <2> QED
    BY <1>2, <2>4, <2>5, <2>6, <2>7 DEF q
<1> QED
  BY <1>3, <1>4

LEMMA RoomHandle ==
  ASSUME RInv, NEW u \in Users, Handle(u), NEW v \in Users
  PROVE  Room(v)'
<1>1. TypeOK /\ IInv /\ Fits(u) /\ main = Idle
  BY NobodyBusy DEF RInv, IInv, Conversation, Handle, RejectOpen, Join, Redirect, HandleEdit,
     HandleChat, ReadText, Leave, LeaveNothing, Request
<1>2. CASE Join(u)
  BY <1>2, RoomJoin
<1>3. CASE RejectOpen(u)
  <2>1. /\ UNCHANGED <<participants, main, chatLog, phase, chatView, onlineView>>
        /\ toClient'[v] = toClient[v] \/ toClient'[v] = toClient[v] \o <<Payload("REJECT", {})>>
    BY <1>1, <1>3 DEF RejectOpen, SendTo, Deliver, fileVars, threadVars, clientVars, historyVars,
       TypeOK, ConnectionTypeOK
  <2>2. u \notin participants /\ (v # u => toClient'[v] = toClient[v])
    BY <1>1, <1>3, OpenIsFirst DEF RejectOpen, SendTo, TypeOK, ConnectionTypeOK
  <2> QED
    BY <2>1, <2>2, RoomKept DEF Listens, Connected, Announced, QuietRoom
<1>4. CASE Redirect(u)
  <2>1. UNCHANGED <<participants, main, chatLog, toClient, chatView, onlineView>>
    BY <1>4 DEF Redirect, fileVars, threadVars, historyVars
  <2>2. u \notin participants /\ (v # u => phase'[v] = phase[v])
    BY <1>1, <1>4, OpenIsFirst DEF Redirect, TypeOK, ClientTypeOK
  <2> QED
    BY <2>1, <2>2, RoomKept DEF Listens, Connected, Announced, QuietRoom
<1>5. CASE HandleEdit(u) \/ HandleChat(u) \/ ReadText(u)
  <2>1. /\ UNCHANGED <<participants, chatLog, toClient, phase, chatView, onlineView>>
        /\ main' = main \/ main'.task = "reload"
    BY <1>5 DEF HandleEdit, HandleChat, ReadText, fileVars, threadVars, clientVars, historyVars
  <2>2. Announced(v)' = Announced(v)
    BY <1>1, <2>1 DEF Announced, Idle
  <2> QED
    BY <2>1, <2>2, RoomKept DEF Listens, Connected, QuietRoom
<1>6. ASSUME NEW type \in {"QUIT", "DISCONNECT"}, Leave(u, type) PROVE Room(v)'
  <2>1. /\ UNCHANGED <<chatLog, toClient, phase, chatView, onlineView>>
        /\ participants' = participants \ {u} /\ u \in participants
        /\ main'.task = type /\ main'.user = u
    BY <1>6 DEF Leave, clientVars, historyVars
  <2>2. Announced(v)' = Announced(v)
    BY <1>1, <2>1 DEF Announced, Idle
  <2> QED
    BY <2>1, <2>2, RoomKept DEF Listens, Connected, QuietRoom
<1>7. ASSUME NEW type \in {"QUIT", "DISCONNECT"}, LeaveNothing(u, type) PROVE Room(v)'
  <2>1. /\ UNCHANGED <<participants, main, chatLog, chatView, onlineView>> /\ u \notin participants
        /\ v # u => toClient'[v] = toClient[v] /\ phase'[v] = phase[v]
    BY <1>1, <1>7 DEF LeaveNothing, SendTo, Finish, fileVars, threadVars, historyVars,
       TypeOK, ConnectionTypeOK, ClientTypeOK
  <2> QED
    BY <2>1, RoomKept DEF Listens, Connected, Announced, QuietRoom
<1> QED
  BY <1>2, <1>3, <1>4, <1>5, <1>6, <1>7 DEF Handle

\* A message to everybody who listens.
LEMMA Told ==
  ASSUME RInv, NEW v \in Users, Listens(v), NEW m \in Responses, NEW channel,
         channel = Deliver(toClient[v], v, <<m>>)
  PROVE  channel = Append(toClient[v], m)
<1>1. toClient[v] \in Seq(Responses) /\ Connected(v)
  BY DEF RInv, IInv, TypeOK, ConnectionTypeOK, Listens
<1>2. toClient[v] \o <<m>> = Append(toClient[v], m)
  BY <1>1
<1> QED
  BY <1>1, <1>2 DEF Deliver

\* The main thread tells the participants who has joined or left.
LEMMA RoomAnnounce ==
  ASSUME RInv, AnnounceJoin \/ AnnounceLeave, NEW v \in Users
  PROVE  Room(v)'
<1> DEFINE x == main.user
           m == IF main.task = "joined" THEN Payload("ADDED", {x}) ELSE Payload("REMOVED", {x})
<1>1. TypeOK /\ MainFits /\ Room(v) /\ x \in Users /\ participants \subseteq Users
  BY DEF RInv, IInv, Conversation, AnnounceJoin, AnnounceLeave, TypeOK, FileTypeOK, ThreadTypeOK, Idle
<1>2. /\ UNCHANGED <<participants, chatLog, chatView, onlineView>> /\ main' = Idle
      /\ v # x => phase'[v] = phase[v]
  BY <1>1 DEF AnnounceJoin, AnnounceLeave, Finish, fileVars, clientVars, historyVars,
     TypeOK, ClientTypeOK
<1>3. m \in Responses /\ m.type # "CHAT" /\ m.body = {x}
  BY <1>1 DEF Payload, Responses
<1>4. CASE AnnounceJoin /\ v = x
  <2>1. phase' = phase /\ toClient'[v] = toClient[v] /\ main.task = "joined"
    BY <1>4, <1>1 DEF AnnounceJoin, clientVars, Relay
  <2>2. Announced(v)' = Announced(v)
    BY <1>2, <1>4, <2>1 DEF Announced, Idle
  <2> QED
    BY <1>2, <2>1, <2>2, RoomKept DEF Listens, Connected, QuietRoom
<1>5. CASE ~ (AnnounceJoin /\ v = x)
  <2> SUFFICES ASSUME Listens(v)'
               PROVE  /\ ShownAfter(onlineView'[v], toClient'[v]) = Announced(v)'
                      /\ Heard(chatView'[v], toClient'[v], chatLog')
    BY DEF Room
  <2>1. v \in participants
    BY <1>2 DEF Listens
  <2>2. v # x
    BY <1>1, <1>5, <2>1 DEF AnnounceLeave, AnnounceJoin, MainFits
  <2>3. Listens(v)
    BY <1>2, <2>1, <2>2 DEF Listens, Connected
  <2>4. toClient'[v] = Deliver(toClient[v], v, <<m>>)
    BY <1>1, <2>1, <2>2 DEF AnnounceJoin, AnnounceLeave, Relay, TypeOK, ConnectionTypeOK
  <2>5. Announced(v)' = participants
    BY <1>2 DEF Announced, Idle
  <2>6. /\ toClient[v] \in Seq(Responses) /\ chatView[v] \in Seq(Chats) /\ chatLog \in Seq(Chats)
    BY <1>1 DEF TypeOK, ConnectionTypeOK, ClientTypeOK, HistoryTypeOK
  <2>7. \A w \in Users : Speaks(m, w) <=> w = x
    BY <1>3 DEF Speaks, Payload
  <2>8. Shows(m, x) <=> main.task = "joined"
    BY <1>3 DEF Shows, Payload
  <2> HIDE DEF m, x
  <2>9. toClient'[v] = Append(toClient[v], m)
    BY <1>3, <2>3, <2>4, Told
  <2>10. Heard(chatView'[v], toClient'[v], chatLog')
    BY <1>1, <1>2, <1>3, <2>3, <2>6, <2>9, HeardOther DEF Room
  <2>11. ASSUME NEW w \in Users
         PROVE  w \in ShownAfter(onlineView[v], toClient'[v]) <=>
                  IF w = x THEN main.task = "joined" ELSE w \in ShownAfter(onlineView[v], toClient[v])
    BY <1>3, <2>6, <2>7, <2>8, <2>9, ShownAppend
  <2>12. ShownAfter(onlineView[v], toClient[v]) =
           IF main.task = "joined" THEN participants \ {x} ELSE participants \cup {x}
    BY <1>1, <2>2, <2>3 DEF Room, Announced, AnnounceJoin, AnnounceLeave, x
  <2>13. x \in participants <=> main.task = "joined"
    BY <1>1 DEF MainFits, AnnounceJoin, AnnounceLeave, x
  <2>14. \A w \in Users : w \in ShownAfter(onlineView[v], toClient'[v]) <=> w \in participants
    BY <2>11, <2>12, <2>13
  <2>15. ShownAfter(onlineView[v], toClient'[v]) = participants
    BY <1>1, <2>14 DEF ShownAfter
  <2> QED
    BY <1>2, <2>5, <2>10, <2>15
<1> QED
  BY <1>4, <1>5

LEMMA RoomContinue ==
  ASSUME RInv, Continue, NEW v \in Users
  PROVE  Room(v)'
<1>1. TypeOK /\ MainFits
  BY DEF RInv, IInv, Conversation
<1>2. CASE AnnounceJoin \/ AnnounceLeave
  BY <1>2, RoomAnnounce
<1>3. CASE SendText
  <2> DEFINE m == Payload("LOAD", main.text)
  <2>1. /\ UNCHANGED <<participants, chatLog, phase, chatView, onlineView>>
        /\ main.task = "reload" /\ main' = Idle
        /\ toClient'[v] = toClient[v] \/ toClient'[v] = Deliver(toClient[v], v, <<m>>)
    BY <1>1, <1>3 DEF SendText, SendTo, fileVars, clientVars, historyVars, TypeOK, ConnectionTypeOK
  <2>2. Announced(v)' = Announced(v)
    BY <2>1 DEF Announced, Idle
  <2>3. m \in Responses /\ Mute(m)
    BY <1>1, <2>1 DEF Payload, Responses, Mute, TypeOK, ThreadTypeOK, Idle
  <2> HIDE DEF m
  <2>4. Listens(v) => QuietRoom(toClient[v], toClient'[v])
    BY <2>1, <2>3, Told DEF QuietRoom
  <2> QED
    BY <2>1, <2>2, <2>4, RoomKept DEF Listens, Connected
<1>4. CASE Destroy
  BY <1>4, RoomKept DEF Destroy, fileVars, netVars, clientVars, historyVars, Listens, Connected,
     Announced, QuietRoom
<1> QED
  BY <1>2, <1>3, <1>4 DEF Continue

\* The consumer relays a chat message, and the file keeps it.
LEMMA RoomChat ==
  ASSUME RInv, DeliverChat, NEW v \in Users
  PROVE  Room(v)' /\ chatMessages' = Trim(chatLog')
<1> DEFINE m == Payload("CHAT", item.body)
<1>1. TypeOK /\ Alone(item) /\ Room(v) /\ chatMessages = Trim(chatLog)
  BY DEF RInv, IInv, Said
<1>2. PICK c \in Chats : item.body = {c}
  BY <1>1 DEF Alone, DeliverChat
<1>3. /\ UNCHANGED <<participants, main, phase, chatView, onlineView>>
      /\ chatMessages' = Trim(Append(chatMessages, c)) /\ chatLog' = Append(chatLog, c)
      /\ Relay(m, item.username)
  BY <1>2 DEF DeliverChat, clientVars
<1>4. chatMessages' = Trim(chatLog')
  <2>1. chatLog \in Seq(Chats)
    BY <1>1 DEF TypeOK, HistoryTypeOK
  <2> QED
    BY <1>1, <1>3, <2>1, TrimAppend
<1>5. item.username \notin Users
  BY <1>1, UsersAssumption DEF DeliverChat, TypeOK, ThreadTypeOK, Items
<1>6. m \in Responses /\ m.type = "CHAT" /\ m.body = {c}
  BY <1>2 DEF Payload, Responses
<1> HIDE DEF m
<1>7. ASSUME Listens(v)'
      PROVE  /\ ShownAfter(onlineView'[v], toClient'[v]) = Announced(v)'
             /\ Heard(chatView'[v], toClient'[v], chatLog')
  <2>1. Listens(v)
    BY <1>3, <1>7 DEF Listens, Connected
  <2>2. toClient'[v] = Deliver(toClient[v], v, <<m>>)
    BY <1>3, <1>5, <2>1 DEF Relay, Listens
  <2>3. toClient'[v] = Append(toClient[v], m)
    BY <1>6, <2>1, <2>2, Told
  <2>4. toClient[v] \in Seq(Responses) /\ chatView[v] \in Seq(Chats) /\ chatLog \in Seq(Chats)
    BY <1>1 DEF TypeOK, ConnectionTypeOK, ClientTypeOK, HistoryTypeOK
  <2>5. Heard(chatView[v], toClient[v], chatLog)
    BY <1>1, <2>1 DEF Room
  <2>6. Heard(chatView'[v], toClient'[v], chatLog')
    <3>1. Heard(chatView[v], Append(toClient[v], m), Append(chatLog, c))
      BY <1>6, <2>4, <2>5, HeardSaid
    <3>2. chatView' = chatView /\ chatLog' = Append(chatLog, c)
      BY <1>3
    <3> QED
      BY <2>3, <3>1, <3>2
  <2>7. \A w \in Users : w \in ShownAfter(onlineView[v], toClient'[v]) <=>
                           w \in ShownAfter(onlineView[v], toClient[v])
    <3>1. \A w \in Users : ~Speaks(m, w)
      BY <1>6 DEF Speaks
    <3> QED
      BY <1>6, <2>3, <2>4, <3>1, ShownAppend
  <2>8. ShownAfter(onlineView[v], toClient'[v]) = ShownAfter(onlineView[v], toClient[v])
    BY <2>7 DEF ShownAfter
  <2>9. Announced(v)' = Announced(v)
    BY <1>3 DEF Announced
  <2> QED
    BY <1>1, <1>3, <2>1, <2>6, <2>8, <2>9 DEF Room
<1> QED
  BY <1>4, <1>7 DEF Room

LEMMA RoomConsume ==
  ASSUME RInv, Consume, NEW v \in Users
  PROVE  Room(v)'
<1>1. TypeOK
  BY DEF RInv, IInv
<1>2. CASE Take \/ Apply
  BY <1>2, RoomKept DEF Take, Apply, netVars, clientVars, historyVars, Listens, Connected,
     Announced, QuietRoom
<1>3. CASE DeliverEdit
  <2> DEFINE m == Payload("CRDT", item.body)
  <2>1. /\ UNCHANGED <<participants, main, chatLog, phase, chatView, onlineView>>
        /\ toClient'[v] = toClient[v] \/ toClient'[v] = Deliver(toClient[v], v, <<m>>)
    BY <1>3 DEF DeliverEdit, Relay, fileVars, clientVars, historyVars
  <2>2. m \in Responses /\ Mute(m)
    BY <1>1, <1>3 DEF DeliverEdit, Payload, Responses, Mute, TypeOK, ThreadTypeOK, Items
  <2> HIDE DEF m
  <2>3. Listens(v) => QuietRoom(toClient[v], toClient'[v])
    BY <2>1, <2>2, Told DEF QuietRoom
  <2> QED
    BY <2>1, <2>3, RoomKept DEF Listens, Connected, Announced
<1>4. CASE DeliverChat
  BY <1>4, RoomChat
<1> QED
  BY <1>2, <1>3, <1>4 DEF Consume

-----------------------------------------------------------------------------
(* Chat messages travel alone, and who waits shows none.                   *)

LEMMA AloneKept ==
  ASSUME NEW S, NEW s \in Seq(S), \A i \in 1..Len(s) : Alone(s[i])
  PROVE  /\ s # <<>> => Alone(Head(s)) /\ \A i \in 1..Len(Tail(s)) : Alone(Tail(s)[i])
         /\ \A m \in S : Alone(m) => \A i \in 1..Len(Append(s, m)) : Alone(Append(s, m)[i])
         /\ \A k \in 0..Len(s) : \A i \in 1..Len(SubSeq(s, 1, k)) : Alone(SubSeq(s, 1, k)[i])
<1>1. s # <<>> => Alone(Head(s)) /\ \A i \in 1..Len(Tail(s)) : Alone(Tail(s)[i])
  <2> SUFFICES ASSUME s # <<>> PROVE Alone(Head(s)) /\ \A i \in 1..Len(Tail(s)) : Alone(Tail(s)[i])
    OBVIOUS
  <2>1. Head(s) = s[1] /\ 1 \in 1..Len(s)
    BY EmptySeq
  <2>2. \A i \in 1..Len(Tail(s)) : Tail(s)[i] = s[i + 1] /\ i + 1 \in 1..Len(s)
    OBVIOUS
  <2> QED
    BY <2>1, <2>2
<1>2. ASSUME NEW m \in S, Alone(m), NEW i \in 1..Len(Append(s, m)) PROVE Alone(Append(s, m)[i])
  <2>1. (i \in 1..Len(s) /\ Append(s, m)[i] = s[i]) \/ Append(s, m)[i] = m
    OBVIOUS
  <2> QED
    BY <1>2, <2>1
<1>3. ASSUME NEW k \in 0..Len(s), NEW i \in 1..Len(SubSeq(s, 1, k)) PROVE Alone(SubSeq(s, 1, k)[i])
  <2>1. i \in 1..Len(s) /\ SubSeq(s, 1, k)[i] = s[i]
    OBVIOUS
  <2> QED
    BY <2>1
<1> QED
  BY <1>1, <1>2, <1>3

\* The requests of a client after it sends one.
LEMMA AloneSent ==
  ASSUME TypeOK, Said, NEW u \in Users, NEW type, NEW body, Payload(type, body) \in Requests,
         Alone(Payload(type, body)), Send(u, type, body), NEW v \in Users
  PROVE  \A i \in 1..Len(toServer'[v]) : Alone(toServer'[v][i])
<1>1. toServer[v] \in Seq(Requests) /\ \A i \in 1..Len(toServer[v]) : Alone(toServer[v][i])
  BY DEF TypeOK, ConnectionTypeOK, Said
<1>2. toServer'[v] = IF v = u THEN Append(toServer[v], Payload(type, body)) ELSE toServer[v]
  BY DEF Send, TypeOK, ConnectionTypeOK
<1> QED
  BY <1>1, <1>2, AloneKept

LEMMA SaidUser ==
  ASSUME RInv, NEW u \in Users, UserAction(u) \/ Receive(u)
  PROVE  Said'
<1>1. TypeOK /\ Said
  BY DEF RInv, IInv
<1>2. UNCHANGED <<messages, item>>
  BY DEF UserAction, SendOpen, MakeEdit, Say, IllegalEdit, AskReload, SendQuit, Break, Receive,
     ReceiveOpen, ReceiveReject, ReceiveLoad, ReceiveEdit, ReceiveChat, ReceivePresence, ReceiveQuit,
     fileVars, threadVars
<1> SUFFICES ASSUME NEW v \in Users PROVE \A i \in 1..Len(toServer'[v]) : Alone(toServer'[v][i])
  BY <1>1, <1>2 DEF Said
<1>3. CASE UNCHANGED toServer
  BY <1>1, <1>3 DEF Said
<1>4. CASE SendOpen(u) \/ AskReload(u) \/ SendQuit(u) \/ ReceiveReject(u)
  <2>1. \E type \in {"OPEN", "LOAD", "QUIT"} : Send(u, type, {})
    BY <1>4 DEF SendOpen, AskReload, SendQuit, ReceiveReject
  <2>2. \A type \in {"OPEN", "LOAD", "QUIT"} :
          Payload(type, {}) \in Requests /\ Alone(Payload(type, {}))
    BY DEF Payload, Requests, Alone
  <2> QED
    BY <1>1, <2>1, <2>2, AloneSent
<1>5. ASSUME NEW e \in Edits, MakeEdit(u, e)
      PROVE  \A i \in 1..Len(toServer'[v]) : Alone(toServer'[v][i])
  <2>1. Payload("CRDT", {e}) \in Requests /\ Alone(Payload("CRDT", {e})) /\ Send(u, "CRDT", {e})
    BY <1>5 DEF Payload, Requests, Alone, MakeEdit
  <2> QED
    BY <1>1, <2>1, AloneSent
<1>6. ASSUME NEW m \in Chats, Say(u, m)
      PROVE  \A i \in 1..Len(toServer'[v]) : Alone(toServer'[v][i])
  <2>1. Payload("CHAT", {m}) \in Requests /\ Alone(Payload("CHAT", {m})) /\ Send(u, "CHAT", {m})
    BY <1>6 DEF Payload, Requests, Alone, Say
  <2> QED
    BY <1>1, <2>1, AloneSent
<1>7. CASE Break(u)
  <2>1. toServer[v] \in Seq(Requests) /\ \A i \in 1..Len(toServer[v]) : Alone(toServer[v][i])
    BY <1>1 DEF TypeOK, ConnectionTypeOK, Said
  <2>2. \/ toServer'[v] = toServer[v]
        \/ \E k \in 0..Len(toServer[v]) :
             toServer'[v] = Append(SubSeq(toServer[v], 1, k), Payload("DISCONNECT", {}))
    BY <1>1, <1>7 DEF Break, TypeOK, ConnectionTypeOK
  <2>3. Payload("DISCONNECT", {}) \in Requests /\ Alone(Payload("DISCONNECT", {}))
    BY DEF Payload, Requests, Alone
  <2>4. ASSUME NEW k \in 0..Len(toServer[v])
        PROVE  LET t == Append(SubSeq(toServer[v], 1, k), Payload("DISCONNECT", {}))
               IN  \A i \in 1..Len(t) : Alone(t[i])
    <3> DEFINE p == SubSeq(toServer[v], 1, k)
    <3>1. p \in Seq(Requests) /\ \A i \in 1..Len(p) : Alone(p[i])
      BY <2>1, AloneKept
    <3> HIDE DEF p
    <3>2. \A i \in 1..Len(Append(p, Payload("DISCONNECT", {}))) :
            Alone(Append(p, Payload("DISCONNECT", {}))[i])
      BY <2>3, <3>1, AloneKept
    <3> QED
      BY <3>2 DEF p
  <2> QED
    BY <2>1, <2>2, <2>4
<1> QED
  BY <1>3, <1>4, <1>5, <1>6, <1>7 DEF UserAction, IllegalEdit, Receive, ReceiveOpen, ReceiveLoad,
     ReceiveEdit, ReceiveChat, ReceivePresence, ReceiveQuit, netVars

LEMMA SaidServer ==
  ASSUME RInv, (\E u \in Users : Handle(u)) \/ Continue \/ Consume
  PROVE  Said'
<1>1. /\ TypeOK /\ Said /\ messages \in Seq(Items)
      /\ \A i \in 1..Len(messages) : Alone(messages[i])
      /\ \A v \in Users : /\ toServer[v] \in Seq(Requests)
                          /\ \A i \in 1..Len(toServer[v]) : Alone(toServer[v][i])
  BY DEF RInv, IInv, TypeOK, FileTypeOK, ConnectionTypeOK, Said
<1>2. ASSUME NEW u \in Users, Handle(u) PROVE Said'
  <2>1. UNCHANGED item /\ Pop(u) /\ toServer[u] # <<>>
    BY <1>2 DEF Handle, RejectOpen, Join, Redirect, HandleEdit, HandleChat, ReadText, Leave,
       LeaveNothing, threadVars, Request
  <2>2. \A v \in Users : toServer'[v] = IF v = u THEN Tail(toServer[v]) ELSE toServer[v]
    BY <1>1, <2>1 DEF Pop, TypeOK, ConnectionTypeOK
  <2>3. ASSUME NEW v \in Users PROVE \A i \in 1..Len(toServer'[v]) : Alone(toServer'[v][i])
    BY <1>1, <2>1, <2>2, AloneKept
  <2>4. \A i \in 1..Len(messages') : Alone(messages'[i])
    <3>1. CASE UNCHANGED messages
      BY <1>1, <3>1
    <3>2. CASE HandleEdit(u) \/ HandleChat(u)
      <4> DEFINE r == Head(toServer[u])
      <4>1. r \in Requests /\ Alone(r)
        BY <1>1, <2>1, AloneKept, EmptySeq
      <4>2. \E e \in Items : Alone(e) /\ messages' = Append(messages, e)
        <5>1. CASE HandleChat(u)
          <6>1. r.type = "CHAT" /\ messages' = Append(messages, Item("CHAT", r.body, All))
            BY <5>1 DEF HandleChat, Request, Produce
          <6>2. Item("CHAT", r.body, All) \in Items /\ Alone(Item("CHAT", r.body, All))
            BY <4>1, <6>1 DEF Item, Items, Alone, Requests
          <6> QED
            BY <6>1, <6>2
        <5>2. CASE HandleEdit(u)
          <6> DEFINE w == IF r.body \subseteq Alignments THEN All ELSE u
          <6>1. r.type = "CRDT" /\ messages' = Append(messages, Item("CRDT", r.body, w))
            BY <5>2 DEF HandleEdit, Request, Produce
          <6>2. Item("CRDT", r.body, w) \in Items /\ Alone(Item("CRDT", r.body, w))
            BY <4>1, <6>1 DEF Item, Items, Alone, Requests
          <6> QED
            BY <6>1, <6>2
        <5> QED
          BY <3>2, <5>1, <5>2
      <4> QED
        BY <1>1, <4>2, AloneKept
    <3> QED
      BY <1>2, <3>1, <3>2 DEF Handle, RejectOpen, Join, Redirect, ReadText, Leave, LeaveNothing, fileVars
  <2> QED
    BY <1>1, <2>1, <2>3, <2>4 DEF Said
<1>3. Alone(NoItem)
  BY DEF NoItem, Item, Alone
<1>4. CASE Continue
  <2>1. UNCHANGED toServer /\ (item' = item \/ item' = NoItem)
    BY <1>4 DEF Continue, AnnounceJoin, AnnounceLeave, SendText, Destroy, netVars
  <2>2. messages' = messages \/ messages' = Append(messages, NoItem)
    BY <1>4 DEF Continue, AnnounceJoin, AnnounceLeave, SendText, Destroy, fileVars, Produce, NoItem
  <2>3. NoItem \in Items
    BY DEF NoItem, Item, Items
  <2>4. \A i \in 1..Len(messages') : Alone(messages'[i])
    BY <1>1, <1>3, <2>2, <2>3, AloneKept
  <2> QED
    BY <1>1, <1>3, <2>1, <2>4 DEF Said
<1>5. CASE Consume
  <2>1. UNCHANGED toServer
    BY <1>5 DEF Consume, Take, DeliverEdit, Apply, DeliverChat, netVars
  <2>2. \/ messages # <<>> /\ messages' = Tail(messages) /\ item' \in {NoItem, Head(messages)}
        \/ messages' = messages /\ item' \in {NoItem, item}
    BY <1>5 DEF Consume, Take, HasWork, DeliverEdit, Apply, DeliverChat, fileVars
  <2>3. Alone(item') /\ \A i \in 1..Len(messages') : Alone(messages'[i])
    BY <1>1, <1>3, <2>2, AloneKept DEF Said
  <2> QED
    BY <1>1, <2>1, <2>3 DEF Said
<1> QED
  BY <1>2, <1>4, <1>5

LEMMA BlankStep ==
  ASSUME RInv, Next, NEW v \in Users
  PROVE  Blank(v)'
<1>1. TypeOK /\ Fits(v) /\ Blank(v)
  BY DEF RInv, IInv, Conversation
<1>2. CASE /\ phase'[v] = "opening" => phase[v] = "opening"
           /\ toServer'[v] # <<>> => toServer[v] # <<>>
           /\ chatView'[v] = chatView[v]
  BY <1>1, <1>2 DEF Blank
<1>3. ASSUME NEW u \in Users, UserAction(u) PROVE Blank(v)'
  <2>1. CASE v # u
    <3>1. phase'[v] = phase[v] /\ toServer'[v] = toServer[v] /\ chatView'[v] = chatView[v]
      BY <1>1, <1>3, <2>1 DEF UserAction, SendOpen, MakeEdit, Say, IllegalEdit, AskReload,
         SendQuit, Break, Send, clientVars, netVars, TypeOK, ConnectionTypeOK, ClientTypeOK
    <3> QED
      BY <1>2, <3>1
  <2>2. CASE v = u
    <3>1. phase'[v] # "opening" \/ chatView'[v] = <<>>
      BY <1>1, <1>3, <2>2 DEF UserAction, SendOpen, MakeEdit, Say, IllegalEdit, AskReload,
         SendQuit, Break, clientVars, TypeOK, ClientTypeOK
    <3> QED
      BY <3>1 DEF Blank
  <2> QED
    BY <2>1, <2>2
<1>4. ASSUME NEW u \in Users, Receive(u) PROVE Blank(v)'
  <2>1. CASE v # u
    <3>1. phase'[v] = phase[v] /\ toServer'[v] = toServer[v] /\ chatView'[v] = chatView[v]
      BY <1>1, <1>4, <2>1 DEF Receive, ReceiveOpen, ReceiveReject, ReceiveLoad, ReceiveEdit,
         ReceiveChat, ReceivePresence, ReceiveQuit, Send, TypeOK, ConnectionTypeOK, ClientTypeOK
    <3> QED
      BY <1>2, <3>1
  <2>2. CASE v = u
    <3>1. toClient[v] # <<>>
      BY <1>4, <2>2 DEF Receive, ReceiveOpen, ReceiveReject, ReceiveLoad, ReceiveEdit,
         ReceiveChat, ReceivePresence, ReceiveQuit, Response
    <3>2. phase[v] # "opening" \/ toServer[v] = <<>>
      BY <1>1, <3>1 DEF Fits
    <3>3. phase'[v] = "opening" => phase[v] = "opening" /\ toServer'[v] = toServer[v]
      BY <1>1, <1>4, <2>2 DEF Receive, ReceiveOpen, ReceiveReject, ReceiveLoad, ReceiveEdit,
         ReceiveChat, ReceivePresence, ReceiveQuit, TypeOK, ClientTypeOK
    <3> QED
      BY <3>2, <3>3 DEF Blank
  <2> QED
    BY <2>1, <2>2
<1>5. ASSUME NEW u \in Users, Handle(u) PROVE Blank(v)'
  <2>1. Pop(u) /\ toServer[u] # <<>> /\ chatView' = chatView
    BY <1>5 DEF Handle, RejectOpen, Join, Redirect, HandleEdit, HandleChat, ReadText, Leave,
       LeaveNothing, Request, clientVars
  <2>2. phase'[v] = "opening" => phase[v] = "opening"
    BY <1>1, <1>5 DEF Handle, RejectOpen, Join, Redirect, HandleEdit, HandleChat, ReadText, Leave,
       LeaveNothing, Finish, clientVars, TypeOK, ClientTypeOK
  <2>3. toServer'[v] # <<>> => toServer[v] # <<>>
    BY <1>1, <2>1 DEF Pop, TypeOK, ConnectionTypeOK
  <2> QED
    BY <1>2, <2>1, <2>2, <2>3
<1>6. CASE Continue \/ Consume
  <2>1. /\ toServer' = toServer /\ chatView' = chatView
        /\ phase'[v] = "opening" => phase[v] = "opening"
    BY <1>1, <1>6 DEF Continue, AnnounceJoin, AnnounceLeave, SendText, Destroy, Finish, Consume,
       Take, DeliverEdit, Apply, DeliverChat, netVars, clientVars, TypeOK, ClientTypeOK
  <2> QED
    BY <1>2, <2>1
<1> QED
  BY <1>3, <1>4, <1>5, <1>6 DEF Next

-----------------------------------------------------------------------------
(* The invariant and the theorems.                                         *)

LEMMA RInvInit == Init => RInv
<1> SUFFICES ASSUME Init PROVE RInv
  OBVIOUS
<1>1. Said
  BY DEF Init, Said, Alone, NoItem, Item
<1>2. chatMessages = Trim(chatLog)
  BY BoundsAssumption DEF Init, Trim
<1>3. \A u \in Users : Blank(u) /\ Room(u)
  BY DEF Init, Blank, Room, Listens
<1> QED
  BY <1>1, <1>2, <1>3, IInvInit DEF RInv

LEMMA RInvStep == RInv /\ IInv' /\ [Next]_vars => RInv'
<1> SUFFICES ASSUME RInv, IInv', [Next]_vars PROVE RInv'
  OBVIOUS
<1>1. CASE UNCHANGED vars
  <2>1. /\ UNCHANGED <<participants, messages, chatMessages, item, main, toServer, toClient, phase,
                       chatView, onlineView, chatLog>>
    BY <1>1 DEF vars, fileVars, threadVars, netVars, clientVars, historyVars
  <2>2. Said'
    BY <2>1 DEF RInv, Said
  <2>3. ASSUME NEW v \in Users PROVE Blank(v)' /\ Room(v)'
    BY <2>1 DEF RInv, Blank, Room, Listens, Connected, Announced
  <2> QED
    BY <2>1, <2>2, <2>3 DEF RInv
<1>2. CASE Next
  <2>1. Said'
    BY <1>2, SaidUser, SaidServer DEF Next
  <2>2. \A v \in Users : Blank(v)'
    BY <1>2, BlankStep
  <2>3. ASSUME NEW v \in Users PROVE Room(v)'
    BY <1>2, RoomUser, RoomReceive, RoomHandle, RoomContinue, RoomConsume DEF Next
  <2>4. chatMessages' = Trim(chatLog')
    <3>1. CASE DeliverChat
      <4>1. PICK c \in item.body : /\ chatMessages' = Trim(Append(chatMessages, c))
                                   /\ chatLog' = Append(chatLog, c)
        BY <3>1 DEF DeliverChat
      <4>2. chatMessages = Trim(chatLog) /\ chatLog \in Seq(Chats) /\ c \in Chats
        BY <3>1, <4>1 DEF DeliverChat, RInv, IInv, TypeOK, HistoryTypeOK, ThreadTypeOK, Items
      <4> QED
        BY <4>1, <4>2, TrimAppend
    <3>2. CASE ~DeliverChat
      <4>1. ASSUME NEW u \in Users, UserAction(u) PROVE UNCHANGED <<chatMessages, chatLog>>
        BY <4>1 DEF UserAction, SendOpen, MakeEdit, Say, IllegalEdit, AskReload, SendQuit, Break,
           fileVars, historyVars
      <4>2. ASSUME NEW u \in Users, Receive(u) PROVE UNCHANGED <<chatMessages, chatLog>>
        BY <4>2 DEF Receive, ReceiveOpen, ReceiveReject, ReceiveLoad, ReceiveEdit,
           ReceiveChat, ReceivePresence, ReceiveQuit, fileVars, historyVars
      <4>3. ASSUME NEW u \in Users, Handle(u) PROVE UNCHANGED <<chatMessages, chatLog>>
        BY <4>3 DEF Handle, RejectOpen, Join, Redirect, HandleEdit, HandleChat, ReadText, Leave,
           LeaveNothing, fileVars, historyVars
      <4>4. ASSUME AnnounceJoin \/ AnnounceLeave PROVE UNCHANGED <<chatMessages, chatLog>>
        BY <4>4 DEF AnnounceJoin, AnnounceLeave, fileVars, historyVars
      <4>5. ASSUME SendText \/ Destroy \/ Take \/ DeliverEdit \/ Apply
            PROVE  UNCHANGED <<chatMessages, chatLog>>
        BY <4>5 DEF SendText, Destroy, Take, DeliverEdit, Apply, fileVars, historyVars
      <4>6. chatMessages = Trim(chatLog)
        BY DEF RInv
      <4>7. CASE \E u \in Users : UserAction(u) \/ Receive(u) \/ Handle(u)
        BY <4>1, <4>2, <4>3, <4>6, <4>7
      <4>8. CASE Continue \/ Consume
        BY <3>2, <4>4, <4>5, <4>6, <4>8 DEF Continue, Consume
      <4> QED
        BY <1>2, <4>7, <4>8 DEF Next
    <3> QED
      BY <3>1, <3>2
  <2> QED
    BY <2>1, <2>2, <2>3, <2>4 DEF RInv
<1> QED
  BY <1>1, <1>2

LEMMA RoomInductive == Spec => []RInv
<1>1. RInv /\ IInv' /\ [Next]_vars => RInv'
  BY RInvStep
<1> QED
  BY RInvInit, Inductive, <1>1, PTL DEF Spec

\* Every participant's chat window shows the conversation without a gap or a
\* repetition, although the history comes from join, on the main thread, and
\* the rest from the consumer (KKFile::join, KKFile::deliverMessages).
THEOREM ChatHasNoGap == Spec => []ChatContiguous
<1>1. ASSUME RInv PROVE ChatContiguous
  <2> SUFFICES ASSUME NEW u \in participants, Connected(u)
               PROVE  /\ ShowsEnd(chatView[u], Len(chatLog) - ChatsAfter(toClient[u], 0))
                      /\ ContinuesWith(toClient[u])
                      /\ Len(chatView[u]) + ChatsAfter(toClient[u], 0) >= Len(Trim(chatLog))
    BY DEF ChatContiguous
  <2>1. u \in Users /\ TypeOK
    BY <1>1 DEF RInv, IInv, TypeOK, FileTypeOK
  <2>2. /\ toClient[u] \in Seq(Responses) /\ chatView[u] \in Seq(Chats) /\ chatLog \in Seq(Chats)
        /\ DOMAIN toClient[u] = 1..Len(toClient[u]) /\ DOMAIN chatView[u] = 1..Len(chatView[u])
    BY <2>1 DEF TypeOK, ConnectionTypeOK, ClientTypeOK, HistoryTypeOK
  <2>3. Heard(chatView[u], toClient[u], chatLog)
    BY <1>1, <2>1 DEF RInv, Room, Listens
  <2>4. ChatsAfter(toClient[u], 0) \in Nat
    BY <2>2, ChatsFinite
  <2>5. ShowsEnd(chatView[u], Len(chatLog) - ChatsAfter(toClient[u], 0))
    BY <2>2, <2>3, <2>4 DEF Heard, ShowsEnd
  <2>6. ContinuesWith(toClient[u])
    BY <2>2, <2>3 DEF Heard, ContinuesWith
  <2> QED
    BY <2>3, <2>5, <2>6 DEF Heard
<1> QED
  BY <1>1, RoomInductive, PTL

\* Between two requests of the main thread, every participant shows or is
\* about to show exactly the participants (KKFile::join, connectToFile and
\* disconnectFromFile of KKSession, KKChat).
THEOREM RoomIsShown == Spec => []PresenceAgrees
<1>1. ASSUME RInv PROVE PresenceAgrees
  <2> SUFFICES ASSUME MainIdle, NEW u \in participants, Connected(u)
               PROVE  ShownAfter(onlineView[u], toClient[u]) = participants
    BY DEF PresenceAgrees
  <2>1. u \in Users
    BY <1>1 DEF RInv, IInv, TypeOK, FileTypeOK
  <2> QED
    BY <1>1, <2>1 DEF RInv, Room, Listens, Announced, MainIdle
<1> QED
  BY <1>1, RoomInductive, PTL
=============================================================================
