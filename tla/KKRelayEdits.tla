---------------------------- MODULE KKRelayEdits ----------------------------
(***************************************************************************)
(* Where the edits of one open document are, between the keyboard of their *)
(* author and the document: the half of the inductive invariant behind     *)
(* Agreement, NoDuplicate, Causal and ImplementsDocument that is about the *)
(* server, and its proof for every set of users, edits and chat messages   *)
(* and every bound.  The other half, the clients', is in KKRelayViews.     *)
(***************************************************************************)
EXTENDS KKRelayProofs

-----------------------------------------------------------------------------
(* The pipeline of the server.  An edit is in one place at a time: on its  *)
(* way to the server, in the queue of the file, in the hands of the        *)
(* consumer or in the document; and every edit follows what its author had *)
(* seen when making it.                                                    *)

\* The edits of a queue of requests or of entries, all of them or those
\* before the i-th.
Has(s) == {e \in Edits : \E i \in 1..Len(s) : e \in s[i].body}
Ahead(s, i) == {e \in Edits : \E j \in 1..(i-1) : e \in s[j].body}

\* The edits of a queue are all different, none of them is one of base, and
\* each comes after what its author had seen (c), in base or in the queue.
Ordered(s, base, c) ==
  \A i \in 1..Len(s) : \A e \in Edits : e \in s[i].body =>
    /\ e \notin base /\ e \notin Ahead(s, i)
    /\ c[e] \subseteq base \cup Ahead(s, i)

\* The edit the consumer is working on.
Held == {e \in Edits : e \in item.body}

Pipeline ==
  /\ consumer \in {"wait", "stopped"} => item = NoItem
  /\ consumer = "destroyed" => closed /\ item.type # "CHAT"
  /\ \A e \in crdt : ctx[e] \subseteq crdt
  /\ consumer # "destroyed" =>
       /\ \A e \in Held : e \notin crdt /\ ctx[e] \subseteq crdt
       /\ Ordered(messages, crdt \cup Held, ctx)
       /\ \A u \in Users : Ordered(toServer[u], crdt \cup Held \cup Has(messages), ctx)

\* A CRDT request brings one edit of its sender; an entry of the queue knows
\* whom to leave out of its broadcast.
OneOf(u, m) == \E e \in issued : m.body = {e} /\ Author[e] = u
Excluding(m) ==
  \E e \in issued : m.body = {e} /\ m.username = IF e \in Alignments THEN All ELSE Author[e]

Shapes ==
  /\ \A u \in Users : \A i \in 1..Len(toServer[u]) :
       toServer[u][i].type = "CRDT" => OneOf(u, toServer[u][i])
  /\ \A i \in 1..Len(messages) : messages[i].type = "CRDT" => Excluding(messages[i])
  /\ item.type = "CRDT" => Excluding(item)
  /\ crdt \subseteq issued

-----------------------------------------------------------------------------
(* Lemmas about queues of edits.                                           *)

\* What is taken from the front of a queue leaves the others in place.
LEMMA TailFacts ==
  ASSUME NEW S, NEW s \in Seq(S), s # <<>>
  PROVE  /\ Head(s) = s[1] /\ s[1] \in S /\ Tail(s) \in Seq(S)
         /\ Len(s) \in Nat /\ Len(s) > 0 /\ Len(Tail(s)) = Len(s) - 1
         /\ \A i \in 1..Len(Tail(s)) : Tail(s)[i] = s[i + 1] /\ i + 1 \in 2..Len(s)
         /\ \A i \in 2..Len(s) : i - 1 \in 1..Len(Tail(s)) /\ Tail(s)[i - 1] = s[i]
OBVIOUS

LEMMA AppendFacts ==
  ASSUME NEW S, NEW s \in Seq(S), NEW m \in S
  PROVE  /\ Append(s, m) \in Seq(S) /\ s \o <<m>> = Append(s, m)
         /\ Len(s) \in Nat /\ Len(Append(s, m)) = Len(s) + 1
         /\ \A i \in 1..Len(s) : Append(s, m)[i] = s[i] /\ i \in 1..Len(Append(s, m))
         /\ Append(s, m)[Len(s) + 1] = m /\ Len(s) + 1 \in 1..Len(Append(s, m))
         /\ \A i \in 1..Len(Append(s, m)) : i \in 1..Len(s) \/ i = Len(s) + 1
<1>1. s \o <<m>> = Append(s, m)
  BY AppendIsConcat
<1> QED
  BY <1>1

LEMMA HasTail ==
  ASSUME NEW S, NEW s \in Seq(S), s # <<>>
  PROVE  /\ Has(s) = Has(Tail(s)) \cup {e \in Edits : e \in Head(s).body}
         /\ \A i \in 1..Len(Tail(s)) :
              Ahead(s, i + 1) = Ahead(Tail(s), i) \cup {e \in Edits : e \in Head(s).body}
<1> DEFINE t == Tail(s)
<1>1. /\ Head(s) = s[1] /\ Len(s) \in Nat /\ Len(s) > 0 /\ Len(t) = Len(s) - 1
      /\ \A i \in 1..Len(t) : t[i] = s[i + 1]
  BY TailFacts
<1> HIDE DEF t
<1>2. ASSUME NEW n \in Nat, n <= Len(t), NEW e \in Edits
      PROVE  (\E j \in 1..(n + 1) : e \in s[j].body)
               <=> (\E j \in 1..n : e \in t[j].body) \/ e \in s[1].body
  <2>1. ASSUME NEW j \in 1..(n + 1), e \in s[j].body
        PROVE  (\E k \in 1..n : e \in t[k].body) \/ e \in s[1].body
    <3>1. j # 1 => j - 1 \in 1..n /\ j - 1 \in 1..Len(t) /\ (j - 1) + 1 = j
      BY <1>1, <1>2
    <3> QED
      BY <1>1, <2>1, <3>1
  <2>2. ASSUME NEW j \in 1..n, e \in t[j].body PROVE \E k \in 1..(n + 1) : e \in s[k].body
    <3>1. j + 1 \in 1..(n + 1) /\ j \in 1..Len(t)
      BY <1>1, <1>2
    <3> QED
      BY <1>1, <2>2, <3>1
  <2>3. 1 \in 1..(n + 1)
    BY <1>2
  <2> QED
    BY <2>1, <2>2, <2>3
<1>3. Len(t) \in Nat /\ Len(s) = Len(t) + 1
  BY <1>1
<1>4. Has(s) = Has(t) \cup {e \in Edits : e \in Head(s).body}
  BY <1>1, <1>2, <1>3 DEF Has
<1>5. ASSUME NEW i \in 1..Len(t)
      PROVE  Ahead(s, i + 1) = Ahead(t, i) \cup {e \in Edits : e \in Head(s).body}
  <2>1. i - 1 \in Nat /\ i - 1 <= Len(t) /\ (i + 1) - 1 = (i - 1) + 1
    BY <1>3
  <2>2. \A e \in Edits : (\E j \in 1..((i - 1) + 1) : e \in s[j].body)
               <=> (\E j \in 1..(i - 1) : e \in t[j].body) \/ e \in s[1].body
    BY <1>2, <2>1
  <2> QED
    BY <1>1, <2>1, <2>2 DEF Ahead
<1> QED
  BY <1>4, <1>5 DEF t

LEMMA HasAppend ==
  ASSUME NEW S, NEW s \in Seq(S), NEW m \in S
  PROVE  /\ Has(Append(s, m)) = Has(s) \cup {e \in Edits : e \in m.body}
         /\ \A i \in 1..Len(s) : Ahead(Append(s, m), i) = Ahead(s, i)
         /\ Ahead(Append(s, m), Len(s) + 1) = Has(s)
<1> DEFINE t == Append(s, m)
<1>1. /\ Len(s) \in Nat /\ Len(t) = Len(s) + 1 /\ t[Len(s) + 1] = m
      /\ \A i \in 1..Len(s) : t[i] = s[i]
      /\ \A i \in 1..Len(t) : i \in 1..Len(s) \/ i = Len(s) + 1
      /\ \A i \in 1..Len(s) : i \in 1..Len(t)
      /\ Len(s) + 1 \in 1..Len(t)
  BY AppendFacts
<1> HIDE DEF t
<1>2. Has(t) = Has(s) \cup {e \in Edits : e \in m.body}
  BY <1>1 DEF Has
<1>3. \A i \in 1..Len(s) : \A j \in 1..(i - 1) : j \in 1..Len(s)
  BY <1>1
<1>4. \A i \in 1..Len(s) : Ahead(t, i) = Ahead(s, i)
  BY <1>1, <1>3 DEF Ahead
<1>5. (Len(s) + 1) - 1 = Len(s)
  BY <1>1
<1>6. Ahead(t, Len(s) + 1) = Has(s)
  BY <1>1, <1>5 DEF Ahead, Has
<1> QED
  BY <1>2, <1>4, <1>6 DEF t

\* Taking the first edits of an ordered queue.
LEMMA OrderedTail ==
  ASSUME NEW S, NEW s \in Seq(S), s # <<>>, NEW base, NEW c, Ordered(s, base, c)
  PROVE  /\ Ordered(Tail(s), base \cup {e \in Edits : e \in Head(s).body}, c)
         /\ \A e \in Edits : e \in Head(s).body =>
              e \notin base /\ e \notin Has(Tail(s)) /\ c[e] \subseteq base
<1> DEFINE t == Tail(s)
           H == {e \in Edits : e \in Head(s).body}
<1>1. /\ Head(s) = s[1] /\ Len(s) \in Nat /\ Len(s) > 0 /\ Len(t) = Len(s) - 1
      /\ \A i \in 1..Len(t) : t[i] = s[i + 1] /\ i + 1 \in 2..Len(s)
  BY TailFacts
<1>2. \A i \in 1..Len(t) : Ahead(s, i + 1) = Ahead(t, i) \cup H
  BY HasTail
<1>3. \A i \in 1..Len(t) : i + 1 \in 1..Len(s)
  BY <1>1
<1> HIDE DEF t, H
<1>4. ASSUME NEW i \in 1..Len(t), NEW e \in Edits, e \in t[i].body
      PROVE  /\ e \notin base \cup H /\ e \notin Ahead(t, i)
             /\ c[e] \subseteq (base \cup H) \cup Ahead(t, i)
  <2>1. /\ e \notin base /\ e \notin Ahead(s, i + 1)
        /\ c[e] \subseteq base \cup Ahead(s, i + 1)
    BY <1>1, <1>3, <1>4 DEF Ordered
  <2> QED
    BY <1>2, <2>1
<1>5. Ordered(t, base \cup H, c)
  BY <1>4 DEF Ordered
<1>6. ASSUME NEW e \in Edits, e \in Head(s).body
      PROVE  e \notin base /\ e \notin Has(t) /\ c[e] \subseteq base
  <2>1. 1 \in 1..Len(s) /\ Ahead(s, 1) = {}
    BY <1>1 DEF Ahead
  <2>2. e \notin base /\ c[e] \subseteq base
    BY <1>1, <1>6, <2>1 DEF Ordered
  <2>3. e \in H
    BY <1>6 DEF H
  <2> QED
    BY <1>4, <2>2, <2>3 DEF Has
<1> QED
  BY <1>5, <1>6 DEF t, H

\* An edit joins an ordered queue.
LEMMA OrderedAppend ==
  ASSUME NEW S, NEW s \in Seq(S), NEW m \in S, NEW base, NEW c, Ordered(s, base, c),
         \A e \in Edits : e \in m.body =>
           e \notin base /\ e \notin Has(s) /\ c[e] \subseteq base \cup Has(s)
  PROVE  Ordered(Append(s, m), base, c)
<1> DEFINE t == Append(s, m)
<1>1. /\ t[Len(s) + 1] = m /\ \A i \in 1..Len(s) : t[i] = s[i]
      /\ \A i \in 1..Len(t) : i \in 1..Len(s) \/ i = Len(s) + 1
  BY AppendFacts
<1>2. /\ \A i \in 1..Len(s) : Ahead(t, i) = Ahead(s, i)
      /\ Ahead(t, Len(s) + 1) = Has(s)
  BY HasAppend
<1> HIDE DEF t
<1>3. ASSUME NEW i \in 1..Len(t), NEW e \in Edits, e \in t[i].body
      PROVE  e \notin base /\ e \notin Ahead(t, i) /\ c[e] \subseteq base \cup Ahead(t, i)
  <2>1. CASE i \in 1..Len(s)
    BY <1>1, <1>2, <1>3, <2>1 DEF Ordered
  <2>2. CASE i = Len(s) + 1
    BY <1>1, <1>2, <1>3, <2>2
  <2> QED
    BY <1>1, <2>1, <2>2
<1> QED
  BY <1>3 DEF Ordered, t

\* What is ahead of a queue may grow, by edits that are not in it; and what
\* the authors of other edits had seen does not matter.
LEMMA OrderedWiden ==
  ASSUME NEW s, NEW base, NEW wider, NEW c, NEW d, Ordered(s, base, c),
         base \subseteq wider, \A e \in Has(s) : e \in wider => e \in base,
         \A e \in Has(s) : d[e] = c[e]
  PROVE  Ordered(s, wider, d)
<1>1. \A i \in 1..Len(s) : \A e \in Edits : e \in s[i].body => e \in Has(s)
  BY DEF Has
<1> QED
  BY <1>1 DEF Ordered

\* Only CRDT requests and entries carry edits.
LEMMA NoEdits ==
  ASSUME NEW m \in Requests \cup Items, m.type # "CRDT"
  PROVE  \A e \in Edits : e \notin m.body
BY ChatsAssumption DEF Requests, Items

\* A step that concerns no edit leaves a queue as it is, takes an entry of
\* another kind from it, or adds one.
SameEdits(S, s, t) ==
  \/ t = s
  \/ s # <<>> /\ t = Tail(s) /\ Head(s).type # "CRDT"
  \/ \E m \in S : t = Append(s, m) /\ m.type # "CRDT"

LEMMA SameEditsKeep ==
  ASSUME NEW S, S \subseteq Requests \cup Items, NEW s \in Seq(S), NEW t, SameEdits(S, s, t)
  PROVE  /\ Has(t) = Has(s)
         /\ \A base, c : Ordered(s, base, c) => Ordered(t, base, c)
         /\ \A i \in 1..Len(t) : t[i].type = "CRDT" => \E j \in 1..Len(s) : t[i] = s[j]
<1>1. CASE t = s
  BY <1>1
<1>2. CASE s # <<>> /\ t = Tail(s) /\ Head(s).type # "CRDT"
  <2>1. {e \in Edits : e \in Head(s).body} = {}
    <3>1. Head(s) \in S
      BY <1>2
    <3> QED
      BY <1>2, <3>1, NoEdits
  <2>2. Has(t) = Has(s)
    BY <1>2, <2>1, HasTail
  <2>3. ASSUME NEW base, NEW c, Ordered(s, base, c) PROVE Ordered(t, base, c)
    <3>1. Ordered(t, base \cup {e \in Edits : e \in Head(s).body}, c)
      BY <1>2, <2>3, OrderedTail
    <3>2. base \cup {e \in Edits : e \in Head(s).body} = base
      BY <2>1
    <3> QED
      BY <3>1, <3>2
  <2>4. \A i \in 1..Len(t) : t[i] = s[i + 1] /\ i + 1 \in 1..Len(s)
    BY <1>2
  <2> QED
    BY <2>2, <2>3, <2>4
<1>3. ASSUME NEW m \in S, t = Append(s, m), m.type # "CRDT"
      PROVE  /\ Has(t) = Has(s)
             /\ \A base, c : Ordered(s, base, c) => Ordered(t, base, c)
             /\ \A i \in 1..Len(t) : t[i].type = "CRDT" => \E j \in 1..Len(s) : t[i] = s[j]
  <2>1. \A e \in Edits : e \notin m.body
    BY <1>3, NoEdits
  <2>2. Has(t) = Has(s)
    <3>1. Has(Append(s, m)) = Has(s) \cup {e \in Edits : e \in m.body}
      BY HasAppend
    <3> QED
      BY <1>3, <2>1, <3>1
  <2>3. ASSUME NEW base, NEW c, Ordered(s, base, c) PROVE Ordered(t, base, c)
    BY <1>3, <2>1, <2>3, OrderedAppend
  <2>4. \A i \in 1..Len(t) : (i \in 1..Len(s) /\ t[i] = s[i]) \/ t[i] = m
    <3>1. /\ \A i \in 1..Len(s) : Append(s, m)[i] = s[i]
          /\ Append(s, m)[Len(s) + 1] = m
          /\ \A i \in 1..Len(Append(s, m)) : i \in 1..Len(s) \/ i = Len(s) + 1
      BY AppendFacts
    <3> QED
      BY <1>3, <3>1
  <2> QED
    BY <1>3, <2>2, <2>3, <2>4
<1> QED
  BY <1>1, <1>2, <1>3 DEF SameEdits

\* The connection breaks: the server still gets the first requests.
LEMMA OrderedPrefix ==
  ASSUME NEW S, NEW s \in Seq(S), NEW k \in 0..Len(s)
  PROVE  /\ SubSeq(s, 1, k) \in Seq(S) /\ Has(SubSeq(s, 1, k)) \subseteq Has(s)
         /\ \A base, c : Ordered(s, base, c) => Ordered(SubSeq(s, 1, k), base, c)
<1> DEFINE t == SubSeq(s, 1, k)
<1>1. /\ t \in Seq(S) /\ Len(t) = k /\ k \in Nat /\ k <= Len(s) /\ Len(s) \in Nat
      /\ \A i \in 1..k : t[i] = s[i]
  OBVIOUS
<1> HIDE DEF t
<1>2. \A i \in 1..k : i \in 1..Len(s) /\ \A j \in 1..(i - 1) : j \in 1..k
  BY <1>1
<1>3. Has(t) \subseteq Has(s) /\ \A i \in 1..k : Ahead(t, i) = Ahead(s, i)
  BY <1>1, <1>2 DEF Has, Ahead
<1>4. ASSUME NEW base, NEW c, Ordered(s, base, c) PROVE Ordered(t, base, c)
  BY <1>1, <1>2, <1>3, <1>4 DEF Ordered
<1> QED
  BY <1>1, <1>3, <1>4 DEF t

\* What the queues of edits are made of.
LEMMA PipelineTypes ==
  ASSUME TypeOK
  PROVE  /\ messages \in Seq(Items) /\ item \in Items /\ crdt \subseteq Edits
         /\ \A u \in Users : toServer[u] \in Seq(Requests)
         /\ \A u \in Users : toClient[u] \in Seq(Responses)
BY DEF TypeOK, FileTypeOK, ThreadTypeOK, ConnectionTypeOK

\* A step that moves no edit.
QuietStep ==
  /\ UNCHANGED <<crdt, ctx, issued>> /\ Held' = Held
  /\ item' = item \/ item'.type # "CRDT"
  /\ consumer' \in {"wait", "stopped"} => item' = NoItem
  /\ consumer' = "destroyed" => consumer = "destroyed" /\ item' = item
  /\ consumer' # "destroyed" => consumer # "destroyed"
  /\ closed => closed'
  /\ SameEdits(Items, messages, messages')
  /\ \A u \in Users : SameEdits(Requests, toServer[u], toServer'[u])

LEMMA QuietQueues ==
  ASSUME TypeOK, QuietStep
  PROVE  /\ Has(messages') = Has(messages)
         /\ \A u \in Users : Has(toServer'[u]) = Has(toServer[u])
BY PipelineTypes, SameEditsKeep DEF QuietStep

LEMMA PipelineQuiet ==
  ASSUME TypeOK, Pipeline, Shapes, QuietStep
  PROVE  Pipeline' /\ Shapes'
<1>1. messages \in Seq(Items) /\ \A u \in Users : toServer[u] \in Seq(Requests)
  BY PipelineTypes
<1>2. consumer # "destroyed" =>
        /\ Ordered(messages', crdt \cup Held, ctx)
        /\ \A u \in Users : Ordered(toServer'[u], crdt \cup Held \cup Has(messages), ctx)
  BY <1>1, SameEditsKeep DEF Pipeline, QuietStep
<1>3. Pipeline'
  BY <1>2, QuietQueues DEF Pipeline, QuietStep
<1>4. \A i \in 1..Len(messages') : messages'[i].type = "CRDT" =>
        \E j \in 1..Len(messages) : messages'[i] = messages[j]
  BY <1>1, SameEditsKeep DEF QuietStep
<1>5. \A u \in Users : \A i \in 1..Len(toServer'[u]) : toServer'[u][i].type = "CRDT" =>
        \E j \in 1..Len(toServer[u]) : toServer'[u][i] = toServer[u][j]
  BY <1>1, SameEditsKeep DEF QuietStep
<1>6. issued' = issued /\ crdt' = crdt /\ (item' = item \/ item'.type # "CRDT")
  BY DEF QuietStep
<1>7. ASSUME NEW i \in 1..Len(messages'), messages'[i].type = "CRDT"
      PROVE  Excluding(messages[i])'
  <2>1. PICK j \in 1..Len(messages) : messages'[i] = messages[j]
    BY <1>4, <1>7
  <2>2. PICK e \in issued : /\ messages[j].body = {e}
                           /\ messages[j].username = IF e \in Alignments THEN All ELSE Author[e]
    BY <1>7, <2>1 DEF Shapes, Excluding
  <2> QED
    BY <1>6, <2>1, <2>2 DEF Excluding
<1>8. ASSUME NEW u \in Users, NEW i \in 1..Len(toServer'[u]), toServer'[u][i].type = "CRDT"
      PROVE  OneOf(u, toServer[u][i])'
  <2>1. PICK j \in 1..Len(toServer[u]) : toServer'[u][i] = toServer[u][j]
    BY <1>5, <1>8
  <2>2. PICK e \in issued : toServer[u][j].body = {e} /\ Author[e] = u
    BY <1>8, <2>1 DEF Shapes, OneOf
  <2> QED
    BY <1>6, <2>1, <2>2 DEF OneOf
<1>9. item'.type = "CRDT" => Excluding(item)'
  BY <1>6 DEF Shapes, Excluding
<1>10. Shapes'
  BY <1>6, <1>7, <1>8, <1>9 DEF Shapes
<1> QED
  BY <1>3, <1>10

\* Requests that are no edits, on their way.
LEMMA SendQuiet ==
  ASSUME TypeOK, NEW u \in Users, NEW type, NEW body, type # "CRDT",
         Payload(type, body) \in Requests, Send(u, type, body)
  PROVE  \A v \in Users : SameEdits(Requests, toServer[v], toServer'[v])
<1>1. toServer'[u] = Append(toServer[u], Payload(type, body))
      /\ \A v \in Users : v # u => toServer'[v] = toServer[v]
  BY DEF Send, TypeOK, ConnectionTypeOK
<1>2. Payload(type, body).type # "CRDT"
  BY DEF Payload
<1> QED
  BY <1>1, <1>2 DEF SameEdits

LEMMA PopQuiet ==
  ASSUME TypeOK, NEW u \in Users, NEW type, type # "CRDT", Request(u, type), Pop(u)
  PROVE  \A v \in Users : SameEdits(Requests, toServer[v], toServer'[v])
BY DEF Request, Pop, SameEdits, TypeOK, ConnectionTypeOK

-----------------------------------------------------------------------------
(* The steps that move no edit.                                            *)

LEMMA QuietUser ==
  ASSUME TypeOK, Pipeline, NEW u \in Users,
         \/ SendOpen(u) \/ IllegalEdit(u) \/ AskReload(u) \/ SendQuit(u)
         \/ \E m \in Chats : Say(u, m)
  PROVE  QuietStep
<1>1. messages' = messages /\ UNCHANGED <<crdt, ctx, issued, item, consumer, closed>>
  BY DEF SendOpen, IllegalEdit, AskReload, SendQuit, Say, fileVars, threadVars, historyVars
<1>2. \A v \in Users : SameEdits(Requests, toServer[v], toServer'[v])
  <2>1. CASE SendOpen(u)
    BY <2>1, SendQuiet DEF SendOpen, Payload, Requests
  <2>2. CASE IllegalEdit(u)
    BY <2>2 DEF IllegalEdit, netVars, SameEdits
  <2>3. CASE AskReload(u)
    BY <2>3, SendQuiet DEF AskReload, Payload, Requests
  <2>4. CASE SendQuit(u)
    BY <2>4, SendQuiet DEF SendQuit, Payload, Requests
  <2>5. CASE \E m \in Chats : Say(u, m)
    <3>1. PICK m \in Chats : Say(u, m)
      BY <2>5
    <3>2. Payload("CHAT", {m}) \in Requests
      BY DEF Payload, Requests
    <3> QED
      BY <3>1, <3>2, SendQuiet DEF Say
  <2> QED
    BY <2>1, <2>2, <2>3, <2>4, <2>5
<1> QED
  BY <1>1, <1>2 DEF QuietStep, SameEdits, Held, Pipeline

LEMMA QuietReceive ==
  ASSUME TypeOK, Pipeline, NEW u \in Users, Receive(u)
  PROVE  QuietStep
<1>1. messages' = messages /\ UNCHANGED <<crdt, ctx, issued, item, consumer, closed>>
  BY DEF Receive, ReceiveOpen, ReceiveReject, ReceiveLoad, ReceiveEdit, ReceiveChat,
     ReceivePresence, ReceiveQuit, fileVars, threadVars, historyVars
<1>2. \A v \in Users : SameEdits(Requests, toServer[v], toServer'[v])
  <2>1. CASE ReceiveReject(u)
    BY <2>1, SendQuiet DEF ReceiveReject, Payload, Requests
  <2>2. CASE UNCHANGED toServer
    BY <2>2 DEF SameEdits
  <2> QED
    BY <2>1, <2>2 DEF Receive, ReceiveOpen, ReceiveLoad, ReceiveEdit, ReceiveChat,
       ReceivePresence, ReceiveQuit
<1> QED
  BY <1>1, <1>2 DEF QuietStep, SameEdits, Held, Pipeline

LEMMA QuietHandle ==
  ASSUME TypeOK, Pipeline, NEW u \in Users, Handle(u), ~HandleEdit(u)
  PROVE  QuietStep
<1>1. /\ UNCHANGED <<crdt, ctx, issued, item, consumer, closed>>
      /\ \E type \in {"OPEN", "CHAT", "LOAD", "QUIT", "DISCONNECT"} : Request(u, type) /\ Pop(u)
  BY DEF Handle, RejectOpen, Join, Redirect, HandleChat, ReadText, Leave, LeaveNothing,
     fileVars, threadVars, historyVars
<1>2. \A v \in Users : SameEdits(Requests, toServer[v], toServer'[v])
  BY <1>1, PopQuiet
<1>3. SameEdits(Items, messages, messages')
  <2>1. CASE HandleChat(u)
    <3> DEFINE m == Item("CHAT", Head(toServer[u]).body, All)
    <3>1. Head(toServer[u]) \in Requests /\ Head(toServer[u]).type = "CHAT"
      BY <2>1, PopType DEF HandleChat, Request
    <3>2. m \in Items /\ m.type # "CRDT"
      BY <3>1 DEF Item, Items, Requests
    <3>3. messages' = Append(messages, m)
      BY <2>1 DEF HandleChat, Produce
    <3> QED
      BY <3>2, <3>3 DEF SameEdits
  <2>2. CASE UNCHANGED messages
    BY <2>2 DEF SameEdits
  <2> QED
    BY <2>1, <2>2 DEF Handle, RejectOpen, Join, Redirect, ReadText, Leave, LeaveNothing, fileVars
<1> QED
  BY <1>1, <1>2, <1>3 DEF QuietStep, Held, Pipeline

LEMMA QuietContinue ==
  ASSUME TypeOK, Pipeline, AnnounceJoin \/ AnnounceLeave \/ SendText
  PROVE  QuietStep
<1>1. /\ UNCHANGED <<crdt, ctx, issued, item, consumer, toServer>>
      /\ closed => closed'
  BY DEF AnnounceJoin, AnnounceLeave, SendText, fileVars, historyVars
<1>2. SameEdits(Items, messages, messages')
  <2>1. Item("CLOSE", {}, All) \in Items /\ Item("CLOSE", {}, All).type # "CRDT"
    BY DEF Item, Items
  <2> QED
    BY <2>1 DEF AnnounceJoin, AnnounceLeave, SendText, fileVars, Produce, SameEdits
<1> QED
  BY <1>1, <1>2 DEF QuietStep, SameEdits, Held, Pipeline

LEMMA QuietConsume ==
  ASSUME TypeOK, Pipeline, DeliverEdit \/ DeliverChat \/ Take, Take => Head(messages).type # "CRDT"
  PROVE  QuietStep
<1>1. UNCHANGED <<crdt, ctx, issued, closed, toServer>>
  BY DEF DeliverEdit, DeliverChat, Take, fileVars, netVars, historyVars
<1>2. NoItem \in Items /\ NoItem.type # "CRDT"
  BY DEF NoItem, Item, Items
<1>3. CASE DeliverEdit
  BY <1>1, <1>3 DEF DeliverEdit, fileVars, QuietStep, SameEdits, Held
<1>4. CASE DeliverChat
  <2>1. item \in Items /\ item.type # "CRDT" /\ item' = NoItem /\ consumer = "deliver"
    BY <1>4, PipelineTypes DEF DeliverChat
  <2>2. Held = {} /\ Held' = {}
    BY <1>2, <2>1, NoEdits DEF Held
  <2> QED
    BY <1>1, <1>2, <1>4, <2>1, <2>2 DEF DeliverChat, QuietStep, SameEdits
<1>5. CASE Take
  <2>1. /\ consumer = "wait" /\ item = NoItem /\ messages # <<>> /\ messages' = Tail(messages)
        /\ Head(messages).type # "CRDT"
    BY <1>5 DEF Take, HasWork, Pipeline
  <2>2. item' \in Items /\ item'.type # "CRDT"
    BY <1>2, <1>5, <2>1, PipelineTypes DEF Take
  <2>3. Held = {} /\ Held' = {}
    BY <1>2, <2>1, <2>2, NoEdits DEF Held
  <2> QED
    BY <1>1, <1>5, <2>1, <2>2, <2>3 DEF Take, QuietStep, SameEdits
<1> QED
  BY <1>3, <1>4, <1>5

-----------------------------------------------------------------------------
(* The steps that move an edit.                                            *)

\* The edits of a channel to the server are its user's; every edit that the
\* server knows of or is about to has been made.
LEMMA WhoseEdits ==
  ASSUME TypeOK, Shapes
  PROVE  /\ \A u \in Users : \A e \in Has(toServer[u]) : e \in issued /\ Author[e] = u
         /\ Has(messages) \subseteq issued /\ Held \subseteq issued /\ crdt \subseteq issued
<1>1. ASSUME NEW u \in Users, NEW e \in Has(toServer[u]) PROVE e \in issued /\ Author[e] = u
  <2>1. PICK i \in 1..Len(toServer[u]) : e \in toServer[u][i].body /\ e \in Edits
    BY <1>1 DEF Has
  <2>2. toServer[u][i] \in Requests
    BY PipelineTypes
  <2>3. toServer[u][i].type = "CRDT"
    BY <2>1, <2>2, NoEdits
  <2> QED
    BY <2>1, <2>3 DEF Shapes, OneOf
<1>2. ASSUME NEW e \in Has(messages) PROVE e \in issued
  <2>1. PICK i \in 1..Len(messages) : e \in messages[i].body /\ e \in Edits
    BY <1>2 DEF Has
  <2>2. messages[i] \in Items
    BY PipelineTypes
  <2>3. messages[i].type = "CRDT"
    BY <2>1, <2>2, NoEdits
  <2> QED
    BY <2>1, <2>3 DEF Shapes, Excluding
<1>3. ASSUME NEW e \in Held PROVE e \in issued
  <2>1. e \in item.body /\ item \in Items /\ e \in Edits
    BY PipelineTypes DEF Held
  <2>2. item.type = "CRDT"
    BY <2>1, NoEdits
  <2> QED
    BY <2>1, <2>2 DEF Shapes, Excluding
<1> QED
  BY <1>1, <1>2, <1>3 DEF Shapes

\* An edit goes from its author's connection to the end of the queue.
LEMMA HandleEditFacts ==
  ASSUME TypeOK, Shapes, NEW u \in Users, HandleEdit(u)
  PROVE  \E e \in issued :
           LET m == Item("CRDT", {e}, IF e \in Alignments THEN All ELSE u)
           IN  /\ e \in Edits /\ Author[e] = u /\ {d \in Edits : d \in Head(toServer[u]).body} = {e}
               /\ m \in Items /\ messages' = Append(messages, m)
               /\ toServer[u] # <<>> /\ toServer'[u] = Tail(toServer[u])
               /\ \A v \in Users : v # u => toServer'[v] = toServer[v]
               /\ Head(toServer[u]).body = {e}
<1>1. toServer[u] \in Seq(Requests) /\ toServer[u] # <<>> /\ Head(toServer[u]).type = "CRDT"
  BY PipelineTypes DEF HandleEdit, Request
<1>2. Head(toServer[u]) = toServer[u][1] /\ 1 \in 1..Len(toServer[u])
  BY <1>1
<1>3. PICK e \in issued : Head(toServer[u]).body = {e} /\ Author[e] = u
  BY <1>1, <1>2 DEF Shapes, OneOf
<1>4. e \in Edits
  BY DEF TypeOK, HistoryTypeOK
<1> DEFINE m == Item("CRDT", {e}, IF e \in Alignments THEN All ELSE u)
<1>5. messages' = Append(messages, m)
  BY <1>3 DEF HandleEdit, Produce
<1>6. m \in Items
  BY <1>4 DEF Item, Items
<1>7. toServer'[u] = Tail(toServer[u]) /\ \A v \in Users : v # u => toServer'[v] = toServer[v]
  BY DEF HandleEdit, Pop, TypeOK, ConnectionTypeOK
<1>8. {d \in Edits : d \in Head(toServer[u]).body} = {e}
  BY <1>3, <1>4
<1> HIDE DEF m
<1> QED
  BY <1>1, <1>3, <1>4, <1>5, <1>6, <1>7, <1>8 DEF m

LEMMA PipelineHandleEdit ==
  ASSUME TypeOK, Pipeline, Shapes, NEW u \in Users, HandleEdit(u)
  PROVE  Pipeline' /\ Shapes'
<1> DEFINE B == crdt \cup Held
           Q == Has(messages)
<1>1. PICK e \in issued :
        LET m == Item("CRDT", {e}, IF e \in Alignments THEN All ELSE u)
        IN  /\ e \in Edits /\ Author[e] = u /\ {d \in Edits : d \in Head(toServer[u]).body} = {e}
            /\ m \in Items /\ messages' = Append(messages, m)
            /\ toServer[u] # <<>> /\ toServer'[u] = Tail(toServer[u])
            /\ \A v \in Users : v # u => toServer'[v] = toServer[v]
            /\ Head(toServer[u]).body = {e}
  BY HandleEditFacts
<1> DEFINE m == Item("CRDT", {e}, IF e \in Alignments THEN All ELSE u)
<1>2. UNCHANGED <<crdt, ctx, issued, item, consumer, closed>>
  BY DEF HandleEdit, threadVars, historyVars
<1>3. /\ messages \in Seq(Items) /\ toServer[u] \in Seq(Requests) /\ m \in Items
      /\ messages' = Append(messages, m) /\ m.body = {e} /\ m.type = "CRDT"
      /\ m.username = IF e \in Alignments THEN All ELSE Author[e]
  BY <1>1, PipelineTypes DEF Item
<1> HIDE DEF m
<1>4. Has(messages') = Q \cup {e}
  <2>1. Has(Append(messages, m)) = Has(messages) \cup {d \in Edits : d \in m.body}
    BY <1>3, HasAppend
  <2> QED
    BY <1>1, <1>3, <2>1
<1>5. Pipeline'
  <2> SUFFICES ASSUME consumer # "destroyed"
               PROVE  /\ Ordered(messages', B, ctx)
                      /\ \A v \in Users : Ordered(toServer'[v], B \cup (Q \cup {e}), ctx)
    BY <1>2, <1>4 DEF Pipeline, Held
  <2>1. /\ Ordered(messages, B, ctx)
        /\ \A v \in Users : Ordered(toServer[v], B \cup Q, ctx)
    BY DEF Pipeline
  <2> HIDE DEF B, Q
  <2>2. /\ Ordered(Tail(toServer[u]), (B \cup Q) \cup {e}, ctx)
        /\ e \notin B \cup Q /\ ctx[e] \subseteq B \cup Q
    <3>1. /\ Ordered(Tail(toServer[u]), (B \cup Q) \cup {d \in Edits : d \in Head(toServer[u]).body}, ctx)
          /\ \A d \in Edits : d \in Head(toServer[u]).body =>
               d \notin B \cup Q /\ d \notin Has(Tail(toServer[u])) /\ ctx[d] \subseteq B \cup Q
      BY <1>1, <1>3, <2>1, OrderedTail
    <3> QED
      BY <1>1, <3>1
  <2>3. Ordered(messages', B, ctx)
    <3>1. \A d \in Edits : d \in m.body =>
            d \notin B /\ d \notin Has(messages) /\ ctx[d] \subseteq B \cup Has(messages)
      BY <1>3, <2>2 DEF Q
    <3>2. Ordered(Append(messages, m), B, ctx)
      BY <1>3, <2>1, <3>1, OrderedAppend
    <3> QED
      BY <1>3, <3>2
  <2>4. ASSUME NEW v \in Users PROVE Ordered(toServer'[v], B \cup (Q \cup {e}), ctx)
    <3>1. CASE v = u
      <4>1. (B \cup Q) \cup {e} = B \cup (Q \cup {e})
        OBVIOUS
      <4> QED
        BY <1>1, <2>2, <3>1, <4>1
    <3>2. CASE v # u
      <4>1. e \notin Has(toServer[v])
        BY <1>1, <3>2, WhoseEdits
      <4>2. Ordered(toServer[v], B \cup (Q \cup {e}), ctx)
        BY <2>1, <4>1, OrderedWiden
      <4> QED
        BY <1>1, <3>2, <4>2
    <3> QED
      BY <3>1, <3>2
  <2> QED
    BY <2>3, <2>4
<1>6. Shapes'
  <2>1. \A v \in Users : \A i \in 1..Len(toServer'[v]) :
          \E j \in 1..Len(toServer[v]) : toServer'[v][i] = toServer[v][j]
    <3>1. \A i \in 1..Len(toServer'[u]) :
            toServer'[u][i] = toServer[u][i + 1] /\ i + 1 \in 1..Len(toServer[u])
      BY <1>1, <1>3
    <3>2. ASSUME NEW v \in Users, NEW i \in 1..Len(toServer'[v])
          PROVE  \E j \in 1..Len(toServer[v]) : toServer'[v][i] = toServer[v][j]
      <4>1. CASE v = u
        BY <3>1, <4>1
      <4>2. CASE v # u
        <5>1. toServer'[v] = toServer[v]
          BY <1>1, <4>2
        <5> QED
          BY <5>1
      <4> QED
        BY <4>1, <4>2
    <3> QED
      BY <3>2
  <2>2. \A v \in Users : \A i \in 1..Len(toServer'[v]) :
          toServer'[v][i].type = "CRDT" => OneOf(v, toServer'[v][i])
    BY <2>1 DEF Shapes
  <2>3. \A i \in 1..Len(messages') :
          \/ i \in 1..Len(messages) /\ messages'[i] = messages[i]
          \/ messages'[i] = m
    <3>1. /\ \A i \in 1..Len(messages) : Append(messages, m)[i] = messages[i]
          /\ Append(messages, m)[Len(messages) + 1] = m
          /\ \A i \in 1..Len(Append(messages, m)) : i \in 1..Len(messages) \/ i = Len(messages) + 1
      BY <1>3, AppendFacts
    <3> QED
      BY <1>3, <3>1
  <2>4. Excluding(m)
    BY <1>3 DEF Excluding
  <2>5. \A i \in 1..Len(messages') : messages'[i].type = "CRDT" => Excluding(messages'[i])
    BY <2>3, <2>4 DEF Shapes
  <2> QED
    BY <1>2, <2>2, <2>5 DEF Shapes, OneOf, Excluding
<1> QED
  BY <1>5, <1>6

\* The consumer takes an edit from the queue.
LEMMA PipelineTake ==
  ASSUME TypeOK, Pipeline, Shapes, Take, Head(messages).type = "CRDT"
  PROVE  Pipeline' /\ Shapes' /\ Held' = Head(messages).body
         /\ Has(messages) = Has(messages') \cup Held' /\ Held = {}
<1>1. /\ messages \in Seq(Items) /\ messages # <<>> /\ messages' = Tail(messages)
      /\ consumer = "wait" /\ consumer' = "deliver" /\ item' = Head(messages) /\ item = NoItem
      /\ UNCHANGED <<crdt, ctx, issued, closed, toServer>>
  BY PipelineTypes DEF Take, HasWork, Pipeline, netVars, historyVars
<1>2. Held = {}
  BY <1>1 DEF NoItem, Item, Held
<1>3. Held' = {e \in Edits : e \in Head(messages).body}
  BY <1>1 DEF Held
<1>4. Excluding(Head(messages))
  <2>1. Head(messages) = messages[1] /\ 1 \in 1..Len(messages)
    BY <1>1
  <2> QED
    BY <2>1 DEF Shapes
<1>5. Held' = Head(messages).body
  <2>1. issued \subseteq Edits
    BY DEF TypeOK, HistoryTypeOK
  <2> QED
    BY <1>3, <1>4, <2>1 DEF Excluding
<1>6. Has(messages) = Has(messages') \cup Held'
  BY <1>1, <1>3, HasTail
<1>7. /\ Ordered(messages', (crdt \cup Held) \cup Held', ctx)
      /\ \A e \in Edits : e \in Held' => e \notin crdt \cup Held /\ ctx[e] \subseteq crdt \cup Held
  BY <1>1, <1>3, OrderedTail DEF Pipeline
<1>8. Pipeline'
  <2>1. (crdt \cup Held) \cup Held' = crdt' \cup Held'
    BY <1>1, <1>2
  <2>2. crdt' \cup Held' \cup Has(messages') = crdt \cup Held \cup Has(messages)
    BY <1>1, <1>2, <1>6
  <2>3. \A e \in Held' : e \in Edits
    BY <1>3
  <2>4. \A u \in Users : Ordered(toServer'[u], crdt' \cup Held' \cup Has(messages'), ctx')
    BY <1>1, <2>2 DEF Pipeline
  <2>5. Ordered(messages', crdt' \cup Held', ctx')
    BY <1>1, <1>7, <2>1
  <2>6. \A e \in Held' : e \notin crdt' /\ ctx'[e] \subseteq crdt'
    BY <1>1, <1>2, <1>7, <2>3
  <2> QED
    BY <1>1, <2>4, <2>5, <2>6 DEF Pipeline
<1>9. Shapes'
  <2>1. \A i \in 1..Len(messages') : messages'[i] = messages[i + 1] /\ i + 1 \in 1..Len(messages)
    BY <1>1
  <2>2. \A i \in 1..Len(messages') : messages'[i].type = "CRDT" => Excluding(messages'[i])
    BY <2>1 DEF Shapes
  <2> QED
    BY <1>1, <1>4, <2>2 DEF Shapes, OneOf, Excluding
<1> QED
  BY <1>2, <1>5, <1>6, <1>8, <1>9

\* The consumer applies the edit it has sent.
LEMMA PipelineApply ==
  ASSUME TypeOK, Pipeline, Shapes, Apply
  PROVE  Pipeline' /\ Shapes' /\ Held' = {} /\ crdt' = crdt \cup Held
<1>1. /\ item' = NoItem /\ crdt' = crdt \cup item.body /\ consumer = "apply" /\ consumer' = "wait"
      /\ UNCHANGED <<messages, ctx, issued, closed, toServer>>
  BY DEF Apply, netVars, historyVars
<1>2. /\ item.type = "CRDT" /\ \E e \in issued : item.body = {e}
  BY <1>1 DEF TypeOK, ThreadTypeOK, Shapes, Excluding
<1>3. Held = item.body /\ Held \subseteq issued
  BY <1>2 DEF Held, TypeOK, HistoryTypeOK
<1>4. Held' = {} /\ item'.type # "CRDT"
  BY <1>1 DEF NoItem, Item, Held
<1>5. crdt' \cup Held' = crdt \cup Held /\ crdt' = crdt \cup Held
  BY <1>1, <1>3, <1>4
<1>6. \A e \in crdt' : ctx'[e] \subseteq crdt'
  BY <1>1, <1>5 DEF Pipeline
<1>7. Pipeline'
  <2>1. /\ Ordered(messages, crdt \cup Held, ctx)
        /\ \A u \in Users : Ordered(toServer[u], crdt \cup Held \cup Has(messages), ctx)
    BY <1>1 DEF Pipeline
  <2>2. /\ Ordered(messages', crdt' \cup Held', ctx')
        /\ \A u \in Users : Ordered(toServer'[u], crdt' \cup Held' \cup Has(messages'), ctx')
    BY <1>1, <1>5, <2>1
  <2> QED
    BY <1>1, <1>4, <1>6, <2>2 DEF Pipeline
<1>8. Shapes'
  BY <1>1, <1>3, <1>4, <1>5 DEF Shapes, OneOf, Excluding
<1> QED
  BY <1>4, <1>5, <1>7, <1>8

\* The file goes with its consumer in the middle of its work.
LEMMA PipelineDestroy ==
  ASSUME TypeOK, Pipeline, Shapes, Destroy
  PROVE  Pipeline' /\ Shapes'
<1>1. /\ closed /\ consumer' = "destroyed"
      /\ ((consumer = "apply" /\ item' = item) \/ item' = NoItem)
      /\ UNCHANGED <<crdt, messages, ctx, issued, closed, toServer>>
  BY DEF Destroy, fileVars, netVars, historyVars
<1>2. NoItem.type \notin {"CRDT", "CHAT"}
  BY DEF NoItem, Item
<1>3. item'.type # "CHAT" /\ (item' = item \/ item'.type # "CRDT")
  BY <1>1, <1>2 DEF TypeOK, ThreadTypeOK
<1> QED
  BY <1>1, <1>3 DEF Pipeline, Shapes, OneOf, Excluding

\* A connection breaks with the last requests on their way.
LEMMA PipelineBreak ==
  ASSUME TypeOK, Pipeline, Shapes, NEW u \in Users, Break(u)
  PROVE  Pipeline' /\ Shapes' /\ \A v \in Users : Has(toServer'[v]) \subseteq Has(toServer[v])
<1> DEFINE s == toServer[u]
           d == Payload("DISCONNECT", {})
<1>1. PICK k \in 0..Len(s) : toServer'[u] = Append(SubSeq(s, 1, k), d)
  BY DEF Break, TypeOK, ConnectionTypeOK
<1>2. /\ \A v \in Users : v # u => toServer'[v] = toServer[v]
      /\ UNCHANGED <<crdt, messages, ctx, issued, closed, item, consumer>>
  BY DEF Break, fileVars, threadVars, TypeOK, ConnectionTypeOK
<1>3. s \in Seq(Requests) /\ d \in Requests /\ d.type # "CRDT"
  BY PipelineTypes DEF Payload, Requests
<1> HIDE DEF s, d
<1> DEFINE t == SubSeq(s, 1, k)
<1>4. /\ t \in Seq(Requests) /\ Has(t) \subseteq Has(s)
      /\ \A base, c : Ordered(s, base, c) => Ordered(t, base, c)
  BY <1>3, OrderedPrefix
<1>5. SameEdits(Requests, t, Append(t, d))
  BY <1>3 DEF SameEdits
<1>6. /\ Has(Append(t, d)) = Has(t)
      /\ \A base, c : Ordered(t, base, c) => Ordered(Append(t, d), base, c)
      /\ \A i \in 1..Len(Append(t, d)) : Append(t, d)[i].type = "CRDT" =>
           \E j \in 1..Len(t) : Append(t, d)[i] = t[j]
  <2> DEFINE r == Append(t, d)
  <2>1. Requests \subseteq Requests \cup Items /\ t \in Seq(Requests) /\ SameEdits(Requests, t, r)
    BY <1>4, <1>5
  <2> HIDE DEF t, r
  <2>2. /\ Has(r) = Has(t)
        /\ \A base, c : Ordered(t, base, c) => Ordered(r, base, c)
        /\ \A i \in 1..Len(r) : r[i].type = "CRDT" => \E j \in 1..Len(t) : r[i] = t[j]
    BY <2>1, SameEditsKeep
  <2> QED
    BY <2>2 DEF r
<1>7. \A j \in 1..Len(t) : t[j] = s[j] /\ j \in 1..Len(s)
  BY <1>3
<1>8. toServer'[u] = Append(t, d)
  BY <1>1
<1> HIDE DEF t
<1>9. \A v \in Users : Has(toServer'[v]) \subseteq Has(toServer[v])
  BY <1>2, <1>4, <1>6, <1>8 DEF s
<1>10. ASSUME NEW v \in Users, NEW base, NEW c, Ordered(toServer[v], base, c)
       PROVE  Ordered(toServer'[v], base, c)
  BY <1>2, <1>4, <1>6, <1>8, <1>10 DEF s
<1>11. Pipeline'
  BY <1>2, <1>10 DEF Pipeline, Held
<1>12. ASSUME NEW v \in Users, NEW i \in 1..Len(toServer'[v]), toServer'[v][i].type = "CRDT"
       PROVE  OneOf(v, toServer'[v][i])
  <2>1. CASE v = u
    <3>1. PICK j \in 1..Len(t) : toServer'[u][i] = t[j]
      BY <1>6, <1>8, <1>12, <2>1
    <3>2. toServer'[u][i] = toServer[u][j] /\ j \in 1..Len(toServer[u])
      BY <1>7, <3>1 DEF s
    <3> QED
      BY <1>12, <2>1, <3>2 DEF Shapes
  <2>2. CASE v # u
    <3>1. toServer'[v] = toServer[v]
      BY <1>2, <2>2
    <3> QED
      BY <1>12, <3>1 DEF Shapes
  <2> QED
    BY <2>1, <2>2
<1>13. Shapes'
  BY <1>2, <1>12 DEF Shapes, OneOf, Excluding
<1> QED
  BY <1>9, <1>11, <1>13
=============================================================================
