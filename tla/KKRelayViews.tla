---------------------------- MODULE KKRelayViews ----------------------------
(***************************************************************************)
(* What the clients of one open document show and are about to show: the   *)
(* second half of the inductive invariant, EInv, the theorems that rest on *)
(* it (Agreement, NoDuplicate, Causal), and the refinement of KKDocument.  *)
(***************************************************************************)
EXTENDS KKRelayEdits

Doc == crdt \cup Broadcasting

\* The edits of a channel to a client, all of them or up to the i-th message.
Brings(s) == {e \in Edits : \E i \in 1..Len(s) : e \in Incoming(s[i])}
UpTo(s, i) == {e \in Edits : \E j \in 1..i : e \in Incoming(s[j])}

\* A relayed edit is an edit of the document (d) that the replica (r) does
\* not have and that no earlier message brings; a text is a state that the
\* document has been in.
Fresh(s, r, d, c) ==
  \A i \in 1..Len(s) :
    /\ s[i].type = "CRDT" =>
         /\ \E e \in d : s[i].body = {e}
         /\ s[i].body \cap r = {}
         /\ \A j \in 1..(i-1) : s[i].body \cap Incoming(s[j]) = {}
    /\ s[i].type = "LOAD" =>
         s[i].body \subseteq d /\ \A e \in s[i].body : c[e] \subseteq s[i].body

\* A replica and what is coming bring an edit after what its author had
\* seen, but for the edits missed when joining again (k).
InCausalOrder(s, r, k, c) ==
  /\ \A e \in r : c[e] \subseteq r \cup k
  /\ \A i \in 1..Len(s) : \A e \in Incoming(s[i]) : c[e] \subseteq r \cup k \cup UpTo(s, i)

\* A channel brings a text; a text before any edit; one text at most.
HasText(s) == \E i \in 1..Len(s) : s[i].type = "LOAD"
TextBeforeEdits(s) ==
  \A i \in 1..Len(s) : s[i].type = "CRDT" => \E j \in 1..(i-1) : s[j].type = "LOAD"
OneText(s) ==
  \A i \in 1..Len(s) : s[i].type = "LOAD" => \A j \in 1..(i-1) : s[j].type # "LOAD"

Asks(u, type) == \E i \in 1..Len(toServer[u]) : toServer[u][i].type = type

\* A client that has no text yet gets one before it gets an edit, and a
\* client that never reloads gets one only once.
Textless(u) == phase[u] = "opening" \/ (reloads[u] = 0 /\ ~fileValid[u])
TextFirst(u) ==
  /\ Textless(u) =>
       /\ TextBeforeEdits(toClient[u])
       /\ u \in participants /\ Connected(u) => HasText(toClient[u])
  /\ reloads[u] = 0 =>
       OneText(toClient[u]) /\ (HasText(toClient[u]) => phase[u] = "opening")
  /\ phase[u] = "opening" \/ Asks(u, "OPEN") => replica[u] = {}

\* Who asks for the document again has met an illegal edit, and gets a text
\* that the document has been in.
Reloads(u) ==
  reloads[u] = 0 =>
    phase[u] # "illegal" /\ ~Asks(u, "LOAD") /\ ~ (main.task = "reload" /\ main.user = u)
Texts ==
  main.task = "reload" =>
    main.text \subseteq crdt /\ \A e \in main.text : ctx[e] \subseteq main.text

\* A client shows edits of the document and its own.
Shows(u) ==
  /\ replica[u] \subseteq issued
  /\ u \in participants /\ Connected(u) => replica[u] \subseteq Doc \cup OwnPending(u)
  /\ missed[u] \subseteq {e \in issued \ Alignments : Author[e] = u}

Follows(u) ==
  /\ Fresh(toClient[u], replica[u], Doc, ctx)
  /\ reloads[u] = 0 => InCausalOrder(toClient[u], replica[u], missed[u], ctx)

Agrees(u) ==
  u \in participants /\ Connected(u) /\ reloads[u] = 0 =>
    replica[u] \cup Brings(toClient[u]) = (Doc \cup OwnPending(u)) \ missed[u]

Client(u) == TextFirst(u) /\ Reloads(u) /\ Shows(u) /\ Follows(u) /\ Agrees(u)

EInv ==
  /\ IInv /\ Pipeline /\ Shapes /\ Texts
  /\ \A u \in Users : Client(u)

-----------------------------------------------------------------------------
(* Lemmas about channels to a client.                                      *)

\* Messages that bring no edit.
Neutral(m) == m.type \notin {"CRDT", "LOAD"}

\* What the messages before the first bring counts for the replica.
LEMMA BringsTail ==
  ASSUME NEW S, NEW s \in Seq(S), s # <<>>
  PROVE  /\ Brings(s) = Brings(Tail(s)) \cup {e \in Edits : e \in Incoming(Head(s))}
         /\ \A i \in 1..Len(Tail(s)) :
              UpTo(s, i + 1) = UpTo(Tail(s), i) \cup {e \in Edits : e \in Incoming(Head(s))}
<1> DEFINE t == Tail(s)
           m == Head(s)
<1>1. /\ m = s[1] /\ Len(s) \in Nat /\ Len(t) \in Nat /\ Len(s) = Len(t) + 1
      /\ \A i \in 1..Len(t) : t[i] = s[i + 1]
  BY TailFacts
<1> HIDE DEF t, m
<1>2. ASSUME NEW n \in Nat, n <= Len(t), NEW e
      PROVE  (\E j \in 1..(n + 1) : e \in Incoming(s[j]))
               <=> (\E j \in 1..n : e \in Incoming(t[j])) \/ e \in Incoming(m)
  <2>1. ASSUME NEW j \in 1..(n + 1), e \in Incoming(s[j])
        PROVE  (\E k \in 1..n : e \in Incoming(t[k])) \/ e \in Incoming(m)
    <3>1. j # 1 => j - 1 \in 1..n /\ j - 1 \in 1..Len(t) /\ (j - 1) + 1 = j
      BY <1>1, <1>2
    <3>2. j # 1 => t[j - 1] = s[j]
      BY <1>1, <3>1
    <3> QED
      BY <1>1, <2>1, <3>1, <3>2
  <2>2. ASSUME NEW j \in 1..n, e \in Incoming(t[j])
        PROVE  \E k \in 1..(n + 1) : e \in Incoming(s[k])
    <3>1. j + 1 \in 1..(n + 1) /\ j \in 1..Len(t)
      BY <1>1, <1>2
    <3>2. t[j] = s[j + 1]
      BY <1>1, <3>1
    <3> QED
      BY <2>2, <3>1, <3>2
  <2>3. 1 \in 1..(n + 1)
    BY <1>2
  <2> QED
    BY <1>1, <2>1, <2>2, <2>3
<1>3. Brings(s) = Brings(t) \cup {e \in Edits : e \in Incoming(m)}
  <2>1. \A e : (\E j \in 1..(Len(t) + 1) : e \in Incoming(s[j]))
               <=> (\E j \in 1..Len(t) : e \in Incoming(t[j])) \/ e \in Incoming(m)
    BY <1>1, <1>2
  <2> QED
    BY <1>1, <2>1 DEF Brings
<1>4. ASSUME NEW i \in 1..Len(t)
      PROVE  UpTo(s, i + 1) = UpTo(t, i) \cup {e \in Edits : e \in Incoming(m)}
  <2>1. \A e : (\E j \in 1..(i + 1) : e \in Incoming(s[j]))
               <=> (\E j \in 1..i : e \in Incoming(t[j])) \/ e \in Incoming(m)
    <3>1. i \in Nat /\ i <= Len(t)
      BY <1>1
    <3> QED
      BY <1>2, <3>1
  <2> QED
    BY <2>1 DEF UpTo
<1> QED
  BY <1>3, <1>4 DEF t, m

LEMMA BringsAppend ==
  ASSUME NEW S, NEW s \in Seq(S), NEW m \in S
  PROVE  /\ Brings(Append(s, m)) = Brings(s) \cup {e \in Edits : e \in Incoming(m)}
         /\ \A i \in 1..Len(s) : UpTo(Append(s, m), i) = UpTo(s, i)
         /\ UpTo(Append(s, m), Len(s) + 1) = Brings(s) \cup {e \in Edits : e \in Incoming(m)}
<1> DEFINE t == Append(s, m)
<1>1. /\ Len(s) \in Nat /\ Len(t) = Len(s) + 1 /\ t[Len(s) + 1] = m
      /\ \A i \in 1..Len(s) : t[i] = s[i]
      /\ \A i \in 1..Len(t) : i \in 1..Len(s) \/ i = Len(s) + 1
      /\ \A i \in 1..Len(s) : i \in 1..Len(t)
      /\ Len(s) + 1 \in 1..Len(t)
  BY AppendFacts
<1> HIDE DEF t
<1>2. Brings(t) = Brings(s) \cup {e \in Edits : e \in Incoming(m)}
  BY <1>1 DEF Brings
<1>3. \A i \in 1..Len(s) : \A j \in 1..i : j \in 1..Len(s)
  BY <1>1
<1>4. \A i \in 1..Len(s) : UpTo(t, i) = UpTo(s, i)
  BY <1>1, <1>3 DEF UpTo
<1>5. UpTo(t, Len(s) + 1) = Brings(t)
  BY <1>1 DEF UpTo, Brings
<1> QED
  BY <1>2, <1>4, <1>5 DEF t

\* Taking the first message: what was behind it stays in order, once the
\* replica has what it brings.
LEMMA FreshTail ==
  ASSUME NEW s \in Seq(Responses), s # <<>>, NEW r, NEW d, NEW c, Fresh(s, r, d, c)
  PROVE  /\ Fresh(Tail(s), r, d, c)
         /\ Fresh(Tail(s), r \cup Incoming(Head(s)), d, c)
         /\ Fresh(Tail(s), Incoming(Head(s)), d, c)
<1> DEFINE t == Tail(s)
           m == Head(s)
<1>1. /\ m = s[1] /\ Len(s) \in Nat /\ Len(t) \in Nat /\ Len(s) = Len(t) + 1
      /\ \A i \in 1..Len(t) : t[i] = s[i + 1]
  BY TailFacts
<1> HIDE DEF t, m
<1>2. ASSUME NEW i \in 1..Len(t)
      PROVE  /\ t[i].type = "CRDT" =>
                  /\ \E e \in d : t[i].body = {e}
                  /\ t[i].body \cap r = {}
                  /\ t[i].body \cap Incoming(m) = {}
                  /\ \A j \in 1..(i-1) : t[i].body \cap Incoming(t[j]) = {}
             /\ t[i].type = "LOAD" =>
                  t[i].body \subseteq d /\ \A e \in t[i].body : c[e] \subseteq t[i].body
  <2>1. /\ i + 1 \in 1..Len(s) /\ t[i] = s[i + 1] /\ 1 \in 1..((i + 1) - 1)
        /\ \A j \in 1..(i-1) : j + 1 \in 1..((i + 1) - 1) /\ t[j] = s[j + 1]
    BY <1>1
  <2> QED
    BY <1>1, <2>1 DEF Fresh
<1> QED
  BY <1>2 DEF Fresh, t, m

LEMMA OrderTail ==
  ASSUME NEW s \in Seq(Responses), s # <<>>, NEW r, NEW k, NEW c, NEW q,
         InCausalOrder(s, r, k, c),
         r \cup Incoming(Head(s)) \subseteq q, \A e \in q : c[e] \subseteq q \cup k
  PROVE  InCausalOrder(Tail(s), q, k, c)
<1> DEFINE t == Tail(s)
           m == Head(s)
<1>1. /\ m = s[1] /\ Len(s) \in Nat /\ Len(t) \in Nat /\ Len(s) = Len(t) + 1
      /\ \A i \in 1..Len(t) : t[i] = s[i + 1]
  BY TailFacts
<1>2. \A i \in 1..Len(t) : UpTo(s, i + 1) = UpTo(t, i) \cup {e \in Edits : e \in Incoming(m)}
  BY BringsTail
<1> HIDE DEF t
<1>3. ASSUME NEW i \in 1..Len(t), NEW e \in Incoming(t[i])
      PROVE  c[e] \subseteq q \cup k \cup UpTo(t, i)
  <2>1. i + 1 \in 1..Len(s) /\ t[i] = s[i + 1]
    BY <1>1
  <2>2. c[e] \subseteq r \cup k \cup UpTo(s, i + 1)
    BY <1>3, <2>1 DEF InCausalOrder
  <2> QED
    BY <1>2, <2>2
<1> QED
  BY <1>3 DEF InCausalOrder, t

LEMMA TextTail ==
  ASSUME NEW s \in Seq(Responses), s # <<>>
  PROVE  /\ OneText(s) => OneText(Tail(s)) /\ (Head(s).type = "LOAD" => ~HasText(Tail(s)))
         /\ HasText(Tail(s)) => HasText(s)
         /\ Head(s).type # "LOAD" => /\ HasText(s) => HasText(Tail(s))
                                     /\ TextBeforeEdits(s) => TextBeforeEdits(Tail(s))
         /\ TextBeforeEdits(s) => Head(s).type # "CRDT"
<1> DEFINE t == Tail(s)
<1>1. /\ Head(s) = s[1] /\ Len(s) \in Nat /\ Len(t) \in Nat /\ Len(s) = Len(t) + 1
      /\ \A i \in 1..Len(t) : t[i] = s[i + 1] /\ i + 1 \in 1..Len(s)
      /\ \A i \in 2..Len(s) : i - 1 \in 1..Len(t) /\ t[i - 1] = s[i]
      /\ 1 \in 1..Len(s)
  BY TailFacts
<1> HIDE DEF t
<1>2. OneText(s) => OneText(t) /\ (Head(s).type = "LOAD" => ~HasText(t))
  <2>1. ASSUME OneText(s), NEW i \in 1..Len(t), t[i].type = "LOAD"
        PROVE  Head(s).type # "LOAD" /\ \A j \in 1..(i-1) : t[j].type # "LOAD"
    <3>1. i + 1 \in 1..Len(s) /\ t[i] = s[i + 1] /\ 1 \in 1..((i + 1) - 1)
          /\ \A j \in 1..(i-1) : j + 1 \in 1..((i + 1) - 1) /\ t[j] = s[j + 1]
      BY <1>1
    <3> QED
      BY <1>1, <2>1, <3>1 DEF OneText
  <2> QED
    BY <2>1 DEF OneText, HasText
<1>3. HasText(t) => HasText(s)
  BY <1>1 DEF HasText
<1>4. ASSUME Head(s).type # "LOAD", HasText(s) PROVE HasText(t)
  <2>1. PICK i \in 1..Len(s) : s[i].type = "LOAD"
    BY <1>4 DEF HasText
  <2>2. i \in 2..Len(s)
    BY <1>1, <1>4, <2>1
  <2> QED
    BY <1>1, <2>1, <2>2 DEF HasText
<1>5. ASSUME Head(s).type # "LOAD", TextBeforeEdits(s), NEW i \in 1..Len(t), t[i].type = "CRDT"
      PROVE  \E j \in 1..(i-1) : t[j].type = "LOAD"
  <2>1. PICK j \in 1..((i + 1) - 1) : s[j].type = "LOAD"
    BY <1>1, <1>5 DEF TextBeforeEdits
  <2>2. j \in 2..Len(s) /\ j - 1 \in 1..(i-1)
    BY <1>1, <1>5, <2>1
  <2> QED
    BY <1>1, <2>1, <2>2
<1>6. TextBeforeEdits(s) => Head(s).type # "CRDT"
  BY <1>1 DEF TextBeforeEdits
<1> QED
  BY <1>2, <1>3, <1>4, <1>5, <1>6 DEF TextBeforeEdits, t

\* A message joins a channel.
LEMMA FreshAppend ==
  ASSUME NEW s \in Seq(Responses), NEW m \in Responses, NEW r, NEW d, NEW c, Fresh(s, r, d, c),
         m.type = "CRDT" =>
           /\ \E e \in d : m.body = {e}
           /\ m.body \cap r = {}
           /\ \A j \in 1..Len(s) : m.body \cap Incoming(s[j]) = {},
         m.type = "LOAD" => m.body \subseteq d /\ \A e \in m.body : c[e] \subseteq m.body
  PROVE  Fresh(Append(s, m), r, d, c)
<1> DEFINE t == Append(s, m)
<1>1. /\ Len(s) \in Nat /\ t[Len(s) + 1] = m /\ \A i \in 1..Len(s) : t[i] = s[i]
      /\ \A i \in 1..Len(t) : i \in 1..Len(s) \/ i = Len(s) + 1
  BY AppendFacts
<1> HIDE DEF t
<1>2. ASSUME NEW i \in 1..Len(t)
      PROVE  /\ t[i].type = "CRDT" =>
                  /\ \E e \in d : t[i].body = {e}
                  /\ t[i].body \cap r = {}
                  /\ \A j \in 1..(i-1) : t[i].body \cap Incoming(t[j]) = {}
             /\ t[i].type = "LOAD" =>
                  t[i].body \subseteq d /\ \A e \in t[i].body : c[e] \subseteq t[i].body
  <2>1. CASE i \in 1..Len(s)
    <3>1. t[i] = s[i] /\ \A j \in 1..(i-1) : j \in 1..Len(s) /\ t[j] = s[j]
      BY <1>1, <2>1
    <3> QED
      BY <2>1, <3>1 DEF Fresh
  <2>2. CASE i = Len(s) + 1
    <3>1. t[i] = m /\ \A j \in 1..(i-1) : j \in 1..Len(s) /\ t[j] = s[j]
      BY <1>1, <2>2
    <3> QED
      BY <3>1
  <2> QED
    BY <1>1, <2>1, <2>2
<1> QED
  BY <1>2 DEF Fresh, t

LEMMA OrderAppend ==
  ASSUME NEW s \in Seq(Responses), NEW m \in Responses, NEW r, NEW k, NEW c,
         InCausalOrder(s, r, k, c),
         \A e \in Incoming(m) : c[e] \subseteq r \cup k \cup Brings(s) \cup Incoming(m)
  PROVE  InCausalOrder(Append(s, m), r, k, c)
<1> DEFINE t == Append(s, m)
<1>1. /\ t[Len(s) + 1] = m /\ \A i \in 1..Len(s) : t[i] = s[i]
      /\ \A i \in 1..Len(t) : i \in 1..Len(s) \/ i = Len(s) + 1
  BY AppendFacts
<1>2. /\ \A i \in 1..Len(s) : UpTo(t, i) = UpTo(s, i)
      /\ UpTo(t, Len(s) + 1) = Brings(s) \cup {e \in Edits : e \in Incoming(m)}
  BY BringsAppend
<1>3. Incoming(m) \subseteq Edits
  BY DEF Incoming, Responses
<1> HIDE DEF t
<1>4. ASSUME NEW i \in 1..Len(t), NEW e \in Incoming(t[i])
      PROVE  c[e] \subseteq r \cup k \cup UpTo(t, i)
  <2>1. CASE i \in 1..Len(s)
    BY <1>1, <1>2, <1>4, <2>1 DEF InCausalOrder
  <2>2. CASE i = Len(s) + 1
    BY <1>1, <1>2, <1>3, <1>4, <2>2
  <2> QED
    BY <1>1, <2>1, <2>2
<1> QED
  BY <1>4 DEF InCausalOrder, t

LEMMA TextAppend ==
  ASSUME NEW s \in Seq(Responses), NEW m \in Responses
  PROVE  /\ OneText(s) /\ (m.type # "LOAD" \/ ~HasText(s)) => OneText(Append(s, m))
         /\ HasText(Append(s, m)) <=> HasText(s) \/ m.type = "LOAD"
         /\ TextBeforeEdits(s) /\ (m.type # "CRDT" \/ HasText(s)) => TextBeforeEdits(Append(s, m))
<1> DEFINE t == Append(s, m)
<1>1. /\ Len(s) \in Nat /\ t[Len(s) + 1] = m
      /\ \A i \in 1..Len(s) : t[i] = s[i] /\ i \in 1..Len(t)
      /\ \A i \in 1..Len(t) : i \in 1..Len(s) \/ i = Len(s) + 1
      /\ Len(s) + 1 \in 1..Len(t)
  BY AppendFacts
<1> HIDE DEF t
<1>2. \A i \in 1..Len(s) : \A j \in 1..(i-1) : j \in 1..Len(s)
  BY <1>1
<1>3. (Len(s) + 1) - 1 = Len(s)
  BY <1>1
<1>4. HasText(t) <=> HasText(s) \/ m.type = "LOAD"
  BY <1>1 DEF HasText
<1>5. ASSUME OneText(s), m.type # "LOAD" \/ ~HasText(s), NEW i \in 1..Len(t), t[i].type = "LOAD",
             NEW j \in 1..(i-1)
      PROVE  t[j].type # "LOAD"
  <2>1. CASE i \in 1..Len(s)
    BY <1>1, <1>2, <1>5, <2>1 DEF OneText
  <2>2. CASE i = Len(s) + 1
    BY <1>1, <1>3, <1>5, <2>2 DEF HasText
  <2> QED
    BY <1>1, <2>1, <2>2
<1>6. ASSUME TextBeforeEdits(s), m.type # "CRDT" \/ HasText(s), NEW i \in 1..Len(t),
             t[i].type = "CRDT"
      PROVE  \E j \in 1..(i-1) : t[j].type = "LOAD"
  <2>1. CASE i \in 1..Len(s)
    BY <1>1, <1>2, <1>6, <2>1 DEF TextBeforeEdits
  <2>2. CASE i = Len(s) + 1
    BY <1>1, <1>3, <1>6, <2>2 DEF HasText
  <2> QED
    BY <1>1, <2>1, <2>2
<1> QED
  BY <1>4, <1>5, <1>6 DEF OneText, TextBeforeEdits, t

\* The document may grow, and what the authors of other edits had seen does
\* not matter.
LEMMA FreshWiden ==
  ASSUME NEW s, NEW r, NEW q, NEW d, NEW wider, NEW c, NEW b, Fresh(s, r, d, c),
         d \subseteq wider, q \cap d \subseteq r, \A e \in d : b[e] = c[e]
  PROVE  Fresh(s, q, wider, b)
<1>1. ASSUME NEW i \in 1..Len(s), s[i].type = "CRDT"
      PROVE  /\ \E e \in wider : s[i].body = {e}
             /\ s[i].body \cap q = {}
             /\ \A j \in 1..(i-1) : s[i].body \cap Incoming(s[j]) = {}
  <2>1. /\ \E e \in d : s[i].body = {e}
        /\ s[i].body \cap r = {}
        /\ \A j \in 1..(i-1) : s[i].body \cap Incoming(s[j]) = {}
    BY <1>1 DEF Fresh
  <2> QED
    BY <2>1
<1>2. ASSUME NEW i \in 1..Len(s), s[i].type = "LOAD"
      PROVE  s[i].body \subseteq wider /\ \A e \in s[i].body : b[e] \subseteq s[i].body
  <2>1. s[i].body \subseteq d /\ \A e \in s[i].body : c[e] \subseteq s[i].body
    BY <1>2 DEF Fresh
  <2> QED
    BY <2>1
<1> QED
  BY <1>1, <1>2 DEF Fresh

\* What a channel brings are edits of the document.
LEMMA BringsDoc ==
  ASSUME NEW s \in Seq(Responses), NEW r, NEW d, NEW c, Fresh(s, r, d, c)
  PROVE  /\ \A i \in 1..Len(s) : Incoming(s[i]) \subseteq d \cap Brings(s)
         /\ Brings(s) \subseteq d
<1>1. ASSUME NEW i \in 1..Len(s) PROVE Incoming(s[i]) \subseteq d
  BY DEF Incoming, Fresh
<1>2. ASSUME NEW i \in 1..Len(s) PROVE Incoming(s[i]) \subseteq Edits
  <2>1. s[i] \in Responses
    OBVIOUS
  <2> QED
    BY <2>1 DEF Incoming, Responses
<1> QED
  BY <1>1, <1>2 DEF Brings

\* A step that brings a client no edit leaves its channel as it is, takes a
\* message that brings none, or adds one.
QuietChannel(s, t) ==
  \/ t = s
  \/ s # <<>> /\ t = Tail(s) /\ Neutral(Head(s))
  \/ \E m \in Responses : t = Append(s, m) /\ Neutral(m)

LEMMA QuietChannelKeeps ==
  ASSUME NEW s \in Seq(Responses), NEW t, QuietChannel(s, t)
  PROVE  /\ Brings(t) = Brings(s) /\ (HasText(t) <=> HasText(s))
         /\ OneText(s) => OneText(t)
         /\ TextBeforeEdits(s) => TextBeforeEdits(t)
         /\ \A r, d, c : Fresh(s, r, d, c) => Fresh(t, r, d, c)
         /\ \A r, k, c : InCausalOrder(s, r, k, c) => InCausalOrder(t, r, k, c)
<1>1. CASE t = s
  BY <1>1
<1>2. CASE s # <<>> /\ t = Tail(s) /\ Neutral(Head(s))
  <2>1. Incoming(Head(s)) = {} /\ Head(s).type \notin {"CRDT", "LOAD"}
    BY <1>2 DEF Incoming, Neutral
  <2>2. Brings(s) = Brings(Tail(s)) \cup {e \in Edits : e \in Incoming(Head(s))}
    BY <1>2, BringsTail
  <2>3. /\ HasText(t) <=> HasText(s)
        /\ OneText(s) => OneText(t)
        /\ TextBeforeEdits(s) => TextBeforeEdits(t)
    BY <1>2, <2>1, TextTail
  <2>4. \A r, d, c : Fresh(s, r, d, c) => Fresh(t, r, d, c)
    BY <1>2, FreshTail
  <2>5. ASSUME NEW r, NEW k, NEW c, InCausalOrder(s, r, k, c) PROVE InCausalOrder(t, r, k, c)
    <3>1. \A e \in r : c[e] \subseteq r \cup k
      BY <2>5 DEF InCausalOrder
    <3>2. InCausalOrder(Tail(s), r, k, c)
      BY <1>2, <2>1, <2>5, <3>1, OrderTail
    <3> QED
      BY <1>2, <3>2
  <2> QED
    BY <1>2, <2>1, <2>2, <2>3, <2>4, <2>5
<1>3. ASSUME NEW m \in Responses, t = Append(s, m), Neutral(m)
      PROVE  /\ Brings(t) = Brings(s) /\ (HasText(t) <=> HasText(s))
             /\ OneText(s) => OneText(t)
             /\ TextBeforeEdits(s) => TextBeforeEdits(t)
             /\ \A r, d, c : Fresh(s, r, d, c) => Fresh(t, r, d, c)
             /\ \A r, k, c : InCausalOrder(s, r, k, c) => InCausalOrder(t, r, k, c)
  <2>1. Incoming(m) = {} /\ m.type \notin {"CRDT", "LOAD"}
    BY <1>3 DEF Incoming, Neutral
  <2>2. Brings(Append(s, m)) = Brings(s) \cup {e \in Edits : e \in Incoming(m)}
    BY BringsAppend
  <2>3. /\ HasText(t) <=> HasText(s)
        /\ OneText(s) => OneText(t)
        /\ TextBeforeEdits(s) => TextBeforeEdits(t)
    BY <1>3, <2>1, TextAppend
  <2>4. ASSUME NEW r, NEW d, NEW c, Fresh(s, r, d, c) PROVE Fresh(t, r, d, c)
    BY <1>3, <2>1, <2>4, FreshAppend
  <2>5. ASSUME NEW r, NEW k, NEW c, InCausalOrder(s, r, k, c) PROVE InCausalOrder(t, r, k, c)
    BY <1>3, <2>1, <2>5, OrderAppend
  <2> QED
    BY <1>3, <2>1, <2>2, <2>3, <2>4, <2>5
<1> QED
  BY <1>1, <1>2, <1>3 DEF QuietChannel

-----------------------------------------------------------------------------
(* Where the edits of a user and of the document are.                      *)

Own(u, e) == e \in Edits \ Alignments /\ Author[e] = u

LEMMA OwnEdits ==
  TypeOK => \A u \in Users :
    /\ OwnQueued(u) =
         {e \in Edits : Own(u, e) /\ (e \in Has(messages) \/ (consumer = "deliver" /\ e \in Held))}
    /\ OwnPending(u) = OwnQueued(u) \cup {e \in Edits : Own(u, e) /\ e \in Has(toServer[u])}
    /\ InFlight(u) = Brings(toClient[u])
<1> SUFFICES ASSUME TypeOK, NEW u \in Users
             PROVE  /\ OwnQueued(u) = {e \in Edits : Own(u, e) /\
                         (e \in Has(messages) \/ (consumer = "deliver" /\ e \in Held))}
                    /\ OwnPending(u) = OwnQueued(u) \cup
                         {e \in Edits : Own(u, e) /\ e \in Has(toServer[u])}
                    /\ InFlight(u) = Brings(toClient[u])
  OBVIOUS
<1>1. /\ messages \in Seq(Items) /\ toServer[u] \in Seq(Requests) /\ toClient[u] \in Seq(Responses)
  BY PipelineTypes
<1>2. /\ DOMAIN messages = 1..Len(messages) /\ DOMAIN (toServer[u]) = 1..Len(toServer[u])
      /\ DOMAIN (toClient[u]) = 1..Len(toClient[u])
  BY <1>1
<1>3. \A i \in 1..Len(toClient[u]) : Incoming(toClient[u][i]) \subseteq Edits
  <2>1. \A i \in 1..Len(toClient[u]) : toClient[u][i] \in Responses
    BY <1>1
  <2> QED
    BY <2>1 DEF Incoming, Responses
<1>4. InFlight(u) = Brings(toClient[u])
  BY <1>2, <1>3 DEF InFlight, Brings
<1>5. OwnQueued(u) =
        {e \in Edits : Own(u, e) /\ (e \in Has(messages) \/ (consumer = "deliver" /\ e \in Held))}
  BY <1>2 DEF OwnQueued, Has, Held, Own
<1> QED
  BY <1>2, <1>4, <1>5 DEF OwnPending, Has, Own

LEMMA OwnEditsNext ==
  ASSUME TypeOK'
  PROVE  \A u \in Users :
    /\ OwnPending(u)' =
         {e \in Edits : Own(u, e) /\ (e \in Has(messages') \/ (consumer' = "deliver" /\ e \in Held'))}
           \cup {e \in Edits : Own(u, e) /\ e \in Has(toServer'[u])}
    /\ InFlight(u)' = Brings(toClient'[u])
<1>1. (TypeOK => \A u \in Users :
    /\ OwnQueued(u) =
         {e \in Edits : Own(u, e) /\ (e \in Has(messages) \/ (consumer = "deliver" /\ e \in Held))}
    /\ OwnPending(u) = OwnQueued(u) \cup {e \in Edits : Own(u, e) /\ e \in Has(toServer[u])}
    /\ InFlight(u) = Brings(toClient[u]))'
  BY OwnEdits, PTL
<1> QED
  BY <1>1 DEF Own

LEMMA DocHeld ==
  ASSUME TypeOK, Pipeline, Shapes
  PROVE  /\ Doc = IF consumer \in {"apply", "destroyed"} THEN crdt \cup Held ELSE crdt
         /\ Doc \subseteq issued /\ issued \subseteq Edits
<1>1. item \in Items /\ issued \subseteq Edits
  BY DEF TypeOK, ThreadTypeOK, HistoryTypeOK
<1>2. consumer \in {"apply", "destroyed"} => item.type # "CHAT"
  BY DEF Pipeline, TypeOK, ThreadTypeOK
<1>3. consumer \in {"apply", "destroyed"} => item.body \subseteq Edits
  BY <1>1, <1>2 DEF Items
<1>4. Doc = IF consumer \in {"apply", "destroyed"} THEN crdt \cup Held ELSE crdt
  BY <1>3 DEF Doc, Broadcasting, Held
<1> QED
  BY <1>1, <1>4, WhoseEdits

\* A step of the pipeline that broadcasts nothing leaves the document and
\* every participant's own edits on their way as they are.
Undisturbed ==
  /\ Doc' = Doc /\ issued \subseteq issued'
  /\ \A e \in issued : ctx'[e] = ctx[e]

LEMMA QuietUndisturbed ==
  ASSUME TypeOK, TypeOK', QuietStep, consumer' = consumer, item' = item
  PROVE  Undisturbed /\ \A v \in Users : OwnPending(v)' = OwnPending(v)
<1>1. Doc' = Doc /\ issued' = issued /\ ctx' = ctx
  BY DEF QuietStep, Doc, Broadcasting
<1>2. ASSUME NEW v \in Users PROVE OwnPending(v)' = OwnPending(v)
  <2>1. Has(messages') = Has(messages) /\ Has(toServer'[v]) = Has(toServer[v]) /\ Held' = Held
    BY QuietQueues DEF QuietStep
  <2>2. OwnPending(v) =
          {e \in Edits : Own(v, e) /\ (e \in Has(messages) \/ (consumer = "deliver" /\ e \in Held))}
            \cup {e \in Edits : Own(v, e) /\ e \in Has(toServer[v])}
    BY OwnEdits
  <2>3. OwnPending(v)' =
          {e \in Edits : Own(v, e) /\ (e \in Has(messages') \/ (consumer' = "deliver" /\ e \in Held'))}
            \cup {e \in Edits : Own(v, e) /\ e \in Has(toServer'[v])}
    BY OwnEditsNext
  <2> QED
    BY <2>1, <2>2, <2>3
<1> QED
  BY <1>1, <1>2 DEF Undisturbed

-----------------------------------------------------------------------------
(* The steps that bring a client no edit.                                  *)

\* What such a step may do to a client.
Keeps(v) ==
  /\ QuietChannel(toClient[v], toClient'[v])
  /\ replica'[v] = replica[v] /\ missed'[v] = missed[v]
  /\ reloads'[v] = 0 =>
       /\ reloads[v] = 0 /\ (fileValid[v] => fileValid'[v])
       /\ phase'[v] = "illegal" => phase[v] = "illegal"
       /\ Asks(v, "LOAD")' => Asks(v, "LOAD")
       /\ main'.task = "reload" /\ main'.user = v =>
            Asks(v, "LOAD") \/ (main.task = "reload" /\ main.user = v)
  /\ phase'[v] = "opening" => phase[v] = "opening"
  /\ phase[v] = "opening" => phase'[v] = "opening" \/ toClient'[v] = <<>>
  /\ v \in participants' /\ phase'[v] # "gone" =>
       v \in participants /\ phase[v] # "gone" /\ OwnPending(v)' = OwnPending(v)
  /\ Asks(v, "OPEN")' => Asks(v, "OPEN")

LEMMA Steady ==
  ASSUME TypeOK, Pipeline, Shapes, NEW v \in Users, Client(v), Keeps(v), Undisturbed
  PROVE  Client(v)'
<1> DEFINE s == toClient[v]
           t == toClient'[v]
<1>1. s \in Seq(Responses) /\ QuietChannel(s, t)
  BY PipelineTypes DEF Keeps
<1>2. /\ Brings(t) = Brings(s) /\ (HasText(t) <=> HasText(s))
      /\ OneText(s) => OneText(t)
      /\ TextBeforeEdits(s) => TextBeforeEdits(t)
      /\ \A r, d, c : Fresh(s, r, d, c) => Fresh(t, r, d, c)
      /\ \A r, k, c : InCausalOrder(s, r, k, c) => InCausalOrder(t, r, k, c)
  <2> HIDE DEF s, t
  <2> QED
    BY <1>1, QuietChannelKeeps
<1> HIDE DEF s, t
<1>3. /\ replica'[v] = replica[v] /\ missed'[v] = missed[v]
      /\ Doc' = Doc /\ Doc \subseteq issued /\ issued \subseteq issued'
      /\ \A e \in issued : ctx'[e] = ctx[e]
  BY DocHeld DEF Keeps, Undisturbed
<1>4. TextFirst(v)'
  <2>1. ~HasText(<<>>)
    BY DEF HasText
  <2>2. Textless(v)' => Textless(v)
    BY DEF Textless, Keeps
  <2>3. Textless(v)' =>
          /\ TextBeforeEdits(t)
          /\ v \in participants' /\ Connected(v)' => HasText(t)
    BY <1>2, <2>2 DEF Client, TextFirst, Connected, Keeps, s
  <2>4. reloads'[v] = 0 => OneText(t) /\ (HasText(t) => phase'[v] = "opening")
    BY <1>2, <2>1 DEF Client, TextFirst, Keeps, s, t
  <2>5. phase'[v] = "opening" \/ Asks(v, "OPEN")' => replica'[v] = {}
    BY <1>3 DEF Client, TextFirst, Keeps
  <2> QED
    BY <2>3, <2>4, <2>5 DEF TextFirst, t
<1>5. Reloads(v)'
  BY DEF Client, Reloads, Keeps
<1>6. Shows(v)'
  BY <1>3 DEF Client, Shows, Connected, Keeps
<1>7. Follows(v)'
  <2>1. Fresh(t, replica[v], Doc, ctx)
    BY <1>2 DEF Client, Follows, s
  <2>2. Fresh(t, replica'[v], Doc', ctx')
    <3>1. /\ Doc \subseteq Doc' /\ replica'[v] \cap Doc \subseteq replica[v]
          /\ \A e \in Doc : ctx'[e] = ctx[e]
      BY <1>3
    <3> DEFINE d == Doc
               d1 == Doc'
    <3> HIDE DEF d, d1
    <3> QED
      BY <2>1, <3>1, FreshWiden DEF d, d1
  <2>3. reloads'[v] = 0 => InCausalOrder(t, replica[v], missed[v], ctx)
    BY <1>2 DEF Client, Follows, Keeps, s
  <2>4. ASSUME InCausalOrder(t, replica[v], missed[v], ctx)
        PROVE  InCausalOrder(t, replica'[v], missed'[v], ctx')
    <3>1. t \in Seq(Responses)
      BY <1>1 DEF QuietChannel
    <3>2. \A i \in 1..Len(t) : Incoming(t[i]) \subseteq Doc
      BY <2>1, <3>1, BringsDoc
    <3> QED
      BY <1>3, <2>4, <3>2 DEF InCausalOrder, Client, Shows
  <2> QED
    BY <2>2, <2>3, <2>4 DEF Follows, t
<1>8. Agrees(v)'
  BY <1>2, <1>3 DEF Client, Agrees, Connected, Keeps, s, t
<1> QED
  BY <1>4, <1>5, <1>6, <1>7, <1>8 DEF Client

-----------------------------------------------------------------------------
(* A user makes an edit.                                                   *)

LEMMA MakeEditFacts ==
  ASSUME EInv, NEW u \in Users, NEW e \in Edits, MakeEdit(u, e)
  PROVE  /\ u \in participants /\ phase[u] = "open" /\ consumer # "destroyed"
         /\ e \notin issued /\ Author[e] = u /\ issued' = issued \cup {e}
         /\ ctx' = [ctx EXCEPT ![e] = replica[u]]
         /\ replica[u] \subseteq crdt \cup Held \cup Has(messages) \cup Has(toServer[u])
         /\ Payload("CRDT", {e}) \in Requests
         /\ toServer'[u] = Append(toServer[u], Payload("CRDT", {e}))
         /\ \A v \in Users : v # u => toServer'[v] = toServer[v]
         /\ UNCHANGED <<crdt, messages, item, consumer, closed, participants>>
<1>1. TypeOK /\ Pipeline /\ Shapes /\ Fits(u) /\ Shows(u) /\ Closing
  BY DEF EInv, IInv, Conversation, Client
<1>2. /\ phase[u] = "open" /\ e \notin issued /\ Author[e] = u /\ issued' = issued \cup {e}
      /\ ctx' = [ctx EXCEPT ![e] = replica[u]]
      /\ UNCHANGED <<crdt, messages, item, consumer, closed, participants>>
  BY DEF MakeEdit, fileVars, threadVars
<1>3. u \in participants /\ consumer # "destroyed"
  BY <1>1, <1>2 DEF Fits, Pipeline, Closing
<1>4. replica[u] \subseteq crdt \cup Held \cup Has(messages) \cup Has(toServer[u])
  <2>1. replica[u] \subseteq Doc \cup OwnPending(u)
    BY <1>1, <1>2, <1>3 DEF Shows, Connected
  <2>2. Doc \subseteq crdt \cup Held
    BY <1>1, DocHeld
  <2>3. OwnPending(u) \subseteq Has(messages) \cup Held \cup Has(toServer[u])
    BY <1>1, OwnEdits
  <2> QED
    BY <2>1, <2>2, <2>3
<1>5. Payload("CRDT", {e}) \in Requests
  BY DEF Payload, Requests
<1>6. /\ toServer'[u] = Append(toServer[u], Payload("CRDT", {e}))
      /\ \A v \in Users : v # u => toServer'[v] = toServer[v]
  BY <1>1 DEF MakeEdit, Send, TypeOK, ConnectionTypeOK
<1> QED
  BY <1>2, <1>3, <1>4, <1>5, <1>6

LEMMA PipelineMakeEdit ==
  ASSUME EInv, NEW u \in Users, NEW e \in Edits, MakeEdit(u, e)
  PROVE  Pipeline' /\ Shapes'
<1> DEFINE B == crdt \cup Held
           Q == Has(messages)
           m == Payload("CRDT", {e})
<1>1. /\ consumer # "destroyed" /\ e \notin issued /\ Author[e] = u /\ issued' = issued \cup {e}
      /\ ctx' = [ctx EXCEPT ![e] = replica[u]]
      /\ replica[u] \subseteq B \cup Q \cup Has(toServer[u])
      /\ m \in Requests /\ toServer'[u] = Append(toServer[u], m)
      /\ \A v \in Users : v # u => toServer'[v] = toServer[v]
      /\ UNCHANGED <<crdt, messages, item, consumer, closed>>
  BY MakeEditFacts
<1>2. m.body = {e} /\ m.type = "CRDT"
  BY DEF Payload
<1>3. TypeOK /\ Pipeline /\ Shapes
  BY DEF EInv, IInv
<1>4. /\ \A v \in Users : Has(toServer[v]) \subseteq issued
      /\ Q \subseteq issued /\ Held \subseteq issued /\ crdt \subseteq issued
      /\ toServer[u] \in Seq(Requests)
  BY <1>3, WhoseEdits, PipelineTypes
<1>5. ctx'[e] = replica[u] /\ \A d \in issued : ctx'[d] = ctx[d]
  BY <1>1, <1>3 DEF TypeOK, HistoryTypeOK
<1> HIDE DEF m
<1>6. Pipeline'
  <2>1. /\ \A d \in crdt : ctx[d] \subseteq crdt
        /\ \A d \in Held : d \notin crdt /\ ctx[d] \subseteq crdt
        /\ Ordered(messages, B, ctx)
        /\ \A v \in Users : Ordered(toServer[v], B \cup Q, ctx)
    BY <1>1, <1>3 DEF Pipeline
  <2>2. Held' = Held /\ Has(messages') = Q
    BY <1>1 DEF Held
  <2> DEFINE c == ctx
             b == ctx'
  <2> HIDE DEF B, Q, b, c
  <2>3. ASSUME NEW v \in Users PROVE Ordered(toServer[v], B \cup Q, b)
    BY <1>4, <1>5, <2>1, OrderedWiden DEF b, c
  <2>4. Ordered(messages, B, b)
    BY <1>4, <1>5, <2>1, OrderedWiden DEF b, c, Q
  <2>5. \A d \in Edits : d \in m.body =>
          d \notin B \cup Q /\ d \notin Has(toServer[u]) /\ b[d] \subseteq (B \cup Q) \cup Has(toServer[u])
    BY <1>1, <1>2, <1>4, <1>5 DEF b, B
  <2>6. Ordered(Append(toServer[u], m), B \cup Q, b)
    BY <1>1, <1>4, <2>3, <2>5, OrderedAppend
  <2>7. \A v \in Users : Ordered(toServer'[v], B \cup Q, b)
    BY <1>1, <2>3, <2>6
  <2>8. /\ \A d \in crdt : b[d] \subseteq crdt
        /\ \A d \in Held : d \notin crdt /\ b[d] \subseteq crdt
    BY <1>4, <1>5, <2>1 DEF b
  <2> QED
    BY <1>1, <1>3, <2>2, <2>4, <2>7, <2>8 DEF Pipeline, b, B, Q
<1>7. Shapes'
  <2>1. ASSUME NEW v \in Users, NEW i \in 1..Len(toServer'[v]), toServer'[v][i].type = "CRDT"
        PROVE  \E d \in issued' : toServer'[v][i].body = {d} /\ Author[d] = v
    <3>1. CASE v = u
      <4>1. /\ Append(toServer[u], m)[Len(toServer[u]) + 1] = m
            /\ \A j \in 1..Len(toServer[u]) : Append(toServer[u], m)[j] = toServer[u][j]
            /\ \A j \in 1..Len(Append(toServer[u], m)) :
                 j \in 1..Len(toServer[u]) \/ j = Len(toServer[u]) + 1
        BY <1>1, <1>4, AppendFacts
      <4>2. CASE i \in 1..Len(toServer[u])
        BY <1>1, <1>3, <2>1, <3>1, <4>1, <4>2 DEF Shapes, OneOf
      <4>3. CASE i = Len(toServer[u]) + 1
        BY <1>1, <1>2, <2>1, <3>1, <4>1, <4>3
      <4> QED
        BY <1>1, <2>1, <3>1, <4>1, <4>2, <4>3
    <3>2. CASE v # u
      <4>1. toServer'[v] = toServer[v]
        BY <1>1, <3>2
      <4> QED
        BY <1>1, <1>3, <2>1, <4>1 DEF Shapes, OneOf
    <3> QED
      BY <3>1, <3>2
  <2> QED
    BY <1>1, <1>3, <2>1 DEF Shapes, OneOf, Excluding
<1> QED
  BY <1>6, <1>7

\* A step of others.
LEMMA Apart ==
  ASSUME NEW v \in Users,
         toClient'[v] = toClient[v], toServer'[v] = toServer[v], replica'[v] = replica[v],
         missed'[v] = missed[v], reloads'[v] = reloads[v], fileValid'[v] = fileValid[v],
         phase'[v] = phase[v], v \in participants' => v \in participants,
         main' = main \/ main'.user # v \/ main'.task # "reload",
         OwnPending(v)' = OwnPending(v)
  PROVE  Keeps(v)
BY DEF Keeps, QuietChannel, Asks

LEMMA ClientMakeEdit ==
  ASSUME EInv, TypeOK', NEW u \in Users, NEW e \in Edits, MakeEdit(u, e), NEW v \in Users
  PROVE  Client(v)'
<1> DEFINE m == Payload("CRDT", {e})
<1>1. /\ u \in participants /\ phase[u] = "open" /\ consumer # "destroyed"
      /\ e \notin issued /\ Author[e] = u /\ issued' = issued \cup {e}
      /\ ctx' = [ctx EXCEPT ![e] = replica[u]]
      /\ m \in Requests /\ toServer'[u] = Append(toServer[u], m)
      /\ \A w \in Users : w # u => toServer'[w] = toServer[w]
      /\ UNCHANGED <<crdt, messages, item, consumer, closed, participants>>
  BY MakeEditFacts
<1>2. /\ replica'[u] = IF e \in Alignments THEN replica[u] ELSE replica[u] \cup {e}
      /\ \A w \in Users : w # u => replica'[w] = replica[w]
      /\ UNCHANGED <<toClient, phase, fileValid, missed, reloads, main>>
  BY DEF MakeEdit, EInv, IInv, TypeOK, ClientTypeOK, threadVars
<1>3. TypeOK /\ Pipeline /\ Shapes /\ Client(v) /\ Client(u)
  BY DEF EInv, IInv
<1>4. Held' = Held /\ Has(messages') = Has(messages) /\ Doc' = Doc
  BY <1>1 DEF Held, Doc, Broadcasting
<1>5. Doc \subseteq issued /\ issued \subseteq Edits
  BY <1>3, DocHeld
<1>6. ctx'[e] = replica[u] /\ \A d \in issued : ctx'[d] = ctx[d]
  BY <1>1, <1>3 DEF TypeOK, HistoryTypeOK
<1>7. Undisturbed
  BY <1>1, <1>4, <1>6 DEF Undisturbed
<1>8. \A w \in Users : OwnPending(w)' =
         {d \in Edits : Own(w, d) /\ (d \in Has(messages) \/ (consumer = "deliver" /\ d \in Held))}
           \cup {d \in Edits : Own(w, d) /\ d \in Has(toServer'[w])}
  BY <1>1, <1>4, OwnEditsNext
<1>9. \A w \in Users : OwnPending(w) =
         {d \in Edits : Own(w, d) /\ (d \in Has(messages) \/ (consumer = "deliver" /\ d \in Held))}
           \cup {d \in Edits : Own(w, d) /\ d \in Has(toServer[w])}
  BY <1>3, OwnEdits
<1>10. CASE v # u
  <2>1. OwnPending(v)' = OwnPending(v)
    BY <1>1, <1>8, <1>9, <1>10
  <2>2. Keeps(v)
    BY <1>1, <1>2, <1>10, <2>1, Apart
  <2> QED
    BY <1>3, <1>7, <2>2, Steady
<1>11. CASE v = u
  <2> DEFINE r == replica[u]
             s == toClient[u]
             new == IF e \in Alignments THEN {} ELSE {e}
  <2>1. /\ replica'[u] = r \cup new /\ s \in Seq(Responses) /\ toClient'[u] = s
        /\ r \subseteq issued /\ missed[u] \subseteq issued
    BY <1>2, <1>3, PipelineTypes DEF Client, Shows
  <2>2. OwnPending(u)' = OwnPending(u) \cup new
    <3>1. Has(Append(toServer[u], m)) = Has(toServer[u]) \cup {d \in Edits : d \in m.body}
      BY <1>1, <1>3, PipelineTypes, HasAppend
    <3>2. {d \in Edits : d \in m.body} = {e}
      BY DEF Payload
    <3>3. Own(u, e) <=> e \notin Alignments
      BY <1>1 DEF Own
    <3>4. OwnPending(u)' = OwnPending(u) \cup {d \in {e} : Own(u, d)}
      BY <1>1, <1>8, <1>9, <3>1, <3>2
    <3> QED
      BY <3>3, <3>4
  <2>3. TextFirst(u)'
    <3>1. \A i \in 1..Len(toServer[u]) : toServer[u][i].type # "OPEN"
      BY <1>1, <1>3 DEF EInv, IInv, Conversation, Fits, Work
    <3>2. ~Asks(u, "OPEN")'
      <4>1. /\ Append(toServer[u], m)[Len(toServer[u]) + 1] = m
            /\ \A j \in 1..Len(toServer[u]) : Append(toServer[u], m)[j] = toServer[u][j]
            /\ \A j \in 1..Len(Append(toServer[u], m)) :
                 j \in 1..Len(toServer[u]) \/ j = Len(toServer[u]) + 1
        BY <1>1, <1>3, PipelineTypes, AppendFacts
      <4>2. m.type # "OPEN"
        BY DEF Payload
      <4> QED
        BY <1>1, <3>1, <4>1, <4>2 DEF Asks
    <3> QED
      BY <1>1, <1>2, <1>3, <3>2 DEF Client, TextFirst, Textless, Connected
  <2>4. Reloads(u)'
    <3>1. Asks(u, "LOAD")' => Asks(u, "LOAD")
      <4>1. /\ Append(toServer[u], m)[Len(toServer[u]) + 1] = m
            /\ \A j \in 1..Len(toServer[u]) : Append(toServer[u], m)[j] = toServer[u][j]
            /\ \A j \in 1..Len(Append(toServer[u], m)) :
                 j \in 1..Len(toServer[u]) \/ j = Len(toServer[u]) + 1
        BY <1>1, <1>3, PipelineTypes, AppendFacts
      <4>2. m.type # "LOAD"
        BY DEF Payload
      <4> QED
        BY <1>1, <4>1, <4>2 DEF Asks
    <3> QED
      BY <1>2, <1>3, <3>1 DEF Client, Reloads
  <2>5. Shows(u)'
    BY <1>1, <1>2, <1>3, <1>4, <2>1, <2>2 DEF Client, Shows, Connected
  <2>6. Follows(u)'
    <3>1. Fresh(s, r, Doc, ctx) /\ (reloads[u] = 0 => InCausalOrder(s, r, missed[u], ctx))
      BY <1>3 DEF Client, Follows
    <3>2. \A i \in 1..Len(s) : Incoming(s[i]) \subseteq Doc
      BY <2>1, <3>1, BringsDoc
    <3>3. Fresh(toClient'[u], replica'[u], Doc', ctx')
      <4>1. replica'[u] \cap Doc \subseteq r /\ \A d \in Doc : ctx'[d] = ctx[d]
        BY <1>1, <1>5, <1>6, <2>1
      <4> DEFINE d0 == Doc
                 c1 == ctx'
                 r1 == replica'[u]
      <4> HIDE DEF d0, c1, r1, r, s
      <4>2. Fresh(s, r1, d0, c1)
        BY <3>1, <4>1, FreshWiden DEF d0, c1, r1
      <4> QED
        BY <1>4, <2>1, <4>2 DEF d0, c1, r1
    <3>4. ASSUME reloads'[u] = 0 PROVE InCausalOrder(toClient'[u], replica'[u], missed'[u], ctx')
      <4>1. InCausalOrder(s, r, missed[u], ctx)
        BY <1>2, <3>1, <3>4
      <4> HIDE DEF r, s
      <4>2. \A d \in r \cup new : ctx'[d] \subseteq (r \cup new) \cup missed[u]
        BY <1>6, <2>1, <4>1 DEF InCausalOrder, r
      <4>3. \A i \in 1..Len(s) : \A d \in Incoming(s[i]) :
              ctx'[d] \subseteq (r \cup new) \cup missed[u] \cup UpTo(s, i)
        BY <1>5, <1>6, <3>2, <4>1 DEF InCausalOrder
      <4> HIDE DEF new
      <4> QED
        BY <1>2, <2>1, <4>2, <4>3 DEF InCausalOrder
    <3> QED
      BY <3>3, <3>4 DEF Follows
  <2>7. Agrees(u)'
    <3>1. Agrees(u) /\ new \cap missed[u] = {}
      BY <1>1, <1>3, <2>1 DEF Client
    <3> HIDE DEF new
    <3> QED
      BY <1>1, <1>2, <1>4, <2>1, <2>2, <3>1 DEF Agrees, Connected
  <2> QED
    BY <1>11, <2>3, <2>4, <2>5, <2>6, <2>7 DEF Client
<1> QED
  BY <1>10, <1>11

-----------------------------------------------------------------------------
(* The other steps of a user.                                              *)

\* What is added to the requests of a user, or taken from their front.
LEMMA AsksAppend ==
  ASSUME TypeOK, NEW u \in Users, NEW m \in Requests, toServer'[u] = Append(toServer[u], m)
  PROVE  \A type : Asks(u, type)' => Asks(u, type) \/ type = m.type
<1>1. /\ Append(toServer[u], m)[Len(toServer[u]) + 1] = m
      /\ \A j \in 1..Len(toServer[u]) : Append(toServer[u], m)[j] = toServer[u][j]
      /\ \A j \in 1..Len(Append(toServer[u], m)) :
           j \in 1..Len(toServer[u]) \/ j = Len(toServer[u]) + 1
  BY PipelineTypes, AppendFacts
<1> QED
  BY <1>1 DEF Asks

LEMMA AsksTail ==
  ASSUME TypeOK, NEW u \in Users, toServer[u] # <<>>, toServer'[u] = Tail(toServer[u])
  PROVE  \A type : /\ Asks(u, type)' => Asks(u, type)
                   /\ Head(toServer[u]).type = type => Asks(u, type)
<1>1. /\ Head(toServer[u]) = toServer[u][1] /\ 1 \in 1..Len(toServer[u])
      /\ \A i \in 1..Len(Tail(toServer[u])) :
           Tail(toServer[u])[i] = toServer[u][i + 1] /\ i + 1 \in 1..Len(toServer[u])
  <2>1. toServer[u] \in Seq(Requests)
    BY PipelineTypes
  <2> QED
    BY <2>1
<1> QED
  BY <1>1 DEF Asks

LEMMA ClientSendOpen ==
  ASSUME EInv, NEW u \in Users, SendOpen(u)
  PROVE  Client(u)'
<1>1. /\ toServer[u] = <<>> /\ toClient[u] = <<>> /\ u \notin participants /\ main.user # u
  BY DEF EInv, IInv, Conversation, Fits, SendOpen
<1>2. /\ phase'[u] = "opening" /\ replica'[u] = {} /\ missed'[u] = missed[u]
      /\ UNCHANGED <<toClient, participants, main, issued>>
      /\ toServer'[u] = Append(toServer[u], Payload("OPEN", {}))
  BY DEF SendOpen, Send, EInv, IInv, TypeOK, ClientTypeOK, ConnectionTypeOK, fileVars, threadVars
<1>3. Payload("OPEN", {}) \in Requests /\ Payload("OPEN", {}).type = "OPEN"
  BY DEF Payload, Requests
<1>4. ~Asks(u, "LOAD")'
  <2>1. ~Asks(u, "LOAD")
    BY <1>1 DEF Asks
  <2>2. \A type : Asks(u, type)' => Asks(u, type) \/ type = "OPEN"
    BY <1>2, <1>3, AsksAppend DEF EInv, IInv
  <2> QED
    BY <2>1, <2>2
<1>5. TextFirst(u)'
  BY <1>1, <1>2 DEF TextFirst, TextBeforeEdits, OneText, HasText
<1>6. Reloads(u)'
  BY <1>1, <1>2, <1>4 DEF Reloads
<1>7. Shows(u)'
  BY <1>1, <1>2 DEF EInv, Client, Shows
<1>8. Follows(u)'
  BY <1>1, <1>2 DEF Follows, Fresh, InCausalOrder
<1>9. Agrees(u)'
  BY <1>1, <1>2 DEF Agrees
<1> QED
  BY <1>5, <1>6, <1>7, <1>8, <1>9 DEF Client

LEMMA ClientBreak ==
  ASSUME EInv, TypeOK', NEW u \in Users, Break(u), NEW v \in Users
  PROVE  Client(v)'
<1>1. TypeOK /\ Pipeline /\ Shapes /\ Client(v)
  BY DEF EInv, IInv
<1>2. /\ phase'[u] = "gone" /\ toClient'[u] = <<>>
      /\ \A w \in Users : w # u =>
           /\ phase'[w] = phase[w] /\ toClient'[w] = toClient[w] /\ toServer'[w] = toServer[w]
      /\ UNCHANGED <<participants, messages, crdt, consumer, item, main, issued, ctx,
                     replica, missed, reloads, fileValid>>
  BY <1>1 DEF Break, fileVars, threadVars, TypeOK, ConnectionTypeOK, ClientTypeOK
<1>3. CASE v # u
  <2>1. OwnPending(v)' = OwnPending(v)
    BY <1>2, <1>3 DEF OwnPending, OwnQueued
  <2>2. Undisturbed
    BY <1>2 DEF Undisturbed, Doc, Broadcasting
  <2>3. Keeps(v)
    BY <1>2, <1>3, <2>1, Apart
  <2> QED
    BY <1>1, <2>2, <2>3, Steady
<1>4. CASE v = u
  <2>1. \A type \in {"OPEN", "LOAD"} : Asks(u, type)' => Asks(u, type)
    <3> DEFINE s == toServer[u]
               d == Payload("DISCONNECT", {})
    <3>1. PICK k \in 0..Len(s) : toServer'[u] = Append(SubSeq(s, 1, k), d)
      BY <1>1 DEF Break, TypeOK, ConnectionTypeOK
    <3>2. s \in Seq(Requests) /\ d \in Requests /\ d.type = "DISCONNECT"
      BY <1>1, PipelineTypes DEF Payload, Requests
    <3> HIDE DEF s, d
    <3> DEFINE t == SubSeq(s, 1, k)
    <3>3. t \in Seq(Requests) /\ \A i \in 1..Len(t) : t[i] = s[i] /\ i \in 1..Len(s)
      BY <3>2
    <3>4. toServer'[u] = Append(t, d)
      BY <3>1
    <3> HIDE DEF t
    <3>5. \A i \in 1..Len(Append(t, d)) :
            Append(t, d)[i] = d \/ \E j \in 1..Len(s) : Append(t, d)[i] = s[j]
      <4>1. /\ Append(t, d)[Len(t) + 1] = d /\ \A j \in 1..Len(t) : Append(t, d)[j] = t[j]
            /\ \A j \in 1..Len(Append(t, d)) : j \in 1..Len(t) \/ j = Len(t) + 1
        BY <3>2, <3>3, AppendFacts
      <4> QED
        BY <3>3, <4>1
    <3> QED
      BY <3>2, <3>4, <3>5 DEF Asks, s
  <2>2. TextFirst(u)'
    BY <1>1, <1>2, <1>4, <2>1
       DEF Client, TextFirst, Connected, TextBeforeEdits, OneText, HasText
  <2>3. Reloads(u)'
    BY <1>1, <1>2, <1>4, <2>1 DEF Client, Reloads
  <2>4. Shows(u)'
    BY <1>1, <1>2, <1>4 DEF Client, Shows, Connected
  <2>5. Follows(u)'
    BY <1>1, <1>2, <1>4 DEF Client, Follows, Fresh, InCausalOrder
  <2>6. Agrees(u)'
    BY <1>2 DEF Agrees, Connected
  <2> QED
    BY <1>4, <2>2, <2>3, <2>4, <2>5, <2>6 DEF Client
<1> QED
  BY <1>3, <1>4

LEMMA ClientUser ==
  ASSUME EInv, TypeOK', NEW u \in Users, UserAction(u), NEW v \in Users
  PROVE  Client(v)'
<1>1. TypeOK /\ Pipeline /\ Shapes /\ Client(v)
  BY DEF EInv, IInv
<1>2. CASE Break(u)
  BY <1>2, ClientBreak
<1>3. CASE \E e \in Edits : MakeEdit(u, e)
  BY <1>3, ClientMakeEdit
<1>4. CASE \/ SendOpen(u) \/ IllegalEdit(u) \/ AskReload(u) \/ SendQuit(u)
           \/ \E m \in Chats : Say(u, m)
  <2>1. /\ UNCHANGED <<participants, consumer, item, main, toClient, missed>>
        /\ \A w \in Users : w # u =>
             /\ phase'[w] = phase[w] /\ toServer'[w] = toServer[w] /\ replica'[w] = replica[w]
             /\ fileValid'[w] = fileValid[w] /\ reloads'[w] = reloads[w]
    BY <1>1, <1>4 DEF SendOpen, IllegalEdit, AskReload, SendQuit, Say, Send, fileVars,
       threadVars, netVars, clientVars, historyVars, TypeOK, ClientTypeOK, ConnectionTypeOK,
       HistoryTypeOK
  <2>2. Undisturbed /\ OwnPending(v)' = OwnPending(v)
    BY <1>1, <1>4, <2>1, QuietUser, QuietUndisturbed
  <2>3. CASE v # u
    <3>1. Keeps(v)
      BY <2>1, <2>2, <2>3, Apart
    <3> QED
      BY <1>1, <2>2, <3>1, Steady
  <2>4. CASE v = u /\ SendOpen(u)
    BY <2>4, ClientSendOpen
  <2>5. CASE v = u /\ IllegalEdit(u)
    <3>1. /\ phase'[u] = "illegal" /\ phase[u] = "open" /\ reloads'[u] # 0
          /\ UNCHANGED <<replica, toServer>>
      BY <1>1, <2>5 DEF IllegalEdit, TypeOK, ClientTypeOK, HistoryTypeOK, netVars
    <3>2. Keeps(u)
      BY <2>1, <2>2, <2>5, <3>1 DEF Keeps, QuietChannel, Asks
    <3> QED
      BY <1>1, <2>2, <2>5, <3>2, Steady
  <2>6. CASE v = u /\ AskReload(u)
    <3>1. /\ phase'[u] = "open" /\ phase[u] = "illegal"
          /\ UNCHANGED <<replica, reloads, fileValid>>
          /\ toServer'[u] = Append(toServer[u], Payload("LOAD", {}))
      BY <1>1, <2>6 DEF AskReload, Send, TypeOK, ClientTypeOK, ConnectionTypeOK, historyVars
    <3>2. reloads[u] # 0
      BY <1>1, <2>6, <3>1 DEF Client, Reloads
    <3>3. Payload("LOAD", {}) \in Requests /\ Payload("LOAD", {}).type = "LOAD"
      BY DEF Payload, Requests
    <3>4. Asks(u, "OPEN")' => Asks(u, "OPEN")
      BY <1>1, <3>1, <3>3, AsksAppend
    <3>5. Keeps(u)
      BY <2>1, <2>2, <2>6, <3>1, <3>2, <3>4 DEF Keeps, QuietChannel
    <3> QED
      BY <1>1, <2>2, <2>6, <3>5, Steady
  <2>7. CASE v = u /\ (SendQuit(u) \/ \E m \in Chats : Say(u, m))
    <3>1. /\ phase'[u] \in {"open", "quitting"} /\ phase[u] = "open"
          /\ UNCHANGED <<replica, reloads, fileValid>>
          /\ \E m \in Requests : m.type \in {"QUIT", "CHAT"} /\ toServer'[u] = Append(toServer[u], m)
      <4>1. CASE SendQuit(u)
        <5>1. Payload("QUIT", {}) \in Requests /\ Payload("QUIT", {}).type = "QUIT"
          BY DEF Payload, Requests
        <5> QED
          BY <1>1, <4>1, <5>1 DEF SendQuit, Send, TypeOK, ClientTypeOK, ConnectionTypeOK, historyVars
      <4>2. CASE \E m \in Chats : Say(u, m)
        <5>1. PICK m \in Chats : Say(u, m)
          BY <4>2
        <5>2. Payload("CHAT", {m}) \in Requests /\ Payload("CHAT", {m}).type = "CHAT"
          BY DEF Payload, Requests
        <5> QED
          BY <1>1, <5>1, <5>2 DEF Say, Send, TypeOK, ClientTypeOK, ConnectionTypeOK, clientVars
      <4> QED
        BY <2>7, <4>1, <4>2
    <3>2. \A type \in {"OPEN", "LOAD"} : Asks(u, type)' => Asks(u, type)
      BY <1>1, <3>1, AsksAppend
    <3>3. Keeps(u)
      BY <2>1, <2>2, <2>7, <3>1, <3>2 DEF Keeps, QuietChannel
    <3> QED
      BY <1>1, <2>2, <2>7, <3>3, Steady
  <2> QED
    BY <1>4, <2>3, <2>4, <2>5, <2>6, <2>7
<1> QED
  BY <1>2, <1>3, <1>4 DEF UserAction

-----------------------------------------------------------------------------
(* A client handles a response.                                            *)

LEMMA Answered ==
  ASSUME IInv, NEW u \in Users, toClient[u] # <<>>
  PROVE  ~Asks(u, "OPEN")
<1>1. Fits(u) /\ phase[u] \in Phases
  BY DEF IInv, Conversation, TypeOK, ClientTypeOK
<1>2. phase[u] = "opening" => toServer[u] = <<>>
  BY <1>1 DEF Fits
<1> QED
  BY <1>1, <1>2 DEF Fits, Asks, Phases, Work

\* What a client that reads its channel leaves alone.
LEMMA ReceiveFacts ==
  ASSUME EInv, TypeOK', NEW u \in Users, Receive(u)
  PROVE  /\ UNCHANGED <<participants, consumer, item, main, missed, reloads>>
         /\ Undisturbed /\ \A v \in Users : OwnPending(v)' = OwnPending(v)
         /\ \A v \in Users : v # u =>
              /\ phase'[v] = phase[v] /\ toServer'[v] = toServer[v] /\ toClient'[v] = toClient[v]
              /\ replica'[v] = replica[v] /\ fileValid'[v] = fileValid[v]
         /\ toClient[u] \in Seq(Responses) /\ toClient[u] # <<>>
         /\ toClient'[u] = Tail(toClient[u])
<1>1. TypeOK /\ Pipeline /\ Shapes
  BY DEF EInv, IInv
<1>2. UNCHANGED <<participants, consumer, item, main, missed, reloads>>
  BY DEF Receive, ReceiveOpen, ReceiveReject, ReceiveLoad, ReceiveEdit, ReceiveChat,
     ReceivePresence, ReceiveQuit, fileVars, threadVars, historyVars
<1>3. Undisturbed /\ \A v \in Users : OwnPending(v)' = OwnPending(v)
  BY <1>1, <1>2, QuietReceive, QuietUndisturbed
<1>4. toClient[u] # <<>> /\ Took(u)
  BY DEF Receive, ReceiveOpen, ReceiveReject, ReceiveLoad, ReceiveEdit, ReceiveChat,
     ReceivePresence, ReceiveQuit, Response
<1>5. \A v \in Users : v # u =>
        /\ phase'[v] = phase[v] /\ toServer'[v] = toServer[v]
        /\ replica'[v] = replica[v] /\ fileValid'[v] = fileValid[v]
  BY <1>1 DEF Receive, ReceiveOpen, ReceiveReject, ReceiveLoad, ReceiveEdit, ReceiveChat,
     ReceivePresence, ReceiveQuit, Send, TypeOK, ClientTypeOK, ConnectionTypeOK
<1> QED
  BY <1>1, <1>2, <1>3, <1>4, <1>5 DEF Took, TypeOK, ConnectionTypeOK

\* The replica that the client has then shows the head of its channel.
LEMMA ClientReceiveEdit ==
  ASSUME EInv, TypeOK', NEW u \in Users, ReceiveEdit(u)
  PROVE  Client(u)'
<1> DEFINE s == toClient[u]
           r == replica[u]
           k == missed[u]
           B == Head(s).body
<1>1. /\ UNCHANGED <<participants, main, missed, reloads>>
      /\ Undisturbed /\ OwnPending(u)' = OwnPending(u)
      /\ s \in Seq(Responses) /\ s # <<>> /\ toClient'[u] = Tail(s)
  BY ReceiveFacts DEF Receive
<1>2. /\ Head(s).type = "CRDT" /\ UNCHANGED <<toServer, phase, fileValid>>
      /\ replica'[u] = IF fileValid[u] THEN r \cup B ELSE r
  BY DEF ReceiveEdit, Response, EInv, IInv, TypeOK, ClientTypeOK
<1>3. TypeOK /\ Pipeline /\ Shapes /\ Client(u) /\ ~Asks(u, "OPEN")
  BY <1>1, Answered DEF EInv, IInv
<1>4. /\ Fresh(s, r, Doc, ctx) /\ Doc' = Doc /\ Doc \subseteq issued /\ issued \subseteq Edits
      /\ issued \subseteq issued' /\ \A e \in issued : ctx'[e] = ctx[e]
      /\ reloads[u] = 0 => InCausalOrder(s, r, k, ctx)
  BY <1>1, <1>3, DocHeld DEF Client, Follows, Undisturbed
<1>5. Head(s) = s[1] /\ 1 \in 1..Len(s) /\ B \subseteq Doc /\ Incoming(Head(s)) = B
  <2>1. Head(s) = s[1] /\ 1 \in 1..Len(s) /\ Incoming(Head(s)) = B
    BY <1>1, <1>2 DEF Incoming
  <2>2. B \subseteq Doc
    BY <1>1, <1>4, <2>1, BringsDoc
  <2> QED
    BY <2>1, <2>2
<1>6. ~Textless(u)
  BY <1>1, <1>2, <1>3, TextTail DEF Client, TextFirst
<1>7. reloads[u] = 0 => fileValid[u]
  BY <1>6 DEF Textless
<1>8. TextFirst(u)'
  <2>1. (OneText(s) => OneText(Tail(s))) /\ (HasText(Tail(s)) => HasText(s))
    BY <1>1, TextTail
  <2>2. Asks(u, "OPEN")' <=> Asks(u, "OPEN")
    BY <1>2 DEF Asks
  <2> HIDE DEF s, r
  <2> QED
    BY <1>1, <1>2, <1>3, <1>6, <2>1, <2>2 DEF Client, TextFirst, Textless, s
<1>9. Reloads(u)'
  BY <1>1, <1>2, <1>3 DEF Client, Reloads, Asks
<1>10. Shows(u)'
  BY <1>1, <1>2, <1>3, <1>4, <1>5 DEF Client, Shows, Connected
<1>11. Follows(u)'
  <2>1. Fresh(Tail(s), replica'[u], Doc, ctx)
    <3> DEFINE d == Doc
               c == ctx
    <3>1. Fresh(s, r, d, c)
      BY <1>4
    <3> HIDE DEF d, c, s, r
    <3>2. /\ Fresh(Tail(s), r, d, c)
          /\ Fresh(Tail(s), r \cup Incoming(Head(s)), d, c)
          /\ Fresh(Tail(s), Incoming(Head(s)), d, c)
      BY <1>1, <3>1, FreshTail
    <3> QED
      BY <1>2, <1>5, <3>2 DEF d, c
  <2>2. Fresh(toClient'[u], replica'[u], Doc', ctx')
    <3> DEFINE d == Doc
               c == ctx
               c1 == ctx'
               r1 == replica'[u]
               t == Tail(s)
    <3>1. Fresh(t, r1, d, c) /\ \A e \in d : c1[e] = c[e]
      BY <1>4, <2>1
    <3>2. Doc' = d /\ toClient'[u] = t
      BY <1>1, <1>4
    <3> HIDE DEF d, c, c1, r1, t
    <3>3. Fresh(t, r1, d, c1)
      BY <3>1, FreshWiden
    <3> QED
      BY <3>2, <3>3 DEF c1, r1
  <2>3. ASSUME reloads'[u] = 0
        PROVE  InCausalOrder(toClient'[u], replica'[u], missed'[u], ctx')
    <3>1. InCausalOrder(s, r, k, ctx) /\ replica'[u] = r \cup B
      BY <1>1, <1>2, <1>4, <1>7, <2>3
    <3>2. \A e \in r \cup B : ctx[e] \subseteq (r \cup B) \cup k
      <4>1. UpTo(s, 1) \subseteq B
        BY <1>5 DEF UpTo
      <4>2. \A e \in B : ctx[e] \subseteq r \cup k \cup UpTo(s, 1)
        BY <1>5, <3>1 DEF InCausalOrder
      <4>3. \A e \in r : ctx[e] \subseteq r \cup k
        BY <3>1 DEF InCausalOrder
      <4> QED
        BY <4>1, <4>2, <4>3
    <3>3. InCausalOrder(Tail(s), r \cup B, k, ctx)
      BY <1>1, <1>5, <3>1, <3>2, OrderTail
    <3>4. \A i \in 1..Len(Tail(s)) : Incoming(Tail(s)[i]) \subseteq Doc
      <4>1. Tail(s) \in Seq(Responses)
        BY <1>1
      <4> QED
        BY <2>1, <4>1, BringsDoc
    <3>5. r \cup B \subseteq issued
      BY <1>3, <1>4, <1>5 DEF Client, Shows
    <3> QED
      BY <1>1, <1>4, <3>1, <3>3, <3>4, <3>5 DEF InCausalOrder
  <2> QED
    BY <2>2, <2>3 DEF Follows
<1>12. Agrees(u)'
  <2>1. Brings(s) = Brings(Tail(s)) \cup {e \in Edits : e \in Incoming(Head(s))}
    BY <1>1, BringsTail
  <2>2. Brings(s) = Brings(Tail(s)) \cup B
    BY <1>4, <1>5, <2>1
  <2> HIDE DEF s, r, B
  <2>3. reloads[u] = 0 => replica'[u] \cup Brings(toClient'[u]) = r \cup Brings(s)
    BY <1>1, <1>2, <1>7, <2>2
  <2> QED
    BY <1>1, <1>2, <1>3, <1>4, <2>3 DEF Client, Agrees, Connected, s, r
<1> QED
  BY <1>8, <1>9, <1>10, <1>11, <1>12 DEF Client

LEMMA ClientReceiveLoad ==
  ASSUME EInv, TypeOK', NEW u \in Users, ReceiveLoad(u)
  PROVE  Client(u)'
<1> DEFINE s == toClient[u]
           r == replica[u]
           k == missed[u]
           B == Head(s).body
<1>1. /\ UNCHANGED <<participants, main, missed, reloads>>
      /\ Undisturbed /\ OwnPending(u)' = OwnPending(u)
      /\ s \in Seq(Responses) /\ s # <<>> /\ toClient'[u] = Tail(s)
  BY ReceiveFacts DEF Receive
<1>2. /\ Head(s).type = "LOAD" /\ UNCHANGED toServer /\ fileValid'[u] = TRUE
      /\ replica'[u] = B /\ phase'[u] = IF phase[u] = "opening" THEN "open" ELSE phase[u]
  BY DEF ReceiveLoad, Response, EInv, IInv, TypeOK, ClientTypeOK
<1>3. TypeOK /\ Pipeline /\ Shapes /\ Client(u) /\ ~Asks(u, "OPEN")
  BY <1>1, Answered DEF EInv, IInv
<1>4. /\ Fresh(s, r, Doc, ctx) /\ Doc' = Doc /\ Doc \subseteq issued /\ issued \subseteq Edits
      /\ issued \subseteq issued' /\ \A e \in issued : ctx'[e] = ctx[e]
      /\ reloads[u] = 0 => InCausalOrder(s, r, k, ctx)
  BY <1>1, <1>3, DocHeld DEF Client, Follows, Undisturbed
<1>5. /\ Head(s) = s[1] /\ 1 \in 1..Len(s) /\ B \subseteq Doc /\ Incoming(Head(s)) = B
      /\ \A e \in B : ctx[e] \subseteq B
  <2>1. Head(s) = s[1] /\ 1 \in 1..Len(s) /\ Incoming(Head(s)) = B
    BY <1>1, <1>2 DEF Incoming
  <2>2. B \subseteq Doc /\ \A e \in B : ctx[e] \subseteq B
    BY <1>2, <1>4, <2>1 DEF Fresh
  <2> QED
    BY <2>1, <2>2
<1>6. reloads[u] = 0 => r = {}
  <2>1. HasText(s)
    BY <1>2, <1>5 DEF HasText
  <2> QED
    BY <1>3, <2>1 DEF Client, TextFirst
<1>7. TextFirst(u)'
  <2>1. reloads[u] = 0 => OneText(Tail(s)) /\ ~HasText(Tail(s))
    BY <1>1, <1>2, <1>3, TextTail DEF Client, TextFirst
  <2>2. Asks(u, "OPEN")' <=> Asks(u, "OPEN")
    BY <1>2 DEF Asks
  <2>3. phase'[u] # "opening"
    BY <1>2
  <2> HIDE DEF s, r
  <2> QED
    BY <1>1, <1>2, <1>3, <2>1, <2>2, <2>3 DEF Client, TextFirst, Textless, s
<1>8. Reloads(u)'
  BY <1>1, <1>2, <1>3 DEF Client, Reloads, Asks
<1>9. Shows(u)'
  BY <1>1, <1>2, <1>3, <1>4, <1>5 DEF Client, Shows, Connected
<1>10. Follows(u)'
  <2>1. Fresh(Tail(s), replica'[u], Doc, ctx)
    <3> DEFINE d == Doc
               c == ctx
    <3>1. Fresh(s, r, d, c)
      BY <1>4
    <3> HIDE DEF d, c, s, r
    <3>2. /\ Fresh(Tail(s), r, d, c)
          /\ Fresh(Tail(s), r \cup Incoming(Head(s)), d, c)
          /\ Fresh(Tail(s), Incoming(Head(s)), d, c)
      BY <1>1, <3>1, FreshTail
    <3> QED
      BY <1>2, <1>5, <3>2 DEF d, c
  <2>2. Fresh(toClient'[u], replica'[u], Doc', ctx')
    <3> DEFINE d == Doc
               c == ctx
               c1 == ctx'
               r1 == replica'[u]
               t == Tail(s)
    <3>1. Fresh(t, r1, d, c) /\ \A e \in d : c1[e] = c[e]
      BY <1>4, <2>1
    <3>2. Doc' = d /\ toClient'[u] = t
      BY <1>1, <1>4
    <3> HIDE DEF d, c, c1, r1, t
    <3>3. Fresh(t, r1, d, c1)
      BY <3>1, FreshWiden
    <3> QED
      BY <3>2, <3>3 DEF c1, r1
  <2>3. ASSUME reloads'[u] = 0
        PROVE  InCausalOrder(toClient'[u], replica'[u], missed'[u], ctx')
    <3>1. InCausalOrder(s, r, k, ctx) /\ r = {}
      BY <1>1, <1>4, <1>6, <2>3
    <3>2. InCausalOrder(Tail(s), B, k, ctx)
      BY <1>1, <1>5, <3>1, OrderTail
    <3>3. \A i \in 1..Len(Tail(s)) : Incoming(Tail(s)[i]) \subseteq Doc
      <4>1. Tail(s) \in Seq(Responses)
        BY <1>1
      <4> QED
        BY <2>1, <4>1, BringsDoc
    <3> QED
      BY <1>1, <1>2, <1>4, <1>5, <3>2, <3>3 DEF InCausalOrder
  <2> QED
    BY <2>2, <2>3 DEF Follows
<1>11. Agrees(u)'
  <2>1. Brings(s) = Brings(Tail(s)) \cup {e \in Edits : e \in Incoming(Head(s))}
    BY <1>1, BringsTail
  <2>2. Brings(s) = Brings(Tail(s)) \cup B
    BY <1>4, <1>5, <2>1
  <2> HIDE DEF s, r, B
  <2>3. reloads[u] = 0 => replica'[u] \cup Brings(toClient'[u]) = r \cup Brings(s)
    BY <1>1, <1>2, <1>6, <2>2
  <2> QED
    BY <1>1, <1>2, <1>3, <1>4, <2>3 DEF Client, Agrees, Connected, s, r
<1> QED
  BY <1>7, <1>8, <1>9, <1>10, <1>11 DEF Client

LEMMA ClientReceive ==
  ASSUME EInv, TypeOK', NEW u \in Users, Receive(u), NEW v \in Users
  PROVE  Client(v)'
<1>1. TypeOK /\ Pipeline /\ Shapes /\ Client(v) /\ Answers(u)
  BY DEF EInv, IInv, Conversation
<1>2. /\ UNCHANGED <<participants, consumer, item, main, missed, reloads>>
      /\ Undisturbed /\ \A w \in Users : OwnPending(w)' = OwnPending(w)
      /\ \A w \in Users : w # u =>
           /\ phase'[w] = phase[w] /\ toServer'[w] = toServer[w] /\ toClient'[w] = toClient[w]
           /\ replica'[w] = replica[w] /\ fileValid'[w] = fileValid[w]
      /\ toClient[u] \in Seq(Responses) /\ toClient[u] # <<>>
      /\ toClient'[u] = Tail(toClient[u])
  BY ReceiveFacts
<1>3. CASE v # u
  <2>1. Keeps(v)
    BY <1>2, <1>3, Apart
  <2> QED
    BY <1>1, <1>2, <2>1, Steady
<1>4. CASE v = u /\ ReceiveLoad(u)
  BY <1>4, ClientReceiveLoad
<1>5. CASE v = u /\ ReceiveEdit(u)
  BY <1>5, ClientReceiveEdit
<1>6. CASE v = u /\ (ReceiveOpen(u) \/ ReceiveChat(u) \/ ReceivePresence(u))
  <2>1. /\ Neutral(Head(toClient[u])) /\ UNCHANGED <<toServer, phase, replica>>
        /\ fileValid[u] => fileValid'[u]
    BY <1>1, <1>6 DEF ReceiveOpen, ReceiveChat, ReceivePresence, Response, Neutral, TypeOK,
       ClientTypeOK
  <2>2. Keeps(u)
    BY <1>2, <2>1 DEF Keeps, QuietChannel, Asks
  <2> QED
    BY <1>1, <1>2, <1>6, <2>2, Steady
<1>7. CASE v = u /\ (ReceiveReject(u) \/ ReceiveQuit(u))
  <2>1. Head(toClient[u]) = toClient[u][1] /\ 1 \in 1..Len(toClient[u])
    BY <1>2
  <2>2. /\ Head(toClient[u]).type \in {"REJECT", "QUIT"} /\ UNCHANGED <<replica, fileValid>>
        /\ phase'[u] \in {"quitting", "out"}
        /\ \/ toServer' = toServer
           \/ toServer'[u] = Append(toServer[u], Payload("QUIT", {}))
    BY <1>1, <1>7 DEF ReceiveReject, ReceiveQuit, Response, Send, TypeOK, ClientTypeOK,
       ConnectionTypeOK
  <2>3. toClient'[u] = <<>> /\ u \notin participants
    BY <1>1, <1>2, <2>1, <2>2, TailOfOne DEF Answers
  <2>4. \A type \in {"OPEN", "LOAD"} : Asks(u, type)' => Asks(u, type)
    <3>1. Payload("QUIT", {}) \in Requests /\ Payload("QUIT", {}).type = "QUIT"
      BY DEF Payload, Requests
    <3> QED
      BY <1>1, <2>2, <3>1, AsksAppend DEF Asks
  <2>5. Keeps(u)
    BY <1>2, <2>2, <2>3, <2>4 DEF Keeps, QuietChannel, Neutral
  <2> QED
    BY <1>1, <1>2, <1>7, <2>5, Steady
<1> QED
  BY <1>3, <1>4, <1>5, <1>6, <1>7 DEF Receive

-----------------------------------------------------------------------------
(* The main thread handles a request.                                      *)

\* What one message to one user leaves in its channel.
LEMMA QuietDeliver ==
  ASSUME TypeOK, NEW u \in Users, NEW m \in Responses, Neutral(m)
  PROVE  QuietChannel(toClient[u], Deliver(toClient[u], u, <<m>>))
<1>1. toClient[u] \o <<m>> = Append(toClient[u], m)
  BY PipelineTypes, AppendFacts
<1> QED
  BY <1>1 DEF Deliver, QuietChannel

LEMMA HandleEditPending ==
  ASSUME TypeOK, TypeOK', Shapes, NEW u \in Users, HandleEdit(u), NEW v \in Users
  PROVE  OwnPending(v)' = OwnPending(v)
<1>1. PICK e \in issued :
        LET m == Item("CRDT", {e}, IF e \in Alignments THEN All ELSE u)
        IN  /\ e \in Edits /\ Author[e] = u /\ {d \in Edits : d \in Head(toServer[u]).body} = {e}
            /\ m \in Items /\ messages' = Append(messages, m)
            /\ toServer[u] # <<>> /\ toServer'[u] = Tail(toServer[u])
            /\ \A w \in Users : w # u => toServer'[w] = toServer[w]
            /\ Head(toServer[u]).body = {e}
  BY HandleEditFacts
<1> DEFINE m == Item("CRDT", {e}, IF e \in Alignments THEN All ELSE u)
<1>2. consumer' = consumer /\ Held' = Held
  BY DEF HandleEdit, threadVars, Held
<1>3. /\ messages \in Seq(Items) /\ toServer[u] \in Seq(Requests) /\ m \in Items
      /\ messages' = Append(messages, m) /\ m.body = {e}
  BY <1>1, PipelineTypes DEF Item
<1> HIDE DEF m
<1>4. Has(messages') = Has(messages) \cup {e}
  <2>1. Has(Append(messages, m)) = Has(messages) \cup {d \in Edits : d \in m.body}
    BY <1>3, HasAppend
  <2> QED
    BY <1>1, <1>3, <2>1
<1>5. Has(toServer[u]) = Has(toServer'[u]) \cup {e}
  BY <1>1, <1>3, HasTail
<1>6. OwnPending(v) =
        {d \in Edits : Own(v, d) /\ (d \in Has(messages) \/ (consumer = "deliver" /\ d \in Held))}
          \cup {d \in Edits : Own(v, d) /\ d \in Has(toServer[v])}
  BY OwnEdits
<1>7. OwnPending(v)' =
        {d \in Edits : Own(v, d) /\ (d \in Has(messages') \/ (consumer' = "deliver" /\ d \in Held'))}
          \cup {d \in Edits : Own(v, d) /\ d \in Has(toServer'[v])}
  BY OwnEditsNext
<1>8. CASE v = u
  BY <1>2, <1>4, <1>5, <1>6, <1>7, <1>8
<1>9. CASE v # u
  <2>1. ~Own(v, e) /\ toServer'[v] = toServer[v]
    BY <1>1, <1>9 DEF Own
  <2> QED
    BY <1>2, <1>4, <1>6, <1>7, <2>1
<1> QED
  BY <1>8, <1>9

\* What the main thread leaves alone when it handles a request of u.
LEMMA HandleFacts ==
  ASSUME EInv, TypeOK', NEW u \in Users, Handle(u)
  PROVE  /\ UNCHANGED <<crdt, consumer, item, replica, fileValid, reloads, issued, ctx>>
         /\ Undisturbed /\ \A v \in Users : OwnPending(v)' = OwnPending(v)
         /\ \A v \in Users : v # u =>
              /\ phase'[v] = phase[v] /\ toServer'[v] = toServer[v] /\ toClient'[v] = toClient[v]
              /\ missed'[v] = missed[v] /\ (v \in participants' <=> v \in participants)
         /\ main' = main \/ main'.user = u
         /\ toServer[u] \in Seq(Requests) /\ toServer[u] # <<>>
         /\ toServer'[u] = Tail(toServer[u])
<1>1. TypeOK /\ Pipeline /\ Shapes
  BY DEF EInv, IInv
<1>2. UNCHANGED <<crdt, consumer, item, replica, fileValid, reloads, issued, ctx>>
  BY DEF Handle, RejectOpen, Join, Redirect, HandleEdit, HandleChat, ReadText, Leave, LeaveNothing,
     fileVars, threadVars, clientVars, historyVars
<1>3. \A v \in Users : v # u =>
        /\ phase'[v] = phase[v] /\ toServer'[v] = toServer[v] /\ toClient'[v] = toClient[v]
        /\ missed'[v] = missed[v] /\ (v \in participants' <=> v \in participants)
  <2>1. CASE RejectOpen(u) \/ Join(u)
    <3>1. /\ phase' = phase /\ participants' \in {participants, participants \cup {u}}
          /\ toServer' = [toServer EXCEPT ![u] = Tail(toServer[u])]
      <4>1. CASE RejectOpen(u)
        BY <4>1 DEF RejectOpen, Pop, fileVars, clientVars
      <4>2. CASE Join(u)
        BY <4>2 DEF Join, Pop, clientVars
      <4> QED
        BY <2>1, <4>1, <4>2
    <3>2. /\ \E q : toClient' = [toClient EXCEPT ![u] = q]
          /\ missed' = missed \/ missed' = [missed EXCEPT ![u] = OwnQueued(u)]
      <4>1. CASE RejectOpen(u)
        BY <4>1 DEF RejectOpen, SendTo, historyVars
      <4>2. CASE Join(u)
        BY <4>2 DEF Join, SendTo
      <4> QED
        BY <2>1, <4>1, <4>2
    <3>3. \A v \in Users : v # u => toServer'[v] = toServer[v] /\ toClient'[v] = toClient[v]
      BY <1>1, <3>1, <3>2 DEF TypeOK, ConnectionTypeOK
    <3>4. \A v \in Users : v # u => missed'[v] = missed[v]
      BY <1>1, <3>2 DEF TypeOK, HistoryTypeOK
    <3> QED
      BY <3>1, <3>3, <3>4
  <2>2. CASE Redirect(u) \/ HandleEdit(u) \/ HandleChat(u) \/ ReadText(u)
    BY <1>1, <2>2 DEF Redirect, HandleEdit, HandleChat, ReadText, Pop, fileVars, clientVars,
       historyVars, TypeOK, ClientTypeOK, ConnectionTypeOK
  <2>3. CASE \E type \in {"QUIT", "DISCONNECT"} : Leave(u, type) \/ LeaveNothing(u, type)
    BY <1>1, <2>3 DEF Leave, LeaveNothing, Finish, SendTo, Pop, fileVars, clientVars, historyVars,
       TypeOK, ClientTypeOK, ConnectionTypeOK
  <2> QED
    BY <2>1, <2>2, <2>3 DEF Handle
<1>4. main' = main \/ main'.user = u
  BY DEF Handle, RejectOpen, Join, Redirect, HandleEdit, HandleChat, ReadText, Leave, LeaveNothing,
     threadVars
<1>5. toServer[u] # <<>> /\ Pop(u)
  BY DEF Handle, RejectOpen, Join, Redirect, HandleEdit, HandleChat, ReadText, Leave, LeaveNothing,
     Request
<1>6. Undisturbed
  BY <1>2 DEF Undisturbed, Doc, Broadcasting
<1>7. \A v \in Users : OwnPending(v)' = OwnPending(v)
  <2>1. CASE HandleEdit(u)
    BY <1>1, <2>1, HandleEditPending
  <2>2. CASE ~HandleEdit(u)
    BY <1>1, <1>2, <2>2, QuietHandle, QuietUndisturbed
  <2> QED
    BY <2>1, <2>2
<1> QED
  BY <1>1, <1>2, <1>3, <1>4, <1>5, <1>6, <1>7, PipelineTypes DEF Pop, TypeOK, ConnectionTypeOK

\* The answer to who joins ends with the only text in it.
LEMMA JoinText ==
  ASSUME EInv, NEW u \in Users, Join(u)
  PROVE  \/ phase[u] = "gone" /\ toClient'[u] = <<>>
         \/ /\ phase[u] = "opening" /\ Tail(toServer[u]) = <<>>
            /\ \E p \in Seq({m \in Responses : Neutral(m)}) :
                 toClient'[u] = Append(p, Payload("LOAD", crdt))
<1> DEFINE N == {m \in Responses : Neutral(m)}
           chats == [i \in 1..Len(chatMessages) |-> Payload("CHAT", {chatMessages[i]})]
           set == Payload("SET", participants \cup {u})
           load == Payload("LOAD", crdt)
           head == <<Payload("OPEN", {})>> \o chats
           answer == head \o <<set, load>>
<1>1. TypeOK /\ IInv
  BY DEF EInv, IInv
<1>2. \/ phase[u] = "opening" /\ Tail(toServer[u]) = <<>> /\ toClient[u] = <<>>
      \/ phase[u] = "gone" /\ toClient[u] = <<>>
  BY <1>1, OpenIsFirst DEF Join
<1>3. toClient'[u] = Deliver(toClient[u], u, answer)
  BY <1>1 DEF Join, SendTo, TypeOK, ConnectionTypeOK
<1>4. <<Payload("OPEN", {})>> \in Seq(N) /\ set \in N /\ load \in Responses
  BY <1>1 DEF Payload, Responses, Neutral, TypeOK, FileTypeOK
<1>5. chats \in Seq(N)
  <2>1. \A i \in 1..Len(chatMessages) : Payload("CHAT", {chatMessages[i]}) \in N
    BY <1>1 DEF TypeOK, FileTypeOK, Payload, Responses, Neutral
  <2> HIDE DEF N
  <2> QED
    BY <1>1, <2>1 DEF TypeOK, FileTypeOK
<1> HIDE DEF N, set, load, chats
<1>6. head \in Seq(N)
  BY <1>4, <1>5
<1>7. N \subseteq Responses
  BY DEF N
<1> HIDE DEF head
<1>8. answer = Append(head \o <<set>>, load) /\ head \o <<set>> \in Seq(N) /\ answer \in Seq(Responses)
  <2>1. head \in Seq(Responses) /\ set \in Responses
    BY <1>4, <1>6, <1>7
  <2>2. <<set>> \in Seq(Responses) /\ <<load>> \in Seq(Responses) /\ <<set, load>> = <<set>> \o <<load>>
    <3>1. <<set>> \in Seq(Responses)
      BY <2>1
    <3>2. <<load>> \in Seq(Responses)
      BY <1>4
    <3>3. <<set>> \o <<load>> = Append(<<set>>, load)
      <4> DEFINE one == <<set>>
      <4> HIDE DEF one
      <4>1. one \o <<load>> = Append(one, load)
        BY <1>4, <3>1, AppendFacts DEF one
      <4> QED
        BY <4>1 DEF one
    <3>4. Append(<<set>>, load) = <<set, load>>
      <4>1. /\ <<set, load>> \in Seq(Responses) /\ Len(<<set, load>>) = 2
            /\ <<set, load>>[1] = set /\ <<set, load>>[2] = load
        BY <1>4, <2>1
      <4>2. /\ Append(<<set>>, load) \in Seq(Responses) /\ Len(Append(<<set>>, load)) = 2
            /\ Append(<<set>>, load)[1] = set /\ Append(<<set>>, load)[2] = load
        BY <1>4, <2>1
      <4>3. 1..2 = {1, 2}
        OBVIOUS
      <4> QED
        BY <4>1, <4>2, <4>3, SeqEqual
    <3> QED
      BY <3>1, <3>2, <3>3, <3>4
  <2>3. head \o (<<set>> \o <<load>>) = (head \o <<set>>) \o <<load>>
    BY <2>1, <2>2, ConcatAssociative
  <2>4. head \o <<set>> \in Seq(Responses)
    BY <2>1, <2>2
  <2>5. (head \o <<set>>) \o <<load>> = Append(head \o <<set>>, load)
    <3> DEFINE p == head \o <<set>>
    <3>1. p \in Seq(Responses)
      BY <2>4
    <3> HIDE DEF p
    <3>2. p \o <<load>> = Append(p, load)
      BY <1>4, <3>1, AppendFacts
    <3> QED
      BY <3>2 DEF p
  <2>6. head \o <<set>> \in Seq(N)
    BY <1>4, <1>6
  <2>7. answer \in Seq(Responses)
    BY <1>4, <2>1
  <2> QED
    BY <2>2, <2>3, <2>5, <2>6, <2>7
<1>9. <<>> \o answer = answer
  BY <1>8, ConcatEmptySeq
<1> HIDE DEF answer
<1>10. CASE phase[u] = "gone"
  BY <1>2, <1>3, <1>10 DEF Deliver, Connected
<1>11. CASE phase[u] # "gone"
  <2>1. toClient'[u] = answer
    BY <1>2, <1>3, <1>9, <1>11 DEF Deliver, Connected
  <2> QED
    BY <1>2, <1>8, <1>11, <2>1 DEF N, load
<1> QED
  BY <1>10, <1>11

\* A channel without edits.
LEMMA NeutralChannel ==
  ASSUME NEW p \in Seq({m \in Responses : Neutral(m)})
  PROVE  /\ p \in Seq(Responses) /\ Brings(p) = {}
         /\ ~HasText(p) /\ OneText(p) /\ TextBeforeEdits(p)
         /\ \A r, d, c : Fresh(p, r, d, c)
         /\ \A k, c : InCausalOrder(p, {}, k, c)
<1>1. p \in Seq(Responses) /\ \A i \in 1..Len(p) : p[i].type \notin {"CRDT", "LOAD"}
  BY DEF Neutral
<1> QED
  BY <1>1 DEF Brings, HasText, OneText, TextBeforeEdits, Fresh, InCausalOrder, Incoming

LEMMA ClientJoin ==
  ASSUME EInv, TypeOK', NEW u \in Users, Join(u)
  PROVE  Client(u)'
<1>1. TypeOK /\ IInv /\ Pipeline /\ Shapes /\ Client(u)
  BY DEF EInv, IInv
<1>2. /\ UNCHANGED <<crdt, consumer, item, replica, fileValid, reloads, issued, ctx>>
      /\ Undisturbed /\ OwnPending(u)' = OwnPending(u)
      /\ toServer[u] \in Seq(Requests) /\ toServer[u] # <<>>
      /\ toServer'[u] = Tail(toServer[u])
  BY HandleFacts DEF Handle
<1>3. /\ Head(toServer[u]).type = "OPEN" /\ consumer # "apply" /\ ~closed
      /\ main'.task = "joined" /\ UNCHANGED phase /\ missed'[u] = OwnQueued(u)
  BY <1>1 DEF Join, Request, MutexFree, TypeOK, HistoryTypeOK, clientVars
<1>4. /\ Asks(u, "OPEN")
      /\ \A type : Asks(u, type)' => Asks(u, type)
  BY <1>1, <1>2, <1>3, AsksTail
<1>5. replica[u] = {} /\ replica'[u] = {}
  BY <1>1, <1>2, <1>4 DEF Client, TextFirst
<1>6. /\ Doc' = crdt /\ consumer # "destroyed" /\ crdt \subseteq Edits
      /\ \A e \in crdt : ctx'[e] \subseteq crdt
  <2>1. consumer # "destroyed"
    BY <1>1, <1>3 DEF Pipeline
  <2> QED
    BY <1>1, <1>2, <1>3, <2>1, DocHeld, PipelineTypes DEF Undisturbed, Pipeline
<1>7. /\ OwnQueued(u) =
           {e \in Edits : Own(u, e) /\ (e \in Has(messages) \/ (consumer = "deliver" /\ e \in Held))}
      /\ OwnPending(u) = OwnQueued(u) \cup {e \in Edits : Own(u, e) /\ e \in Has(toServer[u])}
  BY <1>1, OwnEdits
<1> DEFINE load == Payload("LOAD", crdt)
           t == toClient'[u]
<1>8. \/ phase[u] = "gone" /\ t = <<>>
      \/ /\ phase[u] = "opening" /\ Tail(toServer[u]) = <<>>
         /\ \E p \in Seq({m \in Responses : Neutral(m)}) : t = Append(p, load)
  BY JoinText
<1>9. load \in Responses /\ load.type = "LOAD" /\ load.body = crdt /\ Incoming(load) = crdt
  BY <1>6 DEF Payload, Responses, Incoming
<1> HIDE DEF load, t
<1>10. \/ phase[u] = "gone" /\ t = <<>>
       \/ /\ phase[u] = "opening" /\ Tail(toServer[u]) = <<>>
          /\ HasText(t) /\ OneText(t) /\ TextBeforeEdits(t) /\ Brings(t) = crdt
          /\ Fresh(t, {}, Doc', ctx') /\ InCausalOrder(t, {}, missed'[u], ctx')
  <2> SUFFICES ASSUME NEW p \in Seq({m \in Responses : Neutral(m)}), t = Append(p, load)
               PROVE  /\ HasText(t) /\ OneText(t) /\ TextBeforeEdits(t) /\ Brings(t) = crdt
                      /\ Fresh(t, {}, Doc', ctx') /\ InCausalOrder(t, {}, missed'[u], ctx')
    BY <1>8
  <2> DEFINE d == Doc'
             c == ctx'
             k == missed'[u]
  <2>1. d = crdt /\ \A e \in crdt : c[e] \subseteq crdt
    BY <1>6
  <2> HIDE DEF d, c, k
  <2>2. /\ p \in Seq(Responses) /\ Brings(p) = {} /\ ~HasText(p) /\ OneText(p) /\ TextBeforeEdits(p)
        /\ Fresh(p, {}, d, c) /\ InCausalOrder(p, {}, k, c)
    BY NeutralChannel
  <2>3. HasText(t) /\ OneText(t) /\ TextBeforeEdits(t)
    BY <1>9, <2>2, TextAppend
  <2>4. Brings(Append(p, load)) = Brings(p) \cup {e \in Edits : e \in Incoming(load)}
    BY <1>9, <2>2, BringsAppend
  <2>5. Brings(t) = crdt
    BY <1>6, <1>9, <2>2, <2>4
  <2>6. Fresh(t, {}, d, c)
    BY <1>9, <2>1, <2>2, FreshAppend
  <2>7. \A e \in Incoming(load) : c[e] \subseteq {} \cup k \cup Brings(p) \cup Incoming(load)
    BY <1>9, <2>1
  <2>8. InCausalOrder(t, {}, k, c)
    BY <1>9, <2>2, <2>7, OrderAppend
  <2> QED
    BY <2>3, <2>5, <2>6, <2>8 DEF d, c, k
<1>11. TextFirst(u)'
  <2>1. t = <<>> => ~HasText(t) /\ OneText(t) /\ TextBeforeEdits(t)
    BY DEF HasText, OneText, TextBeforeEdits
  <2> QED
    BY <1>3, <1>5, <1>10, <2>1 DEF TextFirst, Connected, t
<1>12. Reloads(u)'
  BY <1>1, <1>2, <1>3, <1>4 DEF Client, Reloads
<1>13. Shows(u)'
  <2>1. OwnQueued(u) \subseteq {e \in issued \ Alignments : Author[e] = u}
    BY <1>1, <1>7, WhoseEdits DEF Own
  <2> QED
    BY <1>2, <1>3, <1>5, <2>1 DEF Shows
<1>14. Follows(u)'
  <2>1. t = <<>> => Fresh(t, {}, Doc', ctx') /\ InCausalOrder(t, {}, missed'[u], ctx')
    BY DEF Fresh, InCausalOrder
  <2> QED
    BY <1>5, <1>10, <2>1 DEF Follows, t
<1>15. Agrees(u)'
  <2> SUFFICES ASSUME phase'[u] # "gone"
               PROVE  Brings(t) = (crdt \cup OwnPending(u)) \ OwnQueued(u)
    BY <1>2, <1>3, <1>5, <1>6 DEF Agrees, Connected, t
  <2>1. Brings(t) = crdt /\ Tail(toServer[u]) = <<>>
    BY <1>3, <1>10
  <2>2. Has(toServer[u]) = {}
    <3>1. Has(toServer[u]) = Has(Tail(toServer[u])) \cup {e \in Edits : e \in Head(toServer[u]).body}
      BY <1>2, HasTail
    <3>2. \A e \in Edits : e \notin Head(toServer[u]).body
      <4>1. Head(toServer[u]) \in Requests
        BY <1>2
      <4> QED
        BY <1>3, <4>1, NoEdits
    <3>3. Has(<<>>) = {}
      BY DEF Has
    <3> QED
      BY <2>1, <3>1, <3>2, <3>3
  <2>3. OwnPending(u) = OwnQueued(u)
    BY <1>7, <2>2
  <2>4. \A e \in Has(messages) \cup Held : e \notin crdt
    BY <1>1, <1>6 DEF Pipeline, Ordered, Has
  <2> QED
    BY <1>7, <2>1, <2>3, <2>4
<1> QED
  BY <1>11, <1>12, <1>13, <1>14, <1>15 DEF Client

LEMMA ClientHandle ==
  ASSUME EInv, TypeOK', NEW u \in Users, Handle(u), NEW v \in Users
  PROVE  Client(v)'
<1>1. TypeOK /\ IInv /\ Pipeline /\ Shapes /\ Client(v)
  BY DEF EInv, IInv
<1>2. /\ UNCHANGED <<crdt, consumer, item, replica, fileValid, reloads, issued, ctx>>
      /\ Undisturbed /\ \A w \in Users : OwnPending(w)' = OwnPending(w)
      /\ \A w \in Users : w # u =>
           /\ phase'[w] = phase[w] /\ toServer'[w] = toServer[w] /\ toClient'[w] = toClient[w]
           /\ missed'[w] = missed[w] /\ (w \in participants' <=> w \in participants)
      /\ main' = main \/ main'.user = u
      /\ toServer[u] \in Seq(Requests) /\ toServer[u] # <<>>
      /\ toServer'[u] = Tail(toServer[u])
  BY HandleFacts
<1>3. \A type : /\ Asks(u, type)' => Asks(u, type)
                /\ Head(toServer[u]).type = type => Asks(u, type)
  BY <1>1, <1>2, AsksTail
<1>4. CASE v # u
  <2>1. Keeps(v)
    BY <1>2, <1>4, Apart
  <2> QED
    BY <1>1, <1>2, <2>1, Steady
<1>5. CASE v = u /\ Join(u)
  BY <1>5, ClientJoin
<1>6. CASE v = u /\ ~Join(u)
  <2>1. Keeps(u)
    <3>1. CASE RejectOpen(u)
      <4>1. Payload("REJECT", {}) \in Responses /\ Neutral(Payload("REJECT", {}))
        BY DEF Payload, Responses, Neutral
      <4>2. QuietChannel(toClient[u], toClient'[u])
        BY <1>1, <3>1, <4>1, QuietDeliver DEF RejectOpen, SendTo, TypeOK, ConnectionTypeOK
      <4> QED
        BY <1>2, <1>3, <3>1, <4>2
           DEF RejectOpen, Keeps, fileVars, threadVars, clientVars, historyVars
    <3>2. CASE Redirect(u)
      <4>1. u \notin participants /\ toClient[u] = <<>>
        BY <1>1, <3>2, OpenIsFirst DEF Redirect
      <4>2. /\ UNCHANGED <<participants, toClient, main, missed>>
            /\ phase'[u] \in {"gone", "away"}
        BY <1>1, <3>2 DEF Redirect, fileVars, threadVars, historyVars, TypeOK, ClientTypeOK
      <4> QED
        BY <1>2, <1>3, <4>1, <4>2 DEF Keeps, QuietChannel
    <3>3. CASE HandleEdit(u) \/ HandleChat(u)
      BY <1>2, <1>3, <3>3 DEF HandleEdit, HandleChat, Keeps, QuietChannel, threadVars, clientVars,
         historyVars
    <3>4. CASE ReadText(u)
      BY <1>2, <1>3, <3>4 DEF ReadText, Request, Keeps, QuietChannel, fileVars, clientVars,
         historyVars
    <3>5. CASE \E type \in {"QUIT", "DISCONNECT"} : Leave(u, type)
      BY <1>2, <1>3, <3>5 DEF Leave, Keeps, QuietChannel, clientVars, historyVars
    <3>6. CASE \E type \in {"QUIT", "DISCONNECT"} : LeaveNothing(u, type)
      <4>1. PICK type \in {"QUIT", "DISCONNECT"} : LeaveNothing(u, type)
        BY <3>6
      <4>2. Payload("QUIT", {}) \in Responses /\ Neutral(Payload("QUIT", {}))
        BY DEF Payload, Responses, Neutral
      <4>3. QuietChannel(toClient[u], toClient'[u])
        BY <1>1, <4>1, <4>2, QuietDeliver
           DEF LeaveNothing, SendTo, QuietChannel, TypeOK, ConnectionTypeOK
      <4>4. /\ UNCHANGED <<participants, main, missed>> /\ u \notin participants
            /\ phase'[u] = IF type = "DISCONNECT" THEN "out" ELSE phase[u]
        BY <1>1, <4>1 DEF LeaveNothing, Finish, fileVars, threadVars, historyVars, TypeOK,
           ClientTypeOK
      <4>5. type = "DISCONNECT" => phase[u] = "gone"
        BY <1>1, <4>1, DisconnectIsLast DEF LeaveNothing
      <4> QED
        BY <1>2, <1>3, <4>3, <4>4, <4>5 DEF Keeps
    <3> QED
      BY <1>6, <3>1, <3>2, <3>3, <3>4, <3>5, <3>6 DEF Handle
  <2> QED
    BY <1>1, <1>2, <1>6, <2>1, Steady
<1> QED
  BY <1>4, <1>5, <1>6

\* The main thread goes on with a request.
LEMMA ClientSendText ==
  ASSUME EInv, TypeOK', SendText, NEW v \in Users
  PROVE  Client(v)'
<1> DEFINE u == main.user
           m == Payload("LOAD", main.text)
           s == toClient[v]
<1>1. TypeOK /\ IInv /\ Pipeline /\ Shapes /\ Texts /\ Client(v)
  BY DEF EInv, IInv
<1>2. /\ main.task = "reload" /\ main' = Idle /\ SendTo(u, <<m>>)
      /\ UNCHANGED <<participants, messages, crdt, consumer, item, toServer, phase, replica,
                     fileValid, missed, reloads, issued, ctx>>
  BY DEF SendText, fileVars, clientVars, historyVars
<1>3. Undisturbed /\ OwnPending(v)' = OwnPending(v)
  BY <1>2 DEF Undisturbed, Doc, Broadcasting, OwnPending, OwnQueued
<1>4. CASE v # u \/ ~Connected(v)
  <2>1. toClient'[v] = toClient[v]
    BY <1>1, <1>2, <1>4 DEF SendTo, Deliver, TypeOK, ConnectionTypeOK
  <2>2. main'.task # "reload"
    BY <1>2 DEF Idle
  <2>3. Keeps(v)
    BY <1>2, <1>3, <2>1, <2>2, Apart
  <2> QED
    BY <1>1, <1>3, <2>3, Steady
<1>5. CASE v = u /\ Connected(v)
  <2>1. reloads[v] # 0
    BY <1>1, <1>2, <1>5 DEF Client, Reloads
  <2>2. /\ s \in Seq(Responses) /\ m \in Responses /\ m.type = "LOAD" /\ m.body = main.text
        /\ toClient'[v] = Append(s, m)
    <3>1. s \in Seq(Responses) /\ m \in Responses /\ m.type = "LOAD" /\ m.body = main.text
      <4>1. main.text \subseteq Edits
        BY <1>1, <1>2 DEF Texts, TypeOK, FileTypeOK
      <4> QED
        BY <1>1, <4>1, PipelineTypes DEF Payload, Responses
    <3>2. s \o <<m>> = Append(s, m)
      <4> HIDE DEF s, m
      <4> QED
        BY <3>1, AppendFacts
    <3> QED
      BY <1>1, <1>2, <1>5, <3>1, <3>2 DEF SendTo, Deliver, TypeOK, ConnectionTypeOK
  <2> HIDE DEF m
  <2>3. TextFirst(v)'
    <3>1. /\ HasText(Append(s, m))
          /\ TextBeforeEdits(s) => TextBeforeEdits(Append(s, m))
      <4> HIDE DEF s
      <4> QED
        BY <2>2, TextAppend
    <3> QED
      BY <1>1, <1>2, <2>1, <2>2, <3>1 DEF Client, TextFirst, Textless, Asks
  <2>4. Reloads(v)'
    BY <1>2, <2>1 DEF Reloads
  <2>5. Shows(v)'
    BY <1>1, <1>2, <1>3 DEF Client, Shows, Undisturbed, Connected
  <2>6. Follows(v)'
    <3> DEFINE r == replica[v]
               d == Doc
               c == ctx
    <3>1. Fresh(s, r, d, c) /\ m.body \subseteq d /\ \A e \in m.body : c[e] \subseteq m.body
      BY <1>1, <1>2, <2>2 DEF Client, Follows, Texts, Doc
    <3> HIDE DEF r, d, c, s
    <3>2. Fresh(Append(s, m), r, d, c)
      BY <2>2, <3>1, FreshAppend
    <3> QED
      BY <1>2, <1>3, <2>1, <2>2, <3>2 DEF Follows, Undisturbed, r, d, c
  <2>7. Agrees(v)'
    BY <1>2, <2>1 DEF Agrees
  <2> QED
    BY <2>3, <2>4, <2>5, <2>6, <2>7 DEF Client
<1> QED
  BY <1>4, <1>5

LEMMA ClientContinue ==
  ASSUME EInv, TypeOK', Continue, NEW v \in Users
  PROVE  Client(v)'
<1>1. TypeOK /\ IInv /\ Pipeline /\ Shapes /\ Client(v) /\ MainFits /\ Closing
  BY DEF EInv, IInv, Conversation
<1>2. CASE SendText
  BY <1>2, ClientSendText
<1>3. CASE AnnounceJoin
  <2> DEFINE m == Payload("ADDED", {main.user})
  <2>1. /\ UNCHANGED <<participants, consumer, item, toServer, phase, replica, fileValid, missed,
                       reloads>>
        /\ main'.task = "idle" /\ main.user \in Users
    BY <1>1, <1>3 DEF AnnounceJoin, fileVars, clientVars, historyVars, Idle, TypeOK, ThreadTypeOK
  <2>2. Undisturbed /\ OwnPending(v)' = OwnPending(v)
    BY <1>1, <1>3, <2>1, QuietContinue, QuietUndisturbed
  <2>3. m \in Responses /\ Neutral(m)
    BY <2>1 DEF Payload, Responses, Neutral
  <2>4. QuietChannel(toClient[v], toClient'[v])
    <3>1. toClient'[v] = toClient[v] \/ toClient'[v] = Deliver(toClient[v], v, <<m>>)
      BY <1>3 DEF AnnounceJoin, Relay
    <3> HIDE DEF m
    <3>2. QuietChannel(toClient[v], Deliver(toClient[v], v, <<m>>))
      BY <1>1, <2>3, QuietDeliver
    <3> QED
      BY <3>1, <3>2 DEF QuietChannel
  <2>5. Keeps(v)
    BY <2>1, <2>2, <2>4 DEF Keeps, Asks
  <2> QED
    BY <1>1, <2>2, <2>5, Steady
<1>4. CASE AnnounceLeave
  <2> DEFINE u == main.user
             m == Payload("REMOVED", {u})
             q == Payload("QUIT", {})
  <2>1. /\ UNCHANGED <<participants, consumer, item, toServer, replica, fileValid, missed, reloads>>
        /\ main'.task = "idle" /\ u \in Users /\ u \notin participants
        /\ v # u => phase'[v] = phase[v]
        /\ phase'[u] = IF main.task = "DISCONNECT" THEN "out" ELSE phase[u]
    BY <1>1, <1>4 DEF AnnounceLeave, Finish, historyVars, Idle, MainFits, TypeOK, ThreadTypeOK,
       ClientTypeOK
  <2>2. Undisturbed /\ OwnPending(v)' = OwnPending(v)
    BY <1>1, <1>4, <2>1, QuietContinue, QuietUndisturbed
  <2>3. m \in Responses /\ Neutral(m) /\ q \in Responses /\ Neutral(q)
    BY <2>1 DEF Payload, Responses, Neutral
  <2>4. QuietChannel(toClient[v], toClient'[v])
    <3>1. \/ toClient'[v] = toClient[v]
          \/ toClient'[v] = Deliver(toClient[v], v, <<m>>)
          \/ toClient'[v] = Deliver(toClient[v], v, <<q>>)
      BY <2>1, <1>4 DEF AnnounceLeave
    <3> HIDE DEF m, q
    <3>2. /\ QuietChannel(toClient[v], Deliver(toClient[v], v, <<m>>))
          /\ QuietChannel(toClient[v], Deliver(toClient[v], v, <<q>>))
      BY <1>1, <2>3, QuietDeliver
    <3> QED
      BY <3>1, <3>2 DEF QuietChannel
  <2>5. phase[u] = "opening" => phase'[u] = "opening"
    BY <1>1, <1>4, <2>1 DEF AnnounceLeave, MainFits
  <2> HIDE DEF u
  <2>6. Keeps(v)
    BY <2>1, <2>2, <2>4, <2>5 DEF Keeps, Asks
  <2> QED
    BY <1>1, <2>2, <2>6, Steady
<1>5. CASE Destroy
  <2>1. /\ UNCHANGED <<participants, crdt, messages, main, toServer, toClient, phase, replica,
                       fileValid, missed, reloads, issued, ctx>>
        /\ participants = {}
        /\ consumer' = "destroyed" /\ item' = IF consumer = "apply" THEN item ELSE NoItem
        /\ consumer # "destroyed"
    BY <1>1, <1>5 DEF Destroy, Closing, fileVars, netVars, clientVars, historyVars
  <2>2. Undisturbed
    BY <2>1 DEF Undisturbed, Doc, Broadcasting, NoItem, Item
  <2>3. Keeps(v)
    BY <2>1 DEF Keeps, QuietChannel, Asks
  <2> QED
    BY <1>1, <2>2, <2>3, Steady
<1> QED
  BY <1>2, <1>3, <1>4, <1>5 DEF Continue

-----------------------------------------------------------------------------
(* The consumer.                                                           *)

\* What the consumer leaves alone when it broadcasts no edit.
LEMMA ConsumeFacts ==
  ASSUME TypeOK, TypeOK', Pipeline, Shapes, Take \/ Apply \/ DeliverChat
  PROVE  /\ UNCHANGED <<participants, main, toServer, phase, fileValid, replica, missed, reloads>>
         /\ Undisturbed /\ \A v \in Users : OwnPending(v)' = OwnPending(v)
<1>1. UNCHANGED <<participants, main, toServer, phase, fileValid, replica, missed, reloads, issued, ctx>>
  BY DEF Take, Apply, DeliverChat, netVars, clientVars, historyVars
<1>2. \A v \in Users :
        /\ OwnPending(v) =
             {e \in Edits : Own(v, e) /\ (e \in Has(messages) \/ (consumer = "deliver" /\ e \in Held))}
               \cup {e \in Edits : Own(v, e) /\ e \in Has(toServer[v])}
        /\ OwnPending(v)' =
             {e \in Edits : Own(v, e) /\ (e \in Has(messages') \/ (consumer' = "deliver" /\ e \in Held'))}
               \cup {e \in Edits : Own(v, e) /\ e \in Has(toServer'[v])}
  BY OwnEdits, OwnEditsNext
<1>3. CASE Take
  <2>1. /\ consumer = "wait" /\ consumer' \in {"deliver", "stopped"} /\ UNCHANGED crdt
        /\ Held = {} /\ Held' \subseteq Held' \cup Has(messages)
    BY <1>3 DEF Take, Pipeline, Held, NoItem, Item
  <2>2. CASE Head(messages).type = "CRDT"
    <3>1. Has(messages) = Has(messages') \cup Held' /\ consumer' = "deliver"
      BY <1>3, <2>2, PipelineTake DEF Take
    <3> QED
      BY <1>1, <1>2, <2>1, <3>1 DEF Undisturbed, Doc, Broadcasting
  <2>3. CASE Head(messages).type # "CRDT"
    <3>1. QuietStep
      BY <1>3, <2>3, QuietConsume
    <3>2. Has(messages') = Has(messages) /\ Held' = {}
      BY <2>1, <3>1, QuietQueues DEF QuietStep
    <3> QED
      BY <1>1, <1>2, <2>1, <3>2 DEF Undisturbed, Doc, Broadcasting
  <2> QED
    BY <2>2, <2>3
<1>4. CASE Apply
  <2>1. consumer = "apply" /\ consumer' = "wait" /\ UNCHANGED messages /\ crdt' = crdt \cup item.body
    BY <1>4 DEF Apply
  <2> QED
    BY <1>1, <1>2, <2>1 DEF Undisturbed, Doc, Broadcasting
<1>5. CASE DeliverChat
  <2>1. consumer = "deliver" /\ consumer' = "wait" /\ UNCHANGED <<messages, crdt>>
    BY <1>5 DEF DeliverChat
  <2>2. Held = {}
    <3>1. item \in Items /\ item.type # "CRDT"
      BY <1>5, PipelineTypes DEF DeliverChat
    <3> QED
      BY <3>1, NoEdits DEF Held
  <2> QED
    BY <1>1, <1>2, <2>1, <2>2 DEF Undisturbed, Doc, Broadcasting
<1> QED
  BY <1>3, <1>4, <1>5

\* The edit that the consumer broadcasts is new to everybody but its author.
LEMMA DeliverEditFacts ==
  ASSUME EInv, TypeOK', DeliverEdit
  PROVE  \E e \in issued :
           /\ item.body = {e} /\ item.username = (IF e \in Alignments THEN All ELSE Author[e])
           /\ e \notin crdt /\ ctx[e] \subseteq crdt /\ Doc = crdt /\ Doc' = crdt \cup {e}
           /\ \A v \in Users :
                /\ OwnPending(v) = OwnPending(v)' \cup {d \in {e} : Own(v, d)}
                /\ e \notin OwnPending(v)'
<1>1. TypeOK /\ Pipeline /\ Shapes
  BY DEF EInv, IInv
<1>2. /\ consumer = "deliver" /\ item.type = "CRDT" /\ consumer' = "apply"
      /\ UNCHANGED <<item, crdt, messages, toServer>>
  BY DEF DeliverEdit, fileVars
<1>3. PICK e \in issued :
        item.body = {e} /\ item.username = (IF e \in Alignments THEN All ELSE Author[e])
  BY <1>1, <1>2 DEF Shapes, Excluding
<1>4. e \in Edits /\ Held = {e} /\ Held' = {e}
  BY <1>1, <1>2, <1>3, DocHeld DEF Held
<1>5. e \notin crdt /\ ctx[e] \subseteq crdt
  BY <1>1, <1>2, <1>4 DEF Pipeline
<1>6. Doc = crdt /\ Doc' = crdt \cup {e}
  BY <1>2, <1>3 DEF Doc, Broadcasting
<1>7. e \notin Has(messages) /\ \A v \in Users : e \notin Has(toServer[v])
  BY <1>1, <1>2, <1>4 DEF Pipeline, Ordered, Has
<1>8. \A v \in Users :
        /\ OwnPending(v) =
             {d \in Edits : Own(v, d) /\ (d \in Has(messages) \/ (consumer = "deliver" /\ d \in Held))}
               \cup {d \in Edits : Own(v, d) /\ d \in Has(toServer[v])}
        /\ OwnPending(v)' =
             {d \in Edits : Own(v, d) /\ (d \in Has(messages') \/ (consumer' = "deliver" /\ d \in Held'))}
               \cup {d \in Edits : Own(v, d) /\ d \in Has(toServer'[v])}
  BY <1>1, OwnEdits, OwnEditsNext
<1>9. ASSUME NEW v \in Users
      PROVE  /\ OwnPending(v) = OwnPending(v)' \cup {d \in {e} : Own(v, d)}
             /\ e \notin OwnPending(v)'
  BY <1>2, <1>4, <1>7, <1>8
<1> QED
  BY <1>3, <1>5, <1>6, <1>9

LEMMA ClientDeliverEdit ==
  ASSUME EInv, TypeOK', DeliverEdit, NEW v \in Users
  PROVE  Client(v)'
<1> DEFINE s == toClient[v]
           r == replica[v]
           k == missed[v]
           c == ctx
           B == crdt
           m == Payload("CRDT", item.body)
           Gets == v \in participants /\ v # item.username /\ Connected(v)
<1>1. TypeOK /\ Pipeline /\ Shapes /\ Client(v)
  BY DEF EInv, IInv
<1>2. PICK e \in issued :
        /\ item.body = {e} /\ item.username = (IF e \in Alignments THEN All ELSE Author[e])
        /\ e \notin crdt /\ ctx[e] \subseteq crdt /\ Doc = crdt /\ Doc' = crdt \cup {e}
        /\ \A w \in Users :
             /\ OwnPending(w) = OwnPending(w)' \cup {d \in {e} : Own(w, d)}
             /\ e \notin OwnPending(w)'
  BY DeliverEditFacts
<1>3. /\ UNCHANGED <<participants, main, toServer, phase, fileValid, replica, missed, reloads,
                     issued, ctx>>
      /\ Relay(m, item.username)
  BY DEF DeliverEdit, fileVars, clientVars, historyVars
<1>4. /\ s \in Seq(Responses) /\ m \in Responses /\ m.type = "CRDT" /\ m.body = {e}
      /\ Incoming(m) = {e} /\ e \in Edits
  BY <1>1, <1>2, PipelineTypes, DocHeld DEF Payload, Responses, Incoming
<1> HIDE DEF m
<1>5. toClient'[v] = IF Gets THEN Append(s, m) ELSE s
  <2>1. s \o <<m>> = Append(s, m)
    <3> HIDE DEF s
    <3> QED
      BY <1>4, AppendFacts
  <2> QED
    BY <1>3, <2>1 DEF Relay, Deliver
<1>6. /\ Fresh(s, r, B, c) /\ Brings(s) \subseteq B
      /\ \A i \in 1..Len(s) : Incoming(s[i]) \subseteq B
      /\ reloads[v] = 0 => InCausalOrder(s, r, k, c)
  <2>1. Fresh(s, r, B, c) /\ (reloads[v] = 0 => InCausalOrder(s, r, k, c))
    BY <1>1, <1>2 DEF Client, Follows
  <2> HIDE DEF s, r, k, B, c
  <2> QED
    BY <1>4, <2>1, BringsDoc
<1>7. Own(v, e) <=> item.username = v
  BY <1>2, <1>4, UsersAssumption DEF Own
<1>8. k \subseteq issued \ Alignments /\ \A d \in k : Author[d] = v
  BY <1>1 DEF Client, Shows
<1>9. Gets => e \notin r /\ e \notin k
  BY <1>1, <1>2, <1>4, <1>7, <1>8 DEF Client, Shows, Own
<1>10. TextFirst(v)'
  <2>1. /\ OneText(s) => OneText(Append(s, m))
        /\ HasText(Append(s, m)) <=> HasText(s)
        /\ TextBeforeEdits(s) /\ HasText(s) => TextBeforeEdits(Append(s, m))
    <3> HIDE DEF s
    <3> QED
      BY <1>4, TextAppend
  <2> QED
    BY <1>1, <1>3, <1>5, <2>1 DEF Client, TextFirst, Textless, Asks, Connected
<1>11. Reloads(v)'
  BY <1>1, <1>3 DEF Client, Reloads, Asks
<1>12. Shows(v)'
  <2>1. Doc \cup OwnPending(v) \subseteq Doc' \cup OwnPending(v)'
    BY <1>2
  <2> QED
    BY <1>1, <1>3, <2>1 DEF Client, Shows, Connected
<1>13. Fresh(toClient'[v], r, B \cup {e}, c)
  <2> HIDE DEF s, r, B, c
  <2>1. Fresh(s, r, B \cup {e}, c)
    <3>1. B \subseteq B \cup {e} /\ r \cap B \subseteq r
      OBVIOUS
    <3> QED
      BY <1>6, <3>1, FreshWiden
  <2>2. Gets => Fresh(Append(s, m), r, B \cup {e}, c)
    <3>1. \A i \in 1..Len(s) : m.body \cap Incoming(s[i]) = {}
      BY <1>2, <1>4, <1>6 DEF B
    <3> HIDE DEF Gets
    <3> QED
      BY <1>4, <1>9, <2>1, <3>1, FreshAppend
  <2> QED
    BY <1>5, <2>1, <2>2
<1>14. Gets /\ reloads[v] = 0 => InCausalOrder(Append(s, m), r, k, c)
  <2> SUFFICES ASSUME Gets, reloads[v] = 0
               PROVE  InCausalOrder(Append(s, m), r, k, c)
    OBVIOUS
  <2>1. B \subseteq r \cup k \cup Brings(s)
    BY <1>1, <1>2 DEF Client, Agrees
  <2>2. \A d \in Incoming(m) : c[d] \subseteq r \cup k \cup Brings(s) \cup Incoming(m)
    BY <1>2, <1>4, <2>1
  <2> HIDE DEF s, r, k, c
  <2> QED
    BY <1>4, <1>6, <2>2, OrderAppend
<1>15. Follows(v)'
  BY <1>2, <1>3, <1>5, <1>6, <1>13, <1>14 DEF Follows
<1>16. Agrees(v)'
  <2> SUFFICES ASSUME v \in participants, Connected(v), reloads[v] = 0
               PROVE  r \cup Brings(toClient'[v]) = (Doc' \cup OwnPending(v)') \ k
    BY <1>3 DEF Agrees, Connected
  <2>1. r \cup Brings(s) = (Doc \cup OwnPending(v)) \ k
    BY <1>1 DEF Client, Agrees
  <2>2. CASE Gets
    <3>1. Brings(Append(s, m)) = Brings(s) \cup {d \in Edits : d \in Incoming(m)}
      <4> HIDE DEF s
      <4> QED
        BY <1>4, BringsAppend
    <3>2. Brings(toClient'[v]) = Brings(s) \cup {e}
      BY <1>4, <1>5, <2>2, <3>1
    <3>3. OwnPending(v)' = OwnPending(v)
      BY <1>2, <1>7, <2>2
    <3> QED
      BY <1>2, <1>9, <2>1, <2>2, <3>2, <3>3
  <2>3. CASE ~Gets
    <3>1. Own(v, e)
      BY <1>7, <2>3
    <3>2. Doc' \cup OwnPending(v)' = Doc \cup OwnPending(v)
      BY <1>2, <3>1
    <3> QED
      BY <1>5, <2>1, <2>3, <3>2
  <2> QED
    BY <2>2, <2>3
<1> QED
  BY <1>10, <1>11, <1>12, <1>15, <1>16 DEF Client

LEMMA ClientConsume ==
  ASSUME EInv, TypeOK', Consume, NEW v \in Users
  PROVE  Client(v)'
<1>1. TypeOK /\ Pipeline /\ Shapes /\ Client(v)
  BY DEF EInv, IInv
<1>2. CASE DeliverEdit
  BY <1>2, ClientDeliverEdit
<1>3. CASE Take \/ Apply \/ DeliverChat
  <2>1. /\ UNCHANGED <<participants, main, toServer, phase, fileValid, replica, missed, reloads>>
        /\ Undisturbed /\ OwnPending(v)' = OwnPending(v)
    BY <1>1, <1>3, ConsumeFacts
  <2>2. QuietChannel(toClient[v], toClient'[v])
    <3>1. CASE Take \/ Apply
      BY <3>1 DEF Take, Apply, netVars, QuietChannel
    <3>2. CASE DeliverChat
      <4> DEFINE m == Payload("CHAT", item.body)
      <4>1. m \in Responses /\ Neutral(m)
        BY <1>1, <3>2, PipelineTypes DEF DeliverChat, Items, Payload, Responses, Neutral
      <4>2. toClient'[v] = toClient[v] \/ toClient'[v] = Deliver(toClient[v], v, <<m>>)
        BY <3>2 DEF DeliverChat, Relay
      <4> HIDE DEF m
      <4>3. QuietChannel(toClient[v], Deliver(toClient[v], v, <<m>>))
        BY <1>1, <4>1, QuietDeliver
      <4> QED
        BY <4>2, <4>3 DEF QuietChannel
    <3> QED
      BY <1>3, <3>1, <3>2
  <2>3. Keeps(v)
    BY <2>1, <2>2 DEF Keeps, Asks
  <2> QED
    BY <1>1, <2>1, <2>3, Steady
<1> QED
  BY <1>2, <1>3 DEF Consume

-----------------------------------------------------------------------------
(* EInv is inductive.                                                      *)

LEMMA StutterKeeps ==
  ASSUME EInv, UNCHANGED vars
  PROVE  Pipeline' /\ Shapes' /\ Texts' /\ \A v \in Users : Client(v)'
<1>1. TypeOK /\ Pipeline /\ Shapes /\ Texts /\ \A v \in Users : Client(v)
  BY DEF EInv, IInv
<1>2. UNCHANGED <<participants, messages, crdt, closed, consumer, item, main, toServer, toClient,
                  phase, fileValid, replica, issued, ctx, missed, reloads>>
  BY DEF vars, fileVars, threadVars, netVars, clientVars, historyVars
<1>3. Pipeline' /\ Shapes' /\ Texts'
  BY <1>1, <1>2 DEF Pipeline, Shapes, Texts, Held, OneOf, Excluding
<1>4. Undisturbed
  BY <1>2 DEF Undisturbed, Doc, Broadcasting
<1>5. ASSUME NEW v \in Users PROVE Client(v)'
  <2>1. OwnPending(v)' = OwnPending(v)
    BY <1>2 DEF OwnPending, OwnQueued
  <2>2. Keeps(v)
    BY <1>2, <2>1, Apart
  <2> QED
    BY <1>1, <1>4, <2>2, Steady
<1> QED
  BY <1>3, <1>5

LEMMA PipelineStep ==
  ASSUME EInv, Next
  PROVE  Pipeline' /\ Shapes'
<1>1. TypeOK /\ Pipeline /\ Shapes
  BY DEF EInv, IInv
<1>2. ASSUME NEW u \in Users, UserAction(u) PROVE Pipeline' /\ Shapes'
  <2>1. CASE Break(u)
    BY <1>1, <2>1, PipelineBreak
  <2>2. CASE \E e \in Edits : MakeEdit(u, e)
    BY <2>2, PipelineMakeEdit
  <2>3. CASE \/ SendOpen(u) \/ IllegalEdit(u) \/ AskReload(u) \/ SendQuit(u)
             \/ \E m \in Chats : Say(u, m)
    BY <1>1, <2>3, QuietUser, PipelineQuiet
  <2> QED
    BY <1>2, <2>1, <2>2, <2>3 DEF UserAction
<1>3. ASSUME NEW u \in Users, Receive(u) PROVE Pipeline' /\ Shapes'
  BY <1>1, <1>3, QuietReceive, PipelineQuiet
<1>4. ASSUME NEW u \in Users, Handle(u) PROVE Pipeline' /\ Shapes'
  <2>1. CASE HandleEdit(u)
    BY <1>1, <2>1, PipelineHandleEdit
  <2>2. CASE ~HandleEdit(u)
    BY <1>1, <1>4, <2>2, QuietHandle, PipelineQuiet
  <2> QED
    BY <2>1, <2>2
<1>5. CASE Continue
  <2>1. CASE Destroy
    BY <1>1, <2>1, PipelineDestroy
  <2>2. CASE AnnounceJoin \/ AnnounceLeave \/ SendText
    BY <1>1, <2>2, QuietContinue, PipelineQuiet
  <2> QED
    BY <1>5, <2>1, <2>2 DEF Continue
<1>6. CASE Consume
  <2>1. CASE Apply
    BY <1>1, <2>1, PipelineApply
  <2>2. CASE Take /\ Head(messages).type = "CRDT"
    BY <1>1, <2>2, PipelineTake
  <2>3. CASE DeliverEdit \/ DeliverChat \/ (Take /\ Head(messages).type # "CRDT")
    <3>1. Take => Head(messages).type # "CRDT"
      BY <2>3 DEF Take, DeliverEdit, DeliverChat
    <3> QED
      BY <1>1, <2>3, <3>1, QuietConsume, PipelineQuiet
  <2> QED
    BY <1>6, <2>1, <2>2, <2>3 DEF Consume
<1> QED
  BY <1>2, <1>3, <1>4, <1>5, <1>6 DEF Next

LEMMA TextsStep ==
  ASSUME EInv, Next
  PROVE  Texts'
<1>1. TypeOK /\ Pipeline /\ Texts /\ crdt \subseteq issued
  BY DEF EInv, IInv, Shapes
<1>2. \A e \in issued : ctx'[e] = ctx[e]
  <2>1. ASSUME NEW u \in Users, NEW d \in Edits, MakeEdit(u, d)
        PROVE  \A e \in issued : ctx'[e] = ctx[e]
    BY <1>1, <2>1 DEF MakeEdit, TypeOK, HistoryTypeOK
  <2>2. (\E u \in Users, d \in Edits : MakeEdit(u, d)) \/ ctx' = ctx
    <3>1. ASSUME NEW u \in Users, UserAction(u), ~\E d \in Edits : MakeEdit(u, d)
          PROVE  ctx' = ctx
      BY <3>1 DEF UserAction, SendOpen, IllegalEdit, AskReload, SendQuit, Break, Say, historyVars
    <3>2. ASSUME NEW u \in Users, Receive(u) PROVE ctx' = ctx
      BY <3>2 DEF Receive, ReceiveOpen, ReceiveReject, ReceiveLoad, ReceiveEdit, ReceiveChat,
         ReceivePresence, ReceiveQuit, historyVars
    <3>3. ASSUME NEW u \in Users, Handle(u) PROVE ctx' = ctx
      BY <3>3 DEF Handle, RejectOpen, Join, Redirect, HandleEdit, HandleChat, ReadText, Leave,
         LeaveNothing, historyVars
    <3>4. Continue \/ Consume => ctx' = ctx
      BY DEF Continue, AnnounceJoin, AnnounceLeave, SendText, Destroy, Consume, Take, DeliverEdit,
         Apply, DeliverChat, historyVars
    <3> QED
      BY <3>1, <3>2, <3>3, <3>4 DEF Next
  <2> QED
    BY <2>1, <2>2
<1>3. crdt \subseteq crdt'
  <2>1. ASSUME NEW u \in Users, UserAction(u) PROVE crdt' = crdt
    BY <2>1 DEF UserAction, MakeEdit, SendOpen, IllegalEdit, AskReload, SendQuit, Break, Say,
       fileVars
  <2>2. ASSUME NEW u \in Users, Receive(u) PROVE crdt' = crdt
    BY <2>2 DEF Receive, ReceiveOpen, ReceiveReject, ReceiveLoad, ReceiveEdit, ReceiveChat,
       ReceivePresence, ReceiveQuit, fileVars
  <2>3. ASSUME NEW u \in Users, Handle(u) PROVE crdt' = crdt
    BY <2>3 DEF Handle, RejectOpen, Join, Redirect, HandleEdit, HandleChat, ReadText, Leave,
       LeaveNothing, fileVars
  <2>4. Continue \/ Consume => crdt \subseteq crdt'
    BY DEF Continue, AnnounceJoin, AnnounceLeave, SendText, Destroy, Consume, Take, DeliverEdit,
       Apply, DeliverChat, fileVars
  <2> QED
    BY <2>1, <2>2, <2>3, <2>4 DEF Next
<1>4. \/ main' = main \/ main'.task # "reload"
      \/ \E u \in Users : ReadText(u)
  <2>1. ASSUME NEW u \in Users, UserAction(u) \/ Receive(u) PROVE main' = main
    BY <2>1 DEF UserAction, MakeEdit, SendOpen, IllegalEdit, AskReload, SendQuit, Break, Say,
       Receive, ReceiveOpen, ReceiveReject, ReceiveLoad, ReceiveEdit, ReceiveChat,
       ReceivePresence, ReceiveQuit, threadVars
  <2>2. ASSUME NEW u \in Users, Handle(u) PROVE main' = main \/ main'.task # "reload" \/ ReadText(u)
    BY <2>2 DEF Handle, RejectOpen, Join, Redirect, HandleEdit, HandleChat, Leave, LeaveNothing,
       threadVars
  <2>3. Continue \/ Consume => main' = main \/ main'.task # "reload"
    BY DEF Continue, AnnounceJoin, AnnounceLeave, SendText, Destroy, Consume, Take, DeliverEdit,
       Apply, DeliverChat, Idle
  <2> QED
    BY <2>1, <2>2, <2>3 DEF Next
<1>5. CASE main' = main \/ main'.task # "reload"
  BY <1>1, <1>2, <1>3, <1>5 DEF Texts
<1>6. CASE \E u \in Users : ReadText(u)
  <2>1. main'.text = crdt /\ crdt' = crdt
    BY <1>6 DEF ReadText, fileVars
  <2> QED
    BY <1>1, <1>2, <2>1 DEF Texts, Pipeline
<1> QED
  BY <1>4, <1>5, <1>6

LEMMA EInvInit == Init => EInv
<1> SUFFICES ASSUME Init PROVE EInv
  OBVIOUS
<1>1. IInv
  BY IInvInit
<1>2. Pipeline /\ Shapes /\ Texts
  BY DEF Init, Pipeline, Shapes, Texts, Ordered, Held, NoItem, Item, Idle
<1>3. ASSUME NEW u \in Users PROVE Client(u)
  <2>1. /\ toClient[u] = <<>> /\ toServer[u] = <<>> /\ replica[u] = {} /\ missed[u] = {}
        /\ phase[u] = "out" /\ u \notin participants /\ main.task = "idle"
    BY <1>3 DEF Init, Idle
  <2> QED
    BY <2>1 DEF Client, TextFirst, TextBeforeEdits, OneText, HasText, Asks, Reloads, Shows, Follows,
       Fresh, InCausalOrder, Agrees
<1> QED
  BY <1>1, <1>2, <1>3 DEF EInv

\* Where every edit is, in the pipeline and on its way to every client, is as
\* EInv says.
LEMMA EditsInductive == Spec => []EInv
<1>1. EInv /\ [Next]_vars => EInv'
  <2> SUFFICES ASSUME EInv, [Next]_vars PROVE EInv'
    OBVIOUS
  <2>1. IInv' /\ TypeOK'
    BY TypeNext, ConversationStep, ClosingStep DEF EInv, IInv
  <2>2. CASE UNCHANGED vars
    BY <2>1, <2>2, StutterKeeps DEF EInv
  <2>3. CASE Next
    <3>1. Pipeline' /\ Shapes' /\ Texts'
      BY <2>3, PipelineStep, TextsStep
    <3>2. ASSUME NEW v \in Users PROVE Client(v)'
      BY <2>1, <2>3, ClientUser, ClientReceive, ClientHandle, ClientContinue, ClientConsume DEF Next
    <3> QED
      BY <2>1, <3>1, <3>2 DEF EInv
  <2> QED
    BY <2>2, <2>3
<1> QED
  BY EInvInit, <1>1, PTL DEF Spec

-----------------------------------------------------------------------------
(* What follows from EInv.                                                 *)

\* No participant misses an edit and none invents one: once it has read its
\* channel it shows what the server has broadcast and its own edits on their
\* way, but for those still queued when it joined again (KKFile::join against
\* deliverMessages, kk_file.cpp).
THEOREM NobodyMissesAnEdit == Spec => []Agreement
<1>1. EInv => Agreement
  <2> SUFFICES ASSUME EInv, NEW u \in participants, Connected(u), reloads[u] = 0
               PROVE  replica[u] \cup InFlight(u)
                        = (crdt \cup Broadcasting \cup OwnPending(u)) \ missed[u]
    BY DEF Agreement
  <2>1. TypeOK /\ u \in Users /\ Agrees(u)
    BY DEF EInv, IInv, TypeOK, FileTypeOK, Client
  <2>2. InFlight(u) = Brings(toClient[u])
    BY <2>1, OwnEdits
  <2> QED
    BY <2>1, <2>2 DEF Agrees, Doc
<1> QED
  BY <1>1, EditsInductive, PTL

\* No edit comes twice to a client: remoteInsert would insert its characters
\* again (kk_crdt.cpp).
THEOREM NothingComesTwice == Spec => []NoDuplicate
<1>1. EInv => NoDuplicate
  <2> SUFFICES ASSUME EInv, NEW u \in Users, NEW i \in DOMAIN toClient[u],
                      toClient[u][i].type = "CRDT"
               PROVE  /\ toClient[u][i].body \cap replica[u] = {}
                      /\ \A j \in 1..(i-1) : toClient[u][i].body \cap Incoming(toClient[u][j]) = {}
    BY DEF NoDuplicate
  <2>1. Fresh(toClient[u], replica[u], Doc, ctx) /\ toClient[u] \in Seq(Responses)
    BY PipelineTypes DEF EInv, IInv, Client, Follows
  <2>2. i \in 1..Len(toClient[u])
    BY <2>1
  <2> QED
    BY <2>1, <2>2 DEF Fresh
<1> QED
  BY <1>1, EditsInductive, PTL

\* Edits are applied after every edit that their author had seen, by the
\* server and by every client that has not had to reload.
THEOREM CausesComeFirst == Spec => []Causal
<1>1. EInv => Causal
  <2> SUFFICES ASSUME EInv PROVE Causal
    OBVIOUS
  <2>1. \A e \in crdt : ctx[e] \subseteq crdt
    BY DEF EInv, Pipeline
  <2>2. ASSUME NEW u \in Users, reloads[u] = 0, NEW e \in replica[u]
        PROVE  ctx[e] \subseteq replica[u] \cup missed[u]
    BY <2>2 DEF EInv, Client, Follows, InCausalOrder
  <2> QED
    BY <2>1, <2>2 DEF Causal
<1> QED
  BY <1>1, EditsInductive, PTL

-----------------------------------------------------------------------------
(* The relay implements the document: what its steps are to KKDocument.    *)

Stays == UNCHANGED <<Doc, replica, issued, ctx>>

\* A step that neither commits nor shows an edit.
LEMMA StaysStutters == Stays => UNCHANGED Document!docVars
BY DEF Stays, Doc, Document!docVars

LEMMA UserImplements ==
  ASSUME EInv, NEW u \in Users, UserAction(u)
  PROVE  Document!Next \/ Stays
<1>1. TypeOK /\ Pipeline /\ Shapes
  BY DEF EInv, IInv
<1>2. UNCHANGED Doc
  BY DEF UserAction, SendOpen, IllegalEdit, AskReload, SendQuit, Break, MakeEdit, Say, fileVars,
     threadVars, Doc, Broadcasting
<1>3. CASE SendOpen(u)
  <2>1. /\ replica' = [replica EXCEPT ![u] = {}] /\ UNCHANGED <<issued, ctx>>
    BY <1>3 DEF SendOpen
  <2>2. Document!Load(u)
    BY <1>2, <2>1 DEF Document!Load, Doc
  <2> QED
    BY <2>2 DEF Document!Next
<1>4. CASE \E e \in Edits : MakeEdit(u, e)
  <2>1. PICK e \in Edits : MakeEdit(u, e)
    BY <1>4
  <2>2. /\ e \notin issued /\ Author[e] = u /\ issued' = issued \cup {e}
        /\ ctx' = [ctx EXCEPT ![e] = replica[Author[e]]]
        /\ \/ replica' = [replica EXCEPT ![Author[e]] = @ \cup {e}]
           \/ UNCHANGED replica
    <3>1. e \in Alignments => [replica EXCEPT ![u] = replica[u]] = replica
      BY <1>1 DEF TypeOK, ClientTypeOK
    <3> QED
      BY <2>1, <3>1 DEF MakeEdit
  <2>3. Document!Write(e)
    BY <1>2, <2>2 DEF Document!Write, Doc
  <2> QED
    BY <2>3 DEF Document!Next
<1>5. CASE \/ IllegalEdit(u) \/ AskReload(u) \/ SendQuit(u) \/ Break(u)
           \/ \E m \in Chats : Say(u, m)
  BY <1>2, <1>5 DEF Stays, IllegalEdit, AskReload, SendQuit, Break, Say, clientVars, historyVars
<1> QED
  BY <1>3, <1>4, <1>5 DEF UserAction

LEMMA ReceiveImplements ==
  ASSUME EInv, TypeOK', NEW u \in Users, Receive(u)
  PROVE  Document!Next \/ Stays
<1>1. TypeOK /\ Client(u)
  BY DEF EInv, IInv
<1>2. /\ UNCHANGED <<issued, ctx, Doc>>
      /\ toClient[u] \in Seq(Responses) /\ toClient[u] # <<>>
  <2>1. Undisturbed /\ toClient[u] \in Seq(Responses) /\ toClient[u] # <<>>
    BY ReceiveFacts
  <2>2. UNCHANGED <<issued, ctx>>
    BY DEF Receive, ReceiveOpen, ReceiveReject, ReceiveLoad, ReceiveEdit, ReceiveChat,
       ReceivePresence, ReceiveQuit, historyVars
  <2> QED
    BY <2>1, <2>2 DEF Undisturbed
<1>3. /\ Fresh(toClient[u], replica[u], Doc, ctx)
      /\ Head(toClient[u]) = toClient[u][1] /\ 1 \in 1..Len(toClient[u])
  BY <1>1, <1>2 DEF Client, Follows
<1>4. CASE ReceiveLoad(u)
  <2> DEFINE S == Head(toClient[u]).body
  <2>1. S \subseteq Doc /\ \A e \in S : ctx[e] \subseteq S
    BY <1>3, <1>4 DEF ReceiveLoad, Response, Fresh
  <2>2. replica' = [replica EXCEPT ![u] = S]
    BY <1>4 DEF ReceiveLoad
  <2>3. Document!Load(u)
    BY <1>2, <2>1, <2>2 DEF Document!Load, Doc
  <2> QED
    BY <2>3 DEF Document!Next
<1>5. CASE ReceiveEdit(u)
  <2>1. PICK e \in Doc : Head(toClient[u]).body = {e}
    BY <1>3, <1>5 DEF ReceiveEdit, Response, Fresh
  <2>2. CASE fileValid[u]
    <3>1. replica' = [replica EXCEPT ![u] = @ \cup {e}]
      BY <1>5, <2>1, <2>2 DEF ReceiveEdit
    <3>2. Document!See(u, e)
      BY <1>2, <2>1, <3>1 DEF Document!See, Doc
    <3>3. e \in Edits
      BY <2>1, DocHeld DEF EInv, IInv
    <3> QED
      BY <3>2, <3>3 DEF Document!Next
  <2>3. CASE ~fileValid[u]
    <3>1. replica' = replica
      BY <1>1, <1>5, <2>3 DEF ReceiveEdit, TypeOK, ClientTypeOK
    <3> QED
      BY <1>2, <3>1 DEF Stays
  <2> QED
    BY <2>2, <2>3
<1>6. CASE \/ ReceiveOpen(u) \/ ReceiveReject(u) \/ ReceiveChat(u) \/ ReceivePresence(u)
           \/ ReceiveQuit(u)
  BY <1>2, <1>6 DEF Stays, ReceiveOpen, ReceiveReject, ReceiveChat, ReceivePresence, ReceiveQuit
<1> QED
  BY <1>4, <1>5, <1>6 DEF Receive

LEMMA ServerImplements ==
  ASSUME EInv, TypeOK', (\E u \in Users : Handle(u)) \/ Continue \/ Consume
  PROVE  Document!Next \/ Stays
<1>1. TypeOK /\ Pipeline /\ Shapes
  BY DEF EInv, IInv
<1>2. UNCHANGED <<replica, issued, ctx>>
  BY DEF Handle, RejectOpen, Join, Redirect, HandleEdit, HandleChat, ReadText, Leave, LeaveNothing,
     Continue, AnnounceJoin, AnnounceLeave, SendText, Destroy, Consume, Take, DeliverEdit, Apply,
     DeliverChat, clientVars, historyVars
<1>3. CASE DeliverEdit
  <2>1. PICK e \in issued :
          /\ e \notin crdt /\ ctx[e] \subseteq crdt /\ Doc = crdt /\ Doc' = crdt \cup {e}
    BY <1>3, DeliverEditFacts
  <2>2. Document!Commit(e)
    BY <1>2, <2>1 DEF Document!Commit, Doc
  <2>3. e \in Edits
    BY <1>1, <2>1, DocHeld
  <2> QED
    BY <2>2, <2>3 DEF Document!Next
<1>4. CASE Take \/ Apply \/ DeliverChat
  BY <1>1, <1>2, <1>4, ConsumeFacts DEF Undisturbed, Stays
<1>5. CASE \E u \in Users : Handle(u)
  <2>1. Undisturbed
    BY <1>5, HandleFacts
  <2> QED
    BY <1>2, <2>1 DEF Undisturbed, Stays
<1>6. CASE Continue
  <2>1. CASE Destroy
    BY <1>2, <2>1 DEF Destroy, Stays, Doc, Broadcasting, NoItem, Item, fileVars
  <2>2. CASE AnnounceJoin \/ AnnounceLeave \/ SendText
    BY <1>2, <2>2 DEF AnnounceJoin, AnnounceLeave, SendText, Stays, Doc, Broadcasting, fileVars
  <2> QED
    BY <1>6, <2>1, <2>2 DEF Continue
<1> QED
  BY <1>3, <1>4, <1>5, <1>6 DEF Consume

\* The relay implements the document of KKDocument: whatever threads, queues
\* and connections do, edits are never invented, never leave the document and
\* join it in causal order, and replicas only show edits of the document or
\* their own.
THEOREM RelayImplementsDocument == Spec => ImplementsDocument
<1>1. Init => Document!Init
  BY DEF Init, Document!Init, Broadcasting
<1>2. EInv /\ TypeOK' /\ [Next]_vars => [Document!Next]_(Document!docVars)
  <2> SUFFICES ASSUME EInv, TypeOK', [Next]_vars
               PROVE  Document!Next \/ UNCHANGED Document!docVars
    OBVIOUS
  <2>1. CASE UNCHANGED vars
    BY <2>1 DEF vars, fileVars, threadVars, clientVars, historyVars, Document!docVars, Broadcasting
  <2>2. CASE Next
    <3>1. Document!Next \/ Stays
      BY <2>2, UserImplements, ReceiveImplements, ServerImplements DEF Next
    <3> QED
      BY <3>1, StaysStutters
  <2> QED
    BY <2>1, <2>2
<1> QED
  BY <1>1, <1>2, EditsInductive, TypeCorrect, PTL DEF Spec, ImplementsDocument, Document!Spec
=============================================================================
