----------------------------- MODULE KKReplicas -----------------------------
(***************************************************************************)
(* Copies of one document at work: every site edits its own copy, sends    *)
(* the change, and applies the changes of the others in the order in which *)
(* the server applied them.  The relay is the one of KKRelay reduced to    *)
(* what its Agreement, NoDuplicate and Causal properties leave of it: one  *)
(* order of the changes, and a cursor in it for every site.                *)
(***************************************************************************)
EXTENDS KKCrdt, FiniteSets

CONSTANTS
  Sites,      \* the clients, numbers
  Plans       \* bounds: how often each site does what, and the characters in
              \* one deletion or change of format; every run picks one

Server == 0

ASSUME SitesAssumption == Sites \subseteq Nat \ {Server}

VARIABLES
  doc,        \* the server's copy and those of the sites
  outbox,     \* changes a site has made that the server has not applied
  log,        \* changes in the order of the server
  cursor,     \* how much of the log each site has handled
  placed,     \* every new character was made between its neighbours
  wild,       \* a change read a character, a line or an alignment that was
              \* not there when it began
  left        \* what is left of the plan

vars == <<doc, outbox, log, cursor, placed, wild, left>>

\* The things a site does on its own.
Deeds == {"type", "erase", "align", "format", "open"}

Spend(deed, s) ==
  left[deed][s] > 0 /\ left' = [left EXCEPT ![deed][s] = @ - 1]

Change(kind, site, chars, line, align) ==
  [kind |-> kind, site |-> site, chars |-> chars, line |-> line, align |-> align]

FirstAlign == CHOOSE a \in Aligns : TRUE

Init ==
  /\ doc = [s \in Sites \cup {Server} |->
              IF s = Server THEN NewDoc(FirstAlign) ELSE Decoded(NewDoc(FirstAlign))]
  /\ outbox = [s \in Sites |-> <<>>] /\ log = <<>> /\ cursor = [s \in Sites |-> 0]
  /\ placed = TRUE /\ wild = FALSE
  /\ left \in Plans

-----------------------------------------------------------------------------
\* sendCrdtRequest.  (Variant: the newest change overtakes the others.)
SendInFront(s, change) == outbox' = [outbox EXCEPT ![s] = <<change>> \o @]
Send(s, change) == outbox' = [outbox EXCEPT ![s] = Append(@, change)]

\* onInsertTextToCrdt of one character, at an editor position.
Type(s) ==
  /\ Spend("type", s)
  /\ \E p \in 0..Len(Flat(doc[s].text)), v \in Values :
       \E c \in NewChars(doc[s], p, v, s) :
         LET flat == Flat(doc[s].text)
         IN  /\ doc' = [doc EXCEPT ![s] = LocalInsert(@, c, p)]
             /\ placed' = (/\ placed
                           /\ p > 0 => Before(flat[p], c)
                           /\ p < Len(flat) => Before(c, flat[p + 1]))
             /\ Send(s, Change("INSERT", s, <<c>>, 0, 0))
  /\ UNCHANGED <<log, cursor, wild>>

\* onRemoveTextFromCrdt of the characters between two editor positions.
Erase(s) ==
  /\ Spend("erase", s)
  /\ LET flat == Flat(doc[s].text)
     IN  \E p \in 0..(Len(flat) - 1) : \E q \in (p + 1)..Len(flat) :
           /\ q - p <= left.longest
           /\ doc' = [doc EXCEPT ![s] = LocalDelete(@, p, q)]
           /\ wild' = (wild \/ ~LocalDeleteDefined(doc[s], p, q))
           /\ Send(s, Change("DELETE", s, SubSeq(flat, p + 1, q), 0, 0))
  /\ UNCHANGED <<log, cursor, placed>>

\* onAlignmentChange of one line: sent, and applied when it comes back.
Align(s) ==
  /\ Spend("align", s)
  /\ \E l \in DOMAIN doc[s].text, a \in Aligns : Send(s, Change("ALIGNM", s, <<>>, l, a))
  /\ UNCHANGED <<doc, log, cursor, placed, wild>>

\* onCharFormatChanged of the characters between two editor positions: those
\* that change, and newlines, are sent.
Format(s) ==
  /\ Spend("format", s)
  /\ LET flat == Flat(doc[s].text)
     IN  \E p \in 0..(Len(flat) - 1) : \E q \in (p + 1)..Len(flat), f \in Fonts :
           /\ q - p <= left.longest
           /\ doc' = [doc EXCEPT ![s] = LocalFormat(@, p, q, f)]
           /\ Send(s, Change("FORMAT", s, Reformatted(doc[s], p, q, f), 0, 0))
  /\ UNCHANGED <<log, cursor, placed, wild>>

\* The document, or Lost after a wild read, that the deletion of some
\* characters one after the other leaves.  (Variant: the last one is forgotten.)
Lost == [text |-> EmptyText, align |-> <<>>]
DeleteOne(d, c) ==
  IF d # Lost /\ DeleteDefined(d, c) THEN RemoteDelete(d, c) ELSE Lost
FormatOne(d, c) == IF d # Lost /\ FindDefined(d) THEN RemoteFormat(d, c) ELSE Lost
DeleteAllButLast(d, chars) == FoldLeft(DeleteOne, d, Front(chars))
DeleteAll(d, chars) == FoldLeft(DeleteOne, d, chars)

\* The document that a change leaves, its characters taken in some order.
Changed(d, change, chars) ==
  CASE change.kind = "INSERT" -> FoldLeft(RemoteInsert, d, chars)
    [] change.kind = "DELETE" -> DeleteAll(d, chars)
    [] change.kind = "FORMAT" -> FoldLeft(FormatOne, d, chars)
    [] change.kind = "ALIGNM" -> RemoteAlign(d, change.line, change.align)

ApplyTo(s, change, chars) ==
  LET d == Changed(doc[s], change, chars)
  IN  IF d = Lost THEN wild' = TRUE /\ UNCHANGED doc
                  ELSE doc' = [doc EXCEPT ![s] = d] /\ UNCHANGED wild

\* changeCrdtText: the server applies the oldest change of a site.
Relay(s) ==
  /\ outbox[s] # <<>>
  /\ ApplyTo(Server, Head(outbox[s]), Head(outbox[s]).chars)
  /\ outbox' = [outbox EXCEPT ![s] = Tail(@)]
  /\ log' = Append(log, Head(outbox[s]))
  /\ UNCHANGED <<cursor, placed, left>>

\* The characters of a change in the order in which a site takes them: those
\* of a deletion from the last one on.
InOrder(change) ==
  IF change.kind = "DELETE" THEN Reverse(change.chars) ELSE change.chars

\* handleCrdtResponse: a site handles the next change of the log.  Its own text
\* changes do not come back to it.  (Variant: they do.)
FollowOwnToo(s) ==
  /\ cursor[s] < Len(log)
  /\ LET change == log[cursor[s] + 1]
     IN  ApplyTo(s, change, InOrder(change))
  /\ cursor' = [cursor EXCEPT ![s] = @ + 1]
  /\ UNCHANGED <<outbox, log, placed, left>>
Follow(s) ==
  /\ cursor[s] < Len(log)
  /\ LET change == log[cursor[s] + 1]
     IN  IF change.site = s /\ change.kind # "ALIGNM"
         THEN UNCHANGED <<doc, wild>>
         ELSE ApplyTo(s, change, InOrder(change))
  /\ cursor' = [cursor EXCEPT ![s] = @ + 1]
  /\ UNCHANGED <<outbox, log, placed, left>>

\* A site opens the document again, with nothing of its own on the way.
Open(s) ==
  /\ Spend("open", s) /\ outbox[s] = <<>>
  /\ doc' = [doc EXCEPT ![s] = Decoded(doc[Server])]
  /\ cursor' = [cursor EXCEPT ![s] = Len(log)]
  /\ UNCHANGED <<outbox, log, placed, wild>>

Next ==
  \E s \in Sites :
    Type(s) \/ Erase(s) \/ Align(s) \/ Format(s) \/ Relay(s) \/ Follow(s) \/ Open(s)

Spec == Init /\ [][Next]_vars

-----------------------------------------------------------------------------
(* Properties.                                                             *)

Chars == [pos : Positions, site : Sites, val : Values, font : Fonts]

\* Every copy is a document.
TypeOK ==
  /\ \A s \in Sites \cup {Server} :
       /\ doc[s].text \in Seq(Seq(Chars))
       /\ doc[s].align \in Seq(Aligns)
  /\ cursor \in [Sites -> 0..Len(log)]
  /\ placed \in BOOLEAN /\ wild \in BOOLEAN

\* No two sites deleted the same character: their deletions did not cross.
Changes == Flat(<<log>> \o SetToSeq({outbox[s] : s \in Sites}))
Names(chars) == {<<chars[i].pos, chars[i].site>> : i \in DOMAIN chars}
Apart(a, b) == Names(a.chars) \cap Names(b.chars) = {}
DeletedOnce ==
  LET changes == Changes
  IN  \A i, j \in DOMAIN changes :
        i < j /\ changes[i].kind = "DELETE" /\ changes[j].kind = "DELETE"
          => Apart(changes[i], changes[j])

\* The lines of every copy are well formed, whatever the sites do at the
\* same time, as long as new characters lie between their neighbours: the
\* bisection of the lines reads the last character of each.
LinesWellFormed == placed => \A s \in Sites \cup {Server} : WellFormed(doc[s])

\* As long as new characters lie between their neighbours every copy is in
\* the order of the positions: the searches rely on it.
CopiesSorted == placed => \A s \in Sites \cup {Server} : Sorted(doc[s])

\* No change reads a character, a line or an alignment that was not there when
\* it began, unless two sites deleted the same character: no client gets a
\* deletion or a format before the insertion, not even one that has just
\* opened the document, and what a deletion reads past the end of the lines or
\* the alignments (kk_crdt.cpp:143, 146 and 907) is a slot it has just removed.
NoWildRead == placed /\ DeletedOnce => ~wild

\* What the changes of the log amount to, each taken for what it says.
Amount(chars, change) ==
  CASE change.kind = "INSERT" -> chars \cup Names(change.chars)
    [] change.kind = "DELETE" -> chars \ Names(change.chars)
    [] OTHER                  -> chars

ServerIsExact == Names(Flat(doc[Server].text)) = FoldLeft(Amount, {}, log)

\* The server's text has exactly the characters that were inserted and not
\* deleted: a deletion takes what it names, wherever it has moved since.
ExactChanges == placed /\ DeletedOnce => ServerIsExact

\* The same for deletions that cross: deleting what another site has deleted
\* already takes nothing (README.md:4, idempotence).
Idempotence == placed /\ ~wild => ServerIsExact

\* The text of a copy, whatever its fonts.
Shown(s) ==
  LET flat == Flat(doc[s].text)
  IN  [i \in DOMAIN flat |-> <<flat[i].pos, flat[i].site, flat[i].val>>]

AllRead == \A s \in Sites : outbox[s] = <<>> /\ cursor[s] = Len(log)

\* With every change handled everywhere, the copies that saw the changes in
\* different orders are the same, as long as new characters lie between
\* their neighbours and deletions do not cross.
PlacedConverge ==
  AllRead /\ placed /\ DeletedOnce
    => \A s \in Sites : Shown(s) = Shown(Server)

\* The same without the conditions: the server ensures that what concurrent
\* users do gives a consistent representation in each client (README.md:17).
ConsistentTexts == AllRead => \A s \in Sites : Shown(s) = Shown(Server)

\* No site formatted a character that another one formatted or deleted.
FormattedApart ==
  LET changes == Changes
  IN  \A i, j \in DOMAIN changes :
        /\ changes[i].kind = "FORMAT" /\ changes[j].kind \in {"FORMAT", "DELETE"}
        /\ changes[i].site # changes[j].site
        => Apart(changes[i], changes[j])

\* Copies agree on the fonts too, as long as users format different
\* characters: a text edit does not come back to the one who made it, so that
\* of two formats of one character every site keeps the one it saw last.
FontsConverge ==
  AllRead /\ placed /\ DeletedOnce /\ FormattedApart
    => \A s \in Sites : Flat(doc[s].text) = Flat(doc[Server].text)
=============================================================================
