------------------------------- MODULE KKCrdt -------------------------------
(***************************************************************************)
(* One copy of a document (class KKCrdt): the lines of its text and the    *)
(* alignment of each line, and the operations that change them.            *)
(*                                                                         *)
(* A document is a record [text, align]; a line is a sequence of           *)
(* characters, the last of which is a newline in every line but the last.  *)
(* A place in the text is a pair <<line, ch>>: the line, from 1, and the   *)
(* number of characters before it in the line.  Font and colour are one     *)
(* value, the font of a character.                                         *)
(***************************************************************************)
EXTENDS KKPosition, SequencesExt

CONSTANTS
  Values,    \* values of characters
  NewLine,   \* the value '\n'
  Aligns,    \* alignments of a line
  Fonts      \* fonts and colours of a character

ASSUME ValuesAssumption == NewLine \in Values

EmptyText == <<>>

\* A new KKCrdt: no line, and one alignment.
NewDoc(a) == [text |-> EmptyText, align |-> <<a>>]

\* decodeCrdt starts with one empty line: what a client gets of no text.
Decoded(doc) == [doc EXCEPT !.text = IF @ = EmptyText THEN <<<<>>>> ELSE @]

Flat(text) == FoldLeft(\o, <<>>, text)
EndsLine(line) == line # <<>> /\ Last(line).val = NewLine

\* localDelete reads lines that deleteEmptyLines may just have removed, past
\* the end of the vector.  C++ leaves that undefined; in the program as built
\* the vector keeps its memory, and the slot of a removed line the empty list
\* that is left of one moved away.  That holds for the slots that were lines
\* when the call began only: see LocalDeleteDefined.
EmptyAt(text, l) == l > Len(text) \/ text[l] = <<>>

-----------------------------------------------------------------------------
(* Where a character is, or goes: binary search of the line by the last    *)
(* character of the lines, then linear search in the line.                 *)

\* The last line with characters; the text has at most one empty line at its
\* end.
LastLine(text) == IF text[Len(text)] = <<>> THEN Len(text) - 1 ELSE Len(text)

\* The loop over minLine and maxLine: the lines it ends with, at most two; or
\* one line twice, if its last character has the position looked for.
Narrow(text, c) ==
  LET n == LastLine(text)
      step[lo \in 1..n, hi \in 1..n] ==
        LET mid == lo + (hi - lo) \div 2
        IN  IF lo + 1 >= hi THEN [lo |-> lo, hi |-> hi, hit |-> FALSE]
            ELSE IF Same(c, Last(text[mid])) THEN [lo |-> mid, hi |-> mid, hit |-> TRUE]
            ELSE IF Before(c, Last(text[mid])) THEN step[lo, mid]
            ELSE step[mid, hi]
  IN  step[1, n]

\* The search that findPosition and findInsertPosition share: the line by
\* bisection, then the place in that line.
Search(text, c, Index(_)) ==
  LET found == Narrow(text, c)
      l     == IF After(c, Last(text[found.lo])) THEN found.hi ELSE found.lo
  IN  IF found.hit THEN <<found.lo, Len(text[found.lo]) - 1>>
      ELSE Index(l)

Identical(c, d) == Same(c, d) /\ c.val = d.val

NotFound == <<0, 0>>

\* findPosition and findIndexInLine.  A character before the first one of
\* its line is taken for found, at the start of the line.
FindPosition(doc, c) ==
  LET text == doc.text
      IndexInLine(l) ==
        LET hits == {i \in DOMAIN text[l] : Identical(c, text[l][i])}
        IN  IF Before(c, text[l][1]) THEN <<l, 0>>
            ELSE IF hits = {} THEN NotFound
            ELSE <<l, Min(hits) - 1>>
  IN  IF \/ text = EmptyText
         \/ Before(c, text[1][1])
         \/ After(c, Last(text[LastLine(text)]))
      THEN NotFound
      ELSE Search(text, c, IndexInLine)

\* findInsertPosition and findInsertIndexInLine: before the first character
\* that comes later.  (Variant: after it.)
FindInsertPositionAfter(doc, c) ==
  LET flat  == Flat(doc.text)
      later == {i \in DOMAIN flat : Before(c, flat[i])}
  IN  IF later = {} \/ EmptyAt(doc.text, 1)
      THEN <<1, 0>> ELSE <<1, Min({Min(later), Len(doc.text[1])})>>
FindInsertPosition(doc, c) ==
  LET text == doc.text
      end  == Last(text[LastLine(text)])
      IndexInLine(l) ==
        LET later == {i \in DOMAIN text[l] : Before(c, text[l][i]) \/ Identical(c, text[l][i])}
        IN  <<l, IF later = {} THEN 0 ELSE Min(later) - 1>>
  IN  IF EmptyAt(text, 1) \/ ~After(c, text[1][1]) THEN <<1, 0>>
      ELSE IF After(c, end)
           THEN <<Len(text), IF end.val = NewLine THEN 0 ELSE Len(text[Len(text)])>>
      ELSE Search(text, c, IndexInLine)

-----------------------------------------------------------------------------
(* Changes of the lines.                                                   *)

\* insertChar: a newline splits its line in two of the same alignment.
\* (Variant: the rest of the line stays where it is.)
InsertCharNoSplit(doc, c, place) ==
  LET l      == place[1]
      lines  == IF l > Len(doc.text) THEN Append(doc.text, <<>>) ELSE doc.text
  IN  [doc EXCEPT !.text = [lines EXCEPT ![l] = InsertAt(@, place[2] + 1, c)]]
InsertChar(doc, c, place) ==
  LET l      == place[1]
      lines  == IF l > Len(doc.text) THEN Append(doc.text, <<>>) ELSE doc.text
      head   == Append(SubSeq(lines[l], 1, place[2]), c)
      tail   == SubSeq(lines[l], place[2] + 1, Len(lines[l]))
  IN  IF c.val = NewLine
      THEN [text  |-> InsertAt([lines EXCEPT ![l] = head], l + 1, tail),
            align |-> InsertAt(doc.align, l + 1, doc.align[l])]
      ELSE [doc EXCEPT !.text = [lines EXCEPT ![l] = head \o tail]]

\* mergeLines: a line and the next become one, with the first's alignment.
MergeLines(doc, l) ==
  [text  |-> RemoveAt([doc.text EXCEPT ![l] = @ \o doc.text[l + 1]], l + 1),
   align |-> RemoveAt(doc.align, l + 1)]

\* The lines that deleteEmptyLines leaves.
LinesKept(text) == SelectSeq(text, LAMBDA line : line # <<>>)

\* deleteEmptyLines adds an empty line again to a text that ends with a newline
\* then.  It reads the alignment of that line past the end of the vector: a
\* slot that must have held one when the call began, one of n.
AlignmentThere(text, n) ==
  LET kept == LinesKept(text)
  IN  kept # <<>> /\ EndsLine(Last(kept)) => Len(kept) < n

\* deleteEmptyLines: empty lines go, with their alignments; one is added again
\* at the end of a text that ends with a newline.  What it reads past the end
\* of the alignments C++ leaves undefined, too; as built, the slots that were
\* removed hold the last alignment.
DeleteEmptyLines(doc) ==
  LET Kept(i)  == i > Len(doc.text) \/ doc.text[i] # <<>>
      text  == LinesKept(doc.text)
      kept  == SelectSeq([i \in DOMAIN doc.align |-> i], Kept)
      align == [i \in DOMAIN kept |-> doc.align[kept[i]]]
      next  == Len(text) + 1
  IN  IF text # <<>> /\ EndsLine(Last(text))
      THEN [text  |-> Append(text, <<>>),
            align |-> InsertAt(align, next, IF next <= Len(align) THEN align[next]
                                                                ELSE Last(doc.align))]
      ELSE [text |-> text, align |-> align]

\* A document without text keeps the alignment of its first line.
KeepAlign(doc, a) ==
  IF doc.text = EmptyText THEN [doc EXCEPT !.align = Append(@, a)] ELSE doc

-----------------------------------------------------------------------------
(* Operations on a copy of the document.                                   *)

\* remoteInsert
RemoteInsert(doc, c) == InsertChar(doc, c, FindInsertPosition(doc, c))

\* findPosition reads the first character of the first line unchecked.
FindDefined(doc) == doc.text = EmptyText \/ doc.text[1] # <<>>

\* erase and mergeLines of remoteDelete, at the place of the character.
RemoteCut(doc, c, place) ==
  LET l   == place[1]
      cut == [doc EXCEPT !.text[l] = RemoveAt(@, place[2] + 1)]
  IN  IF c.val = NewLine /\ ~EmptyAt(cut.text, l + 1) THEN MergeLines(cut, l) ELSE cut

\* remoteDelete reads the line after a newline, and an alignment, too.
DeleteDefined(doc, c) ==
  LET place == FindPosition(doc, c)
  IN  \/ doc.text = EmptyText
      \/ /\ FindDefined(doc)
         /\ c.val = NewLine => place[1] < Len(doc.text)
         /\ place # NotFound => AlignmentThere(RemoteCut(doc, c, place).text, Len(doc.align))

\* remoteDelete, where it is defined.
RemoteDelete(doc, c) ==
  LET place == FindPosition(doc, c)
      first == doc.align[1]
  IN  KeepAlign(IF place = NotFound THEN doc
                ELSE DeleteEmptyLines(RemoteCut(doc, c, place)), first)

\* remoteAlignmentChange.  (Variant: the two arguments mixed up.)
RemoteAlignMixed(doc, l, a) ==
  IF l \in DOMAIN doc.align THEN [doc EXCEPT !.align[l] = l] ELSE doc
RemoteAlign(doc, l, a) ==
  IF l \in DOMAIN doc.align THEN [doc EXCEPT !.align[l] = a] ELSE doc

\* calculateLineCol, for a position in the text the editor shows.
PlaceOf(doc, p) ==
  LET text == doc.text
      upTo(l) == Len(Flat(SubSeq(text, 1, l)))
      l == Min({i \in DOMAIN text : p <= upTo(i)})
  IN  IF p = 0 THEN <<1, 0>>
      ELSE IF p = upTo(l) /\ EndsLine(text[l]) THEN <<l + 1, 0>>
      ELSE <<l, p - upTo(l - 1)>>

\* findPositionBefore and findPositionAfter, at an editor position.
Neighbours(doc, p) ==
  LET flat == Flat(doc.text)
  IN  <<IF p = 0 THEN <<>> ELSE flat[p].pos,
        IF p = Len(flat) THEN <<>> ELSE flat[p + 1].pos>>

\* The font of what is typed.
PlainFont == CHOOSE f \in Fonts : TRUE

\* generateChar: the characters that may be made for a place in the text.
NewChars(doc, p, val, site) ==
  LET around == Neighbours(doc, p)
  IN  {[pos |-> q, site |-> site, val |-> val, font |-> PlainFont] :
         q \in PositionsBetween(around[1], around[2])}

\* localInsert
LocalInsert(doc, c, p) == InsertChar(doc, c, PlaceOf(doc, p))

\* deleteSingleLine and deleteMultipleLines: the characters from one place
\* to another go, the lines between them stay, empty.
CutRange(text, from, to) ==
  [l \in DOMAIN text |->
     IF l < from[1] \/ l > to[1] THEN text[l]
     ELSE SubSeq(text[l], 1, IF l = from[1] THEN from[2] ELSE 0)
          \o SubSeq(text[l], (IF l = to[1] THEN to[2] ELSE Len(text[l])) + 1, Len(text[l]))]

\* newLineRemoved
NewLineGone(doc, p, q) ==
  LET gone == SubSeq(Flat(doc.text), p + 1, q)
  IN  \/ PlaceOf(doc, p)[1] # PlaceOf(doc, q)[1]
      \/ \E i \in DOMAIN gone : gone[i].val = NewLine

\* localDelete reads the first line and the next when a newline goes, and an
\* alignment: all of them were there when it began, though the empty ones
\* among them are removed by then.
LocalDeleteDefined(doc, p, q) ==
  LET from == PlaceOf(doc, p)
  IN  /\ NewLineGone(doc, p, q) => from[1] + 1 <= Len(doc.text)
      /\ AlignmentThere(CutRange(doc.text, from, PlaceOf(doc, q)), Len(doc.align))

\* localDelete of the characters from editor position p up to q.
LocalDelete(doc, p, q) ==
  LET from  == PlaceOf(doc, p)
      first == doc.align[1]
      left  == DeleteEmptyLines([doc EXCEPT !.text = CutRange(@, from, PlaceOf(doc, q))])
      whole == IF /\ NewLineGone(doc, p, q) /\ ~EmptyAt(left.text, from[1])
                  /\ ~EmptyAt(left.text, from[1] + 1) /\ ~EndsLine(left.text[from[1]])
               THEN MergeLines(left, from[1]) ELSE left
  IN  KeepAlign(whole, first)

\* localFormatChange of the characters from editor position p up to q, and
\* the ones among them that onCharFormatChanged sends: a newline always.
Formatted(c, f) == [c EXCEPT !.font = f]
LocalFormat(doc, p, q, f) ==
  LET upTo(l) == Len(Flat(SubSeq(doc.text, 1, l)))
      Inside(l, i) == upTo(l - 1) + i \in (p + 1)..q
  IN  [doc EXCEPT !.text = [l \in DOMAIN @ |-> [i \in DOMAIN @[l] |->
         IF Inside(l, i) THEN Formatted(@[l][i], f) ELSE @[l][i]]]]
Reformatted(doc, p, q, f) ==
  LET Sent(c) == c.font # f \/ c.val = NewLine
      sent == SelectSeq(SubSeq(Flat(doc.text), p + 1, q), Sent)
  IN  [i \in DOMAIN sent |-> Formatted(sent[i], f)]

\* remoteFormatChange: what findPosition takes for the character gets the
\* font, nothing does when it finds none.  (Variant: the next one does.)
RemoteFormatNext(doc, c) ==
  LET place == FindPosition(doc, c)
  IN  IF place = NotFound \/ place[2] + 2 > Len(doc.text[place[1]]) THEN doc
      ELSE [doc EXCEPT !.text[place[1]][place[2] + 2] = Formatted(@, c.font)]
RemoteFormat(doc, c) ==
  LET place == FindPosition(doc, c)
  IN  IF place = NotFound THEN doc
      ELSE [doc EXCEPT !.text[place[1]][place[2] + 1] = Formatted(@, c.font)]

-----------------------------------------------------------------------------
(* What a copy of a document must be.                                      *)

\* Newlines end lines: every line but the last ends with one, no other
\* character is one, only the last line may be empty, and every line (one, in
\* a document without text) has an alignment.
WellFormed(doc) ==
  /\ \A l \in DOMAIN doc.text :
       /\ \A i \in DOMAIN doc.text[l] :
            doc.text[l][i].val = NewLine => i = Len(doc.text[l])
       /\ l < Len(doc.text) => EndsLine(doc.text[l])
  /\ doc.text # EmptyText => ~EndsLine(doc.text[Len(doc.text)])
  /\ Len(doc.align) >= IF doc.text = EmptyText THEN 1 ELSE Len(doc.text)

\* The characters stand in the order of their positions.
Sorted(doc) ==
  LET flat == Flat(doc.text)
  IN  \A i \in 1..(Len(flat) - 1) : Before(flat[i], flat[i + 1])
=============================================================================
