----------------------------- MODULE KKTextEdit -----------------------------
(***************************************************************************)
(* The text the user sees and works on (class KKTextEdit over QTextEdit),  *)
(* and how it finds out what the user has changed: from the caret and the  *)
(* selection before, and the text and the caret after.                     *)
(*                                                                         *)
(* A character of the text shown has a value and a background.  Every      *)
(* character typed has a value of its own.  Newlines are characters like   *)
(* others.  A position is a number of characters.  An editor e is a record *)
(* of which this module reads and writes:                                  *)
(*   shown        the text shown                                           *)
(*   caret        the cursor of QTextEdit: where it is, where its          *)
(*                selection starts                                         *)
(*   local        localCursor, a cursor of the same text                   *)
(*   selected     wasSelected, selectionStart, selectionEnd: <<>> or       *)
(*                <<from, to>>                                             *)
(*   lastPos      the caret after the last change, or Unset                *)
(*   textChanged, canUndo, canRedo    the flags of those names             *)
(*   undo         what Qt would undo: nothing, or <<deletion>>; a deletion *)
(*                of nothing stands for a change of the format only        *)
(***************************************************************************)
EXTENDS Integers, SequencesExt

CONSTANT White    \* the background of characters nobody has highlighted

Unset == -1

At(p) == [pos |-> p, anchor |-> p]
HasSelection(e) == e.caret.pos # e.caret.anchor
From(e) == Min({e.caret.pos, e.caret.anchor})
To(e) == Max({e.caret.pos, e.caret.anchor})
Selection(e) == IF HasSelection(e) THEN <<From(e), To(e)>> ELSE <<>>

\* QString::mid: n < 0 is up to the end.
Part(s, from, n) == SubSeq(s, from + 1, IF n < 0 \/ from + n > Len(s) THEN Len(s) ELSE from + n)

Values(chars) == [i \in DOMAIN chars |-> chars[i].val]

-----------------------------------------------------------------------------
(* What Qt does with the text and its cursors.                             *)

\* A position after n characters are inserted at another one, or -n removed.
Shifted(p, at, n) == IF p < at THEN p ELSE IF n < 0 /\ p < at - n THEN at ELSE p + n
Moved(c, at, n) == [pos |-> Shifted(c.pos, at, n), anchor |-> Shifted(c.anchor, at, n)]

\* handleTextChange, called for every change of the text or of its format.
HandleTextChange(e) == [e EXCEPT !.textChanged = TRUE, !.canUndo = TRUE, !.canRedo = FALSE]

Replace(e, at, n, chars) ==
  HandleTextChange([e EXCEPT !.shown = Part(@, 0, at) \o chars \o Part(@, at + n, -1)])

\* New characters have the background of the one before them, or, at the
\* start of the text, of the first.
Plain(e, at, vals) ==
  LET back == IF e.shown = <<>> THEN White ELSE e.shown[Max({at, 1})].back
  IN  [i \in DOMAIN vals |-> [val |-> vals[i], back |-> back]]

Inserted(e, at, chars) ==
  LET n == Len(chars)
  IN  [Replace(e, at, 0, chars) EXCEPT !.caret = Moved(@, at, n), !.local = Moved(@, at, n)]
Removed(e, at, n) ==
  [Replace(e, at, n, <<>>) EXCEPT !.caret = Moved(@, at, -n), !.local = Moved(@, at, -n)]

\* A deletion by the user can be undone, alone or as one with the deletion
\* before that it adjoins.
Deletion(e, at, n) == [at |-> at, chars |-> Part(e.shown, at, n)]
Undoable(e, at, n) ==
  LET new   == Deletion(e, at, n)
      Joined(old) ==
        (IF old.at = at THEN {[old EXCEPT !.chars = @ \o new.chars]} ELSE {}) \cup
        (IF at + n = old.at THEN {[new EXCEPT !.chars = @ \o old.chars]} ELSE {})
  IN  {<<new>>} \cup
      IF e.undo = <<>> THEN {}
      ELSE {<<d>> : d \in Joined(e.undo[1])}
Erasures(e, at, n) == {[Removed(e, at, n) EXCEPT !.undo = u] : u \in Undoable(e, at, n)}

\* Characters take the place of what is selected.
TypedOver(e, vals) ==
  LET rest == IF HasSelection(e) THEN Removed(e, From(e), To(e) - From(e)) ELSE e
  IN  Inserted(rest, rest.caret.pos, Plain(rest, rest.caret.pos, vals))

-----------------------------------------------------------------------------
(* The operations of KKTextEdit.                                           *)

\* getCursor
Within(e, p) == Max({0, Min({p, Len(e.shown)})})
SetCursorPosition(e, p) == [e EXCEPT !.caret = At(Within(e, p))]
SaveLocalCursor(e) == [e EXCEPT !.local = e.caret]
RestoreLocalCursor(e) == [e EXCEPT !.caret = e.local]
SetLocalCursorPosition(e, p) ==
  RestoreLocalCursor([e EXCEPT !.local = IF @.pos = @.anchor THEN At(Within(e, p)) ELSE @])

\* keyPressEvent, before the key is handled.  (Variant: as the menu does.)
KeyPressedUnread(e) == [e EXCEPT !.textChanged = FALSE]
KeyPressed(e) == [e EXCEPT !.textChanged = FALSE, !.selected = Selection(e)]

\* What a key does that changes the text: a character in the place of what is
\* selected, the deletion of what is selected, of characters before the caret
\* or after it.  Bound: up to n characters.
Erased(e, n) ==
  IF HasSelection(e) THEN Erasures(e, From(e), To(e) - From(e))
  ELSE LET p == e.caret.pos
       IN  UNION {(IF k <= p THEN Erasures(e, p - k, k) ELSE {}) \cup
                  (IF p + k <= Len(e.shown) THEN Erasures(e, p, k) ELSE {}) : k \in 1..n}

\* undo() of Qt: a change of the format alone may leave the caret anywhere.
Undone(e) ==
  IF e.undo = <<>> THEN {e}
  ELSE LET d == e.undo[1]
           p == d.at + Len(d.chars)
       IN  IF d.chars = <<>>
           THEN {[HandleTextChange(e) EXCEPT !.caret = At(q), !.undo = <<>>] :
                   q \in 0..Len(e.shown)}
           ELSE {[Inserted(e, d.at, d.chars) EXCEPT !.caret = At(p), !.undo = <<>>]}

-----------------------------------------------------------------------------
Difference(op, chars, from, to) == [op |-> op, chars |-> chars, from |-> from, to |-> to]

\* calculateDiffText: what is taken for the change, from the caret and the
\* text before it (start and lastText) and the editor after it.
Differences(e, start, was) ==
  LET now  == e.shown
      end  == e.caret.pos
      from == e.selected[1]
      to   == e.selected[2]
      old  == Part(was, from, to - from)
      new  == Part(now, from, end - from)
      less == Len(was) - Len(now)
  IN  IF e.selected # <<>> /\ ~HasSelection(e)
      THEN (IF old = <<>> /\ new # <<>> THEN <<>> ELSE <<Difference("DELETE", old, from, to)>>)
           \o IF new = <<>> THEN <<>> ELSE <<Difference("INSERT", new, from, from + Len(new))>>
      ELSE IF start > end
      THEN <<Difference("DELETE", Part(was, end, start - end), end, start)>>
      ELSE IF start < end
      THEN <<Difference("INSERT", Part(now, start, end - start), start, end)>>
      ELSE IF less > 0
      THEN <<Difference("DELETE", Part(was, start, less), start, start + less)>>
      ELSE <<>>

\* And the places between which it asks for the alignment of the lines to be
\* sent again, <<>> or <<from, to>>: of what was selected, or of more than one
\* character typed or pasted.
Notified(e, start) ==
  LET end  == e.caret.pos
      from == e.selected[1]
  IN  IF e.selected # <<>> /\ ~HasSelection(e)
      THEN <<from, from + Len(Part(e.shown, from, end - from))>>
      ELSE IF end - start > 1 THEN <<start, end>>
      ELSE <<>>
=============================================================================
