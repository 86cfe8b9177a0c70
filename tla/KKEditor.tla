------------------------------ MODULE KKEditor ------------------------------
(***************************************************************************)
(* The editor of one user (class KKEditor, and the handlers of KKClient    *)
(* between it and the copy of the document): what the user does to the     *)
(* text shown (KKTextEdit) becomes changes of the copy, changes by others  *)
(* are made to both, the cursors of the others follow, and the text of a   *)
(* user who is clicked in the chat is highlighted.                         *)
(*                                                                         *)
(* The copy of the document (KKCrdt) is here the sequence of its           *)
(* characters, each with its author: KKReplicas shows where a character    *)
(* goes and which one a deletion finds, here any place and any character.  *)
(***************************************************************************)
EXTENDS KKTextEdit, KKPayload, FiniteSets

CONSTANTS
  Me,          \* the user
  Others,      \* the other users of the document
  Primary,     \* the colours that are given first,
  Secondary,   \* and those that are given after them
  Documents,   \* what the document may be at first: authors of characters
  Several,     \* bound: characters in one change
  Wire,        \* what the fields of characters may be on the wire
  Plans        \* bounds: how often each thing happens; every run picks one

ASSUME SitesAssumption == Me \notin Others
ASSUME ColoursAssumption == Primary # {} /\ White \notin Primary \cup Secondary

VARIABLES
  editor,   \* that of KKTextEdit, and
            \*   text      the copy of the document
            \*   cursors   the cursor of each of the others, or Unset
            \*   colours   the colours given to users, White for none
            \*   rest      the colours that are not given yet
            \*   clicked   the users whose text is highlighted
            \*   illegal   the copy refused a change
            \*   stale     history: a change was looked for in a selection that
            \*             was another's, or where there was none
            \*   blank     history: users highlighted before they had a colour
  left      \* what is left of the plan

vars == <<editor, left>>

Deeds == {"key", "mouse", "menu", "style", "click"} \cup Others
Spend(deed) == left[deed] > 0 /\ left' = [left EXCEPT ![deed] = @ - 1]

Users == Others \cup {Me}
Palette == Primary \cup Secondary

\* Values that no character has, and none that an undo would bring back.
InUse(e) == {e.text[i].val : i \in DOMAIN e.text} \cup {e.shown[i].val : i \in DOMAIN e.shown}
            \cup UNION {{d.chars[i].val : i \in DOMAIN d.chars} : d \in Range(e.undo)}
Fresh(e, n) ==
  LET free == (1..(Cardinality(InUse(e)) + n)) \ InUse(e)
  IN  SetToSortSeq({v \in free : Cardinality({w \in free : w <= v}) <= n}, <)

-----------------------------------------------------------------------------
(* Colours.                                                                *)

\* selectRandomColor and refillColorLists: the colours it may be.
SelectRandomColor(e) ==
  LET rest == IF e.rest = {} THEN Palette ELSE e.rest
  IN  {[colour |-> c, rest |-> rest \ {c}] :
         c \in IF rest \cap Primary # {} THEN rest \cap Primary ELSE rest}

Painted(e, ps, colour) ==
  HandleTextChange([e EXCEPT !.shown =
    [i \in DOMAIN @ |-> IF i - 1 \in ps THEN [@[i] EXCEPT !.back = colour] ELSE @[i]]])

\* findPositions
FindPositions(e, s) ==
  LET Mine(p) == e.text[p].site = s
  IN  [i \in DOMAIN SelectSeq([p \in DOMAIN e.text |-> p], Mine) |->
         SelectSeq([p \in DOMAIN e.text |-> p], Mine)[i] - 1]

\* The loop of setColorText: a run of positions is painted when the next
\* position is further on, or the last.  (Variant: the last position is
\* forgotten when it is a run of its own.)
PaintRunsButLast(ps) ==
  LET step(r, p) ==
        LET start == IF r.prev = Unset THEN p ELSE r.start
            prev  == IF r.prev = Unset THEN p ELSE r.prev
            end   == IF p = Last(ps) /\ p - prev = 1 THEN p ELSE prev
        IN  IF p - prev > 1 \/ p = Last(ps)
            THEN [prev |-> p, start |-> p, done |-> r.done \cup start..end]
            ELSE [r EXCEPT !.prev = p, !.start = start]
  IN  FoldLeft(step, [prev |-> Unset, start |-> 0, done |-> {}], ps).done
PaintRuns(ps) ==
  LET step(r, p) ==
        LET start == IF r.prev = Unset THEN p ELSE r.start
            prev  == IF r.prev = Unset THEN p ELSE r.prev
            end   == IF p = Last(ps) /\ p - prev = 1 THEN p ELSE prev
            alone == IF p = Last(ps) /\ p - prev > 1 THEN {p} ELSE {}
        IN  IF p - prev > 1 \/ p = Last(ps)
            THEN [prev |-> p, start |-> p, done |-> r.done \cup start..end \cup alone]
            ELSE [r EXCEPT !.prev = p, !.start = start]
  IN  FoldLeft(step, [prev |-> Unset, start |-> 0, done |-> {}], ps).done

SetColorText(e, s, colour) ==
  LET ps == FindPositions(e, s)
  IN  IF ps = <<>> THEN e ELSE [Painted(e, PaintRuns(ps), colour) EXCEPT !.undo = <<>>]

ColourOf(e, s) == IF s \in e.clicked THEN e.colours[s] ELSE White

\* updateColorText: the colour of what the user has inserted.
UpdateColorText(e, from, to) ==
  [Painted(e, from..(to - 1), ColourOf(e, Me)) EXCEPT !.undo = <<>>]

-----------------------------------------------------------------------------
(* The cursors of the others.                                              *)

\* updateCursors, after a change of n characters at a position by s: a cursor
\* inside them goes to that position.  (Variant: it moves like those after them.)
Abs(n) == IF n < 0 THEN -n ELSE n
UpdateCursorsShift(e, s, start, n) ==
  [e EXCEPT !.cursors = [c \in DOMAIN @ |->
     IF @[c] <= start THEN @[c] ELSE Within(e, IF c = s THEN @[c] ELSE @[c] + n)]]
UpdateCursors(e, s, start, n) ==
  LET Follows(c, p) == IF c = s THEN p
                       ELSE IF p < start + Abs(n) THEN start ELSE p + n
  IN  [e EXCEPT !.cursors = [c \in DOMAIN @ |->
         IF @[c] <= start THEN @[c] ELSE Within(e, Follows(c, @[c]))]]

\* updateLabels: a cursor is kept within the text.  (Variant: it is not.)
UpdateLabelsOnly(e) == e
UpdateLabels(e) ==
  [e EXCEPT !.cursors = [c \in DOMAIN @ |-> IF @[c] = Unset THEN Unset ELSE Within(e, @[c])]]

\* createCursorAndLabel: a user gets a colour with the first cursor.
CreateCursorAndLabel(e, s, p) ==
  {[e EXCEPT !.cursors[s] = p, !.colours[s] = c.colour, !.rest = c.rest] :
     c \in SelectRandomColor(e)}

\* applyRemoteCursorChange
ApplyRemoteCursorChange(e, s, p) ==
  IF e.cursors[s] # Unset THEN {[e EXCEPT !.cursors[s] = p]} ELSE CreateCursorAndLabel(e, s, p)

\* updateLocalCursor
UpdateLocalCursor(e, start, delta) ==
  IF e.local.pos > start THEN SetLocalCursorPosition(e, e.local.pos + delta)
  ELSE RestoreLocalCursor(e)

-----------------------------------------------------------------------------
(* What the user has changed goes to the copy of the document.             *)

Refuse(e) == [e EXCEPT !.illegal = TRUE]

\* onInsertTextToCrdt
InsertTextToCrdt(e, start, vals) ==
  IF start > Len(e.text) THEN Refuse(e)
  ELSE [e EXCEPT !.text =
          Part(@, 0, start) \o [i \in DOMAIN vals |-> [val |-> vals[i], site |-> Me]]
          \o Part(@, start, -1)]

\* onRemoveTextFromCrdt: what it removes must be what the user has removed.
RemoveTextFromCrdt(e, start, end, vals) ==
  IF start > Len(e.text) \/ end > Len(e.text) \/ end <= start THEN Refuse(e)
  ELSE LET cut == [e EXCEPT !.text = Part(@, 0, start) \o Part(@, end, -1)]
       IN  IF Values(Part(e.text, start, end - start)) = vals THEN cut ELSE Refuse(cut)

\* onTextChange
OnTextChange(e, d) ==
  LET n     == Len(d.chars)
      moved == UpdateLabels(UpdateCursors(e, Me, d.from, IF d.op = "INSERT" THEN n ELSE -n))
  IN  IF d.op = "DELETE" THEN RemoveTextFromCrdt(moved, d.from, d.to, Values(d.chars))
      ELSE InsertTextToCrdt(UpdateColorText(moved, d.from, d.to), d.from, Values(d.chars))

\* onNotifyAlignment: the alignment of the lines between two places of the
\* text, <<>> or <<from, to>>, goes to the server; a place within the text is in
\* one of its lines.  When it comes back: ReceiveOwn.
NotifyAlignment(e, places) ==
  IF \E i \in DOMAIN places : places[i] > Len(e.text) THEN Refuse(e) ELSE e

\* calculateDiffText, and what it sends to the editor.
CalculateDiffText(e, start, was) ==
  LET ds   == Differences(e, start, was)
      sent == NotifyAlignment(FoldLeft(OnTextChange, SaveLocalCursor(e), ds), Notified(e, start))
  IN  IF ds = <<>> THEN sent ELSE [sent EXCEPT !.lastPos = sent.caret.pos]

\* keyPressEvent, of a key that makes one of afters of before.
KeyPressEvent(before, afters) ==
  LET Handled(after) ==
        IF after.textChanged
        THEN CalculateDiffText(SaveLocalCursor(after), before.caret.pos, before.shown)
        ELSE SaveLocalCursor(after)
  IN  {[Handled(after) EXCEPT !.textChanged = FALSE] : after \in afters}

\* The end of textPaste, textCut, textUndo and textRedo.  The selection of
\* the last key may not be that of this change.
Commanded(after, start, was, right) ==
  IF after.textChanged
  THEN CalculateDiffText([after EXCEPT !.stale = @ \/ ~right], start, was)
  ELSE after

\* textPaste
Paste(e, vals) ==
  Commanded(TypedOver(e, vals), e.caret.pos, e.shown, e.selected = Selection(e))

\* textCut
Cut(e) ==
  {Commanded(after, e.caret.pos, e.shown, e.selected \in {<<>>, Selection(e)}) :
     after \in Erasures(e, From(e), To(e) - From(e))}

\* textUndo
Undo(e) ==
  IF ~e.canUndo THEN {}
  ELSE LET start == IF e.lastPos = Unset THEN Len(e.shown) ELSE e.lastPos
           right(u) == e.selected = <<>> /\ u.shown # e.shown
       IN  {Commanded([u EXCEPT !.canUndo = FALSE, !.canRedo = TRUE,
                                !.lastPos = IF @ = Unset THEN start ELSE @],
                      start, e.shown, right(u)) : u \in Undone(e)}

\* textRedo: Qt has nothing to redo, updateColorText has cleared it; but for a
\* change of format, whose undoing is stale already.
Redo(e) ==
  IF ~e.canRedo THEN {}
  ELSE {Commanded([e EXCEPT !.canRedo = FALSE, !.canUndo = TRUE], e.lastPos, e.shown, FALSE)}

-----------------------------------------------------------------------------
(* Changes by others.                                                      *)

\* The end of handleCrdtTextResponse and handleCrdtResponse.
AfterRemote(e, s, start, n) ==
  LET moved == UpdateLocalCursor(UpdateCursors(e, s, start, n), start, n)
  IN  UpdateLabels([(IF n = 0 THEN e ELSE moved) EXCEPT !.undo = <<>>])

\* applyRemoteTextChange and applyRemoteFormatChange of a new character.
InsertOne(e, s, p, v) ==
  Painted(Inserted(SaveLocalCursor([e EXCEPT !.text = InsertAt(@, p + 1, [val |-> v, site |-> s])]),
                   p, Plain(e, p, <<v>>)),
          {p}, ColourOf(e, s))
DeleteOne(e, p) ==
  Removed(SaveLocalCursor([e EXCEPT !.text = RemoveAt(@, p + 1)]), p, 1)

\* handleCrdtTextResponse of new characters, that come to stand at places ps.
RemoteInsert(e, s, ps) ==
  LET vals == Fresh(e, Len(ps))
      n    == Len(ps)
      last == ps[n] + 1
      all  == FoldLeftDomain(LAMBDA d, i : InsertOne(d, s, ps[i], vals[i]), e, ps)
  IN  {AfterRemote(d, s, last - n, n) : d \in ApplyRemoteCursorChange(all, s, last)}

\* Of a deletion, from the last character to the first; characters that are
\* gone already are passed over.
RemoteDelete(e, s, ps) ==
  LET all == FoldRight(LAMBDA p, d : DeleteOne(d, p), ps, e)
  IN  IF ps = <<>> THEN {AfterRemote(e, s, 0, 0)}
      ELSE {AfterRemote(d, s, ps[1], -Len(ps)) : d \in ApplyRemoteCursorChange(all, s, ps[1])}

\* Of a change of format, of a character at p; of one that is gone, the
\* first character of the text is taken for it.
RemoteFormat(e, s, p) ==
  LET saved == SaveLocalCursor(e)
      all   == IF p < Len(e.shown) THEN HandleTextChange(saved) ELSE saved
  IN  {AfterRemote(d, s, 0, 0) : d \in ApplyRemoteCursorChange(all, s, p + 1)}

\* mergeFormat: a change of format that Qt could undo.
MergeFormat(e) == [HandleTextChange(e) EXCEPT !.undo = <<[at |-> 0, chars |-> <<>>]>>]

\* handleCrdtAlignmentResponse, for the lines that start at ps: each moves the
\* caret, and the caret before is what is saved.  Also the user's own.
AlignOne(e, p) == HandleTextChange(SetCursorPosition(SaveLocalCursor(e), p))
RemoteAlign(e, s, ps) ==
  LET all == FoldLeft(AlignOne, e, ps)
      own == IF ps = <<>> THEN e ELSE MergeFormat(all)
      End(d) == UpdateLabels(UpdateLocalCursor(d, 0, 0))
  IN  IF s = Me THEN {End(own)}
      ELSE {[End(d) EXCEPT !.undo = <<>>] :
              d \in IF ps = <<>> THEN {e} ELSE ApplyRemoteCursorChange(all, s, Last(ps))}

-----------------------------------------------------------------------------
(* What happens.  Bound: nothing after a refusal (KKClient opens the       *)
(* document again) or a stale change.                                      *)

\* load, of a new editor: all text is white, every other author has a cursor
\* after the last of his characters.
Load(authors) ==
  LET n == Len(authors)
      After(s) == Max({0} \cup {i \in DOMAIN authors : authors[i] = s})
      new == [text |-> [i \in 1..n |-> [val |-> i, site |-> authors[i]]],
              shown |-> [i \in 1..n |-> [val |-> i, back |-> White]],
              caret |-> At(After(Me)), local |-> At(After(Me)),
              selected |-> <<>>, lastPos |-> Unset,
              textChanged |-> n > 0, canUndo |-> n > 0, canRedo |-> FALSE, undo |-> <<>>,
              cursors |-> [s \in Others |-> Unset], colours |-> [s \in Users |-> White],
              rest |-> Palette, clicked |-> {}, illegal |-> FALSE, stale |-> FALSE, blank |-> {}]
      Show(es, s) == UNION {ApplyRemoteCursorChange(e, s, After(s)) : e \in es}
  IN  FoldLeft(Show, {new}, SetToSeq(Others \cap Range(authors)))

Init ==
  /\ left \in Plans
  /\ \E authors \in Documents : editor \in Load(authors)

Up == ~editor.illegal /\ ~editor.stale

\* A key that moves the caret, selects, or changes nothing (a shift key).
Move ==
  /\ Up /\ Spend("key")
  /\ LET e == KeyPressed(editor)
     IN  editor' \in KeyPressEvent(e,
           {[e EXCEPT !.caret = [pos |-> p, anchor |-> q]] : p, q \in 0..Len(e.shown)})

Type ==
  /\ Up /\ Spend("key")
  /\ LET e == KeyPressed(editor) IN editor' \in KeyPressEvent(e, {TypedOver(e, Fresh(e, 1))})

Erase ==
  /\ Up /\ Spend("key")
  /\ LET e == KeyPressed(editor) IN editor' \in KeyPressEvent(e, Erased(e, Several))

\* mousePressEvent, and what QTextEdit selects until the button is released.
Mouse ==
  /\ Up /\ Spend("mouse")
  /\ \E p, q \in 0..Len(editor.shown) :
       editor' = [editor EXCEPT !.local = At(p), !.caret = [pos |-> q, anchor |-> p]]

PasteText ==
  /\ Up /\ Spend("menu")
  /\ \E n \in 1..Several : editor' = Paste(editor, Fresh(editor, n))

CutText ==
  /\ Up /\ Spend("menu") /\ HasSelection(editor)
  /\ editor' \in Cut(editor)

UndoText == Up /\ Spend("menu") /\ editor' \in Undo(editor)

RedoText == Up /\ Spend("menu") /\ editor' \in Redo(editor)

\* textAlign, and a font or a colour that the user sets.
Style ==
  /\ Up /\ Spend("style")
  /\ editor' = MergeFormat(editor)

\* fileSave
Save == Up /\ Spend("menu") /\ editor' = [editor EXCEPT !.undo = <<>>]

\* onSiteIdClicked, applySiteIdClicked: highlighted or not any more; the caret
\* goes to the cursor of the user.
Click(s) ==
  /\ Up /\ Spend("click")
  /\ \E given \in IF s = Me /\ editor.colours[Me] = White /\ Me \notin editor.clicked
                  THEN SelectRandomColor(editor)
                  ELSE {[colour |-> editor.colours[s], rest |-> editor.rest]} :
       LET gone  == [editor EXCEPT !.clicked = @ \ {s}, !.blank = @ \ {s}]
           there == IF s # Me /\ editor.cursors[s] # Unset
                    THEN SetCursorPosition(editor, editor.cursors[s])
                    ELSE RestoreLocalCursor(editor)
           lit   == [there EXCEPT !.clicked = @ \cup {s}, !.rest = given.rest,
                                  !.colours[s] = given.colour,
                                  !.blank = IF given.colour = White THEN @ \cup {s} ELSE @]
       IN  editor' = IF s \in editor.clicked THEN SetColorText(gone, s, White)
                     ELSE SetColorText(lit, s, given.colour)

\* Places in a text, in order.  Bound: up to Several.
Places(last) ==
  {SetToSortSeq(S, <) : S \in {S \in SUBSET (0..last) : Cardinality(S) <= Several}}

\* handleCrdtResponse
Receive(s) ==
  /\ Up /\ Spend(s)
  /\ LET n == Len(editor.text)
     IN  \/ \E ps \in Places(n + Several - 1) \ {<<>>} :
              /\ \A i \in DOMAIN ps : ps[i] <= n + i - 1
              /\ editor' \in RemoteInsert(editor, s, ps)
         \/ \E ps \in Places(n - 1) : editor' \in RemoteDelete(editor, s, ps)
         \/ \E p \in 0..n : /\ p < n \/ p = 0
                            /\ editor' \in RemoteFormat(editor, s, p)
         \/ \E ps \in Places(n) : editor' \in RemoteAlign(editor, s, ps)

\* The user's own change of alignment comes back, which textAlign sent or
\* onNotifyAlignment.
ReceiveOwn ==
  /\ Up /\ Spend("style")
  /\ \E ps \in Places(Len(editor.text)) : editor' \in RemoteAlign(editor, Me, ps)

Next ==
  \/ Move \/ Type \/ Erase \/ Mouse
  \/ PasteText \/ CutText \/ UndoText \/ RedoText
  \/ Style \/ Save \/ ReceiveOwn
  \/ \E s \in Users : Click(s)
  \/ \E s \in Others : Receive(s)

Spec == Init /\ [][Next]_vars

-----------------------------------------------------------------------------
(* What an editor must be.                                                 *)

\* Everything has its type, and every cursor is within the text shown.
TypeOK ==
  LET e  == editor
      ps == 0..Len(e.shown)
  IN  /\ \A i \in DOMAIN e.shown : e.shown[i] \in [val : Nat, back : Palette \cup {White}]
      /\ \A i \in DOMAIN e.text : e.text[i] \in [val : Nat, site : Users]
      /\ {e.caret, e.local} \subseteq [pos : ps, anchor : ps]
      /\ e.selected = <<>> \/ e.selected \in [1..2 -> Nat]
      /\ e.lastPos \in Nat \cup {Unset}
      /\ \A d \in Range(e.undo) : d.at \in Nat
      /\ e.cursors \in [Others -> ps \cup {Unset}]
      /\ e.colours \in [Users -> Palette \cup {White}] /\ e.rest \subseteq Palette
      /\ e.clicked \subseteq Users /\ e.blank \subseteq e.clicked
      /\ {e.textChanged, e.canUndo, e.canRedo, e.illegal, e.stale} \subseteq BOOLEAN

\* The user sees what the copy of the document has, and no change is refused:
\* calculateDiffText finds out every change, whatever the keys, the commands
\* and the changes by others between them; but for a change it looks for in a
\* stale selection (kk_textedit.cpp:189).
ShownIsText ==
  ~editor.stale => ~editor.illegal /\ Values(editor.shown) = Values(editor.text)

\* The characters of the users who are clicked have their colours, all others
\* none, after changes by anyone; and no two users have one colour while
\* there are colours left (setColorText, updateColorText,
\* applyRemoteFormatChange, selectRandomColor).  But for a user who was
\* clicked before he had a colour (kk_editor.cpp:321).
Highlighted ==
  LET e == editor
      coloured == {s \in Users : e.colours[s] # White}
  IN  /\ ~e.stale => \A i \in DOMAIN e.text :
           e.text[i].site \in e.blank \/ e.shown[i].back = ColourOf(e, e.text[i].site)
      /\ Cardinality(coloured) <= Cardinality(Palette) =>
           \A s, t \in coloured : e.colours[s] = e.colours[t] => s = t

\* What the kinds of characters have for fields, and what these are written as.
Field(v) == Wire[(v % Len(Wire)) + 1]
Fields == [v \in DOMAIN Wire |-> <<Field(v), Field(v + 1)>>]
Bodies == [v \in DOMAIN Wire |-> Written(Fields[v])]

\* The characters of the text arrive at the other copies as they were, their
\* fields inside the fields of a message, whatever these contain, empty ones and
\* digits that look like lengths too, as long as a length can say how long
\* each is (kk_payload.cpp:22).  (KKPayload, encodeCrdtChar, decodeCrdtChar)
FieldsSurvive ==
  LET kinds == [i \in DOMAIN editor.text |-> (editor.text[i].val % Len(Wire)) + 1]
      sent  == [i \in DOMAIN kinds |-> Bodies[kinds[i]]]
      got   == BodyList(Encoded(sent))
  IN  (\A i \in DOMAIN sent : Fits(sent[i]))
        => [i \in DOMAIN got |-> Read(got[i])] = [i \in DOMAIN kinds |-> Fields[kinds[i]]]

\* Where a cursor at p should be when the text changes: after the last
\* character before it that is still there.
Kept(p, was, now) ==
  LET live == {i \in 1..p : was[i] \in Range(now)}
  IN  IF live = {} THEN 0 ELSE CHOOSE j \in DOMAIN now : now[j] = was[Max(live)]

\* One run of characters is inserted and one deleted, at most; a cursor that
\* should be at q is not among them, where updateCursors loses it
\* (kk_editor.cpp:1049).
Interval(S) == S = {} \/ S = Min(S)..Max(S)
Whole(q, was, now) ==
  LET new  == {i \in DOMAIN now : now[i] \notin Range(was)}
      gone == {i \in DOMAIN was : was[i] \notin Range(now)}
  IN  /\ Interval(new) /\ Interval(gone)
      /\ new # {} => q - Max(new) \notin 1..(Cardinality(new) - 1)

\* The cursor of another user stays where it is in the text when the user, or
\* a third one, changes the text.
Follow(old, new, apart) ==
  LET was == Values(old.shown)
      now == Values(new.shown)
  IN  \A s \in apart :
        LET q == Kept(old.cursors[s], was, now)
        IN  old.cursors[s] # Unset /\ Whole(q, was, now) => new.cursors[s] = q
CursorsFollow ==
  [][~editor'.stale =>
       Follow(editor, editor', {s \in Others : left'[s] = left[s]})]_vars
=============================================================================
