------------------------------ MODULE KKPicker ------------------------------
(***************************************************************************)
(* The document list of OpenFileDialog: a line of text, the row that was   *)
(* clicked last and the link that was pasted last decide together which    *)
(* document the open button asks for, and under which name.                *)
(*                                                                         *)
(* A document is what its link says: who created it and its first name.  A *)
(* name is a base and a number, 0 for none ("doc", "doc (2)"); the base is *)
(* a sequence of words, in which the number of a name that was numbered    *)
(* again is one more ("doc (2) (3)").                                      *)
(***************************************************************************)
EXTENDS Naturals, FiniteSets, SequencesExt

CONSTANTS
  Nothing,    \* an empty string
  Invalid     \* a text that is not a name: too long, or a forbidden character

Doc(owner, title) == [owner |-> owner, title |-> title]
Name(base, nth) == [base |-> base, nth |-> nth]

\* The words of a name.
Text(name) == IF name.nth = 0 THEN name.base ELSE Append(name.base, name.nth)

\* text: the line; name, link: selectedFilename, selectedLink; the last two:
\* pastedFilename, pastedLink.
NoChoice ==
  [text |-> Nothing, name |-> Nothing, link |-> Nothing,
   pastedName |-> Nothing, pastedLink |-> Nothing]

\* files.value: the link of a name in the list.
LinkOf(files, name) == IF name \in DOMAIN files THEN files[name] ELSE Nothing

\* createInnerFilename: numbered when the list has names that begin with it,
\* word by word.  (Variant: it is never numbered.)
InnerNameKept(files, name) == name
InnerName(files, name) ==
  LET alike == Cardinality({n \in DOMAIN files : IsPrefix(Text(name), Text(n))})
  IN  IF alike = 0 THEN name ELSE Name(Text(name), alike + 1)

CanOpen(c) == c.text \notin {Nothing, Invalid}

\* The line changes (textChanged): what was pasted goes with its name, and a
\* valid name selects the document of the list that has it.  (Variant: what
\* was pasted stays.)
TextChangedPasteKept(files, c, text) ==
  IF text = c.text THEN c
  ELSE [c EXCEPT !.text = text,
                 !.link = IF text = Invalid THEN @ ELSE LinkOf(files, text),
                 !.name = IF text \in DOMAIN files THEN text
                          ELSE IF text = Invalid THEN @ ELSE Nothing]
TextChanged(files, c, text) ==
  LET new == [c EXCEPT !.text = text]
  IN  CASE text = c.text -> c
        [] text # c.text /\ text = c.pastedName /\ text # Nothing -> new
        [] OTHER ->
             LET fresh == [new EXCEPT !.pastedName = Nothing, !.pastedLink = Nothing]
             IN  IF CanOpen(fresh)
                 THEN [fresh EXCEPT !.link = LinkOf(files, text),
                                    !.name = IF text \in DOMAIN files THEN text ELSE Nothing]
                 ELSE fresh

\* A link is pasted: the name its document has in the list, or a new one.
LinkPasted(files, c, doc) ==
  LET known == {n \in DOMAIN files : files[n] = doc}
      name == IF known # {} THEN CHOOSE n \in known : TRUE ELSE InnerName(files, doc.title)
  IN  [c EXCEPT !.text = name, !.pastedName = name, !.pastedLink = doc]

\* itemClicked, on the row's name or dates, and on its delete icon.
RowClicked(files, c, row) == TextChanged(files, [c EXCEPT !.name = row], row)
DeleteClicked(c, row) == [c EXCEPT !.name = row]

\* openFileButton: what is asked for.  A name that is not in the list is a
\* new document, asked for under its name.
SelectedLink(files, c) == IF c.link # Nothing THEN c.link ELSE LinkOf(files, c.name)
Target(files, c) ==
  LET link == SelectedLink(files, c)
  IN  CASE c.pastedLink # Nothing -> [hash |-> c.pastedLink, name |-> c.pastedName]
        [] c.pastedLink = Nothing /\ link # Nothing -> [hash |-> link, name |-> c.name]
        [] OTHER -> [hash |-> c.text, name |-> c.text]
=============================================================================
