----------------------------- MODULE KKDocument -----------------------------
(***************************************************************************)
(* What an open document promises to its users, without threads, queues or *)
(* connections: one copy of the document that edits join one at a time and *)
(* never leave, after the edits that their authors had seen; and for every *)
(* user a view that only grows by the user's own edits and by edits of the *)
(* document, until the user opens or reloads it.                           *)
(***************************************************************************)
CONSTANTS Users, Edits, Author

VARIABLES
  doc,      \* edits in the document
  view,     \* edits in each user's view
  written,  \* edits made so far
  seen      \* what the author of an edit saw when making it

docVars == <<doc, view, written, seen>>

Init ==
  /\ doc = {} /\ written = {}
  /\ view = [u \in Users |-> {}]
  /\ seen = [e \in Edits |-> {}]

\* A user makes an edit: the view shows it at once (a text edit) or when the
\* document has it (an alignment).
Write(e) ==
  /\ e \notin written
  /\ written' = written \cup {e}
  /\ seen' = [seen EXCEPT ![e] = view[Author[e]]]
  /\ \/ view' = [view EXCEPT ![Author[e]] = @ \cup {e}]
     \/ UNCHANGED view
  /\ UNCHANGED doc

\* The document takes an edit, once, after what its author had seen.
Commit(e) ==
  /\ e \in written \ doc
  /\ seen[e] \subseteq doc
  /\ doc' = doc \cup {e}
  /\ UNCHANGED <<view, written, seen>>

\* A user sees an edit of the document.
See(u, e) ==
  /\ e \in doc
  /\ view' = [view EXCEPT ![u] = @ \cup {e}]
  /\ UNCHANGED <<doc, written, seen>>

\* A user opens or reloads the document: an empty view, then a state that
\* the document has been in.
Load(u) ==
  /\ \E S \in SUBSET doc :
       /\ \A e \in S : seen[e] \subseteq S
       /\ view' = [view EXCEPT ![u] = S]
  /\ UNCHANGED <<doc, written, seen>>

Next ==
  \/ \E e \in Edits : Write(e) \/ Commit(e)
  \/ \E u \in Users : Load(u) \/ \E e \in Edits : See(u, e)

Spec == Init /\ [][Next]_docVars
=============================================================================
