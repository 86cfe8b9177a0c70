------------------------------ MODULE MCRelay ------------------------------
(* Model values and bounds for the runs of KKRelay.                        *)
EXTENDS KKRelay, TLC

CONSTANTS a, b, c, e1, e2, al, m1, m2

TwoUsers   == {a, b}
ThreeUsers == {a, b, c}

\* How often each user opens the document and meets an illegal edit.
OpensAB   == (a :> 2) @@ (b :> 1)
OpensOnce == [u \in Users |-> 1]
NoReloads == [u \in Users |-> 0]
ReloadsB  == [u \in Users |-> IF u = b THEN 1 ELSE 0]

\* e1 and e2 change the text, al an alignment.
NoAuthor == <<>>
Edits1   == {e1}
Author1  == e1 :> a
Edits3   == {e1, e2, al}
Author3  == (e1 :> a) @@ (e2 :> b) @@ (al :> a)

\* Users who open the document once are interchangeable, and so are messages.
Anyone == Permutations(ThreeUsers) \cup Permutations({m1, m2})
=============================================================================
