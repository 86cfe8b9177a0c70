------------------------------ MODULE MCEditor ------------------------------
(* Model values and bounds for the run of KKEditor.                        *)
EXTENDS KKEditor, TLC

CONSTANTS me, ann, bob, white, red, green

TheDocuments == {<<>>, <<me, ann, me>>, <<ann, bob, ann>>}

\* What is possible at most in a behaviour: how often each thing happens.
Idle == [d \in Deeds |-> 0]
Typing == [Idle EXCEPT !["key"] = 2, !["menu"] = 1]
Regretting == [Idle EXCEPT !["key"] = 1, !["menu"] = 2]
Pointing == [Idle EXCEPT !["key"] = 1, !["mouse"] = 1, !["menu"] = 1]
Together == [Idle EXCEPT !["key"] = 2, ![ann] = 1]
Choosing == [Idle EXCEPT !["key"] = 1, !["menu"] = 1, ![ann] = 1]
Crowded == [Idle EXCEPT !["key"] = 1, ![ann] = 1, ![bob] = 1]
Highlighting == [Idle EXCEPT !["key"] = 1, !["click"] = 2, ![ann] = 1]
Colouring == [Idle EXCEPT !["click"] = 3, ![bob] = 1]
Styling == [Idle EXCEPT !["style"] = 1, !["key"] = 1, !["menu"] = 1, ![ann] = 1]
ThePlans ==
  {Typing, Regretting, Pointing, Together, Choosing, Crowded, Highlighting, Colouring, Styling}

\* Fields that look like lengths, an empty one, one that just fits in a
\* character beside one symbol and one that does not.
Long(n) == [i \in 1..n |-> Letter]
TheWire == <<<<1, 0>>, Long(7), <<0, 0, 0, 1>>, <<>>, <<Letter>>, Long(6), <<1>>>>
=============================================================================
