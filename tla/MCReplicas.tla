----------------------------- MODULE MCReplicas -----------------------------
(* Model values and bounds for the runs of KKReplicas.                     *)
EXTENDS KKReplicas, TLC

CONSTANTS x, nl, f1, f2

\* A plan for sites 1 and 2 that does nothing, and the plans made of it.
Two(m, n) == (1 :> m) @@ (2 :> n)
Idle == [deed \in Deeds \cup {"longest"} |-> IF deed = "longest" THEN 1 ELSE Two(0, 0)]

Editing    == [Idle EXCEPT !["type"] = Two(2, 1), !["erase"] = Two(1, 0)]
Reopening  == [Idle EXCEPT !["type"] = Two(2, 0), !["erase"] = Two(1, 0), !["align"] = Two(0, 1),
                           !["open"] = Two(0, 1), !["longest"] = 2]
Formatting == [Idle EXCEPT !["type"] = Two(2, 0), !["format"] = Two(1, 1), !["longest"] = 2]
Erasing    == [Idle EXCEPT !["type"] = Two(2, 0), !["erase"] = Two(1, 1)]
Typing     == [Idle EXCEPT !["type"] = Two(2, 1)]
Crossing   == [Idle EXCEPT !["type"] = Two(3, 0), !["erase"] = Two(1, 1)]

AllPlans     == {Editing, Erasing, Reopening, Formatting}
TypingPlan   == {Typing}
CrossingPlan == {Crossing}

\* Where a position was generated outside its neighbours no property says
\* anything more: the run need not go on.
OnlyPlaced == placed

\* Both sites type before they have read anything, and nobody draws the digit
\* of the character before his own again where the site would decide the
\* other way (a range exactly as wide as Boundary allows that, too): what is
\* left of equal positions are those drawn at the same time.
TypedTogether ==
  /\ \A s \in Sites : cursor[s] > 0 => left["type"][s] < Typing["type"][s]
  /\ \A s \in Sites :
       LET flat == Flat(doc[s].text)
       IN  \A i \in 1..(Len(flat) - 1) :
             flat[i].pos = flat[i + 1].pos => flat[i].site < flat[i + 1].site
=============================================================================
