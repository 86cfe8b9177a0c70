----------------------------- MODULE KKPosition -----------------------------
(***************************************************************************)
(* The positions that order the characters of a document: KKChar's order   *)
(* and the generator of new positions of KKCrdt.                           *)
(*                                                                         *)
(* A position is the sequence of the digits of its identifiers (the site   *)
(* stored in an identifier is never compared); a character has a position, *)
(* the site that typed it and a value.  Sites are numbers, in the order of *)
(* the usernames.  The generator draws its digit at random: an operator    *)
(* here returns the set of the digits, or positions, it may return.        *)
(***************************************************************************)
EXTENDS Integers, Sequences

CONSTANTS
  Base,      \* KKCrdt::base, 32 in the code
  Boundary,  \* KKCrdt::boundary, 10 in the code
  Huge       \* what a negative digit becomes as an unsigned long

ASSUME PositionAssumption ==
  Base \in Nat /\ Boundary \in Nat \ {0} /\ Base > 1 /\ Huge \in Nat

Positions == Seq(Nat)

-----------------------------------------------------------------------------
(* KKChar::compareTo.                                                      *)

Shorter(p, q) == IF Len(p) <= Len(q) THEN Len(p) ELSE Len(q)

\* The first digit in which the positions differ is smaller in p.
DigitBelow(p, q) ==
  \E i \in 1..Shorter(p, q) :
    /\ p[i] < q[i]
    /\ \A j \in 1..(i-1) : p[j] = q[j]

\* One position continues the other.
SameDigits(p, q) == \A i \in 1..Shorter(p, q) : p[i] = q[i]

\* The order of positions, the site left aside.
PositionBefore(p, q) == DigitBelow(p, q) \/ (SameDigits(p, q) /\ Len(p) < Len(q))

\* compareTo(c, d) < 0, > 0 and = 0.
Before(c, d) ==
  \/ PositionBefore(c.pos, d.pos)
  \/ c.pos = d.pos /\ c.site < d.site
After(c, d) == Before(d, c)
Same(c, d)  == c.pos = d.pos /\ c.site = d.site

-----------------------------------------------------------------------------
(* generateIdentifierBetween and generatePositionBetween.  Levels count    *)
(* from 1 here and from 0 in the code: the first level is even there.      *)

BaseAt(level) == Base * 2^(level - 1)

AsUnsigned(d) == IF d < 0 THEN Huge ELSE d

\* The digits from which one is drawn, for a range min..max.  An unsigned
\* max - min below zero is huge.
IdentifiersBetween(min, max, level) ==
  {AsUnsigned(d) : d \in
    IF max >= min /\ max - min < Boundary THEN (min + 1)..max
    ELSE IF level % 2 = 0 THEN (min + 1)..(min + 1 + Boundary)   \* strategy plus
    ELSE (max - Boundary)..max}                                  \* strategy minus

\* idOne's digit at a level.
Lower(one, level) == IF level <= Len(one) THEN one[level] ELSE 0

\* positionTwo still has identifiers at a level: everything before was equal.
Bounded(one, two, level) ==
  level <= Len(two) /\ \A j \in 1..(level-1) : Lower(one, j) = two[j]

\* idTwo's digit at a level.
Upper(one, two, level) ==
  IF Bounded(one, two, level) THEN two[level] ELSE BaseAt(level)

\* A level with room between the two digits (or with an unsigned underflow).
Room(one, two, level) ==
  Upper(one, two, level) - Lower(one, level) \notin {0, 1}

\* The positions that may be generated between one and two.
PositionsBetween(one, two) ==
  LET level == CHOOSE l \in 1..(Len(one) + Len(two) + 1) :
                 Room(one, two, l) /\ \A j \in 1..(l-1) : ~Room(one, two, j)
      top   == IF Bounded(one, two, level) THEN two[level] - 1 ELSE BaseAt(level)
  IN  {[i \in 1..level |-> IF i < level THEN Lower(one, i) ELSE d] :
         d \in IdentifiersBetween(Lower(one, level), top, level)}

\* A position strictly between two others; an empty one is no bound.
Between(p, one, two) ==
  /\ one = <<>> \/ PositionBefore(one, p)
  /\ two = <<>> \/ PositionBefore(p, two)
=============================================================================
