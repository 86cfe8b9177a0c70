-------------------------- MODULE KKPositionProofs --------------------------
(***************************************************************************)
(* The order in which a text holds its characters (KKChar::compareTo) is a *)
(* strict total order of what it compares: whatever order characters come  *)
(* in, two copies that hold the same ones can be sorted in one way only.   *)
(* And the generator of positions keeps that order, with one exception.    *)
(***************************************************************************)
EXTENDS KKPosition, WellFoundedInduction, TLAPS

LEMMA SmallestNumber ==
  ASSUME NEW T, T \subseteq Nat, T # {}
  PROVE  \E i \in T : \A j \in T : i <= j
<1>1. PICK i \in T : \A j \in T : ~(<<j, i>> \in OpToRel(<, Nat))
  BY WFMin, NatLessThanWellFounded
<1>2. \A j \in T : ~(j < i)
  BY <1>1 DEF OpToRel
<1> QED BY <1>2

Characters(V) == [pos : Positions, site : Nat, value : V]

\* Positions that differ in a common digit have a first such digit.
LEMMA FirstDifference ==
  ASSUME NEW p \in Positions, NEW q \in Positions, ~SameDigits(p, q)
  PROVE  \E i \in 1..Shorter(p, q) : p[i] # q[i] /\ \A j \in 1..(i-1) : p[j] = q[j]
<1> DEFINE T == {i \in 1..Shorter(p, q) : p[i] # q[i]}
<1>1. Shorter(p, q) \in Nat /\ T \subseteq Nat /\ T # {}
  BY DEF Shorter, SameDigits, Positions
<1>2. PICK i \in T : \A j \in T : i <= j
  BY <1>1, SmallestNumber
<1>3. \A j \in T : ~(j < i)
  BY <1>1, <1>2
<1>4. \A j \in 1..(i-1) : p[j] = q[j]
  BY <1>1, <1>3
<1> QED BY <1>4

\* Of two positions, one is before the other or they are the same.
LEMMA PositionsTotal ==
  ASSUME NEW p \in Positions, NEW q \in Positions
  PROVE  PositionBefore(p, q) \/ PositionBefore(q, p) \/ p = q
<1>1. CASE ~SameDigits(p, q)
  <2>1. PICK i \in 1..Shorter(p, q) : p[i] # q[i] /\ \A j \in 1..(i-1) : p[j] = q[j]
    BY <1>1, FirstDifference
  <2>2. p[i] \in Nat /\ q[i] \in Nat /\ i \in 1..Shorter(q, p)
    BY DEF Shorter, Positions
  <2> QED BY <2>1, <2>2 DEF PositionBefore, DigitBelow
<1>2. CASE SameDigits(p, q)
  <2>1. Len(p) \in Nat /\ Len(q) \in Nat
    BY DEF Positions
  <2>2. CASE Len(p) = Len(q)
    BY <1>2, <2>1, <2>2 DEF SameDigits, Shorter, Positions
  <2>3. CASE Len(p) # Len(q)
    BY <1>2, <2>1, <2>3 DEF PositionBefore, SameDigits, Shorter
  <2> QED BY <2>2, <2>3
<1> QED BY <1>1, <1>2

LEMMA PositionsIrreflexive ==
  ASSUME NEW p \in Positions
  PROVE  ~PositionBefore(p, p)
BY DEF PositionBefore, DigitBelow, Shorter, Positions

LEMMA PositionsTransitive ==
  ASSUME NEW p \in Positions, NEW q \in Positions, NEW r \in Positions,
         PositionBefore(p, q), PositionBefore(q, r)
  PROVE  PositionBefore(p, r)
<1>1. Len(p) \in Nat /\ Len(q) \in Nat /\ Len(r) \in Nat
  BY DEF Positions
<1>2. \A s \in {p, q, r} : \A i \in 1..Len(s) : s[i] \in Nat
  BY DEF Positions
<1>3. ASSUME NEW i \in 1..Shorter(p, q), p[i] < q[i], \A j \in 1..(i-1) : p[j] = q[j],
             NEW k \in 1..Shorter(q, r), q[k] < r[k], \A j \in 1..(k-1) : q[j] = r[j]
      PROVE  DigitBelow(p, r)
  <2>1. CASE i < k
    <3>1. i \in 1..Shorter(p, r) /\ q[i] = r[i] /\ \A j \in 1..(i-1) : p[j] = r[j]
      BY <1>1, <1>3, <2>1 DEF Shorter
    <3> QED BY <1>3, <3>1 DEF DigitBelow
  <2>2. CASE k < i
    <3>1. k \in 1..Shorter(p, r) /\ p[k] = q[k] /\ \A j \in 1..(k-1) : p[j] = r[j]
      BY <1>1, <1>3, <2>2 DEF Shorter
    <3> QED BY <1>3, <3>1 DEF DigitBelow
  <2>3. CASE k = i
    <3>1. i \in 1..Shorter(p, r) /\ \A j \in 1..(i-1) : p[j] = r[j]
      BY <1>1, <1>3, <2>3 DEF Shorter
    <3>2. p[i] \in Nat /\ q[i] \in Nat /\ r[i] \in Nat
      BY <1>1, <1>2, <1>3, <2>3 DEF Shorter
    <3> QED BY <1>3, <2>3, <3>1, <3>2 DEF DigitBelow
  <2> QED BY <1>1, <2>1, <2>2, <2>3 DEF Shorter
<1>4. CASE DigitBelow(p, q) /\ DigitBelow(q, r)
  BY <1>3, <1>4 DEF DigitBelow, PositionBefore
<1>5. CASE DigitBelow(p, q) /\ SameDigits(q, r) /\ Len(q) < Len(r)
  <2>1. PICK i \in 1..Shorter(p, q) : p[i] < q[i] /\ \A j \in 1..(i-1) : p[j] = q[j]
    BY <1>5 DEF DigitBelow
  <2>2. i \in 1..Shorter(p, r) /\ \A j \in 1..i : q[j] = r[j]
    BY <1>1, <1>5 DEF Shorter, SameDigits
  <2>3. \A j \in 1..(i-1) : p[j] = r[j]
    BY <1>1, <2>1, <2>2 DEF Shorter
  <2> QED BY <1>1, <2>1, <2>2, <2>3 DEF DigitBelow, PositionBefore, Shorter
<1>6. CASE SameDigits(p, q) /\ Len(p) < Len(q) /\ DigitBelow(q, r)
  <2>1. PICK k \in 1..Shorter(q, r) : q[k] < r[k] /\ \A j \in 1..(k-1) : q[j] = r[j]
    BY <1>6 DEF DigitBelow
  <2>2. \A j \in 1..Len(p) : p[j] = q[j]
    BY <1>1, <1>6 DEF SameDigits, Shorter
  <2>3. CASE k <= Len(p)
    <3>1. k \in 1..Shorter(p, r) /\ p[k] = q[k] /\ \A j \in 1..(k-1) : p[j] = r[j]
      BY <1>1, <2>1, <2>2, <2>3 DEF Shorter
    <3> QED BY <2>1, <3>1 DEF DigitBelow, PositionBefore
  <2>4. CASE k > Len(p)
    <3>1. Len(p) < Len(r) /\ SameDigits(p, r)
      BY <1>1, <2>1, <2>2, <2>4 DEF SameDigits, Shorter
    <3> QED BY <3>1 DEF PositionBefore
  <2> QED BY <1>1, <2>3, <2>4 DEF Shorter
<1>7. CASE SameDigits(p, q) /\ Len(p) < Len(q) /\ SameDigits(q, r) /\ Len(q) < Len(r)
  BY <1>1, <1>7 DEF SameDigits, Shorter, PositionBefore
<1> QED BY <1>4, <1>5, <1>6, <1>7 DEF PositionBefore

\* compareTo never puts a character before itself, and never three in a
\* circle: the bisections and the sorted insertion of KKCrdt rest on it.
THEOREM BeforeIsStrict ==
  ASSUME NEW V, NEW c \in Characters(V), NEW d \in Characters(V), NEW e \in Characters(V)
  PROVE  /\ ~Before(c, c)
         /\ Before(c, d) => ~After(c, d) /\ ~Same(c, d)
         /\ Before(c, d) /\ Before(d, e) => Before(c, e)
<1>1. c.pos \in Positions /\ d.pos \in Positions /\ e.pos \in Positions
  BY DEF Characters
<1>2. c.site \in Nat /\ d.site \in Nat /\ e.site \in Nat
  BY DEF Characters
<1>3. ~Before(c, c)
  BY <1>1, <1>2, PositionsIrreflexive DEF Before
<1>4. Before(c, d) /\ Before(d, e) => Before(c, e)
  BY <1>1, <1>2, PositionsTransitive DEF Before
<1>5. Before(c, d) /\ Before(d, c) => FALSE
  <2>1. ~(PositionBefore(c.pos, d.pos) /\ PositionBefore(d.pos, c.pos))
    BY <1>1, PositionsTransitive, PositionsIrreflexive
  <2>2. c.pos = d.pos => ~PositionBefore(c.pos, d.pos) /\ ~PositionBefore(d.pos, c.pos)
    BY <1>1, PositionsIrreflexive
  <2> QED BY <1>2, <2>1, <2>2 DEF Before
<1>6. Before(c, d) => ~Same(c, d)
  BY <1>1, <1>2, PositionsIrreflexive DEF Before, Same
<1> QED BY <1>3, <1>4, <1>5, <1>6 DEF After

\* Any two characters that compareTo does not take for the same are ordered, so
\* that it never depends on who was there first which comes first.
THEOREM BeforeIsTotal ==
  ASSUME NEW V, NEW c \in Characters(V), NEW d \in Characters(V)
  PROVE  Before(c, d) \/ After(c, d) \/ Same(c, d)
<1>1. c.pos \in Positions /\ d.pos \in Positions /\ c.site \in Nat /\ d.site \in Nat
  BY DEF Characters
<1> QED BY <1>1, PositionsTotal DEF Before, After, Same
-----------------------------------------------------------------------------
(* What generatePositionBetween finds.                                     *)

\* A digit is drawn inside its range, unless the range is exactly as wide as
\* the boundary, where the draw may be one too low or one too high.
\* (generateIdentifierBetween)
THEOREM DrawnInside ==
  ASSUME NEW min \in Int, NEW max \in Int, NEW level \in Nat, min >= 0,
         min < max, max - min # Boundary,
         NEW d \in IdentifiersBetween(min, max, level)
  PROVE  d \in Nat /\ min < d /\ d <= max
<1>1. Boundary \in Nat /\ Boundary > 0
  BY PositionAssumption
<1>2. PICK x \in IF max >= min /\ max - min < Boundary THEN (min + 1)..max
                 ELSE IF level % 2 = 0 THEN (min + 1)..(min + 1 + Boundary)
                 ELSE (max - Boundary)..max :
        d = AsUnsigned(x)
  BY DEF IdentifiersBetween
<1>3. x \in Int /\ min < x /\ x <= max
  <2>1. CASE max - min < Boundary
    BY <1>1, <1>2, <2>1
  <2>2. CASE max - min > Boundary
    BY <1>1, <1>2, <2>2
  <2> QED BY <1>1, <2>1, <2>2
<1>4. d = x
  BY <1>2, <1>3 DEF AsUnsigned
<1> QED BY <1>3, <1>4

\* A position that continues another by zeros only: nothing fits between.
ZeroPadded(one, two) ==
  SameDigits(one, two) /\ \A i \in 1..Len(two) : i > Len(one) => two[i] = 0

\* The digits of one up to a level with room, and then one more.
Extended(one, level, d) == [i \in 1..level |-> IF i < level THEN Lower(one, i) ELSE d]

LEMMA LowerIsDigit ==
  ASSUME NEW one \in Positions, NEW i \in Nat \ {0}
  PROVE  Lower(one, i) \in Nat /\ (i <= Len(one) => Lower(one, i) = one[i])
BY DEF Lower, Positions

LEMMA ExtendedIsPosition ==
  ASSUME NEW one \in Positions, NEW level \in Nat \ {0}, NEW d \in Nat
  PROVE  /\ Extended(one, level, d) \in Positions /\ Len(Extended(one, level, d)) = level
         /\ Extended(one, level, d)[level] = d
         /\ \A i \in 1..(level-1) : Extended(one, level, d)[i] = Lower(one, i)
<1>1. \A i \in 1..level : (IF i < level THEN Lower(one, i) ELSE d) \in Nat
  BY LowerIsDigit
<1>2. Extended(one, level, d) \in [1..level -> Nat]
  BY <1>1 DEF Extended
<1>3. Extended(one, level, d) \in Seq(Nat) /\ Len(Extended(one, level, d)) = level
  BY <1>2
<1> QED BY <1>3 DEF Extended, Positions

LEMMA ExtendedIsAfter ==
  ASSUME NEW one \in Positions, NEW level \in Nat \ {0}, NEW d \in Nat, Lower(one, level) < d
  PROVE  PositionBefore(one, Extended(one, level, d))
<1> DEFINE p == Extended(one, level, d)
<1>1. /\ p \in Positions /\ Len(p) = level /\ p[level] = d
      /\ \A i \in 1..(level-1) : p[i] = Lower(one, i)
  BY ExtendedIsPosition
<1> HIDE DEF p
<1>2. Len(one) \in Nat /\ \A i \in 1..Len(one) : one[i] \in Nat /\ Lower(one, i) = one[i]
  BY LowerIsDigit DEF Positions
<1>3. CASE level <= Len(one)
  <2>1. level \in 1..Shorter(one, p) /\ one[level] < p[level]
    BY <1>1, <1>2, <1>3 DEF Shorter
  <2>2. \A j \in 1..(level-1) : one[j] = p[j]
    BY <1>1, <1>2, <1>3
  <2> QED BY <2>1, <2>2 DEF DigitBelow, PositionBefore, p
<1>4. CASE level > Len(one)
  <2>1. SameDigits(one, p) /\ Len(one) < Len(p)
    BY <1>1, <1>2, <1>4 DEF SameDigits, Shorter
  <2> QED BY <2>1 DEF PositionBefore, p
<1> QED BY <1>2, <1>3, <1>4

LEMMA ExtendedIsBefore ==
  ASSUME NEW one \in Positions, NEW two \in Positions,
         PositionBefore(one, two), ~ZeroPadded(one, two),
         NEW level \in Nat \ {0}, \A j \in 1..(level-1) : ~Room(one, two, j),
         NEW d \in Nat, Bounded(one, two, level) => d < two[level]
  PROVE  PositionBefore(Extended(one, level, d), two)
<1> DEFINE p == Extended(one, level, d)
           E == {j \in 1..Len(two) : Lower(one, j) # two[j]}
<1>1. /\ p \in Positions /\ Len(p) = level /\ p[level] = d
      /\ \A i \in 1..(level-1) : p[i] = Lower(one, i)
  BY ExtendedIsPosition
<1> HIDE DEF p
<1>2. Len(two) \in Nat /\ Len(one) \in Nat /\ \A i \in 1..Len(two) : two[i] \in Nat
  BY DEF Positions
<1>3. \A i \in Nat \ {0} : Lower(one, i) \in Nat /\ (i <= Len(one) => Lower(one, i) = one[i])
  BY LowerIsDigit
<1>4. CASE Bounded(one, two, level)
  <2>1. level \in 1..Shorter(p, two) /\ p[level] < two[level]
    BY <1>1, <1>2, <1>4 DEF Bounded, Shorter
  <2>2. \A j \in 1..(level-1) : p[j] = two[j]
    BY <1>1, <1>4 DEF Bounded
  <2> QED BY <2>1, <2>2 DEF DigitBelow, PositionBefore, p
<1>5. CASE ~Bounded(one, two, level)
  <2>1. E # {}
    <3>1. SUFFICES ASSUME \A j \in 1..Len(two) : Lower(one, j) = two[j] PROVE FALSE
      OBVIOUS
    <3>2. ~DigitBelow(one, two)
      BY <1>2, <1>3, <3>1 DEF DigitBelow, Shorter
    <3>3. SameDigits(one, two) /\ Len(one) < Len(two)
      BY <3>2 DEF PositionBefore
    <3>4. \A i \in 1..Len(two) : i > Len(one) => two[i] = 0
      BY <1>2, <3>1 DEF Lower
    <3> QED BY <3>3, <3>4 DEF ZeroPadded
  <2>2. PICK k \in E : \A j \in E : k <= j
    <3>1. E \subseteq Nat
      BY <1>2
    <3> QED BY <2>1, <3>1, SmallestNumber
  <2>3. k \in 1..Len(two) /\ Lower(one, k) # two[k] /\ \A j \in 1..(k-1) : Lower(one, j) = two[j]
    BY <1>2, <2>2
  <2> HIDE DEF E
  <2>4. k < level
    BY <1>2, <1>5, <2>3 DEF Bounded
  <2>5. Bounded(one, two, k)
    BY <1>2, <2>3 DEF Bounded
  <2>6. two[k] - Lower(one, k) \in {0, 1}
    BY <2>3, <2>4, <2>5 DEF Room, Upper
  <2>7. p[k] < two[k]
    BY <1>1, <1>2, <1>3, <2>3, <2>4, <2>6
  <2>8. k \in 1..Shorter(p, two) /\ \A j \in 1..(k-1) : p[j] = two[j]
    BY <1>1, <1>2, <2>3, <2>4 DEF Shorter
  <2> QED BY <2>7, <2>8 DEF DigitBelow, PositionBefore, p
<1> QED BY <1>4, <1>5

-----------------------------------------------------------------------------
(* The positions of a document.  What is generated from them is again one  *)
(* of them, so that the argument goes on for ever; a range exactly as wide *)
(* as the boundary is the one way out.                                     *)

\* Every digit is within the base of its level, and the last is not zero.
WithinBase(p) ==
  /\ p \in Positions
  /\ \A i \in 1..Len(p) : p[i] <= BaseAt(i)
  /\ p # <<>> => p[Len(p)] # 0

\* The level at which generatePositionBetween draws a digit, and the range
\* from which it draws.
IsLevel(one, two, l) == Room(one, two, l) /\ \A j \in 1..(l-1) : ~Room(one, two, j)
Level(one, two) == CHOOSE l \in 1..(Len(one) + Len(two) + 1) : IsLevel(one, two, l)
Least(one, two) == Lower(one, Level(one, two))
Most(one, two) ==
  IF Bounded(one, two, Level(one, two)) THEN two[Level(one, two)] - 1
  ELSE BaseAt(Level(one, two))

\* What the provers do not know of powers.
PowersOfTwo == \A n \in Nat : 2^n \in Nat /\ 2^n > 0

LEMMA BaseIsNumber ==
  ASSUME PowersOfTwo, NEW l \in Nat \ {0}
  PROVE  BaseAt(l) \in Nat /\ BaseAt(l) > 1
<1> DEFINE power == 2^(l-1)
<1>1. power \in Nat /\ power > 0
  BY DEF PowersOfTwo
<1> HIDE DEF power
<1>2. Base \in Nat /\ Base > 1
  BY PositionAssumption
<1>3. Base * power \in Nat /\ Base * power > 1
  BY <1>1, <1>2
<1> QED BY <1>3 DEF BaseAt, power

\* A level with room is found, at the latest where both positions have ended.
LEMMA LevelExists ==
  ASSUME PowersOfTwo, NEW one \in Positions, NEW two \in Positions
  PROVE  /\ Level(one, two) \in 1..(Len(one) + Len(two) + 1)
         /\ IsLevel(one, two, Level(one, two))
<1> DEFINE last == Len(one) + Len(two) + 1
           R == {l \in 1..last : Room(one, two, l)}
<1>1. Len(one) \in Nat /\ Len(two) \in Nat
  BY DEF Positions
<1>2. last \in R
  <2>1. Lower(one, last) = 0 /\ Upper(one, two, last) = BaseAt(last)
    BY <1>1 DEF Lower, Upper, Bounded
  <2>2. BaseAt(last) \in Nat /\ BaseAt(last) > 1
    BY <1>1, BaseIsNumber
  <2>3. Room(one, two, last)
    BY <2>1, <2>2 DEF Room
  <2> QED BY <1>1, <2>3
<1>3. PICK l \in R : \A j \in R : l <= j
  <2>1. R \subseteq Nat /\ R # {}
    BY <1>1, <1>2
  <2> HIDE DEF R
  <2> QED BY <2>1, SmallestNumber
<1>4. l \in 1..last /\ IsLevel(one, two, l)
  BY <1>1, <1>3 DEF IsLevel
<1> QED BY <1>4 DEF Level

\* Between neighbours in order there is something to draw.
LEMMA RangeIsWide ==
  ASSUME PowersOfTwo, NEW one, NEW two, WithinBase(one), WithinBase(two),
         two # <<>> => PositionBefore(one, two)
  PROVE  /\ Least(one, two) \in Nat /\ Most(one, two) \in Nat
         /\ Least(one, two) < Most(one, two)
         /\ Most(one, two) <= BaseAt(Level(one, two))
<1> DEFINE l == Level(one, two)
<1>1. /\ one \in Positions /\ two \in Positions
      /\ Len(one) \in Nat /\ Len(two) \in Nat
      /\ \A i \in 1..Len(two) : two[i] \in Nat /\ two[i] <= BaseAt(i)
  BY DEF WithinBase, Positions
<1>2. l \in Nat \ {0} /\ Room(one, two, l) /\ \A j \in 1..(l-1) : ~Room(one, two, j)
  BY <1>1, LevelExists DEF IsLevel
<1>3. Least(one, two) = Lower(one, l)
      /\ Most(one, two) = IF Bounded(one, two, l) THEN two[l] - 1 ELSE BaseAt(l)
  BY DEF Least, Most
<1> HIDE DEF l
<1>4. Lower(one, l) \in Nat /\ (l <= Len(one) => Lower(one, l) = one[l])
  BY <1>1, <1>2, LowerIsDigit
<1>5. BaseAt(l) \in Nat /\ BaseAt(l) > 1
  BY <1>2, BaseIsNumber
<1>6. CASE Bounded(one, two, l)
  <2>1. l \in 1..Len(two) /\ \A j \in 1..(l-1) : Lower(one, j) = two[j]
    BY <1>2, <1>6 DEF Bounded
  <2>2. two[l] - Lower(one, l) \notin {0, 1}
    BY <1>2, <1>6 DEF Room, Upper
  <2>3. \A j \in 1..(l-1) : j <= Len(one) => one[j] = two[j]
    BY <1>1, <2>1 DEF Lower
  <2>4. Lower(one, l) <= two[l]
    <3>1. CASE l > Len(one)
      BY <1>1, <2>1, <3>1 DEF Lower
    <3>2. CASE l <= Len(one) /\ DigitBelow(one, two)
      <4>1. PICK i \in 1..Shorter(one, two) :
                   one[i] < two[i] /\ \A j \in 1..(i-1) : one[j] = two[j]
        BY <3>2 DEF DigitBelow
      <4>2. i \in Nat /\ i <= Len(one) /\ i >= 1
        BY <1>1, <4>1 DEF Shorter
      <4>3. one[i] \in Nat
        BY <1>1, <4>2 DEF Positions
      <4>4. ~ (i < l)
        BY <1>2, <2>1, <2>3, <4>1, <4>2, <4>3
      <4>5. l = i \/ l \in 1..(i-1)
        BY <1>2, <4>2, <4>4
      <4>6. one[l] <= two[l]
        BY <1>1, <2>1, <4>1, <4>3, <4>5
      <4> QED BY <1>4, <3>2, <4>6
    <3>3. CASE l <= Len(one) /\ SameDigits(one, two)
      <4>1. l \in 1..Shorter(one, two)
        BY <1>1, <2>1, <3>3 DEF Shorter
      <4> QED BY <1>1, <1>4, <2>1, <3>3, <4>1 DEF SameDigits
    <3>4. two # <<>>
      BY <2>1
    <3> QED BY <1>1, <1>2, <3>1, <3>2, <3>3, <3>4 DEF PositionBefore
  <2>5. two[l] \in Nat /\ two[l] <= BaseAt(l) /\ Lower(one, l) < two[l] - 1
    BY <1>1, <1>4, <2>1, <2>2, <2>4
  <2> QED BY <1>3, <1>4, <1>5, <1>6, <2>5 DEF l
<1>7. CASE ~Bounded(one, two, l)
  <2>1. Lower(one, l) <= BaseAt(l)
    BY <1>1, <1>2, <1>4, <1>5 DEF Lower, WithinBase
  <2>2. BaseAt(l) - Lower(one, l) \notin {0, 1}
    BY <1>2, <1>7 DEF Room, Upper
  <2>3. Lower(one, l) < BaseAt(l)
    BY <1>4, <1>5, <2>1, <2>2
  <2> QED BY <1>3, <1>4, <1>5, <1>7, <2>3 DEF l
<1> QED BY <1>6, <1>7

\* Nothing but zeros would leave no place before the right neighbour.
LEMMA NotPadded ==
  ASSUME NEW one \in Positions, NEW two, WithinBase(two), PositionBefore(one, two)
  PROVE  ~ZeroPadded(one, two)
<1>1. Len(one) \in Nat /\ Len(two) \in Nat /\ two \in Positions /\ \A i \in 1..Len(one) : one[i] \in Nat
  BY DEF WithinBase, Positions
<1>2. ASSUME SameDigits(one, two) PROVE Len(one) < Len(two)
  <2>1. ~DigitBelow(one, two)
    BY <1>1, <1>2 DEF DigitBelow, SameDigits, Shorter
  <2> QED BY <2>1 DEF PositionBefore
<1>3. Len(two) > 0 => two[Len(two)] # 0
  BY <1>1 DEF WithinBase
<1> QED BY <1>1, <1>2, <1>3 DEF ZeroPadded

\* A position is found strictly between its neighbours, whatever is drawn,
\* and is one between which and its neighbours others are found, unless the
\* range at the level of the draw is exactly as wide as the boundary: that is
\* the one way to misplace a character.  (generatePositionBetween)
THEOREM GeneratedBetween ==
  ASSUME PowersOfTwo, NEW one, NEW two, WithinBase(one), WithinBase(two),
         two # <<>> => PositionBefore(one, two),
         Most(one, two) - Least(one, two) # Boundary
  PROVE  /\ PositionsBetween(one, two) # {}
         /\ \A p \in PositionsBetween(one, two) : WithinBase(p) /\ Between(p, one, two)
<1> DEFINE l == Level(one, two)
           Digits == IdentifiersBetween(Least(one, two), Most(one, two), l)
<1>1. one \in Positions /\ two \in Positions
  BY DEF WithinBase
<1>2. /\ l \in Nat \ {0} /\ l \in 1..(Len(one) + Len(two) + 1)
      /\ \A j \in 1..(l-1) : ~Room(one, two, j)
  BY <1>1, LevelExists DEF IsLevel, Positions
<1>3. PositionsBetween(one, two) = {Extended(one, l, d) : d \in Digits}
  BY DEF PositionsBetween, Extended, Level, IsLevel, Least, Most
<1>4. /\ Least(one, two) \in Nat /\ Most(one, two) \in Nat
      /\ Least(one, two) < Most(one, two) /\ Most(one, two) <= BaseAt(l)
  BY RangeIsWide
<1>5. Least(one, two) = Lower(one, l)
      /\ (Bounded(one, two, l) => Most(one, two) = two[l] - 1)
  BY DEF Least, Most
<1> HIDE DEF l
<1>6. Digits # {}
  <2> DEFINE min == Least(one, two)
             max == Most(one, two)
  <2>1. Boundary \in Nat /\ Boundary > 0
    BY PositionAssumption
  <2>2. min + 1 \in (min + 1)..max /\ max \in (max - Boundary)..max
        /\ min + 1 \in (min + 1)..(min + 1 + Boundary)
    BY <1>4, <2>1
  <2>3. \E x : x \in IF max >= min /\ max - min < Boundary THEN (min + 1)..max
                     ELSE IF l % 2 = 0 THEN (min + 1)..(min + 1 + Boundary)
                     ELSE (max - Boundary)..max
    BY <2>2
  <2> QED BY <2>3 DEF IdentifiersBetween
<1> HIDE DEF Digits
<1>7. ASSUME NEW d \in Digits
      PROVE  WithinBase(Extended(one, l, d)) /\ Between(Extended(one, l, d), one, two)
  <2> DEFINE p == Extended(one, l, d)
  <2>1. d \in Nat /\ Lower(one, l) < d /\ d <= Most(one, two)
    BY <1>2, <1>4, <1>5, DrawnInside DEF Digits
  <2>2. /\ p \in Positions /\ Len(p) = l /\ p[l] = d
        /\ \A i \in 1..(l-1) : p[i] = Lower(one, i)
    BY <1>1, <1>2, <2>1, ExtendedIsPosition
  <2>3. PositionBefore(one, p)
    BY <1>1, <1>2, <2>1, ExtendedIsAfter
  <2>4. ASSUME two # <<>> PROVE PositionBefore(p, two)
    <3>1. Bounded(one, two, l) => d < two[l]
      <4>1. Bounded(one, two, l) => two[l] \in Nat
        BY <1>1, <1>2 DEF Bounded, Positions
      <4> QED BY <1>5, <2>1, <4>1
    <3>2. ~ZeroPadded(one, two)
      BY <1>1, <2>4, NotPadded
    <3> QED BY <1>1, <1>2, <2>1, <2>4, <3>1, <3>2, ExtendedIsBefore
  <2> HIDE DEF p
  <2>5. \A i \in 1..Len(p) : p[i] <= BaseAt(i)
    <3>1. ASSUME NEW i \in 1..(l-1) PROVE p[i] <= BaseAt(i)
      <4>1. i \in Nat \ {0} /\ BaseAt(i) \in Nat /\ p[i] = Lower(one, i)
        BY <1>2, <2>2, BaseIsNumber
      <4> QED BY <1>1, <4>1 DEF Lower, WithinBase, Positions
    <3>2. BaseAt(l) \in Nat
      BY <1>2, BaseIsNumber
    <3>3. p[l] <= BaseAt(l)
      BY <1>4, <2>1, <2>2, <3>2
    <3> QED BY <1>2, <2>2, <3>1, <3>3
  <2>6. p[Len(p)] # 0
    BY <1>4, <1>5, <2>1, <2>2
  <2>7. WithinBase(p)
    BY <2>2, <2>5, <2>6 DEF WithinBase
  <2> QED BY <2>3, <2>4, <2>7 DEF Between, p
<1> QED BY <1>3, <1>6, <1>7
=============================================================================
