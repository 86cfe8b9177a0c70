----------------------------- MODULE KKPayload -----------------------------
(***************************************************************************)
(* How the fields of a message (class KKPayload) and of a character        *)
(* (encodeCrdtChar) are written one after the other: each after its        *)
(* length, a number of Width digits.  Text is a sequence of symbols: the   *)
(* digits 0, 1, ... and Letter, any other.                                 *)
(***************************************************************************)
EXTENDS Integers, SequencesExt

CONSTANTS
  Width,    \* digits of a length, 3 in the code
  Radix     \* 10 in the code

ASSUME WidthAssumption == Width \in Nat \ {0}
ASSUME RadixAssumption == Radix \in Nat \ {0, 1}

Letter == -1

\* QString::arg of a number: at least Width digits, more if it needs more.
\* (Variant: as many as it needs.)
Digits(n) ==
  LET digits[k \in Nat] == IF k < Radix THEN <<k>>
                           ELSE Append(digits[k \div Radix], k % Radix)
  IN  digits[n]
PaddedNot(n) == Digits(n)
Padded(n) ==
  LET missing == Width - Len(Digits(n))
  IN  [i \in 1..missing |-> 0] \o Digits(n)

\* QString::toInt: 0 for what is no number.
Number(s) ==
  IF \E i \in DOMAIN s : s[i] = Letter THEN 0
  ELSE FoldLeft(LAMBDA n, digit : n * Radix + digit, 0, s)

\* QString::mid, from 0.
Mid(s, from, n) == SubSeq(s, from + 1, IF n < 0 \/ from + n > Len(s) THEN Len(s) ELSE from + n)

\* The constructor; encode adds the end, a length of 0.
Written(fields) == FoldLeft(LAMBDA body, f : body \o Padded(Len(f)) \o f, <<>>, fields)
Encoded(fields) == Written(fields) \o [i \in 1..Width |-> 0]

\* The loop of getBodyList and decodeCrdtChar.
Read(body) ==
  LET from[start \in Nat] ==
        LET n    == Number(Mid(body, start, Width))
            next == start + Width + n
        IN  <<Mid(body, start + Width, n)>>
              \o IF next < Len(body) THEN from[next] ELSE <<>>
  IN  from[0]

\* getBodyList: empty fields, and the end, are passed over; decodeCrdtChar
\* keeps them.  (Variant: so does getBodyList.)
BodyListWhole(body) == Read(body)
BodyList(body) == SelectSeq(Read(body), LAMBDA f : f # <<>>)

\* A length can say this (kk_payload.cpp:22 does not ask).
Fits(f) == Len(f) < Radix ^ Width
=============================================================================
