---------------------------------- MODULE Decimal -------------------------------
(***************************************************************************)
(* Every short text put to the parser of Fixed, and every small value put  *)
(* to its printer.                                                         *)
(***************************************************************************)
EXTENDS Fixed, Sift

CONSTANTS
    Characters,     \* the characters a text may have
    MaxText,        \* bound on its length
    MaxValue        \* bound on a value's magnitude

\* A number behind Plus is any character that has no meaning in a number.
ASSUME DecimalAssumption ==
    /\ Characters \subseteq Nat
    /\ MaxText \in Nat /\ MaxValue \in Nat
    /\ MaxValue <= MaxInt

VARIABLES
    decText,        \* a text
    decValue        \* a value

decVars == <<decText, decValue>>

DecInit == decText = <<>> /\ decValue = -MaxValue

DecNext ==
    \/ \E c \in Characters :
        /\ Len(decText) < MaxText
        /\ decValue = -MaxValue
        /\ decText' = Append(decText, c)
        /\ UNCHANGED decValue
    \/ /\ decText = <<>>
       /\ decValue < MaxValue
       /\ decValue' = decValue + 1
       /\ UNCHANGED decText

--------------------------------------------------------------------------------
(* Properties.                                                             *)

\* A text is accepted just when it is digits with at most one point among them,
\* after at most one sign, no more of them behind the point than the scale
\* holds, and a value that can be held; and its value is all its digits read as
\* one number, at the scale of the digits behind the point ("exact", fixed.rs:
\* nothing is rounded).
ParseIsExact ==
    LET rest   == Unsigned(decText)
        digits == Sift(rest, Digits)
        behind == IF Contains(rest, Point) THEN Len(rest) - PointAt(rest) ELSE 0
        sign   == IF decText # <<>> /\ Head(decText) = Minus THEN -1 ELSE 1
        fits   == Value(digits) * E8 <= MaxInt * Ten[behind]
    IN  IF digits # <<>> /\ Len(rest) - Len(digits) = (IF Contains(rest, Point) THEN 1 ELSE 0)
           /\ behind <= E8Digits /\ fits
        THEN \E v \in Parse(decText) : v * Ten[behind] = sign * Value(digits) * E8
        ELSE Parse(decText) = {}

\* What is printed with all its decimals is read back as the same value, with
\* or without its trailing zeros.
PrintedIsReadBack ==
    /\ Parse(Format(decValue, E8Digits)) = {decValue}
    /\ Parse(Trim(Format(decValue, E8Digits))) = {decValue}

\* Printed with fewer decimals, a value is off by half a unit at most, and a
\* zero has no sign.
PrintedIsNearest ==
    \A decimals \in 0 .. E8Digits :
        \A v \in Parse(Format(decValue, decimals)) :
            /\ 2 * (v - decValue) \in -Ten[E8Digits - decimals] .. Ten[E8Digits - decimals]
            /\ v = 0 => Head(Format(decValue, decimals)) # Minus

\* The midpoint does not depend on the order of its prices, and lies between
\* them.
MidIsBetween ==
    \A other \in decValue - 3 .. decValue + 3 :
        LET mid == Mid(decValue, other)
        IN  /\ mid = Mid(other, decValue)
            /\ 2 * mid \in {decValue + other, decValue + other - 1}

\* What is parsed, printed and averaged says what was meant, to the digit.
NumbersAreExact == ParseIsExact /\ PrintedIsReadBack /\ PrintedIsNearest /\ MidIsBetween
================================================================================
