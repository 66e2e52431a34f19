---------------------------------- MODULE Fixed ---------------------------------
(***************************************************************************)
(* Prices and sizes as scaled integers (rust/ob/src/fixed.rs): midpoint,   *)
(* value, basis points, and the decimal text they are read from and        *)
(* printed as.  A text is a sequence of characters: a digit is its value,  *)
(* the point and the signs are the three numbers after the digits.         *)
(*                                                                         *)
(* The products, which the code clamps to 64 bits, are not clamped: the    *)
(* values they are taken of here are small.                                *)
(***************************************************************************)
EXTENDS Integers, Sequences, SequencesExt

CONSTANTS
    E8Digits,       \* digits of the scale: 8 in the code
    BpsScale,       \* hundredths of a basis point in one: 10^6 in the code
    MaxInt          \* the largest value a number can hold: 2^63 - 1 in the code

ASSUME FixedAssumption == E8Digits \in Nat \ {0} /\ BpsScale \in Nat \ {0} /\ MaxInt \in Nat

\* The powers of ten.
Ten[k \in Nat] == IF k = 0 THEN 1 ELSE 10 * Ten[k - 1]

E8 == Ten[E8Digits]

\* Integer division as the machine does it: towards zero.
Quotient(a, b) ==
    LET magnitude(x) == IF x < 0 THEN -x ELSE x
        q == magnitude(a) \div magnitude(b)
    IN  IF (a < 0) = (b < 0) THEN q ELSE -q

\* Price::mid: the lower of the two plus half of the gap, whichever is which.
Mid(p, q) == IF p <= q THEN p + (q - p) \div 2 ELSE q + (p - q) \div 2

\* Qty::notional_e8.
Notional(qty, price) == Quotient(qty * price, E8)

\* delta_bps_x100: a change against a reference, zero if there is no reference.
DeltaBps(delta, reference) ==
    IF reference = 0 THEN 0 ELSE Quotient(delta * BpsScale, reference)

\* Price::bps_x100_from.
BpsFrom(price, reference) == DeltaBps(price - reference, reference)

--------------------------------------------------------------------------------
(* Decimal text.                                                           *)

Digits == 0 .. 9
Point  == 10
Minus  == 11
Plus   == 12

Signed(text) == text # <<>> /\ Head(text) \in {Minus, Plus}

Unsigned(text) == IF Signed(text) THEN Tail(text) ELSE text

\* The value of a sequence of digits.
Value(digits) ==
    LET read[n \in 0 .. Len(digits)] == IF n = 0 THEN 0 ELSE 10 * read[n - 1] + digits[n]
    IN  read[Len(digits)]

\* The digits of a text in front of its first point, or behind it.
PointAt(text) == Min({i \in 1 .. Len(text) : text[i] = Point} \cup {Len(text) + 1})
Whole(text)    == SubSeq(text, 1, PointAt(text) - 1)
Fraction(text) == SubSeq(text, PointAt(text) + 1, Len(text))

\* A text of digits with at most one point and at least one digit, and no more
\* digits behind the point than the scale holds.
WellFormed(text) ==
    LET rest == Whole(Unsigned(text)) \o Fraction(Unsigned(text))
    IN  /\ rest # <<>>
        /\ \A i \in 1 .. Len(rest) : rest[i] \in Digits
        /\ Len(Fraction(Unsigned(text))) <= E8Digits

\* A variant that reads the fraction as it stands, without its zeros.
ParseShort(text) ==
    IF ~WellFormed(text) THEN {}
    ELSE LET magnitude == Value(Whole(Unsigned(text))) * E8 + Value(Fraction(Unsigned(text)))
         IN  {IF Head(text) = Minus THEN -magnitude ELSE magnitude}

\* parse_scaled: the set of the value, exact, or the empty set if it refuses a
\* text, or a number too large to hold.
Parse(text) ==
    IF ~WellFormed(text) THEN {}
    ELSE LET fraction  == Fraction(Unsigned(text))
             scaled    == Value(fraction) * Ten[E8Digits - Len(fraction)]
             magnitude == Value(Whole(Unsigned(text))) * E8 + scaled
         IN  IF magnitude > MaxInt THEN {}
             ELSE {IF Head(text) = Minus THEN -magnitude ELSE magnitude}

\* The digits of n, at least the given number of them.
DigitsOf(n, atLeast) ==
    LET length == CHOOSE c \in 1 .. n + 1 : n < Ten[c] /\ (c = 1 \/ Ten[c - 1] <= n)
        count  == Max({atLeast, length})
    IN  [i \in 1 .. count |-> (n \div Ten[count - i]) % 10]

\* format_scaled: rounded half away from zero, with a carry into the whole
\* part, and no sign in front of a zero.
Format(raw, decimals) ==
    LET magnitude == IF raw < 0 THEN -raw ELSE raw
        unit      == Ten[E8Digits - decimals]
        left      == magnitude % E8
        rounded   == (left \div unit) + (IF 2 * (left % unit) >= unit THEN 1 ELSE 0)
        carry     == rounded >= Ten[decimals]
        whole     == (magnitude \div E8) + (IF carry THEN 1 ELSE 0)
        fraction  == IF carry THEN 0 ELSE rounded
    IN  (IF raw < 0 /\ (whole # 0 \/ fraction # 0) THEN <<Minus>> ELSE <<>>)
        \o DigitsOf(whole, 1)
        \o (IF decimals > 0 THEN <<Point>> \o DigitsOf(fraction, decimals) ELSE <<>>)

\* trim_trailing_zeros of a text with a point: zeros at the end, then the point.
Trim(text) ==
    LET last == CHOOSE i \in 0 .. Len(text) :
                    /\ \A j \in i + 1 .. Len(text) : text[j] = 0
                    /\ i = 0 \/ text[i] # 0
    IN  IF ~Contains(text, Point) THEN text
        ELSE SubSeq(text, 1, IF text[last] = Point THEN last - 1 ELSE last)
================================================================================
