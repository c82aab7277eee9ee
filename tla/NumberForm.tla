----------------------------- MODULE NumberForm -----------------------------
(***************************************************************************)
(* The canonical form of a JSON number: canonicalNumber of                 *)
(* internal/fingerprint/normalize.go.  A literal is its sign, its digits   *)
(* before and after the point, and its exponent, if it has one, as it is   *)
(* written: with e or E, a sign or none, and its digits.                   *)
(*                                                                         *)
(* A definition named X_Y is X with the fault Y seeded: no specification   *)
(* uses it; it shows which property notices that fault.                    *)
(***************************************************************************)
EXTENDS Integers, Sequences, FiniteSetsExt

CONSTANTS
    MaxLiteral,     \* maxNumericLiteral
    MaxExponent     \* the largest exponent that is expanded

ASSUME CapsAssumption == MaxLiteral \in Nat /\ MaxExponent \in Nat

Lit(neg, int, frac, exp) ==
    [neg |-> neg, int |-> int, frac |-> frac, exp |-> exp]

Exp(mark, sign, digits) == [mark |-> mark, sign |-> sign, digits |-> digits]

Zeros(n) == [i \in 1..n |-> 0]

\* The characters of the literal: sign, digits, point, and e with its sign and
\* its digits.
Length(l) ==
    (IF l.neg THEN 1 ELSE 0) + Len(l.int)
    + (IF l.frac = <<>> THEN 0 ELSE 1 + Len(l.frac))
    + (IF l.exp = <<>> THEN 0
       ELSE (IF l.exp[1].sign = "none" THEN 1 ELSE 2) + Len(l.exp[1].digits))

\* strconv.Atoi: the number that digits say; upTo[n] is what the first n say.
Decimal(digits) ==
    LET upTo[n \in 0..Len(digits)] ==
            IF n = 0 THEN 0 ELSE 10 * upTo[n - 1] + digits[n]
    IN  upTo[Len(digits)]

\* What Atoi refuses for its size is far beyond MaxExponent.
Exponent(l) ==
    IF l.exp = <<>> THEN 0
    ELSE IF l.exp[1].sign = "minus" THEN -Decimal(l.exp[1].digits)
    ELSE Decimal(l.exp[1].digits)

\* Literals that are compared as they are written.
Verbatim(l) ==
    \/ Length(l) > MaxLiteral
    \/ Exponent(l) > MaxExponent \/ Exponent(l) < -MaxExponent

NonZero(digits) == {i \in DOMAIN digits : digits[i] # 0}

First_LeadKept(digits) == 1
First(digits) == Min(NonZero(digits))

\* Where the point is, counted from the first digit that is kept.
Point_LeadForgotten(l, first) == Len(l.int) + Exponent(l)
Point(l, first) == Len(l.int) + Exponent(l) - (first - 1)

\* The digits as a plain decimal.
Plain(neg, digits, point) ==
    IF point <= 0 THEN Lit(neg, <<0>>, Zeros(-point) \o digits, <<>>)
    ELSE IF point >= Len(digits)
         THEN Lit(neg, digits \o Zeros(point - Len(digits)), <<>>, <<>>)
    ELSE Lit(neg, SubSeq(digits, 1, point),
             SubSeq(digits, point + 1, Len(digits)), <<>>)

\* The integer shortcuts of the code give this same form.
CanonicalNumber(l) ==
    LET digits == l.int \o l.frac
        first == First(digits)
    IN  IF Verbatim(l) THEN l
        ELSE IF NonZero(digits) = {} THEN Lit(FALSE, <<0>>, <<>>, <<>>)
        ELSE Plain(l.neg, SubSeq(digits, first, Max(NonZero(digits))),
                   Point(l, first))

-----------------------------------------------------------------------------
(* What the decoder accepts as a number, and the number it says, defined   *)
(* digit by digit: two decimals are equal exactly when they have the same  *)
(* digit at each power of ten, and the same sign unless they are zero.     *)

IsJSONNumber(l) ==
    /\ l.int \in Seq(0..9) /\ l.frac \in Seq(0..9)
    /\ l.int # <<>> /\ (l.int[1] = 0 => Len(l.int) = 1)

Exponents ==
    [mark : {"e", "E"}, sign : {"none", "plus", "minus"},
     digits : Seq(0..9) \ {<<>>}]

\* What json.Number can hold.
JSONNumbers ==
    {l \in [neg : BOOLEAN, int : Seq(0..9), frac : Seq(0..9), exp : Seq(Exponents)] :
        IsJSONNumber(l) /\ Len(l.exp) <= 1}

\* The digits that are not 0, with their powers of ten.
Digits(l) ==
    LET all == l.int \o l.frac
    IN  {<<Len(l.int) + Exponent(l) - i, all[i]>> : i \in NonZero(all)}

Value(l) == [neg |-> l.neg /\ Digits(l) # {}, digits |-> Digits(l)]

=============================================================================
