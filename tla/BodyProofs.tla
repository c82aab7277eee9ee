----------------------------- MODULE BodyProofs -----------------------------
(***************************************************************************)
(* What is proved about how bodies are read and compared: the canonical    *)
(* form of a number (NumberForm), for every JSON number and all caps, and  *)
(* what the client keeps of a body (BodyRead), for every limit.            *)
(*                                                                         *)
(* The form is held against SameNumber, which compares two literals digit  *)
(* by digit.  Between them stands a third notation: digits that begin and  *)
(* end with one that is not 0, and the place of the point (Significant).   *)
(* A literal has the digits of one such notation (KeptDigits), the plain   *)
(* decimal shows the same digits (PlainDigits), and no number has two      *)
(* (OneNotation).                                                          *)
(***************************************************************************)
EXTENDS NumberForm, BodyRead, SequenceTheorems, WellFoundedInduction, TLAPS

\* The digit at 10^k.
Digit(l, k) ==
    LET digits == l.int \o l.frac
        i == Len(l.int) + Exponent(l) - k
    IN  IF i \in DOMAIN digits THEN digits[i] ELSE 0

IsZero(l) == \A k \in Int : Digit(l, k) = 0

SameNumber(l, m) ==
    /\ \A k \in Int : Digit(l, k) = Digit(m, k)
    /\ IsZero(l) \/ l.neg = m.neg

-----------------------------------------------------------------------------
(* The ends of a set of positions.                                         *)

LessThan == {ss \in Nat \X Nat : ss[1] < ss[2]}

LEMMA HasMin ==
    ASSUME NEW S \in SUBSET Nat, S # {}
    PROVE  Min(S) \in S /\ \A y \in S : Min(S) <= y
  <1>1. IsWellFoundedOn(LessThan, Nat)
    BY NatLessThanWellFounded DEF LessThan, OpToRel
  <1>2. PICK x \in S : \A y \in S : ~(<<y, x>> \in LessThan)
    BY <1>1, WFMin
  <1>3. ASSUME NEW y \in S
        PROVE  x <= y
    <2>1. ~(<<y, x>> \in LessThan) /\ x \in Nat /\ y \in Nat
      BY <1>2
    <2> QED
      BY <2>1 DEF LessThan
  <1> QED
    BY <1>3 DEF Min

LEMMA HasMax ==
    ASSUME NEW n \in Nat, NEW S \in SUBSET (1..n), S # {}
    PROVE  Max(S) \in S /\ \A y \in S : Max(S) >= y
  <1> DEFINE T == {n - y : y \in S}
  <1>1. \A y \in S : y \in Int /\ n - y \in Nat
    OBVIOUS
  <1>2. T \in SUBSET Nat
    BY <1>1
  <1>3. T # {}
    OBVIOUS
  <1>4. Min(T) \in T /\ \A t \in T : Min(T) <= t
    BY <1>2, <1>3, HasMin
  <1>5. PICK x \in S : Min(T) = n - x
    BY <1>4
  <1>6. ASSUME NEW y \in S
        PROVE  x >= y
    <2>1. n - y \in T
      OBVIOUS
    <2>2. n - x <= n - y
      BY <1>4, <1>5, <2>1
    <2> QED
      BY <1>1, <2>2
  <1> QED
    BY <1>6 DEF Max

-----------------------------------------------------------------------------
(* The value of an exponent.                                               *)

LEMMA NatSets ==
    ASSUME NEW S, 0 \in S, \A n \in Nat : n \in S => n + 1 \in S
    PROVE  Nat \subseteq S
  <1> DEFINE T == {n \in Nat : n \notin S}
  <1> SUFFICES ASSUME T # {}
               PROVE  FALSE
    OBVIOUS
  <1>1. T \in SUBSET Nat
    OBVIOUS
  <1>2. Min(T) \in T /\ \A y \in T : Min(T) <= y
    BY <1>1, HasMin
  <1>3. PICK x \in T : \A y \in T : x <= y
    BY <1>2
  <1>4. x # 0 /\ x - 1 \in Nat /\ x - 1 \notin T
    BY <1>3
  <1>5. x - 1 + 1 \in S
    BY <1>4
  <1> QED
    BY <1>3, <1>5

UpToDigit(f, digits, n) == IF n = 0 THEN 0 ELSE 10 * f[n - 1] + digits[n]

LEMMA DecimalIsNat ==
    ASSUME NEW digits \in Seq(0..9)
    PROVE  Decimal(digits) \in Nat
  <1> DEFINE len == Len(digits)
             Def(f, d) == [i \in 0..d |-> UpToDigit(f, digits, i)]
             Is(f, d) == f = Def(f, d)
             S == {d \in Nat : \E f : Is(f, d)}
  <1>1. 0 \in S
    <2> DEFINE f == [i \in 0..0 |-> 0]
    <2>1. f = Def(f, 0)
      BY DEF UpToDigit
    <2> QED
      BY <2>1
  <1>2. ASSUME NEW d \in Nat, d \in S
        PROVE  d + 1 \in S
    <2>1. PICK f : f = Def(f, d)
      BY <1>2
    <2> DEFINE g == [i \in 0..(d + 1) |-> UpToDigit(f, digits, i)]
    <2>2. ASSUME NEW i \in 0..d
          PROVE  g[i] = f[i]
      BY <2>1
    <2>3. ASSUME NEW i \in 0..(d + 1)
          PROVE  UpToDigit(f, digits, i) = UpToDigit(g, digits, i)
      <3>1. i # 0 => i - 1 \in 0..d
        OBVIOUS
      <3> HIDE DEF g
      <3> QED
        BY <2>2, <3>1 DEF UpToDigit
    <2>4. g = Def(g, d + 1)
      BY <2>3
    <2> HIDE DEF g
    <2>5. \E f1 : Is(f1, d + 1)
      BY <2>4
    <2> HIDE DEF Is
    <2> QED
      BY <2>5
  <1> HIDE DEF S
  <1>3. len \in S
    BY <1>1, <1>2, NatSets
  <1> DEFINE g == CHOOSE f : Is(f, len)
  <1>4. Decimal(digits) = g[len]
    BY DEF Decimal, UpToDigit
  <1>5. \E f : Is(f, len)
    BY <1>3 DEF S
  <1> HIDE DEF Is
  <1>6. Is(g, len)
    BY <1>5
  <1> HIDE DEF g
  <1>7. g = Def(g, len)
    BY <1>6 DEF Is
  <1>8. \A i \in 0..len : g[i] = UpToDigit(g, digits, i)
    BY <1>7
  <1> DEFINE T == {i \in Nat : i \in 0..len => g[i] \in Nat}
  <1>9. 0 \in T
    BY <1>8 DEF UpToDigit
  <1>10. ASSUME NEW i \in Nat, i \in T
         PROVE  i + 1 \in T
    <2> SUFFICES ASSUME i + 1 \in 0..len
                 PROVE  g[i + 1] \in Nat
      OBVIOUS
    <2>1. i \in 0..len /\ i + 1 \in 1..Len(digits) /\ i + 1 # 0 /\ i + 1 - 1 = i
      OBVIOUS
    <2>2. g[i + 1] = 10 * g[i] + digits[i + 1]
      BY <1>8, <2>1 DEF UpToDigit
    <2>3. digits[i + 1] \in Nat
      <3>1. \A j \in 1..Len(digits) : digits[j] \in 0..9
        BY ElementOfSeq
      <3>2. digits[i + 1] \in 0..9
        BY <2>1, <3>1
      <3> QED
        BY <3>2
    <2>4. g[i] \in Nat
      BY <1>10, <2>1
    <2>5. \A a, b \in Nat : 10 * a + b \in Nat
      OBVIOUS
    <2>6. 10 * g[i] + digits[i + 1] \in Nat
      BY <2>3, <2>4, <2>5
    <2> QED
      BY <2>2, <2>6, Zenon
  <1> HIDE DEF T
  <1>11. Nat \subseteq T
    BY <1>9, <1>10, NatSets
  <1>12. len \in T /\ len \in 0..len
    BY <1>11
  <1> QED
    BY <1>4, <1>12 DEF T

LEMMA ExponentIsInt ==
    ASSUME NEW l \in JSONNumbers
    PROVE  Exponent(l) \in Int
  <1>1. CASE l.exp = <<>>
    BY <1>1 DEF Exponent
  <1>2. CASE l.exp # <<>>
    <2>1. l.exp \in Seq(Exponents)
      BY DEF JSONNumbers
    <2>2. l.exp[1] \in Exponents
      BY <1>2, <2>1
    <2>3. l.exp[1].digits \in Seq(0..9)
      BY <2>2 DEF Exponents
    <2>4. Decimal(l.exp[1].digits) \in Nat
      BY <2>3, DecimalIsNat
    <2> QED
      BY <1>2, <2>4 DEF Exponent
  <1> QED
    BY <1>1, <1>2

-----------------------------------------------------------------------------
(* Digits and their point.                                                 *)

Significant(digits, point) ==
    /\ digits \in Seq(0..9) /\ digits # <<>>
    /\ digits[1] # 0 /\ digits[Len(digits)] # 0
    /\ point \in Int

\* The digit at 10^k of 0.digits times 10^point.
DigitOf(digits, point, k) ==
    IF point - k \in 1..Len(digits) THEN digits[point - k] ELSE 0

LEMMA Joined ==
    ASSUME NEW s \in Seq(0..9), NEW t \in Seq(0..9)
    PROVE  /\ s \o t \in Seq(0..9)
           /\ Len(s \o t) = Len(s) + Len(t)
           /\ \A i \in 1..Len(s) : (s \o t)[i] = s[i]
           /\ \A i \in (Len(s) + 1)..(Len(s) + Len(t)) : (s \o t)[i] = t[i - Len(s)]
  <1>1. Len(s) \in Nat /\ Len(t) \in Nat
    OBVIOUS
  <1> QED
    BY <1>1, ConcatProperties

LEMMA ZerosAre ==
    ASSUME NEW n \in Nat
    PROVE  /\ Zeros(n) \in Seq(0..9) /\ Len(Zeros(n)) = n
           /\ \A i \in 1..n : Zeros(n)[i] = 0
  BY DEF Zeros

\* The digits of a plain decimal, before and after the point.
LEMMA DigitsOfPlain ==
    ASSUME NEW neg, NEW int \in Seq(0..9), NEW frac \in Seq(0..9), NEW k \in Int
    PROVE  Digit(Lit(neg, int, frac, <<>>), k) =
             IF Len(int) - k \in 1..Len(int) THEN int[Len(int) - k]
             ELSE IF -k \in 1..Len(frac) THEN frac[-k] ELSE 0
  <1> DEFINE l == Lit(neg, int, frac, <<>>)
             all == int \o frac
             n == Len(int)
             m == Len(frac)
             i == n - k
  <1>1. l.int = int /\ l.frac = frac /\ Exponent(l) = 0
    BY DEF Lit, Exponent
  <1>2. n \in Nat /\ m \in Nat
    OBVIOUS
  <1>3. /\ DOMAIN all = 1..(n + m)
        /\ \A j \in 1..n : all[j] = int[j]
        /\ \A j \in (n + 1)..(n + m) : all[j] = frac[j - n]
    BY Joined
  <1> HIDE DEF all, l, n, m
  <1>4. Digit(l, k) = IF i \in 1..(n + m) THEN all[i] ELSE 0
    <2>1. n + Exponent(l) - k = i
      BY <1>1, <1>2
    <2> QED
      BY <1>1, <1>3, <2>1 DEF Digit, n, all
  <1>5. i \in Int /\ i - n = -k
    BY <1>2
  <1> HIDE DEF i
  <1>6. Digit(l, k) = IF i \in 1..n THEN int[i]
                      ELSE IF i - n \in 1..m THEN frac[i - n] ELSE 0
    <2>1. CASE i \in 1..n
      BY <1>2, <1>3, <1>4, <2>1
    <2>2. CASE i \in (n + 1)..(n + m)
      BY <1>2, <1>3, <1>4, <1>5, <2>2
    <2>3. CASE i \notin 1..(n + m)
      BY <1>2, <1>3, <1>4, <1>5, <2>3
    <2> QED
      BY <1>2, <1>5, <2>1, <2>2, <2>3
  <1> QED
    BY <1>5, <1>6 DEF i, l, n, m

LEMMA PlainDigits ==
    ASSUME NEW neg \in BOOLEAN, NEW digits, NEW point,
           Significant(digits, point)
    PROVE  /\ Plain(neg, digits, point) \in JSONNumbers
           /\ Plain(neg, digits, point).neg = neg
           /\ \A k \in Int :
                 Digit(Plain(neg, digits, point), k) = DigitOf(digits, point, k)
  <1> DEFINE n == Len(digits)
             form == Plain(neg, digits, point)
             IsForm(int, frac) ==
               /\ form = Lit(neg, int, frac, <<>>)
               /\ int \in Seq(0..9) /\ frac \in Seq(0..9)
               /\ int # <<>> /\ (int[1] = 0 => Len(int) = 1)
               /\ \A k \in Int :
                     (IF Len(int) - k \in 1..Len(int) THEN int[Len(int) - k]
                      ELSE IF -k \in 1..Len(frac) THEN frac[-k] ELSE 0)
                     = DigitOf(digits, point, k)
  <1>1. digits \in Seq(0..9) /\ n \in Nat /\ n > 0 /\ point \in Int /\ digits[1] # 0
    BY DEF Significant
  <1>2. SUFFICES \E int, frac : IsForm(int, frac)
    <2>1. PICK int, frac : IsForm(int, frac)
      BY <1>2
    <2>2. form \in JSONNumbers /\ form.neg = neg
      BY <2>1 DEF JSONNumbers, IsJSONNumber, Lit
    <2>3. ASSUME NEW k \in Int
          PROVE  Digit(form, k) = DigitOf(digits, point, k)
      <3>1. Digit(Lit(neg, int, frac, <<>>), k) =
              IF Len(int) - k \in 1..Len(int) THEN int[Len(int) - k]
              ELSE IF -k \in 1..Len(frac) THEN frac[-k] ELSE 0
        BY <2>1, DigitsOfPlain
      <3> QED
        BY <2>1, <3>1
    <2> QED
      BY <2>2, <2>3
  <1>3. CASE point <= 0
    <2> DEFINE m == -point
               zeros == Zeros(m)
               frac == zeros \o digits
    <2>1. m \in Nat /\ m = -point
      BY <1>1, <1>3
    <2>2. zeros \in Seq(0..9) /\ Len(zeros) = m /\ \A i \in 1..m : zeros[i] = 0
      BY <2>1, ZerosAre
    <2>3. form = Lit(neg, <<0>>, frac, <<>>)
      BY <1>3 DEF Plain
    <2> HIDE DEF zeros, m, form
    <2>4. /\ frac \in Seq(0..9) /\ Len(frac) = m + n
          /\ \A i \in 1..m : frac[i] = 0
          /\ \A i \in (m + 1)..(m + n) : frac[i] = digits[i - m]
      <3>1. /\ frac \in Seq(0..9) /\ Len(frac) = Len(zeros) + n
            /\ \A i \in 1..Len(zeros) : frac[i] = zeros[i]
            /\ \A i \in (Len(zeros) + 1)..(Len(zeros) + n) :
                  frac[i] = digits[i - Len(zeros)]
        BY <1>1, <2>2, Joined
      <3> HIDE DEF frac, n
      <3> QED
        BY <2>2, <3>1
    <2> HIDE DEF frac, n
    <2>5. /\ <<0>> \in Seq(0..9) /\ Len(<<0>>) = 1
          /\ \A j \in 1..1 : <<0>>[j] = 0
      OBVIOUS
    <2>6. ASSUME NEW k \in Int
          PROVE  (IF 1 - k \in 1..1 THEN <<0>>[1 - k]
                  ELSE IF -k \in 1..(m + n) THEN frac[-k] ELSE 0)
                 = IF point - k \in 1..n THEN digits[point - k] ELSE 0
      <3> DEFINE j == -k
      <3>1. j \in Int /\ 1 - k = j + 1 /\ point - k = j - m
        BY <1>1, <2>1
      <3> HIDE DEF j
      <3>2. CASE j <= 0
        BY <1>1, <2>1, <2>5, <3>1, <3>2 DEF j
      <3>3. CASE j > 0 /\ j <= m
        BY <1>1, <2>1, <2>4, <3>1, <3>3 DEF j
      <3>4. CASE j > m
        BY <1>1, <2>1, <2>4, <3>1, <3>4 DEF j
      <3> QED
        BY <2>1, <3>1, <3>2, <3>3, <3>4
    <2>7. IsForm(<<0>>, frac)
      BY <2>3, <2>4, <2>5, <2>6 DEF DigitOf, n
    <2> QED
      BY <2>7
  <1>4. CASE point > 0 /\ point >= n
    <2> DEFINE m == point - n
               zeros == Zeros(m)
               int == digits \o zeros
    <2>1. m \in Nat /\ m + n = point
      BY <1>1, <1>4
    <2>2. zeros \in Seq(0..9) /\ Len(zeros) = m /\ \A i \in 1..m : zeros[i] = 0
      BY <2>1, ZerosAre
    <2>3. form = Lit(neg, int, <<>>, <<>>)
      BY <1>1, <1>4 DEF Plain
    <2> HIDE DEF zeros, m, form
    <2>4. /\ int \in Seq(0..9) /\ Len(int) = point
          /\ \A i \in 1..n : int[i] = digits[i]
          /\ \A i \in (n + 1)..point : int[i] = 0
      <3>1. /\ int \in Seq(0..9) /\ Len(int) = n + Len(zeros)
            /\ \A i \in 1..n : int[i] = digits[i]
            /\ \A i \in (n + 1)..(n + Len(zeros)) : int[i] = zeros[i - n]
        BY <1>1, <2>2, Joined
      <3> HIDE DEF int, n
      <3> QED
        BY <1>1, <2>1, <2>2, <3>1
    <2> HIDE DEF int, n
    <2>5. int # <<>> /\ int[1] # 0
      BY <1>1, <1>4, <2>4
    <2>6. ASSUME NEW k \in Int
          PROVE  (IF point - k \in 1..point THEN int[point - k]
                  ELSE IF -k \in 1..0 THEN <<>>[-k] ELSE 0)
                 = IF point - k \in 1..n THEN digits[point - k] ELSE 0
      <3> DEFINE j == point - k
      <3>1. j \in Int
        BY <1>1
      <3> HIDE DEF j
      <3>2. CASE j \in 1..n
        BY <1>1, <1>4, <2>4, <3>1, <3>2 DEF j
      <3>3. CASE j \notin 1..n
        BY <1>1, <1>4, <2>4, <3>1, <3>3 DEF j
      <3> QED
        BY <3>2, <3>3
    <2>7. IsForm(int, <<>>)
      BY <2>3, <2>4, <2>5, <2>6 DEF DigitOf, n
    <2> QED
      BY <2>7
  <1>5. CASE point > 0 /\ point < n
    <2> DEFINE int == SubSeq(digits, 1, point)
               frac == SubSeq(digits, point + 1, n)
    <2>1. form = Lit(neg, int, frac, <<>>)
      BY <1>1, <1>5 DEF Plain
    <2>2. /\ int \in Seq(0..9) /\ Len(int) = point
          /\ \A i \in 1..point : int[i] = digits[i]
      BY <1>1, <1>5, SubSeqProperties
    <2>3. /\ frac \in Seq(0..9) /\ Len(frac) = n - point
          /\ \A i \in 1..(n - point) : frac[i] = digits[point + i]
      BY <1>1, <1>5, SubSeqProperties
    <2> HIDE DEF int, frac, n, form
    <2>4. int # <<>> /\ int[1] # 0
      BY <1>1, <1>5, <2>2
    <2>5. ASSUME NEW k \in Int
          PROVE  (IF point - k \in 1..point THEN int[point - k]
                  ELSE IF -k \in 1..(n - point) THEN frac[-k] ELSE 0)
                 = IF point - k \in 1..n THEN digits[point - k] ELSE 0
      <3> DEFINE j == -k
      <3>1. j \in Int /\ point - k = point + j
        BY <1>1
      <3> HIDE DEF j
      <3>2. CASE j <= 0
        BY <1>1, <1>5, <2>2, <3>1, <3>2 DEF j
      <3>3. CASE j > 0
        BY <1>1, <1>5, <2>3, <3>1, <3>3 DEF j
      <3> QED
        BY <3>1, <3>2, <3>3
    <2>6. IsForm(int, frac)
      BY <2>1, <2>2, <2>3, <2>4, <2>5 DEF DigitOf, n
    <2> QED
      BY <2>6
  <1> QED
    BY <1>1, <1>3, <1>4, <1>5

-----------------------------------------------------------------------------
(* One notation for each number.                                           *)

Notation(l, digits, point) ==
    /\ Significant(digits, point)
    /\ \A k \in Int : Digit(l, k) = DigitOf(digits, point, k)

\* The digits that CanonicalNumber keeps are those the literal shows.
LEMMA KeptDigits ==
    ASSUME NEW l \in JSONNumbers, NonZero(l.int \o l.frac) # {}
    PROVE  LET digits == l.int \o l.frac
               first == First(digits)
           IN  Notation(l, SubSeq(digits, first, Max(NonZero(digits))),
                        Point(l, first))
  <1> DEFINE all == l.int \o l.frac
             n == Len(all)
             first == First(all)
             last == Max(NonZero(all))
             kept == SubSeq(all, first, last)
             point == Point(l, first)
             e == Len(l.int) + Exponent(l)
  <1>1. all \in Seq(0..9) /\ n \in Nat /\ DOMAIN all = 1..n
    BY Joined DEF JSONNumbers
  <1>2. Len(l.int) \in Int /\ Exponent(l) \in Int
    BY ExponentIsInt DEF JSONNumbers
  <1>3. \A k \in Int : Digit(l, k) = IF e - k \in 1..n THEN all[e - k] ELSE 0
    <2>1. \A k \in Int : Len(l.int) + (Exponent(l) - k) = e - k
      BY <1>2
    <2> HIDE DEF all, e, n
    <2> QED
      BY <1>1, <2>1 DEF Digit, all
  <1>4. e \in Int /\ (first \in Int => point = e - (first - 1))
    <2> HIDE DEF first
    <2> QED
      BY <1>2 DEF Point
  <1>5. NonZero(all) # {}
    OBVIOUS
  <1> HIDE DEF all, e, point, n
  <1>6. NonZero(all) = {i \in 1..n : all[i] # 0}
    BY <1>1 DEF NonZero
  <1>7. first \in NonZero(all) /\ \A i \in NonZero(all) : first <= i
    <2>1. NonZero(all) \in SUBSET Nat
      BY <1>6
    <2> QED
      BY <1>5, <2>1, HasMin DEF First
  <1>8. last \in NonZero(all) /\ \A i \in NonZero(all) : i <= last
    BY <1>1, <1>5, <1>6, HasMax
  <1> HIDE DEF first, last
  <1>9. /\ first \in 1..n /\ last \in first..n
        /\ all[first] # 0 /\ all[last] # 0
        /\ \A i \in 1..n : i \notin first..last => all[i] = 0
    BY <1>1, <1>6, <1>7, <1>8
  <1>10. /\ kept \in Seq(0..9) /\ Len(kept) = last - first + 1
         /\ \A i \in 1..(last - first + 1) : kept[i] = all[first + i - 1]
    <2>1. \A i \in 1..n : all[i] \in 0..9
      BY <1>1 DEF n
    <2>2. first \in Int /\ last \in Int /\ first <= last
      BY <1>1, <1>9
    <2>3. \A i \in first..last : all[i] \in 0..9
      BY <1>1, <1>9, <2>1
    <2> QED
      BY <2>2, <2>3, SubSeqProperties
  <1> HIDE DEF kept
  <1>11. Significant(kept, point)
    <2>1. kept[1] # 0 /\ kept[Len(kept)] # 0
      <3>1. /\ last - first + 1 \in Nat /\ last - first + 1 > 0
            /\ first + 1 - 1 = first
            /\ first + (last - first + 1) - 1 = last
        BY <1>1, <1>9
      <3> QED
        BY <1>9, <1>10, <3>1
    <2>2. kept # <<>> /\ point \in Int
      BY <1>1, <1>4, <1>9, <1>10
    <2> QED
      BY <1>10, <2>1, <2>2 DEF Significant
  <1>12. ASSUME NEW k \in Int
         PROVE  Digit(l, k) = DigitOf(kept, point, k)
    <2> DEFINE i == e - k
    <2>1. i \in Int /\ point - k = i - first + 1
      BY <1>1, <1>4, <1>9
    <2>2. Digit(l, k) = IF i \in 1..n THEN all[i] ELSE 0
      BY <1>3
    <2> HIDE DEF i
    <2>3. DigitOf(kept, point, k) =
            IF i - first + 1 \in 1..(last - first + 1)
            THEN kept[i - first + 1] ELSE 0
      BY <1>10, <2>1 DEF DigitOf
    <2>4. CASE i \in first..last
      BY <1>1, <1>9, <1>10, <2>1, <2>2, <2>3, <2>4
    <2>5. CASE i \notin first..last
      BY <1>1, <1>9, <2>1, <2>2, <2>3, <2>5
    <2> QED
      BY <2>4, <2>5
  <1> QED
    BY <1>11, <1>12 DEF Notation, all, first, last, kept, point

\* Where all kept digits are 0 so is the number, and conversely.
LEMMA ZeroDigits ==
    ASSUME NEW l \in JSONNumbers
    PROVE  IsZero(l) <=> NonZero(l.int \o l.frac) = {}
  <1> DEFINE all == l.int \o l.frac
             e == Len(l.int) + Exponent(l)
  <1>1. all \in Seq(0..9)
    BY Joined DEF JSONNumbers
  <1>2. Len(l.int) \in Int /\ Exponent(l) \in Int /\ e \in Int
    BY ExponentIsInt DEF JSONNumbers
  <1>3. \A k \in Int : Digit(l, k) = IF e - k \in DOMAIN all THEN all[e - k] ELSE 0
    <2>1. \A k \in Int : Len(l.int) + (Exponent(l) - k) = e - k
      BY <1>2
    <2> HIDE DEF all, e
    <2> QED
      BY <2>1 DEF Digit, all
  <1> HIDE DEF all, e
  <1>4. ASSUME NonZero(all) = {}
        PROVE  IsZero(l)
    BY <1>3, <1>4 DEF NonZero, IsZero
  <1>5. ASSUME IsZero(l), NEW i \in NonZero(all)
        PROVE  FALSE
    <2>1. i \in DOMAIN all /\ all[i] # 0 /\ i \in Int
      BY <1>1, <1>5 DEF NonZero
    <2>2. e - i \in Int /\ e - (e - i) = i
      BY <1>2, <2>1
    <2>3. Digit(l, e - i) = all[i]
      BY <1>3, <2>1, <2>2
    <2> QED
      BY <1>5, <2>1, <2>2, <2>3 DEF IsZero
  <1> QED
    BY <1>4, <1>5 DEF all

\* Digits that begin and end with one that is not 0 show where they are.
LEMMA OneNotation ==
    ASSUME NEW a, NEW p, Significant(a, p), NEW b, NEW q, Significant(b, q),
           \A k \in Int : DigitOf(a, p, k) = DigitOf(b, q, k)
    PROVE  a = b /\ p = q
  <1> DEFINE n == Len(a)
             m == Len(b)
  <1>1. /\ a \in Seq(0..9) /\ n \in Nat /\ n > 0 /\ p \in Int
        /\ b \in Seq(0..9) /\ m \in Nat /\ m > 0 /\ q \in Int
    BY DEF Significant
  <1>2. a[1] # 0 /\ a[n] # 0 /\ b[1] # 0 /\ b[m] # 0
    BY DEF Significant
  <1> HIDE DEF n, m
  <1>3. \A k \in Int : (IF p - k \in 1..n THEN a[p - k] ELSE 0)
                       = (IF q - k \in 1..m THEN b[q - k] ELSE 0)
    BY DEF DigitOf, n, m
  <1>4. p <= q /\ p - n >= q - m
    <2>1. (IF q - (p - 1) \in 1..m THEN b[q - (p - 1)] ELSE 0) = a[1]
      <3>1. p - 1 \in Int /\ p - (p - 1) = 1 /\ 1 \in 1..n
        BY <1>1
      <3> QED
        BY <1>3, <3>1
    <2>2. (IF q - (p - n) \in 1..m THEN b[q - (p - n)] ELSE 0) = a[n]
      <3>1. p - n \in Int /\ p - (p - n) = n /\ n \in 1..n
        BY <1>1
      <3> QED
        BY <1>3, <3>1
    <2>3. q - (p - 1) \in 1..m /\ q - (p - n) \in 1..m
      BY <1>2, <2>1, <2>2
    <2> QED
      BY <1>1, <2>3
  <1>5. q <= p /\ q - m >= p - n
    <2>1. (IF p - (q - 1) \in 1..n THEN a[p - (q - 1)] ELSE 0) = b[1]
      <3>1. q - 1 \in Int /\ q - (q - 1) = 1 /\ 1 \in 1..m
        BY <1>1
      <3> QED
        BY <1>3, <3>1
    <2>2. (IF p - (q - m) \in 1..n THEN a[p - (q - m)] ELSE 0) = b[m]
      <3>1. q - m \in Int /\ q - (q - m) = m /\ m \in 1..m
        BY <1>1
      <3> QED
        BY <1>3, <3>1
    <2>3. p - (q - 1) \in 1..n /\ p - (q - m) \in 1..n
      BY <1>2, <2>1, <2>2
    <2> QED
      BY <1>1, <2>3
  <1>6. p = q /\ n = m
    BY <1>1, <1>4, <1>5
  <1>7. ASSUME NEW i \in 1..n
        PROVE  a[i] = b[i]
    <2>1. p - i \in Int /\ p - (p - i) = i
      BY <1>1
    <2> QED
      BY <1>3, <1>6, <2>1
  <1>8. a = b
    BY <1>1, <1>6, <1>7, SeqEqual DEF n, m
  <1> QED
    BY <1>6, <1>8

-----------------------------------------------------------------------------
(* The form of a number.                                                   *)

Zero == Lit(FALSE, <<0>>, <<>>, <<>>)

LEMMA ZeroIsZero == Zero \in JSONNumbers /\ IsZero(Zero)
  <1> DEFINE neg == FALSE
             int == <<0>>
             frac == <<>>
  <1>1. /\ neg \in BOOLEAN
        /\ int \in Seq(0..9) /\ Len(int) = 1 /\ int # <<>> /\ int[1] = 0
        /\ frac \in Seq(0..9) /\ Len(frac) = 0 /\ frac \in Seq(Exponents)
    OBVIOUS
  <1>2. Zero = [neg |-> neg, int |-> int, frac |-> frac, exp |-> frac]
    BY DEF Zero, Lit
  <1>3. Zero = Lit(neg, int, frac, <<>>)
    BY DEF Zero
  <1> HIDE DEF neg, int, frac
  <1>4. Zero \in JSONNumbers
    <2>1. Zero \in [neg : BOOLEAN, int : Seq(0..9), frac : Seq(0..9),
                  exp : Seq(Exponents)]
      BY <1>1, <1>2
    <2>2. Zero.int = int /\ Zero.frac = frac /\ Zero.exp = frac
      BY <1>2
    <2>3. IsJSONNumber(Zero) /\ Len(Zero.exp) <= 1
      BY <1>1, <2>2 DEF IsJSONNumber
    <2> QED
      BY <2>1, <2>3 DEF JSONNumbers
  <1>5. ASSUME NEW k \in Int
        PROVE  Digit(Zero, k) = 0
    <2>1. Digit(Zero, k) = (IF 1 - k \in 1..1 THEN int[1 - k] ELSE 0)
      <3>1. Digit(Lit(neg, int, frac, <<>>), k) =
              IF Len(int) - k \in 1..Len(int) THEN int[Len(int) - k]
              ELSE IF -k \in 1..Len(frac) THEN frac[-k] ELSE 0
        BY <1>1, DigitsOfPlain
      <3>2. -k \notin 1..0
        OBVIOUS
      <3> QED
        BY <1>1, <1>3, <3>1, <3>2
    <2>2. CASE 1 - k \in 1..1
      <3>1. 1 - k = 1
        BY <2>2
      <3> QED
        BY <1>1, <2>1, <3>1
    <2> QED
      BY <2>1, <2>2
  <1> QED
    BY <1>4, <1>5 DEF IsZero

\* Every literal is rewritten, where it is, to a JSON number of the same value:
\* canonicalNumber is exact, for any caps.
THEOREM FormKeepsNumber ==
    ASSUME NEW l \in JSONNumbers
    PROVE  /\ CanonicalNumber(l) \in JSONNumbers
           /\ SameNumber(l, CanonicalNumber(l))
  <1> DEFINE all == l.int \o l.frac
             kept == SubSeq(all, First(all), Max(NonZero(all)))
             point == Point(l, First(all))
  <1>1. CASE Verbatim(l)
    BY <1>1 DEF CanonicalNumber, SameNumber
  <1>2. CASE ~Verbatim(l) /\ NonZero(all) = {}
    <2>1. CanonicalNumber(l) = Zero
      BY <1>2 DEF CanonicalNumber, Zero
    <2>2. IsZero(l)
      BY <1>2, ZeroDigits
    <2> QED
      BY <2>1, <2>2, ZeroIsZero DEF SameNumber, IsZero
  <1>3. CASE ~Verbatim(l) /\ NonZero(all) # {}
    <2>1. CanonicalNumber(l) = Plain(l.neg, kept, point)
      BY <1>3 DEF CanonicalNumber
    <2>2. Notation(l, kept, point)
      BY <1>3, KeptDigits
    <2> HIDE DEF kept, point
    <2>3. l.neg \in BOOLEAN
      BY DEF JSONNumbers
    <2> QED
      BY <2>1, <2>2, <2>3, PlainDigits DEF Notation, SameNumber
  <1> QED
    BY <1>1, <1>2, <1>3

\* Equal forms are equal numbers, the literals that are left as they are
\* included: no difference between two numbers is lost.
THEOREM EqualFormsEqualNumbers ==
    ASSUME NEW l \in JSONNumbers, NEW m \in JSONNumbers,
           CanonicalNumber(l) = CanonicalNumber(m)
    PROVE  SameNumber(l, m)
  <1> DEFINE form == CanonicalNumber(l)
  <1>1. SameNumber(l, form) /\ SameNumber(m, form)
    BY FormKeepsNumber
  <1> HIDE DEF form
  <1>2. \A k \in Int : Digit(l, k) = Digit(m, k)
    BY <1>1 DEF SameNumber
  <1>3. IsZero(l) <=> IsZero(m)
    BY <1>2 DEF IsZero
  <1> QED
    BY <1>1, <1>2, <1>3 DEF SameNumber

\* Equal numbers have one form, however they are spelled, unless one of them
\* is longer than the caps allow: no difference is reported that is none.
THEOREM EqualNumbersEqualForms ==
    ASSUME NEW l \in JSONNumbers, NEW m \in JSONNumbers,
           ~Verbatim(l), ~Verbatim(m), SameNumber(l, m)
    PROVE  CanonicalNumber(l) = CanonicalNumber(m)
  <1> DEFINE allL == l.int \o l.frac
             allM == m.int \o m.frac
             keptL == SubSeq(allL, First(allL), Max(NonZero(allL)))
             keptM == SubSeq(allM, First(allM), Max(NonZero(allM)))
             pointL == Point(l, First(allL))
             pointM == Point(m, First(allM))
  <1>1. IsZero(l) <=> IsZero(m)
    BY DEF SameNumber, IsZero
  <1>2. (IsZero(l) <=> NonZero(allL) = {}) /\ (IsZero(m) <=> NonZero(allM) = {})
    BY ZeroDigits
  <1>3. CASE IsZero(l)
    BY <1>1, <1>2, <1>3 DEF CanonicalNumber
  <1>4. CASE ~IsZero(l)
    <2>1. /\ CanonicalNumber(l) = Plain(l.neg, keptL, pointL)
          /\ CanonicalNumber(m) = Plain(m.neg, keptM, pointM)
      BY <1>1, <1>2, <1>4 DEF CanonicalNumber
    <2>2. Notation(l, keptL, pointL) /\ Notation(m, keptM, pointM)
      BY <1>1, <1>2, <1>4, KeptDigits
    <2> HIDE DEF keptL, keptM, pointL, pointM
    <2>3. \A k \in Int : DigitOf(keptL, pointL, k) = DigitOf(keptM, pointM, k)
      BY <2>2 DEF Notation, SameNumber
    <2>4. keptL = keptM /\ pointL = pointM
      BY <2>2, <2>3, OneNotation DEF Notation
    <2>5. l.neg = m.neg
      BY <1>4 DEF SameNumber
    <2> QED
      BY <2>1, <2>4, <2>5
  <1> QED
    BY <1>3, <1>4

-----------------------------------------------------------------------------
(* Value, which TLC can compute, is the number that the digits say.        *)

LEMMA DigitsSaid ==
    ASSUME NEW l \in JSONNumbers
    PROVE  /\ \A x \in Digits(l) : \E k \in Int : x = <<k, Digit(l, k)>>
           /\ \A k \in Int : <<k, Digit(l, k)>> \in Digits(l) <=> Digit(l, k) # 0
  <1> DEFINE all == l.int \o l.frac
             e == Len(l.int) + Exponent(l)
  <1>1. all \in Seq(0..9)
    BY Joined DEF JSONNumbers
  <1>2. Len(l.int) \in Int /\ Exponent(l) \in Int /\ e \in Int
    BY ExponentIsInt DEF JSONNumbers
  <1>3. \A k \in Int : Digit(l, k) = IF e - k \in DOMAIN all THEN all[e - k] ELSE 0
    <2>1. \A k \in Int : Len(l.int) + (Exponent(l) - k) = e - k
      BY <1>2
    <2> HIDE DEF all, e
    <2> QED
      BY <2>1 DEF Digit, all
  <1>4. Digits(l) = {<<e - i, all[i]>> : i \in NonZero(all)}
    <2>1. \A i \in Int : Len(l.int) + (Exponent(l) - i) = e - i
      BY <1>2
    <2> HIDE DEF all, e
    <2>2. NonZero(all) \subseteq Int
      BY <1>1 DEF NonZero
    <2> QED
      BY <2>1, <2>2 DEF Digits, all
  <1> HIDE DEF all, e
  <1>5. ASSUME NEW i \in NonZero(all)
        PROVE  e - i \in Int /\ Digit(l, e - i) = all[i]
    <2>1. i \in DOMAIN all /\ i \in Int
      BY <1>1 DEF NonZero
    <2>2. e - i \in Int /\ e - (e - i) = i
      BY <1>2, <2>1
    <2> QED
      BY <1>3, <2>1, <2>2
  <1>6. ASSUME NEW x \in Digits(l)
        PROVE  \E k \in Int : x = <<k, Digit(l, k)>>
    BY <1>4, <1>5
  <1>7. ASSUME NEW k \in Int, <<k, Digit(l, k)>> \in Digits(l)
        PROVE  Digit(l, k) # 0
    <2>1. PICK i \in NonZero(all) : <<k, Digit(l, k)>> = <<e - i, all[i]>>
      BY <1>4, <1>7
    <2> QED
      BY <2>1 DEF NonZero
  <1>8. ASSUME NEW k \in Int, Digit(l, k) # 0
        PROVE  <<k, Digit(l, k)>> \in Digits(l)
    <2>1. e - k \in NonZero(all) /\ Digit(l, k) = all[e - k]
      BY <1>3, <1>8 DEF NonZero
    <2>2. e - (e - k) = k
      BY <1>2
    <2> QED
      BY <1>4, <2>1, <2>2
  <1> QED
    BY <1>6, <1>7, <1>8

LEMMA ValueIsNumber ==
    ASSUME NEW l \in JSONNumbers, NEW m \in JSONNumbers
    PROVE  Value(l) = Value(m) <=> SameNumber(l, m)
  <1>1. ASSUME NEW x \in JSONNumbers, NEW y \in JSONNumbers, Digits(x) \subseteq Digits(y),
               NEW k \in Int, Digit(x, k) # 0
        PROVE  Digit(x, k) = Digit(y, k)
    <2>1. <<k, Digit(x, k)>> \in Digits(y)
      BY <1>1, DigitsSaid
    <2>2. PICK j \in Int : <<k, Digit(x, k)>> = <<j, Digit(y, j)>>
      BY <2>1, DigitsSaid
    <2> QED
      BY <2>2
  <1>2. ASSUME NEW x \in JSONNumbers, NEW y \in JSONNumbers,
               \A k \in Int : Digit(x, k) = Digit(y, k)
        PROVE  Digits(x) \subseteq Digits(y)
    BY <1>2, DigitsSaid
  <1>3. Digits(l) = Digits(m) <=> \A k \in Int : Digit(l, k) = Digit(m, k)
    <2>1. ASSUME Digits(l) = Digits(m), NEW k \in Int
          PROVE  Digit(l, k) = Digit(m, k)
      <3>1. Digit(l, k) # 0 => Digit(l, k) = Digit(m, k)
        BY <1>1, <2>1
      <3>2. Digit(m, k) # 0 => Digit(m, k) = Digit(l, k)
        BY <1>1, <2>1
      <3> QED
        BY <3>1, <3>2
    <2> QED
      BY <1>2, <2>1
  <1>4. ASSUME NEW x \in JSONNumbers
        PROVE  Digits(x) = {} <=> IsZero(x)
    BY DigitsSaid DEF IsZero
  <1>5. l.neg \in BOOLEAN /\ m.neg \in BOOLEAN
    BY DEF JSONNumbers
  <1>6. Value(l) = Value(m)
        <=> Digits(l) = Digits(m) /\ (Digits(l) # {} => l.neg = m.neg)
    <2>1. Value(l) = Value(m) <=>
            (l.neg /\ Digits(l) # {}) = (m.neg /\ Digits(m) # {}) /\ Digits(l) = Digits(m)
      BY DEF Value
    <2> QED
      BY <1>5, <2>1
  <1> QED
    BY <1>3, <1>4, <1>6 DEF SameNumber

-----------------------------------------------------------------------------
(* What the client keeps of a body.                                        *)

\* A body is kept whole and unpacked, or the attempt is oversize; and it is
\* oversize only for a body that is longer than the limit, packed or unpacked.
THEOREM KeptIsWhole ==
    ASSUME NEW documents, NEW packings, NEW claims,
           NEW r \in Responses(documents, packings, claims)
    PROVE  IF Oversize(r) THEN Wire(r).len > MaxBody \/ Whole(r).len > MaxBody
           ELSE Kept(r) = Whole(r)
  <1>1. MaxBody \in Nat /\ r.size \in Nat /\ r.packed \in Nat
    BY MaxBodyAssumption DEF Responses
  <1>2. ASSUME NEW b, NEW doc, NEW packing, NEW len \in Nat,
               b = [doc |-> doc, packing |-> packing, len |-> len]
        PROVE  /\ TooLarge(Take(b)) <=> b.len > MaxBody
               /\ ~TooLarge(Take(b)) => Take(b) = b
    BY <1>1, <1>2 DEF Take, TooLarge, Shorter
  <1>3. /\ TooLarge(Take(Wire(r))) <=> Wire(r).len > MaxBody
        /\ ~TooLarge(Take(Wire(r))) => Take(Wire(r)) = Wire(r)
    BY <1>1, <1>2 DEF Wire
  <1>4. /\ TooLarge(Take(Unpacked(r))) <=> Unpacked(r).len > MaxBody
        /\ ~TooLarge(Take(Unpacked(r))) => Take(Unpacked(r)) = Unpacked(r)
    BY <1>1, <1>2 DEF Unpacked
  <1> QED
    BY <1>3, <1>4 DEF Oversize, Kept, Whole

=============================================================================
