---------------------------- MODULE NumberProofs ----------------------------
(* Theorems about the answers of Library: the classes and the roots of     *)
(* floats of any width, numerals of any length and the ints they are, and  *)
(* the searches for a needle of any length in a haystack of any length.    *)
EXTENDS LibraryProofs

-----------------------------------------------------------------------------
(* The powers of two, as the recursion defines them. *)
LEMMA TwoToIs ==
    /\ TwoTo \in [Nat -> Nat] /\ TwoTo[0] = 1
    /\ \A n \in Nat : TwoTo[n + 1] = 2 * TwoTo[n]
<1> DEFINE h == [i \in Nat \ {0} |-> [x \in Nat |-> 2 * x]]
           is(f) == f = [n \in Nat |-> IF n = 0 THEN 1 ELSE 2 * f[n - 1]]
<1>1. h \in [Nat \ {0} -> [Nat -> Nat]] /\ 1 \in Nat
  OBVIOUS
<1>2. \A i \in Nat \ {0}, x \in Nat : h[i][x] = 2 * x
  OBVIOUS
<1> HIDE DEF h
<1>3. PICK f : FollowsOn(f, Nat, 1, h)
  BY <1>1, RecursionOnNat
<1>4. f \in [Nat -> Nat] /\ f[0] = 1 /\ \A i \in Nat \ {0} : f[i] = h[i][f[i - 1]]
  BY <1>3 DEF FollowsOn
<1>5. \A i \in Nat \ {0} : f[i] = 2 * f[i - 1]
  BY <1>2, <1>4
<1>6. is(f)
  BY <1>4, <1>5
<1>7. TwoTo = CHOOSE g : is(g)
  BY DEF TwoTo
<1> HIDE DEF is
<1>8. is(TwoTo)
  BY <1>6, <1>7
<1>9. TwoTo = [n \in Nat |-> IF n = 0 THEN 1 ELSE 2 * TwoTo[n - 1]]
  BY <1>8 DEF is
<1>10. TwoTo[0] = 1 /\ \A n \in Nat : TwoTo[n + 1] = 2 * TwoTo[n]
  <2>1. \A n \in Nat : TwoTo[n] = IF n = 0 THEN 1 ELSE 2 * TwoTo[n - 1]
    BY <1>9
  <2>2. QED
    BY <2>1
<1>11. \A n \in Nat : TwoTo[n] \in Nat
  <2> DEFINE S == {n \in Nat : TwoTo[n] \in Nat}
  <2> SUFFICES ASSUME NEW n \in Nat PROVE n \in S
    OBVIOUS
  <2>1. 0 \in S /\ \A i \in 1 .. n : i - 1 \in S => i \in S
    BY <1>10
  <2> HIDE DEF S
  <2>2. QED
    BY <2>1, InductionUpTo
<1>12. DOMAIN TwoTo = Nat
  BY <1>9, Zenon
<1>13. TwoTo = [n \in Nat |-> TwoTo[n]]
  BY <1>9, Zenon
<1>14. QED
  BY <1>10, <1>11, <1>13

LEMMA TwoToPositive == \A n \in Nat : TwoTo[n] \in Nat \ {0}
<1> SUFFICES ASSUME NEW n \in Nat PROVE TwoTo[n] \in Nat \ {0}
  OBVIOUS
<1> DEFINE S == {i \in Nat : TwoTo[i] # 0}
<1>1. 0 \in S /\ \A i \in 1 .. n : i - 1 \in S => i \in S
  <2>1. 0 \in S
    BY TwoToIs
  <2>2. ASSUME NEW i \in 1 .. n, i - 1 \in S PROVE i \in S
    <3>1. TwoTo[(i - 1) + 1] = 2 * TwoTo[i - 1] /\ TwoTo[i - 1] \in Nat /\ (i - 1) + 1 = i
      BY TwoToIs
    <3>2. QED
      BY <2>2, <3>1
  <2>3. QED
    BY <2>1, <2>2
<1>2. n \in S
  <2> HIDE DEF S
  <2>1. QED
    BY <1>1, InductionUpTo
<1>3. QED
  BY <1>2, TwoToIs

LEMMA TwoToAdds == \A m, n \in Nat : TwoTo[m + n] = TwoTo[m] * TwoTo[n]
<1> SUFFICES ASSUME NEW m \in Nat, NEW n \in Nat PROVE TwoTo[m + n] = TwoTo[m] * TwoTo[n]
  OBVIOUS
<1> DEFINE S == {i \in Nat : TwoTo[m + i] = TwoTo[m] * TwoTo[i]}
<1>1. 0 \in S
  BY TwoToIs
<1>2. ASSUME NEW i \in 1 .. n, i - 1 \in S PROVE i \in S
  <2> DEFINE a == TwoTo[m]
             b == TwoTo[i - 1]
  <2>1. TwoTo[(i - 1) + 1] = 2 * b /\ (i - 1) + 1 = i
    BY TwoToIs
  <2>2. TwoTo[(m + (i - 1)) + 1] = 2 * TwoTo[m + (i - 1)] /\ (m + (i - 1)) + 1 = m + i
    BY TwoToIs
  <2>3. TwoTo[m + (i - 1)] = a * b
    BY <1>2
  <2>4. a \in Nat /\ b \in Nat
    BY TwoToIs
  <2> HIDE DEF a, b
  <2>5. 2 * (a * b) = a * (2 * b)
    BY <2>4
  <2>6. TwoTo[m + i] = a * TwoTo[i]
    BY <2>1, <2>2, <2>3, <2>5
  <2>7. QED
    BY <2>6 DEF a
<1>3. n \in S
  <2> HIDE DEF S
  <2>1. QED
    BY <1>1, <1>2, InductionUpTo
<1>4. QED
  BY <1>3

(* A product is below another when one factor is. *)
LEMMA TimesOrder ==
    ASSUME NEW k \in Nat, NEW a \in Int, NEW b \in Int, a <= b
    PROVE  k * a <= k * b
  BY SMT

LEMMA TwoToGrows == \A m, n \in Nat : m <= n => TwoTo[m] <= TwoTo[n]
<1> SUFFICES ASSUME NEW m \in Nat, NEW n \in Nat, m <= n PROVE TwoTo[m] <= TwoTo[n]
  OBVIOUS
<1>1. n - m \in Nat /\ m + (n - m) = n
  OBVIOUS
<1>2. TwoTo[n] = TwoTo[m] * TwoTo[n - m]
  BY <1>1, TwoToAdds
<1>3. TwoTo[m] \in Nat /\ TwoTo[n - m] \in Nat \ {0}
  BY <1>1, TwoToPositive, TwoToIs
<1>4. TwoTo[m] * 1 <= TwoTo[m] * TwoTo[n - m]
  BY <1>3, TimesOrder
<1>5. QED
  BY <1>2, <1>3, <1>4

-----------------------------------------------------------------------------
(* The fields of a pattern: E exponents, H mantissas. *)
Exponents == TwoTo[ExpBits]

LEMMA Widths ==
    /\ Hidden \in Nat \ {0} /\ Exponents \in Nat \ {0} /\ Exponents >= 4
    /\ MaxExp = Exponents - 1 /\ 2 * (Bias + 1) = Exponents /\ Bias \in Nat
    /\ Hidden >= 2 /\ \E h \in Nat : Hidden = 2 * h
    /\ TwoTo[ExpBits + MantBits] = Exponents * Hidden
    /\ TwoTo[1 + ExpBits + MantBits] = 2 * (Exponents * Hidden)
<1>1. /\ ExpBits \in Nat /\ MantBits \in Nat /\ ExpBits - 1 \in Nat /\ ExpBits - 2 \in Nat
      /\ MantBits - 1 \in Nat
  BY WidthAssumption
<1>2. Hidden \in Nat \ {0} /\ Exponents \in Nat \ {0}
  BY <1>1, TwoToPositive DEF Hidden, Exponents
<1>3. /\ TwoTo[(ExpBits - 1) + 1] = 2 * TwoTo[ExpBits - 1] /\ (ExpBits - 1) + 1 = ExpBits
      /\ TwoTo[(ExpBits - 2) + 1] = 2 * TwoTo[ExpBits - 2] /\ (ExpBits - 2) + 1 = ExpBits - 1
      /\ TwoTo[(MantBits - 1) + 1] = 2 * TwoTo[MantBits - 1] /\ (MantBits - 1) + 1 = MantBits
  BY <1>1, TwoToIs
<1>4. TwoTo[ExpBits - 1] \in Nat \ {0} /\ TwoTo[ExpBits - 2] \in Nat \ {0} /\ TwoTo[MantBits - 1] \in Nat \ {0}
  BY <1>1, TwoToPositive
<1>5. Exponents >= 4 /\ 2 * (Bias + 1) = Exponents /\ Bias \in Nat
  BY <1>3, <1>4 DEF Bias, Exponents
<1>6. Hidden = 2 * TwoTo[MantBits - 1]
  BY <1>3 DEF Hidden
<1>7. Hidden >= 2 /\ \E h \in Nat : Hidden = 2 * h
  BY <1>4, <1>6
<1>8. TwoTo[ExpBits + MantBits] = Exponents * Hidden
  BY <1>1, TwoToAdds DEF Exponents, Hidden
<1>9. TwoTo[1 + ExpBits + MantBits] = 2 * (Exponents * Hidden)
  <2>1. 1 + ExpBits + MantBits = (ExpBits + MantBits) + 1 /\ ExpBits + MantBits \in Nat
    BY <1>1
  <2>2. QED
    BY <1>8, <2>1, TwoToIs
<1>10. QED
  BY <1>2, <1>5, <1>7, <1>8, <1>9 DEF MaxExp, Exponents

(* The fields e and m of b, whose sign is s. *)
FieldsOf(b, s, e, m) ==
    /\ s \in {0, 1} /\ e \in 0 .. MaxExp /\ m \in 0 .. Hidden - 1
    /\ b = s * (Exponents * Hidden) + (e * Hidden + m)
    /\ e * Hidden + m \in Nat /\ e * Hidden + m < Exponents * Hidden
    /\ SignBit(b) = s /\ Magnitude(b) = e * Hidden + m /\ Exponent(b) = e /\ Mantissa(b) = m

LEMMA PatternFields ==
    ASSUME NEW b \in Patterns
    PROVE  FieldsOf(b, SignBit(b), Exponent(b), Mantissa(b)) /\ b \in Nat
<1> DEFINE K == Exponents * Hidden
           s == b \div K
           mag == b % K
           e == mag \div Hidden
           m == mag % Hidden
<1>1. Hidden \in Nat \ {0} /\ Exponents \in Nat \ {0} /\ MaxExp = Exponents - 1
  BY Widths
<1>2. K \in Nat \ {0} /\ b \in Nat /\ b < 2 * K
  <2>1. Exponents * Hidden \in Nat \ {0}
    BY <1>1
  <2>2. Patterns = 0 .. 2 * K - 1
    BY Widths DEF Patterns
  <2> HIDE DEF K
  <2>3. QED
    BY <2>1, <2>2 DEF K
<1>3. b = K * s + mag /\ mag \in Nat /\ mag < K /\ s \in Int
  <2> HIDE DEF K
  <2>1. QED
    BY <1>2, Division
<1>4. s \in {0, 1}
  <2> HIDE DEF K, s, mag
  <2>1. s >= 0
    <3> SUFFICES ASSUME s <= -1 PROVE FALSE
      BY <1>3
    <3>1. K * s <= K * (-1)
      BY <1>2, <1>3, TimesOrder
    <3>2. QED
      BY <1>2, <1>3, <3>1
  <2>2. s <= 1
    <3> SUFFICES ASSUME s >= 2 PROVE FALSE
      BY <1>3
    <3>1. K * 2 <= K * s
      BY <1>2, <1>3, TimesOrder
    <3>2. QED
      BY <1>2, <1>3, <3>1
  <2>3. QED
    BY <1>3, <2>1, <2>2
<1>5. mag = Hidden * e + m /\ m \in Nat /\ m < Hidden /\ e \in Int
  <2> HIDE DEF mag
  <2>1. QED
    BY <1>1, <1>3, Division
<1>6. e \in 0 .. MaxExp
  <2> HIDE DEF s, mag, e, m
  <2>1. e >= 0
    <3> SUFFICES ASSUME e <= -1 PROVE FALSE
      BY <1>5
    <3>1. Hidden * e <= Hidden * (-1)
      BY <1>1, <1>5, TimesOrder
    <3>2. QED
      BY <1>1, <1>3, <1>5, <3>1
  <2>2. e < Exponents
    <3> SUFFICES ASSUME Exponents <= e PROVE FALSE
      BY <1>1, <1>5
    <3>1. Hidden * Exponents <= Hidden * e
      BY <1>1, <1>5, TimesOrder
    <3>2. K = Hidden * Exponents
      BY <1>1
    <3> HIDE DEF K
    <3>3. QED
      BY <1>1, <1>2, <1>3, <1>5, <3>1, <3>2
  <2>3. QED
    BY <1>1, <1>5, <2>1, <2>2
<1>7. b % Hidden = m
  <2> DEFINE q == s * Exponents + e
  <2> HIDE DEF s, mag, e, m
  <2>1. q \in Int
    BY <1>1, <1>4, <1>6, Widths
  <2>2. K * s + (Hidden * e + m) = Hidden * q + m
    <3>1. CASE s = 0
      BY <1>1, <1>5, <3>1
    <3>2. CASE s = 1
      BY <1>1, <1>5, <3>2
    <3>3. QED
      BY <1>4, <3>1, <3>2
  <2> HIDE DEF q, K
  <2>3. b = Hidden * q + m
    BY <1>3, <1>5, <2>2
  <2>4. QED
    BY <1>1, <1>2, <1>5, <2>1, <2>3, DivisionIsUnique
<1>8. TwoTo[ExpBits + MantBits] = K
  BY Widths
<1>9. SignBit(b) = s /\ Magnitude(b) = mag /\ Exponent(b) = e /\ Mantissa(b) = m
  <2>1. SignBit(b) = s /\ Magnitude(b) = mag
    BY <1>8 DEF SignBit, Magnitude
  <2>2. Exponent(b) = e
    BY <2>1 DEF Exponent
  <2>3. QED
    BY <1>7, <2>1, <2>2 DEF Mantissa
<1>10. Hidden * e = e * Hidden /\ K * s = s * K
  <2> HIDE DEF s, e
  <2>1. \A x, y \in Int : x * y = y * x
    OBVIOUS
  <2>2. K \in Int /\ s \in Int /\ e \in Int /\ Hidden \in Int
    BY <1>1, <1>2, <1>3, <1>5
  <2> HIDE DEF K
  <2>3. QED
    BY <2>1, <2>2
<1> HIDE DEF s, mag, e, m
<1>11. m \in 0 .. Hidden - 1
  BY <1>1, <1>5
<1>12. FieldsOf(b, s, e, m)
  <2>1. b = s * K + (e * Hidden + m) /\ e * Hidden + m = mag
    BY <1>3, <1>5, <1>10
  <2> HIDE DEF K
  <2>2. QED
    BY <1>3, <1>4, <1>6, <1>9, <1>11, <2>1 DEF FieldsOf, K
<1>13. QED
  BY <1>2, <1>9, <1>12

(* What the classes mean for the fields, function and macros alike. *)
LEMMA ClassOfFields ==
    ASSUME NEW b \in Patterns
    PROVE  LET e == Exponent(b)  m == Mantissa(b)  class == FpClassify(b)
           IN  /\ class = "zero" <=> e = 0 /\ m = 0
               /\ class = "subnormal" <=> e = 0 /\ m # 0
               /\ class = "infinite" <=> e = MaxExp /\ m = 0
               /\ class = "nan" <=> e = MaxExp /\ m # 0
               /\ class = "normal" <=> e # 0 /\ e # MaxExp
               /\ class \in {"zero", "subnormal", "infinite", "nan", "normal"}
<1> DEFINE e == Exponent(b)
           m == Mantissa(b)
<1>1. e \in 0 .. MaxExp /\ m \in 0 .. Hidden - 1 /\ Magnitude(b) = e * Hidden + m
  BY PatternFields DEF FieldsOf
<1>2. MaxExp \in Nat /\ MaxExp # 0 /\ Hidden \in Nat
  BY Widths
<1>3. e = 0 => (Magnitude(b) # 0 <=> m # 0)
  <2> SUFFICES ASSUME e = 0 PROVE Magnitude(b) # 0 <=> m # 0
    OBVIOUS
  <2>1. 0 * Hidden + m = m
    BY <1>1, <1>2
  <2>2. QED
    BY <1>1, <2>1
<1>4. FpClassify(b) = CASE e = 0 -> IF Magnitude(b) # 0 THEN "subnormal" ELSE "zero"
                        [] e = MaxExp -> IF m # 0 THEN "nan" ELSE "infinite"
                        [] OTHER -> "normal"
  BY Zenon DEF FpClassify
<1> HIDE DEF e, m
<1>5. CASE e = 0
  BY <1>2, <1>3, <1>4, <1>5 DEF e, m
<1>6. CASE e = MaxExp
  BY <1>2, <1>4, <1>6 DEF e, m
<1>7. CASE e # 0 /\ e # MaxExp
  BY <1>4, <1>7 DEF e, m
<1>8. QED
  BY <1>5, <1>6, <1>7

LEMMA MacrosAgree ==
    ASSUME NEW b \in Patterns
    PROVE  LET e == Exponent(b)  m == Mantissa(b)
           IN  /\ IsInf(b) <=> e = MaxExp /\ m = 0
               /\ IsNan(b) <=> e = MaxExp /\ m # 0
               /\ IsNormal(b) <=> e # 0 /\ e # MaxExp
               /\ IsFinite(b) <=> e # MaxExp
<1> DEFINE e == Exponent(b)
           m == Mantissa(b)
           s == SignBit(b)
           H == Hidden
           K == Exponents * Hidden
           mag == e * H + m
<1>1. /\ e \in 0 .. MaxExp /\ m \in 0 .. H - 1 /\ Magnitude(b) = mag /\ s \in {0, 1}
      /\ b = s * K + mag /\ mag \in Nat /\ mag < K /\ b \in Nat
  BY PatternFields DEF FieldsOf
<1>2. MaxExp \in Nat /\ Exponents = MaxExp + 1 /\ Exponents >= 4 /\ H \in Nat \ {0}
  BY Widths
<1>3. K = MaxExp * H + H
  BY <1>2
<1>4. K \in Nat \ {0}
  BY <1>2
<1> HIDE DEF e, m, s, H, K
<1>5. e = MaxExp => mag = MaxExp * H + m
  OBVIOUS
<1>6. e # MaxExp => mag < MaxExp * H /\ mag + H < K
  <2> SUFFICES ASSUME e # MaxExp PROVE mag < MaxExp * H /\ mag + H < K
    OBVIOUS
  <2>1. H * (e + 1) <= H * MaxExp
    BY <1>1, <1>2, TimesOrder
  <2>2. H * (e + 1) = e * H + H /\ H * MaxExp = MaxExp * H
    BY <1>1, <1>2
  <2>3. e * H \in Nat /\ MaxExp * H \in Nat
    BY <1>1, <1>2
  <2>4. QED
    BY <1>1, <1>2, <1>3, <2>1, <2>2, <2>3
<1>7. MaxExp * H \in Nat
  BY <1>2
<1>8. /\ IsInf(b) <=> e = MaxExp /\ m = 0
      /\ IsNan(b) <=> e = MaxExp /\ m # 0
      /\ IsFinite(b) <=> e # MaxExp
  <2> HIDE DEF mag
  <2>1. /\ IsInf(b) <=> mag = MaxExp * H
        /\ IsNan(b) <=> mag > MaxExp * H
        /\ IsFinite(b) <=> mag < MaxExp * H
    BY <1>1 DEF IsInf, IsNan, IsFinite, H
  <2>2. QED
    BY <1>1, <1>2, <1>5, <1>6, <1>7, <2>1
<1>9. Magnitude(b + H) = (b + H) % K
  BY Widths DEF Magnitude, K
<1>10. IsNormal(b) <=> e # 0 /\ e # MaxExp
  <2>1. IsNormal(b) <=> (b + H) % K >= 2 * H
    BY <1>9 DEF IsNormal, H
  <2>2. CASE e = MaxExp
    <3>1. b + H = K * (s + 1) + m
      <4>1. K * (s + 1) = s * K + K
        BY <1>1, <1>4
      <4>2. s * K \in Nat
        BY <1>1, <1>4
      <4>3. QED
        BY <1>1, <1>2, <1>3, <1>5, <1>7, <2>2, <4>1, <4>2
    <3>2. m < K /\ m \in Nat /\ s + 1 \in Int /\ b + H \in Int
      BY <1>1, <1>2, <1>3, <1>7
    <3>3. (b + H) % K = m
      BY <1>4, <3>1, <3>2, DivisionIsUnique
    <3>4. QED
      BY <1>1, <1>2, <2>1, <2>2, <3>3
  <2>3. CASE e # MaxExp
    <3>1. mag + H \in Nat /\ mag + H < K /\ b + H \in Int
      BY <1>1, <1>2, <1>6, <2>3
    <3>2. b + H = K * s + (mag + H)
      <4>1. K * s = s * K /\ s * K \in Nat
        BY <1>1, <1>4
      <4> HIDE DEF mag
      <4>2. QED
        BY <1>1, <1>2, <4>1
    <3>3. (b + H) % K = mag + H
      <4> HIDE DEF mag
      <4>1. s \in Int
        BY <1>1
      <4>2. QED
        BY <1>4, <3>1, <3>2, <4>1, DivisionIsUnique
    <3>4. e = 0 => mag + H < 2 * H
      <4> SUFFICES ASSUME e = 0 PROVE mag + H < 2 * H
        OBVIOUS
      <4>1. 0 * H = 0
        BY <1>2
      <4>2. QED
        BY <1>1, <1>2, <4>1
    <3>5. e # 0 => mag + H >= 2 * H
      <4> SUFFICES ASSUME e # 0 PROVE mag + H >= 2 * H
        OBVIOUS
      <4>1. H * 1 <= H * e /\ H * e = e * H /\ H * e \in Nat
        BY <1>1, <1>2, TimesOrder
      <4>2. QED
        BY <1>1, <1>2, <4>1
    <3>6. QED
      BY <2>1, <2>3, <3>3, <3>4, <3>5, <1>1, <1>2
  <2>4. QED
    BY <2>2, <2>3
<1>11. QED
  BY <1>8, <1>10 DEF e, m

LEMMA LongClassAgrees ==
    ASSUME NEW b \in Patterns
    PROVE  FpClassifyL(Exponent(b), Mantissa(b) + (IF Exponent(b) = 0 THEN 0 ELSE Hidden))
               = FpClassify(b)
<1> DEFINE e == Exponent(b)
           m == Mantissa(b)
           x == m + (IF e = 0 THEN 0 ELSE Hidden)
           class == FpClassify(b)
<1>1. e \in 0 .. MaxExp /\ m \in 0 .. Hidden - 1
  BY PatternFields DEF FieldsOf
<1>2. MaxExp \in Nat /\ MaxExp # 0 /\ Hidden \in Nat \ {0}
  BY Widths
<1>3. /\ class = "zero" <=> e = 0 /\ m = 0
      /\ class = "subnormal" <=> e = 0 /\ m # 0
      /\ class = "infinite" <=> e = MaxExp /\ m = 0
      /\ class = "nan" <=> e = MaxExp /\ m # 0
      /\ class = "normal" <=> e # 0 /\ e # MaxExp
      /\ class \in {"zero", "subnormal", "infinite", "nan", "normal"}
  BY ClassOfFields
<1>4. FpClassifyL(e, x) =
          CASE e = 0 -> IF x >= Hidden THEN "nan" ELSE IF x # 0 THEN "subnormal" ELSE "zero"
            [] e = MaxExp -> IF x % Hidden # 0 THEN "nan" ELSE "infinite"
            [] OTHER -> IF x >= Hidden THEN "normal" ELSE "nan"
  BY Zenon DEF FpClassifyL
<1>5. e = 0 => x = m /\ ~(x >= Hidden)
  BY <1>1, <1>2
<1>6. e # 0 => x >= Hidden /\ x = Hidden * 1 + m
  BY <1>1, <1>2
<1> HIDE DEF e, m, class
<1>7. e # 0 => x % Hidden = m
  <2> SUFFICES ASSUME e # 0 PROVE x % Hidden = m
    OBVIOUS
  <2>1. m \in Nat /\ m < Hidden /\ x \in Int
    BY <1>1, <1>2
  <2> HIDE DEF x
  <2>2. QED
    BY <1>2, <1>6, <2>1, DivisionIsUnique
<1> HIDE DEF x
<1>8. FpClassifyL(e, x) = class
  <2>1. CASE e = 0
    BY <1>2, <1>3, <1>4, <1>5, <2>1
  <2>2. CASE e = MaxExp
    BY <1>2, <1>3, <1>4, <1>7, <2>2
  <2>3. CASE e # 0 /\ e # MaxExp
    BY <1>3, <1>4, <1>6, <2>3
  <2>4. QED
    BY <2>1, <2>2, <2>3
<1>9. QED
  BY <1>8 DEF e, m, x, class

LEMMA NextClasses == Next => ClassesAgree'
<1> SUFFICES ASSUME Next, call'.fn = "classify" PROVE ClassesAgree'
  BY DEF ClassesAgree, In
<1>1. Classify
  BY CallsOf
<1>2. PICK b \in Patterns :
          call' = [fn |-> "classify", b |-> b, class |-> FpClassify(b), root |-> SqrtF(b),
                   long |-> FpClassifyL(Exponent(b), Mantissa(b) + (IF Exponent(b) = 0 THEN 0 ELSE Hidden)),
                   split |-> FrExpL(Exponent(b), Mantissa(b) + (IF Exponent(b) = 0 THEN 0 ELSE Hidden), 8)]
  BY <1>1, Zenon DEF Classify, Call
<1>3. /\ call'.b = b /\ call'.class = FpClassify(b)
      /\ call'.long = FpClassifyL(Exponent(b), Mantissa(b) + (IF Exponent(b) = 0 THEN 0 ELSE Hidden))
  BY <1>2
<1>4. call'.long = call'.class
  BY <1>3, LongClassAgrees
<1> DEFINE class == FpClassify(b)
<1>5. /\ class = "zero" <=> Exponent(b) = 0 /\ Mantissa(b) = 0
      /\ class = "subnormal" <=> Exponent(b) = 0 /\ Mantissa(b) # 0
      /\ class = "infinite" <=> Exponent(b) = MaxExp /\ Mantissa(b) = 0
      /\ class = "nan" <=> Exponent(b) = MaxExp /\ Mantissa(b) # 0
      /\ class = "normal" <=> Exponent(b) # 0 /\ Exponent(b) # MaxExp
      /\ class \in {"zero", "subnormal", "infinite", "nan", "normal"}
  BY ClassOfFields
<1>6. /\ IsInf(b) <=> Exponent(b) = MaxExp /\ Mantissa(b) = 0
      /\ IsNan(b) <=> Exponent(b) = MaxExp /\ Mantissa(b) # 0
      /\ IsNormal(b) <=> Exponent(b) # 0 /\ Exponent(b) # MaxExp
      /\ IsFinite(b) <=> Exponent(b) # MaxExp
  BY MacrosAgree
<1>7. MaxExp # 0
  BY Widths
<1> HIDE DEF class
<1>8. /\ IsInf(b) <=> class = "infinite"
      /\ IsNan(b) <=> class = "nan"
      /\ IsNormal(b) <=> class = "normal"
      /\ IsFinite(b) <=> class \in {"normal", "subnormal", "zero"}
  BY <1>5, <1>6, <1>7
<1>9. QED
  BY <1>3, <1>4, <1>8 DEF ClassesAgree, class

(* The classification functions and the macros of math.h agree on every    *)
(* pattern, for floats of any width (math.h, math.cpp): ClassesAgree.      *)
THEOREM AlwaysClassesAgree == Spec => []ClassesAgree
<1>1. Init => ClassesAgree
  BY DEF Init, ClassesAgree, In, Idle
<1>2. ClassesAgree /\ [Next]_call => ClassesAgree'
  BY NextClasses DEF ClassesAgree, In
<1>3. QED
  BY <1>1, <1>2, PTL DEF Spec

-----------------------------------------------------------------------------
(* A root digit by digit.  After the bit r: q is the root of N, cut off to *)
(* multiples of r, s twice that, and x / 2 what is left of N, in units of  *)
(* r. *)
RootUpTo(N, r, x, s, q) ==
    /\ x \in Nat /\ q \in Nat /\ s = 2 * q
    /\ x * r = 2 * (N - q * q)
    /\ q * q <= N /\ N < (q + r) * (q + r)

LEMMA NextRootBit ==
    ASSUME NEW N \in Nat, NEW r \in Nat \ {0}, NEW x, NEW s, NEW q,
           RootUpTo(N, 2 * r, x, s, q)
    PROVE  IF s + r <= x THEN RootUpTo(N, r, 2 * (x - s - r), s + 2 * r, q + r)
           ELSE RootUpTo(N, r, 2 * x, s, q)
<1>1. /\ x \in Nat /\ q \in Nat /\ s = 2 * q /\ x * (2 * r) = 2 * (N - q * q)
      /\ q * q <= N /\ N < (q + 2 * r) * (q + 2 * r)
  BY DEF RootUpTo
<1> DEFINE sq == q * q
           rr == r * r
           qr == q * r
           xr == x * r
<1>2. sq \in Nat /\ rr \in Nat /\ qr \in Nat /\ xr \in Nat
  BY <1>1
<1>3. xr = N - sq
  <2>1. x * (2 * r) = 2 * xr
    BY <1>1
  <2>2. QED
    BY <1>1, <1>2, <2>1
<1>4. (q + r) * (q + r) = sq + 2 * qr + rr /\ (s + r) * r = 2 * qr + rr
  BY <1>1
<1>5. (q + r) + r = q + 2 * r
  BY <1>1
<1>6. CASE s + r <= x
  <2> DEFINE y == x - (s + r)
  <2>1. y \in Nat /\ 2 * (x - s - r) = 2 * y
    BY <1>1, <1>6
  <2>2. y * r = xr - (2 * qr + rr)
    <3>1. (x - (s + r)) * r = x * r - (s + r) * r
      BY <1>1
    <3>2. QED
      BY <1>4, <3>1
  <2>3. (2 * y) * r = 2 * (y * r) /\ y * r \in Nat
    BY <2>1
  <2> HIDE DEF y
  <2>4. (2 * y) * r = 2 * (N - (q + r) * (q + r)) /\ (q + r) * (q + r) <= N
    <3> DEFINE yr == y * r
               sqn == (q + r) * (q + r)
    <3> HIDE DEF sq, rr, qr, xr, yr, sqn
    <3>1. yr = (N - sq) - (2 * qr + rr) /\ yr \in Nat /\ sqn = sq + 2 * qr + rr /\ (2 * y) * r = 2 * yr
      BY <1>3, <1>4, <2>2, <2>3 DEF yr, sqn
    <3>2. (2 * y) * r = 2 * (N - sqn) /\ sqn <= N
      BY <1>2, <3>1
    <3>3. QED
      BY <3>2 DEF sqn
  <2>5. 2 * y \in Nat /\ q + r \in Nat /\ s + 2 * r = 2 * (q + r)
    BY <1>1, <2>1
  <2>6. RootUpTo(N, r, 2 * y, s + 2 * r, q + r)
    BY <1>1, <1>5, <2>4, <2>5 DEF RootUpTo
  <2>7. QED
    BY <1>6, <2>1, <2>6
<1>7. CASE ~(s + r <= x)
  <2>1. x + 1 <= s + r /\ x + 1 \in Int /\ s + r \in Int
    BY <1>1, <1>7
  <2>2. r * (x + 1) <= r * (s + r)
    BY <2>1, TimesOrder
  <2>3. r * (x + 1) = xr + r /\ r * (s + r) = (s + r) * r
    BY <1>1
  <2>4. N < (q + r) * (q + r) /\ (2 * x) * r = 2 * (N - q * q)
    <3> DEFINE sqn == (q + r) * (q + r)
    <3>1. (2 * x) * r = 2 * xr
      BY <1>1
    <3> HIDE DEF sq, rr, qr, xr, sqn
    <3>2. sqn = sq + 2 * qr + rr /\ xr + r <= 2 * qr + rr
      BY <1>4, <2>2, <2>3 DEF sqn
    <3>3. N < sqn /\ (2 * x) * r = 2 * (N - sq)
      BY <1>2, <1>3, <3>1, <3>2
    <3>4. QED
      BY <3>3 DEF sqn, sq
  <2>5. RootUpTo(N, r, 2 * x, s, q)
    BY <1>1, <2>4 DEF RootUpTo
  <2>6. QED
    BY <1>7, <2>5
<1>8. QED
  BY <1>6, <1>7

(* The states of the digit loops. *)
RootStates == [x : Int, s : Int, q : Int]
RootStart(x) == [x |-> x, s |-> 0, q |-> 0]

LEMMA RootBitState ==
    ASSUME NEW st \in RootStates, NEW r \in Nat
    PROVE  /\ RootBit(st, r) \in RootStates
           /\ LET fits == st.s + r <= st.x
                  new == RootBit(st, r)
              IN  /\ new.x = IF fits THEN 2 * (st.x - st.s - r) ELSE 2 * st.x
                  /\ new.s = IF fits THEN st.s + 2 * r ELSE st.s
                  /\ new.q = IF fits THEN st.q + r ELSE st.q
<1>1. st.x \in Int /\ st.s \in Int /\ st.q \in Int
  BY DEF RootStates
<1>2. CASE st.s + r <= st.x
  <2>1. RootBit(st, r) = [x |-> 2 * (st.x - st.s - r), s |-> st.s + 2 * r, q |-> st.q + r]
    BY <1>2 DEF RootBit
  <2>2. QED
    BY <1>1, <1>2, <2>1 DEF RootStates
<1>3. CASE ~(st.s + r <= st.x)
  <2>1. RootBit(st, r) = [st EXCEPT !.x = 2 * @]
    BY <1>3 DEF RootBit
  <2>2. QED
    BY <1>1, <1>3, <2>1 DEF RootStates
<1>4. QED
  BY <1>2, <1>3

(* The states of the loop from x, st[k] after k bits, of n bits. *)
RootedBy(st, x, n) ==
    /\ st[0] = RootStart(x)
    /\ \A k \in 1 .. n : st[k] = RootBit(st[k - 1], TwoTo[n - k])

LEMMA RootHasStates ==
    ASSUME NEW x \in Int
    PROVE  \E st : RootedBy(st, x, MantBits + 2) /\ RootBits(x) = st[MantBits + 2]
<1> DEFINE n == MantBits + 2
           V == RootStates
           h == [k \in 1 .. n |-> [st \in V |-> RootBit(st, TwoTo[n - k])]]
           next(g) == [k \in 0 .. n |-> IF k = 0 THEN RootStart(x) ELSE RootBit(g[k - 1], TwoTo[n - k])]
           st == CHOOSE g : g = next(g)
<1>1. n \in Nat
  BY WidthAssumption
<1>2. RootBits(x) = st[n]
  BY Zenon DEF RootBits, RootStart
<1>3. StepsOf(V, RootStart(x), n, h)
  <2>1. RootStart(x) \in V
    BY DEF RootStart, RootStates
  <2>2. ASSUME NEW k \in 1 .. n, NEW s \in V PROVE RootBit(s, TwoTo[n - k]) \in V
    <3>1. n - k \in Nat
      BY <1>1
    <3>2. TwoTo[n - k] \in Nat
      BY <3>1, TwoToIs
    <3>3. QED
      BY <3>2, RootBitState
  <2> HIDE DEF V, n
  <2>3. QED
    BY <1>1, <2>1, <2>2 DEF StepsOf
<1> HIDE DEF n
<1>4. PICK g : Follows(g, V, RootStart(x), n, h)
  <2> HIDE DEF h, V
  <2>1. QED
    BY <1>3, RecursiveFunction, Zenon
<1>5. g = next(g)
  <2>1. /\ g \in [0 .. n -> V] /\ g[0] = RootStart(x)
        /\ \A k \in 1 .. n : g[k] = h[k][g[k - 1]]
    BY <1>4, Zenon DEF Follows
  <2> HIDE DEF V
  <2>2. ASSUME NEW k \in 1 .. n PROVE g[k] = RootBit(g[k - 1], TwoTo[n - k])
    <3>1. k - 1 \in 0 .. n
      BY <1>1
    <3>2. g[k - 1] \in V
      BY <2>1, <3>1, Zenon
    <3>3. QED
      BY <2>1, <3>2, Zenon
  <2>3. QED
    BY <1>1, <2>1, <2>2
<1> HIDE DEF h
<1>6. st = next(st)
  <2> HIDE DEF next
  <2>1. QED
    BY <1>5, Zenon
<1>7. st[0] = RootStart(x) /\ \A k \in 1 .. n : st[k] = RootBit(st[k - 1], TwoTo[n - k])
  <2> HIDE DEF st
  <2>1. ASSUME NEW k \in 0 .. n
        PROVE  st[k] = IF k = 0 THEN RootStart(x) ELSE RootBit(st[k - 1], TwoTo[n - k])
    BY <1>6, Zenon
  <2>2. 0 \in 0 .. n /\ \A k \in 1 .. n : k \in 0 .. n /\ k # 0
    BY <1>1
  <2>3. QED
    BY <2>1, <2>2, Zenon
<1> HIDE DEF st
<1>8. RootedBy(st, x, n)
  BY <1>7, Zenon DEF RootedBy
<1>9. QED
  BY <1>2, <1>8, Zenon DEF n

(* A run of the loop from 2 * y, with n bits, finds the root of y * 2^n.   *)
LEMMA RootOfBits ==
    ASSUME NEW n \in Nat, NEW y \in Nat, y < TwoTo[n], NEW st, RootedBy(st, 2 * y, n)
    PROVE  \A k \in 0 .. n :
               /\ st[k] \in RootStates
               /\ RootUpTo(y * TwoTo[n], TwoTo[n - k], st[k].x, st[k].s, st[k].q)
<1> DEFINE R == TwoTo[n]
           N == y * R
           good(s, k) == s \in RootStates /\ RootUpTo(N, TwoTo[n - k], s.x, s.s, s.q)
           S == {k \in 0 .. n : good(st[k], k)}
<1>1. R \in Nat \ {0} /\ N \in Nat
  BY TwoToPositive
<1>2. 0 \in S
  <2>1. st[0] = RootStart(2 * y)
    BY DEF RootedBy
  <2>2. st[0] \in RootStates /\ st[0].x = 2 * y /\ st[0].s = 0 /\ st[0].q = 0
    BY <2>1 DEF RootStart, RootStates
  <2>3. RootUpTo(N, R, 2 * y, 0, 0)
    <3>1. (2 * y) * R = 2 * N
      BY <1>1
    <3>2. N < R * R
      <4>1. R * (y + 1) <= R * R
        BY <1>1, TimesOrder
      <4>2. R * (y + 1) = N + R
        BY <1>1
      <4>3. R * R \in Nat
        BY <1>1
      <4> HIDE DEF R, N
      <4>4. QED
        BY <1>1, <4>1, <4>2, <4>3
    <3>3. (0 + R) * (0 + R) = R * R
      BY <1>1
    <3> HIDE DEF R, N
    <3>4. QED
      BY <1>1, <3>1, <3>2, <3>3 DEF RootUpTo
  <2>4. n - 0 = n /\ 0 \in 0 .. n
    OBVIOUS
  <2> HIDE DEF N
  <2>5. QED
    BY <2>2, <2>3, <2>4
<1>3. ASSUME NEW k \in 1 .. n, k - 1 \in S PROVE k \in S
  <2> DEFINE r == TwoTo[n - k]
             s == st[k - 1]
  <2>1. n - k \in Nat /\ n - (k - 1) = (n - k) + 1
    OBVIOUS
  <2>2. r \in Nat \ {0} /\ TwoTo[n - (k - 1)] = 2 * r
    BY <2>1, TwoToIs, TwoToPositive
  <2>3. s \in RootStates /\ RootUpTo(N, 2 * r, s.x, s.s, s.q)
    <3> HIDE DEF N, r
    <3>1. QED
      BY <1>3, <2>2
  <2>4. st[k] = RootBit(s, r)
    BY DEF RootedBy
  <2> DEFINE new == RootBit(s, r)
             fits == s.s + r <= s.x
  <2> HIDE DEF r, s, N
  <2>5. /\ new \in RootStates
        /\ new.x = IF fits THEN 2 * (s.x - s.s - r) ELSE 2 * s.x
        /\ new.s = IF fits THEN s.s + 2 * r ELSE s.s
        /\ new.q = IF fits THEN s.q + r ELSE s.q
    BY <2>2, <2>3, RootBitState
  <2>6. IF fits THEN RootUpTo(N, r, 2 * (s.x - s.s - r), s.s + 2 * r, s.q + r)
        ELSE RootUpTo(N, r, 2 * s.x, s.s, s.q)
    BY <1>1, <2>2, <2>3, NextRootBit
  <2> HIDE DEF new, fits
  <2>7. RootUpTo(N, r, new.x, new.s, new.q)
    BY <2>5, <2>6
  <2>8. k \in 0 .. n
    OBVIOUS
  <2>9. QED
    BY <2>4, <2>5, <2>7, <2>8 DEF new, r
<1> HIDE DEF S
<1>4. 0 .. n \subseteq S
  BY <1>2, <1>3, InductionUpTo
<1>5. QED
  BY <1>4 DEF S

(* How far a mantissa is shifted up. *)
LEMMA ShiftsUp ==
    ASSUME NEW top \in Nat, NEW m \in Nat, m # 0, m < 2 * TwoTo[top]
    PROVE  /\ ShiftUp(m, top) \in 0 .. top
           /\ TwoTo[top] <= m * TwoTo[ShiftUp(m, top)]
           /\ m * TwoTo[ShiftUp(m, top)] < 2 * TwoTo[top]
<1> DEFINE S == {i \in 0 .. top : m * TwoTo[i] >= TwoTo[top]}
           up == ShiftUp(m, top)
           T == TwoTo[top]
<1>1. T \in Nat \ {0}
  BY TwoToPositive
<1>2. top \in S
  <2>1. T * 1 <= T * m /\ T * m = m * T
    BY <1>1, TimesOrder
  <2>2. QED
    BY <1>1, <2>1
<1>3. S \in SUBSET Nat /\ S # {}
  BY <1>2
<1>4. up = Min(S)
  BY Zenon DEF ShiftUp
<1> HIDE DEF S, up
<1>5. up \in S /\ \A j \in S : up <= j
  BY <1>3, <1>4, LeastOf
<1>6. up \in 0 .. top /\ m * TwoTo[up] >= T
  BY <1>5 DEF S
<1>7. m * TwoTo[up] < 2 * T
  <2>1. CASE up = 0
    <3>1. m * TwoTo[up] = m
      BY <2>1, TwoToIs
    <3>2. QED
      BY <3>1
  <2>2. CASE up # 0
    <3> DEFINE v == TwoTo[up - 1]
    <3>1. up - 1 \in 0 .. top /\ up - 1 \in Nat /\ ~(up <= up - 1) /\ (up - 1) + 1 = up
      BY <1>6, <2>2
    <3>2. up - 1 \notin S
      BY <1>5, <3>1
    <3>3. v \in Nat /\ TwoTo[up] = 2 * v
      BY <3>1, TwoToIs
    <3>4. ~(m * v >= T)
      BY <3>1, <3>2 DEF S
    <3>5. m * (2 * v) = 2 * (m * v) /\ m * v \in Nat
      BY <3>3
    <3> HIDE DEF v, T
    <3>6. QED
      BY <1>1, <3>3, <3>4, <3>5
  <2>3. QED
    BY <2>1, <2>2
<1>8. QED
  BY <1>1, <1>6, <1>7 DEF up, T

(* The number y is the square root of N / 4 to within half a unit. *)
Nearest(y, N) ==
    (2 * y - 1) * (2 * y - 1) <= N /\ N <= (2 * y + 1) * (2 * y + 1)

(* The last digit of the root decides the rounding of the others. *)
LEMMA RoundsToNearest ==
    ASSUME NEW N \in Nat, NEW x, NEW s, NEW q, RootUpTo(N, 1, x, s, q), q # 0
    PROVE  LET y == RoundedUp(q, x) \div 2
           IN  y \in Nat /\ Nearest(y, N) /\ 2 * y \in {q - 1, q, q + 1} /\ (2 * y = q - 1 => x = 0)
<1> DEFINE sq == q * q
           h == q \div 2
           o == q % 2
           y == RoundedUp(q, x) \div 2
<1>1. /\ x \in Nat /\ q \in Nat /\ x = 2 * (N - sq) /\ sq <= N /\ N < (q + 1) * (q + 1)
  BY DEF RootUpTo
<1>2. q = 2 * h + o /\ o \in {0, 1} /\ h \in Nat
  BY <1>1
<1>3. (q + 1) * (q + 1) = sq + 2 * q + 1 /\ (q - 1) * (q - 1) = (sq - 2 * q) + 1 /\ sq \in Nat
  BY <1>1
<1>4. (q + 2) * (q + 2) = sq + 4 * q + 4
  BY <1>1
<1>5. CASE o = 0 \/ x = 0
  <2>1. RoundedUp(q, x) = q
    BY <1>1, <1>5 DEF RoundedUp
  <2>2. y = h
    BY <2>1
  <2>3. CASE o = 0
    <3>1. 2 * y = q /\ y \in Nat
      BY <1>2, <2>2, <2>3
    <3> HIDE DEF y, sq
    <3>2. (q - 1) * (q - 1) <= N /\ N <= (q + 1) * (q + 1)
      BY <1>1, <1>3
    <3>3. QED
      BY <3>1, <3>2, <1>1 DEF Nearest, y
  <2>4. CASE o = 1
    <3>1. 2 * y = q - 1 /\ y \in Nat /\ x = 0
      BY <1>2, <1>5, <2>2, <2>4
    <3>2. N = sq
      BY <1>1, <1>3, <3>1
    <3>3. 2 * y + 1 = q /\ 2 * y - 1 = q - 2
      BY <1>1, <3>1
    <3>4. (q - 2) * (q - 2) = (sq - 4 * q) + 4
      BY <1>1
    <3> HIDE DEF y
    <3>5. (2 * y - 1) * (2 * y - 1) <= N /\ N <= (2 * y + 1) * (2 * y + 1)
      <4>1. (2 * y + 1) * (2 * y + 1) = sq
        BY <3>3
      <4>2. (2 * y - 1) * (2 * y - 1) = (q - 2) * (q - 2)
        BY <3>3
      <4> HIDE DEF sq
      <4>3. QED
        BY <1>1, <1>3, <3>2, <3>4, <4>1, <4>2
    <3>6. Nearest(y, N) /\ 2 * y \in {q - 1, q, q + 1}
      BY <3>1, <3>5 DEF Nearest
    <3>7. QED
      BY <3>1, <3>6 DEF y
  <2>5. QED
    BY <1>2, <2>3, <2>4
<1>6. CASE o = 1 /\ x # 0
  <2>1. RoundedUp(q, x) = q + 1
    BY <1>1, <1>6 DEF RoundedUp
  <2>2. 2 * y = q + 1 /\ y \in Nat
    <3>1. y = (q + 1) \div 2
      BY <2>1
    <3> HIDE DEF y, h, o
    <3>2. q + 1 = 2 * (h + 1) /\ h + 1 \in Nat
      BY <1>2, <1>6
    <3>3. (q + 1) \div 2 = h + 1
      BY <3>2
    <3>4. QED
      BY <3>1, <3>2, <3>3
  <2>3. 2 * y - 1 = q /\ 2 * y + 1 = q + 2
    <3> HIDE DEF y
    <3>1. QED
      BY <1>1, <2>2
  <2> HIDE DEF y
  <2>4. (2 * y - 1) * (2 * y - 1) <= N /\ N <= (2 * y + 1) * (2 * y + 1)
    <3>1. (2 * y + 1) * (2 * y + 1) = sq + 4 * q + 4
      BY <1>4, <2>3
    <3>2. (2 * y - 1) * (2 * y - 1) = sq
      BY <2>3
    <3> HIDE DEF sq
    <3>3. QED
      BY <1>1, <1>3, <3>1, <3>2
  <2>5. Nearest(y, N) /\ 2 * y \in {q - 1, q, q + 1} /\ 2 * y # q - 1
    BY <1>1, <2>2, <2>4 DEF Nearest
  <2>6. QED
    BY <2>2, <2>5 DEF y
<1>7. QED
  BY <1>2, <1>5, <1>6

LEMMA PatternOfFields ==
    ASSUME NEW e \in 0 .. MaxExp, NEW m \in 0 .. Hidden - 1
    PROVE  LET b == e * Hidden + m
           IN  b \in Patterns /\ Exponent(b) = e /\ Mantissa(b) = m /\ SignBit(b) = 0
<1> DEFINE H == Hidden
           K == Exponents * Hidden
           b == e * H + m
<1>1. H \in Nat \ {0} /\ Exponents \in Nat \ {0} /\ MaxExp = Exponents - 1
  BY Widths
<1>2. K \in Nat \ {0} /\ K = H * Exponents
  BY <1>1
<1>3. b \in Nat /\ b < K /\ b = H * e + m
  <2>1. H * (e + 1) <= H * Exponents
    BY <1>1, TimesOrder
  <2>2. H * (e + 1) = H * e + H /\ H * e = e * H /\ H * e \in Nat
    BY <1>1
  <2> HIDE DEF K, H
  <2>3. QED
    BY <1>1, <1>2, <2>1, <2>2 DEF H
<1> HIDE DEF b, K
<1>4. b = K * 0 + b
  BY <1>2, <1>3
<1>5. b \div K = 0 /\ b % K = b
  BY <1>2, <1>3, <1>4, DivisionIsUnique
<1>6. b \div H = e /\ b % H = m
  <2>1. m \in Nat /\ m < H /\ e \in Int
    BY <1>1
  <2> HIDE DEF H
  <2>2. H \in Nat \ {0} /\ b \in Int /\ b = H * e + m
    BY <1>1, <1>3
  <2>3. QED
    BY <2>1, <2>2, DivisionIsUnique
<1>7. TwoTo[ExpBits + MantBits] = K /\ TwoTo[1 + ExpBits + MantBits] = 2 * K
  BY Widths DEF K
<1>8. b \in Patterns
  BY <1>2, <1>3, <1>7 DEF Patterns
<1>9. SignBit(b) = 0 /\ Magnitude(b) = b
  BY <1>5, <1>7 DEF SignBit, Magnitude
<1>10. Exponent(b) = e /\ Mantissa(b) = m
  BY <1>6, <1>9 DEF Exponent, Mantissa
<1>11. QED
  BY <1>8, <1>9, <1>10 DEF b

(* A number: mantissa and exponent of what is not zero, infinite or no     *)
(* number. *)
IsNumber(b) == b \in Patterns /\ FpClassify(b) \in {"normal", "subnormal"}

LEMMA Numbers ==
    ASSUME NEW b, IsNumber(b)
    PROVE  /\ Exponent(b) \in 0 .. MaxExp - 1 /\ Mantissa(b) \in 0 .. Hidden - 1
           /\ Magnitude(b) = Exponent(b) * Hidden + Mantissa(b)
           /\ Exponent(b) = 0 =>
                  /\ Mantissa(b) # 0 /\ MantOf(b) = Mantissa(b) /\ ExpOf(b) = 1
                  /\ Magnitude(b) = Mantissa(b)
           /\ Exponent(b) # 0 => MantOf(b) = Mantissa(b) + Hidden /\ ExpOf(b) = Exponent(b)
           /\ Magnitude(b) # 0 /\ MantOf(b) \in 1 .. 2 * Hidden - 1 /\ ExpOf(b) \in 1 .. MaxExp - 1
<1> DEFINE e == Exponent(b)
           m == Mantissa(b)
<1>1. /\ e \in 0 .. MaxExp /\ m \in 0 .. Hidden - 1 /\ Magnitude(b) = e * Hidden + m
  BY PatternFields DEF FieldsOf, IsNumber
<1>2. e # MaxExp /\ (e # 0 \/ m # 0)
  BY ClassOfFields DEF IsNumber
<1>3. MaxExp \in Nat /\ MaxExp >= 3 /\ Hidden \in Nat \ {0}
  BY Widths
<1>4. MantOf(b) = m + (IF e = 0 THEN 0 ELSE Hidden) /\ ExpOf(b) = Max({e, 1})
  BY DEF MantOf, ExpOf
<1> HIDE DEF e, m
<1>5. e \in 0 .. MaxExp - 1
  BY <1>1, <1>2, <1>3
<1>6. CASE e = 0
  <2>1. e * Hidden + m = m
    BY <1>1, <1>3, <1>6
  <2>2. Max({e, 1}) = 1
    <3>1. {e, 1} \in SUBSET Int /\ 1 \in {e, 1} /\ \A j \in {e, 1} : 1 >= j
      BY <1>6
    <3>2. QED
      BY <3>1, GreatestIs
  <2>3. QED
    BY <1>1, <1>2, <1>3, <1>4, <1>5, <1>6, <2>1, <2>2 DEF e, m
<1>7. CASE e # 0
  <2>1. Max({e, 1}) = e
    <3>1. {e, 1} \in SUBSET Int /\ e \in {e, 1} /\ \A j \in {e, 1} : e >= j
      BY <1>1, <1>3, <1>7
    <3>2. QED
      BY <3>1, GreatestIs
  <2>2. e * Hidden + m # 0
    <3>1. Hidden * 1 <= Hidden * e /\ Hidden * e = e * Hidden
      BY <1>3, <1>5, <1>7, TimesOrder
    <3>2. QED
      BY <1>1, <1>3, <3>1
  <2>3. MantOf(b) = m + Hidden
    BY <1>4, <1>7
  <2>4. QED
    BY <1>1, <1>2, <1>3, <1>4, <1>5, <1>7, <2>1, <2>2, <2>3 DEF e, m
<1>8. QED
  BY <1>6, <1>7

(* The number that the loop of sqrtf starts with is that of b, times a     *)
(* power of four. *)
Starts(b, x, m) ==
    /\ x \in Hidden .. 4 * Hidden - 2 /\ m \in Int
    /\ Bias + m \in 1 .. MaxExp - 1
    /\ ExpOf(b) + Bias + MantBits - 2 * (Bias + m) \in Nat
    /\ x * (4 * Hidden) = 4 * MantOf(b) * TwoTo[ExpOf(b) + Bias + MantBits - 2 * (Bias + m)]

LEMMA StartsAt ==
    ASSUME NEW b, IsNumber(b), NEW up \in 0 .. MantBits, NEW z, z = MantOf(b) * TwoTo[up],
           z \in Hidden .. 2 * Hidden - 1, NEW e, e = (ExpOf(b) - up) - Bias
    PROVE  Starts(b, IF e % 2 = 1 THEN 2 * z ELSE z, e \div 2)
<1> DEFINE H == Hidden
           m == e \div 2
           o == e % 2
           x == IF o = 1 THEN 2 * z ELSE z
           shift == ExpOf(b) + Bias + MantBits - 2 * (Bias + m)
           M == MantOf(b)
<1>1. /\ H \in Nat \ {0} /\ Bias \in Nat /\ 2 * (Bias + 1) = MaxExp + 1 /\ MaxExp \in Nat
      /\ MantBits \in Nat /\ MantBits < Bias
  BY Widths, WidthAssumption, RangeAssumption
<1>2. M \in Nat /\ ExpOf(b) \in 1 .. MaxExp - 1
  BY <1>1, Numbers
<1>3. e \in Int /\ e = 2 * m + o /\ o \in {0, 1} /\ m \in Int
  BY <1>1, <1>2
<1> HIDE DEF m, o
<1>4. x \in Hidden .. 4 * Hidden - 2
  BY <1>1, <1>3
<1>5. Bias + m \in 1 .. MaxExp - 1
  <2>1. e >= (1 - MantBits) - Bias /\ e <= (MaxExp - 1) - Bias
    BY <1>1, <1>2
  <2>2. QED
    BY <1>1, <1>3, <2>1
<1>6. shift = (up + MantBits) + o /\ shift \in Nat
  BY <1>1, <1>2, <1>3
<1> HIDE DEF shift
<1>7. TwoTo[shift] = TwoTo[up] * H * (IF o = 1 THEN 2 ELSE 1)
  <2>1. up \in Nat /\ up + MantBits \in Nat
    BY <1>1
  <2>2. TwoTo[up + MantBits] = TwoTo[up] * H
    BY <1>1, <2>1, TwoToAdds DEF Hidden
  <2>3. TwoTo[(up + MantBits) + 1] = 2 * (TwoTo[up] * H)
    BY <2>1, <2>2, TwoToIs
  <2>4. TwoTo[up] \in Nat
    BY <2>1, TwoToIs
  <2>5. CASE o = 1
    BY <1>1, <1>6, <2>3, <2>4, <2>5
  <2>6. CASE o = 0
    BY <1>1, <1>6, <2>1, <2>2, <2>4, <2>6
  <2>7. QED
    BY <1>3, <2>5, <2>6
<1>8. x * (4 * H) = 4 * M * TwoTo[shift]
  <2> DEFINE u == TwoTo[up]
  <2>1. u \in Nat
    BY <1>1, TwoToIs
  <2>2. z = M * u
    OBVIOUS
  <2> HIDE DEF u, M, H, x
  <2>3. 4 * M * (u * H) = (M * u) * (4 * H) /\ 4 * M * (u * H * 2) = (2 * (M * u)) * (4 * H)
    BY <1>1, <1>2, <2>1
  <2>4. CASE o = 1
    <3>1. x = 2 * z /\ TwoTo[shift] = u * H * 2
      BY <1>7, <2>4 DEF x, u
    <3>2. QED
      BY <2>2, <2>3, <3>1
  <2>5. CASE o = 0
    <3>1. x = z /\ TwoTo[shift] = u * H * 1
      BY <1>7, <2>5 DEF x, u
    <3>2. u * H * 1 = u * H
      BY <1>1, <2>1
    <3>3. QED
      BY <2>2, <2>3, <3>1, <3>2
  <2>6. QED
    BY <1>3, <2>4, <2>5
<1>9. Starts(b, x, m)
  BY <1>3, <1>4, <1>5, <1>6, <1>8 DEF Starts, shift
<1>10. QED
  BY <1>9 DEF x, m, o

LEMMA NormalizedStarts ==
    ASSUME NEW b, IsNumber(b), SignBit(b) = 0
    PROVE  Starts(b, Normalized(b).x, Normalized(b).m)
<1> DEFINE H == Hidden
           E == Exponent(b)
           up == IF E = 0 THEN ShiftUp(b, MantBits) ELSE 0
           e == (IF E = 0 THEN 1 - up ELSE E) - Bias
           z == ((b * TwoTo[up]) % H) + H
           mm == Mantissa(b)
<1>1. /\ H \in Nat \ {0} /\ Bias \in Nat /\ MaxExp \in Nat /\ MantBits \in Nat
  BY Widths, WidthAssumption
<1>2. /\ E \in 0 .. MaxExp - 1 /\ mm \in 0 .. H - 1
      /\ E = 0 => mm # 0 /\ MantOf(b) = mm /\ ExpOf(b) = 1 /\ Magnitude(b) = mm
      /\ E # 0 => MantOf(b) = mm + H /\ ExpOf(b) = E
  BY Numbers
<1>3. b = Magnitude(b) /\ b \in Nat
  <2>1. b = 0 * (Exponents * Hidden) + Magnitude(b) /\ Magnitude(b) \in Nat
    BY PatternFields DEF FieldsOf, IsNumber
  <2>2. 0 * (Exponents * Hidden) = 0
    BY Widths
  <2>3. QED
    BY <2>1, <2>2
<1>4. Normalized(b) = [x |-> IF e % 2 = 1 THEN 2 * z ELSE z, m |-> e \div 2]
  BY Zenon DEF Normalized
<1>5. Normalized(b).x = (IF e % 2 = 1 THEN 2 * z ELSE z) /\ Normalized(b).m = e \div 2
  BY <1>4
<1>6. up \in 0 .. MantBits /\ z = MantOf(b) * TwoTo[up] /\ z \in H .. 2 * H - 1 /\ e = (ExpOf(b) - up) - Bias
  <2>1. CASE E = 0
    <3> DEFINE v == ShiftUp(b, MantBits)
               w == b * TwoTo[v]
    <3>1. b = mm /\ b # 0 /\ b < 2 * TwoTo[MantBits]
      BY <1>1, <1>2, <1>3, <2>1 DEF Hidden
    <3>2. v \in 0 .. MantBits /\ H <= w /\ w < 2 * H
      BY <1>1, <1>3, <3>1, ShiftsUp DEF Hidden
    <3>3. up = v /\ e = (1 - v) - Bias
      BY <2>1
    <3>4. w \in Nat
      <4>1. TwoTo[v] \in Nat
        BY <1>1, <3>2, TwoToIs
      <4>2. QED
        BY <1>3, <4>1
    <3>5. z = (w % H) + H
      BY <3>3
    <3>6. MantOf(b) * TwoTo[up] = w
      BY <1>2, <2>1, <3>1, <3>3
    <3> HIDE DEF v, w, up, z, e
    <3>7. w % H = w - H
      <4>1. w = H * 1 + (w - H) /\ w - H \in Nat /\ w - H < H
        BY <1>1, <3>2, <3>4
      <4>2. QED
        BY <1>1, <3>4, <4>1, DivisionIsUnique
    <3>8. z = w /\ z \in H .. 2 * H - 1
      BY <1>1, <3>2, <3>4, <3>5, <3>7
    <3>9. QED
      BY <1>2, <2>1, <3>2, <3>3, <3>6, <3>8
  <2>2. CASE E # 0
    <3>1. up = 0 /\ TwoTo[up] = 1 /\ e = E - Bias
      BY <2>2, TwoToIs
    <3>2. b * 1 = b /\ MantOf(b) * 1 = MantOf(b)
      BY <1>1, <1>2, <1>3, <2>2
    <3>3. b % H = mm
      BY DEF Mantissa
    <3>4. z = mm + H
      BY <3>1, <3>2, <3>3
    <3> HIDE DEF up, z, e, mm
    <3>5. z = MantOf(b) * TwoTo[up] /\ z \in H .. 2 * H - 1
      BY <1>1, <1>2, <2>2, <3>1, <3>2, <3>4
    <3>6. up \in 0 .. MantBits /\ e = (ExpOf(b) - up) - Bias
      BY <1>1, <1>2, <2>2, <3>1
    <3>7. QED
      BY <3>5, <3>6
  <2>3. QED
    BY <2>1, <2>2
<1> HIDE DEF up, z, e
<1>7. Starts(b, IF e % 2 = 1 THEN 2 * z ELSE z, e \div 2)
  BY <1>6, StartsAt
<1>8. QED
  BY <1>5, <1>7

(* The root of a number in H .. 4 * H - 2 has one digit more than H. *)
LEMMA RootRange ==
    ASSUME NEW H \in Nat \ {0}, NEW z \in H .. 4 * H - 2, NEW q \in Nat,
           q * q <= z * (4 * H), z * (4 * H) < (q + 1) * (q + 1)
    PROVE  q \in 2 * H .. 4 * H - 2
<1> DEFINE N == z * (4 * H)
           hh == H * H
<1>1. N \in Nat /\ hh \in Nat
  OBVIOUS
<1>2. 4 * hh <= N
  <2>1. (4 * H) * H <= (4 * H) * z
    BY TimesOrder
  <2>2. (4 * H) * H = 4 * hh /\ (4 * H) * z = N
    OBVIOUS
  <2>3. QED
    BY <2>1, <2>2
<1>3. N <= 16 * hh - 8 * H
  <2>1. (4 * H) * z <= (4 * H) * (4 * H - 2)
    BY TimesOrder
  <2>2. (4 * H) * (4 * H - 2) = 16 * hh - 8 * H /\ (4 * H) * z = N
    OBVIOUS
  <2>3. QED
    BY <2>1, <2>2
<1>4. ~(q + 1 <= 2 * H)
  <2> SUFFICES ASSUME q + 1 <= 2 * H PROVE FALSE
    OBVIOUS
  <2>1. (q + 1) * (q + 1) <= (q + 1) * (2 * H)
    BY TimesOrder
  <2>2. (2 * H) * (q + 1) <= (2 * H) * (2 * H)
    BY TimesOrder
  <2>3. (2 * H) * (q + 1) = (q + 1) * (2 * H) /\ (2 * H) * (2 * H) = 4 * hh
    OBVIOUS
  <2>4. (q + 1) * (q + 1) \in Nat /\ (q + 1) * (2 * H) \in Nat
    OBVIOUS
  <2> HIDE DEF N, hh
  <2>5. N < (q + 1) * (q + 1)
    BY DEF N
  <2>6. QED
    BY <1>1, <1>2, <2>1, <2>2, <2>3, <2>4, <2>5
<1>5. ~(q >= 4 * H - 1)
  <2> SUFFICES ASSUME q >= 4 * H - 1 PROVE FALSE
    OBVIOUS
  <2> DEFINE c == 4 * H - 1
  <2>1. c \in Nat /\ c <= q
    OBVIOUS
  <2>2. c * c = (16 * hh - 8 * H) + 1
    OBVIOUS
  <2> HIDE DEF c
  <2>3. c * c <= c * q /\ q * c <= q * q /\ c * q = q * c
    BY <2>1, TimesOrder
  <2>4. c * c \in Nat /\ c * q \in Nat /\ q * q \in Nat
    BY <2>1
  <2>5. q * q <= N
    OBVIOUS
  <2> HIDE DEF N, hh
  <2>6. QED
    BY <1>1, <1>3, <2>2, <2>3, <2>4, <2>5
<1>6. QED
  BY <1>4, <1>5

LEMMA SqrtFIsNearest ==
    ASSUME NEW b, IsNumber(b), SignBit(b) = 0
    PROVE  LET y == SqrtF(b)
               shift == ExpOf(b) + Bias + MantBits - 2 * ExpOf(y)
           IN  FpClassify(y) = "normal" /\ Nearest(MantOf(y), 4 * MantOf(b) * TwoTo[shift])
<1> DEFINE H == Hidden
           z == Normalized(b).x
           m == Normalized(b).m
           n == MantBits + 2
           root == RootBits(2 * z)
           N == z * (4 * H)
           y == RoundedUp(root.q, root.x) \div 2
           e == Bias + m
           shift == ExpOf(b) + Bias + MantBits - 2 * e
<1>1. H \in Nat \ {0} /\ MaxExp \in Nat /\ Bias \in Nat /\ n \in Nat
  BY Widths, WidthAssumption
<1>2. /\ z \in H .. 4 * H - 2 /\ m \in Int /\ e \in 1 .. MaxExp - 1
      /\ N = 4 * MantOf(b) * TwoTo[shift]
  BY NormalizedStarts DEF Starts
<1>3. TwoTo[n] = 4 * H /\ TwoTo[0] = 1
  <2>1. MantBits \in Nat /\ MantBits + 1 \in Nat /\ (MantBits + 1) + 1 = n
    BY WidthAssumption
  <2>2. TwoTo[MantBits + 1] = 2 * H /\ TwoTo[(MantBits + 1) + 1] = 2 * TwoTo[MantBits + 1]
    BY <2>1, TwoToIs DEF Hidden
  <2>3. QED
    BY <1>1, <2>1, <2>2, TwoToIs
<1> HIDE DEF z, m, shift
<1>4. PICK st : RootedBy(st, 2 * z, n) /\ root = st[n]
  <2>1. 2 * z \in Int
    BY <1>1, <1>2
  <2>2. QED
    BY <2>1, RootHasStates
<1>5. RootUpTo(N, 1, root.x, root.s, root.q)
  <2>1. z \in Nat /\ z < TwoTo[n] /\ n \in 0 .. n /\ n - n = 0
    BY <1>1, <1>2, <1>3
  <2>2. RootUpTo(z * TwoTo[n], TwoTo[n - n], st[n].x, st[n].s, st[n].q)
    BY <1>1, <1>4, <2>1, RootOfBits
  <2> HIDE DEF n, root
  <2>3. QED
    BY <1>3, <1>4, <2>1, <2>2
<1> HIDE DEF root, N, n
<1>6. root.q \in 2 * H .. 4 * H - 2
  <2>1. root.q \in Nat /\ root.q * root.q <= z * (4 * H) /\ z * (4 * H) < (root.q + 1) * (root.q + 1)
    BY <1>5 DEF RootUpTo, N
  <2>2. QED
    BY <1>1, <1>2, <2>1, RootRange
<1>7. y \in Nat /\ Nearest(y, N) /\ 2 * y \in {root.q - 1, root.q, root.q + 1}
  <2>1. N \in Nat /\ root.q # 0
    BY <1>1, <1>2, <1>6 DEF N
  <2>2. QED
    BY <1>5, <2>1, RoundsToNearest
<1> HIDE DEF y
<1>8. y \in H .. 2 * H - 1
  BY <1>1, <1>6, <1>7
<1>9. SqrtF(b) = e * H + (y - H)
  <2>1. Exponent(b) # MaxExp /\ Magnitude(b) # 0 /\ SignBit(b) # 1
    BY <1>1, Numbers
  <2>2. SqrtF(b) = y + (Bias - 1 + m) * H
    <3>1. SqrtF(b) = (RoundedUp(root.q, root.x) \div 2) + (Bias - 1 + m) * H
      BY <2>1, Zenon DEF SqrtF, root, z, m, H
    <3>2. QED
      BY <3>1 DEF y
  <2>3. Bias - 1 + m = e - 1 /\ (e - 1) * H = e * H - H /\ e * H \in Int
    BY <1>1, <1>2
  <2>4. QED
    BY <1>1, <1>8, <2>2, <2>3
<1> HIDE DEF e
<1>10. LET p == SqrtF(b)
       IN  p \in Patterns /\ Exponent(p) = e /\ Mantissa(p) = y - H
  <2>1. e \in 0 .. MaxExp /\ y - H \in 0 .. H - 1
    BY <1>1, <1>2, <1>8
  <2>2. QED
    BY <1>9, <2>1, PatternOfFields
<1> DEFINE p == SqrtF(b)
<1> HIDE DEF p
<1>11. FpClassify(p) = "normal"
  <2>1. Exponent(p) # 0 /\ Exponent(p) # MaxExp /\ p \in Patterns
    BY <1>1, <1>2, <1>10 DEF p
  <2>2. QED
    BY <2>1, ClassOfFields
<1>12. MantOf(p) = y /\ ExpOf(p) = e
  <2>1. IsNumber(p)
    BY <1>10, <1>11 DEF IsNumber, p
  <2>2. Exponent(p) # 0
    BY <1>1, <1>2, <1>10 DEF p
  <2>3. MantOf(p) = Mantissa(p) + H /\ ExpOf(p) = Exponent(p)
    BY <2>1, <2>2, Numbers
  <2>4. QED
    BY <1>1, <1>8, <1>10, <2>3 DEF p
<1>13. Nearest(MantOf(p), 4 * MantOf(b) * TwoTo[ExpOf(b) + Bias + MantBits - 2 * ExpOf(p)])
  BY <1>2, <1>7, <1>12 DEF shift
<1>14. QED
  BY <1>11, <1>13 DEF p

(* frexpl: what it answers for the stored bits x of a number. *)
LEMMA FrExpKeeps ==
    ASSUME NEW b, IsNumber(b), NEW power \in Nat
    PROVE  LET split == FrExpL(Exponent(b), MantOf(b), power)
           IN  /\ split.m \in Hidden .. 2 * Hidden - 1
               /\ MantOf(b) * TwoTo[ExpOf(b) + MantBits]
                      = split.m * TwoTo[split.e + (Bias - 1) + MantBits]
<1> DEFINE E == Exponent(b)
           M == MantOf(b)
           split == FrExpL(E, M, power)
           up == ShiftUp(M, MantBits)
<1>1. MantBits \in Nat /\ Hidden \in Nat \ {0} /\ Bias \in Nat /\ MaxExp \in Nat
  BY Widths, WidthAssumption
<1>2. /\ E \in 0 .. MaxExp - 1 /\ M \in 1 .. 2 * Hidden - 1
      /\ E = 0 => ExpOf(b) = 1
      /\ E # 0 => M >= Hidden /\ ExpOf(b) = E
  BY <1>1, Numbers
<1>3. split = CASE E # 0 -> [e |-> E - (Bias - 1), m |-> M]
                [] E = 0 /\ M # 0 -> [e |-> ((power + 1) - up) - (Bias - 1) - power, m |-> M * TwoTo[up]]
                [] OTHER -> [e |-> 0, m |-> 0]
  BY Zenon DEF FrExpL
<1>4. CASE E # 0
  <2>1. split.e = E - (Bias - 1) /\ split.m = M
    BY <1>3, <1>4
  <2>2. split.e + (Bias - 1) + MantBits = ExpOf(b) + MantBits
    <3> HIDE DEF split, E
    <3>1. QED
      BY <1>1, <1>2, <1>4, <2>1
  <2>3. QED
    BY <1>1, <1>2, <1>4, <2>1, <2>2
<1>5. CASE E = 0
  <2>1. M # 0
    BY <1>1, <1>2
  <2>2. split.e = ((power + 1) - up) - (Bias - 1) - power /\ split.m = M * TwoTo[up]
    BY <1>3, <1>5, <2>1
  <2>3. up \in 0 .. MantBits /\ Hidden <= M * TwoTo[up] /\ M * TwoTo[up] < 2 * Hidden
    BY <1>1, <1>2, <2>1, ShiftsUp DEF Hidden
  <2>4. M * TwoTo[up] \in Nat
    <3>1. TwoTo[up] \in Nat
      BY <1>1, <2>3, TwoToIs
    <3>2. M \in Nat
      BY <1>1, <1>2
    <3> HIDE DEF M, up
    <3>3. QED
      BY <3>1, <3>2
  <2> DEFINE rest == (1 - up) + MantBits
  <2>5. split.e + (Bias - 1) + MantBits = rest /\ rest \in Nat /\ up + rest = 1 + MantBits
    <3> HIDE DEF split, up
    <3>1. QED
      BY <1>1, <2>2, <2>3
  <2>6. TwoTo[ExpOf(b) + MantBits] = TwoTo[up] * TwoTo[rest]
    <3>1. ExpOf(b) + MantBits = up + rest
      BY <1>2, <1>5, <2>5
    <3>2. up \in Nat
      BY <2>3
    <3> HIDE DEF up, rest
    <3>3. QED
      BY <2>5, <3>1, <3>2, TwoToAdds
  <2>7. M * (TwoTo[up] * TwoTo[rest]) = (M * TwoTo[up]) * TwoTo[rest]
    <3>1. TwoTo[up] \in Nat /\ TwoTo[rest] \in Nat /\ M \in Nat
      BY <1>1, <1>2, <2>3, <2>5, TwoToIs
    <3>2. QED
      BY <3>1
  <2> HIDE DEF split, up, rest
  <2>8. QED
    BY <1>1, <2>2, <2>3, <2>4, <2>5, <2>6, <2>7 DEF split, E, M
<1>6. QED
  BY <1>4, <1>5

-----------------------------------------------------------------------------
(* sqrt works on two words: the number they are. *)
Whole(hi, lo) == hi * Word + lo
IsWord(w) == w \in 0 .. Word - 1

LEMMA Words ==
    Word \in Nat \ {0} /\ \E w \in Nat \ {0} : Word = 2 * w /\ Word \div 2 = w
<1>1. LowBits \in Nat /\ LowBits - 1 \in Nat /\ (LowBits - 1) + 1 = LowBits
  BY WidthAssumption
<1> DEFINE w == TwoTo[LowBits - 1]
<1>2. w \in Nat \ {0} /\ Word = 2 * w
  BY <1>1, TwoToIs, TwoToPositive DEF Word
<1> HIDE DEF w
<1>3. Word \div 2 = w
  BY <1>2
<1>4. QED
  BY <1>2, <1>3

(* Words are compared one by one. *)
LEMMA WordOrder ==
    ASSUME NEW a \in Int, NEW b, IsWord(b), NEW c \in Int, NEW d, IsWord(d)
    PROVE  Whole(a, b) <= Whole(c, d) <=> a < c \/ (a = c /\ b <= d)
<1> DEFINE W == Word
<1>1. W \in Nat \ {0} /\ b \in 0 .. W - 1 /\ d \in 0 .. W - 1
  BY Words DEF IsWord
<1>2. Whole(a, b) = a * W + b /\ Whole(c, d) = c * W + d
  BY DEF Whole
<1> HIDE DEF W
<1>3. CASE a < c
  <2>1. W * (a + 1) <= W * c
    BY <1>1, <1>3, TimesOrder
  <2>2. W * (a + 1) = a * W + W /\ W * c = c * W /\ a * W \in Int
    BY <1>1
  <2>3. QED
    BY <1>1, <1>2, <1>3, <2>1, <2>2
<1>4. CASE c < a
  <2>1. W * (c + 1) <= W * a
    BY <1>1, <1>4, TimesOrder
  <2>2. W * (c + 1) = c * W + W /\ W * a = a * W /\ c * W \in Int
    BY <1>1
  <2>3. QED
    BY <1>1, <1>2, <1>4, <2>1, <2>2
<1>5. CASE a = c
  <2>1. a * W \in Int
    BY <1>1
  <2>2. QED
    BY <1>1, <1>2, <1>5, <2>1
<1>6. QED
  BY <1>3, <1>4, <1>5

LEMMA DoubledIs ==
    ASSUME NEW hi \in Nat, NEW lo, IsWord(lo)
    PROVE  /\ Doubled(hi, lo) \in Nat \X Nat /\ IsWord(Doubled(hi, lo)[2])
           /\ Whole(Doubled(hi, lo)[1], Doubled(hi, lo)[2]) = 2 * Whole(hi, lo)
<1> DEFINE W == Word
           p == Doubled(hi, lo)
           c == IF TopSet(lo) THEN 1 ELSE 0
<1>1. PICK w \in Nat \ {0} : W = 2 * w /\ W \div 2 = w
  BY Words
<1>2. lo \in 0 .. W - 1 /\ W \in Nat \ {0}
  BY Words DEF IsWord
<1>3. TopSet(lo) <=> lo >= w
  BY <1>1 DEF TopSet
<1>4. p = <<2 * hi + c, (2 * lo) % W>>
  BY Zenon DEF Doubled
<1>5. c \in {0, 1}
  OBVIOUS
<1>6. (2 * lo) % W = 2 * lo - c * W /\ 2 * lo - c * W \in 0 .. W - 1
  <2> HIDE DEF W
  <2>1. 2 * lo = W * c + (2 * lo - c * W) /\ 2 * lo - c * W \in 0 .. W - 1
    BY <1>1, <1>2, <1>3
  <2> HIDE DEF c
  <2>2. 2 * lo \in Int /\ c \in Int /\ 2 * lo - c * W \in Nat /\ 2 * lo - c * W < W
    BY <1>2, <1>5, <2>1
  <2>3. (2 * lo) % W = 2 * lo - c * W
    BY <1>2, <2>1, <2>2, DivisionIsUnique
  <2>4. QED
    BY <2>1, <2>3
<1> HIDE DEF c, W
<1>7. p[1] = 2 * hi + c /\ p[2] = 2 * lo - c * W /\ p \in Nat \X Nat
  BY <1>2, <1>4, <1>5, <1>6
<1>8. (2 * hi + c) * W + (2 * lo - c * W) = 2 * (hi * W + lo)
  BY <1>2, <1>5
<1>9. Whole(p[1], p[2]) = 2 * Whole(hi, lo)
  BY <1>7, <1>8 DEF Whole, W
<1>10. IsWord(p[2])
  BY <1>6, <1>7 DEF IsWord, W
<1>11. QED
  BY <1>7, <1>9, <1>10

WordStates == [x : Nat \X Nat, s0 : Nat, s1 : Nat, q : Nat, q1 : Nat]

(* The loops of sqrt, as that of sqrtf on the whole numbers. *)
RootWords(N, r, st) ==
    /\ st \in WordStates /\ IsWord(st.x[2]) /\ IsWord(st.s1)
    /\ RootUpTo(N, r, Whole(st.x[1], st.x[2]), Whole(st.s0, st.s1), Whole(st.q, st.q1))

LEMMA WordNatural == \A a, b \in Nat : Whole(a, b) \in Nat /\ Whole(a, 0) = a * Word
  BY Words DEF Whole

(* What the next bit makes of the whole numbers. *)
LEMMA RootWordsStep ==
    ASSUME NEW N \in Nat, NEW r \in Nat \ {0}, NEW st, RootWords(N, 2 * r, st),
           NEW new \in WordStates, IsWord(new.x[2]), IsWord(new.s1), NEW fits,
           fits <=> Whole(st.s0, st.s1) + r <= Whole(st.x[1], st.x[2]),
           fits =>
               /\ Whole(new.x[1], new.x[2]) = 2 * (Whole(st.x[1], st.x[2]) - Whole(st.s0, st.s1) - r)
               /\ Whole(new.s0, new.s1) = Whole(st.s0, st.s1) + 2 * r
               /\ Whole(new.q, new.q1) = Whole(st.q, st.q1) + r,
           ~fits =>
               /\ Whole(new.x[1], new.x[2]) = 2 * Whole(st.x[1], st.x[2])
               /\ Whole(new.s0, new.s1) = Whole(st.s0, st.s1)
               /\ Whole(new.q, new.q1) = Whole(st.q, st.q1)
    PROVE  RootWords(N, r, new)
<1> DEFINE x == Whole(st.x[1], st.x[2])
           s == Whole(st.s0, st.s1)
           q == Whole(st.q, st.q1)
<1>1. RootUpTo(N, 2 * r, x, s, q)
  BY DEF RootWords
<1> HIDE DEF x, s, q
<1>2. IF s + r <= x THEN RootUpTo(N, r, 2 * (x - s - r), s + 2 * r, q + r)
      ELSE RootUpTo(N, r, 2 * x, s, q)
  BY <1>1, NextRootBit
<1>3. RootUpTo(N, r, Whole(new.x[1], new.x[2]), Whole(new.s0, new.s1), Whole(new.q, new.q1))
  <2>1. CASE fits
    <3>1. s + r <= x
      BY <2>1 DEF s, x
    <3>2. RootUpTo(N, r, 2 * (x - s - r), s + 2 * r, q + r)
      BY <1>2, <3>1
    <3>3. QED
      BY <2>1, <3>2 DEF x, s, q
  <2>2. CASE ~fits
    <3>1. ~(s + r <= x)
      BY <2>2 DEF s, x
    <3>2. RootUpTo(N, r, 2 * x, s, q)
      BY <1>2, <3>1
    <3>3. QED
      BY <2>2, <3>2 DEF x, s, q
  <2>3. QED
    BY <2>1, <2>2
<1>4. QED
  BY <1>3 DEF RootWords

LEMMA HighBitStates ==
    ASSUME NEW st \in WordStates, NEW r \in Nat
    PROVE  LET new == HighRootBit(st, r)
               t == st.s0 + r
               fits == t <= st.x[1]
           IN  /\ new \in WordStates /\ new.s1 = st.s1 /\ new.q1 = st.q1
               /\ new.x = IF fits THEN Doubled(st.x[1] - t, st.x[2]) ELSE Doubled(st.x[1], st.x[2])
               /\ new.s0 = IF fits THEN t + r ELSE st.s0
               /\ new.q = IF fits THEN st.q + r ELSE st.q
<1> DEFINE t == st.s0 + r
<1>1. /\ st.x \in Nat \X Nat /\ st.s0 \in Nat /\ st.s1 \in Nat /\ st.q \in Nat /\ st.q1 \in Nat
      /\ st.x[1] \in Nat /\ st.x[2] \in Nat
  BY DEF WordStates
<1>2. ASSUME NEW hi \in Nat, NEW lo \in Nat PROVE Doubled(hi, lo) \in Nat \X Nat
  <2>1. (2 * lo) % Word \in Nat
    BY Words
  <2>2. QED
    BY <2>1 DEF Doubled
<1>3. CASE t <= st.x[1]
  <2> DEFINE y == Doubled(st.x[1] - t, st.x[2])
  <2>1. st.x[1] - t \in Nat
    BY <1>1, <1>3
  <2>2. y \in Nat \X Nat
    BY <1>1, <1>2, <2>1
  <2>3. HighRootBit(st, r) = [st EXCEPT !.x = y, !.s0 = t + r, !.q = st.q + r]
    BY <1>3 DEF HighRootBit
  <2> DEFINE u == t + r
             v == st.q + r
  <2>4. u \in Nat /\ v \in Nat
    BY <1>1
  <2>5. HighRootBit(st, r) = [st EXCEPT !.x = y, !.s0 = u, !.q = v]
    BY <2>3
  <2> HIDE DEF y, u, v
  <2> DEFINE new == HighRootBit(st, r)
  <2>6. /\ new \in WordStates /\ new.s1 = st.s1 /\ new.q1 = st.q1
        /\ new.x = y /\ new.s0 = u /\ new.q = v
    BY <2>2, <2>4, <2>5 DEF WordStates
  <2> HIDE DEF new
  <2>7. QED
    BY <1>3, <2>6 DEF y, u, v, new
<1>4. CASE ~(t <= st.x[1])
  <2> DEFINE y == Doubled(st.x[1], st.x[2])
  <2>1. y \in Nat \X Nat
    BY <1>1, <1>2
  <2>2. HighRootBit(st, r) = [st EXCEPT !.x = y]
    BY <1>4 DEF HighRootBit
  <2> HIDE DEF y
  <2>3. QED
    BY <1>1, <1>4, <2>1, <2>2 DEF WordStates, y
<1>5. QED
  BY <1>3, <1>4

LEMMA NextHighBit ==
    ASSUME NEW N \in Nat, NEW r \in Nat \ {0}, NEW st, RootWords(N, 2 * (Word * r), st),
           st.s1 = 0, st.q1 = 0
    PROVE  LET new == HighRootBit(st, r)
           IN  RootWords(N, Word * r, new) /\ new.s1 = 0 /\ new.q1 = 0
<1> DEFINE W == Word
           new == HighRootBit(st, r)
           t == st.s0 + r
           fits == t <= st.x[1]
           x1 == st.x[1]
           x2 == st.x[2]
           s0 == st.s0
           q == st.q
<1>1. /\ st \in WordStates /\ IsWord(x2) /\ IsWord(st.s1)
      /\ x1 \in Nat /\ x2 \in Nat /\ s0 \in Nat /\ q \in Nat
  BY DEF RootWords, WordStates
<1>2. W \in Nat \ {0} /\ W * r \in Nat \ {0}
  BY Words
<1>3. /\ new \in WordStates /\ new.s1 = 0 /\ new.q1 = 0
      /\ new.x = IF fits THEN Doubled(x1 - t, x2) ELSE Doubled(x1, x2)
      /\ new.s0 = IF fits THEN t + r ELSE s0
      /\ new.q = IF fits THEN q + r ELSE q
  BY <1>1, HighBitStates
<1> HIDE DEF new
<1>4. IsWord(0)
  BY <1>2 DEF IsWord
<1>5. /\ Whole(s0, 0) = s0 * W /\ Whole(q, 0) = q * W /\ Whole(x1, x2) = x1 * W + x2
      /\ Whole(s0, 0) + W * r = Whole(t, 0)
  BY <1>1, <1>2 DEF Whole
<1>6. fits <=> Whole(s0, st.s1) + W * r <= Whole(x1, x2)
  <2>1. t \in Int /\ x1 \in Int
    BY <1>1
  <2>6. fits <=> t <= x1
    OBVIOUS
  <2> HIDE DEF t, x1, x2, fits
  <2>2. Whole(t, 0) <= Whole(x1, x2) <=> t < x1 \/ (t = x1 /\ 0 <= x2)
    BY <1>1, <1>4, <2>1, WordOrder
  <2>3. fits <=> Whole(t, 0) <= Whole(x1, x2)
    BY <1>1, <2>1, <2>2, <2>6
  <2>4. Whole(t, 0) = Whole(s0, st.s1) + W * r
    BY <1>3, <1>5 DEF new
  <2>5. QED
    BY <2>3, <2>4
<1>7. ASSUME fits
      PROVE  /\ IsWord(new.x[2])
             /\ Whole(new.x[1], new.x[2]) = 2 * (Whole(x1, x2) - Whole(s0, st.s1) - W * r)
             /\ Whole(new.s0, new.s1) = Whole(s0, st.s1) + 2 * (W * r)
             /\ Whole(new.q, new.q1) = Whole(q, st.q1) + W * r
  <2>1. x1 - t \in Nat
    BY <1>1, <1>7
  <2>2. IsWord(new.x[2]) /\ Whole(new.x[1], new.x[2]) = 2 * Whole(x1 - t, x2)
    BY <1>1, <1>3, <1>7, <2>1, DoubledIs
  <2>3. Whole(x1 - t, x2) = Whole(x1, x2) - Whole(s0, 0) - W * r
    BY <1>1, <1>2 DEF Whole
  <2>4. Whole(t + r, 0) = Whole(s0, 0) + 2 * (W * r) /\ Whole(q + r, 0) = Whole(q, 0) + W * r
    BY <1>1, <1>2 DEF Whole
  <2>5. QED
    BY <1>3, <1>7, <2>2, <2>3, <2>4
<1>8. ASSUME ~fits
      PROVE  /\ IsWord(new.x[2]) /\ Whole(new.x[1], new.x[2]) = 2 * Whole(x1, x2)
             /\ Whole(new.s0, new.s1) = Whole(s0, st.s1) /\ Whole(new.q, new.q1) = Whole(q, st.q1)
  <2>1. IsWord(new.x[2]) /\ Whole(new.x[1], new.x[2]) = 2 * Whole(x1, x2)
    <3>1. new.x = Doubled(x1, x2)
      BY <1>3, <1>8, Zenon
    <3> HIDE DEF x1, x2
    <3>2. QED
      BY <1>1, <3>1, DoubledIs
  <2>2. QED
    BY <1>3, <1>8, <2>1
<1>9. IsWord(new.x[2]) /\ IsWord(new.s1)
  BY <1>3, <1>4, <1>7, <1>8
<1> HIDE DEF fits, W
<1>10. RootWords(N, W * r, new)
  <2> DEFINE wr == W * r
  <2>1. wr \in Nat \ {0} /\ RootWords(N, 2 * wr, st)
    BY <1>2 DEF W
  <2> HIDE DEF wr
  <2>2. QED
    BY <1>3, <1>6, <1>7, <1>8, <1>9, <2>1, RootWordsStep DEF wr
<1>11. QED
  BY <1>3, <1>10 DEF new, W

-----------------------------------------------------------------------------
(* A bit of the low word: what is below it is zero in s1. *)
MultipleOf(a, r) == \E c \in Nat : a = r * c

LEMMA LowBitStates ==
    ASSUME NEW st \in WordStates, NEW r \in Nat,
           NEW t1 \in Nat, t1 = (st.s1 + r) % Word,
           NEW s1 \in Nat, s1 = (t1 + r) % Word,
           NEW carry \in {0, 1}, carry = IF TopSet(t1) /\ ~TopSet(s1) THEN 1 ELSE 0,
           NEW borrow \in {0, 1}, borrow = IF st.x[2] < t1 THEN 1 ELSE 0,
           NEW fits \in BOOLEAN, fits <=> st.s0 < st.x[1] \/ (st.s0 = st.x[1] /\ t1 <= st.x[2])
    PROVE  /\ fits =>
                 LowRootBit(st, r) =
                     [x |-> Doubled(st.x[1] - st.s0 - borrow, (st.x[2] - t1) % Word),
                      s0 |-> st.s0 + carry, s1 |-> s1, q |-> st.q, q1 |-> st.q1 + r]
           /\ ~fits => LowRootBit(st, r) = [st EXCEPT !.x = Doubled(st.x[1], st.x[2])]
<1>1. CASE fits
  <2> DEFINE less == Doubled(st.x[1] - st.s0 - borrow, (st.x[2] - t1) % Word)
  <2>1. LowRootBit(st, r) = [x |-> less, s0 |-> st.s0 + carry, s1 |-> s1, q |-> st.q, q1 |-> st.q1 + r]
    BY <1>1 DEF LowRootBit
  <2> HIDE DEF less
  <2>2. QED
    BY <1>1, <2>1 DEF less
<1>2. CASE ~fits
  <2>1. LowRootBit(st, r) = [st EXCEPT !.x = Doubled(@[1], @[2])]
    BY <1>2 DEF LowRootBit
  <2>2. QED
    BY <1>2, <2>1
<1>3. QED
  BY <1>1, <1>2

LEMMA NextLowBit ==
    ASSUME NEW N \in Nat, NEW r \in Nat \ {0}, NEW st, RootWords(N, 2 * r, st),
           MultipleOf(st.s1, 2 * r), MultipleOf(Word, 2 * r)
    PROVE  RootWords(N, r, LowRootBit(st, r)) /\ MultipleOf(LowRootBit(st, r).s1, r)
<1> DEFINE W == Word
           new == LowRootBit(st, r)
           t1 == (st.s1 + r) % Word
           s1 == (t1 + r) % Word
           x1 == st.x[1]
           x2 == st.x[2]
           s0 == st.s0
           fits == s0 < x1 \/ (s0 = x1 /\ t1 <= x2)
           carry == IF TopSet(t1) /\ ~TopSet(s1) THEN 1 ELSE 0
           borrow == IF x2 < t1 THEN 1 ELSE 0
<1>1. /\ st \in WordStates /\ IsWord(x2) /\ IsWord(st.s1)
      /\ x1 \in Nat /\ x2 \in Nat /\ s0 \in Nat /\ st.s1 \in Nat /\ st.q \in Nat /\ st.q1 \in Nat
  BY DEF RootWords, WordStates
<1>2. PICK w \in Nat \ {0} : W = 2 * w /\ W \div 2 = w
  BY Words
<1>3. W \in Nat \ {0} /\ x2 < W /\ st.s1 < W
  BY <1>1, <1>2 DEF IsWord
<1>4. PICK c \in Nat : st.s1 = (2 * r) * c
  BY DEF MultipleOf
<1>5. PICK d \in Nat : W = (2 * r) * d
  BY DEF MultipleOf
<1>6. st.s1 + 2 * r <= W
  <2>1. c < d
    <3> SUFFICES ASSUME d <= c PROVE FALSE
      OBVIOUS
    <3>1. (2 * r) * d <= (2 * r) * c
      BY TimesOrder
    <3> HIDE DEF W
    <3>2. QED
      BY <1>3, <1>4, <1>5, <3>1
  <2>2. (2 * r) * (c + 1) <= (2 * r) * d
    BY <2>1, TimesOrder
  <2>3. (2 * r) * (c + 1) = (2 * r) * c + 2 * r
    OBVIOUS
  <2> HIDE DEF W
  <2>4. QED
    BY <1>4, <1>5, <2>2, <2>3
<1>7. t1 = st.s1 + r /\ t1 \in 0 .. W - 1
  <2> DEFINE u == st.s1 + r
  <2>1. u \in 0 .. W - 1
    BY <1>1, <1>3, <1>6
  <2> HIDE DEF u, W
  <2>2. u % W = u
    BY <1>3, <2>1
  <2>3. QED
    BY <2>1, <2>2 DEF u, W
<1>8. /\ Whole(s0 + carry, s1) = Whole(s0, st.s1) + 2 * r
      /\ s1 \in 0 .. W - 1 /\ MultipleOf(s1, r) /\ carry \in {0, 1}
  <2>1. /\ TopSet(t1) <=> t1 >= w
        /\ TopSet(s1) <=> s1 >= w
    BY <1>2 DEF TopSet
  <2>2. CASE st.s1 + 2 * r < W
    <3> DEFINE u == t1 + r
    <3>1. u = st.s1 + 2 * r /\ u \in 0 .. W - 1
      <4> HIDE DEF t1, W
      <4>1. QED
        BY <1>1, <1>3, <1>7, <2>2
    <3>2. s1 = u
      <4> HIDE DEF u, W
      <4>1. u % W = u
        BY <1>3, <3>1
      <4>2. QED
        BY <4>1 DEF u, W
    <3>3. carry = 0
      <4> HIDE DEF t1, s1, W
      <4>1. TopSet(t1) => TopSet(s1)
        BY <1>2, <1>7, <2>1, <3>1, <3>2 DEF W
      <4>2. QED
        BY <4>1
    <3>4. s1 = r * (2 * c + 2)
      BY <1>4, <3>1, <3>2
    <3>5. MultipleOf(s1, r)
      <4>1. 2 * c + 2 \in Nat
        OBVIOUS
      <4> HIDE DEF s1
      <4>2. QED
        BY <3>4, <4>1 DEF MultipleOf
    <3> HIDE DEF s1, carry, t1, W, u
    <3>6. Whole(s0 + carry, s1) = Whole(s0, st.s1) + 2 * r
      <4>1. s0 * Word \in Nat /\ s0 + carry = s0
        BY <1>1, <1>3, <3>3 DEF W
      <4>2. QED
        BY <1>1, <3>1, <3>2, <4>1 DEF Whole
    <3>7. QED
      BY <3>1, <3>2, <3>3, <3>5, <3>6
  <2>3. CASE st.s1 + 2 * r = W
    <3>1. t1 + r = W /\ r <= w
      <4> HIDE DEF t1, W
      <4>1. QED
        BY <1>1, <1>2, <1>7, <2>3
    <3>2. s1 = 0
      <4> HIDE DEF W, t1
      <4>1. W % W = 0
        BY <1>3
      <4>2. QED
        BY <3>1, <4>1 DEF W
    <3>3. carry = 1
      <4> HIDE DEF t1, s1, W
      <4>1. TopSet(t1) /\ ~TopSet(s1)
        BY <1>2, <1>7, <2>1, <3>1, <3>2
      <4>2. QED
        BY <4>1
    <3>4. MultipleOf(s1, r)
      <4>1. s1 = r * 0
        BY <3>2
      <4> HIDE DEF s1
      <4>2. QED
        BY <4>1 DEF MultipleOf
    <3> HIDE DEF s1, carry, t1
    <3>5. Whole(s0 + carry, s1) = Whole(s0, st.s1) + 2 * r
      <4>1. (s0 + 1) * W + 0 = (s0 * W + st.s1) + 2 * r
        <5> HIDE DEF W
        <5>1. (s0 + 1) * W = s0 * W + W /\ s0 * W \in Nat
          BY <1>1, <1>3
        <5>2. QED
          BY <1>1, <2>3, <5>1
      <4>2. QED
        BY <3>2, <3>3, <4>1 DEF Whole
    <3>6. QED
      BY <1>3, <3>2, <3>3, <3>4, <3>5
  <2>4. QED
    BY <1>1, <1>3, <1>6, <2>2, <2>3
<1>9. borrow \in {0, 1} /\ fits \in BOOLEAN
  OBVIOUS
<1>10. Whole(s0, t1) = Whole(s0, st.s1) + r
  <2>1. s0 * W \in Nat
    BY <1>1, <1>3
  <2> HIDE DEF t1
  <2>2. QED
    BY <1>1, <1>7, <2>1 DEF Whole
<1>11. fits <=> Whole(s0, st.s1) + r <= Whole(x1, x2)
  <2>1. IsWord(t1)
    BY <1>7 DEF IsWord
  <2>2. s0 \in Int /\ x1 \in Int
    BY <1>1
  <2> HIDE DEF s0, x1, x2, t1
  <2>3. Whole(s0, t1) <= Whole(x1, x2) <=> s0 < x1 \/ (s0 = x1 /\ t1 <= x2)
    BY <1>1, <2>1, <2>2, WordOrder
  <2>4. QED
    BY <1>10, <2>3
<1>12. ASSUME fits
       PROVE  LET hi == x1 - s0 - borrow  lo == (x2 - t1) % Word
              IN  hi \in Nat /\ IsWord(lo) /\ Whole(hi, lo) = Whole(x1, x2) - Whole(s0, t1)
  <2> DEFINE hi == x1 - s0 - borrow
             lo == (x2 - t1) % Word
  <2>1. hi \in Nat
    BY <1>1, <1>7, <1>12
  <2>2. lo = x2 - t1 + borrow * W /\ lo \in 0 .. W - 1
    <3> DEFINE a == x2 - t1
               b == x2 - t1 + borrow * W
    <3>1. a \in Int /\ b \in 0 .. W - 1 /\ a = W * (-borrow) + b /\ -borrow \in Int
      <4> HIDE DEF W, t1
      <4>1. QED
        BY <1>1, <1>3, <1>7
    <3> HIDE DEF a, b, W, borrow
    <3>2. b \in Nat /\ b < W
      BY <1>3, <3>1
    <3>3. a % W = b
      BY <1>3, <3>1, <3>2, DivisionIsUnique
    <3>4. QED
      BY <3>1, <3>3 DEF a, b, W
  <2> HIDE DEF lo, borrow, t1, W
  <2>3. (x1 - s0 - borrow) * W + (x2 - t1 + borrow * W) = (x1 * W + x2) - (s0 * W + t1)
    BY <1>1, <1>3, <1>7, <1>9
  <2>4. QED
    BY <2>1, <2>2, <2>3 DEF Whole, IsWord, W, lo
<1> HIDE DEF t1, s1, carry, borrow, fits, new, W
<1>13. t1 \in Nat /\ s1 \in Nat
  BY <1>3, <1>7, <1>8
<1>14. /\ fits => new = [x |-> Doubled(x1 - s0 - borrow, (x2 - t1) % Word),
                          s0 |-> s0 + carry, s1 |-> s1, q |-> st.q, q1 |-> st.q1 + r]
       /\ ~fits => new = [st EXCEPT !.x = Doubled(x1, x2)]
  <2>1. /\ t1 = (st.s1 + r) % Word /\ s1 = (t1 + r) % Word
        /\ carry = IF TopSet(t1) /\ ~TopSet(s1) THEN 1 ELSE 0
        /\ borrow = IF st.x[2] < t1 THEN 1 ELSE 0
        /\ fits <=> st.s0 < st.x[1] \/ (st.s0 = st.x[1] /\ t1 <= st.x[2])
    BY DEF t1, s1, carry, borrow, fits
  <2>2. r \in Nat
    OBVIOUS
  <2>3. QED
    BY <1>1, <1>8, <1>9, <1>13, <2>1, <2>2, LowBitStates DEF new
<1>15. CASE fits
  <2> DEFINE y == Doubled(x1 - s0 - borrow, (x2 - t1) % Word)
             u == s0 + carry
             v == st.q1 + r
  <2>1. /\ y \in Nat \X Nat /\ IsWord(y[2])
        /\ Whole(y[1], y[2]) = 2 * (Whole(x1, x2) - Whole(s0, t1))
    <3> DEFINE hi == x1 - s0 - borrow
               lo == (x2 - t1) % Word
    <3>1. hi \in Nat /\ IsWord(lo) /\ Whole(hi, lo) = Whole(x1, x2) - Whole(s0, t1)
      BY <1>12, <1>15
    <3>2. y = Doubled(hi, lo)
      OBVIOUS
    <3> HIDE DEF hi, lo, y
    <3>3. y \in Nat \X Nat /\ IsWord(y[2]) /\ Whole(y[1], y[2]) = 2 * Whole(hi, lo)
      BY <3>1, <3>2, DoubledIs
    <3>4. QED
      BY <3>1, <3>3
  <2>2. u \in Nat /\ v \in Nat
    BY <1>1, <1>8
  <2>3. new = [x |-> y, s0 |-> u, s1 |-> s1, q |-> st.q, q1 |-> v]
    BY <1>14, <1>15
  <2>4. Whole(u, s1) = Whole(s0, st.s1) + 2 * r
    BY <1>8
  <2>5. Whole(st.q, v) = Whole(st.q, st.q1) + r
    <3>1. st.q * W \in Nat
      BY <1>1, <1>3
    <3>2. QED
      BY <1>1, <3>1 DEF Whole, W
  <2> HIDE DEF y, u, v
  <2>6. new \in WordStates /\ new.x = y /\ new.s0 = u /\ new.s1 = s1 /\ new.q = st.q /\ new.q1 = v
    BY <1>1, <1>13, <2>1, <2>2, <2>3 DEF WordStates
  <2>7. IsWord(new.x[2]) /\ IsWord(new.s1)
    BY <1>8, <2>1, <2>6 DEF IsWord, W
  <2>8. Whole(new.x[1], new.x[2]) = 2 * (Whole(x1, x2) - Whole(s0, st.s1) - r)
    <3>1. Whole(x1, x2) \in Nat /\ Whole(s0, st.s1) \in Nat
      BY <1>1, WordNatural
    <3>2. QED
      BY <1>10, <2>1, <2>6, <3>1
  <2>9. RootWords(N, r, new)
    BY <1>11, <1>15, <2>4, <2>5, <2>6, <2>7, <2>8, RootWordsStep
  <2>10. QED
    BY <1>8, <2>6, <2>9 DEF new
<1>16. CASE ~fits
  <2> DEFINE y == Doubled(x1, x2)
  <2>1. y \in Nat \X Nat /\ IsWord(y[2]) /\ Whole(y[1], y[2]) = 2 * Whole(x1, x2)
    BY <1>1, DoubledIs
  <2>2. new = [st EXCEPT !.x = y]
    BY <1>14, <1>16
  <2> HIDE DEF y
  <2>3. /\ new \in WordStates /\ new.x = y /\ new.s0 = s0 /\ new.s1 = st.s1
        /\ new.q = st.q /\ new.q1 = st.q1
    BY <1>1, <2>1, <2>2 DEF WordStates
  <2>4. RootWords(N, r, new)
    BY <1>1, <1>11, <1>16, <2>1, <2>3, RootWordsStep
  <2>5. MultipleOf(new.s1, r)
    <3>1. new.s1 = r * (2 * c) /\ 2 * c \in Nat
      BY <1>4, <2>3
    <3>2. QED
      BY <3>1 DEF MultipleOf
  <2>6. QED
    BY <2>4, <2>5 DEF new
<1>17. QED
  BY <1>9, <1>15, <1>16

-----------------------------------------------------------------------------
(* The states of the two loops. *)
WordsState == [x : Int \X Int, s0 : Int, s1 : Int, q : Int, q1 : Int]
WordsStart(x) == [x |-> x, s0 |-> 0, s1 |-> 0, q |-> 0, q1 |-> 0]

LEMMA DoubledState ==
    ASSUME NEW hi \in Int, NEW lo \in Int
    PROVE  Doubled(hi, lo) \in Int \X Int
<1>1. (2 * lo) % Word \in Int
  <2> DEFINE W == Word
             a == 2 * lo
  <2>1. W \in Nat \ {0} /\ a \in Int
    BY Words
  <2> HIDE DEF W, a
  <2>2. a % W \in Int
    BY <2>1
  <2>3. QED
    BY <2>2 DEF W, a
<1>2. QED
  BY <1>1 DEF Doubled

LEMMA WordBitState ==
    ASSUME NEW st \in WordsState, NEW r \in Int
    PROVE  HighRootBit(st, r) \in WordsState /\ LowRootBit(st, r) \in WordsState
<1>1. /\ st.x \in Int \X Int /\ st.s0 \in Int /\ st.s1 \in Int /\ st.q \in Int /\ st.q1 \in Int
      /\ st.x[1] \in Int /\ st.x[2] \in Int
  BY DEF WordsState
<1>2. ASSUME NEW y \in Int \X Int PROVE [st EXCEPT !.x = y] \in WordsState
  BY DEF WordsState
<1>3. ASSUME NEW y \in Int \X Int, NEW a \in Int, NEW b \in Int
      PROVE  [st EXCEPT !.x = y, !.s0 = a, !.q = b] \in WordsState
  BY DEF WordsState
<1>4. ASSUME NEW y \in Int \X Int, NEW a \in Int, NEW b \in Int, NEW c \in Int
      PROVE  [x |-> y, s0 |-> a, s1 |-> b, q |-> st.q, q1 |-> c] \in WordsState
  BY <1>1 DEF WordsState
<1>5. \A a \in Int : a % Word \in Int
  <2> DEFINE W == Word
  <2>1. W \in Nat \ {0}
    BY Words
  <2> HIDE DEF W
  <2>2. \A a \in Int : a % W \in Int
    BY <2>1
  <2>3. QED
    BY <2>2 DEF W
<1>6. HighRootBit(st, r) \in WordsState
  <2> DEFINE t == st.s0 + r
  <2>1. CASE t <= st.x[1]
    <3> DEFINE y == Doubled(st.x[1] - t, st.x[2])
               a == t + r
               b == st.q + r
    <3>1. st.x[1] - t \in Int /\ st.x[2] \in Int /\ a \in Int /\ b \in Int
      BY <1>1
    <3>2. HighRootBit(st, r) = [st EXCEPT !.x = y, !.s0 = a, !.q = b]
      BY <2>1 DEF HighRootBit
    <3> HIDE DEF a, b, t
    <3>3. y \in Int \X Int
      BY <3>1, DoubledState
    <3> HIDE DEF y
    <3>4. [st EXCEPT !.x = y, !.s0 = a, !.q = b] \in WordsState
      BY <1>3, <3>1, <3>3, Zenon
    <3>5. QED
      BY <3>2, <3>4, Zenon
  <2>2. CASE ~(t <= st.x[1])
    <3>1. HighRootBit(st, r) = [st EXCEPT !.x = Doubled(st.x[1], st.x[2])]
      BY <2>2 DEF HighRootBit
    <3>2. QED
      BY <1>1, <1>2, <3>1, DoubledState
  <2>3. QED
    BY <2>1, <2>2
<1>7. LowRootBit(st, r) \in WordsState
  <2> DEFINE t1 == (st.s1 + r) % Word
             s1 == (t1 + r) % Word
             fits == st.s0 < st.x[1] \/ (st.s0 = st.x[1] /\ t1 <= st.x[2])
             carry == IF TopSet(t1) /\ ~TopSet(s1) THEN 1 ELSE 0
             borrow == IF st.x[2] < t1 THEN 1 ELSE 0
             lo == (st.x[2] - t1) % Word
             hi == st.x[1] - st.s0 - borrow
             less == Doubled(hi, lo)
             u == st.s0 + carry
             v == st.q1 + r
  <2>1. LowRootBit(st, r) =
            IF fits THEN [x |-> less, s0 |-> u, s1 |-> s1, q |-> st.q, q1 |-> v]
            ELSE [st EXCEPT !.x = Doubled(@[1], @[2])]
    BY Zenon DEF LowRootBit
  <2>2. carry \in Int /\ borrow \in Int
    OBVIOUS
  <2> HIDE DEF carry, borrow
  <2>3. t1 \in Int
    <3>1. st.s1 + r \in Int
      BY <1>1
    <3>2. QED
      BY <1>5, <3>1
  <2> HIDE DEF t1
  <2>4. s1 \in Int /\ lo \in Int
    <3>1. t1 + r \in Int /\ st.x[2] - t1 \in Int
      BY <1>1, <2>3
    <3>2. QED
      BY <1>5, <3>1
  <2>5. hi \in Int /\ u \in Int /\ v \in Int
    BY <1>1, <2>2
  <2> HIDE DEF fits, hi, lo, u, v, s1
  <2>6. less \in Int \X Int /\ Doubled(st.x[1], st.x[2]) \in Int \X Int
    BY <1>1, <2>4, <2>5, DoubledState
  <2> HIDE DEF less
  <2>7. CASE fits
    BY <1>4, <2>1, <2>4, <2>5, <2>6, <2>7
  <2>8. CASE ~fits
    <3>1. LowRootBit(st, r) = [st EXCEPT !.x = Doubled(st.x[1], st.x[2])]
      BY <2>1, <2>8
    <3>2. QED
      BY <1>2, <2>6, <3>1
  <2>9. QED
    BY <2>7, <2>8
<1>8. QED
  BY <1>6, <1>7

HighRooted(st, x, n) ==
    /\ st[0] = WordsStart(x)
    /\ \A k \in 1 .. n : st[k] = HighRootBit(st[k - 1], TwoTo[n - k])

LEMMA HighHasStates ==
    ASSUME NEW x \in Int \X Int
    PROVE  \E st : HighRooted(st, x, HighBits + 2) /\ HighRoot(x) = st[HighBits + 2]
<1> DEFINE n == HighBits + 2
           V == WordsState
           h == [k \in 1 .. n |-> [st \in V |-> HighRootBit(st, TwoTo[n - k])]]
           next(g) == [k \in 0 .. n |-> IF k = 0 THEN WordsStart(x) ELSE HighRootBit(g[k - 1], TwoTo[n - k])]
           st == CHOOSE g : g = next(g)
<1>1. n \in Nat
  BY WidthAssumption
<1>2. HighRoot(x) = st[n]
  BY Zenon DEF HighRoot, WordsStart
<1>3. StepsOf(V, WordsStart(x), n, h)
  <2>1. WordsStart(x) \in V
    BY DEF WordsStart, WordsState
  <2>2. ASSUME NEW k \in 1 .. n, NEW s \in V PROVE HighRootBit(s, TwoTo[n - k]) \in V
    <3>1. n - k \in Nat
      BY <1>1
    <3>2. TwoTo[n - k] \in Int
      BY <3>1, TwoToIs
    <3>3. QED
      BY <3>2, WordBitState
  <2> HIDE DEF V, n
  <2>3. QED
    BY <1>1, <2>1, <2>2 DEF StepsOf
<1> HIDE DEF n
<1>4. PICK g : Follows(g, V, WordsStart(x), n, h)
  <2> HIDE DEF h, V
  <2>1. QED
    BY <1>3, RecursiveFunction, Zenon
<1>5. g = next(g)
  <2>1. /\ g \in [0 .. n -> V] /\ g[0] = WordsStart(x)
        /\ \A k \in 1 .. n : g[k] = h[k][g[k - 1]]
    BY <1>4, Zenon DEF Follows
  <2> HIDE DEF V
  <2>2. ASSUME NEW k \in 1 .. n PROVE g[k] = HighRootBit(g[k - 1], TwoTo[n - k])
    <3>1. k - 1 \in 0 .. n
      BY <1>1
    <3>2. g[k - 1] \in V
      BY <2>1, <3>1, Zenon
    <3>3. QED
      BY <2>1, <3>2, Zenon
  <2>3. QED
    BY <1>1, <2>1, <2>2
<1> HIDE DEF h
<1>6. st = next(st)
  <2> HIDE DEF next
  <2>1. QED
    BY <1>5, Zenon
<1>7. st[0] = WordsStart(x) /\ \A k \in 1 .. n : st[k] = HighRootBit(st[k - 1], TwoTo[n - k])
  <2> HIDE DEF st
  <2>1. ASSUME NEW k \in 0 .. n
        PROVE  st[k] = IF k = 0 THEN WordsStart(x) ELSE HighRootBit(st[k - 1], TwoTo[n - k])
    BY <1>6, Zenon
  <2>2. 0 \in 0 .. n /\ \A k \in 1 .. n : k \in 0 .. n /\ k # 0
    BY <1>1
  <2>3. QED
    BY <2>1, <2>2, Zenon
<1> HIDE DEF st
<1>8. HighRooted(st, x, n)
  BY <1>7, Zenon DEF HighRooted
<1>9. QED
  BY <1>2, <1>8, Zenon DEF n

LowRooted(st, high) ==
    /\ st[0] = high
    /\ \A k \in 1 .. LowBits : st[k] = LowRootBit(st[k - 1], TwoTo[LowBits - k])

LEMMA LowHasStates ==
    ASSUME NEW high \in WordsState
    PROVE  \E st : LowRooted(st, high) /\ LowRoot(high) = st[LowBits]
<1> DEFINE n == LowBits
           V == WordsState
           h == [k \in 1 .. n |-> [st \in V |-> LowRootBit(st, TwoTo[n - k])]]
           next(g) == [k \in 0 .. n |-> IF k = 0 THEN high ELSE LowRootBit(g[k - 1], TwoTo[n - k])]
           st == CHOOSE g : g = next(g)
<1>1. n \in Nat
  BY WidthAssumption
<1>2. LowRoot(high) = st[n]
  BY Zenon DEF LowRoot
<1>3. StepsOf(V, high, n, h)
  <2>2. ASSUME NEW k \in 1 .. n, NEW s \in V PROVE LowRootBit(s, TwoTo[n - k]) \in V
    <3>1. n - k \in Nat
      BY <1>1
    <3>2. TwoTo[n - k] \in Int
      BY <3>1, TwoToIs
    <3>3. QED
      BY <3>2, WordBitState
  <2> HIDE DEF n
  <2>3. high \in V
    OBVIOUS
  <2> HIDE DEF V
  <2>4. QED
    BY <1>1, <2>2, <2>3 DEF StepsOf
<1> HIDE DEF n
<1>4. PICK g : Follows(g, V, high, n, h)
  <2> HIDE DEF h, V
  <2>1. QED
    BY <1>3, RecursiveFunction, Zenon
<1>5. g = next(g)
  <2>1. /\ g \in [0 .. n -> V] /\ g[0] = high
        /\ \A k \in 1 .. n : g[k] = h[k][g[k - 1]]
    BY <1>4, Zenon DEF Follows
  <2> HIDE DEF V
  <2>2. ASSUME NEW k \in 1 .. n PROVE g[k] = LowRootBit(g[k - 1], TwoTo[n - k])
    <3>1. k - 1 \in 0 .. n
      BY <1>1
    <3>2. g[k - 1] \in V
      BY <2>1, <3>1, Zenon
    <3>3. QED
      BY <2>1, <3>2, Zenon
  <2>3. QED
    BY <1>1, <2>1, <2>2
<1> HIDE DEF h
<1>6. st = next(st)
  <2> HIDE DEF next
  <2>1. QED
    BY <1>5, Zenon
<1>7. st[0] = high /\ \A k \in 1 .. n : st[k] = LowRootBit(st[k - 1], TwoTo[n - k])
  <2> HIDE DEF st
  <2>1. ASSUME NEW k \in 0 .. n
        PROVE  st[k] = IF k = 0 THEN high ELSE LowRootBit(st[k - 1], TwoTo[n - k])
    BY <1>6, Zenon
  <2>2. 0 \in 0 .. n /\ \A k \in 1 .. n : k \in 0 .. n /\ k # 0
    BY <1>1
  <2>3. QED
    BY <2>1, <2>2, Zenon
<1> HIDE DEF st
<1>8. LowRooted(st, high)
  BY <1>7, Zenon DEF LowRooted, n
<1>9. QED
  BY <1>2, <1>8, Zenon DEF n

(* Both loops on z: the root of z * 2^(HighBits + LowBits + 2). *)
LEMMA StartsUp ==
    ASSUME NEW R \in Nat \ {0}, NEW z \in Nat, z < R
    PROVE  RootUpTo(z * R, R, 2 * z, 0, 0)
<1> DEFINE N == z * R
           S == R * R
<1>1. N \in Nat /\ S \in Nat
  OBVIOUS
<1>2. (2 * z) * R = 2 * N
  OBVIOUS
<1>3. N < S
  <2>1. R * (z + 1) <= R * R
    BY TimesOrder
  <2>2. R * (z + 1) = N + R
    OBVIOUS
  <2> HIDE DEF N
  <2>3. QED
    BY <1>1, <2>1, <2>2
<1>4. (0 + R) * (0 + R) = S /\ 0 * 0 = 0
  OBVIOUS
<1> HIDE DEF N, S
<1>5. RootUpTo(N, R, 2 * z, 0, 0)
  BY <1>1, <1>2, <1>3, <1>4 DEF RootUpTo
<1>6. QED
  BY <1>5 DEF N

LEMMA HighRootIs ==
    ASSUME NEW z \in Nat, NEW R \in Nat \ {0}, R = Word * TwoTo[HighBits + 2], z < R,
           NEW x \in Nat \X Nat, IsWord(x[2]), Whole(x[1], x[2]) = 2 * z
    PROVE  LET st == HighRoot(x)
           IN  RootWords(z * R, Word, st) /\ st.s1 = 0 /\ st.q1 = 0
<1> DEFINE n == HighBits + 2
           N == z * R
           good(s, k) == RootWords(N, Word * TwoTo[n - k], s) /\ s.s1 = 0 /\ s.q1 = 0
<1>1. n \in Nat /\ N \in Nat /\ IsWord(0)
  BY WidthAssumption, Words DEF IsWord
<1>2. PICK st : HighRooted(st, x, n) /\ HighRoot(x) = st[n]
  <2>1. x \in Int \X Int
    OBVIOUS
  <2>2. QED
    BY <2>1, HighHasStates
<1> DEFINE S == {k \in 0 .. n : good(st[k], k)}
<1>3. 0 \in S
  <2>1. st[0] = WordsStart(x)
    BY <1>2 DEF HighRooted
  <2>2. /\ st[0] \in WordStates /\ st[0].x = x /\ st[0].s0 = 0 /\ st[0].s1 = 0
        /\ st[0].q = 0 /\ st[0].q1 = 0
    BY <2>1 DEF WordsStart, WordStates
  <2>3. n - 0 = n /\ 0 \in 0 .. n
    BY <1>1
  <2>4. RootUpTo(N, R, 2 * z, 0, 0)
    BY StartsUp
  <2>5. Whole(0, 0) = 0
    <3>1. 0 * Word = 0
      BY Words
    <3>2. QED
      BY <3>1 DEF Whole
  <2> HIDE DEF N
  <2>6. RootWords(N, Word * TwoTo[n], st[0])
    BY <1>1, <2>2, <2>4, <2>5 DEF RootWords
  <2> HIDE DEF n
  <2>7. QED
    BY <2>2, <2>3, <2>6
<1>4. ASSUME NEW k \in 1 .. n, k - 1 \in S PROVE k \in S
  <2> DEFINE r == TwoTo[n - k]
             s == st[k - 1]
  <2>1. n - k \in Nat /\ n - (k - 1) = (n - k) + 1
    BY <1>1
  <2>2. r \in Nat \ {0} /\ TwoTo[n - (k - 1)] = 2 * r
    BY <2>1, TwoToIs, TwoToPositive
  <2>3. Word * (2 * r) = 2 * (Word * r)
    <3> HIDE DEF r
    <3>1. QED
      BY <2>2, Words
  <2>4. RootWords(N, 2 * (Word * r), s) /\ s.s1 = 0 /\ s.q1 = 0
    <3> HIDE DEF N, r, n
    <3>1. QED
      BY <1>4, <2>2, <2>3
  <2>5. st[k] = HighRootBit(s, r)
    BY <1>2 DEF HighRooted
  <2> HIDE DEF s, r, N
  <2>6. RootWords(N, Word * r, HighRootBit(s, r)) /\ HighRootBit(s, r).s1 = 0 /\ HighRootBit(s, r).q1 = 0
    BY <1>1, <2>2, <2>4, NextHighBit
  <2>7. k \in 0 .. n
    BY <1>1
  <2>8. QED
    BY <2>5, <2>6, <2>7 DEF r
<1> HIDE DEF S
<1>5. 0 .. n \subseteq S
  BY <1>1, <1>3, <1>4, InductionUpTo
<1>6. n \in 0 .. n /\ n - n = 0
  BY <1>1
<1>7. Word * TwoTo[0] = Word
  BY Words, TwoToIs
<1> HIDE DEF n, N
<1>8. QED
  BY <1>2, <1>5, <1>6, <1>7 DEF S, N

LEMMA LowRootIs ==
    ASSUME NEW N \in Nat, NEW high, RootWords(N, Word, high), high.s1 = 0
    PROVE  RootWords(N, 1, LowRoot(high))
<1> DEFINE n == LowBits
           good(s, k) == RootWords(N, TwoTo[n - k], s) /\ MultipleOf(s.s1, TwoTo[n - k])
<1>1. n \in Nat
  BY WidthAssumption
<1>2. PICK st : LowRooted(st, high) /\ LowRoot(high) = st[n]
  <2>1. high \in WordsState
    BY DEF RootWords, WordStates, WordsState
  <2>2. QED
    BY <2>1, LowHasStates
<1> DEFINE S == {k \in 0 .. n : good(st[k], k)}
<1>3. 0 \in S
  <2>1. st[0] = high
    BY <1>2 DEF LowRooted
  <2>2. n - 0 = n /\ 0 \in 0 .. n
    BY <1>1
  <2>3. TwoTo[n] = Word /\ TwoTo[n] \in Nat
    BY <1>1, TwoToIs DEF Word
  <2>4. MultipleOf(high.s1, TwoTo[n])
    <3>1. high.s1 = TwoTo[n] * 0
      BY <2>3
    <3>2. QED
      BY <3>1 DEF MultipleOf
  <2> HIDE DEF n
  <2>5. QED
    BY <2>1, <2>2, <2>3, <2>4
<1>4. ASSUME NEW k \in 1 .. n, k - 1 \in S PROVE k \in S
  <2> DEFINE r == TwoTo[n - k]
             s == st[k - 1]
  <2>1. n - k \in Nat /\ n - (k - 1) = (n - k) + 1 /\ k - 1 \in Nat /\ (n - (k - 1)) + (k - 1) = n
        /\ n - (k - 1) \in Nat
    BY <1>1
  <2>2. r \in Nat \ {0} /\ TwoTo[n - (k - 1)] = 2 * r
    BY <2>1, TwoToIs, TwoToPositive
  <2>3. MultipleOf(Word, 2 * r)
    <3>1. TwoTo[(n - (k - 1)) + (k - 1)] = TwoTo[n - (k - 1)] * TwoTo[k - 1]
      BY <2>1, TwoToAdds
    <3>2. Word = (2 * r) * TwoTo[k - 1] /\ TwoTo[k - 1] \in Nat
      BY <2>1, <2>2, <3>1, TwoToIs DEF Word
    <3>3. QED
      BY <3>2 DEF MultipleOf
  <2>4. RootWords(N, 2 * r, s) /\ MultipleOf(s.s1, 2 * r)
    <3> HIDE DEF r, n
    <3>1. QED
      BY <1>4, <2>2
  <2>5. st[k] = LowRootBit(s, r)
    BY <1>2 DEF LowRooted
  <2> HIDE DEF s, r
  <2>6. RootWords(N, r, LowRootBit(s, r)) /\ MultipleOf(LowRootBit(s, r).s1, r)
    BY <2>2, <2>3, <2>4, NextLowBit
  <2>7. k \in 0 .. n
    BY <1>1
  <2>8. QED
    BY <2>5, <2>6, <2>7 DEF r
<1> HIDE DEF S
<1>5. 0 .. n \subseteq S
  BY <1>1, <1>3, <1>4, InductionUpTo
<1>6. n \in 0 .. n /\ n - n = 0 /\ TwoTo[0] = 1
  BY <1>1, TwoToIs
<1> HIDE DEF n
<1>7. QED
  BY <1>2, <1>5, <1>6 DEF S

(* The rounding of the two words. *)
LEMMA RootMantissaIs ==
    ASSUME NEW st \in WordStates, IsWord(st.x[2])
    PROVE  RootMantissa(st) = RoundedUp(Whole(st.q, st.q1), Whole(st.x[1], st.x[2]))
<1> DEFINE W == Word
           q == st.q
           q1 == st.q1
           inexact == st.x # <<0, 0>>
<1>1. PICK w \in Nat \ {0} : W = 2 * w /\ W \div 2 = w
  BY Words
<1>2. q \in Nat /\ q1 \in Nat /\ st.x \in Nat \X Nat /\ st.x[1] \in Nat /\ st.x[2] \in Nat
  BY DEF WordStates
<1>3. inexact <=> Whole(st.x[1], st.x[2]) # 0
  <2> DEFINE a == st.x[1]
             b == st.x[2]
  <2>1. inexact <=> a # 0 \/ b # 0
    BY <1>2
  <2>2. a # 0 => a * W # 0
    BY <1>1, <1>2
  <2>3. a * W \in Nat /\ (a = 0 => a * W = 0)
    BY <1>1, <1>2
  <2> HIDE DEF a, b, W, inexact
  <2>4. QED
    BY <1>2, <2>1, <2>2, <2>3 DEF Whole, W, a, b
<1>4. (q * W + q1) % 2 = q1 % 2 /\ q * W \in Nat
  <2> DEFINE h == q1 \div 2
             o == q1 % 2
             p == q * W + q1
  <2>1. q1 = 2 * h + o /\ o \in Nat /\ o < 2 /\ h \in Int
    BY <1>2
  <2>2. q * W = 2 * (q * w) /\ q * w \in Nat
    BY <1>1, <1>2
  <2> HIDE DEF h, o, W
  <2>3. p = 2 * (q * w + h) + o /\ p \in Int /\ q * w + h \in Int
    BY <1>2, <2>1, <2>2
  <2> HIDE DEF p
  <2>4. p % 2 = o
    BY <2>1, <2>3, DivisionIsUnique
  <2>5. QED
    BY <1>2, <2>2, <2>4 DEF p, o
<1>5. Whole(q, q1) = q * W + q1
  BY DEF Whole
<1>6. ~inexact => RootMantissa(st) = q * W + q1
  BY DEF RootMantissa
<1>7. inexact /\ q1 # W - 1 => RootMantissa(st) = q * W + (q1 + (q1 % 2))
  BY DEF RootMantissa
<1>8. inexact /\ q1 = W - 1 => RootMantissa(st) = (q * W + q1) + (q1 % 2)
  <2>1. ASSUME inexact, q1 = W - 1 PROVE RootMantissa(st) = (q + 1) * W
    BY <2>1 DEF RootMantissa
  <2>2. (q + 1) * W = q * W + W
    BY <1>1, <1>2
  <2>3. q1 = W - 1 => q1 % 2 = 1
    <3> HIDE DEF q1, W
    <3>1. QED
      BY <1>1
  <2> HIDE DEF inexact, W, q, q1
  <2>4. QED
    BY <1>1, <1>2, <1>4, <2>1, <2>2, <2>3
<1> HIDE DEF inexact, W, q, q1
<1>9. QED
  BY <1>2, <1>3, <1>4, <1>5, <1>6, <1>7, <1>8 DEF RoundedUp, q, q1

-----------------------------------------------------------------------------
(* A root nearest to that of x, in units of 1 / G, cut off to an int. *)
LEMMA CutOffRoot ==
    ASSUME NEW x \in Nat, NEW k \in Nat, NEW G \in Nat \ {0}, k < G,
           NEW y \in Nat, G * k <= y, y < G * (k + 1), Nearest(y, 4 * (x * (G * G)))
    PROVE  k * k <= x /\ x < (k + 1) * (k + 1)
<1> DEFINE F == G * G
           a == G * k
<1>1. F \in Nat /\ a \in Nat /\ G * (k + 1) = a + G
  OBVIOUS
<1>2. /\ (2 * y - 1) * (2 * y - 1) <= 4 * (x * F)
      /\ 4 * (x * F) <= (2 * y + 1) * (2 * y + 1)
  BY DEF Nearest
<1>3. x < (k + 1) * (k + 1)
  <2> SUFFICES ASSUME x >= (k + 1) * (k + 1) PROVE FALSE
    OBVIOUS
  <2> DEFINE u == 2 * (a + G)
             v == 2 * y + 1
             kk == (k + 1) * (k + 1)
  <2>1. F * kk <= F * x
    <3> HIDE DEF F
    <3>1. kk \in Int /\ kk <= x
      OBVIOUS
    <3> HIDE DEF kk
    <3>2. QED
      BY <1>1, <3>1, TimesOrder
  <2>2. u * u = 4 * (F * kk)
    OBVIOUS
  <2>3. F * x = x * F
    <3> HIDE DEF F
    <3>1. QED
      BY <1>1
  <2>4. u \in Nat /\ v \in Nat /\ v < u
    <3> HIDE DEF a
    <3>1. QED
      BY <1>1
  <2>5. F * kk \in Int /\ F * x \in Int
    <3> HIDE DEF F
    <3>1. kk \in Int
      OBVIOUS
    <3> HIDE DEF kk
    <3>2. QED
      BY <1>1, <3>1
  <2>6. u * u <= v * v
    <3> HIDE DEF u, F, kk
    <3>1. QED
      BY <1>2, <2>1, <2>2, <2>3, <2>5 DEF v
  <2> HIDE DEF u, v
  <2>7. v * v <= v * u /\ u * v < u * u
    BY <2>4
  <2>8. v * u = u * v /\ u * u \in Int /\ v * v \in Int /\ u * v \in Int
    BY <2>4
  <2>9. QED
    BY <2>6, <2>7, <2>8
<1>4. k * k <= x
  <2> SUFFICES ASSUME x < k * k PROVE FALSE
    OBVIOUS
  <2> DEFINE u == 2 * a - 1
             v == 2 * y - 1
             kk == k * k
  <2>1. kk \in Nat /\ x + 1 <= kk /\ k # 0
    OBVIOUS
  <2>2. F * (x + 1) <= F * kk
    <3> HIDE DEF F, kk
    <3>1. QED
      BY <1>1, <2>1, TimesOrder
  <2>3. a # 0 /\ u \in Nat /\ v \in Nat /\ u <= v
    <3>1. a # 0
      BY <2>1
    <3> HIDE DEF a
    <3>2. QED
      BY <1>1, <3>1 DEF a
  <2>4. u * u <= v * v
    <3> HIDE DEF u, v
    <3>1. u * u <= u * v /\ v * u <= v * v /\ u * v = v * u
      BY <2>3
    <3>2. u * u \in Int /\ u * v \in Int /\ v * v \in Int
      BY <2>3
    <3>3. QED
      BY <3>1, <3>2
  <2>5. u * u = (4 * (a * a) - 4 * a) + 1 /\ a * a = F * kk
    <3>1. a * a = F * kk
      OBVIOUS
    <3>2. u * u = (4 * (a * a) - 4 * a) + 1
      <4> HIDE DEF a
      <4>1. QED
        BY <1>1
    <3>3. QED
      BY <3>1, <3>2
  <2>6. F * (x + 1) = x * F + F /\ F * kk \in Int /\ x * F \in Int
    <3> HIDE DEF F, kk
    <3>1. QED
      BY <1>1, <2>1
  <2>7. a < F
    <3>1. a + G <= F
      <4>1. G * (k + 1) <= G * G
        BY TimesOrder
      <4>2. QED
        BY <1>1, <4>1
    <3> HIDE DEF a, F
    <3>2. QED
      BY <1>1, <3>1
  <2>8. u * u <= 4 * (x * F)
    <3>1. v * v = (2 * y - 1) * (2 * y - 1)
      OBVIOUS
    <3>2. u * u \in Int /\ v * v \in Int
      <4> HIDE DEF u, v
      <4>1. QED
        BY <2>3
    <3> HIDE DEF u, v, F
    <3>3. QED
      BY <1>2, <2>4, <2>6, <3>1, <3>2
  <2> HIDE DEF a, F, kk, u, v
  <2>9. QED
    BY <1>1, <2>2, <2>5, <2>6, <2>7, <2>8
<1>5. QED
  BY <1>3, <1>4

(* What sqrt makes of an int's mantissa. *)
LEMMA WordsRoot ==
    ASSUME NEW H \in Nat \ {0}, H = TwoTo[HighBits + LowBits], NEW z \in H .. 4 * H - 2
    PROVE  LET y == RootMantissa(LowRoot(HighRoot(Doubled(z \div Word, z % Word)))) \div 2
           IN  y \in 0 .. 2 * H - 1 /\ Nearest(y, z * (4 * H))
<1> DEFINE W == Word
           R == 4 * H
           N == z * R
           x == Doubled(z \div W, z % W)
           high == HighRoot(x)
           st == LowRoot(high)
           q == Whole(st.q, st.q1)
           y == RootMantissa(st) \div 2
<1>1. W \in Nat \ {0} /\ z \in Nat /\ R \in Nat \ {0} /\ z < R /\ N \in Nat
  BY Words
<1>2. R = W * TwoTo[HighBits + 2]
  <2>1. HighBits \in Nat /\ LowBits \in Nat /\ HighBits + 1 \in Nat /\ HighBits + 2 = (HighBits + 1) + 1
    BY WidthAssumption
  <2>2. TwoTo[HighBits + 2] = 4 * TwoTo[HighBits] /\ TwoTo[HighBits] \in Nat
    BY <2>1, TwoToIs
  <2>3. H = TwoTo[HighBits] * W
    BY <2>1, TwoToAdds DEF Word
  <2> HIDE DEF W
  <2>4. QED
    BY <1>1, <2>2, <2>3
<1>3. x \in Nat \X Nat /\ IsWord(x[2]) /\ Whole(x[1], x[2]) = 2 * z
  <2> DEFINE hi == z \div W
             lo == z % W
  <2>1. z = W * hi + lo /\ lo \in Nat /\ lo < W /\ hi \in Int
    <3> HIDE DEF W
    <3>1. QED
      BY <1>1, Division
  <2>2. hi \in Nat
    <3> SUFFICES ASSUME hi < 0 PROVE FALSE
      BY <2>1
    <3> HIDE DEF hi, lo, W
    <3>1. W * (hi + 1) <= W * 0
      BY <1>1, <2>1, TimesOrder
    <3>2. W * (hi + 1) = W * hi + W /\ W * 0 = 0
      BY <1>1, <2>1
    <3>3. W * hi \in Int
      BY <1>1, <2>1
    <3>4. QED
      BY <1>1, <2>1, <3>1, <3>2, <3>3
  <2>3. IsWord(lo)
    BY <1>1, <2>1 DEF IsWord
  <2>4. Whole(hi, lo) = z
    <3> HIDE DEF hi, lo
    <3>1. W * hi = hi * W
      BY <1>1, <2>1
    <3>2. QED
      BY <2>1, <3>1 DEF Whole
  <2> HIDE DEF hi, lo
  <2>5. QED
    BY <2>2, <2>3, <2>4, DoubledIs DEF hi, lo
<1> HIDE DEF x
<1>4. RootWords(N, W, high) /\ high.s1 = 0
  BY <1>1, <1>2, <1>3, HighRootIs
<1> HIDE DEF high
<1>5. RootWords(N, 1, st)
  <2> HIDE DEF N
  <2>1. QED
    BY <1>1, <1>4, LowRootIs
<1> HIDE DEF st
<1>6. /\ st \in WordStates /\ IsWord(st.x[2])
      /\ RootUpTo(N, 1, Whole(st.x[1], st.x[2]), Whole(st.s0, st.s1), q)
  BY <1>5 DEF RootWords
<1>7. q \in Nat /\ q * q <= N /\ N < (q + 1) * (q + 1)
  BY <1>6 DEF RootUpTo
<1> HIDE DEF q
<1>8. q \in 2 * H .. 4 * H - 2
  BY <1>7, RootRange
<1>9. RootMantissa(st) = RoundedUp(q, Whole(st.x[1], st.x[2]))
  BY <1>6, RootMantissaIs DEF q
<1>10. y \in Nat /\ Nearest(y, N) /\ 2 * y \in {q - 1, q, q + 1}
  <2>1. q # 0
    BY <1>8
  <2> HIDE DEF N
  <2>2. QED
    BY <1>1, <1>6, <1>9, <2>1, RoundsToNearest
<1> HIDE DEF y, N
<1>11. y \in 0 .. 2 * H - 1
  BY <1>8, <1>10
<1>12. QED
  BY <1>10, <1>11 DEF y, N, st, high, x

LEMMA HighestBit ==
    ASSUME NEW L \in Nat, NEW x \in Nat \ {0}, x < TwoTo[L]
    PROVE  LET m == Max({i \in 0 .. L : TwoTo[i] <= x})
           IN  m \in 0 .. L - 1 /\ TwoTo[m] <= x /\ x < TwoTo[m + 1]
<1> DEFINE S == {i \in 0 .. L : TwoTo[i] <= x}
           n == Min({j \in 0 .. L : x < TwoTo[j]})
<1>1. n \in 0 .. L /\ x < TwoTo[n] /\ \A j \in 0 .. L : x < TwoTo[j] => n <= j
  <2> DEFINE T == {j \in 0 .. L : x < TwoTo[j]}
  <2>1. L \in T /\ T \in SUBSET Nat
    OBVIOUS
  <2> HIDE DEF T
  <2>2. Min(T) \in T /\ \A j \in T : Min(T) <= j
    BY <2>1, LeastOf
  <2>3. QED
    BY <2>2 DEF T
<1> HIDE DEF n
<1>2. n # 0
  BY <1>1, TwoToIs
<1> DEFINE m == n - 1
<1>3. m \in 0 .. L - 1 /\ m + 1 = n /\ m \in 0 .. L
  BY <1>1, <1>2
<1>4. TwoTo[m] <= x
  <2>1. ~(x < TwoTo[m])
    BY <1>1, <1>3
  <2>2. TwoTo[m] \in Nat
    BY <1>3, TwoToIs
  <2>3. QED
    BY <2>1, <2>2
<1> HIDE DEF m
<1>5. \A i \in S : m >= i
  <2> SUFFICES ASSUME NEW i \in 0 .. L, TwoTo[i] <= x, ~(m >= i) PROVE FALSE
    OBVIOUS
  <2>1. n <= i /\ n \in Nat
    BY <1>1, <1>3
  <2>2. TwoTo[n] <= TwoTo[i]
    BY <2>1, TwoToGrows
  <2>3. TwoTo[n] \in Nat /\ TwoTo[i] \in Nat
    BY <2>1, TwoToIs
  <2>4. QED
    BY <1>1, <2>2, <2>3
<1>6. Max(S) = m
  <2>1. m \in S /\ S \in SUBSET Int
    BY <1>3, <1>4
  <2> HIDE DEF S
  <2>2. QED
    BY <1>5, <2>1, GreatestIs
<1>7. QED
  BY <1>1, <1>3, <1>4, <1>6

LEMMA PositiveRootIsRoot ==
    ASSUME NEW x \in Nat \ {0}, x < TwoTo[HighBits + LowBits]
    PROVE  /\ PositiveRoot(x) * PositiveRoot(x) <= x
           /\ x < (PositiveRoot(x) + 1) * (PositiveRoot(x) + 1)
<1> DEFINE L == HighBits + LowBits
           H == TwoTo[L]
           m == Max({i \in 0 .. L : TwoTo[i] <= x})
           h == m \div 2
           o == m % 2
           z == x * TwoTo[L - m] * (IF m % 2 = 1 THEN 2 ELSE 1)
           root == RootMantissa(LowRoot(HighRoot(Doubled(z \div Word, z % Word))))
           y == root \div 2
           g == TwoTo[h]
           G == TwoTo[L - h]
           E == TwoTo[L - 2 * h]
           T == TwoTo[L - m]
           k == y \div G
<1>1. L \in Nat /\ H \in Nat \ {0}
  BY WidthAssumption, TwoToPositive
<1>2. m \in 0 .. L - 1 /\ TwoTo[m] <= x /\ x < TwoTo[m + 1]
  <2> HIDE DEF L
  <2>1. QED
    BY <1>1, HighestBit DEF L
<1>3. PositiveRoot(x) = (y * g) \div H
  BY Zenon DEF PositiveRoot
<1> HIDE DEF m, L, root
<1>4. m = 2 * h + o /\ o \in {0, 1} /\ h \in Nat /\ m \in Nat
  BY <1>1, <1>2
<1> HIDE DEF h, o
<1>5. /\ L - h \in Nat /\ L - m \in Nat /\ L - 2 * h \in Nat /\ (L - m) + o = L - 2 * h
      /\ (L - h) + h = L /\ (L - 2 * h) + L = (L - h) + (L - h) /\ (L - m) + m = L /\ h + 1 <= L - h
      /\ (L - m) # 0
  BY <1>1, <1>2, <1>4
<1>6. g \in Nat \ {0} /\ G \in Nat \ {0} /\ E \in Nat \ {0} /\ T \in Nat \ {0}
  BY <1>4, <1>5, TwoToPositive
<1>7. H = G * g /\ E * H = G * G /\ H = T * TwoTo[m] /\ 2 * g <= G
  <2>1. 2 * g = TwoTo[h + 1] /\ h + 1 \in Nat
    BY <1>4, TwoToIs
  <2>2. TwoTo[h + 1] <= TwoTo[L - h]
    BY <1>5, <2>1, TwoToGrows
  <2>3. TwoTo[(L - h) + h] = G * g
    BY <1>4, <1>5, TwoToAdds
  <2>4. TwoTo[(L - 2 * h) + L] = E * H
    BY <1>1, <1>5, TwoToAdds
  <2>5. TwoTo[(L - h) + (L - h)] = G * G
    BY <1>5, TwoToAdds
  <2>6. TwoTo[(L - m) + m] = T * TwoTo[m]
    BY <1>4, <1>5, TwoToAdds
  <2>7. QED
    BY <1>5, <2>1, <2>2, <2>3, <2>4, <2>5, <2>6
<1>8. z = x * E
  <2>1. TwoTo[o] = (IF o = 1 THEN 2 ELSE 1)
    BY <1>4, TwoToIs
  <2>2. E = T * TwoTo[o]
    <3>1. o \in Nat
      BY <1>4
    <3>2. TwoTo[(L - m) + o] = TwoTo[L - m] * TwoTo[o]
      BY <1>5, <3>1, TwoToAdds
    <3>3. QED
      BY <1>5, <3>2
  <2>3. z = (x * T) * TwoTo[o]
    BY <2>1 DEF o
  <2> HIDE DEF z, E, T
  <2>4. TwoTo[o] \in Nat
    BY <1>4, TwoToIs
  <2>5. QED
    BY <1>6, <2>2, <2>3, <2>4
<1>9. z \in H .. 4 * H - 2
  <2>1. T * TwoTo[m] <= T * x /\ T * (x + 1) <= T * TwoTo[m + 1]
    <3>1. TwoTo[m] \in Nat /\ TwoTo[m + 1] \in Nat /\ x + 1 <= TwoTo[m + 1]
      BY <1>2, <1>4, TwoToIs
    <3> HIDE DEF T
    <3>2. QED
      BY <1>2, <1>6, <3>1, TimesOrder
  <2>2. T * TwoTo[m + 1] = 2 * H
    <3>1. TwoTo[m + 1] = 2 * TwoTo[m] /\ TwoTo[m] \in Nat
      BY <1>4, TwoToIs
    <3> HIDE DEF T, H
    <3>2. QED
      BY <1>6, <1>7, <3>1
  <2>3. z = T * x \/ z = 2 * (T * x)
    <3> HIDE DEF T
    <3>1. QED
      BY <1>6 DEF T
  <2>4. T * (x + 1) = T * x + T /\ T * x \in Nat
    <3> HIDE DEF T
    <3>1. QED
      BY <1>6
  <2> HIDE DEF z, T, H
  <2>5. QED
    BY <1>1, <1>6, <1>7, <2>1, <2>2, <2>3, <2>4
<1>10. y \in 0 .. 2 * H - 1 /\ Nearest(y, z * (4 * H))
  <2> HIDE DEF z
  <2>1. H = TwoTo[HighBits + LowBits]
    BY DEF L
  <2> HIDE DEF H
  <2>2. QED
    BY <1>1, <1>9, <2>1, WordsRoot DEF root
<1>11. z * (4 * H) = 4 * (x * (G * G))
  <2> HIDE DEF z, E, H, G
  <2>1. z * (4 * H) = 4 * (x * (E * H))
    BY <1>1, <1>6, <1>8
  <2>2. QED
    BY <1>7, <2>1
<1> HIDE DEF y, z, H, G, g, E, T
<1>12. k \in Nat /\ G * k <= y /\ y < G * (k + 1) /\ (y * g) \div H = k
  <2> DEFINE r == y % G
  <2>1. y = G * k + r /\ r \in Nat /\ r < G /\ k \in Int
    BY <1>6, <1>10, Division
  <2> HIDE DEF k, r
  <2>2. G * (k + 1) = G * k + G /\ G * k \in Int
    BY <1>6, <2>1
  <2>3. k \in Nat
    <3> SUFFICES ASSUME k < 0 PROVE FALSE
      BY <2>1
    <3>1. G * (k + 1) <= G * 0 /\ G * 0 = 0
      BY <1>6, <2>1, TimesOrder
    <3>2. QED
      BY <1>6, <1>10, <2>1, <2>2, <3>1
  <2>4. y * g = H * k + r * g /\ r * g \in Nat /\ y * g \in Int
    <3>1. (G * k + r) * g = (G * g) * k + r * g
      BY <1>6, <2>1
    <3>2. QED
      BY <1>6, <1>7, <1>10, <2>1, <3>1
  <2>5. r * g < H
    <3>1. g * (r + 1) <= g * G
      BY <1>6, <2>1, TimesOrder
    <3>2. g * (r + 1) = r * g + g /\ g * G = G * g
      BY <1>6, <2>1
    <3>3. G * g \in Nat
      BY <1>6
    <3>4. QED
      BY <1>6, <1>7, <2>4, <3>1, <3>2, <3>3
  <2> DEFINE a == y * g
             b == r * g
  <2> HIDE DEF a, b
  <2>6. a \div H = k
    BY <1>1, <2>1, <2>4, <2>5, DivisionIsUnique DEF a, b
  <2>7. G * k <= y /\ y < G * (k + 1)
    BY <1>6, <1>10, <2>1, <2>2
  <2>8. QED
    BY <2>3, <2>6, <2>7 DEF a
<1>13. k < G
  <2> SUFFICES ASSUME G <= k PROVE FALSE
    BY <1>6, <1>12
  <2> HIDE DEF k
  <2>1. G * (2 * g) <= G * G /\ G * G <= G * k
    BY <1>6, <1>7, <1>12, TimesOrder
  <2>2. G * (2 * g) = 2 * H
    BY <1>6, <1>7
  <2>3. G * G \in Nat /\ G * k \in Nat
    BY <1>6, <1>12
  <2>4. QED
    BY <1>1, <1>10, <1>12, <2>1, <2>2, <2>3
<1> HIDE DEF k
<1>14. Nearest(y, 4 * (x * (G * G)))
  BY <1>10, <1>11
<1>15. k * k <= x /\ x < (k + 1) * (k + 1)
  <2>1. x \in Nat /\ y \in Nat
    BY <1>1, <1>10
  <2>2. QED
    BY <1>6, <1>12, <1>13, <1>14, <2>1, CutOffRoot
<1>16. QED
  BY <1>3, <1>12, <1>15

LEMMA NextRoots == Next => RootsAreNearest'
<1>1. ASSUME Next, call'.fn = "sqrt", call'.x >= 0
      PROVE  call'.root * call'.root <= call'.x /\ call'.x < (call'.root + 1) * (call'.root + 1)
  <2>1. Root
    BY <1>1, CallsOf
  <2>2. PICK x \in -MaxRoot .. MaxRoot :
            \E any : call' = [fn |-> "sqrt", x |-> x, root |-> SqrtInt(x, any)]
    BY <2>1, Zenon DEF Root, Call
  <2>3. PICK any : call'.x = x /\ call'.root = SqrtInt(x, any)
    BY <2>2
  <2>6. MaxRoot \in Nat
    BY InputsAssumption
  <2>7. CASE x = 0
    BY <2>3, <2>7 DEF SqrtInt
  <2>8. ASSUME x > 0
        PROVE  x \in Nat \ {0} /\ x < TwoTo[HighBits + LowBits]
    <3>1. HighBits + LowBits \in Nat
      BY WidthAssumption
    <3> DEFINE H == TwoTo[HighBits + LowBits]
    <3>2. H \in Nat /\ MaxRoot \in Nat /\ MaxRoot < H
      BY <3>1, TwoToIs, InputsAssumption
    <3> HIDE DEF H
    <3>3. x \in Nat \ {0} /\ x < H
      BY <2>8, <3>2
    <3>4. QED
      BY <3>3 DEF H
  <2>9. CASE x > 0
    <3>1. call'.x = x /\ call'.root = PositiveRoot(x)
      <4>1. SqrtInt(x, any) = PositiveRoot(x)
        <5>1. ~(x = 0)
          BY <2>9
        <5> DEFINE p == PositiveRoot(x)
        <5>2. SqrtInt(x, any) = CASE x > 0 -> p [] x = 0 -> x [] OTHER -> any
          BY Zenon DEF SqrtInt
        <5> HIDE DEF p
        <5>3. SqrtInt(x, any) = p
          BY <2>9, <5>1, <5>2, Zenon
        <5>4. QED
          BY <5>3 DEF p
      <4>2. QED
        BY <2>3, <4>1
    <3>2. QED
      BY <2>8, <2>9, <3>1, PositiveRootIsRoot
  <2>10. x = 0 \/ x > 0
    <3>1. x \in Int /\ x >= 0
      BY <1>1, <2>3, <2>6
    <3>2. QED
      BY <3>1
  <2>11. QED
    BY <2>7, <2>9, <2>10
<1>2. ASSUME Next, call'.fn = "classify", call'.class \in {"normal", "subnormal"}
      PROVE  LET b == call'.b  y == call'.root
                 shift == ExpOf(b) + Bias + MantBits - 2 * ExpOf(y)
                 square == 4 * MantOf(b) * TwoTo[shift]
             IN  /\ SignBit(b) = 0 =>
                        /\ FpClassify(y) = "normal"
                        /\ (2 * MantOf(y) - 1) * (2 * MantOf(y) - 1) <= square
                        /\ square <= (2 * MantOf(y) + 1) * (2 * MantOf(y) + 1)
                 /\ call'.split.m \in Hidden .. 2 * Hidden - 1
                 /\ MantOf(b) * TwoTo[ExpOf(b) + MantBits]
                        = call'.split.m * TwoTo[call'.split.e + (Bias - 1) + MantBits]
  <2>1. Classify
    BY <1>2, CallsOf
  <2>2. PICK b \in Patterns :
            call' = [fn |-> "classify", b |-> b, class |-> FpClassify(b), root |-> SqrtF(b),
                     long |-> FpClassifyL(Exponent(b), Mantissa(b) + (IF Exponent(b) = 0 THEN 0 ELSE Hidden)),
                     split |-> FrExpL(Exponent(b), Mantissa(b) + (IF Exponent(b) = 0 THEN 0 ELSE Hidden), 8)]
    BY <2>1, Zenon DEF Classify, Call
  <2> DEFINE split == FrExpL(Exponent(b), MantOf(b), 8)
             y == SqrtF(b)
  <2>3. call'.b = b /\ call'.class = FpClassify(b) /\ call'.root = y /\ call'.split = split
    <3>1. split = FrExpL(Exponent(b), Mantissa(b) + (IF Exponent(b) = 0 THEN 0 ELSE Hidden), 8)
      BY DEF MantOf
    <3> HIDE DEF split, y
    <3>2. QED
      BY <2>2, <3>1 DEF y
  <2>4. IsNumber(b)
    BY <1>2, <2>3 DEF IsNumber
  <2>5. /\ split.m \in Hidden .. 2 * Hidden - 1
        /\ MantOf(b) * TwoTo[ExpOf(b) + MantBits] = split.m * TwoTo[split.e + (Bias - 1) + MantBits]
    BY <2>4, FrExpKeeps
  <2>6. ASSUME SignBit(b) = 0
        PROVE  /\ FpClassify(y) = "normal"
               /\ Nearest(MantOf(y), 4 * MantOf(b) * TwoTo[ExpOf(b) + Bias + MantBits - 2 * ExpOf(y)])
    BY <2>4, <2>6, SqrtFIsNearest
  <2> HIDE DEF split, y
  <2>7. QED
    BY <2>3, <2>5, <2>6 DEF Nearest
<1> SUFFICES ASSUME Next PROVE RootsAreNearest'
  OBVIOUS
<1>3. QED
  BY <1>1, <1>2, Zenon DEF RootsAreNearest, In

(* sqrtf returns the float nearest to the root of every positive float,    *)
(* sqrt the int part of the root of every int from 0 on, and frexpl a      *)
(* mantissa of full width times the power that gives its argument back     *)
(* (math.cpp), for any widths of the fields: RootsAreNearest.              *)
THEOREM AlwaysRootsAreNearest == Spec => []RootsAreNearest
<1>1. Init => RootsAreNearest
  BY DEF Init, RootsAreNearest, In, Idle
<1>2. RootsAreNearest /\ [Next]_call => RootsAreNearest'
  <2>1. Next => RootsAreNearest'
    BY NextRoots
  <2>2. UNCHANGED call => (RootsAreNearest => RootsAreNearest')
    BY Zenon DEF RootsAreNearest, In
  <2>3. QED
    BY <2>1, <2>2
<1>3. QED
  BY <1>1, <1>2, PTL DEF Spec

-----------------------------------------------------------------------------
(* v is the number that n digits make. *)
IsNumeral(v, dig, n) ==
    \E up \in [0 .. n -> Int] :
        up[0] = 0 /\ up[n] = v /\ \A j \in 1 .. n : up[j] = 10 * up[j - 1] + dig[j]

EndOfDigits(s, i) == Until(i, Len(s), LAMBDA j : ~IsDigit(s, j))
DigitsFrom(s, i, n) == [j \in 1 .. n |-> Digit(s, i + j - 1)]

LEMMA DigitsEnd ==
    ASSUME NEW s \in Seq(Nat), NEW i \in 0 .. Len(s)
    PROVE  /\ EndOfDigits(s, i) \in i .. Len(s)
           /\ \A j \in i .. EndOfDigits(s, i) - 1 : Digit(s, j) \in 0 .. 9
           /\ EndOfDigits(s, i) = Len(s) \/ Digit(s, EndOfDigits(s, i)) \notin 0 .. 9
<1> DEFINE S == {j \in i .. Len(s) : ~IsDigit(s, j)}
           e == EndOfDigits(s, i)
<1>1. Len(s) \in Nat /\ i \in Nat /\ i <= Len(s) /\ S \in SUBSET (i .. Len(s))
  OBVIOUS
<1>2. e = Min({Len(s)} \cup S)
  BY Zenon DEF EndOfDigits, Until
<1>3. StopsAt(e, i, Len(s), S)
  <2> HIDE DEF S, e
  <2>1. QED
    BY <1>1, <1>2, LoopStops
<1> HIDE DEF e
<1>4. QED
  BY <1>1, <1>3 DEF StopsAt, e, IsDigit

LEMMA CharIs == \A s \in Seq(Nat), j \in Nat : At(s, j) \in Nat /\ Digit(s, j) \in Int
<1> SUFFICES ASSUME NEW s \in Seq(Nat), NEW j \in Nat PROVE At(s, j) \in Nat /\ Digit(s, j) \in Int
  OBVIOUS
<1>1. At(s, j) \in Nat
  BY DEF At
<1>2. QED
  BY <1>1 DEF Digit, Zero

(* Value reads the digits in front. *)
LEMMA ValueIsNumeral ==
    ASSUME NEW s \in Seq(Nat), NEW n, n = EndOfDigits(s, 0)
    PROVE  IsNumeral(Value(s), DigitsFrom(s, 0, n), n)
<1> DEFINE V == Int
           h == [k \in 1 .. n |-> [v \in V |-> 10 * v + Digit(s, k - 1)]]
           next(g) == [k \in 0 .. n |-> IF k = 0 THEN 0 ELSE 10 * g[k - 1] + Digit(s, k - 1)]
           st == CHOOSE g : g = next(g)
<1>1. n \in Nat
  <2>1. 0 \in 0 .. Len(s)
    OBVIOUS
  <2>2. QED
    BY <2>1, DigitsEnd
<1>2. Value(s) = st[n]
  <2>1. n = Until(0, Len(s), LAMBDA j : ~IsDigit(s, j))
    BY Zenon DEF EndOfDigits
  <2>2. QED
    BY <2>1, Zenon DEF Value
<1>3. StepsOf(V, 0, n, h)
  <2>1. ASSUME NEW k \in 1 .. n, NEW v \in V PROVE 10 * v + Digit(s, k - 1) \in V
    <3>1. Digit(s, k - 1) \in Int
      BY CharIs
    <3>2. QED
      BY <3>1
  <2>2. 0 \in V
    OBVIOUS
  <2> HIDE DEF V
  <2>3. QED
    BY <1>1, <2>1, <2>2 DEF StepsOf
<1>4. PICK g : Follows(g, V, 0, n, h)
  <2> HIDE DEF h, V
  <2>1. QED
    BY <1>3, RecursiveFunction, Zenon
<1>5. /\ g \in [0 .. n -> V] /\ g[0] = 0
      /\ \A k \in 1 .. n : g[k] = 10 * g[k - 1] + Digit(s, k - 1)
  <2>1. /\ g \in [0 .. n -> V] /\ g[0] = 0
        /\ \A k \in 1 .. n : g[k] = h[k][g[k - 1]]
    BY <1>4, Zenon DEF Follows
  <2> HIDE DEF V
  <2>2. ASSUME NEW k \in 1 .. n PROVE g[k] = 10 * g[k - 1] + Digit(s, k - 1)
    <3>1. k - 1 \in 0 .. n
      BY <1>1
    <3>2. g[k - 1] \in V
      BY <2>1, <3>1, Zenon
    <3>3. QED
      BY <2>1, <3>2, Zenon
  <2>3. QED
    BY <2>1, <2>2
<1>6. g = next(g)
  BY <1>1, <1>5
<1> HIDE DEF h
<1>7. st = next(st)
  <2> HIDE DEF next
  <2>1. QED
    BY <1>6, Zenon
<1>8. \A k \in 0 .. n : st[k] = g[k]
  <2> DEFINE S == {k \in 0 .. n : st[k] = g[k]}
  <2>1. ASSUME NEW k \in 0 .. n
        PROVE  st[k] = IF k = 0 THEN 0 ELSE 10 * st[k - 1] + Digit(s, k - 1)
    <3> HIDE DEF st
    <3>1. QED
      BY <1>7, Zenon
  <2> HIDE DEF st
  <2>2. 0 \in S
    BY <1>1, <1>5, <2>1
  <2>3. ASSUME NEW k \in 1 .. n, k - 1 \in S PROVE k \in S
    BY <1>5, <2>1, <2>3
  <2> HIDE DEF S
  <2>4. 0 .. n \subseteq S
    BY <1>1, <2>2, <2>3, InductionUpTo
  <2>5. QED
    BY <2>4 DEF S
<1> HIDE DEF st
<1>9. Value(s) = g[n]
  BY <1>1, <1>2, <1>8
<1>10. ASSUME NEW j \in 1 .. n PROVE g[j] = 10 * g[j - 1] + DigitsFrom(s, 0, n)[j]
  <2>1. 0 + j - 1 = j - 1
    OBVIOUS
  <2>2. QED
    BY <1>5, <2>1 DEF DigitsFrom
<1>11. QED
  BY <1>5, <1>9, <1>10 DEF IsNumeral

(* What the digit loop reads: the number, unless it is over the limit. *)
Kept(v, limit) == IF v <= 10 * (limit \div 10) + 7 THEN v ELSE Over

LEMMA OneMoreDigit ==
    ASSUME NEW v \in Nat, NEW d \in 0 .. 9, NEW limit \in Nat
    PROVE  WithDigit(Kept(v, limit), d, limit) = Kept(10 * v + d, limit)
<1> DEFINE t == limit \div 10
<1>1. t \in Nat
  OBVIOUS
<1>2. Kept(v, limit) = (IF v <= 10 * t + 7 THEN v ELSE Over)
      /\ Kept(10 * v + d, limit) = (IF 10 * v + d <= 10 * t + 7 THEN 10 * v + d ELSE Over)
  BY DEF Kept
<1>3. \A b : WithDigit(b, d, limit) = IF b = Over \/ b > t \/ (b = t /\ d > 7) THEN Over ELSE 10 * b + d
  BY Zenon DEF WithDigit
<1> HIDE DEF t
<1>4. QED
  BY <1>1, <1>2, <1>3 DEF Over

LEMMA DigitsAreKept ==
    ASSUME NEW s \in Seq(Nat), NEW i \in 0 .. Len(s), NEW n, n = EndOfDigits(s, i) - i,
           NEW v, IsNumeral(v, DigitsFrom(s, i, n), n), NEW limit \in Nat
    PROVE  v \in Nat /\ Digits(s, i, limit) = Kept(v, limit)
<1> DEFINE V == Int
           m == Len(s) - i
           h == [k \in 1 .. m |-> [w \in V |-> WithDigit(w, Digit(s, i + k - 1), limit)]]
           next(g) == [j \in i .. Len(s) |-> IF j = i THEN 0 ELSE WithDigit(g[j - 1], Digit(s, j - 1), limit)]
           read == CHOOSE g : g = next(g)
           e == EndOfDigits(s, i)
<1>1. /\ Len(s) \in Nat /\ i \in Nat /\ m \in Nat /\ e \in i .. Len(s) /\ n \in 0 .. m /\ e = i + n
      /\ \A j \in i .. e - 1 : Digit(s, j) \in 0 .. 9
  <2>1. e \in i .. Len(s) /\ \A j \in i .. e - 1 : Digit(s, j) \in 0 .. 9
    BY DigitsEnd
  <2>2. n = e - i /\ Len(s) \in Nat
    OBVIOUS
  <2> HIDE DEF e
  <2>3. QED
    BY <2>1, <2>2
<1>2. Digits(s, i, limit) = read[e]
  BY Zenon DEF Digits, EndOfDigits
<1> HIDE DEF e
<1>3. StepsOf(V, 0, m, h)
  <2>1. ASSUME NEW k \in 1 .. m, NEW w \in V PROVE WithDigit(w, Digit(s, i + k - 1), limit) \in V
    <3> DEFINE d == Digit(s, i + k - 1)
    <3>1. i + k - 1 \in Nat
      BY <1>1
    <3>2. d \in Int
      BY <3>1, CharIs
    <3> HIDE DEF d
    <3>3. WithDigit(w, d, limit) \in Int
      BY <3>2 DEF WithDigit, Over
    <3>4. QED
      BY <3>3 DEF d
  <2>2. 0 \in V
    OBVIOUS
  <2> HIDE DEF V, m
  <2>3. QED
    BY <1>1, <2>1, <2>2 DEF StepsOf
<1>4. PICK f : Follows(f, V, 0, m, h)
  <2> HIDE DEF h, V, m
  <2>1. QED
    BY <1>3, RecursiveFunction, Zenon
<1>5. /\ f \in [0 .. m -> V] /\ f[0] = 0
      /\ \A k \in 1 .. m : f[k] = WithDigit(f[k - 1], Digit(s, i + k - 1), limit)
  <2>1. /\ f \in [0 .. m -> V] /\ f[0] = 0
        /\ \A k \in 1 .. m : f[k] = h[k][f[k - 1]]
    <3> HIDE DEF h, m
    <3>1. QED
      BY <1>4, Zenon DEF Follows
  <2> HIDE DEF V, m
  <2>2. ASSUME NEW k \in 1 .. m PROVE f[k] = WithDigit(f[k - 1], Digit(s, i + k - 1), limit)
    <3>1. k - 1 \in 0 .. m
      BY <1>1
    <3>2. f[k - 1] \in V
      BY <2>1, <3>1, Zenon
    <3>3. QED
      BY <2>1, <3>2, Zenon
  <2>3. QED
    BY <2>1, <2>2
<1> DEFINE g == [j \in i .. Len(s) |-> f[j - i]]
<1>6. g = next(g)
  <2>1. ASSUME NEW j \in i .. Len(s)
        PROVE  f[j - i] = IF j = i THEN 0 ELSE WithDigit(g[j - 1], Digit(s, j - 1), limit)
    <3>1. CASE j = i
      BY <1>5, <3>1
    <3>2. CASE j # i
      <4>1. j - i \in 1 .. m /\ j - 1 \in i .. Len(s) /\ i + (j - i) - 1 = j - 1 /\ (j - i) - 1 = (j - 1) - i
        BY <1>1, <3>2
      <4>2. f[j - i] = WithDigit(f[(j - i) - 1], Digit(s, i + (j - i) - 1), limit)
        BY <1>5, <4>1
      <4>3. g[j - 1] = f[(j - 1) - i]
        BY <4>1
      <4> HIDE DEF g
      <4>4. QED
        BY <3>2, <4>1, <4>2, <4>3
    <3>3. QED
      BY <3>1, <3>2
  <2>2. next(g) = [j \in i .. Len(s) |-> f[j - i]]
    <3> HIDE DEF g
    <3>1. QED
      BY <2>1, Zenon
  <2>3. QED
    BY <2>2, Zenon
<1> HIDE DEF h, g
<1>7. read = next(read)
  <2> HIDE DEF next
  <2>1. QED
    BY <1>6, Zenon
<1>8. \A j \in i .. Len(s) :
          read[j] = IF j = i THEN 0 ELSE WithDigit(read[j - 1], Digit(s, j - 1), limit)
  <2> HIDE DEF read
  <2>1. QED
    BY <1>7, Zenon
<1> HIDE DEF read
<1>9. PICK up \in [0 .. n -> Int] :
          up[0] = 0 /\ up[n] = v /\ \A j \in 1 .. n : up[j] = 10 * up[j - 1] + DigitsFrom(s, i, n)[j]
  BY DEF IsNumeral
<1> DEFINE S == {k \in 0 .. n : up[k] \in Nat /\ read[i + k] = Kept(up[k], limit)}
<1>10. 0 \in S
  <2>1. read[i] = 0
    BY <1>1, <1>8
  <2>2. Kept(0, limit) = 0
    BY DEF Kept
  <2>3. QED
    BY <1>1, <1>9, <2>1, <2>2
<1>11. ASSUME NEW k \in 1 .. n, k - 1 \in S PROVE k \in S
  <2> DEFINE d == Digit(s, i + k - 1)
             w == up[k - 1]
  <2>1. /\ i + k - 1 \in i .. e - 1 /\ i + k \in i .. Len(s) /\ i + k # i /\ (i + k) - 1 = i + (k - 1)
        /\ i + k - 1 = (i + k) - 1 /\ k \in 0 .. n
    <3>1. i \in Nat /\ k \in Nat \ {0} /\ k <= n /\ n = e - i /\ e <= Len(s) /\ Len(s) \in Nat /\ e \in Nat
      BY <1>1
    <3>2. i + k - 1 \in i .. e - 1 /\ i + k \in i .. Len(s)
      BY <3>1
    <3>3. i + k # i /\ (i + k) - 1 = i + (k - 1) /\ i + k - 1 = (i + k) - 1 /\ k \in 0 .. n
      BY <3>1
    <3>4. QED
      BY <3>2, <3>3
  <2>2. d \in 0 .. 9
    BY <1>1, <2>1
  <2>3. up[k] = 10 * w + d
    BY <1>9 DEF DigitsFrom
  <2>4. w \in Nat /\ read[i + (k - 1)] = Kept(w, limit)
    BY <1>11
  <2>5. read[i + k] = WithDigit(read[i + (k - 1)], d, limit)
    BY <1>8, <2>1
  <2> HIDE DEF d, w
  <2>6. read[i + k] = Kept(up[k], limit)
    BY <2>2, <2>3, <2>4, <2>5, OneMoreDigit
  <2>7. up[k] \in Nat
    BY <2>2, <2>3, <2>4
  <2>8. QED
    BY <2>1, <2>6, <2>7
<1> HIDE DEF S
<1>12. n \in Nat /\ 0 .. n \subseteq S
  <2>1. n \in Nat
    BY <1>1
  <2>2. QED
    BY <2>1, <1>10, <1>11, InductionUpTo
<1>13. n \in S
  BY <1>12
<1>14. QED
  BY <1>1, <1>2, <1>9, <1>13 DEF S

LEMMA RestOfText ==
    ASSUME NEW s \in Seq(Nat), NEW i \in 0 .. Len(s)
    PROVE  /\ From(s, i) \in Seq(Nat) /\ Len(From(s, i)) = Len(s) - i
           /\ \A j \in Nat : At(From(s, i), j) = At(s, i + j)
<1> DEFINE t == From(s, i)
<1>1. t \in Seq(Nat) /\ Len(t) = Len(s) - i /\ \A j \in 1 .. Len(s) - i : t[j] = s[i + j]
  BY DEF From
<1> HIDE DEF t
<1>2. ASSUME NEW j \in Nat PROVE At(t, j) = At(s, i + j)
  <2>1. CASE j < Len(s) - i
    <3>1. j + 1 \in 1 .. Len(s) - i /\ i + (j + 1) = (i + j) + 1 /\ i + j < Len(s) /\ j < Len(t)
      BY <1>1, <2>1
    <3>2. t[j + 1] = s[(i + j) + 1]
      <4>1. t[j + 1] = s[i + (j + 1)]
        BY <1>1, <3>1
      <4>2. QED
        BY <3>1, <4>1
    <3>3. QED
      BY <3>1, <3>2 DEF At
  <2>2. CASE ~(j < Len(s) - i)
    <3>1. ~(i + j < Len(s)) /\ ~(j < Len(t))
      BY <1>1, <2>2
    <3>2. QED
      BY <3>1 DEF At
  <2>3. QED
    BY <2>1, <2>2
<1>3. QED
  BY <1>1, <1>2 DEF t

LEMMA ValueOfRest ==
    ASSUME NEW s \in Seq(Nat), NEW i \in 0 .. Len(s)
    PROVE  /\ Value(From(s, i)) \in Nat
           /\ \A limit \in Nat : Digits(s, i, limit) = Kept(Value(From(s, i)), limit)
<1> DEFINE t == From(s, i)
           n == EndOfDigits(t, 0)
           e == EndOfDigits(s, i)
<1>1. t \in Seq(Nat) /\ Len(t) = Len(s) - i /\ \A j \in Nat : At(t, j) = At(s, i + j)
  BY RestOfText
<1> HIDE DEF t
<1>2. /\ n \in 0 .. Len(t) /\ \A j \in 0 .. n - 1 : Digit(t, j) \in 0 .. 9
      /\ n = Len(t) \/ Digit(t, n) \notin 0 .. 9
  <2>1. 0 \in 0 .. Len(t)
    BY <1>1
  <2>2. QED
    BY <1>1, <2>1, DigitsEnd
<1>3. /\ e \in i .. Len(s) /\ \A j \in i .. e - 1 : Digit(s, j) \in 0 .. 9
      /\ e = Len(s) \/ Digit(s, e) \notin 0 .. 9
  BY DigitsEnd
<1>4. \A j \in Nat : Digit(t, j) = Digit(s, i + j)
  BY <1>1 DEF Digit
<1> HIDE DEF n, e
<1>11. i \in Nat /\ Len(s) \in Nat /\ n \in 0 .. Len(s) - i /\ e \in i .. Len(s)
  BY <1>1, <1>2, <1>3
<1>5. n = e - i
  <2>1. ~(n < e - i)
    <3> SUFFICES ASSUME n < e - i PROVE FALSE
      OBVIOUS
    <3>1. n \in Nat /\ i + n \in i .. e - 1 /\ n # Len(s) - i
      BY <1>11
    <3>2. QED
      BY <1>1, <1>2, <1>3, <1>4, <3>1
  <2>2. ~(e - i < n)
    <3> SUFFICES ASSUME e - i < n PROVE FALSE
      OBVIOUS
    <3>1. e - i \in Nat /\ i + (e - i) = e /\ e - i \in 0 .. n - 1 /\ e # Len(s)
      BY <1>11
    <3>2. QED
      BY <1>2, <1>3, <1>4, <3>1
  <2>3. n \in Int /\ e - i \in Int
    BY <1>2, <1>3
  <2>4. QED
    BY <2>1, <2>2, <2>3
<1>6. DigitsFrom(t, 0, n) = DigitsFrom(s, i, n)
  <2>1. ASSUME NEW j \in 1 .. n PROVE Digit(t, 0 + j - 1) = Digit(s, i + j - 1)
    <3>1. 0 + j - 1 = j - 1 /\ i + j - 1 = i + (j - 1) /\ j - 1 \in Nat
      BY <1>2
    <3>2. QED
      BY <1>4, <3>1
  <2>2. QED
    BY <2>1 DEF DigitsFrom
<1>7. IsNumeral(Value(t), DigitsFrom(s, i, n), n)
  BY <1>1, <1>6, ValueIsNumeral DEF n
<1>8. n = EndOfDigits(s, i) - i
  BY <1>5 DEF e
<1>9. 0 \in Nat
  OBVIOUS
<1>10. QED
  BY <1>7, <1>8, <1>9, DigitsAreKept DEF t

LEMMA ClampedIs ==
    ASSUME NEW v \in Int, NEW lo \in Int, NEW hi \in Int, lo <= hi
    PROVE  Clamped(v, lo, hi) = IF v > hi THEN hi ELSE IF v < lo THEN lo ELSE v
<1> DEFINE m == IF v <= hi THEN v ELSE hi
<1>1. Min({v, hi}) = m
  <2>1. {v, hi} \in SUBSET Int /\ m \in {v, hi} /\ \A j \in {v, hi} : m <= j
    OBVIOUS
  <2> HIDE DEF m
  <2>2. QED
    BY <2>1, LeastIs
<1> DEFINE g == IF m >= lo THEN m ELSE lo
<1>2. Max({lo, m}) = g
  <2>1. {lo, m} \in SUBSET Int /\ g \in {lo, m} /\ \A j \in {lo, m} : g >= j
    OBVIOUS
  <2> HIDE DEF g, m
  <2>2. QED
    BY <2>1, GreatestIs
<1>3. QED
  BY <1>1, <1>2 DEF Clamped

(* The text that atoi and its namesakes read. *)
LEMMA SignAndDigits ==
    ASSUME NEW s \in Seq(Nat)
    PROVE  LET a == AfterBlanks(s)
               b == WithoutBlanks(s)
               signed == b # <<>> /\ Head(b) \in {Minus, Plus}
           IN  /\ a \in 0 .. Len(s) /\ b = From(s, a)
               /\ signed <=> At(s, a) \in {Minus, Plus}
               /\ signed => a + 1 \in 0 .. Len(s) /\ Tail(b) = From(s, a + 1) /\ Head(b) = At(s, a)
<1> DEFINE a == AfterBlanks(s)
           b == WithoutBlanks(s)
           S == {j \in 0 .. Len(s) : At(s, j) # Blank}
<1>1. b = From(s, a)
  BY Zenon DEF WithoutBlanks, AfterBlanks
<1>2. a \in 0 .. Len(s)
  <2>1. a = Min({Len(s)} \cup S)
    BY Zenon DEF AfterBlanks, Until
  <2>2. 0 \in Nat /\ Len(s) \in Nat /\ 0 <= Len(s) /\ S \in SUBSET (0 .. Len(s))
    OBVIOUS
  <2> HIDE DEF a, S
  <2>3. StopsAt(a, 0, Len(s), S)
    BY <2>1, <2>2, LoopStops
  <2>4. QED
    BY <2>3 DEF StopsAt
<1> HIDE DEF a
<1>3. b \in Seq(Nat) /\ Len(b) = Len(s) - a
  BY <1>1, <1>2, RestOfText
<1>4. CASE a < Len(s)
  <2>1. b # <<>>
    BY <1>2, <1>3, <1>4
  <2>2. Head(b) = At(s, a)
    BY <1>1, <1>2, <1>4 DEF From, At
  <2>3. a + 1 \in 0 .. Len(s) /\ Tail(b) = From(s, a + 1)
    <3>1. a + 1 \in 0 .. Len(s)
      BY <1>2, <1>4
    <3> DEFINE t == Tail(b)
               u == From(s, a + 1)
    <3>2. t \in Seq(Nat) /\ Len(t) = Len(s) - (a + 1) /\ \A j \in 1 .. Len(t) : t[j] = b[j + 1]
      BY <1>2, <1>3, <1>4
    <3>3. \A j \in 1 .. Len(s) - a : b[j] = s[a + j]
      BY <1>1, <1>2 DEF From
    <3>4. u \in Seq(Nat) /\ Len(u) = Len(s) - (a + 1) /\ \A j \in 1 .. Len(u) : u[j] = s[(a + 1) + j]
      <4> DEFINE c == a + 1
      <4>1. c \in 0 .. Len(s) /\ u = From(s, c)
        BY <3>1
      <4> HIDE DEF c, u
      <4>2. u \in Seq(Nat) /\ Len(u) = Len(s) - c /\ \A j \in 1 .. Len(u) : u[j] = s[c + j]
        BY <4>1 DEF From
      <4>3. QED
        BY <4>2 DEF c
    <3> HIDE DEF t, u, b
    <3>5. ASSUME NEW j \in 1 .. Len(t) PROVE t[j] = u[j]
      <4>1. j + 1 \in 1 .. Len(s) - a /\ a + (j + 1) = (a + 1) + j /\ j \in 1 .. Len(u)
        BY <1>2, <3>2, <3>4
      <4>2. t[j] = b[j + 1] /\ b[j + 1] = s[a + (j + 1)] /\ u[j] = s[(a + 1) + j]
        BY <3>2, <3>3, <3>4, <4>1
      <4>3. QED
        BY <4>1, <4>2
    <3>6. t = u
      BY <3>2, <3>4, <3>5
    <3>7. QED
      BY <3>1, <3>6 DEF t, u
  <2>4. QED
    BY <1>1, <1>2, <2>1, <2>2, <2>3 DEF a
<1>5. CASE a = Len(s)
  <2>1. b = <<>>
    BY <1>3, <1>5
  <2>2. At(s, a) = 0
    BY <1>5 DEF At
  <2>3. QED
    BY <1>1, <1>2, <2>1, <2>2 DEF a, Minus, Plus
<1>6. QED
  BY <1>2, <1>4, <1>5

LEMMA NumbersRead ==
    ASSUME NEW s \in Seq(Nat)
    PROVE  LET b == WithoutBlanks(s)
               signed == b # <<>> /\ Head(b) \in {Minus, Plus}
               v == IF signed THEN (IF Head(b) = Minus THEN -1 ELSE 1) * Value(Tail(b)) ELSE Value(b)
           IN  /\ AToI(s) = Clamped(v, IntMin, IntMax)
               /\ AToLL(s) = Clamped(v, -IntMax, IntMax)
               /\ ~signed => AToUL(s) = IF v \div 10 = UIntMax \div 10 /\ v % 10 <= 7 THEN v
                                        ELSE Clamped(v, 0, UIntMax)
<1> DEFINE a == AfterBlanks(s)
           b == WithoutBlanks(s)
           signed == b # <<>> /\ Head(b) \in {Minus, Plus}
           minus == signed /\ Head(b) = Minus
           i == IF signed THEN a + 1 ELSE a
           w == Value(From(s, i))
           v == IF signed THEN (IF Head(b) = Minus THEN -1 ELSE 1) * Value(Tail(b)) ELSE Value(b)
<1>1. /\ a \in 0 .. Len(s) /\ b = From(s, a)
      /\ signed <=> At(s, a) \in {Minus, Plus}
      /\ signed => a + 1 \in 0 .. Len(s) /\ Tail(b) = From(s, a + 1) /\ Head(b) = At(s, a)
  BY SignAndDigits
<1> HIDE DEF a, b, signed
<1>2. i \in 0 .. Len(s)
  BY <1>1
<1>3. w \in Nat /\ \A limit \in Nat : Digits(s, i, limit) = Kept(w, limit)
  <2> HIDE DEF i
  <2>1. QED
    BY <1>2, ValueOfRest
<1>4. v = IF minus THEN -w ELSE w
  <2>1. signed => w = Value(Tail(b))
    BY <1>1
  <2>2. ~signed => w = Value(b)
    BY <1>1
  <2> HIDE DEF w
  <2>3. QED
    BY <1>3, <2>1, <2>2
<1>5. minus <=> At(s, a) = Minus
  BY <1>1
<1>6. i = IF At(s, a) \in {Minus, Plus} THEN a + 1 ELSE a
  BY <1>1
<1> HIDE DEF w, minus, v, i
<1>7. /\ IntMax \in Nat /\ UIntMax \in Nat /\ IntMin = -IntMax - 1 /\ 9 < IntMax
      /\ 10 * (IntMax \div 10) + 7 = IntMax /\ 10 * (UIntMax \div 10) + 5 = UIntMax
      /\ UIntMax \div 10 \in Nat
  BY NumberAssumption DEF IntMin
<1>8. Kept(w, IntMax) = IF w <= IntMax THEN w ELSE Over
  BY <1>7 DEF Kept
<1>9. \A lowest \in Int : Signed(s, lowest) =
          IF w <= IntMax THEN (IF minus THEN -w ELSE w) ELSE IF minus THEN lowest ELSE IntMax
  <2> SUFFICES ASSUME NEW lowest \in Int
               PROVE  Signed(s, lowest) =
                          IF w <= IntMax THEN (IF minus THEN -w ELSE w) ELSE IF minus THEN lowest ELSE IntMax
    OBVIOUS
  <2> DEFINE sign == IF At(s, a) = Minus THEN -1 ELSE 1
             n == Digits(s, IF At(s, a) \in {Minus, Plus} THEN a + 1 ELSE a, IntMax)
  <2>1. Signed(s, lowest) = IF n # Over THEN sign * n ELSE IF sign = 1 THEN IntMax ELSE lowest
    BY Zenon DEF Signed, a
  <2>2. n = IF w <= IntMax THEN w ELSE Over
    BY <1>3, <1>6, <1>7, <1>8
  <2>3. sign = IF minus THEN -1 ELSE 1
    BY <1>5
  <2> HIDE DEF n, sign
  <2>4. w # Over
    BY <1>3 DEF Over
  <2>5. CASE w <= IntMax
    <3>1. n = w /\ n # Over
      BY <2>2, <2>4, <2>5
    <3>2. sign * w = IF minus THEN -w ELSE w
      BY <1>3, <2>3
    <3>3. QED
      BY <2>1, <2>5, <3>1, <3>2
  <2>6. CASE ~(w <= IntMax)
    BY <2>1, <2>2, <2>3, <2>6
  <2>7. QED
    BY <2>5, <2>6
<1>10. AToI(s) = Clamped(v, IntMin, IntMax)
  <2>1. Clamped(v, IntMin, IntMax) = IF v > IntMax THEN IntMax ELSE IF v < IntMin THEN IntMin ELSE v
    BY <1>3, <1>4, <1>7, ClampedIs
  <2>2. QED
    BY <1>3, <1>4, <1>7, <1>9, <2>1 DEF AToI
<1>11. AToLL(s) = Clamped(v, -IntMax, IntMax)
  <2>1. Clamped(v, -IntMax, IntMax) = IF v > IntMax THEN IntMax ELSE IF v < -IntMax THEN -IntMax ELSE v
    BY <1>3, <1>4, <1>7, ClampedIs
  <2>2. QED
    BY <1>3, <1>4, <1>7, <1>9, <2>1 DEF AToLL
<1>12. ASSUME ~signed
       PROVE  AToUL(s) = IF v \div 10 = UIntMax \div 10 /\ v % 10 <= 7 THEN v
                         ELSE Clamped(v, 0, UIntMax)
  <2>1. ~minus /\ i = a /\ v = w
    BY <1>4, <1>12 DEF minus, i
  <2>2. Clamped(v, 0, UIntMax) = IF v > UIntMax THEN UIntMax ELSE v
    BY <1>3, <1>7, <2>1, ClampedIs
  <2>3. AToUL(s) = IF Kept(w, UIntMax) = Over THEN UIntMax ELSE Kept(w, UIntMax)
    <3>1. Digits(s, AfterBlanks(s), UIntMax) = Kept(w, UIntMax)
      BY <1>3, <1>7, <2>1 DEF a
    <3>2. QED
      BY <3>1, Zenon DEF AToUL
  <2> DEFINE t == UIntMax \div 10
             q == v \div 10
             r == v % 10
  <2>4. /\ Kept(w, UIntMax) = IF v <= 10 * t + 7 THEN v ELSE Over
        /\ v \in Nat /\ v # Over
    BY <1>3, <2>1 DEF Kept, Over
  <2>5. v = 10 * q + r /\ r \in 0 .. 9 /\ q \in Nat
    BY <2>4
  <2>6. UIntMax = 10 * t + 5 /\ t \in Nat
    BY <1>7
  <2> HIDE DEF t, q, r
  <2>7. q = t /\ r <= 7 <=> v \div 10 = UIntMax \div 10 /\ v % 10 <= 7
    BY DEF q, t, r
  <2>8. AToUL(s) = IF v <= 10 * t + 7 THEN v ELSE UIntMax
    BY <2>3, <2>4, Zenon
  <2>9. CASE q = t /\ r <= 7
    <3>1. v <= 10 * t + 7
      BY <2>5, <2>6, <2>9
    <3>2. QED
      BY <2>7, <2>8, <2>9, <3>1, Zenon
  <2>10. CASE ~(q = t /\ r <= 7)
    <3>1. v <= 10 * t + 7 <=> ~(v > UIntMax)
      <4>1. CASE q = t
        BY <2>5, <2>6, <2>10, <4>1
      <4>2. CASE q < t
        BY <2>5, <2>6, <4>2
      <4>3. CASE q > t
        BY <2>5, <2>6, <4>3
      <4>4. QED
        BY <2>5, <2>6, <4>1, <4>2, <4>3
    <3>2. AToUL(s) = IF v > UIntMax THEN UIntMax ELSE v
      BY <2>8, <3>1, Zenon
    <3>3. QED
      BY <2>2, <2>7, <2>10, <3>2, Zenon
  <2>11. QED
    BY <2>9, <2>10
<1>13. QED
  BY <1>10, <1>11, <1>12 DEF v, signed, b

-----------------------------------------------------------------------------
(* The digits that itoa and ultoa print, lowest first. *)
LEMMA LowDigitsIs ==
    \A m \in Nat : LowDigits(m) = <<Zero + (m % 10)>> \o (IF m \div 10 > 0 THEN LowDigits(m \div 10) ELSE <<>>)
<1> DEFINE V == Seq(Nat)
           d == [i \in Nat \ {0} |-> i \div 10]
           h == [i \in Nat \ {0} |-> [x \in V |-> <<Zero + (i % 10)>> \o (IF i \div 10 > 0 THEN x ELSE <<>>)]]
           next(f) == [m \in Int |-> <<Zero + Rem(m, 10)>> \o (IF Quot(m, 10) > 0 THEN f[Quot(m, 10)] ELSE <<>>)]
           of == CHOOSE f : f = next(f)
<1>1. \A n : LowDigits(n) = of[n]
  BY Zenon DEF LowDigits
<1>2. \A m \in Nat : Quot(m, 10) = m \div 10 /\ Rem(m, 10) = m % 10 /\ m \div 10 \in Nat /\ m % 10 \in 0 .. 9
  <2> SUFFICES ASSUME NEW m \in Nat
               PROVE  Quot(m, 10) = m \div 10 /\ Rem(m, 10) = m % 10 /\ m \div 10 \in Nat /\ m % 10 \in 0 .. 9
    OBVIOUS
  <2>1. Quot(m, 10) = m \div 10
    BY DEF Quot
  <2>2. m = 10 * (m \div 10) + (m % 10) /\ m \div 10 \in Nat /\ m % 10 \in 0 .. 9
    <3>1. m = 10 * (m \div 10) + (m % 10)
      BY Division
    <3>2. QED
      BY <3>1
  <2>3. Rem(m, 10) = m % 10
    BY <2>1, <2>2 DEF Rem
  <2>4. QED
    BY <2>1, <2>2, <2>3
<1>3. \A m \in Int \ Nat : Quot(m, 10) \in Int /\ ~(Quot(m, 10) > 0) /\ Rem(m, 10) \in Int
  <2> SUFFICES ASSUME NEW m \in Int \ Nat
               PROVE  Quot(m, 10) \in Int /\ ~(Quot(m, 10) > 0) /\ Rem(m, 10) \in Int
    OBVIOUS
  <2>1. Quot(m, 10) = -((-m) \div 10)
    BY DEF Quot
  <2>2. (-m) \div 10 \in Nat
    OBVIOUS
  <2>3. QED
    BY <2>1, <2>2 DEF Rem
<1>4. \E f : FollowsDown(f, V, <<Zero>>, h, d)
  <2>1. <<Zero>> \in V
    BY DEF Zero
  <2>2. Descends(d)
    <3>1. d \in [Nat \ {0} -> Nat] /\ \A i \in Nat \ {0} : d[i] < i
      OBVIOUS
    <3>2. QED
      BY <3>1 DEF Descends
  <2>3. h \in [Nat \ {0} -> [V -> V]]
    <3>1. ASSUME NEW i \in Nat \ {0}, NEW x \in V
          PROVE  <<Zero + (i % 10)>> \o (IF i \div 10 > 0 THEN x ELSE <<>>) \in V
      <4>1. <<Zero + (i % 10)>> \in V
        BY DEF Zero
      <4>2. QED
        BY <4>1
    <3> HIDE DEF V
    <3>2. QED
      BY <3>1
  <2> DEFINE v == <<Zero>>
  <2>4. v \in V
    BY <2>1
  <2> HIDE DEF V, d, h, v
  <2>5. \E f : FollowsDown(f, V, v, h, d)
    BY <2>2, <2>3, <2>4, RecursionToLess
  <2>6. QED
    BY <2>5 DEF v
<1>5. PICK g \in [Nat -> V] : g[0] = <<Zero>> /\ \A i \in Nat \ {0} : g[i] = h[i][g[d[i]]]
  <2> HIDE DEF V, h, d
  <2>1. QED
    BY <1>4, Zenon DEF FollowsDown
<1>6. \A i \in Nat \ {0} : g[i] = <<Zero + (i % 10)>> \o (IF i \div 10 > 0 THEN g[i \div 10] ELSE <<>>)
  <2> SUFFICES ASSUME NEW i \in Nat \ {0}
               PROVE  g[i] = <<Zero + (i % 10)>> \o (IF i \div 10 > 0 THEN g[i \div 10] ELSE <<>>)
    OBVIOUS
  <2>1. g[i] = h[i][g[d[i]]] /\ d[i] = i \div 10
    BY <1>5
  <2>2. i \div 10 \in Nat
    BY <1>2
  <2> HIDE DEF d, V
  <2>3. g[d[i]] \in V
    BY <1>5, <2>1, <2>2
  <2>4. \A x \in V : h[i][x] = <<Zero + (i % 10)>> \o (IF i \div 10 > 0 THEN x ELSE <<>>)
    BY Zenon
  <2> HIDE DEF h
  <2>5. h[i][g[d[i]]] = <<Zero + (i % 10)>> \o (IF i \div 10 > 0 THEN g[d[i]] ELSE <<>>)
    BY <2>3, <2>4, Zenon
  <2>6. QED
    BY <2>1, <2>5, Zenon
<1> DEFINE f == [m \in Int |-> IF m \in Nat THEN g[m] ELSE <<Zero + Rem(m, 10)>>]
<1>7. f = next(f)
  <2>1. ASSUME NEW m \in Int
        PROVE  (IF m \in Nat THEN g[m] ELSE <<Zero + Rem(m, 10)>>)
                   = <<Zero + Rem(m, 10)>> \o (IF Quot(m, 10) > 0 THEN f[Quot(m, 10)] ELSE <<>>)
    <3>0. \A x \in Int : <<x>> \o <<>> = <<x>>
      OBVIOUS
    <3>1. CASE m \in Nat \ {0}
      <4>1. /\ Quot(m, 10) = m \div 10 /\ Rem(m, 10) = m % 10 /\ m \div 10 \in Nat
        BY <1>2, <3>1
      <4>2. f[m \div 10] = g[m \div 10]
        BY <4>1
      <4>3. g[m] = <<Zero + (m % 10)>> \o (IF m \div 10 > 0 THEN g[m \div 10] ELSE <<>>)
        BY <1>6, <3>1
      <4> HIDE DEF f
      <4>4. QED
        BY <3>1, <4>1, <4>2, <4>3
    <3>2. CASE m = 0
      <4>1. Quot(m, 10) = 0 /\ Rem(m, 10) = 0 /\ Zero + Rem(m, 10) = Zero /\ ~(Quot(m, 10) > 0) /\ Zero \in Int
        BY <1>2, <3>2 DEF Zero
      <4>2. <<Zero>> \o <<>> = <<Zero>>
        BY <3>0, <4>1
      <4> HIDE DEF f
      <4>3. QED
        BY <1>5, <3>2, <4>1, <4>2
    <3>3. CASE m \in Int \ Nat
      <4>1. ~(Quot(m, 10) > 0) /\ Zero + Rem(m, 10) \in Int
        BY <1>3, <3>3 DEF Zero
      <4>2. <<Zero + Rem(m, 10)>> \o <<>> = <<Zero + Rem(m, 10)>>
        BY <3>0, <4>1
      <4> HIDE DEF f
      <4>3. QED
        BY <3>3, <4>1, <4>2
    <3>4. QED
      BY <3>1, <3>2, <3>3
  <2>2. next(f) = [m \in Int |-> IF m \in Nat THEN g[m] ELSE <<Zero + Rem(m, 10)>>]
    <3> HIDE DEF f
    <3>1. QED
      BY <2>1, Zenon
  <2>3. QED
    BY <2>2, Zenon
<1> HIDE DEF f, h, d, V
<1>8. of = next(of)
  <2> HIDE DEF next
  <2>1. QED
    BY <1>7, Zenon
<1>9. \A m \in Int : of[m] = <<Zero + Rem(m, 10)>> \o (IF Quot(m, 10) > 0 THEN of[Quot(m, 10)] ELSE <<>>)
  <2> HIDE DEF of
  <2>1. QED
    BY <1>8, Zenon
<1> HIDE DEF of, next
<1>10. ASSUME NEW m \in Nat
       PROVE  of[m] = <<Zero + (m % 10)>> \o (IF m \div 10 > 0 THEN of[m \div 10] ELSE <<>>)
  <2>1. m \in Int /\ Quot(m, 10) = m \div 10 /\ Rem(m, 10) = m % 10
    BY <1>2
  <2>2. of[m] = <<Zero + Rem(m, 10)>> \o (IF Quot(m, 10) > 0 THEN of[Quot(m, 10)] ELSE <<>>)
    BY <1>9, <2>1
  <2>3. QED
    BY <2>1, <2>2
<1>11. QED
  BY <1>1, <1>10, Zenon

(* l are the digits of m, lowest first. *)
FromLowest(l, n) == [j \in 1 .. n |-> l[(n - j) + 1] - Zero]
AreDigits(l, m) ==
    /\ l \in Seq(Zero .. Zero + 9) /\ Len(l) # 0
    /\ IsNumeral(m, FromLowest(l, Len(l)), Len(l))

LEMMA NumeralGrows ==
    ASSUME NEW n \in Nat, NEW v \in Int, NEW dig, IsNumeral(v, dig, n), NEW more,
           \A j \in 1 .. n : more[j] = dig[j], more[n + 1] \in Int
    PROVE  IsNumeral(10 * v + more[n + 1], more, n + 1)
<1>1. PICK up \in [0 .. n -> Int] :
          up[0] = 0 /\ up[n] = v /\ \A j \in 1 .. n : up[j] = 10 * up[j - 1] + dig[j]
  BY DEF IsNumeral
<1> DEFINE w == 10 * v + more[n + 1]
           new == [j \in 0 .. n + 1 |-> IF j = n + 1 THEN w ELSE up[j]]
<1>2. w \in Int
  OBVIOUS
<1> HIDE DEF w
<1>3. new \in [0 .. n + 1 -> Int] /\ new[0] = 0 /\ new[n + 1] = w
  BY <1>1, <1>2
<1>4. ASSUME NEW j \in 1 .. n + 1 PROVE new[j] = 10 * new[j - 1] + more[j]
  <2>1. new[j - 1] = up[j - 1]
    OBVIOUS
  <2>2. CASE j = n + 1
    <3>1. new[j] = w /\ up[j - 1] = v
      BY <1>1, <2>2
    <3> HIDE DEF new
    <3>2. QED
      BY <2>1, <2>2, <3>1 DEF w
  <2>3. CASE j # n + 1
    <3>1. j \in 1 .. n /\ new[j] = up[j]
      BY <2>3
    <3> HIDE DEF new
    <3>2. QED
      BY <1>1, <2>1, <3>1
  <2>4. QED
    BY <2>2, <2>3
<1> HIDE DEF new
<1>5. QED
  BY <1>3, <1>4 DEF IsNumeral, w

LEMMA DigitInFront ==
    ASSUME NEW q \in Nat, NEW d \in 0 .. 9, NEW k \in Seq(Zero .. Zero + 9), NEW n \in Nat, n = Len(k),
           IsNumeral(q, FromLowest(k, n), n)
    PROVE  AreDigits(<<Zero + d>> \o k, 10 * q + d)
<1> DEFINE l == <<Zero + d>> \o k
           C == Zero .. Zero + 9
<1>1. Zero + d \in C /\ C \subseteq Int
  BY DEF Zero
<1> HIDE DEF C
<1>2. l \in Seq(C) /\ Len(l) = n + 1 /\ l[1] = Zero + d /\ \A i \in 1 .. n : l[i + 1] = k[i]
  <2>1. k \in Seq(C)
    BY DEF C
  <2>2. QED
    BY <1>1, <2>1
<1> HIDE DEF l
<1> DEFINE more == FromLowest(l, n + 1)
           dig == FromLowest(k, n)
<1>3. more[n + 1] = d
  <2>1. n + 1 \in 1 .. n + 1 /\ ((n + 1) - (n + 1)) + 1 = 1
    OBVIOUS
  <2>2. more[n + 1] = l[1] - Zero
    BY <2>1 DEF FromLowest
  <2>3. QED
    BY <1>1, <1>2, <2>2 DEF Zero
<1>4. ASSUME NEW j \in 1 .. n PROVE more[j] = dig[j]
  <2>1. j \in 1 .. n + 1 /\ (n - j) + 1 \in 1 .. n /\ ((n + 1) - j) + 1 = ((n - j) + 1) + 1
    OBVIOUS
  <2>2. l[((n + 1) - j) + 1] = k[(n - j) + 1]
    BY <1>2, <2>1
  <2>3. QED
    BY <2>1, <2>2 DEF FromLowest
<1>5. q \in Int /\ more[n + 1] \in Int
  BY <1>1, <1>3
<1>6. IsNumeral(q, dig, n)
  OBVIOUS
<1> HIDE DEF more, dig
<1>7. IsNumeral(10 * q + more[n + 1], more, n + 1)
  BY <1>4, <1>5, <1>6, NumeralGrows
<1>8. QED
  BY <1>1, <1>2, <1>3, <1>7 DEF AreDigits, more, C, l

LEMMA OneMoreLowDigit ==
    ASSUME NEW m \in Nat, m \div 10 > 0 => AreDigits(LowDigits(m \div 10), m \div 10)
    PROVE  AreDigits(LowDigits(m), m)
<1> DEFINE q == m \div 10
           d == m % 10
           l == LowDigits(m)
           C == Zero .. Zero + 9
<1>1. m = 10 * q + d /\ q \in Nat /\ d \in 0 .. 9
  <2>1. m = 10 * q + d
    BY Division
  <2>2. QED
    BY <2>1
<1>2. l = <<Zero + d>> \o (IF q > 0 THEN LowDigits(q) ELSE <<>>)
  BY LowDigitsIs
<1> HIDE DEF q, d, l
<1>4. CASE q > 0
  <2> DEFINE k == LowDigits(q)
  <2>1. k \in Seq(C) /\ Len(k) \in Nat /\ IsNumeral(q, FromLowest(k, Len(k)), Len(k))
    BY <1>4 DEF AreDigits, q
  <2>2. l = <<Zero + d>> \o k
    BY <1>2, <1>4
  <2> DEFINE n == Len(k)
  <2>3. n \in Nat /\ n = Len(k) /\ IsNumeral(q, FromLowest(k, n), n)
    BY <2>1
  <2> HIDE DEF k, C, n
  <2>4. AreDigits(<<Zero + d>> \o k, 10 * q + d)
    BY <1>1, <2>1, <2>3, DigitInFront DEF C
  <2>5. QED
    BY <1>1, <2>2, <2>4 DEF l
<1>5. CASE ~(q > 0)
  <2>1. q = 0 /\ l = <<Zero + d>> \o <<>> /\ <<>> \in Seq(C) /\ Len(<<>>) = 0 /\ 0 \in Nat
    BY <1>1, <1>2, <1>5
  <2>2. IsNumeral(0, FromLowest(<<>>, 0), 0)
    <3> DEFINE up == [j \in 0 .. 0 |-> 0]
    <3>1. up \in [0 .. 0 -> Int] /\ up[0] = 0 /\ \A j \in 1 .. 0 : FALSE
      OBVIOUS
    <3> HIDE DEF up
    <3>2. QED
      BY <3>1 DEF IsNumeral
  <2> HIDE DEF C
  <2> DEFINE k == <<>>
             n == 0
  <2>3. /\ n \in Nat /\ n = Len(k) /\ k \in Seq(C) /\ l = <<Zero + d>> \o k
        /\ IsNumeral(q, FromLowest(k, n), n)
    BY <2>1, <2>2
  <2> HIDE DEF k, n
  <2>4. AreDigits(<<Zero + d>> \o k, 10 * q + d)
    BY <1>1, <2>1, <2>3, DigitInFront DEF C
  <2>5. QED
    BY <1>1, <2>3, <2>4 DEF l
<1>6. QED
  BY <1>4, <1>5 DEF l

LEMMA LowDigitsAreDigits == \A m \in Nat : AreDigits(LowDigits(m), m)
<1> SUFFICES ASSUME NEW n \in Nat PROVE AreDigits(LowDigits(n), n)
  OBVIOUS
<1> DEFINE S == {i \in 0 .. n : \A m \in 0 .. i : AreDigits(LowDigits(m), m)}
<1>1. 0 \in S
  <2>1. 0 \in Nat /\ ~(0 \div 10 > 0)
    OBVIOUS
  <2>2. AreDigits(LowDigits(0), 0)
    BY <2>1, OneMoreLowDigit
  <2>3. QED
    BY <2>2
<1>2. ASSUME NEW i \in 1 .. n, i - 1 \in S PROVE i \in S
  <2>1. i \in Nat /\ i \div 10 \in 0 .. i - 1
    OBVIOUS
  <2>2. \A m \in 0 .. i - 1 : AreDigits(LowDigits(m), m)
    BY <1>2
  <2>3. AreDigits(LowDigits(i), i)
    BY <2>1, <2>2, OneMoreLowDigit
  <2>4. \A m \in 0 .. i : m = i \/ m \in 0 .. i - 1
    OBVIOUS
  <2>5. QED
    BY <2>2, <2>3, <2>4
<1> HIDE DEF S
<1>3. 0 .. n \subseteq S
  BY <1>1, <1>2, InductionUpTo
<1>4. QED
  BY <1>3 DEF S

(* What they make, in their order behind i other characters, is read as m. *)
LEMMA PrintedIsRead ==
    ASSUME NEW m \in Nat, NEW l, AreDigits(l, m), NEW s \in Seq(Nat), NEW i \in Nat,
           Len(s) = i + Len(l), \A j \in 1 .. Len(l) : s[i + j] = l[(Len(l) - j) + 1],
           NEW limit \in Nat, m <= 10 * (limit \div 10) + 7
    PROVE  Digits(s, i, limit) = m
<1> DEFINE n == Len(l)
           e == EndOfDigits(s, i)
<1>1. l \in Seq(Zero .. Zero + 9) /\ n \in Nat \ {0} /\ IsNumeral(m, FromLowest(l, n), n)
  BY DEF AreDigits
<1>2. \A j \in 1 .. n : l[(n - j) + 1] \in Zero .. Zero + 9
  <2>1. \A j \in 1 .. n : (n - j) + 1 \in 1 .. n
    BY <1>1
  <2> DEFINE C == Zero .. Zero + 9
  <2>2. l \in Seq(C)
    BY <1>1
  <2> HIDE DEF C
  <2>3. \A k \in 1 .. n : l[k] \in C
    BY <2>2
  <2> HIDE DEF n
  <2>4. QED
    BY <2>1, <2>3 DEF C
<1> HIDE DEF n
<1>3. ASSUME NEW j \in 1 .. n
      PROVE  Digit(s, i + j - 1) = l[(n - j) + 1] - Zero /\ Digit(s, i + j - 1) \in 0 .. 9
  <2>1. i + j - 1 = i + (j - 1) /\ (i + j - 1) + 1 = i + j /\ i + j - 1 < Len(s)
    BY <1>1 DEF n
  <2>2. At(s, i + j - 1) = s[i + j]
    BY <2>1 DEF At
  <2>3. s[i + j] = l[(n - j) + 1]
    BY DEF n
  <2>4. QED
    BY <1>2, <2>2, <2>3 DEF Digit, Zero
<1>4. Len(s) = i + n /\ i \in 0 .. Len(s)
  BY <1>1 DEF n
<1>5. e = Len(s)
  <2>1. e \in i .. Len(s) /\ (e = Len(s) \/ Digit(s, e) \notin 0 .. 9)
    BY <1>4, DigitsEnd
  <2> HIDE DEF e
  <2> SUFFICES ASSUME e # Len(s) PROVE FALSE
    OBVIOUS
  <2> HIDE DEF n
  <2>2. e \in Nat /\ i <= e /\ e < i + n /\ n \in Nat
    <3>1. n \in Nat
      BY <1>1
    <3>2. e \in i .. i + n /\ e # i + n
      BY <1>4, <2>1
    <3>3. QED
      BY <3>1, <3>2
  <2> DEFINE j == (e - i) + 1
  <2>3. j \in 1 .. n /\ i + j - 1 = e
    BY <2>2
  <2> HIDE DEF j
  <2>4. Digit(s, i + j - 1) \in 0 .. 9
    BY <1>3, <2>3
  <2>5. Digit(s, e) \in 0 .. 9
    BY <2>3, <2>4
  <2>6. QED
    BY <2>1, <2>5
<1>6. DigitsFrom(s, i, n) = FromLowest(l, n)
  BY <1>3 DEF DigitsFrom, FromLowest
<1>7. n = EndOfDigits(s, i) - i
  BY <1>1, <1>4, <1>5
<1>8. Digits(s, i, limit) = Kept(m, limit)
  BY <1>1, <1>4, <1>6, <1>7, DigitsAreKept
<1>9. QED
  BY <1>8 DEF Kept

LEMMA NoBlanks ==
    ASSUME NEW s \in Seq(Nat), At(s, 0) # Blank
    PROVE  AfterBlanks(s) = 0
<1> DEFINE S == {j \in 0 .. Len(s) : At(s, j) # Blank}
           T == {Len(s)} \cup S
<1>1. AfterBlanks(s) = Min(T)
  BY Zenon DEF AfterBlanks, Until
<1>2. T \in SUBSET Int /\ 0 \in T /\ \A j \in T : 0 <= j
  OBVIOUS
<1> HIDE DEF T
<1>3. QED
  BY <1>1, <1>2, LeastIs

(* What is printed is a sign, if any, and the digits. *)
LEMMA NumbersPrinted ==
    ASSUME NEW n \in IntMin .. IntMax, n # IntMin
    PROVE  AToI(IToA(n)) = n /\ AToUL(ULToA(Positive(n))) = Positive(n)
<1> DEFINE m == Positive(n)
           l == LowDigits(m)
           k == Len(l)
           s == Reverse(l)
<1>1. /\ IntMax \in Nat /\ UIntMax \in Nat /\ IntMin = -IntMax - 1 /\ IntMax <= UIntMax
      /\ 10 * (IntMax \div 10) + 7 = IntMax /\ UIntMax <= 10 * (UIntMax \div 10) + 7
  BY NumberAssumption DEF IntMin
<1>2. m \in Nat /\ m <= IntMax /\ m <= 10 * (IntMax \div 10) + 7 /\ m <= 10 * (UIntMax \div 10) + 7
      /\ n = (IF n < 0 THEN -m ELSE m)
  BY <1>1 DEF Positive
<1>3. AreDigits(l, m)
  BY <1>2, LowDigitsAreDigits
<1> HIDE DEF m, l
<1>4. k \in Nat \ {0} /\ l \in Seq(Zero .. Zero + 9) /\ \A j \in 1 .. k : l[j] \in Zero .. Zero + 9 /\ l[j] \in Nat
  <2> DEFINE C == Zero .. Zero + 9
  <2>1. l \in Seq(C) /\ Len(l) # 0 /\ C \subseteq Nat
    BY <1>3 DEF AreDigits, Zero
  <2>2. Len(l) \in Nat /\ Len(l) # 0
    BY <2>1
  <2>3. k \in Nat \ {0}
    BY <2>2
  <2> HIDE DEF C
  <2>4. \A j \in 1 .. Len(l) : l[j] \in C
    BY <2>1
  <2>5. \A j \in 1 .. k : l[j] \in C /\ l[j] \in Nat
    BY <2>1, <2>4
  <2>6. QED
    BY <2>1, <2>3, <2>5 DEF C
<1> HIDE DEF k
<1>5. /\ s \in Seq(Nat) /\ Len(s) = k /\ \A j \in 1 .. k : s[j] = l[(k - j) + 1] /\ s[j] \in Zero .. Zero + 9
  <2>1. s = [j \in 1 .. k |-> l[(k - j) + 1]]
    BY Zenon DEF Reverse, k
  <2>2. \A j \in 1 .. k : (k - j) + 1 \in 1 .. k
    BY <1>4
  <2>3. \A j \in 1 .. k : s[j] = l[(k - j) + 1] /\ s[j] \in Zero .. Zero + 9 /\ s[j] \in Nat
    BY <1>4, <2>1, <2>2
  <2>4. s \in [1 .. k -> Nat]
    BY <2>1, <2>3
  <2> HIDE DEF s
  <2>5. k \in Nat
    BY <1>4
  <2>6. s \in Seq(Nat)
    BY <2>4, <2>5
  <2>7. DOMAIN s = 1 .. k
    BY <2>4
  <2>8. Len(s) = k
    BY <2>5, <2>6, <2>7
  <2>9. QED
    BY <2>3, <2>6, <2>8
<1> HIDE DEF s
<1>6. At(s, 0) \in Zero .. Zero + 9
  <2>1. At(s, 0) = s[1] /\ 1 \in 1 .. k
    BY <1>4, <1>5 DEF At
  <2>2. QED
    BY <1>5, <2>1
<1>7. At(s, 0) # Blank /\ At(s, 0) \notin {Minus, Plus} /\ m # Over
  BY <1>2, <1>6 DEF Zero, Blank, Minus, Plus, Over
<1>8. AfterBlanks(s) = 0
  BY <1>5, <1>7, NoBlanks
<1>9. Digits(s, 0, IntMax) = m /\ Digits(s, 0, UIntMax) = m
  <2>1. 0 \in Nat /\ Len(s) = 0 + Len(l) /\ \A j \in 1 .. Len(l) : s[0 + j] = l[(Len(l) - j) + 1]
    BY <1>4, <1>5 DEF k
  <2>2. m \in Nat /\ IntMax \in Nat /\ UIntMax \in Nat /\ s \in Seq(Nat)
    BY <1>1, <1>2, <1>5
  <2>3. ASSUME NEW limit \in Nat, m <= 10 * (limit \div 10) + 7
        PROVE  Digits(s, 0, limit) = m
    BY <1>3, <2>1, <2>2, <2>3, PrintedIsRead
  <2>4. QED
    BY <1>2, <2>2, <2>3
<1>10. AToUL(ULToA(m)) = m
  <2>1. ULToA(m) = s
    BY DEF ULToA, s, l
  <2>2. AToUL(s) = IF Digits(s, 0, UIntMax) = Over THEN UIntMax ELSE Digits(s, 0, UIntMax)
    BY <1>8 DEF AToUL
  <2>3. QED
    BY <1>7, <1>9, <2>1, <2>2
<1>11. CASE ~(n < 0)
  <2>1. IToA(n) = s
    <3>1. n = m
      BY <1>2, <1>11
    <3>2. QED
      BY <1>11, <3>1 DEF IToA, s, l
  <2>2. Digits(s, IF At(s, 0) \in {Minus, Plus} THEN 0 + 1 ELSE 0, IntMax) = m
    BY <1>7, <1>9
  <2>3. Signed(s, IntMin) = (IF At(s, 0) = Minus THEN -1 ELSE 1) * m
    BY <1>7, <1>8, <2>2, Zenon DEF Signed
  <2>4. (IF At(s, 0) = Minus THEN -1 ELSE 1) * m = m
    BY <1>2, <1>7
  <2>5. QED
    BY <1>2, <1>10, <1>11, <2>1, <2>3, <2>4 DEF AToI, m
<1>12. CASE n < 0
  <2> DEFINE o == Append(l, Minus)
             u == Reverse(o)
  <2>1. IToA(n) = u
    <3>1. Negated(n) = m
      BY <1>2, <1>12 DEF Negated
    <3>2. QED
      BY <1>12, <3>1, Zenon DEF IToA, l
  <2>2. Len(o) = k + 1 /\ o[k + 1] = Minus /\ \A j \in 1 .. k : o[j] = l[j]
    BY <1>4 DEF k
  <2>3. u = [j \in 1 .. k + 1 |-> o[((k + 1) - j) + 1]]
    <3>1. u = [j \in 1 .. Len(o) |-> o[(Len(o) - j) + 1]]
      BY Zenon DEF Reverse
    <3> HIDE DEF o, u
    <3>2. QED
      BY <2>2, <3>1
  <2> HIDE DEF o, u
  <2>4. \A j \in 1 .. k : u[1 + j] = l[(k - j) + 1] /\ u[1 + j] \in Nat
    <3> SUFFICES ASSUME NEW j \in 1 .. k
                 PROVE  u[1 + j] = l[(k - j) + 1] /\ u[1 + j] \in Nat
      OBVIOUS
    <3>1. /\ 1 + j \in 1 .. k + 1 /\ ((k + 1) - (1 + j)) + 1 = (k - j) + 1
          /\ (k - j) + 1 \in 1 .. k
      BY <1>4
    <3>2. u[1 + j] = o[(k - j) + 1]
      BY <2>3, <3>1
    <3>3. QED
      BY <1>4, <2>2, <3>1, <3>2
  <2>5. u[1] = Minus
    <3>1. 1 \in 1 .. k + 1 /\ ((k + 1) - 1) + 1 = k + 1
      BY <1>4
    <3>2. QED
      BY <2>2, <2>3, <3>1
  <2>6. u \in Seq(Nat) /\ Len(u) = k + 1
    <3>1. \A j \in 1 .. k + 1 : u[j] \in Nat
      <4> SUFFICES ASSUME NEW j \in 1 .. k + 1 PROVE u[j] \in Nat
        OBVIOUS
      <4>1. CASE j = 1
        BY <2>5, <4>1 DEF Minus
      <4>2. CASE j # 1
        <5>1. j - 1 \in 1 .. k /\ 1 + (j - 1) = j
          BY <1>4, <4>2
        <5>2. QED
          BY <2>4, <5>1
      <4>3. QED
        BY <4>1, <4>2
    <3>2. u \in [1 .. k + 1 -> Nat]
      BY <2>3, <3>1
    <3>3. QED
      BY <1>4, <3>2
  <2>7. At(u, 0) = Minus
    BY <1>4, <2>5, <2>6 DEF At
  <2>8. AfterBlanks(u) = 0
    BY <2>6, <2>7, NoBlanks DEF Minus, Blank
  <2>9. Digits(u, 1, IntMax) = m
    <3>1. Len(u) = 1 + Len(l) /\ 1 \in Nat /\ \A j \in 1 .. Len(l) : u[1 + j] = l[(Len(l) - j) + 1]
      BY <1>4, <2>4, <2>6 DEF k
    <3>2. QED
      BY <1>1, <1>2, <1>3, <2>6, <3>1, PrintedIsRead
  <2>10. Digits(u, IF At(u, 0) \in {Minus, Plus} THEN 0 + 1 ELSE 0, IntMax) = m
    BY <2>7, <2>9
  <2>11. Signed(u, IntMin) = (IF At(u, 0) = Minus THEN -1 ELSE 1) * m
    BY <1>7, <2>8, <2>10, Zenon DEF Signed
  <2>12. (IF At(u, 0) = Minus THEN -1 ELSE 1) * m = -m
    BY <1>2, <2>7
  <2>13. QED
    BY <1>2, <1>10, <1>12, <2>1, <2>11, <2>12 DEF AToI, m
<1>13. QED
  BY <1>11, <1>12

LEMMA NextNumbers == Next => NumbersConvert'
<1> SUFFICES ASSUME Next PROVE NumbersConvert'
  OBVIOUS
<1>1. ASSUME call'.fn = "print", call'.n # IntMin
      PROVE  AToI(call'.itoa) = call'.n /\ AToUL(call'.ultoa) = Positive(call'.n)
  <2>1. PrintNumber
    BY <1>1, CallsOf
  <2>2. PICK n \in IntMin .. IntMax :
            call' = [fn |-> "print", n |-> n, itoa |-> IToA(n), ultoa |-> ULToA(Positive(n))]
    BY <2>1, Zenon DEF PrintNumber, Call
  <2>3. call'.n = n /\ call'.itoa = IToA(n) /\ call'.ultoa = ULToA(Positive(n))
    BY <2>2
  <2>4. QED
    BY <1>1, <2>3, NumbersPrinted
<1>2. ASSUME call'.fn = "parse"
      PROVE  LET b == WithoutBlanks(call'.s)
                 signed == b # <<>> /\ Head(b) \in {Minus, Plus}
                 v == IF signed THEN (IF Head(b) = Minus THEN -1 ELSE 1) * Value(Tail(b)) ELSE Value(b)
             IN  /\ call'.atoi = Clamped(v, IntMin, IntMax)
                 /\ call'.atoll = Clamped(v, -IntMax, IntMax)
                 /\ ~signed => call'.atoul = IF v \div 10 = UIntMax \div 10 /\ v % 10 <= 7 THEN v
                                             ELSE Clamped(v, 0, UIntMax)
  <2>1. ParseNumber
    BY <1>2, CallsOf
  <2>2. PICK s \in BoundedSeq(NumberChars, MaxNumeral) :
            call' = [fn |-> "parse", s |-> s, atoi |-> AToI(s), atoll |-> AToLL(s), atoul |-> AToUL(s)]
    BY <2>1, Zenon DEF ParseNumber, Call
  <2>3. call'.s = s /\ call'.atoi = AToI(s) /\ call'.atoll = AToLL(s) /\ call'.atoul = AToUL(s)
    BY <2>2
  <2>4. s \in Seq(Nat)
    <3>1. NumberChars \subseteq Nat
      BY DEF NumberChars, Blank, Plus, Minus, Zero
    <3>2. s \in Seq(NumberChars)
      BY InputsAssumption, BoundedIsSeq
    <3>3. QED
      BY <3>1, <3>2, SeqOfMore
  <2>5. QED
    BY <2>3, <2>4, NumbersRead
<1>3. QED
  BY <1>1, <1>2, Zenon DEF NumbersConvert, In

(* atoi, atoll and atoul read every text as the number it begins with, cut *)
(* off at the ends of the range, and what itoa and ultoa print is read as  *)
(* the number again (utils.cpp), for every range whose ends have the last  *)
(* digits that the code takes them to have: NumbersConvert.                *)
THEOREM AlwaysNumbersConvert == Spec => []NumbersConvert
<1>1. Init => NumbersConvert
  BY DEF Init, NumbersConvert, In, Idle
<1>2. NumbersConvert /\ [Next]_call => NumbersConvert'
  <2>1. UNCHANGED call => (NumbersConvert => NumbersConvert')
    BY Zenon DEF NumbersConvert, In
  <2>2. QED
    BY <2>1, NextNumbers
<1>3. QED
  BY <1>1, <1>2, PTL DEF Spec

-----------------------------------------------------------------------------
(* The searches for a needle. What the two-way search rests on is proved of *)
(* words of any letters: the maximal suffix under an order of the letters   *)
(* and its period, the longer of the two maximal suffixes as the place that *)
(* splits the needle, and that no shift of the window passes an occurrence. *)
(* The loops of the code are tied to it by LoopEnds and LoopKeeps.          *)

(* Two places of a word with the same letters, and one before the other in *)
(* the order of the words that begin there. *)
Same(x, a, b, d) == \A i \in 0 .. d - 1 : x[a + i] = x[b + i]
Below(x, a, b, d) == Same(x, a, b, d) /\ x[a + d] < x[b + d]

LEMMA ModShift ==
    ASSUME NEW p \in Nat \ {0}, NEW m \in Int, NEW i \in Int
    PROVE  (p * m + i) % p = i % p
<1> DEFINE q == i \div p
           r == i % p
           x == p * m + i
           k == m + q
<1>1. i = p * q + r /\ r \in Nat /\ r < p /\ q \in Int
  BY Division
<1>2. p * m \in Int /\ p * q \in Int /\ p * k = p * m + p * q
  BY <1>1
<1>3. x \in Int /\ k \in Int
  BY <1>1, <1>2
<1> HIDE DEF q, r, k
<1>4. x = p * k + r
  BY <1>1, <1>2
<1> HIDE DEF x
<1>5. x % p = r
  BY <1>1, <1>3, <1>4, DivisionIsUnique
<1>6. QED
  BY <1>5 DEF x, r

LEMMA SmallMod ==
    ASSUME NEW p \in Nat \ {0}, NEW i \in Nat, i < p
    PROVE  i % p = i
<1>1. i = p * 0 + i /\ i \in Int /\ 0 \in Int
  OBVIOUS
<1>2. QED
  BY <1>1, DivisionIsUnique

LEMMA BelowTransitive ==
    ASSUME NEW x \in [Nat -> Int], NEW a \in Nat, NEW b \in Nat, NEW c \in Nat,
           NEW d \in Nat, NEW e \in Nat, Below(x, a, b, d), Below(x, b, c, e)
    PROVE  Below(x, a, c, IF d < e THEN d ELSE e)
<1>1. /\ \A i \in 0 .. d - 1 : x[a + i] = x[b + i]
      /\ \A i \in 0 .. e - 1 : x[b + i] = x[c + i]
      /\ x[a + d] < x[b + d] /\ x[b + e] < x[c + e]
      /\ x[a + d] \in Int /\ x[b + d] \in Int /\ x[a + e] \in Int /\ x[b + e] \in Int /\ x[c + e] \in Int
  BY DEF Below, Same
<1>2. CASE d < e
  <2>1. \A i \in 0 .. d - 1 : x[a + i] = x[c + i]
    BY <1>1, <1>2
  <2>2. x[b + d] = x[c + d]
    BY <1>1, <1>2
  <2>3. QED
    BY <1>1, <1>2, <2>1, <2>2 DEF Below, Same
<1>3. CASE ~(d < e)
  <2>1. \A i \in 0 .. e - 1 : x[a + i] = x[c + i]
    BY <1>1, <1>3
  <2>2. x[a + e] <= x[b + e]
    <3>1. CASE d = e
      BY <1>1, <3>1
    <3>2. CASE d # e
      <4>1. e \in 0 .. d - 1
        BY <1>3, <3>2
      <4>2. QED
        BY <1>1, <4>1
    <3>3. QED
      BY <3>1, <3>2
  <2>3. x[a + e] < x[c + e]
    BY <1>1, <2>2
  <2>4. QED
    BY <1>3, <2>1, <2>3 DEF Below, Same
<1>4. QED
  BY <1>2, <1>3

LEMMA WholePeriods ==
    ASSUME NEW p \in Nat \ {0}, NEW m \in Int, NEW e \in Int, NEW r \in Nat, p * m + r < p * e
    PROVE  p * m + p <= p * e
<1> DEFINE j == m + 1
<1>1. ~(e <= m)
  <2> SUFFICES ASSUME e <= m PROVE FALSE
    OBVIOUS
  <2>1. p * e <= p * m
    BY TimesOrder
  <2>2. p * e \in Int /\ p * m \in Int
    OBVIOUS
  <2>3. QED
    BY <2>1, <2>2
<1>2. j <= e /\ j \in Int /\ p * j = p * m + p
  BY <1>1
<1> HIDE DEF j
<1>3. p * j <= p * e
  BY <1>2, TimesOrder
<1>4. QED
  BY <1>2, <1>3

-----------------------------------------------------------------------------
(* What the search for a maximal suffix knows.  The best suffix so far     *)
(* begins at a; up to b + o the word goes on there with period p; a part   *)
(* of one period is less than its whole, and so is what begins before a.   *)
Periodic(x, a, end, p) == \A i \in Nat : a + i < end => x[a + i] = x[a + (i % p)]
Lyndon(x, a, p) == \A r \in 1 .. p - 1 : \E d \in Nat : r + d < p /\ Below(x, a + r, a, d)
EarlierBelow(x, a, L) == \A s \in 0 .. a - 1 : \E d \in Nat : a + d < L /\ Below(x, s, a, d)
SuffixSoFar(x, L, a, b, o, p) ==
    /\ a \in Nat /\ b \in Nat /\ o \in Nat /\ p \in Nat \ {0} /\ o < p /\ b + o <= L
    /\ \E e \in Nat \ {0} : b = a + p * e
    /\ Periodic(x, a, b + o, p)
    /\ Lyndon(x, a, p)
    /\ EarlierBelow(x, a, L)

LEMMA FirstSuffix ==
    ASSUME NEW x \in [Nat -> Int], NEW L \in Nat, L >= 1, NEW a \in Nat, a < L, EarlierBelow(x, a, L)
    PROVE  SuffixSoFar(x, L, a, a + 1, 0, 1)
<1>1. Periodic(x, a, (a + 1) + 0, 1)
  <2> SUFFICES ASSUME NEW i \in Nat, a + i < (a + 1) + 0 PROVE x[a + i] = x[a + (i % 1)]
    BY DEF Periodic
  <2>1. i = 0 /\ i % 1 = 0
    OBVIOUS
  <2>2. QED
    BY <2>1
<1>2. Lyndon(x, a, 1)
  BY DEF Lyndon
<1>3. a + 1 = a + 1 * 1 /\ 1 \in Nat \ {0}
  OBVIOUS
<1>4. \E e \in Nat \ {0} : a + 1 = a + 1 * e
  BY <1>3
<1>5. a + 1 \in Nat /\ 0 \in Nat /\ 1 \in Nat \ {0} /\ 0 < 1 /\ (a + 1) + 0 <= L
  OBVIOUS
<1>6. QED
  BY <1>1, <1>2, <1>4, <1>5 DEF SuffixSoFar

(* The next letter goes on with the period. *)
LEMMA PeriodGoesOn ==
    ASSUME NEW x \in [Nat -> Int], NEW L \in Nat, NEW a, NEW b, NEW o, NEW p,
           SuffixSoFar(x, L, a, b, o, p), x[a + o] = x[b + o]
    PROVE  Periodic(x, a, b + o + 1, p)
<1>1. a \in Nat /\ b \in Nat /\ o \in Nat /\ p \in Nat \ {0} /\ o < p /\ Periodic(x, a, b + o, p)
  BY DEF SuffixSoFar
<1>2. PICK e \in Nat \ {0} : b = a + p * e
  BY DEF SuffixSoFar
<1> SUFFICES ASSUME NEW i \in Nat, a + i < b + o + 1 PROVE x[a + i] = x[a + (i % p)]
  BY DEF Periodic
<1>3. CASE a + i < b + o
  BY <1>1, <1>3 DEF Periodic
<1>4. CASE a + i = b + o
  <2>1. p * e \in Int
    BY <1>1
  <2>2. i = p * e + o
    BY <1>1, <1>2, <1>4, <2>1
  <2>3. (p * e + o) % p = o
    <3>1. (p * e + o) % p = o % p
      BY <1>1, ModShift
    <3>2. QED
      BY <1>1, <3>1, SmallMod
  <2>4. QED
    BY <1>4, <2>2, <2>3
<1>5. QED
  BY <1>1, <1>3, <1>4

LEMMA SuffixSame ==
    ASSUME NEW x \in [Nat -> Int], NEW L \in Nat, NEW a, NEW b, NEW o, NEW p,
           SuffixSoFar(x, L, a, b, o, p), b + o < L, x[a + o] = x[b + o]
    PROVE  IF o + 1 = p THEN SuffixSoFar(x, L, a, b + p, 0, p) ELSE SuffixSoFar(x, L, a, b, o + 1, p)
<1>1. a \in Nat /\ b \in Nat /\ o \in Nat /\ p \in Nat \ {0} /\ o < p
      /\ Lyndon(x, a, p) /\ EarlierBelow(x, a, L)
  BY DEF SuffixSoFar
<1>2. PICK e \in Nat \ {0} : b = a + p * e
  BY DEF SuffixSoFar
<1>3. Periodic(x, a, b + o + 1, p)
  BY PeriodGoesOn
<1>4. CASE o + 1 = p
  <2> DEFINE c == b + p
             k == e + 1
  <2>1. p * e \in Int /\ p * k = p * e + p /\ k \in Nat \ {0}
    BY <1>1
  <2>2. c \in Nat /\ c + 0 = b + o + 1 /\ c + 0 <= L /\ 0 \in Nat /\ 0 < p
    BY <1>1, <1>4
  <2>3. c = a + p * k
    BY <1>1, <1>2, <2>1
  <2> HIDE DEF c, k
  <2>4. SuffixSoFar(x, L, a, c, 0, p)
    BY <1>1, <1>3, <2>1, <2>2, <2>3 DEF SuffixSoFar
  <2>5. QED
    BY <1>4, <2>4 DEF c
<1>5. CASE o + 1 # p
  <2>1. o + 1 \in Nat /\ o + 1 < p /\ b + (o + 1) <= L /\ b + (o + 1) = b + o + 1
    BY <1>1, <1>5
  <2>2. SuffixSoFar(x, L, a, b, o + 1, p)
    BY <1>1, <1>2, <1>3, <2>1 DEF SuffixSoFar
  <2>3. QED
    BY <1>5, <2>2
<1>6. QED
  BY <1>4, <1>5

(* Where the period goes on, a place within it looks like one in its first *)
(* part, and whole periods later the word begins again. *)
PartRepeats(x, a, end, p, r) ==
    \A i \in Nat : (r % p) + i < p /\ a + r + i < end => x[a + r + i] = x[a + (r % p) + i]
Repeats(x, a, end, r) == \A i \in Nat : a + r + i < end => x[a + r + i] = x[a + i]

LEMMA WithinPeriod ==
    ASSUME NEW x \in [Nat -> Int], NEW a \in Nat, NEW end \in Int, NEW p \in Nat \ {0}, Periodic(x, a, end, p),
           NEW r \in Nat
    PROVE  PartRepeats(x, a, end, p, r)
<1> SUFFICES ASSUME NEW i \in Nat, (r % p) + i < p, a + r + i < end
             PROVE  x[a + r + i] = x[a + (r % p) + i]
  BY DEF PartRepeats
<1> DEFINE m == r \div p
           q == r % p
           j == q + i
<1>1. r = p * m + q /\ q \in Nat /\ m \in Int
  BY Division
<1> HIDE DEF m, q
<1>2. j \in Nat /\ j \in Int /\ j < p
  BY <1>1 DEF q
<1>3. r + i = p * m + j
  <2>1. p * m \in Int
    BY <1>1
  <2>2. QED
    BY <1>1, <2>1
<1> HIDE DEF j
<1>4. (r + i) % p = j
  <2>1. (p * m + j) % p = j % p
    BY <1>1, <1>2, ModShift, Zenon
  <2>2. QED
    BY <1>2, <1>3, <2>1, SmallMod
<1>5. r + i \in Nat /\ a + (r + i) = a + r + i
  OBVIOUS
<1>6. x[a + (r + i)] = x[a + ((r + i) % p)]
  BY <1>5 DEF Periodic
<1>7. a + j = a + q + i
  BY <1>1 DEF j
<1>8. QED
  BY <1>4, <1>5, <1>6, <1>7 DEF q

LEMMA WholePeriodsLater ==
    ASSUME NEW x \in [Nat -> Int], NEW a \in Nat, NEW end \in Int, NEW p \in Nat \ {0}, Periodic(x, a, end, p),
           NEW r \in Nat, r % p = 0
    PROVE  Repeats(x, a, end, r)
<1> SUFFICES ASSUME NEW i \in Nat, a + r + i < end PROVE x[a + r + i] = x[a + i]
  BY DEF Repeats
<1> DEFINE m == r \div p
           q == r % p
           pm == p * m
<1>1. r = p * m + q /\ q = 0 /\ m \in Int
  BY Division
<1> HIDE DEF m, q
<1>2. pm \in Int /\ r = pm
  BY <1>1
<1>3. (pm + i) % p = i % p
  <2>1. i \in Int
    OBVIOUS
  <2>2. QED
    BY <1>1, <2>1, ModShift, Zenon
<1> HIDE DEF pm
<1>4. r + i = pm + i /\ r + i \in Nat /\ a + (r + i) = a + r + i /\ a + i < end
  BY <1>2
<1>5. x[a + (r + i)] = x[a + ((r + i) % p)] /\ x[a + i] = x[a + (i % p)]
  BY <1>4 DEF Periodic
<1>6. QED
  BY <1>3, <1>4, <1>5

LEMMA SuffixGoesDown ==
    ASSUME NEW x \in [Nat -> Int], NEW L \in Nat, NEW a, NEW b, NEW o, NEW p,
           SuffixSoFar(x, L, a, b, o, p), b + o < L, x[b + o] < x[a + o]
    PROVE  SuffixSoFar(x, L, a, b + o + 1, 0, (b + o + 1) - a)
<1>1. a \in Nat /\ b \in Nat /\ o \in Nat /\ p \in Nat \ {0} /\ o < p
      /\ Lyndon(x, a, p) /\ EarlierBelow(x, a, L) /\ Periodic(x, a, b + o, p)
  BY DEF SuffixSoFar
<1>2. PICK e \in Nat \ {0} : b = a + p * e
  BY DEF SuffixSoFar
<1> DEFINE E == b + o
           q == (E + 1) - a
<1>3. E \in Nat /\ E < L /\ p * e \in Nat \ {0} /\ E = a + p * e + o /\ q \in Nat \ {0} /\ E - a \in Nat
  BY <1>1, <1>2
<1>4. (E - a) % p = o
  <2>1. E - a = p * e + o
    <3> DEFINE pe == p * e
    <3>1. pe \in Nat /\ E = a + pe + o
      BY <1>3
    <3> HIDE DEF pe, E
    <3>2. E - a = pe + o
      BY <1>1, <1>3, <3>1
    <3>3. QED
      BY <3>2 DEF pe
  <2>2. (p * e + o) % p = o % p
    BY <1>1, ModShift
  <2>3. QED
    BY <1>1, <2>1, <2>2, SmallMod
<1>5. Periodic(x, a, E + 1, q)
  <2> SUFFICES ASSUME NEW i \in Nat, a + i < E + 1 PROVE x[a + i] = x[a + (i % q)]
    BY DEF Periodic
  <2>1. i < q
    BY <1>1, <1>3
  <2> HIDE DEF q
  <2>2. i % q = i
    BY <1>3, <2>1, SmallMod
  <2>3. QED
    BY <2>2
<1>6. ASSUME NEW r \in 1 .. q - 1
      PROVE  \E d \in Nat : r + d < q /\ Below(x, a + r, a, d)
  <2> DEFINE s == r % p
             g == E - (a + r)
  <2>1. r \in Nat \ {0} /\ s \in 0 .. p - 1 /\ s \in Nat /\ g \in Nat /\ a + r + g = E /\ r + g < q
        /\ r + g = E - a /\ a + r \in Nat
    BY <1>1, <1>3
  <2> HIDE DEF g, s, E, q
  <2>2. CASE s = 0
    <3>1. ASSUME NEW i \in 0 .. g - 1 PROVE x[a + r + i] = x[a + i]
      <4>1. i \in Nat /\ a + r + i < E
        BY <2>1
      <4>2. QED
        <5>1. r \in Nat /\ r % p = 0 /\ E \in Int /\ Periodic(x, a, E, p)
          BY <1>1, <1>3, <2>1, <2>2 DEF s, E
        <5>2. Repeats(x, a, E, r)
          BY <1>1, <5>1, WholePeriodsLater, Zenon
        <5>3. QED
          BY <4>1, <5>2 DEF Repeats
    <3>2. x[a + g] = x[a + o]
      <4>1. g % p = o
        <5> DEFINE m == r \div p
        <5>1. r = p * m + s /\ m \in Int
          BY <1>1, <2>1, Division DEF s
        <5> HIDE DEF m
        <5>2. p * m \in Int /\ r = p * m
          BY <1>1, <2>2, <5>1
        <5>3. p * m + g = E - a
          BY <2>1, <5>2
        <5>4. (p * m + g) % p = g % p
          <6>1. g \in Int
            BY <2>1
          <6>2. QED
            BY <1>1, <5>1, <6>1, ModShift, Zenon
        <5>5. QED
          BY <1>4, <5>3, <5>4
      <4>2. a + g < E
        BY <1>1, <2>1
      <4>3. QED
        BY <1>1, <2>1, <4>1, <4>2 DEF Periodic, E
    <3>3. x[E] < x[a + g]
      BY <3>2 DEF E
    <3>4. Below(x, a + r, a, g)
      BY <2>1, <3>1, <3>3 DEF Below, Same
    <3>5. QED
      BY <2>1, <3>4
  <2>3. CASE s # 0
    <3>1. PICK d \in Nat : s + d < p /\ Below(x, a + s, a, d)
      BY <1>1, <2>1, <2>3 DEF Lyndon
    <3>2. /\ \A i \in 0 .. d - 1 : x[a + s + i] = x[a + i]
          /\ x[a + s + d] < x[a + d]
      BY <3>1 DEF Below, Same
    <3>3. ASSUME NEW i \in Nat, s + i < p, a + r + i < E PROVE x[a + r + i] = x[a + s + i]
      <4>1. r \in Nat /\ E \in Int /\ Periodic(x, a, E, p)
        BY <1>1, <1>3, <2>1 DEF E
      <4>2. PartRepeats(x, a, E, p, r)
        BY <1>1, <4>1, WithinPeriod, Zenon
      <4>3. \A j \in Nat : s + j < p /\ a + r + j < E => x[a + r + j] = x[a + s + j]
        BY <4>2, Zenon DEF s, PartRepeats
      <4>4. QED
        BY <3>3, <4>3
    <3>4. CASE a + r + d < E
      <4>1. ASSUME NEW i \in 0 .. d - 1 PROVE x[a + r + i] = x[a + i]
        <5>1. i \in Nat /\ s + i < p /\ a + r + i < E
          BY <1>1, <1>3, <2>1, <3>1, <3>4
        <5>2. QED
          BY <3>2, <3>3, <5>1
      <4>2. x[a + r + d] = x[a + s + d]
        BY <3>1, <3>3, <3>4
      <4>3. Below(x, a + r, a, d)
        BY <3>2, <4>1, <4>2 DEF Below, Same
      <4>4. r + d < q
        BY <1>1, <1>3, <2>1, <3>4 DEF q
      <4>5. QED
        BY <4>3, <4>4
    <3>5. CASE ~(a + r + d < E)
      <4>1. g <= d
        BY <1>1, <1>3, <2>1, <3>5
      <4>2. ASSUME NEW i \in 0 .. g - 1 PROVE x[a + r + i] = x[a + i]
        <5>1. i \in Nat /\ s + i < p /\ a + r + i < E /\ i \in 0 .. d - 1
          BY <1>1, <2>1, <3>1, <4>1
        <5>2. QED
          BY <3>2, <3>3, <5>1
      <4>3. o = s + g
        <5> DEFINE m == r \div p
                   t == s + g
        <5>1. r = p * m + s /\ m \in Int
          BY <1>1, <2>1, Division DEF s
        <5>2. t \in Nat /\ t < p
          BY <1>1, <2>1, <3>1, <4>1
        <5> HIDE DEF m
        <5>3. p * m \in Int /\ E - a = p * m + t
          BY <1>1, <2>1, <5>1
        <5> HIDE DEF t
        <5>4. (p * m + t) % p = t % p
          <6>1. t \in Int
            BY <5>2
          <6>2. QED
            BY <1>1, <5>1, <6>1, ModShift, Zenon
        <5>5. t % p = t
          BY <1>1, <5>2, SmallMod
        <5>6. QED
          BY <1>4, <5>3, <5>4, <5>5 DEF t
      <4>4. x[a + o] <= x[a + g]
        <5>1. x[a + o] = x[a + s + g] /\ x[a + g] \in Int /\ x[a + s + g] \in Int
          <6>1. a + o = a + s + g /\ a + g \in Nat /\ a + s + g \in Nat
            BY <1>1, <2>1, <4>3
          <6>2. QED
            BY <6>1
        <5>2. CASE g = d
          BY <3>2, <5>1, <5>2
        <5>3. CASE g # d
          <6>1. g \in 0 .. d - 1
            BY <2>1, <4>1, <5>3
          <6>2. QED
            BY <3>2, <5>1, <6>1
        <5>4. QED
          BY <5>2, <5>3
      <4>5. x[a + r + g] < x[a + g]
        <5>1. x[E] \in Int /\ x[a + o] \in Int /\ x[a + g] \in Int
          BY <1>1, <1>3, <2>1
        <5>2. x[E] < x[a + o]
          BY DEF E
        <5>3. QED
          BY <2>1, <4>4, <5>1, <5>2
      <4>6. Below(x, a + r, a, g)
        BY <4>2, <4>5 DEF Below, Same
      <4>7. QED
        BY <2>1, <4>6
    <3>6. QED
      BY <3>4, <3>5
  <2>4. QED
    BY <2>2, <2>3
<1>7. Lyndon(x, a, q)
  <2> HIDE DEF q
  <2>1. QED
    BY <1>6 DEF Lyndon
<1>8. E + 1 = a + q * 1 /\ 1 \in Nat \ {0}
  BY <1>1, <1>3
<1>9. \E k \in Nat \ {0} : E + 1 = a + q * k
  BY <1>8
<1>10. E + 1 \in Nat /\ 0 \in Nat /\ 0 < q /\ (E + 1) + 0 <= L /\ (E + 1) + 0 = E + 1
  BY <1>3
<1> HIDE DEF E, q
<1>11. SuffixSoFar(x, L, a, E + 1, 0, q)
  BY <1>1, <1>3, <1>5, <1>7, <1>9, <1>10 DEF SuffixSoFar
<1>12. QED
  BY <1>11 DEF E, q

LEMMA SuffixGoesUp ==
    ASSUME NEW x \in [Nat -> Int], NEW L \in Nat, NEW a, NEW b, NEW o, NEW p,
           SuffixSoFar(x, L, a, b, o, p), b + o < L, x[a + o] < x[b + o]
    PROVE  SuffixSoFar(x, L, b, b + 1, 0, 1)
<1>1. a \in Nat /\ b \in Nat /\ o \in Nat /\ p \in Nat \ {0} /\ o < p
      /\ Lyndon(x, a, p) /\ EarlierBelow(x, a, L) /\ Periodic(x, a, b + o, p)
  BY DEF SuffixSoFar
<1>2. PICK e \in Nat \ {0} : b = a + p * e
  BY DEF SuffixSoFar
<1> DEFINE E == b + o
           pe == p * e
<1>3. pe \in Nat /\ b - a = pe /\ (b - a) % p = 0 /\ b - a \in Nat /\ E \in Int /\ a + (b - a) = b
  <2>1. pe \in Nat
    BY <1>1
  <2>2. (p * e + 0) % p = 0 % p
    <3>1. e \in Int /\ 0 \in Int
      OBVIOUS
    <3>2. QED
      BY <1>1, <3>1, ModShift, Zenon
  <2>3. 0 % p = 0
    BY <1>1, SmallMod
  <2>4. pe % p = 0
    BY <2>1, <2>2, <2>3
  <2> HIDE DEF pe
  <2>5. b = a + pe
    BY <1>2 DEF pe
  <2>6. QED
    BY <1>1, <2>1, <2>4, <2>5
<1>4. Repeats(x, a, E, b - a)
  BY <1>1, <1>3, WholePeriodsLater, Zenon DEF E
<1> HIDE DEF pe, E
<1>5. Below(x, a, b, o)
  <2>1. ASSUME NEW i \in 0 .. o - 1 PROVE x[a + i] = x[b + i]
    <3>1. i \in Nat /\ a + (b - a) + i < E /\ a + (b - a) + i = b + i
      BY <1>1, <1>3 DEF E
    <3>2. QED
      BY <1>4, <3>1 DEF Repeats
  <2>2. QED
    BY <2>1 DEF Below, Same
<1>6. ASSUME NEW s \in 0 .. b - 1
      PROVE  \E d \in Nat : b + d < L /\ Below(x, s, b, d)
  <2>1. s \in Nat
    BY <1>1
  <2>2. ASSUME NEW d \in Nat, Below(x, s, a, d)
        PROVE  \E c \in Nat : b + c < L /\ Below(x, s, b, c)
    <3> DEFINE c == IF d < o THEN d ELSE o
    <3>1. Below(x, s, b, c)
      BY <1>1, <1>5, <2>1, <2>2, BelowTransitive
    <3>2. c \in Nat /\ b + c < L
      BY <1>1
    <3>3. QED
      BY <3>1, <3>2
  <2>3. CASE s < a
    BY <1>1, <2>1, <2>2, <2>3 DEF EarlierBelow
  <2>4. CASE ~(s < a)
    <3> DEFINE r == s - a
               t == r % p
               m == r \div p
    <3>1. r \in Nat /\ a + r = s /\ r < b - a
      BY <1>1, <2>1, <2>4
    <3> HIDE DEF r
    <3>2. r = p * m + t /\ t \in Nat /\ t < p /\ m \in Int
      BY <1>1, <3>1, Division
    <3> HIDE DEF m
    <3>3. CASE t = 0
      <4>1. Repeats(x, a, E, r)
        BY <1>1, <1>3, <3>1, <3>3, WholePeriodsLater, Zenon DEF E, t
      <4>2. ASSUME NEW i \in 0 .. o PROVE x[s + i] = x[a + i]
        <5>1. i \in Nat /\ a + r + i < E
          BY <1>1, <2>1, <3>1 DEF E
        <5>2. QED
          BY <3>1, <4>1, <5>1 DEF Repeats
      <4>3. Below(x, s, b, o)
        <5>1. \A i \in 0 .. o - 1 : x[s + i] = x[b + i]
          BY <1>1, <1>5, <4>2 DEF Below, Same
        <5>2. x[s + o] = x[a + o]
          BY <1>1, <4>2
        <5>3. QED
          BY <5>1, <5>2 DEF Below, Same
      <4>4. QED
        BY <1>1, <4>3
    <3>4. CASE t # 0
      <4>1. PICK d \in Nat : t + d < p /\ Below(x, a + t, a, d)
        <5>1. t \in 1 .. p - 1
          BY <1>1, <3>2, <3>4
        <5> HIDE DEF t
        <5>2. QED
          BY <1>1, <5>1 DEF Lyndon
      <4>2. PartRepeats(x, a, E, p, r)
        BY <1>1, <1>3, <3>1, WithinPeriod, Zenon DEF E
      <4>3. \A i \in Nat : t + i < p /\ a + r + i < E => x[a + r + i] = x[a + t + i]
        BY <4>2, Zenon DEF t, PartRepeats
      <4> DEFINE pm == p * m
      <4>4. pm \in Int /\ pm + p <= b - a /\ r = pm + t
        <5>1. p * m + t < p * e
          BY <1>3, <3>1, <3>2 DEF pe
        <5> HIDE DEF t
        <5>2. p * m + p <= p * e
          BY <1>1, <3>2, <5>1, WholePeriods
        <5>3. p * m \in Int
          BY <1>1, <3>2
        <5>4. QED
          BY <1>3, <3>2, <5>2, <5>3 DEF pe
      <4> HIDE DEF t, pm
      <4>5. ASSUME NEW i \in 0 .. d PROVE x[s + i] = x[a + t + i]
        <5>1. i \in Nat /\ t + i < p /\ a + r + i < E
          BY <1>1, <3>2, <4>1, <4>4 DEF E
        <5>2. QED
          BY <3>1, <4>3, <5>1
      <4>6. Below(x, s, a, d)
        <5>1. \A i \in 0 .. d - 1 : x[s + i] = x[a + i]
          BY <4>1, <4>5 DEF Below, Same
        <5>2. x[s + d] < x[a + d]
          BY <4>1, <4>5 DEF Below, Same
        <5>3. QED
          BY <5>1, <5>2 DEF Below, Same
      <4>7. QED
        BY <2>2, <4>6
    <3>5. QED
      BY <3>3, <3>4
  <2>5. QED
    BY <2>3, <2>4
<1>7. EarlierBelow(x, b, L)
  BY <1>6 DEF EarlierBelow
<1>8. b < L /\ L >= 1
  BY <1>1
<1>9. QED
  BY <1>1, <1>7, <1>8, FirstSuffix

(* What begins later is not above the suffix that the search ends with.    *)
LaterNotAbove(x, a, L) ==
    \A r \in Nat \ {0}, d \in Nat :
        a + r + d < L /\ Same(x, a + r, a, d) => x[a + r + d] <= x[a + d]

LEMMA SuffixIsMaximal ==
    ASSUME NEW x \in [Nat -> Int], NEW L \in Nat, NEW a, NEW b, NEW o, NEW p,
           SuffixSoFar(x, L, a, b, o, p), b + o = L
    PROVE  LaterNotAbove(x, a, L)
<1>1. a \in Nat /\ b \in Nat /\ o \in Nat /\ p \in Nat \ {0} /\ Lyndon(x, a, p) /\ Periodic(x, a, L, p)
  BY DEF SuffixSoFar
<1> SUFFICES ASSUME NEW r \in Nat \ {0}, NEW d \in Nat, a + r + d < L, Same(x, a + r, a, d)
             PROVE  x[a + r + d] <= x[a + d]
  BY DEF LaterNotAbove
<1> DEFINE t == r % p
<1>2. t \in Nat /\ t < p /\ r \in Nat /\ L \in Int
  BY <1>1, Division
<1>3. x[a + r + d] \in Int /\ x[a + d] \in Int
  BY <1>1
<1>4. CASE t = 0
  <2>1. Repeats(x, a, L, r)
    BY <1>1, <1>2, <1>4, WholePeriodsLater, Zenon
  <2>2. x[a + r + d] = x[a + d]
    BY <2>1 DEF Repeats
  <2>3. QED
    BY <1>3, <2>2
<1>5. CASE t # 0
  <2> HIDE DEF t
  <2>1. PICK c \in Nat : t + c < p /\ Below(x, a + t, a, c)
    <3>1. t \in 1 .. p - 1
      BY <1>1, <1>2, <1>5
    <3>2. QED
      BY <1>1, <3>1 DEF Lyndon
  <2>2. PartRepeats(x, a, L, p, r)
    BY <1>1, <1>2, WithinPeriod, Zenon
  <2>3. \A i \in Nat : t + i < p /\ a + r + i < L => x[a + r + i] = x[a + t + i]
    BY <2>2, Zenon DEF t, PartRepeats
  <2>4. x[a + t + c] < x[a + c] /\ \A i \in 0 .. c - 1 : x[a + t + i] = x[a + i]
    BY <2>1 DEF Below, Same
  <2>5. x[a + t + c] \in Int /\ x[a + c] \in Int
    BY <1>1, <1>2
  <2>6. CASE d < c
    <3>1. t + d < p /\ d \in 0 .. c - 1
      BY <1>1, <1>2, <2>1, <2>6
    <3>2. QED
      BY <1>3, <2>3, <2>4, <3>1
  <2>7. CASE d = c
    BY <1>3, <2>1, <2>3, <2>4, <2>5, <2>7
  <2>8. CASE d > c
    <3>1. a + r + c < L /\ c \in 0 .. d - 1
      BY <1>1, <2>8
    <3>2. x[a + r + c] = x[a + t + c]
      BY <2>1, <2>3, <3>1
    <3>3. x[a + r + c] = x[a + c]
      BY <3>1 DEF Same
    <3>4. QED
      BY <2>4, <2>5, <3>2, <3>3
  <2>9. QED
    BY <2>6, <2>7, <2>8
<1>6. QED
  BY <1>4, <1>5

-----------------------------------------------------------------------------
(* A factorization of a word that is critical: the right part, which       *)
(* begins at a and has the period p, is the maximal suffix for one order   *)
(* of the letters, and the maximal suffix for the other order begins at c, *)
(* no later. *)
LaterNotBelow(x, c, L) ==
    \A r \in Nat \ {0}, d \in Nat :
        c + r + d < L /\ Same(x, c + r, c, d) => x[c + r + d] >= x[c + d]
Critical(x, L, a, c, p) ==
    /\ x \in [Nat -> Int] /\ L \in Nat /\ a \in Nat /\ c \in Nat /\ p \in Nat \ {0}
    /\ c <= a /\ p <= L - a
    /\ Periodic(x, a, L, p) /\ Lyndon(x, a, p)
    /\ EarlierBelow(x, a, L) /\ LaterNotAbove(x, a, L) /\ LaterNotBelow(x, c, L)

(* Laid s to the right, the word agrees with itself around the place a; it *)
(* agrees everywhere. *)
MeetsAt(x, a, L, s) == \A j \in 0 .. a - 1 : j + s >= a /\ j + s < L => x[j] = x[j + s]
HasPeriod(x, L, s) == \A i \in Nat : i + s < L => x[i] = x[i + s]

LEMMA ShortRepetition ==
    ASSUME NEW x, NEW L, NEW a, NEW c, NEW p, Critical(x, L, a, c, p),
           NEW s \in Nat \ {0}, MeetsAt(x, a, L, s)
    PROVE  s > a
<1>1. /\ x \in [Nat -> Int] /\ L \in Nat /\ a \in Nat
      /\ EarlierBelow(x, a, L) /\ LaterNotAbove(x, a, L)
  BY DEF Critical
<1> SUFFICES ASSUME s <= a PROVE FALSE
  BY <1>1
<1> DEFINE t == a - s
<1>2. t \in 0 .. a - 1 /\ t \in Nat /\ t + s = a
  BY <1>1
<1> HIDE DEF t
<1>3. PICK d \in Nat : a + d < L /\ Below(x, t, a, d)
  BY <1>1, <1>2 DEF EarlierBelow
<1>4. x[t + d] < x[a + d] /\ \A i \in 0 .. d - 1 : x[t + i] = x[a + i]
  BY <1>3 DEF Below, Same
<1>5. x[t + d] \in Int /\ x[a + d] \in Int
  BY <1>1, <1>2
<1>6. ~(d < s)
  <2> SUFFICES ASSUME d < s PROVE FALSE
    OBVIOUS
  <2>1. t + d \in 0 .. a - 1 /\ (t + d) + s = a + d /\ a + d >= a
    BY <1>1, <1>2
  <2>2. x[t + d] = x[a + d]
    BY <1>3, <2>1 DEF MeetsAt
  <2>3. QED
    BY <1>4, <1>5, <2>2
<1> DEFINE k == d - s
<1>7. k \in Nat /\ t + d = a + k /\ a + d = a + s + k /\ d = s + k
  BY <1>1, <1>2, <1>6
<1> HIDE DEF k
<1>8. Same(x, a + s, a, k)
  <2> SUFFICES ASSUME NEW i \in 0 .. k - 1 PROVE x[a + s + i] = x[a + i]
    BY DEF Same
  <2>1. s + i \in 0 .. d - 1 /\ t + (s + i) = a + i /\ a + (s + i) = a + s + i
    BY <1>1, <1>2, <1>7
  <2>2. QED
    BY <1>4, <2>1
<1>9. x[a + s + k] <= x[a + k]
  <2>1. a + s + k < L
    BY <1>3, <1>7
  <2>2. QED
    BY <1>1, <1>7, <1>8, <2>1 DEF LaterNotAbove
<1>10. QED
  BY <1>4, <1>5, <1>7, <1>9

LEMMA LongRepetition ==
    ASSUME NEW x, NEW L, NEW a, NEW c, NEW p, Critical(x, L, a, c, p),
           NEW s \in Nat \ {0}, MeetsAt(x, a, L, s), s <= L - a
    PROVE  HasPeriod(x, L, s)
<1>1. /\ x \in [Nat -> Int] /\ L \in Nat /\ a \in Nat /\ c \in Nat /\ c <= a
      /\ LaterNotAbove(x, a, L) /\ LaterNotBelow(x, c, L)
  BY DEF Critical
<1>2. s > a
  BY ShortRepetition
<1> DEFINE T == {k \in Nat : a + s + k < L /\ x[a + s + k] # x[a + k]}
<1>3. T = {}
  <2> SUFFICES ASSUME T # {} PROVE FALSE
    OBVIOUS
  <2>1. T \in SUBSET Nat
    OBVIOUS
  <2> HIDE DEF T
  <2>2. PICK k \in T : \A j \in T : k <= j
    BY <2>1, LeastNumber
  <2>3. k \in Nat /\ a + s + k < L /\ x[a + s + k] # x[a + k]
    BY <2>2 DEF T
  <2>4. ASSUME NEW i \in 0 .. k - 1 PROVE x[a + s + i] = x[a + i]
    <3>1. i \in Nat /\ ~(k <= i) /\ a + s + i < L
      BY <1>1, <2>3
    <3>2. i \notin T
      BY <2>2, <3>1
    <3>3. QED
      BY <3>1, <3>2 DEF T
  <2>5. x[a + s + k] <= x[a + k]
    <3>1. Same(x, a + s, a, k)
      BY <2>4 DEF Same
    <3>2. QED
      BY <1>1, <2>3, <3>1 DEF LaterNotAbove
  <2> DEFINE t == a - c
             d == t + k
  <2>6. t \in Nat /\ d \in Nat /\ c + t = a /\ c + d = a + k /\ c + s + d = a + s + k
    BY <1>1, <2>3
  <2>7. Same(x, c + s, c, d)
    <3> SUFFICES ASSUME NEW i \in 0 .. d - 1 PROVE x[c + s + i] = x[c + i]
      BY DEF Same
    <3>1. CASE i < t
      <4>1. c + i \in 0 .. a - 1 /\ (c + i) + s = c + s + i /\ c + s + i >= a /\ c + s + i < L
        BY <1>1, <1>2, <2>6, <3>1
      <4>2. QED
        BY <4>1 DEF MeetsAt
    <3>2. CASE ~(i < t)
      <4> DEFINE j == i - t
      <4>1. j \in 0 .. k - 1 /\ c + s + i = a + s + j /\ c + i = a + j
        BY <1>1, <2>3, <2>6, <3>2
      <4>2. QED
        BY <2>4, <4>1
    <3>3. QED
      BY <3>1, <3>2
  <2> HIDE DEF t, d
  <2>8. x[c + s + d] >= x[c + d]
    <3>1. c + s + d < L
      BY <2>3, <2>6
    <3>2. QED
      BY <1>1, <2>6, <2>7, <3>1 DEF LaterNotBelow
  <2>9. x[a + s + k] \in Int /\ x[a + k] \in Int
    BY <1>1, <2>3
  <2>10. QED
    BY <2>3, <2>5, <2>6, <2>8, <2>9
<1> HIDE DEF T
<1> SUFFICES ASSUME NEW i \in Nat, i + s < L PROVE x[i] = x[i + s]
  BY DEF HasPeriod
<1>4. CASE i < a
  <2>1. i \in 0 .. a - 1 /\ i + s >= a
    BY <1>1, <1>2, <1>4
  <2>2. QED
    BY <2>1 DEF MeetsAt
<1>5. CASE ~(i < a)
  <2> DEFINE k == i - a
  <2>1. k \in Nat /\ a + s + k = i + s /\ a + k = i
    BY <1>1, <1>5
  <2>2. k \notin T /\ a + s + k < L
    BY <1>3, <2>1
  <2> HIDE DEF k
  <2>3. x[a + s + k] = x[a + k]
    BY <2>1, <2>2 DEF T
  <2>4. QED
    BY <2>1, <2>3
<1>6. QED
  BY <1>4, <1>5

(* p is the least period. *)
LEMMA NoShorterPeriod ==
    ASSUME NEW x, NEW L, NEW a, NEW c, NEW p, Critical(x, L, a, c, p),
           NEW s \in Nat \ {0}, HasPeriod(x, L, s)
    PROVE  s >= p
<1>1. /\ x \in [Nat -> Int] /\ L \in Nat /\ a \in Nat /\ p \in Nat \ {0} /\ p <= L - a /\ Lyndon(x, a, p)
  BY DEF Critical
<1> SUFFICES ASSUME s < p PROVE FALSE
  BY <1>1
<1>2. PICK d \in Nat : s + d < p /\ Below(x, a + s, a, d)
  <2>1. s \in 1 .. p - 1
    BY <1>1
  <2>2. QED
    BY <2>1, <1>1 DEF Lyndon
<1>3. x[a + s + d] < x[a + d] /\ x[a + s + d] \in Int /\ x[a + d] \in Int
  BY <1>1, <1>2 DEF Below
<1>4. a + d \in Nat /\ (a + d) + s < L /\ (a + d) + s = a + s + d
  BY <1>1, <1>2
<1>5. x[a + d] = x[(a + d) + s]
  BY <1>4 DEF HasPeriod
<1>6. QED
  BY <1>3, <1>4, <1>5

LEMMA MeetsWithPeriod ==
    ASSUME NEW x, NEW L, NEW a, NEW s \in Nat, HasPeriod(x, L, s), a \in Nat
    PROVE  MeetsAt(x, a, L, s)
  BY DEF HasPeriod, MeetsAt

LEMMA RightPeriod ==
    ASSUME NEW x, NEW L, NEW a, NEW c, NEW p, Critical(x, L, a, c, p)
    PROVE  \A i \in Nat : i >= a /\ i + p < L => x[i] = x[i + p]
<1>1. /\ x \in [Nat -> Int] /\ L \in Int /\ a \in Nat /\ p \in Nat \ {0} /\ p \in Nat /\ Periodic(x, a, L, p)
  BY DEF Critical
<1>2. p % p = 0
  <2>1. p = p * 1 + 0 /\ 0 \in Nat /\ 0 < p /\ p \in Int /\ 1 \in Int
    BY <1>1
  <2>2. QED
    BY <1>1, <2>1, DivisionIsUnique
<1>3. Repeats(x, a, L, p)
  BY <1>1, <1>2, WholePeriodsLater, Zenon
<1> SUFFICES ASSUME NEW i \in Nat, i >= a, i + p < L PROVE x[i] = x[i + p]
  OBVIOUS
<1> DEFINE k == i - a
<1>4. k \in Nat /\ a + p + k = i + p /\ a + k = i
  BY <1>1
<1> HIDE DEF k
<1>5. x[a + p + k] = x[a + k]
  BY <1>3, <1>4 DEF Repeats
<1>6. QED
  BY <1>4, <1>5

(* A period of the whole word that is not longer than the right part: the  *)
(* period of the right part is one of the whole word, and longer than the  *)
(* left part. *)
LEMMA PeriodIsLonger ==
    ASSUME NEW x, NEW L, NEW a, NEW c, NEW p, Critical(x, L, a, c, p), HasPeriod(x, L, p)
    PROVE  p > a
<1>1. a \in Nat /\ p \in Nat \ {0}
  BY DEF Critical
<1>2. MeetsAt(x, a, L, p)
  BY <1>1, MeetsWithPeriod
<1>3. QED
  BY <1>1, <1>2, ShortRepetition

LEMMA ShorterMeets ==
    ASSUME NEW x, NEW L, NEW a, NEW c, NEW p, Critical(x, L, a, c, p),
           NEW s \in Nat \ {0}, HasPeriod(x, L, s), s <= L - a,
           NEW r \in Nat, r <= s, (s - r) % p = 0
    PROVE  MeetsAt(x, a, L, r)
<1>1. /\ x \in [Nat -> Int] /\ L \in Nat /\ L \in Int /\ a \in Nat /\ p \in Nat \ {0} /\ Periodic(x, a, L, p)
  BY DEF Critical
<1> DEFINE q == s - r
<1>2. q \in Nat /\ q % p = 0
  OBVIOUS
<1> HIDE DEF q
<1>3. Repeats(x, a, L, q)
  BY <1>1, <1>2, WholePeriodsLater, Zenon
<1> SUFFICES ASSUME NEW j \in 0 .. a - 1, j + r >= a, j + r < L PROVE x[j] = x[j + r]
  BY DEF MeetsAt
<1> DEFINE i == (j + r) - a
<1>4. i \in Nat /\ a + q + i = j + s /\ a + i = j + r /\ j + s < L /\ j \in Nat
  BY <1>1 DEF q
<1> HIDE DEF i
<1>5. x[a + q + i] = x[a + i]
  BY <1>3, <1>4 DEF Repeats
<1>6. x[j] = x[j + s]
  BY <1>4 DEF HasPeriod
<1>7. QED
  BY <1>4, <1>5, <1>6

LEMMA PeriodOfRight ==
    ASSUME NEW x, NEW L, NEW a, NEW c, NEW p, Critical(x, L, a, c, p),
           NEW s \in Nat \ {0}, HasPeriod(x, L, s), s <= L - a
    PROVE  HasPeriod(x, L, p)
<1>1. /\ x \in [Nat -> Int] /\ L \in Nat /\ a \in Nat /\ p \in Nat \ {0} /\ p <= L - a
  BY DEF Critical
<1>2. s >= p
  BY NoShorterPeriod
<1> DEFINE r == s % p
           m == s \div p
<1>3. s = p * m + r /\ r \in Nat /\ r < p /\ m \in Int
  BY <1>1, Division
<1> HIDE DEF r, m
<1>4. CASE r # 0
  <2>1. r <= s /\ r \in Nat \ {0} /\ r <= L - a
    BY <1>1, <1>2, <1>3, <1>4
  <2>2. (s - r) % p = 0
    <3>1. (p * m + 0) % p = 0 % p
      <4>1. 0 \in Int
        OBVIOUS
      <4>2. QED
        BY <1>1, <1>3, <4>1, ModShift, Zenon
    <3>2. 0 % p = 0
      BY <1>1, SmallMod
    <3>3. p * m + 0 = s - r
      <4> DEFINE pm == p * m
      <4>1. pm \in Int /\ s = pm + r
        BY <1>1, <1>3
      <4> HIDE DEF pm
      <4>2. pm + 0 = s - r
        BY <1>3, <4>1
      <4>3. QED
        BY <4>2 DEF pm
    <3>4. QED
      BY <3>1, <3>2, <3>3
  <2>3. MeetsAt(x, a, L, r)
    BY <1>3, <2>1, <2>2, ShorterMeets
  <2>4. HasPeriod(x, L, r)
    BY <2>1, <2>3, LongRepetition
  <2>5. r >= p
    BY <2>1, <2>4, NoShorterPeriod
  <2>6. QED
    BY <1>1, <1>3, <2>5
<1>5. CASE r = 0
  <2>1. (s - p) % p = 0
    <3> DEFINE k == m - 1
               pm == p * m
               pk == p * k
    <3>1. k \in Int /\ pm \in Int /\ pk = pm - p /\ s = pm
      BY <1>1, <1>3, <1>5
    <3>2. (p * k + 0) % p = 0 % p
      <4>1. 0 \in Int
        OBVIOUS
      <4> HIDE DEF k
      <4>2. QED
        BY <1>1, <3>1, <4>1, ModShift, Zenon
    <3>3. 0 % p = 0
      BY <1>1, SmallMod
    <3>4. pk % p = 0
      <4>1. p * k + 0 = pk
        BY <1>1, <3>1
      <4>2. QED
        BY <3>2, <3>3, <4>1
    <3> HIDE DEF pm, pk
    <3>5. s - p = pk
      BY <1>1, <3>1
    <3>6. QED
      BY <3>4, <3>5
  <2>2. p \in Nat /\ p <= s
    BY <1>1, <1>2
  <2>3. MeetsAt(x, a, L, p)
    BY <2>1, <2>2, ShorterMeets
  <2>4. QED
    BY <1>1, <2>3, LongRepetition
<1>6. QED
  BY <1>4, <1>5

-----------------------------------------------------------------------------
(* The search for a maximal suffix, in either order of the letters. *)
LettersOf(n, sign) == [i \in Nat |-> sign * At(n, i)]

Suffix(ip, jp, k, p) == [ip |-> ip, jp |-> jp, k |-> k, p |-> p]
SuffixKnown(n, sign, s) ==
    SuffixSoFar(LettersOf(n, sign), Len(n), s.ip + 1, s.jp + 1, s.k - 1, s.p)

LEMMA LettersAre ==
    ASSUME NEW n \in Seq(Nat \ {0}), NEW sign \in {1, -1}
    PROVE  /\ LettersOf(n, sign) \in [Nat -> Int]
           /\ \A i \in Nat : At(n, i) \in Nat /\ LettersOf(n, sign)[i] = sign * At(n, i)
<1>1. ASSUME NEW i \in Nat PROVE At(n, i) \in Nat
  BY DEF At
<1>2. QED
  BY <1>1 DEF LettersOf

LEMMA NextSuffixIs ==
    ASSUME NEW n \in Seq(Nat \ {0}), NEW sign \in {1, -1}, NEW s \in SuffixStates,
           s.jp + s.k < Len(n)
    PROVE  LET t == NextSuffix(n, sign, s)
               x == LettersOf(n, sign)
           IN  /\ t \in SuffixStates
               /\ t.ip + t.jp + t.k > s.ip + s.jp + s.k
               /\ \/ /\ x[s.ip + s.k] = x[s.jp + s.k]
                     /\ t = IF s.k = s.p THEN Suffix(s.ip, s.jp + s.p, 1, s.p)
                            ELSE Suffix(s.ip, s.jp, s.k + 1, s.p)
                  \/ /\ x[s.ip + s.k] > x[s.jp + s.k]
                     /\ t = Suffix(s.ip, s.jp + s.k, 1, (s.jp + s.k) - s.ip)
                  \/ /\ x[s.ip + s.k] < x[s.jp + s.k]
                     /\ t = Suffix(s.jp, s.jp + 1, 1, 1)
<1> DEFINE ip == s.ip
           jp == s.jp
           k == s.k
           p == s.p
           x == LettersOf(n, sign)
           diff == sign * (At(n, s.ip + s.k) - At(n, s.jp + s.k))
           t == NextSuffix(n, sign, s)
<1>1. /\ ip \in Int /\ jp \in Nat /\ k \in Nat /\ p \in Nat /\ ip >= -1 /\ k >= 1 /\ k <= p
      /\ p >= 1 /\ p <= jp - ip /\ s = Suffix(ip, jp, k, p)
  BY DEF SuffixStates, Suffix
<1>2. ASSUME NEW i \in Int, NEW j \in Nat, NEW l \in Nat, NEW q \in Nat,
             i >= -1, l >= 1, l <= q, q <= j - i
      PROVE  Suffix(i, j, l, q) \in SuffixStates
  BY <1>2, SMTT(40) DEF SuffixStates, Suffix
<1>3. diff = x[ip + k] - x[jp + k] /\ x[ip + k] \in Int /\ x[jp + k] \in Int
  <2> DEFINE u == At(n, ip + k)
             v == At(n, jp + k)
  <2>1. ip + k \in Nat /\ jp + k \in Nat
    BY <1>1
  <2>2. u \in Nat /\ v \in Nat /\ x[ip + k] = sign * u /\ x[jp + k] = sign * v
    <3> HIDE DEF x, ip, jp, k
    <3>1. QED
      BY <2>1, LettersAre DEF x
  <2>3. diff = sign * (u - v)
    OBVIOUS
  <2> HIDE DEF u, v, x, diff
  <2>4. QED
    BY <2>2, <2>3
<1>4. t = IF diff = 0 /\ k = p THEN [s EXCEPT !.jp = @ + p, !.k = 1]
          ELSE IF diff = 0 THEN [s EXCEPT !.k = @ + 1]
          ELSE IF diff > 0 THEN [s EXCEPT !.jp = @ + k, !.k = 1, !.p = jp + k - ip]
          ELSE Suffix(jp, jp + 1, 1, 1)
  BY Zenon DEF NextSuffix, Suffix
<1>5. /\ [s EXCEPT !.jp = @ + p, !.k = 1] = Suffix(ip, jp + p, 1, p)
      /\ [s EXCEPT !.k = @ + 1] = Suffix(ip, jp, k + 1, p)
      /\ [s EXCEPT !.jp = @ + k, !.k = 1, !.p = jp + k - ip] = Suffix(ip, jp + k, 1, (jp + k) - ip)
  <2> DEFINE e == jp + k - ip
  <2>1. (jp + k) - ip = e
    BY <1>1
  <2> HIDE DEF e, ip, jp, k, p
  <2>2. s = [ip |-> ip, jp |-> jp, k |-> k, p |-> p]
    BY <1>1 DEF Suffix
  <2>3. [s EXCEPT !.jp = @ + p, !.k = 1] = Suffix(ip, jp + p, 1, p)
    <3> DEFINE u == Suffix(ip, jp + p, k, p)
    <3>1. [s EXCEPT !.jp = @ + p] = u
      BY <2>2 DEF Suffix
    <3>2. [u EXCEPT !.k = 1] = Suffix(ip, jp + p, 1, p)
      BY DEF Suffix
    <3> HIDE DEF u
    <3>3. [s EXCEPT !.jp = @ + p, !.k = 1] = [u EXCEPT !.k = 1]
      BY <3>1
    <3>4. QED
      BY <3>2, <3>3
  <2>4. [s EXCEPT !.k = @ + 1] = Suffix(ip, jp, k + 1, p)
    BY <2>2 DEF Suffix
  <2>5. [s EXCEPT !.jp = @ + k, !.k = 1, !.p = e] = Suffix(ip, jp + k, 1, e)
    <3> DEFINE u == Suffix(ip, jp + k, k, p)
               w == Suffix(ip, jp + k, 1, p)
    <3>1. [s EXCEPT !.jp = @ + k] = u
      BY <2>2 DEF Suffix
    <3>2. [u EXCEPT !.k = 1] = w
      BY DEF Suffix
    <3>3. [w EXCEPT !.p = e] = Suffix(ip, jp + k, 1, e)
      BY DEF Suffix
    <3> HIDE DEF u, w
    <3>4. [s EXCEPT !.jp = @ + k, !.k = 1, !.p = e] = [w EXCEPT !.p = e]
      BY <3>1, <3>2
    <3>5. QED
      BY <3>3, <3>4
  <2>6. QED
    BY <2>1, <2>3, <2>4, <2>5 DEF e
<1> HIDE DEF diff, t, x, ip, jp, k, p
<1>6. CASE diff = 0 /\ k = p
  <2>1. t = Suffix(ip, jp + p, 1, p) /\ x[ip + k] = x[jp + k]
    BY <1>3, <1>4, <1>5, <1>6
  <2>2. t \in SuffixStates
    <3>1. jp + p \in Nat /\ p <= (jp + p) - ip /\ 1 \in Nat /\ 1 >= 1 /\ 1 <= p
      BY <1>1
    <3>2. QED
      BY <1>1, <1>2, <2>1, <3>1
  <2>3. t.ip + t.jp + t.k > ip + jp + k
    BY <1>1, <1>6, <2>1 DEF Suffix
  <2>4. QED
    BY <1>6, <2>1, <2>2, <2>3 DEF t, x, ip, jp, k, p
<1>7. CASE diff = 0 /\ k # p
  <2>1. t = Suffix(ip, jp, k + 1, p) /\ x[ip + k] = x[jp + k]
    BY <1>3, <1>4, <1>5, <1>7
  <2>2. t \in SuffixStates
    <3>1. k + 1 \in Nat /\ k + 1 >= 1 /\ k + 1 <= p
      BY <1>1, <1>7
    <3>2. QED
      BY <1>1, <1>2, <2>1, <3>1
  <2>3. t.ip + t.jp + t.k > ip + jp + k
    BY <1>1, <1>7, <2>1 DEF Suffix
  <2>4. QED
    BY <1>7, <2>1, <2>2, <2>3 DEF t, x, ip, jp, k, p
<1>8. CASE diff > 0
  <2>1. t = Suffix(ip, jp + k, 1, (jp + k) - ip) /\ x[ip + k] > x[jp + k]
    BY <1>3, <1>4, <1>5, <1>8
  <2>2. t \in SuffixStates
    <3>1. jp + k \in Nat /\ (jp + k) - ip \in Nat /\ 1 \in Nat /\ 1 >= 1 /\ 1 <= (jp + k) - ip
          /\ (jp + k) - ip <= (jp + k) - ip
      BY <1>1
    <3>2. QED
      BY <1>1, <1>2, <2>1, <3>1
  <2>3. t.ip + t.jp + t.k > ip + jp + k
    BY <1>1, <1>8, <2>1 DEF Suffix
  <2>4. QED
    BY <1>8, <2>1, <2>2, <2>3 DEF t, x, ip, jp, k, p
<1>9. CASE diff < 0
  <2>1. t = Suffix(jp, jp + 1, 1, 1) /\ x[ip + k] < x[jp + k]
    BY <1>3, <1>4, <1>9
  <2>2. t \in SuffixStates
    <3>1. jp \in Int /\ jp >= -1 /\ jp + 1 \in Nat /\ 1 \in Nat /\ 1 >= 1 /\ 1 <= 1 /\ 1 <= (jp + 1) - jp
      BY <1>1
    <3>2. QED
      BY <1>2, <2>1, <3>1
  <2>3. t.ip + t.jp + t.k > ip + jp + k
    BY <1>1, <1>9, <2>1 DEF Suffix
  <2>4. QED
    BY <1>9, <2>1, <2>2, <2>3 DEF t, x, ip, jp, k, p
<1>10. diff \in Int
  BY <1>3
<1>11. QED
  BY <1>6, <1>7, <1>8, <1>9, <1>10

LEMMA NextSuffixKnows ==
    ASSUME NEW n \in Seq(Nat \ {0}), NEW sign \in {1, -1}, NEW s \in SuffixStates,
           s.jp + s.k < Len(n), SuffixKnown(n, sign, s)
    PROVE  SuffixKnown(n, sign, NextSuffix(n, sign, s))
<1> DEFINE x == LettersOf(n, sign)
           L == Len(n)
           t == NextSuffix(n, sign, s)
           ip == s.ip
           jp == s.jp
           k == s.k
           p == s.p
           a == ip + 1
           b == jp + 1
           o == k - 1
<1>1. /\ ip \in Int /\ jp \in Nat /\ k \in Nat /\ p \in Nat /\ ip >= -1 /\ k >= 1 /\ k <= p
      /\ p >= 1 /\ p <= jp - ip
  BY DEF SuffixStates
<1>2. x \in [Nat -> Int] /\ L \in Nat
  <2>1. x \in [Nat -> Int]
    <3> HIDE DEF x
    <3>1. QED
      BY LettersAre, Zenon DEF x
  <2>2. QED
    BY <2>1
<1>3. SuffixSoFar(x, L, a, b, o, p)
  BY DEF SuffixKnown
<1>4. \/ x[ip + k] = x[jp + k] /\ t = IF k = p THEN Suffix(ip, jp + p, 1, p) ELSE Suffix(ip, jp, k + 1, p)
      \/ x[ip + k] > x[jp + k] /\ t = Suffix(ip, jp + k, 1, (jp + k) - ip)
      \/ x[ip + k] < x[jp + k] /\ t = Suffix(jp, jp + 1, 1, 1)
  BY NextSuffixIs
<1>5. SuffixKnown(n, sign, t) <=> SuffixSoFar(x, L, t.ip + 1, t.jp + 1, t.k - 1, t.p)
  BY DEF SuffixKnown
<1> SUFFICES SuffixKnown(n, sign, t)
  OBVIOUS
<1> HIDE DEF x, t, L, a, b, o
<1>6. jp + k < L
  BY DEF L
<1> HIDE DEF ip, jp, k, p
<1>7. a + o = ip + k /\ b + o = jp + k /\ b + o < L
  BY <1>1, <1>6 DEF a, b, o
<1>8. x[ip + k] \in Int /\ x[jp + k] \in Int
  <2>1. ip + k \in Nat /\ jp + k \in Nat
    BY <1>1
  <2>2. QED
    BY <1>2, <2>1
<1>9. ASSUME NEW i, NEW j, NEW l, NEW q, t = Suffix(i, j, l, q)
      PROVE  t.ip = i /\ t.jp = j /\ t.k = l /\ t.p = q
  BY <1>9 DEF Suffix
<1>10. CASE x[ip + k] = x[jp + k] /\ k = p
  <2>1. t = Suffix(ip, jp + p, 1, p)
    BY <1>4, <1>8, <1>10
  <2>2. t.ip + 1 = a /\ t.jp + 1 = b + p /\ t.k - 1 = 0 /\ t.p = p
    <3>1. t.ip = ip /\ t.jp = jp + p /\ t.k = 1 /\ t.p = p
      BY <1>9, <2>1, Zenon
    <3>2. QED
      BY <1>1, <3>1 DEF a, b
  <2>3. SuffixSoFar(x, L, a, b + p, 0, p)
    <3>1. o + 1 = p /\ x[a + o] = x[b + o]
      BY <1>1, <1>7, <1>10 DEF o
    <3>2. QED
      BY <1>2, <1>3, <1>7, <3>1, SuffixSame
  <2>4. QED
    BY <1>5, <2>2, <2>3, Zenon
<1>11. CASE x[ip + k] = x[jp + k] /\ k # p
  <2>1. t = Suffix(ip, jp, k + 1, p)
    BY <1>4, <1>8, <1>11
  <2>2. t.ip + 1 = a /\ t.jp + 1 = b /\ t.k - 1 = o + 1 /\ t.p = p
    <3>1. t.ip = ip /\ t.jp = jp /\ t.k = k + 1 /\ t.p = p
      BY <1>9, <2>1, Zenon
    <3>2. QED
      BY <1>1, <3>1 DEF a, b, o
  <2>3. SuffixSoFar(x, L, a, b, o + 1, p)
    <3>1. o + 1 # p /\ x[a + o] = x[b + o]
      BY <1>1, <1>7, <1>11 DEF o
    <3>2. QED
      BY <1>2, <1>3, <1>7, <3>1, SuffixSame
  <2>4. QED
    BY <1>5, <2>2, <2>3, Zenon
<1>12. CASE x[ip + k] > x[jp + k]
  <2>1. x[b + o] < x[a + o]
    BY <1>7, <1>8, <1>12
  <2>2. SuffixSoFar(x, L, a, b + o + 1, 0, (b + o + 1) - a)
    BY <1>2, <1>3, <1>7, <2>1, SuffixGoesDown
  <2>3. t = Suffix(ip, jp + k, 1, (jp + k) - ip)
    BY <1>4, <1>8, <1>12
  <2>4. t.ip + 1 = a /\ t.jp + 1 = b + o + 1 /\ t.k - 1 = 0 /\ t.p = (b + o + 1) - a
    <3>1. t.ip = ip /\ t.jp = jp + k /\ t.k = 1 /\ t.p = (jp + k) - ip
      BY <1>9, <2>3, Zenon
    <3>2. QED
      BY <1>1, <3>1 DEF a, b, o
  <2>5. QED
    BY <1>5, <2>2, <2>4, Zenon
<1>13. CASE x[ip + k] < x[jp + k]
  <2>1. x[a + o] < x[b + o]
    BY <1>7, <1>13
  <2>2. SuffixSoFar(x, L, b, b + 1, 0, 1)
    BY <1>2, <1>3, <1>7, <2>1, SuffixGoesUp
  <2>3. t = Suffix(jp, jp + 1, 1, 1)
    BY <1>4, <1>8, <1>13
  <2>4. t.ip + 1 = b /\ t.jp + 1 = b + 1 /\ t.k - 1 = 0 /\ t.p = 1
    <3>1. t.ip = jp /\ t.jp = jp + 1 /\ t.k = 1 /\ t.p = 1
      BY <1>9, <2>3, Zenon
    <3>2. QED
      BY <1>1, <3>1 DEF b
  <2>5. QED
    BY <1>5, <2>2, <2>4, Zenon
<1>14. QED
  BY <1>8, <1>10, <1>11, <1>12, <1>13

(* MaximalSuffix is what the loop ends with. *)
SuffixEnd(n, sign, s) ==
    LET x == LettersOf(n, sign)
        a == s.ip + 1
    IN  /\ s \in SuffixStates /\ a \in Nat /\ s.p \in Nat \ {0} /\ s.p <= Len(n) - a
        /\ Periodic(x, a, Len(n), s.p) /\ Lyndon(x, a, s.p)
        /\ EarlierBelow(x, a, Len(n)) /\ LaterNotAbove(x, a, Len(n))

LEMMA KnownSuffixEnds ==
    ASSUME NEW n \in Seq(Nat \ {0}), NEW sign \in {1, -1}, NEW s \in SuffixStates,
           SuffixKnown(n, sign, s), ~(s.jp + s.k < Len(n))
    PROVE  SuffixEnd(n, sign, s)
<1> DEFINE x == LettersOf(n, sign)
           L == Len(n)
           a == s.ip + 1
           b == s.jp + 1
           o == s.k - 1
           p == s.p
<1>1. s.ip \in Int /\ s.ip >= -1 /\ s.jp \in Nat /\ s.k \in Nat /\ s.k >= 1
  BY DEF SuffixStates
<1>2. x \in [Nat -> Int] /\ L \in Nat
  <2>1. x \in [Nat -> Int]
    <3> HIDE DEF x
    <3>1. QED
      BY LettersAre, Zenon DEF x
  <2>2. QED
    BY <2>1
<1>3. SuffixSoFar(x, L, a, b, o, p)
  BY DEF SuffixKnown
<1>4. b + o >= L
  BY <1>1
<1> HIDE DEF x, L, a, b, o, p
<1>5. /\ a \in Nat /\ b \in Nat /\ o \in Nat /\ p \in Nat \ {0} /\ b + o <= L
      /\ Periodic(x, a, b + o, p) /\ Lyndon(x, a, p) /\ EarlierBelow(x, a, L)
  BY <1>3 DEF SuffixSoFar
<1>6. PICK e \in Nat \ {0} : b = a + p * e
  BY <1>3 DEF SuffixSoFar
<1>7. b + o = L
  BY <1>2, <1>4, <1>5
<1>8. LaterNotAbove(x, a, L)
  BY <1>2, <1>3, <1>7, SuffixIsMaximal
<1>9. p <= L - a
  <2> DEFINE pe == p * e
  <2>1. pe \in Nat /\ pe >= p
    <3>1. 1 <= e /\ 1 \in Int /\ e \in Int /\ p \in Nat
      BY <1>5
    <3>2. p * 1 <= p * e
      BY <3>1, TimesOrder
    <3>3. QED
      BY <1>5, <3>2
  <2> HIDE DEF pe
  <2>2. b = a + pe
    BY <1>6 DEF pe
  <2>3. QED
    BY <1>2, <1>5, <1>7, <2>1, <2>2
<1>10. Periodic(x, a, L, p)
  BY <1>5, <1>7
<1>11. QED
  BY <1>5, <1>8, <1>9, <1>10 DEF SuffixEnd, x, L, a, p

LEMMA MaximalSuffixIs ==
    ASSUME NEW n \in Seq(Nat \ {0}), Len(n) >= 1, NEW sign \in {1, -1}
    PROVE  SuffixEnd(n, sign, MaximalSuffix(n, sign))
<1> DEFINE S == SuffixStates
           L == Len(n)
           on(s) == s.jp + s.k < L
           to(s) == NextSuffix(n, sign, s)
           stop == [s \in S |-> ~on(s)]
           next == [s \in S |-> to(s)]
           result == [s \in S |-> s]
           m == [s \in S |-> IF on(s) THEN 2 * L - (s.ip + s.jp + s.k) ELSE 0]
           is(f) == f = [s \in S |-> IF on(s) THEN f[to(s)] ELSE s]
           first == [ip |-> -1, jp |-> 0, k |-> 1, p |-> 1]
<1>1. L \in Nat
  OBVIOUS
<1>2. ASSUME NEW s \in S
      PROVE  s.ip + s.jp + s.k \in Int /\ (on(s) => 2 * L - (s.ip + s.jp + s.k) \in Nat \ {0})
  <2>1. s.ip \in Int /\ s.jp \in Nat /\ s.k \in Nat /\ s.ip < s.jp
    BY DEF SuffixStates
  <2>2. QED
    BY <1>1, <2>1, SMTT(40)
<1>3. ASSUME NEW s \in S, on(s)
      PROVE  to(s) \in S /\ to(s).ip + to(s).jp + to(s).k > s.ip + s.jp + s.k
  BY <1>3, NextSuffixIs
<1> HIDE DEF S, to, L
<1>4. LoopOf(S, stop, next, result, m)
  <2>1. stop \in [S -> BOOLEAN] /\ DOMAIN result = S
    OBVIOUS
  <2>2. m \in [S -> Nat]
    BY <1>2
  <2>3. ASSUME NEW s \in S, ~stop[s] PROVE next[s] \in S /\ m[next[s]] < m[s]
    <3> DEFINE t == to(s)
               u == s.ip + s.jp + s.k
               v == t.ip + t.jp + t.k
    <3>1. on(s) /\ next[s] = t
      BY <2>3
    <3>2. t \in S /\ v > u
      BY <1>3, <3>1
    <3>3. m[s] = 2 * L - u
      BY <3>1
    <3>4. m[t] = IF on(t) THEN 2 * L - v ELSE 0
      BY <3>2
    <3>5. u \in Int /\ v \in Int /\ 2 * L - u \in Nat \ {0}
      BY <1>2, <3>1, <3>2
    <3> HIDE DEF m, u, v, t, on
    <3>6. m[t] < m[s]
      BY <1>1, <3>2, <3>3, <3>4, <3>5
    <3>7. QED
      BY <3>1, <3>2, <3>6
  <2> HIDE DEF stop, next, result, m
  <2>4. QED
    BY <2>1, <2>2, <2>3 DEF LoopOf
<1>5. ASSUME NEW f PROVE Loops(f, S, stop, next, result) <=> is(f)
  <2>1. ASSUME NEW s \in S
        PROVE  (IF stop[s] THEN result[s] ELSE f[next[s]]) = (IF on(s) THEN f[to(s)] ELSE s)
    OBVIOUS
  <2> HIDE DEF stop, next, result, on
  <2>2. [s \in S |-> IF stop[s] THEN result[s] ELSE f[next[s]]]
            = [s \in S |-> IF on(s) THEN f[to(s)] ELSE s]
    BY <2>1, Zenon
  <2>3. QED
    BY <2>2, Zenon DEF Loops
<1> DEFINE F == CHOOSE f : is(f)
<1>6. MaximalSuffix(n, sign) = F[first]
  BY Zenon DEF MaximalSuffix, S, L, to
<1>7. is(F)
  <2>1. \E f : Loops(f, S, stop, next, result)
    <3> HIDE DEF stop, next, result, m
    <3>1. QED
      BY <1>4, LoopEnds
  <2> HIDE DEF stop, next, result, is
  <2>2. QED
    BY <1>5, <2>1, Zenon
<1>8. Loops(F, S, stop, next, result)
  <2> HIDE DEF F, is, stop, next, result
  <2>1. QED
    BY <1>5, <1>7
<1> DEFINE I == {s \in S : SuffixKnown(n, sign, s)}
<1>9. first \in I
  <2>1. first \in S
    BY DEF S, SuffixStates
  <2>2. LettersOf(n, sign) \in [Nat -> Int]
    BY LettersAre
  <2>3. EarlierBelow(LettersOf(n, sign), 0, L)
    BY DEF EarlierBelow
  <2>4. SuffixSoFar(LettersOf(n, sign), L, 0, 0 + 1, 0, 1)
    <3>1. 0 \in Nat /\ 0 < L /\ L >= 1
      BY <1>1 DEF L
    <3>2. QED
      BY <1>1, <2>2, <2>3, <3>1, FirstSuffix
  <2>5. first.ip + 1 = 0 /\ first.jp + 1 = 0 + 1 /\ first.k - 1 = 0 /\ first.p = 1
    OBVIOUS
  <2> HIDE DEF first
  <2>6. SuffixKnown(n, sign, first)
    BY <2>4, <2>5 DEF SuffixKnown, L
  <2>7. QED
    BY <2>1, <2>6
<1>10. ASSUME NEW s \in I, ~stop[s] PROVE next[s] \in I
  <2>1. s \in S /\ on(s) /\ next[s] = to(s)
    BY <1>10
  <2>2. SuffixKnown(n, sign, s) /\ to(s) \in S
    BY <1>3, <2>1
  <2>3. SuffixKnown(n, sign, to(s))
    BY <2>1, <2>2, NextSuffixKnows DEF S, L, to
  <2>4. QED
    BY <2>1, <2>2, <2>3
<1>11. PICK s \in I : stop[s] /\ F[first] = result[s]
  <2>1. I \in SUBSET S
    OBVIOUS
  <2> HIDE DEF I, F, first, stop, next, result, m
  <2>2. QED
    BY <1>4, <1>8, <1>9, <1>10, <2>1, LoopKeeps
<1>12. s \in S /\ ~on(s) /\ result[s] = s /\ SuffixKnown(n, sign, s)
  BY <1>11
<1>13. SuffixEnd(n, sign, s)
  BY <1>12, KnownSuffixEnds DEF S, L
<1> HIDE DEF F, first, result
<1>14. QED
  BY <1>6, <1>11, <1>12, <1>13

-----------------------------------------------------------------------------
(* The factorization of a needle.  *)
AgreesAt(n, a, s) == \A j \in 0 .. a - 1 : j + s >= a /\ j + s < Len(n) => At(n, j) = At(n, j + s)
PeriodOf(n, s) == \A i \in Nat : i + s < Len(n) => At(n, i) = At(n, i + s)

LEMMA SameLetters ==
    ASSUME NEW n \in Seq(Nat \ {0}), NEW sign \in {1, -1}, NEW i \in Nat, NEW j \in Nat
    PROVE  LettersOf(n, sign)[i] = LettersOf(n, sign)[j] <=> At(n, i) = At(n, j)
<1> DEFINE x == LettersOf(n, sign)
           u == At(n, i)
           v == At(n, j)
<1>1. u \in Nat /\ v \in Nat /\ x[i] = sign * u /\ x[j] = sign * v
  <2> HIDE DEF x
  <2>1. QED
    BY LettersAre DEF x
<1> HIDE DEF x, u, v
<1>2. x[i] = x[j] <=> u = v
  BY <1>1
<1>3. QED
  BY <1>2 DEF x, u, v

LEMMA SameAgreement ==
    ASSUME NEW n \in Seq(Nat \ {0}), NEW sign \in {1, -1}, NEW a \in Nat, NEW s \in Nat
    PROVE  /\ MeetsAt(LettersOf(n, sign), a, Len(n), s) <=> AgreesAt(n, a, s)
           /\ HasPeriod(LettersOf(n, sign), Len(n), s) <=> PeriodOf(n, s)
<1> DEFINE x == LettersOf(n, sign)
           L == Len(n)
<1>1. ASSUME NEW i \in Nat, NEW j \in Nat PROVE x[i] = x[j] <=> At(n, i) = At(n, j)
  BY SameLetters, ZenonT(40)
<1>2. L \in Nat
  OBVIOUS
<1> HIDE DEF x
<1>3. MeetsAt(x, a, L, s) <=> AgreesAt(n, a, s)
  <2>1. ASSUME NEW j \in 0 .. a - 1 PROVE x[j] = x[j + s] <=> At(n, j) = At(n, j + s)
    <3>1. j \in Nat /\ j + s \in Nat
      OBVIOUS
    <3>2. QED
      BY <1>1, <3>1, Zenon
  <2>2. QED
    BY <2>1 DEF MeetsAt, AgreesAt
<1>4. HasPeriod(x, L, s) <=> PeriodOf(n, s)
  <2>1. ASSUME NEW j \in Nat PROVE x[j] = x[j + s] <=> At(n, j) = At(n, j + s)
    <3>1. j + s \in Nat
      OBVIOUS
    <3>2. QED
      BY <1>1, <3>1, Zenon
  <2>2. QED
    BY <2>1 DEF HasPeriod, PeriodOf
<1>5. QED
  BY <1>3, <1>4 DEF x

LEMMA CriticalSuffix ==
    ASSUME NEW n \in Seq(Nat \ {0}), NEW sign \in {1, -1}, NEW other \in {1, -1}, other # sign,
           NEW s, NEW t, SuffixEnd(n, sign, s), SuffixEnd(n, other, t), t.ip <= s.ip
    PROVE  Critical(LettersOf(n, sign), Len(n), s.ip + 1, t.ip + 1, s.p)
<1> DEFINE x == LettersOf(n, sign)
           y == LettersOf(n, other)
           L == Len(n)
           a == s.ip + 1
           c == t.ip + 1
<1>1. x \in [Nat -> Int] /\ y \in [Nat -> Int] /\ L \in Nat
  <2>1. x \in [Nat -> Int]
    <3> HIDE DEF x
    <3>1. QED
      BY LettersAre, Zenon DEF x
  <2>2. y \in [Nat -> Int]
    <3> HIDE DEF y
    <3>1. QED
      BY LettersAre, Zenon DEF y
  <2>3. QED
    BY <2>1, <2>2
<1>2. a \in Nat /\ s.p \in Nat \ {0} /\ s.p <= L - a
      /\ Periodic(x, a, L, s.p) /\ Lyndon(x, a, s.p)
      /\ EarlierBelow(x, a, L) /\ LaterNotAbove(x, a, L)
  BY DEF SuffixEnd
<1>3. c \in Nat /\ LaterNotAbove(y, c, L)
  BY DEF SuffixEnd
<1>4. c <= a
  <2>1. s.ip \in Int /\ t.ip \in Int
    BY DEF SuffixEnd, SuffixStates
  <2>2. QED
    BY <2>1
<1>5. ASSUME NEW i \in Nat PROVE y[i] = 0 - x[i] /\ x[i] \in Int
  <2> DEFINE u == At(n, i)
  <2>1. u \in Nat
    BY DEF At
  <2>2. x[i] = sign * u /\ y[i] = other * u
    BY DEF LettersOf
  <2> HIDE DEF x, y, u
  <2>3. CASE sign = 1
    BY <2>1, <2>2, <2>3
  <2>4. CASE sign = -1
    BY <2>1, <2>2, <2>4
  <2>5. QED
    BY <2>3, <2>4
<1> HIDE DEF x, y, L, a, c
<1>6. LaterNotBelow(x, c, L)
  <2> SUFFICES ASSUME NEW r \in Nat \ {0}, NEW d \in Nat, c + r + d < L, Same(x, c + r, c, d)
               PROVE  x[c + r + d] >= x[c + d]
    BY DEF LaterNotBelow
  <2>1. Same(y, c + r, c, d)
    <3> SUFFICES ASSUME NEW i \in 0 .. d - 1 PROVE y[c + r + i] = y[c + i]
      BY DEF Same
    <3>1. x[c + r + i] = x[c + i]
      BY DEF Same
    <3>2. c + r + i \in Nat /\ c + i \in Nat
      BY <1>3
    <3>3. QED
      BY <1>5, <3>1, <3>2
  <2>2. y[c + r + d] <= y[c + d]
    BY <1>3, <2>1 DEF LaterNotAbove
  <2>3. c + r + d \in Nat /\ c + d \in Nat
    BY <1>3
  <2> DEFINE v == c + r + d
             w == c + d
  <2>4. y[v] = 0 - x[v] /\ x[v] \in Int /\ y[w] = 0 - x[w] /\ x[w] \in Int
    <3> HIDE DEF v, w
    <3>1. v \in Nat /\ w \in Nat
      BY <2>3 DEF v, w
    <3>2. QED
      BY <1>5, <3>1
  <2>5. y[v] <= y[w]
    BY <2>2
  <2>6. x[v] >= x[w]
    <3> HIDE DEF v, w
    <3>1. QED
      BY <2>4, <2>5
  <2>7. QED
    BY <2>6
<1>7. Critical(x, L, a, c, s.p)
  BY <1>1, <1>2, <1>3, <1>4, <1>6 DEF Critical
<1>8. QED
  BY <1>7 DEF x, L, a, c

(* What a factorization is good for: where the right part has been found,  *)
(* the needle is not at any place less than p to the right, ...            *)
FactorsKnow(n, f) ==
    LET a == f.ms + 1
    IN  /\ f.ms \in Int /\ a \in Nat /\ a < Len(n) /\ f.p \in Nat \ {0} /\ f.mem0 \in Nat
        /\ \A s \in Nat \ {0} : AgreesAt(n, a, s) =>
               s >= f.p /\ (s <= Len(n) - a => PeriodOf(n, s))
        /\ f.mem0 # 0 => f.mem0 = Len(n) - f.p /\ f.p > a /\ PeriodOf(n, f.p)

LEMMA SamePart ==
    ASSUME NEW n \in Seq(Nat \ {0}), NEW p \in 0 .. Len(n), NEW a \in Nat
    PROVE  MemCmp(n, From(n, p), a) = 0 <=> \A j \in 0 .. a - 1 : At(n, j) = At(n, p + j)
<1> DEFINE t == From(n, p)
           C == {j \in 0 .. a : At(n, j) # At(t, j)}
           i == Min({a} \cup C)
<1>1. n \in Seq(Nat)
  OBVIOUS
<1>2. \A j \in Nat : At(t, j) = At(n, p + j)
  BY <1>1, RestOfText
<1>3. MemCmp(n, t, a) = IF i < a THEN At(n, i) - At(t, i) ELSE 0
  BY Zenon DEF MemCmp, Until
<1> HIDE DEF t
<1>4. StopsAt(i, 0, a, C)
  <2>1. C \in SUBSET (0 .. a)
    OBVIOUS
  <2> HIDE DEF C
  <2>2. QED
    BY <2>1, LoopStops
<1> HIDE DEF i
<1>5. i \in 0 .. a /\ (i = a \/ At(n, i) # At(t, i)) /\ \A j \in 0 .. i - 1 : At(n, j) = At(t, j)
  BY <1>4 DEF StopsAt
<1>6. CASE i = a
  <2>1. MemCmp(n, t, a) = 0
    BY <1>3, <1>6
  <2>2. \A j \in 0 .. a - 1 : At(n, j) = At(n, p + j)
    BY <1>2, <1>5, <1>6
  <2>3. QED
    BY <2>1, <2>2 DEF t
<1>7. CASE i # a
  <2> DEFINE u == At(n, i)
             v == At(n, p + i)
  <2>1. i \in 0 .. a - 1 /\ i \in Nat /\ p + i \in Nat
    BY <1>5, <1>7
  <2>2. At(t, i) = v /\ u # v /\ u \in Nat /\ v \in Nat
    BY <1>2, <1>5, <1>7, <2>1, Characters
  <2>3. MemCmp(n, t, a) = u - v
    BY <1>3, <2>1, <2>2
  <2> HIDE DEF u, v
  <2>4. MemCmp(n, t, a) # 0
    BY <2>2, <2>3
  <2>5. u # v
    BY <2>2
  <2>6. QED
    BY <2>1, <2>4, <2>5 DEF t, u, v
<1>8. QED
  BY <1>6, <1>7

LEMMA FactorsOf ==
    ASSUME NEW n \in Seq(Nat \ {0}), NEW sign \in {1, -1}, NEW c, NEW s, s \in SuffixStates,
           Critical(LettersOf(n, sign), Len(n), s.ip + 1, c, s.p)
    PROVE  FactorsKnow(n,
               IF MemCmp(n, From(n, s.p), s.ip + 1) = 0
               THEN [ms |-> s.ip, p |-> s.p, mem0 |-> Len(n) - s.p]
               ELSE [ms |-> s.ip, p |-> Max({s.ip, Len(n) - s.ip - 1}) + 1, mem0 |-> 0])
<1> DEFINE x == LettersOf(n, sign)
           L == Len(n)
           a == s.ip + 1
           p == s.p
           ms == s.ip
           periodic == MemCmp(n, From(n, p), a) = 0
           f == IF periodic THEN [ms |-> ms, p |-> p, mem0 |-> L - p]
                ELSE [ms |-> ms, p |-> Max({ms, L - ms - 1}) + 1, mem0 |-> 0]
<1>1. /\ L \in Nat /\ a \in Nat /\ p \in Nat \ {0} /\ p <= L - a /\ ms \in Int /\ a = ms + 1
  BY DEF Critical, SuffixStates
<1> HIDE DEF x, L, a, p, ms
<1>2. Critical(x, L, a, c, p)
  BY DEF x, L, a, p, ms
<1>3. \A t \in Nat : /\ MeetsAt(x, a, L, t) <=> AgreesAt(n, a, t)
                     /\ HasPeriod(x, L, t) <=> PeriodOf(n, t)
  BY <1>1, SameAgreement DEF x, L
<1>4. periodic <=> PeriodOf(n, p)
  <2>1. p \in 0 .. Len(n)
    BY <1>1 DEF L
  <2>2. periodic <=> \A j \in 0 .. a - 1 : At(n, j) = At(n, p + j)
    BY <1>1, <2>1, SamePart
  <2> HIDE DEF periodic
  <2>3. \A i \in Nat : i >= a /\ i + p < L => At(n, i) = At(n, i + p)
    <3> SUFFICES ASSUME NEW i \in Nat, i >= a, i + p < L PROVE At(n, i) = At(n, i + p)
      OBVIOUS
    <3>1. x[i] = x[i + p]
      BY <1>2, RightPeriod
    <3>2. i + p \in Nat
      BY <1>1
    <3>3. QED
      BY <3>1, <3>2, SameLetters DEF x
  <2>4. ASSUME NEW i \in Nat PROVE p + i = i + p
    BY <1>1
  <2>5. ASSUME periodic PROVE PeriodOf(n, p)
    <3> SUFFICES ASSUME NEW i \in Nat, i + p < Len(n) PROVE At(n, i) = At(n, i + p)
      BY DEF PeriodOf
    <3>1. CASE i < a
      <4>1. i \in 0 .. a - 1
        BY <1>1, <3>1
      <4>2. At(n, i) = At(n, p + i)
        BY <2>2, <2>5, <4>1
      <4>3. QED
        BY <2>4, <4>2
    <3>2. CASE ~(i < a)
      <4>1. i >= a /\ i + p < L
        BY <1>1, <3>2 DEF L
      <4>2. QED
        BY <2>3, <4>1
    <3>3. QED
      BY <3>1, <3>2
  <2>6. ASSUME PeriodOf(n, p) PROVE periodic
    <3> SUFFICES ASSUME NEW j \in 0 .. a - 1 PROVE At(n, j) = At(n, p + j)
      BY <2>2
    <3>1. j \in Nat /\ j + p < Len(n)
      BY <1>1 DEF L
    <3>2. At(n, j) = At(n, j + p)
      BY <2>6, <3>1 DEF PeriodOf
    <3>3. QED
      BY <2>4, <3>1, <3>2
  <2>7. QED
    BY <2>5, <2>6
<1>5. ASSUME NEW t \in Nat \ {0}, AgreesAt(n, a, t)
      PROVE  t > a /\ (t <= L - a => PeriodOf(n, t) /\ PeriodOf(n, p) /\ t >= p)
  <2>1. MeetsAt(x, a, L, t)
    BY <1>3, <1>5
  <2>2. t > a
    BY <1>2, <2>1, ShortRepetition
  <2>3. ASSUME t <= L - a PROVE PeriodOf(n, t) /\ PeriodOf(n, p) /\ t >= p
    <3>1. HasPeriod(x, L, t)
      BY <1>2, <2>1, <2>3, LongRepetition
    <3>2. HasPeriod(x, L, p)
      BY <1>2, <2>3, <3>1, PeriodOfRight
    <3>3. t >= p
      BY <1>2, <3>1, NoShorterPeriod
    <3>4. QED
      BY <1>1, <1>3, <3>1, <3>2, <3>3
  <2>4. QED
    BY <2>2, <2>3
<1>6. CASE periodic
  <2> DEFINE g == [ms |-> ms, p |-> p, mem0 |-> L - p]
  <2>1. f = g
    BY <1>6
  <2>2. g.ms \in Int /\ g.ms + 1 = a /\ g.p = p /\ g.mem0 = L - p
    BY <1>1
  <2>3. PeriodOf(n, p) /\ p > a
    <3>1. HasPeriod(x, L, p)
      BY <1>1, <1>3, <1>4, <1>6
    <3>2. QED
      BY <1>2, <1>4, <1>6, <3>1, PeriodIsLonger
  <2>4. a < L /\ L - p \in Nat
    BY <1>1
  <2>5. ASSUME NEW t \in Nat \ {0}, AgreesAt(n, a, t) PROVE t >= p /\ (t <= L - a => PeriodOf(n, t))
    <3>1. t > a /\ (t <= L - a => PeriodOf(n, t) /\ PeriodOf(n, p) /\ t >= p)
      BY <1>5, <2>5
    <3>2. QED
      BY <1>1, <3>1
  <2> HIDE DEF g
  <2>6. FactorsKnow(n, g)
    BY <1>1, <2>2, <2>3, <2>4, <2>5 DEF FactorsKnow, L
  <2>7. f = g
    BY <1>6 DEF g
  <2> HIDE DEF f
  <2>8. FactorsKnow(n, f)
    BY <2>6, <2>7
  <2>9. QED
    BY <2>8 DEF f, L, a, p, ms
<1>7. CASE ~periodic
  <2> DEFINE q == Max({ms, L - ms - 1}) + 1
             g == [ms |-> ms, p |-> q, mem0 |-> 0]
             D == {ms, L - ms - 1}
  <2>1. q \in Nat \ {0} /\ (q = a \/ q = (L - a) + 1)
    <3>1. D \in SUBSET (-1 .. L) /\ D # {}
      BY <1>1
    <3> HIDE DEF D
    <3>2. Max(D) \in D /\ \A j \in D : Max(D) >= j
      BY <1>1, <3>1, GreatestOf
    <3> DEFINE u == Max(D)
    <3>3. q = u + 1
      BY DEF D
    <3>4. u = ms \/ u = L - ms - 1
      BY <3>2 DEF D
    <3>5. u >= L - ms - 1
      BY <3>2 DEF D
    <3> HIDE DEF u, q
    <3>6. QED
      BY <1>1, <3>3, <3>4, <3>5
  <2>2. g.ms \in Int /\ g.ms + 1 = a /\ g.p = q /\ g.mem0 = 0
    BY <1>1
  <2> HIDE DEF q
  <2>3. ASSUME NEW t \in Nat \ {0}, AgreesAt(n, a, t) PROVE t >= q /\ (t <= L - a => PeriodOf(n, t))
    <3>1. t > a /\ ~(t <= L - a)
      BY <1>4, <1>5, <1>7, <2>3
    <3>2. QED
      BY <1>1, <2>1, <3>1
  <2>4. f = g
    BY <1>7 DEF q
  <2>5. a < L
    BY <1>1
  <2> HIDE DEF f, g
  <2>6. FactorsKnow(n, g)
    BY <1>1, <2>1, <2>2, <2>3, <2>5 DEF FactorsKnow, L
  <2>7. FactorsKnow(n, f)
    BY <2>4, <2>6
  <2>8. QED
    BY <2>7 DEF f, L, a, p, ms
<1>8. QED
  BY <1>6, <1>7

LEMMA FactorsAre ==
    ASSUME NEW n \in Seq(Nat \ {0}), Len(n) >= 1
    PROVE  FactorsKnow(n, Factors(n))
<1> DEFINE up == MaximalSuffix(n, 1)
           down == MaximalSuffix(n, -1)
           f(s) == IF MemCmp(n, From(n, s.p), s.ip + 1) = 0
                   THEN [ms |-> s.ip, p |-> s.p, mem0 |-> Len(n) - s.p]
                   ELSE [ms |-> s.ip, p |-> Max({s.ip, Len(n) - s.ip - 1}) + 1, mem0 |-> 0]
<1>1. 1 \in {1, -1} /\ -1 \in {1, -1} /\ 1 # -1
  OBVIOUS
<1>2. SuffixEnd(n, 1, up) /\ SuffixEnd(n, -1, down)
  BY <1>1, MaximalSuffixIs
<1>3. Factors(n) = f(IF down.ip > up.ip THEN down ELSE up)
  BY Zenon DEF Factors
<1> HIDE DEF up, down
<1>4. up.ip \in Int /\ down.ip \in Int /\ up \in SuffixStates /\ down \in SuffixStates
  BY <1>2 DEF SuffixEnd, SuffixStates
<1>5. CASE down.ip > up.ip
  <2>1. up.ip <= down.ip
    BY <1>4, <1>5
  <2>2. Critical(LettersOf(n, -1), Len(n), down.ip + 1, up.ip + 1, down.p)
    BY <1>1, <1>2, <2>1, CriticalSuffix
  <2>3. FactorsKnow(n, f(down))
    BY <1>1, <1>4, <2>2, FactorsOf
  <2>4. QED
    BY <1>3, <1>5, <2>3
<1>6. CASE ~(down.ip > up.ip)
  <2>1. down.ip <= up.ip
    BY <1>4, <1>6
  <2>2. Critical(LettersOf(n, 1), Len(n), up.ip + 1, down.ip + 1, up.p)
    BY <1>1, <1>2, <2>1, CriticalSuffix
  <2>3. FactorsKnow(n, f(up))
    BY <1>1, <1>4, <2>2, FactorsOf
  <2>4. QED
    BY <1>3, <1>6, <2>3
<1>7. QED
  BY <1>5, <1>6

-----------------------------------------------------------------------------
(* The two-way search.  A needle is at a place where all its characters    *)
(* are; what it remembers is a part that is in place already. *)
OccursAt(h, n, i) == \A j \in 0 .. Len(n) - 1 : At(h, i + j) = At(n, j)
InPlace(h, n, at, end) == \A j \in 0 .. end - 1 : At(h, at + j) = At(n, j)
RightInPlace(h, n, f, at) == \A j \in f.ms + 1 .. Len(n) - 1 : At(h, at + j) = At(n, j)
LeftInPlace(h, n, f, at, mem) ==
    mem <= f.ms + 1 /\ \A k \in mem + 1 .. f.ms + 1 : n[k] = At(h, at + (k - 1))
NoneUpTo(h, n, at, by) == \A i \in 0 .. by - 1 : ~OccursAt(h, n, at + i)
Windows == [at : Nat, mem : Nat]
SearchKnows(h, n, f, s) ==
    /\ s \in Windows /\ s.mem \in {0, f.mem0}
    /\ \A j \in 0 .. s.mem - 1 : At(h, s.at + j) = At(n, j)
    /\ f.mem0 <= f.ms + 1 => \A i \in 0 .. s.at - 1 : ~OccursAt(h, n, i)

LEMMA Advance ==
    ASSUME NEW h, NEW n, NEW f, NEW s, SearchKnows(h, n, f, s), NEW by \in Nat,
           f.mem0 <= f.ms + 1 => \A i \in 0 .. by - 1 : ~OccursAt(h, n, s.at + i)
    PROVE  /\ SearchKnows(h, n, f, [at |-> s.at + by, mem |-> 0])
           /\ f.mem0 \in Nat /\ (\A j \in 0 .. f.mem0 - 1 : At(h, (s.at + by) + j) = At(n, j))
                  => SearchKnows(h, n, f, [at |-> s.at + by, mem |-> f.mem0])
<1> DEFINE at == s.at
           to == at + by
<1>1. at \in Nat /\ to \in Nat
  BY DEF SearchKnows, Windows
<1>2. ASSUME f.mem0 <= f.ms + 1, NEW i \in 0 .. to - 1 PROVE ~OccursAt(h, n, i)
  <2>1. CASE i < at
    <3>1. i \in 0 .. at - 1
      BY <1>1, <2>1
    <3>2. QED
      BY <1>2, <3>1 DEF SearchKnows
  <2>2. CASE ~(i < at)
    <3> DEFINE k == i - at
    <3>1. k \in 0 .. by - 1 /\ at + k = i
      BY <1>1, <2>2
    <3> HIDE DEF k
    <3>2. ~OccursAt(h, n, at + k)
      BY <1>2, <3>1
    <3>3. QED
      BY <3>1, <3>2
  <2>3. QED
    BY <2>1, <2>2
<1>3. SearchKnows(h, n, f, [at |-> to, mem |-> 0])
  <2> DEFINE t == [at |-> to, mem |-> 0]
  <2>1. t \in Windows /\ t.at = to /\ t.mem = 0
    BY <1>1 DEF Windows
  <2> HIDE DEF t, to
  <2>2. SearchKnows(h, n, f, t)
    BY <1>2, <2>1 DEF SearchKnows
  <2>3. QED
    BY <2>2 DEF t
<1>4. ASSUME f.mem0 \in Nat, \A j \in 0 .. f.mem0 - 1 : At(h, to + j) = At(n, j)
      PROVE  SearchKnows(h, n, f, [at |-> to, mem |-> f.mem0])
  <2> DEFINE t == [at |-> to, mem |-> f.mem0]
  <2>1. t \in Windows /\ t.at = to /\ t.mem = f.mem0
    BY <1>1, <1>4 DEF Windows
  <2> HIDE DEF t, to
  <2>2. SearchKnows(h, n, f, t)
    BY <1>2, <1>4, <2>1 DEF SearchKnows
  <2>3. QED
    BY <2>2 DEF t
<1>5. QED
  BY <1>3, <1>4

(* The last character: how far its last place in the needle is from the    *)
(* end. *)
LastAt(n, c, k) ==
    /\ k \in 0 .. Len(n)
    /\ k = 0 => Len(n) = 0 \/ At(n, Len(n) - 1) = c
    /\ k # 0 => \A i \in 0 .. k - 1 : At(n, (Len(n) - 1) - i) # c

LEMMA ShiftForIs ==
    ASSUME NEW n \in Seq(Nat \ {0}), NEW c, NEW f, NEW mem
    PROVE  \E k \in Nat :
               /\ LastAt(n, c, k)
               /\ ShiftFor(c, n, f, mem) = IF k \in 1 .. f.p - 1 /\ f.mem0 > 0 /\ mem > 0
                                           THEN Len(n) - f.p ELSE k
<1> DEFINE L == Len(n)
           D == {0} \cup {i \in DOMAIN n : n[i] = c}
           g == Max(D)
           k == L - g
<1>1. ShiftFor(c, n, f, mem) = IF k \in 1 .. f.p - 1 /\ f.mem0 > 0 /\ mem > 0
                               THEN Len(n) - f.p ELSE k
  BY Zenon DEF ShiftFor
<1>2. D \in SUBSET (-1 .. L) /\ D # {} /\ L \in Nat
  OBVIOUS
<1>3. g \in D /\ \A j \in D : g >= j
  <2> HIDE DEF D
  <2>1. QED
    BY <1>2, GreatestOf
<1>4. g \in 0 .. L /\ (g = 0 \/ n[g] = c) /\ \A i \in 1 .. L : n[i] = c => g >= i
  BY <1>3
<1> HIDE DEF g
<1>5. k \in 0 .. L /\ g = L - k
  BY <1>2, <1>4
<1>6. ASSUME k = 0 PROVE L = 0 \/ At(n, L - 1) = c
  <2>1. g = L
    BY <1>5, <1>6, <1>2
  <2>2. ASSUME L # 0 PROVE At(n, L - 1) = c
    <3>1. n[L] = c /\ L - 1 < L /\ (L - 1) + 1 = L
      BY <1>2, <1>4, <2>1, <2>2
    <3>2. QED
      BY <3>1 DEF At
  <2>3. QED
    BY <2>2
<1>7. ASSUME NEW i \in 0 .. k - 1 PROVE At(n, (L - 1) - i) # c
  <2> DEFINE j == L - i
  <2>1. j \in 1 .. L /\ ~(g >= j) /\ (L - 1) - i < L /\ ((L - 1) - i) + 1 = j
    BY <1>2, <1>4, <1>5
  <2> HIDE DEF j
  <2>2. n[j] # c
    BY <1>4, <2>1
  <2>3. QED
    BY <2>1, <2>2 DEF At
<1> HIDE DEF k
<1>8. LastAt(n, c, k) /\ k \in Nat
  BY <1>5, <1>6, <1>7 DEF LastAt
<1>9. QED
  BY <1>1, <1>8

LEMMA LastCharacter ==
    ASSUME NEW n \in Seq(Nat \ {0}), Len(n) >= 1, NEW h, NEW f, FactorsKnow(n, f),
           NEW s, SearchKnows(h, n, f, s)
    PROVE  LET by == ShiftFor(At(h, (s.at + Len(n)) - 1), n, f, s.mem)
           IN  by \in Nat /\ \A i \in 0 .. by - 1 : ~OccursAt(h, n, s.at + i)
<1> DEFINE L == Len(n)
           at == s.at
           mem == s.mem
           p == f.p
           c == At(h, (at + L) - 1)
           by == ShiftFor(c, n, f, mem)
<1>1. /\ at \in Nat /\ mem \in Nat /\ mem \in {0, f.mem0}
      /\ \A j \in 0 .. mem - 1 : At(h, at + j) = At(n, j)
  BY DEF SearchKnows, Windows
<1>2. /\ L \in Nat /\ L >= 1 /\ p \in Nat \ {0} /\ f.mem0 \in Nat
      /\ f.mem0 # 0 => f.mem0 = L - p /\ PeriodOf(n, p)
  BY DEF FactorsKnow
<1>31. PICK k \in Nat :
          /\ LastAt(n, c, k)
          /\ by = IF k \in 1 .. p - 1 /\ f.mem0 > 0 /\ mem > 0 THEN L - p ELSE k
  <2> HIDE DEF c
  <2>1. \E k \in Nat :
            /\ LastAt(n, c, k)
            /\ ShiftFor(c, n, f, s.mem) = IF k \in 1 .. f.p - 1 /\ f.mem0 > 0 /\ s.mem > 0
                                          THEN Len(n) - f.p ELSE k
    BY ShiftForIs
  <2>2. QED
    BY <2>1
<1> HIDE DEF by, at, mem, p
<1>3. /\ k \in 0 .. L
      /\ k = 0 => L = 0 \/ At(n, L - 1) = c
      /\ k # 0 => \A i \in 0 .. k - 1 : At(n, (L - 1) - i) # c
      /\ by = IF k \in 1 .. p - 1 /\ f.mem0 > 0 /\ mem > 0 THEN L - p ELSE k
  BY <1>31 DEF LastAt
<1>4. by \in Nat
  BY <1>2, <1>3
<1>5. ASSUME NEW i \in 0 .. L - 1, OccursAt(h, n, at + i)
      PROVE  At(n, (L - 1) - i) = c /\ ~(i < k)
  <2> DEFINE j == (L - 1) - i
  <2>1. j \in 0 .. L - 1 /\ (at + i) + j = (at + L) - 1
    BY <1>1, <1>2
  <2> HIDE DEF j
  <2>2. At(h, (at + i) + j) = At(n, j)
    BY <1>5, <2>1 DEF OccursAt
  <2>3. At(n, j) = c
    BY <2>1, <2>2
  <2>4. ~(i < k)
    <3> SUFFICES ASSUME i < k PROVE FALSE
      OBVIOUS
    <3>1. i \in 0 .. k - 1 /\ k # 0
      BY <1>3
    <3>2. QED
      BY <1>3, <2>3, <3>1 DEF j
  <2>5. QED
    BY <2>3, <2>4 DEF j
<1> HIDE DEF c
<1>6. ASSUME NEW i \in 0 .. by - 1, OccursAt(h, n, at + i) PROVE FALSE
  <2>1. i \in 0 .. L - 1 /\ i \in Nat
    BY <1>2, <1>3, <1>6
  <2>2. At(n, (L - 1) - i) = c /\ ~(i < k)
    BY <1>5, <1>6, <2>1
  <2>3. k \in 1 .. p - 1 /\ f.mem0 > 0 /\ mem > 0 /\ by = L - p
    BY <1>3, <2>2
  <2>4. mem = L - p /\ PeriodOf(n, p)
    <3>1. mem = f.mem0 /\ f.mem0 # 0
      BY <1>1, <2>3
    <3>2. QED
      BY <1>2, <3>1
  <2> DEFINE d == (L - 1) - p
             e == d - i
  <2>5. d \in Nat /\ d + p = L - 1 /\ e \in Nat /\ e + p = (L - 1) - i /\ e + i = d
    BY <1>2, <2>1, <2>3, <1>6
  <2> HIDE DEF d, e
  <2>6. d \in 0 .. mem - 1 /\ e \in 0 .. L - 1 /\ at + d = (at + i) + e /\ d + p < L /\ e + p < L
    <3>1. L \in Nat /\ p \in Nat /\ p >= 1 /\ mem = L - p /\ at \in Nat /\ i \in Nat
      BY <1>1, <1>2, <2>1, <2>4
    <3> HIDE DEF L
    <3>2. d \in 0 .. mem - 1 /\ e \in 0 .. L - 1
      BY <2>5, <3>1
    <3>3. at + d = (at + i) + e
      BY <2>5, <3>1
    <3>4. d + p < L /\ e + p < L
      BY <2>5, <3>1
    <3>5. QED
      BY <3>2, <3>3, <3>4
  <2>7. At(h, at + d) = At(n, d)
    BY <1>1, <2>6
  <2>8. At(h, (at + i) + e) = At(n, e)
    BY <1>6, <2>6 DEF OccursAt
  <2>9. At(n, d) = At(n, d + p) /\ At(n, e) = At(n, e + p)
    BY <2>4, <2>5, <2>6 DEF PeriodOf, L
  <2>10. At(n, L - 1) = c
    BY <2>2, <2>5, <2>6, <2>7, <2>8, <2>9
  <2>11. 0 \in 0 .. k - 1 /\ (L - 1) - 0 = L - 1 /\ k # 0
    BY <1>2, <2>3
  <2>12. At(n, (L - 1) - 0) # c
    BY <1>3, <2>11
  <2>13. QED
    BY <2>10, <2>11, <2>12
<1>7. QED
  BY <1>4, <1>6 DEF by, c, at, mem, L

(* Where the right part differs first: no place up to there is one. *)
LEMMA RightMismatch ==
    ASSUME NEW n \in Seq(Nat \ {0}), NEW h, NEW f, FactorsKnow(n, f), NEW at \in Nat,
           NEW k \in Nat, f.ms + 1 <= k, k < Len(n),
           \A j \in f.ms + 1 .. k - 1 : At(h, at + j) = At(n, j), At(h, at + k) # At(n, k)
    PROVE  \A i \in 0 .. k - (f.ms + 1) : ~OccursAt(h, n, at + i)
<1> DEFINE L == Len(n)
           a == f.ms + 1
<1>1. /\ L \in Nat /\ a \in Nat /\ a <= k /\ k < L
      /\ \A j \in a .. k - 1 : At(h, at + j) = At(n, j)
      /\ \A s \in Nat \ {0} : AgreesAt(n, a, s) => (s <= L - a => PeriodOf(n, s))
  BY DEF FactorsKnow
<1> HIDE DEF L, a
<1>2. ASSUME NEW i \in 0 .. k - a, OccursAt(h, n, at + i) PROVE FALSE
  <2>1. \A j \in 0 .. L - 1 : At(h, (at + i) + j) = At(n, j)
    BY <1>2 DEF OccursAt, L
  <2>2. CASE i = 0
    <3>1. k \in 0 .. L - 1 /\ (at + i) + k = at + k
      BY <1>1, <2>2
    <3>2. QED
      BY <2>1, <3>1
  <2>3. CASE i # 0
    <3>1. i \in Nat \ {0} /\ i <= L - a
      BY <1>1, <2>3
    <3>2. AgreesAt(n, a, i)
      <4> SUFFICES ASSUME NEW j \in 0 .. a - 1, j + i >= a, j + i < L PROVE At(n, j) = At(n, j + i)
        BY DEF AgreesAt, L
      <4>1. j \in 0 .. L - 1 /\ j + i \in a .. k - 1 /\ (at + i) + j = at + (j + i)
        BY <1>1
      <4>2. At(h, (at + i) + j) = At(n, j)
        BY <2>1, <4>1
      <4>3. At(h, at + (j + i)) = At(n, j + i)
        BY <1>1, <4>1
      <4>4. QED
        BY <4>1, <4>2, <4>3
    <3>3. PeriodOf(n, i)
      BY <1>1, <3>1, <3>2
    <3> DEFINE e == k - i
    <3>4. e \in Nat /\ e + i = k /\ e \in 0 .. L - 1 /\ (at + i) + e = at + k
      BY <1>1, <3>1
    <3> HIDE DEF e
    <3>5. At(n, e) = At(n, k)
      BY <1>1, <3>3, <3>4 DEF PeriodOf, L
    <3>6. At(h, (at + i) + e) = At(n, e)
      BY <2>1, <3>4
    <3>7. QED
      BY <3>4, <3>5, <3>6
  <2>4. QED
    BY <2>2, <2>3
<1>3. QED
  BY <1>2 DEF a

(* Where the right part is found: no place less than p to the right is     *)
(* one, and what is remembered is found again at p. *)
LEMMA RightMatch ==
    ASSUME NEW n \in Seq(Nat \ {0}), NEW h, NEW f, FactorsKnow(n, f), NEW at \in Nat,
           RightInPlace(h, n, f, at)
    PROVE  /\ ~OccursAt(h, n, at) => NoneUpTo(h, n, at, f.p)
           /\ InPlace(h, n, at + f.p, f.mem0)
<1> DEFINE L == Len(n)
           a == f.ms + 1
           p == f.p
<1>1. /\ L \in Nat /\ a \in Nat /\ a < L /\ p \in Nat \ {0} /\ f.mem0 \in Nat
      /\ \A j \in a .. L - 1 : At(h, at + j) = At(n, j)
      /\ \A s \in Nat \ {0} : AgreesAt(n, a, s) => s >= p
      /\ f.mem0 # 0 => f.mem0 = L - p /\ p > a /\ PeriodOf(n, p)
  BY DEF FactorsKnow, RightInPlace
<1> HIDE DEF L, a, p
<1>2. ASSUME NEW i \in 0 .. p - 1, OccursAt(h, n, at + i), ~OccursAt(h, n, at) PROVE FALSE
  <2>1. \A j \in 0 .. L - 1 : At(h, (at + i) + j) = At(n, j)
    BY <1>2 DEF OccursAt, L
  <2>2. i # 0
    <3>1. at + 0 = at
      OBVIOUS
    <3>2. QED
      BY <1>2, <3>1
  <2>3. i \in Nat \ {0} /\ ~(i >= p)
    BY <1>1, <2>2
  <2>4. AgreesAt(n, a, i)
    <3> SUFFICES ASSUME NEW j \in 0 .. a - 1, j + i >= a, j + i < L PROVE At(n, j) = At(n, j + i)
      BY DEF AgreesAt, L
    <3>1. j \in 0 .. L - 1 /\ j + i \in a .. L - 1 /\ (at + i) + j = at + (j + i)
      BY <1>1
    <3>2. At(h, (at + i) + j) = At(n, j)
      BY <2>1, <3>1
    <3>3. At(h, at + (j + i)) = At(n, j + i)
      BY <1>1, <3>1
    <3>4. QED
      BY <3>1, <3>2, <3>3
  <2>5. QED
    BY <1>1, <2>3, <2>4
<1>3. ASSUME NEW j \in 0 .. f.mem0 - 1 PROVE At(h, (at + p) + j) = At(n, j)
  <2>1. f.mem0 = L - p /\ p > a /\ PeriodOf(n, p) /\ j \in Nat
    BY <1>1
  <2>2. j + p \in a .. L - 1 /\ j + p < L /\ (at + p) + j = at + (j + p)
    BY <1>1, <2>1
  <2>3. At(n, j) = At(n, j + p)
    BY <2>1, <2>2 DEF PeriodOf, L
  <2>4. At(h, at + (j + p)) = At(n, j + p)
    BY <1>1, <2>2
  <2>5. QED
    BY <2>2, <2>3, <2>4
<1>4. QED
  BY <1>2, <1>3 DEF p, NoneUpTo, InPlace

(* The left part is in place down to what is remembered, or is not. *)
LEMMA LeftStopIs ==
    ASSUME NEW n, NEW h, NEW f, NEW at \in Nat, NEW mem \in Nat, f.ms + 1 \in Nat
    PROVE  LeftStop(h, n, f, at, mem) = mem <=> LeftInPlace(h, n, f, at, mem)
<1> DEFINE a == f.ms + 1
           W == {k \in mem + 1 .. a : n[k] # At(h, at + (k - 1))}
           low == Min({mem, a})
           D == {low} \cup W
           g == Max(D)
<1>1. LeftStop(h, n, f, at, mem) = g
  <2>1. \A k \in mem + 1 .. a : at + k - 1 = at + (k - 1)
    OBVIOUS
  <2>2. LeftStop(h, n, f, at, mem) = Max({low} \cup {k \in mem + 1 .. a : n[k] # At(h, at + k - 1)})
    BY Zenon DEF LeftStop
  <2>3. {k \in mem + 1 .. a : n[k] # At(h, at + k - 1)} = W
    BY <2>1
  <2>4. QED
    BY <2>2, <2>3, Zenon
<1>2. a \in Nat
  OBVIOUS
<1> HIDE DEF a
<1>3. low \in {mem, a} /\ low <= mem /\ low <= a
  <2>1. {mem, a} \in SUBSET Nat /\ {mem, a} # {}
    BY <1>2
  <2>2. low \in {mem, a} /\ \A j \in {mem, a} : low <= j
    BY <2>1, LeastOf
  <2>3. QED
    BY <2>2
<1> HIDE DEF low
<1>4. W \in SUBSET (-1 .. a) /\ \A k \in W : k > mem
  BY <1>2
<1>5. g \in D /\ \A j \in D : g >= j
  <2>1. D \in SUBSET (-1 .. a) /\ D # {}
    BY <1>2, <1>3, <1>4
  <2> HIDE DEF D
  <2>2. QED
    BY <1>2, <2>1, GreatestOf
<1> HIDE DEF g
<1>6. g = mem <=> mem <= a /\ W = {}
  <2> HIDE DEF W
  <2>1. ASSUME g = mem PROVE mem <= a /\ W = {}
    <3>1. g \notin W
      BY <1>4, <2>1
    <3>2. mem = low
      BY <1>5, <2>1, <3>1
    <3>3. ASSUME NEW k \in W PROVE FALSE
      <4>1. g >= k /\ k > mem
        BY <1>4, <1>5
      <4>2. k \in Int
        BY <1>2, <1>4
      <4>3. QED
        BY <2>1, <4>1, <4>2
    <3>4. QED
      BY <1>3, <3>2, <3>3
  <2>2. ASSUME mem <= a, W = {} PROVE g = mem
    <3>1. g = low
      BY <1>5, <2>2
    <3>2. low \in {mem, a} /\ low <= mem /\ low <= a /\ D = {low}
      BY <1>3, <2>2
    <3>3. low = mem \/ low = a
      BY <3>2
    <3>4. QED
      BY <1>2, <2>2, <3>1, <3>2, <3>3
  <2>3. QED
    BY <2>1, <2>2
<1>7. QED
  BY <1>1, <1>6 DEF a, LeftInPlace

LEMMA NextWindowKnows ==
    ASSUME NEW n \in Seq(Nat \ {0}), Len(n) >= 1, NEW h, NEW f, FactorsKnow(n, f),
           NEW narrow \in BOOLEAN, NEW s, SearchKnows(h, n, f, s)
    PROVE  LET t == NextWindow(h, n, f, narrow, s)
           IN  /\ t = s => OccursAt(h, n, s.at)
               /\ t # s => SearchKnows(h, n, f, t) /\ t.at > s.at
<1> DEFINE L == Len(n)
           a == f.ms + 1
           at == s.at
           mem == s.mem
           start == Max({a, mem})
           C == {j \in start .. L : At(n, j) # At(h, at + j)}
           k == Min({L} \cup C)
           last == IF narrow THEN ShiftFor(At(h, at + L - 1), n, f, mem) ELSE 0
           t == NextWindow(h, n, f, narrow, s)
<1>1. t = IF last > 0 THEN [at |-> at + last, mem |-> 0]
          ELSE IF k < L THEN [at |-> at + k - f.ms, mem |-> 0]
          ELSE IF LeftStop(h, n, f, at, mem) = mem THEN s
          ELSE [at |-> at + f.p, mem |-> f.mem0]
  BY Zenon DEF NextWindow, Until
<1>2. /\ s \in Windows /\ at \in Nat /\ mem \in Nat /\ mem \in {0, f.mem0}
      /\ \A j \in 0 .. mem - 1 : At(h, at + j) = At(n, j)
  BY DEF SearchKnows, Windows
<1>3. /\ L \in Nat /\ a \in Nat /\ a < L /\ f.p \in Nat \ {0} /\ f.mem0 \in Nat
      /\ f.mem0 # 0 => f.mem0 = L - f.p
  BY DEF FactorsKnow
<1>4. mem <= L
  BY <1>2, <1>3
<1>5. last \in Nat /\ \A i \in 0 .. last - 1 : ~OccursAt(h, n, at + i)
  <2>1. CASE narrow
    <3> DEFINE u == (at + L) - 1
               by == ShiftFor(At(h, u), n, f, mem)
    <3>1. u = at + L - 1
      BY <1>2, <1>3
    <3>2. by \in Nat /\ \A i \in 0 .. by - 1 : ~OccursAt(h, n, at + i)
      BY LastCharacter
    <3> HIDE DEF u
    <3>3. last = by
      BY <2>1, <3>1
    <3> HIDE DEF by, last
    <3>4. QED
      BY <3>2, <3>3
  <2>2. CASE ~narrow
    BY <2>2
  <2>3. QED
    BY <2>1, <2>2
<1> HIDE DEF last
<1>6. start \in Nat /\ a <= start /\ start <= L /\ (start = a \/ start = mem)
  <2> DEFINE D == {a, mem}
  <2>1. D \in SUBSET (-1 .. L) /\ D # {}
    BY <1>2, <1>3, <1>4
  <2>2. start \in D /\ \A j \in D : start >= j
    <3> HIDE DEF D
    <3>1. Max(D) \in D /\ \A j \in D : Max(D) >= j
      BY <1>3, <2>1, GreatestOf
    <3>2. QED
      BY <3>1 DEF D
  <2> HIDE DEF start
  <2>3. start = a \/ start = mem
    BY <2>2
  <2>4. start >= a
    BY <2>2
  <2>5. QED
    BY <1>2, <1>3, <1>4, <2>3, <2>4
<1> HIDE DEF start, a, L, at, mem
<1>7. StopsAt(k, start, L, C)
  <2>1. C \in SUBSET (start .. L)
    OBVIOUS
  <2> HIDE DEF C
  <2>2. QED
    BY <1>3, <1>6, <2>1, LoopStops
<1> HIDE DEF k
<1>8. k \in start .. L /\ (k = L \/ At(n, k) # At(h, at + k))
      /\ \A j \in start .. k - 1 : At(n, j) = At(h, at + j)
  <2>1. k \in start .. L /\ (k = L \/ k \in C) /\ \A j \in start .. k - 1 : j \notin C
    BY <1>7 DEF StopsAt
  <2>2. ASSUME NEW j \in start .. k - 1 PROVE At(n, j) = At(h, at + j)
    <3>1. j \in start .. L
      BY <1>3, <1>6, <2>1
    <3>2. QED
      BY <2>1, <3>1
  <2>3. QED
    BY <2>1, <2>2
<1>9. k \in Nat /\ a <= k /\ k <= L /\ \A j \in a .. k - 1 : At(h, at + j) = At(n, j)
  <2>1. k \in Nat /\ a <= k /\ k <= L
    BY <1>3, <1>6, <1>8
  <2>2. ASSUME NEW j \in a .. k - 1 PROVE At(h, at + j) = At(n, j)
    <3>1. CASE j >= start
      <4>1. j \in start .. k - 1
        BY <1>3, <1>6, <2>1, <3>1
      <4>2. QED
        BY <1>8, <4>1
    <3>2. CASE ~(j >= start)
      <4>1. start = mem /\ j \in 0 .. mem - 1
        BY <1>2, <1>3, <1>6, <2>1, <3>2
      <4>2. QED
        BY <1>2, <4>1
    <3>3. QED
      BY <3>1, <3>2
  <2>3. QED
    BY <2>1, <2>2
<1> HIDE DEF t
<1>10. ASSUME NEW by \in Nat \ {0}, NEW m,
              t = [at |-> at + by, mem |-> m]
       PROVE  t # s /\ t.at > at
  <2>1. t.at = at + by
    BY <1>10
  <2>2. t.at > at /\ at = s.at
    BY <1>2, <2>1 DEF at
  <2>3. t.at # s.at
    BY <1>2, <2>1, <2>2
  <2>4. QED
    BY <2>2, <2>3
<1>11. CASE last > 0
  <2>1. t = [at |-> at + last, mem |-> 0]
    BY <1>1, <1>11
  <2>2. SearchKnows(h, n, f, [at |-> s.at + last, mem |-> 0])
    BY <1>5, Advance DEF at
  <2>3. t # s /\ t.at > at
    BY <1>5, <1>10, <1>11, <2>1
  <2>4. QED
    BY <2>1, <2>2, <2>3 DEF t, at
<1>12. CASE ~(last > 0) /\ k < L
  <2> DEFINE by == k - f.ms
  <2>1. f.ms = a - 1
    <3>1. f.ms + 1 \in Nat
      BY <1>3 DEF a
    <3>2. f.ms \in Int
      BY DEF FactorsKnow
    <3>3. QED
      BY <3>1, <3>2 DEF a
  <2>2. by \in Nat \ {0} /\ at + k - f.ms = at + by /\ by - 1 = k - a
    BY <1>2, <1>3, <1>9, <2>1
  <2>3. t = [at |-> at + by, mem |-> 0]
    BY <1>1, <1>12, <2>2
  <2>4. \A i \in 0 .. by - 1 : ~OccursAt(h, n, at + i)
    <3>1. \A i \in 0 .. k - a : ~OccursAt(h, n, at + i)
      <4>1. At(h, at + k) # At(n, k)
        BY <1>8, <1>9, <1>12
      <4>2. QED
        BY <1>2, <1>9, <1>12, <4>1, RightMismatch DEF a, L
    <3> HIDE DEF by
    <3>2. QED
      BY <2>2, <3>1
  <2> HIDE DEF by
  <2>5. SearchKnows(h, n, f, [at |-> s.at + by, mem |-> 0])
    BY <2>2, <2>4, Advance DEF at
  <2>6. t # s /\ t.at > at
    BY <1>10, <2>2, <2>3
  <2>7. QED
    BY <2>3, <2>5, <2>6 DEF t, at
<1>13. CASE ~(last > 0) /\ ~(k < L)
  <2>1. k = L /\ \A j \in a .. L - 1 : At(h, at + j) = At(n, j)
    BY <1>3, <1>9, <1>13
  <2>2. LeftStop(h, n, f, at, mem) = mem <=>
            mem <= a /\ \A i \in mem + 1 .. a : n[i] = At(h, at + (i - 1))
    <3>1. f.ms + 1 \in Nat /\ f.ms + 1 = a
      BY <1>3 DEF a
    <3>2. LeftStop(h, n, f, at, mem) = mem <=> LeftInPlace(h, n, f, at, mem)
      BY <1>2, <3>1, LeftStopIs, Zenon
    <3>3. QED
      BY <3>1, <3>2 DEF LeftInPlace
  <2>3. \A i \in 1 .. a : n[i] = At(n, i - 1) /\ (i - 1) + 1 = i
    BY <1>3 DEF At, L
  <2>4. CASE LeftStop(h, n, f, at, mem) = mem
    <3>1. t = s
      BY <1>1, <1>13, <2>4
    <3>2. mem <= a /\ \A i \in mem + 1 .. a : n[i] = At(h, at + (i - 1))
      BY <2>2, <2>4
    <3>3. ASSUME NEW j \in 0 .. L - 1 PROVE At(h, at + j) = At(n, j)
      <4>1. CASE j < mem
        BY <1>2, <4>1
      <4>2. CASE ~(j < mem) /\ j < a
        <5> DEFINE i == j + 1
        <5>1. i \in mem + 1 .. a /\ i \in 1 .. a /\ i - 1 = j
          BY <1>2, <1>3, <4>2
        <5> HIDE DEF i
        <5>2. n[i] = At(h, at + (i - 1)) /\ n[i] = At(n, i - 1)
          BY <2>3, <3>2, <5>1
        <5>3. QED
          BY <5>1, <5>2
      <4>3. CASE ~(j < a)
        <5>1. j \in a .. L - 1
          BY <1>3, <4>3
        <5>2. QED
          BY <2>1, <5>1
      <4>4. QED
        BY <4>1, <4>2, <4>3
    <3>4. OccursAt(h, n, at)
      BY <3>3 DEF OccursAt, L
    <3>5. QED
      BY <3>1, <3>4 DEF t, at
  <2>5. CASE LeftStop(h, n, f, at, mem) # mem
    <3>1. t = [at |-> at + f.p, mem |-> f.mem0]
      BY <1>1, <1>13, <2>5
    <3>2. /\ ~OccursAt(h, n, at) => \A i \in 0 .. f.p - 1 : ~OccursAt(h, n, at + i)
          /\ \A j \in 0 .. f.mem0 - 1 : At(h, (at + f.p) + j) = At(n, j)
      <4>1. RightInPlace(h, n, f, at)
        BY <2>1 DEF a, L, RightInPlace
      <4>2. (~OccursAt(h, n, at) => NoneUpTo(h, n, at, f.p)) /\ InPlace(h, n, at + f.p, f.mem0)
        BY <1>2, <4>1, RightMatch, Zenon
      <4>3. QED
        BY <4>2 DEF NoneUpTo, InPlace
    <3>3. ASSUME f.mem0 <= f.ms + 1 PROVE ~OccursAt(h, n, at)
      <4> SUFFICES ASSUME OccursAt(h, n, at) PROVE FALSE
        OBVIOUS
      <4>1. mem <= a
        BY <1>2, <1>3, <3>3 DEF a
      <4>2. PICK i \in mem + 1 .. a : n[i] # At(h, at + (i - 1))
        BY <2>2, <2>5, <4>1
      <4>3. i \in 1 .. a /\ i - 1 \in 0 .. L - 1
        BY <1>2, <1>3
      <4>4. At(h, at + (i - 1)) = At(n, i - 1)
        BY <4>3 DEF OccursAt, L
      <4>5. QED
        BY <2>3, <4>2, <4>3, <4>4
    <3>4. SearchKnows(h, n, f, [at |-> s.at + f.p, mem |-> f.mem0])
      <4>1. f.p \in Nat
        BY <1>3
      <4>2. f.mem0 <= f.ms + 1 => \A i \in 0 .. f.p - 1 : ~OccursAt(h, n, s.at + i)
        BY <3>2, <3>3 DEF at
      <4>3. f.mem0 \in Nat /\ \A j \in 0 .. f.mem0 - 1 : At(h, (s.at + f.p) + j) = At(n, j)
        BY <1>3, <3>2 DEF at
      <4>4. QED
        BY <4>1, <4>2, <4>3, Advance
    <3>5. t # s /\ t.at > at
      BY <1>3, <1>10, <3>1
    <3>6. QED
      BY <3>1, <3>4, <3>5 DEF t, at
  <2>6. QED
    BY <2>4, <2>5
<1>14. QED
  BY <1>11, <1>12, <1>13

(* Every step of the search goes to the right, whatever it remembers. *)
LEMMA NextWindowMoves ==
    ASSUME NEW n \in Seq(Nat \ {0}), Len(n) >= 1, NEW h, NEW f, FactorsKnow(n, f),
           NEW narrow \in BOOLEAN, NEW s \in Windows
    PROVE  LET t == NextWindow(h, n, f, narrow, s)
           IN  t = s \/ (t \in Windows /\ t.at > s.at)
<1> DEFINE L == Len(n)
           a == f.ms + 1
           at == s.at
           mem == s.mem
           start == Max({a, mem})
           C == {j \in start .. L : At(n, j) # At(h, at + j)}
           k == Min({L} \cup C)
           c == At(h, at + L - 1)
           last == IF narrow THEN ShiftFor(c, n, f, mem) ELSE 0
           t == NextWindow(h, n, f, narrow, s)
<1>1. t = IF last > 0 THEN [at |-> at + last, mem |-> 0]
          ELSE IF k < L THEN [at |-> at + k - f.ms, mem |-> 0]
          ELSE IF LeftStop(h, n, f, at, mem) = mem THEN s
          ELSE [at |-> at + f.p, mem |-> f.mem0]
  BY Zenon DEF NextWindow, Until
<1>2. at \in Nat /\ mem \in Nat
  BY DEF Windows
<1>3. /\ L \in Nat /\ f.ms \in Int /\ a \in Nat /\ f.p \in Nat \ {0} /\ f.mem0 \in Nat
      /\ f.mem0 # 0 => f.mem0 = L - f.p
  BY DEF FactorsKnow
<1>4. last \in Nat
  <2>1. PICK i \in Nat :
            /\ LastAt(n, c, i)
            /\ ShiftFor(c, n, f, s.mem) = IF i \in 1 .. f.p - 1 /\ f.mem0 > 0 /\ s.mem > 0
                                          THEN Len(n) - f.p ELSE i
    <3> HIDE DEF c
    <3>1. QED
      BY ShiftForIs
  <2>2. ASSUME f.mem0 > 0 PROVE Len(n) - f.p \in Nat
    BY <1>3, <2>2
  <2> HIDE DEF c
  <2>3. ShiftFor(c, n, f, s.mem) \in Nat
    BY <2>1, <2>2
  <2>4. QED
    BY <2>3
<1> HIDE DEF last
<1>5. start >= a /\ start \in Nat
  <2> DEFINE D == {a, mem}
  <2>1. D \in SUBSET (-1 .. a + mem) /\ D # {} /\ a + mem \in Nat
    BY <1>2, <1>3, SMTT(40)
  <2>2. start \in D /\ \A j \in D : start >= j
    <3> HIDE DEF D
    <3>1. Max(D) \in D /\ \A j \in D : Max(D) >= j
      BY <2>1, GreatestOf
    <3>2. QED
      BY <3>1 DEF D
  <2>3. QED
    BY <1>2, <1>3, <2>2
<1> HIDE DEF start
<1>6. k = L \/ k \in start .. L
  <2> DEFINE D == {L} \cup C
  <2>1. D \in SUBSET Nat /\ D # {}
    BY <1>3, <1>5
  <2>2. Min(D) \in D
    <3> HIDE DEF D
    <3>1. QED
      BY <2>1, LeastOf
  <2>3. QED
    BY <2>2
<1> HIDE DEF k, t, L
<1>7. ASSUME NEW by \in Nat \ {0}, NEW m \in Nat, t = [at |-> at + by, mem |-> m]
      PROVE  t \in Windows /\ t.at > at
  <2>1. at + by \in Nat /\ at + by > at
    BY <1>2
  <2>2. QED
    BY <1>7, <2>1 DEF Windows
<1>8. CASE last > 0
  <2>1. last \in Nat \ {0} /\ 0 \in Nat
    BY <1>4, <1>8
  <2>2. t = [at |-> at + last, mem |-> 0]
    BY <1>1, <1>8
  <2>3. QED
    BY <1>7, <2>1, <2>2 DEF t, at
<1>9. CASE ~(last > 0) /\ k < L
  <2> DEFINE by == k - f.ms
  <2>1. by \in Nat \ {0} /\ at + k - f.ms = at + by /\ 0 \in Nat
    <3>1. k \in start .. L
      BY <1>6, <1>9, <1>3
    <3>2. a \in Nat /\ L \in Nat /\ at \in Nat
      BY <1>2, <1>3
    <3>3. k \in Nat /\ k >= a
      <4> HIDE DEF a
      <4>1. QED
        BY <1>5, <3>1, <3>2
    <3>4. f.ms \in Int /\ k \in Nat /\ k >= f.ms + 1
      BY <1>3, <3>3
    <3> HIDE DEF a, at
    <3>5. QED
      BY <3>2, <3>4
  <2>2. t = [at |-> at + by, mem |-> 0]
    BY <1>1, <1>9, <2>1
  <2> HIDE DEF by
  <2>3. QED
    BY <1>7, <2>1, <2>2 DEF t, at
<1>10. CASE ~(last > 0) /\ ~(k < L) /\ LeftStop(h, n, f, at, mem) # mem
  <2>1. t = [at |-> at + f.p, mem |-> f.mem0]
    BY <1>1, <1>10
  <2>2. QED
    BY <1>3, <1>7, <2>1 DEF t, at
<1>11. CASE ~(last > 0) /\ ~(k < L) /\ LeftStop(h, n, f, at, mem) = mem
  BY <1>1, <1>11 DEF t
<1>12. QED
  BY <1>8, <1>9, <1>10, <1>11

(* What a search may answer: no place, or one where the needle is; an      *)
(* exact one answers the first. *)
Reports(h, n, r) == r = None \/ (r \in Nat /\ OccursAt(h, n, r))
ReportsFirst(h, n, r) ==
    /\ Reports(h, n, r)
    /\ r = None => \A i \in Nat : ~OccursAt(h, n, i)
    /\ r # None => \A i \in 0 .. r - 1 : ~OccursAt(h, n, i)

LEMMA TwoWayFinds ==
    ASSUME NEW n \in Seq(Nat \ {0}), Len(n) >= 1, NEW h \in Seq(Nat \ {0}), NEW narrow \in BOOLEAN
    PROVE  /\ Reports(h, n, TwoWay(h, n, narrow))
           /\ Factors(n).mem0 <= Factors(n).ms + 1 => ReportsFirst(h, n, TwoWay(h, n, narrow))
<1> DEFINE F == Factors(n)
           S == Windows
           L == Len(n)
           M == Len(h)
           out(s) == M - s.at < L
           to(s) == NextWindow(h, n, F, narrow, s)
           stop == [s \in S |-> out(s) \/ to(s) = s]
           next == [s \in S |-> to(s)]
           result == [s \in S |-> IF out(s) THEN None ELSE s.at]
           m == [s \in S |-> IF stop[s] THEN 0 ELSE (M - s.at) + 1]
           is(f) == f = [s \in S |-> IF out(s) THEN None ELSE IF to(s) = s THEN s.at ELSE f[to(s)]]
           first == [at |-> 0, mem |-> 0]
<1>1. L \in Nat /\ L >= 1 /\ M \in Nat /\ FactorsKnow(n, F)
  BY FactorsAre
<1>2. ASSUME NEW s \in S PROVE s.at \in Nat
  BY DEF Windows
<1> HIDE DEF F
<1>3. ASSUME NEW s \in S PROVE to(s) = s \/ (to(s) \in S /\ to(s).at > s.at)
  BY <1>1, NextWindowMoves
<1>4. TwoWay(h, n, narrow) = (CHOOSE f : is(f))[first]
  BY Zenon DEF TwoWay, Windows, F
<1> HIDE DEF S, to, L, M
<1>5. LoopOf(S, stop, next, result, m)
  <2>1. stop \in [S -> BOOLEAN] /\ DOMAIN result = S
    OBVIOUS
  <2>2. ASSUME NEW s \in S, ~stop[s] PROVE (M - s.at) + 1 \in Nat \ {0}
    <3>1. ~(M - s.at < L)
      BY <2>2
    <3>2. QED
      BY <1>1, <1>2, <3>1
  <2>3. m \in [S -> Nat]
    <3> HIDE DEF stop
    <3>1. QED
      BY <2>2
  <2>4. ASSUME NEW s \in S, ~stop[s] PROVE next[s] \in S /\ m[next[s]] < m[s]
    <3> DEFINE t == to(s)
    <3>1. next[s] = t /\ t # s
      BY <2>4
    <3>2. t \in S /\ t.at > s.at
      BY <1>3, <3>1
    <3>3. m[s] = (M - s.at) + 1
      BY <2>4
    <3>4. m[t] = IF stop[t] THEN 0 ELSE (M - t.at) + 1
      <4> HIDE DEF t, stop
      <4>1. QED
        BY <3>2
    <3>5. s.at \in Nat /\ t.at \in Nat /\ (M - s.at) + 1 \in Nat \ {0}
      BY <1>2, <2>2, <2>4, <3>2
    <3> HIDE DEF m, stop, t
    <3>6. m[t] < m[s]
      BY <1>1, <3>2, <3>3, <3>4, <3>5
    <3>7. QED
      BY <3>1, <3>2, <3>6
  <2> HIDE DEF stop, next, result, m
  <2>5. QED
    BY <2>1, <2>3, <2>4 DEF LoopOf
<1>6. ASSUME NEW f PROVE Loops(f, S, stop, next, result) <=> is(f)
  <2>1. ASSUME NEW s \in S
        PROVE  (IF stop[s] THEN result[s] ELSE f[next[s]])
                   = (IF out(s) THEN None ELSE IF to(s) = s THEN s.at ELSE f[to(s)])
    OBVIOUS
  <2> HIDE DEF stop, next, result, out
  <2>2. [s \in S |-> IF stop[s] THEN result[s] ELSE f[next[s]]]
            = [s \in S |-> IF out(s) THEN None ELSE IF to(s) = s THEN s.at ELSE f[to(s)]]
    BY <2>1, Zenon
  <2>3. QED
    BY <2>2, Zenon DEF Loops
<1> DEFINE G == CHOOSE f : is(f)
<1>7. is(G)
  <2>1. \E f : Loops(f, S, stop, next, result)
    <3> HIDE DEF stop, next, result, m
    <3>1. QED
      BY <1>5, LoopEnds
  <2> HIDE DEF stop, next, result, is
  <2>2. QED
    BY <1>6, <2>1, Zenon
<1>8. Loops(G, S, stop, next, result)
  <2> HIDE DEF G, is, stop, next, result
  <2>1. QED
    BY <1>6, <1>7
<1> DEFINE I == {s \in S : SearchKnows(h, n, F, s)}
<1>9. first \in I
  <2>1. first \in Windows /\ first.at = 0 /\ first.mem = 0
    BY DEF Windows
  <2> HIDE DEF first
  <2>2. SearchKnows(h, n, F, first)
    BY <2>1 DEF SearchKnows
  <2>3. QED
    BY <2>1, <2>2 DEF S
<1>10. ASSUME NEW s \in I PROVE /\ to(s) = s => OccursAt(h, n, s.at)
                                /\ to(s) # s => to(s) \in I
  <2>1. SearchKnows(h, n, F, s)
    OBVIOUS
  <2>2. /\ to(s) = s => OccursAt(h, n, s.at)
        /\ to(s) # s => SearchKnows(h, n, F, to(s)) /\ to(s).at > s.at
    BY <1>1, <2>1, NextWindowKnows DEF to
  <2>3. QED
    BY <2>2 DEF S, SearchKnows
<1>11. PICK s \in I : stop[s] /\ G[first] = result[s]
  <2>1. I \in SUBSET S
    OBVIOUS
  <2>2. ASSUME NEW s \in I, ~stop[s] PROVE next[s] \in I
    <3>1. s \in S
      OBVIOUS
    <3>2. to(s) # s /\ next[s] = to(s)
      BY <2>2, <3>1
    <3>3. QED
      BY <1>10, <3>2
  <2> HIDE DEF I, G, first, stop, next, result, m
  <2>3. QED
    BY <1>5, <1>8, <1>9, <2>1, <2>2, LoopKeeps
<1> DEFINE r == TwoWay(h, n, narrow)
<1>12. r = result[s]
  BY <1>4, <1>11
<1>13. /\ s \in S /\ SearchKnows(h, n, F, s) /\ (out(s) \/ to(s) = s)
       /\ result[s] = IF out(s) THEN None ELSE s.at
  BY <1>11
<1> HIDE DEF r, result, G
<1>14. s.at \in Nat
  BY <1>2, <1>13
<1>15. CASE out(s)
  <2>1. r = None
    BY <1>12, <1>13, <1>15
  <2>2. ASSUME F.mem0 <= F.ms + 1, NEW i \in Nat, OccursAt(h, n, i) PROVE FALSE
    <3>1. ~(i < s.at)
      <4> SUFFICES ASSUME i < s.at PROVE FALSE
        OBVIOUS
      <4>1. i \in 0 .. s.at - 1
        BY <1>14
      <4>2. QED
        BY <1>13, <2>2, <4>1 DEF SearchKnows
    <3> DEFINE j == L - 1
    <3>2. j \in 0 .. Len(n) - 1 /\ j \in Nat /\ j < L /\ i + j >= M /\ i + j \in Nat
      BY <1>1, <1>14, <1>15, <3>1 DEF L
    <3> HIDE DEF j
    <3>3. At(h, i + j) = At(n, j)
      BY <2>2, <3>2 DEF OccursAt
    <3>4. At(h, i + j) = 0
      BY <3>2, Characters DEF M
    <3>5. At(n, j) # 0
      BY <1>1, <3>2, Characters DEF L
    <3>6. QED
      BY <3>3, <3>4, <3>5
  <2>3. QED
    BY <2>1, <2>2 DEF Reports, ReportsFirst, r, F
<1>16. CASE ~out(s)
  <2>1. r = s.at /\ r \in Nat /\ r # None
    BY <1>12, <1>13, <1>14, <1>16 DEF None
  <2>2. OccursAt(h, n, r)
    BY <1>10, <1>11, <1>13, <1>16, <2>1
  <2>3. F.mem0 <= F.ms + 1 => \A i \in 0 .. r - 1 : ~OccursAt(h, n, i)
    BY <1>13, <2>1 DEF SearchKnows
  <2>4. QED
    BY <2>1, <2>2, <2>3 DEF Reports, ReportsFirst, r, F
<1>17. QED
  BY <1>15, <1>16

-----------------------------------------------------------------------------
(* The places of a needle, in a string and in the rest of it. *)
LEMMA OccurrencesAre ==
    ASSUME NEW n \in Seq(Nat \ {0}), NEW h \in Seq(Nat \ {0}), Len(n) >= 1, NEW i \in Nat
    PROVE  /\ i \in Occurrences(h, n) <=> OccursAt(h, n, i)
           /\ OccursAt(h, n, i) => i + Len(n) <= Len(h)
<1> DEFINE L == Len(n)
           M == Len(h)
           w == SubSeq(h, i + 1, i + L)
<1>1. L \in Nat /\ L >= 1 /\ M \in Nat
  OBVIOUS
<1>2. ASSUME i + L <= M PROVE w = n <=> OccursAt(h, n, i)
  <2>1. w \in Seq(Nat \ {0}) /\ Len(w) = L /\ \A j \in 1 .. L : w[j] = h[(i + 1) + j - 1]
    BY <1>2
  <2>2. \A j \in 1 .. L : w[j] = h[i + j]
    <3>1. \A j \in 1 .. L : (i + 1) + j - 1 = i + j
      OBVIOUS
    <3> HIDE DEF w
    <3>2. QED
      BY <2>1, <3>1
  <2> HIDE DEF w
  <2>3. \A j \in 0 .. L - 1 : At(h, i + j) = h[i + (j + 1)] /\ At(n, j) = n[j + 1]
    <3> SUFFICES ASSUME NEW j \in 0 .. L - 1
                 PROVE  At(h, i + j) = h[i + (j + 1)] /\ At(n, j) = n[j + 1]
      OBVIOUS
    <3>1. i + j < M /\ (i + j) + 1 = i + (j + 1) /\ j < L
      BY <1>1, <1>2
    <3>2. QED
      BY <3>1 DEF At
  <2>4. ASSUME w = n PROVE OccursAt(h, n, i)
    <3> SUFFICES ASSUME NEW j \in 0 .. L - 1 PROVE At(h, i + j) = At(n, j)
      BY DEF OccursAt
    <3>1. j + 1 \in 1 .. L
      BY <1>1
    <3>2. w[j + 1] = h[i + (j + 1)]
      BY <2>2, <3>1
    <3>3. QED
      BY <2>3, <2>4, <3>2
  <2>5. ASSUME OccursAt(h, n, i) PROVE w = n
    <3>1. ASSUME NEW j \in 1 .. L PROVE w[j] = n[j]
      <4> DEFINE k == j - 1
      <4>1. k \in 0 .. L - 1 /\ k + 1 = j
        BY <1>1
      <4> HIDE DEF k
      <4>2. At(h, i + k) = At(n, k)
        BY <2>5, <4>1 DEF OccursAt
      <4>3. h[i + (k + 1)] = n[k + 1]
        BY <2>3, <4>1, <4>2
      <4>4. QED
        BY <2>2, <4>1, <4>3
    <3>2. n \in [1 .. L -> Nat \ {0}] /\ w \in [1 .. L -> Nat \ {0}]
      BY <2>1
    <3>3. n = [j \in 1 .. L |-> n[j]] /\ w = [j \in 1 .. L |-> w[j]]
      BY <3>2
    <3> HIDE DEF L
    <3>4. [j \in 1 .. L |-> n[j]] = [j \in 1 .. L |-> w[j]]
      BY <3>1
    <3>5. QED
      BY <3>3, <3>4
  <2>6. QED
    BY <2>4, <2>5
<1>3. ASSUME OccursAt(h, n, i) PROVE i + L <= M
  <2> SUFFICES ASSUME ~(i + L <= M) PROVE FALSE
    BY <1>1
  <2> DEFINE j == L - 1
  <2>1. j \in 0 .. L - 1 /\ j \in Nat /\ i + j \in Nat /\ ~(j >= L) /\ i + j >= M
    BY <1>1
  <2> HIDE DEF j
  <2>2. At(h, i + j) = At(n, j)
    BY <1>3, <2>1 DEF OccursAt
  <2>3. At(h, i + j) = 0 /\ At(n, j) # 0
    BY <2>1, Characters
  <2>4. QED
    BY <2>2, <2>3
<1> HIDE DEF w
<1>4. i \in Occurrences(h, n) <=> i + L <= M /\ w = n
  <2>1. i \in 0 .. M - L <=> i + L <= M
    BY <1>1
  <2>2. QED
    BY <2>1 DEF Occurrences, w
<1>5. QED
  BY <1>2, <1>3, <1>4

LEMMA ReportsOccurrence ==
    ASSUME NEW n \in Seq(Nat \ {0}), NEW h \in Seq(Nat \ {0}), Len(n) >= 1, NEW r
    PROVE  /\ Reports(h, n, r) => r \in Occurrences(h, n) \cup {None}
           /\ ReportsFirst(h, n, r) => r = FirstOf(Occurrences(h, n))
<1> DEFINE O == Occurrences(h, n)
<1>1. O \in SUBSET Nat
  BY DEF Occurrences
<1>2. \A i \in Nat : i \in O <=> OccursAt(h, n, i)
  BY OccurrencesAre
<1> HIDE DEF O
<1>3. ASSUME Reports(h, n, r) PROVE r \in O \cup {None}
  BY <1>2, <1>3 DEF Reports
<1>4. ASSUME ReportsFirst(h, n, r) PROVE r = FirstOf(O)
  <2>1. CASE r = None
    <3>1. O = {}
      BY <1>1, <1>2, <1>4, <2>1 DEF ReportsFirst
    <3>2. QED
      BY <2>1, <3>1 DEF FirstOf
  <2>2. CASE r # None
    <3>1. r \in Nat /\ r \in O
      BY <1>2, <1>4, <2>2 DEF ReportsFirst, Reports
    <3>2. \A j \in O : r <= j
      <4> SUFFICES ASSUME NEW j \in O, ~(r <= j) PROVE FALSE
        OBVIOUS
      <4>1. j \in Nat /\ j \in 0 .. r - 1
        BY <1>1, <3>1
      <4>2. QED
        BY <1>2, <1>4, <2>2, <4>1 DEF ReportsFirst
    <3>3. O \in SUBSET Int
      BY <1>1
    <3>4. Min(O) = r
      BY <3>1, <3>2, <3>3, LeastIs
    <3>5. QED
      BY <3>1, <3>4 DEF FirstOf
  <2>3. QED
    BY <2>1, <2>2
<1>5. QED
  BY <1>3, <1>4 DEF O

(* A search of the rest that begins at the first character of the needle.  *)
BeginsAt(h, n, first) ==
    /\ first \in 0 .. Len(h) - 1
    /\ At(h, first) = At(n, 0) /\ \A j \in 0 .. first - 1 : At(h, j) # At(n, 0)

LEMMA RestOfSearch ==
    ASSUME NEW n \in Seq(Nat \ {0}), NEW h \in Seq(Nat \ {0}), Len(n) >= 1,
           NEW first, BeginsAt(h, n, first), NEW r
    PROVE  /\ From(h, first) \in Seq(Nat \ {0}) /\ Len(From(h, first)) = Len(h) - first
           /\ Reports(From(h, first), n, r) => Reports(h, n, Moved(r, first))
           /\ ReportsFirst(From(h, first), n, r) => ReportsFirst(h, n, Moved(r, first))
<1> DEFINE t == From(h, first)
           m == Moved(r, first)
<1>1. first \in Nat /\ first \in 0 .. Len(h) /\ \A j \in 0 .. first - 1 : At(h, j) # At(n, 0)
  BY DEF BeginsAt
<1>2. t \in Seq(Nat \ {0}) /\ Len(t) = Len(h) - first
  <2>1. first + 1 \in 1 .. Len(h) + 1
    BY <1>1
  <2>2. QED
    BY <1>1, <2>1 DEF From
<1>3. \A j \in Nat : At(t, j) = At(h, first + j)
  <2>1. h \in Seq(Nat)
    OBVIOUS
  <2>2. QED
    BY <1>1, <2>1, RestOfText
<1> HIDE DEF t
<1>4. ASSUME NEW i \in Nat PROVE OccursAt(t, n, i) <=> OccursAt(h, n, first + i)
  <2>1. \A j \in 0 .. Len(n) - 1 : At(t, i + j) = At(h, (first + i) + j)
    <3> SUFFICES ASSUME NEW j \in 0 .. Len(n) - 1 PROVE At(t, i + j) = At(h, (first + i) + j)
      OBVIOUS
    <3>1. i + j \in Nat /\ first + (i + j) = (first + i) + j
      BY <1>1
    <3>2. At(t, i + j) = At(h, first + (i + j))
      BY <1>3, <3>1
    <3>3. QED
      BY <3>1, <3>2
  <2>2. QED
    BY <2>1 DEF OccursAt
<1>5. ASSUME NEW i \in 0 .. first - 1 PROVE ~OccursAt(h, n, i)
  <2>1. 0 \in 0 .. Len(n) - 1 /\ i + 0 = i
    BY <1>1
  <2>2. QED
    BY <1>1, <2>1 DEF OccursAt
<1>6. (r = None => m = None) /\ (r \in Nat => m = r + first /\ m \in Nat /\ m # None /\ first + r = m)
  BY <1>1 DEF Moved, None, Beyond
<1> HIDE DEF m
<1>7. ASSUME Reports(t, n, r) PROVE Reports(h, n, m)
  BY <1>4, <1>6, <1>7 DEF Reports
<1>8. ASSUME ReportsFirst(t, n, r) PROVE ReportsFirst(h, n, m)
  <2>1. Reports(t, n, r) /\ Reports(h, n, m)
    BY <1>7, <1>8 DEF ReportsFirst
  <2>2. ASSUME NEW i \in Nat, i < first \/ ~OccursAt(t, n, i - first) PROVE ~OccursAt(h, n, i)
    <3>1. CASE i < first
      BY <1>1, <1>5, <3>1
    <3>2. CASE ~(i < first)
      <4> DEFINE k == i - first
      <4>1. k \in Nat /\ first + k = i /\ ~OccursAt(t, n, k)
        BY <1>1, <2>2, <3>2
      <4> HIDE DEF k
      <4>2. QED
        BY <1>4, <4>1
    <3>3. QED
      BY <3>1, <3>2
  <2>3. CASE r = None
    <3>1. m = None
      BY <1>6, <2>3
    <3>2. ASSUME NEW i \in Nat PROVE ~OccursAt(h, n, i)
      <4>1. i < first \/ i - first \in Nat
        BY <1>1
      <4>2. i < first \/ ~OccursAt(t, n, i - first)
        BY <1>8, <2>3, <4>1 DEF ReportsFirst
      <4>3. QED
        BY <2>2, <4>2
    <3>3. QED
      BY <2>1, <3>1, <3>2 DEF ReportsFirst
  <2>4. CASE r # None
    <3>1. r \in Nat /\ m = r + first /\ m # None
      BY <1>6, <2>1, <2>4 DEF Reports
    <3>2. ASSUME NEW i \in 0 .. m - 1 PROVE ~OccursAt(h, n, i)
      <4>1. i \in Nat /\ (i < first \/ i - first \in 0 .. r - 1)
        BY <1>1, <3>1
      <4>2. i < first \/ ~OccursAt(t, n, i - first)
        BY <1>8, <2>4, <4>1 DEF ReportsFirst
      <4>3. QED
        BY <2>2, <4>1, <4>2
    <3>3. QED
      BY <2>1, <3>1, <3>2 DEF ReportsFirst
  <2>5. QED
    BY <2>3, <2>4
<1>9. QED
  BY <1>2, <1>7, <1>8 DEF t, m

(* Where the first character is not there, or all there is to a needle.    *)
LEMMA FirstLetter ==
    ASSUME NEW n \in Seq(Nat \ {0}), NEW h \in Seq(Nat \ {0}), Len(n) >= 1,
           NEW first, first = FirstOf({j \in 0 .. Len(h) - 1 : At(h, j) = At(n, 0)})
    PROVE  /\ first = None => ReportsFirst(h, n, None)
           /\ first # None => BeginsAt(h, n, first)
           /\ Len(n) = 1 => ReportsFirst(h, n, first)
<1> DEFINE T == {j \in 0 .. Len(h) - 1 : At(h, j) = At(n, 0)}
<1>1. T \in SUBSET Nat
  OBVIOUS
<1>2. ASSUME NEW i \in Nat, OccursAt(h, n, i) PROVE i \in T
  <2>1. 0 \in 0 .. Len(n) - 1 /\ i + 0 = i /\ i + Len(n) <= Len(h)
    BY <1>2, OccurrencesAre
  <2>2. At(h, i) = At(n, 0)
    BY <1>2, <2>1 DEF OccursAt
  <2>3. QED
    BY <2>1, <2>2
<1>3. ASSUME Len(n) = 1, NEW i \in T PROVE OccursAt(h, n, i)
  <2>1. At(h, i) = At(n, 0) /\ 0 .. Len(n) - 1 = {0} /\ i + 0 = i
    BY <1>3
  <2>2. QED
    BY <2>1 DEF OccursAt
<1>4. CASE T = {}
  <2>1. first = None
    BY <1>4 DEF FirstOf
  <2>2. ReportsFirst(h, n, None)
    BY <1>2, <1>4 DEF ReportsFirst, Reports
  <2>3. QED
    BY <2>1, <2>2
<1>5. CASE T # {}
  <2> HIDE DEF T
  <2>1. first = Min(T) /\ first \in T /\ \A j \in T : first <= j
    <3>1. first = Min(T)
      BY <1>5 DEF FirstOf, T
    <3>2. Min(T) \in T /\ \A j \in T : Min(T) <= j
      BY <1>1, <1>5, LeastOf, Zenon
    <3>3. QED
      BY <3>1, <3>2, Zenon
  <2>2. first \in Nat /\ first # None
    BY <1>1, <2>1 DEF None
  <2>3. \A j \in 0 .. first - 1 : j \notin T
    <3> SUFFICES ASSUME NEW j \in 0 .. first - 1, j \in T PROVE FALSE
      OBVIOUS
    <3>1. first <= j
      BY <2>1, Zenon
    <3>2. QED
      BY <2>2, <3>1
  <2>4. BeginsAt(h, n, first)
    <3>1. first \in 0 .. Len(h) - 1 /\ At(h, first) = At(n, 0)
      BY <2>1 DEF T
    <3>2. ASSUME NEW j \in 0 .. first - 1 PROVE At(h, j) # At(n, 0)
      <4>1. j \in 0 .. Len(h) - 1
        BY <3>1
      <4>2. QED
        BY <2>3, <4>1 DEF T
    <3>3. QED
      BY <3>1, <3>2 DEF BeginsAt
  <2>5. ASSUME Len(n) = 1 PROVE ReportsFirst(h, n, first)
    <3>1. OccursAt(h, n, first)
      BY <1>3, <2>1, <2>5
    <3>2. ASSUME NEW j \in 0 .. first - 1 PROVE ~OccursAt(h, n, j)
      <4>1. j \in Nat /\ j \notin T
        BY <2>2, <2>3
      <4>2. QED
        BY <1>2, <4>1
    <3>3. QED
      BY <2>2, <3>1, <3>2 DEF ReportsFirst, Reports
  <2>6. QED
    BY <2>2, <2>4, <2>5
<1>6. QED
  BY <1>4, <1>5

(* A rest as long as the needle is compared with it at once. *)
LEMMA ShortFinds ==
    ASSUME NEW n \in Seq(Nat \ {0}), NEW h \in Seq(Nat \ {0}), Len(n) >= 2, Len(h) = Len(n)
    PROVE  ReportsFirst(h, n, ShortStrStr(h, n, Len(h)))
<1> DEFINE w == Len(h)
           word(s, i) == [k \in 0 .. w - 1 |-> At(s, i + k)]
           C == {j \in w - 1 .. w : word(h, j - w + 1) = word(n, 0)}
           last == Min({w} \cup C)
           r == ShortStrStr(h, n, w)
<1>1. w \in Nat /\ w >= 2 /\ Len(n) = w
  OBVIOUS
<1>2. r = Moved(AtOrNone(last, w), 1 - w)
  BY Zenon DEF ShortStrStr, Until
<1>3. StopsAt(last, w - 1, w, C)
  <2>1. C \in SUBSET (w - 1 .. w) /\ w - 1 \in Nat /\ w - 1 <= w
    BY <1>1
  <2> HIDE DEF C, w
  <2>2. QED
    BY <1>1, <2>1, LoopStops
<1>4. word(h, 0) = word(n, 0) <=> OccursAt(h, n, 0)
  <2>1. \A k \in 0 .. w - 1 : word(h, 0)[k] = At(h, 0 + k) /\ word(n, 0)[k] = At(n, k)
    <3>1. \A k \in 0 .. w - 1 : 0 + k = k
      OBVIOUS
    <3>2. QED
      BY <3>1
  <2>2. ASSUME word(h, 0) = word(n, 0) PROVE OccursAt(h, n, 0)
    <3> HIDE DEF word
    <3>1. QED
      BY <1>1, <2>1, <2>2 DEF OccursAt
  <2>3. ASSUME OccursAt(h, n, 0) PROVE word(h, 0) = word(n, 0)
    <3>1. ASSUME NEW k \in 0 .. w - 1 PROVE At(h, 0 + k) = At(n, 0 + k)
      <4>1. 0 + k = k
        OBVIOUS
      <4>2. At(h, 0 + k) = At(n, k)
        BY <1>1, <2>3 DEF OccursAt
      <4>3. QED
        BY <4>1, <4>2
    <3>2. QED
      BY <3>1
  <2>4. QED
    BY <2>2, <2>3
<1>5. w - 1 \in C <=> OccursAt(h, n, 0)
  <2>1. (w - 1) - w + 1 = 0 /\ w - 1 \in w - 1 .. w
    BY <1>1
  <2> HIDE DEF word, w
  <2>2. QED
    BY <1>4, <2>1
<1> HIDE DEF C, last, r
<1>6. /\ last \in w - 1 .. w /\ (last = w \/ last \in C)
      /\ \A j \in w - 1 .. last - 1 : j \notin C
  BY <1>3 DEF StopsAt
<1>7. ASSUME NEW i \in Nat, OccursAt(h, n, i) PROVE i = 0
  <2>1. i + Len(n) <= Len(h)
    BY <1>7, <1>1, OccurrencesAre
  <2>2. QED
    BY <1>1, <2>1
<1> HIDE DEF w
<1>8. CASE OccursAt(h, n, 0)
  <2>1. last = w - 1
    BY <1>1, <1>5, <1>6, <1>8
  <2>2. r = 0
    <3>1. AtOrNone(last, w) = w - 1
      <4>1. last < w
        BY <1>1, <2>1
      <4>2. QED
        BY <2>1, <4>1 DEF AtOrNone
    <3>2. Moved(w - 1, 1 - w) = 0
      BY <1>1 DEF Moved, None, Beyond
    <3>3. QED
      BY <1>2, <3>1, <3>2
  <2>3. 0 \in Nat /\ 0 # None /\ 0 .. 0 - 1 = {}
    BY DEF None
  <2>4. ReportsFirst(h, n, 0)
    BY <1>8, <2>3 DEF ReportsFirst, Reports
  <2>5. QED
    BY <2>2, <2>4 DEF r, w
<1>9. CASE ~OccursAt(h, n, 0)
  <2>1. last = w
    BY <1>1, <1>5, <1>6, <1>9
  <2>2. r = None
    <3>1. AtOrNone(last, w) = None
      BY <1>1, <2>1 DEF AtOrNone
    <3>2. QED
      BY <1>2, <3>1 DEF Moved
  <2>3. ReportsFirst(h, n, None)
    BY <1>7, <1>9 DEF ReportsFirst, Reports
  <2>4. QED
    BY <2>2, <2>3 DEF r, w
<1>10. QED
  BY <1>8, <1>9

(* The naive search: at a place, the first i characters are there. *)
NaiveStates == [at : Nat, i : Nat]
NaiveKnows(h, n, s) ==
    /\ s \in NaiveStates /\ s.i < Len(n) /\ InPlace(h, n, s.at, s.i)
    /\ \A k \in 0 .. s.at - 1 : ~OccursAt(h, n, k)
NaiveFinds(h, n, r) ==
    IF r = Beyond THEN \A i \in Nat : ~OccursAt(h, n, i) ELSE ReportsFirst(h, n, r)

LEMMA NaiveStepKnows ==
    ASSUME NEW n \in Seq(Nat \ {0}), NEW h \in Seq(Nat \ {0}), NEW s, NaiveKnows(h, n, s)
    PROVE  /\ At(n, s.i) # At(h, s.at + s.i) => NaiveKnows(h, n, [at |-> s.at + 1, i |-> 0])
           /\ At(n, s.i) = At(h, s.at + s.i) /\ s.i + 1 # Len(n) =>
                  NaiveKnows(h, n, [at |-> s.at, i |-> s.i + 1])
           /\ At(n, s.i) = At(h, s.at + s.i) /\ s.i + 1 = Len(n) => OccursAt(h, n, s.at)
           /\ \A k \in Nat : OccursAt(h, n, k) => k >= s.at
<1> DEFINE at == s.at
           i == s.i
<1>1. /\ at \in Nat /\ i \in Nat /\ i < Len(n)
      /\ \A j \in 0 .. i - 1 : At(h, at + j) = At(n, j)
      /\ \A k \in 0 .. at - 1 : ~OccursAt(h, n, k)
  BY DEF NaiveKnows, NaiveStates, InPlace
<1> HIDE DEF at, i
<1>2. ASSUME At(n, i) # At(h, at + i)
      PROVE  NaiveKnows(h, n, [at |-> at + 1, i |-> 0])
  <2> DEFINE t == [at |-> at + 1, i |-> 0]
  <2>1. t \in NaiveStates /\ t.i = 0 /\ t.at = at + 1
    BY <1>1 DEF NaiveStates
  <2>2. ~OccursAt(h, n, at)
    <3>1. i \in 0 .. Len(n) - 1
      BY <1>1
    <3>2. QED
      BY <1>2, <3>1 DEF OccursAt
  <2>3. \A k \in 0 .. (at + 1) - 1 : ~OccursAt(h, n, k)
    <3> SUFFICES ASSUME NEW k \in 0 .. (at + 1) - 1 PROVE ~OccursAt(h, n, k)
      OBVIOUS
    <3>1. k = at \/ k \in 0 .. at - 1
      BY <1>1
    <3>2. QED
      BY <1>1, <2>2, <3>1
  <2> HIDE DEF t
  <2>4. InPlace(h, n, t.at, t.i) /\ t.i < Len(n)
    BY <1>1, <2>1 DEF InPlace
  <2>5. NaiveKnows(h, n, t)
    BY <2>1, <2>3, <2>4 DEF NaiveKnows
  <2>6. QED
    BY <2>5 DEF t
<1>3. ASSUME At(n, i) = At(h, at + i)
      PROVE  InPlace(h, n, at, i + 1)
  <2> SUFFICES ASSUME NEW j \in 0 .. (i + 1) - 1 PROVE At(h, at + j) = At(n, j)
    BY DEF InPlace
  <2>1. j = i \/ j \in 0 .. i - 1
    BY <1>1
  <2>2. QED
    BY <1>1, <1>3, <2>1
<1>4. ASSUME At(n, i) = At(h, at + i), i + 1 # Len(n)
      PROVE  NaiveKnows(h, n, [at |-> at, i |-> i + 1])
  <2> DEFINE t == [at |-> at, i |-> i + 1]
  <2>1. t \in NaiveStates /\ t.i = i + 1 /\ t.at = at
    BY <1>1 DEF NaiveStates
  <2> HIDE DEF t
  <2>2. InPlace(h, n, t.at, t.i) /\ t.i < Len(n)
    BY <1>1, <1>3, <1>4, <2>1
  <2>3. NaiveKnows(h, n, t)
    BY <1>1, <2>1, <2>2 DEF NaiveKnows
  <2>4. QED
    BY <2>3 DEF t
<1>5. ASSUME At(n, i) = At(h, at + i), i + 1 = Len(n) PROVE OccursAt(h, n, at)
  BY <1>3, <1>5 DEF InPlace, OccursAt
<1>6. ASSUME NEW k \in Nat, OccursAt(h, n, k) PROVE k >= at
  <2> SUFFICES ASSUME ~(k >= at) PROVE FALSE
    OBVIOUS
  <2>1. k \in 0 .. at - 1
    BY <1>1
  <2>2. QED
    BY <1>1, <1>6, <2>1
<1>7. QED
  BY <1>2, <1>4, <1>5, <1>6 DEF at, i

LEMMA NaiveSearchFinds ==
    ASSUME NEW n \in Seq(Nat \ {0}), NEW h \in Seq(Nat \ {0}), Len(n) >= 1
    PROVE  NaiveFinds(h, n, NaiveWcsStr(h, n))
<1> DEFINE S == NaiveStates
           L == Len(n)
           M == Len(h)
           over(s) == s.at + s.i > M
           differ(s) == At(n, s.i) # At(h, s.at + s.i)
           done(s) == s.i + 1 = L
           ends(s) == s.at + s.i + 1 = M
           right(s) == [at |-> s.at + 1, i |-> 0]
           on(s) == [at |-> s.at, i |-> s.i + 1]
           stop == [s \in S |-> over(s) \/ (~differ(s) /\ (done(s) \/ ends(s)))]
           next == [s \in S |-> IF differ(s) THEN right(s) ELSE on(s)]
           result == [s \in S |-> IF over(s) THEN Beyond ELSE IF done(s) THEN s.at ELSE None]
           m == [s \in S |-> IF stop[s] THEN 0 ELSE (M + 2) * ((M + 1) - s.at) - s.i]
           is(f) == f = [s \in S |-> IF over(s) THEN Beyond
                                     ELSE IF differ(s) THEN f[right(s)]
                                     ELSE IF done(s) THEN s.at
                                     ELSE IF ends(s) THEN None
                                     ELSE f[on(s)]]
           first == [at |-> 0, i |-> 0]
<1>1. L \in Nat /\ L >= 1 /\ M \in Nat
  OBVIOUS
<1>2. ASSUME NEW s \in S
      PROVE  /\ s.at \in Nat /\ s.i \in Nat
             /\ right(s) \in S /\ right(s).at = s.at + 1 /\ right(s).i = 0
             /\ on(s) \in S /\ on(s).at = s.at /\ on(s).i = s.i + 1
  BY DEF NaiveStates
<1>3. NaiveWcsStr(h, n) = (CHOOSE f : is(f))[first]
  BY Zenon DEF NaiveWcsStr, NaiveStates
<1> HIDE DEF S, right, on, differ, L, M
<1>4. LoopOf(S, stop, next, result, m)
  <2>1. stop \in [S -> BOOLEAN] /\ DOMAIN result = S
    <3>1. ASSUME NEW s \in S PROVE (over(s) \/ (~differ(s) /\ (done(s) \/ ends(s)))) \in BOOLEAN
      OBVIOUS
    <3>2. QED
      BY <3>1
  <2>2. ASSUME NEW at \in Nat, NEW i \in Nat, at + i <= M
        PROVE  /\ (M + 2) * ((M + 1) - at) - i \in Nat
               /\ (M + 2) * ((M + 1) - (at + 1)) - 0 < (M + 2) * ((M + 1) - at) - i
               /\ (M + 2) * ((M + 1) - at) - (i + 1) < (M + 2) * ((M + 1) - at) - i
               /\ (M + 2) * ((M + 1) - at) - i > 0
    <3> DEFINE w == M + 2
               d == M - at
               e == d + 1
               u == w * d
               v == w * e
    <3>1. w \in Nat /\ d \in Nat /\ u \in Nat /\ v = u + w
      <4>1. w \in Nat /\ d \in Nat
        BY <1>1, <2>2
      <4> HIDE DEF w, d
      <4>2. w * d \in Nat /\ w * (d + 1) = w * d + w
        BY <4>1
      <4>3. QED
        BY <4>1, <4>2
    <3>2. (M + 1) - at = e /\ (M + 1) - (at + 1) = d
      BY <1>1, <2>2
    <3>3. i < w
      BY <1>1, <2>2
    <3> HIDE DEF u, v
    <3>4. v - i \in Nat /\ u - 0 < v - i /\ v - (i + 1) < v - i /\ v - i > 0
      BY <3>1, <3>3, SMTT(40)
    <3> HIDE DEF w, d, e
    <3>5. QED
      BY <3>2, <3>4 DEF u, v, w
  <2>3. ASSUME NEW s \in S, ~stop[s] PROVE s.at + s.i <= M
    <3> DEFINE at == s.at
               i == s.i
    <3>1. ~(at + i > M)
      BY <2>3
    <3>2. at \in Nat /\ i \in Nat
      BY <1>2
    <3> HIDE DEF at, i
    <3>3. at + i <= M
      BY <1>1, <3>1, <3>2
    <3>4. QED
      BY <3>3 DEF at, i
  <2>4. m \in [S -> Nat]
    <3>1. ASSUME NEW s \in S, ~stop[s] PROVE (M + 2) * ((M + 1) - s.at) - s.i \in Nat
      <4>1. s.at + s.i <= M
        BY <1>1, <2>3, <3>1
      <4>2. s.at \in Nat /\ s.i \in Nat
        BY <1>2
      <4> DEFINE at == s.at
                 i == s.i
      <4> HIDE DEF at, i, stop
      <4>3. (M + 2) * ((M + 1) - at) - i \in Nat
        BY <2>2, <4>1, <4>2 DEF at, i
      <4>4. QED
        BY <4>3 DEF at, i
    <3> HIDE DEF stop
    <3>2. QED
      BY <3>1
  <2>5. ASSUME NEW s \in S, ~stop[s] PROVE next[s] \in S /\ m[next[s]] < m[s]
    <3> DEFINE at == s.at
               i == s.i
               t == next[s]
               w == M + 2
    <3>1. at \in Nat /\ i \in Nat /\ at + i <= M /\ t = IF differ(s) THEN right(s) ELSE on(s)
      <4>1. at \in Nat /\ i \in Nat
        BY <1>2
      <4>2. at + i <= M
        BY <2>5, <2>3
      <4>3. t = IF differ(s) THEN right(s) ELSE on(s)
        OBVIOUS
      <4>4. QED
        BY <4>1, <4>2, <4>3
    <3>2. t \in S /\ ((t.at = at + 1 /\ t.i = 0) \/ (t.at = at /\ t.i = i + 1))
      BY <1>2, <3>1
    <3>3. m[s] = w * ((M + 1) - at) - i
      BY <2>5
    <3>4. m[t] = IF stop[t] THEN 0 ELSE w * ((M + 1) - t.at) - t.i
      <4> HIDE DEF t, stop
      <4>1. QED
        BY <3>2
    <3> HIDE DEF m, stop, t, at, i, next
    <3>5. /\ w * ((M + 1) - (at + 1)) - 0 < w * ((M + 1) - at) - i
          /\ w * ((M + 1) - at) - (i + 1) < w * ((M + 1) - at) - i
          /\ w * ((M + 1) - at) - i > 0
      BY <2>2, <3>1
    <3>6. m[t] < m[s]
      <4>1. CASE stop[t]
        BY <3>3, <3>4, <3>5, <4>1
      <4>2. CASE ~stop[t] /\ t.at = at + 1 /\ t.i = 0
        BY <3>3, <3>4, <3>5, <4>2
      <4>3. CASE ~stop[t] /\ t.at = at /\ t.i = i + 1
        BY <3>3, <3>4, <3>5, <4>3
      <4>4. QED
        BY <3>2, <4>1, <4>2, <4>3
    <3>7. QED
      BY <3>2, <3>6 DEF t
  <2> HIDE DEF stop, next, result, m
  <2>6. QED
    BY <2>1, <2>4, <2>5 DEF LoopOf
<1>5. ASSUME NEW f PROVE Loops(f, S, stop, next, result) <=> is(f)
  <2> DEFINE body(s) == IF over(s) THEN Beyond
                        ELSE IF differ(s) THEN f[right(s)]
                        ELSE IF done(s) THEN s.at
                        ELSE IF ends(s) THEN None
                        ELSE f[on(s)]
  <2>1. ASSUME NEW s \in S PROVE (IF stop[s] THEN result[s] ELSE f[next[s]]) = body(s)
    <3> HIDE DEF over, done, ends
    <3>1. QED
      OBVIOUS
  <2> HIDE DEF stop, next, result, body
  <2>2. [s \in S |-> IF stop[s] THEN result[s] ELSE f[next[s]]] = [s \in S |-> body(s)]
    BY <2>1, Zenon
  <2>3. Loops(f, S, stop, next, result) <=> f = [s \in S |-> body(s)]
    BY <2>2, Zenon DEF Loops
  <2>4. QED
    BY <2>3, Zenon DEF body
<1> DEFINE G == CHOOSE f : is(f)
<1>6. is(G)
  <2>1. \E f : Loops(f, S, stop, next, result)
    <3> HIDE DEF stop, next, result, m
    <3>1. QED
      BY <1>4, LoopEnds
  <2> HIDE DEF stop, next, result, is
  <2>2. QED
    BY <1>5, <2>1, Zenon
<1>7. Loops(G, S, stop, next, result)
  <2> HIDE DEF G, is, stop, next, result
  <2>1. QED
    BY <1>5, <1>6
<1> DEFINE I == {s \in S : NaiveKnows(h, n, s)}
<1>8. first \in I
  <2>1. first \in S /\ first.at = 0 /\ first.i = 0
    BY DEF S, NaiveStates
  <2> HIDE DEF first
  <2>2. NaiveKnows(h, n, first)
    BY <1>1, <2>1 DEF NaiveKnows, S, L, InPlace
  <2>3. QED
    BY <2>1, <2>2
<1>9. ASSUME NEW s \in I
      PROVE  /\ differ(s) => right(s) \in I
             /\ ~differ(s) /\ ~done(s) => on(s) \in I
             /\ ~differ(s) /\ done(s) => OccursAt(h, n, s.at)
             /\ \A k \in Nat : OccursAt(h, n, k) => k >= s.at
  <2>1. NaiveKnows(h, n, s) /\ s \in S
    OBVIOUS
  <2>2. /\ differ(s) => NaiveKnows(h, n, right(s))
        /\ ~differ(s) /\ ~done(s) => NaiveKnows(h, n, on(s))
        /\ ~differ(s) /\ done(s) => OccursAt(h, n, s.at)
        /\ \A k \in Nat : OccursAt(h, n, k) => k >= s.at
    BY <2>1, NaiveStepKnows DEF differ, right, on, L
  <2>3. QED
    BY <1>2, <2>1, <2>2
<1>10. PICK s \in I : stop[s] /\ G[first] = result[s]
  <2>1. I \in SUBSET S
    OBVIOUS
  <2>2. ASSUME NEW s \in I, ~stop[s] PROVE next[s] \in I
    <3>1. s \in S
      OBVIOUS
    <3>2. differ(s) \/ ~done(s)
      BY <2>2, <3>1
    <3>3. next[s] = IF differ(s) THEN right(s) ELSE on(s)
      BY <3>1
    <3>4. QED
      BY <1>9, <3>2, <3>3
  <2> HIDE DEF I, G, first, stop, next, result, m
  <2>3. QED
    BY <1>4, <1>7, <1>8, <2>1, <2>2, LoopKeeps
<1> DEFINE r == NaiveWcsStr(h, n)
<1>11. r = result[s]
  <2> HIDE DEF result, is, first
  <2>1. QED
    BY <1>3, <1>10
<1>12. /\ s \in S /\ NaiveKnows(h, n, s)
       /\ over(s) \/ (~differ(s) /\ (done(s) \/ ends(s)))
       /\ result[s] = IF over(s) THEN Beyond ELSE IF done(s) THEN s.at ELSE None
  <2> HIDE DEF G, first
  <2>1. QED
    BY <1>10
<1> HIDE DEF r, result, G
<1>13. s.at \in Nat /\ s.i \in Nat /\ s.i < L
  BY <1>2, <1>12 DEF NaiveKnows, L
<1>14. ASSUME NEW k \in Nat, OccursAt(h, n, k) PROVE k >= s.at /\ k + L <= M
  <2>1. k >= s.at
    BY <1>9, <1>10, <1>14
  <2>2. k + L <= M
    BY <1>1, <1>14, OccurrencesAre DEF L, M
  <2>3. QED
    BY <2>1, <2>2
<1>15. CASE over(s)
  <2>1. r = Beyond
    BY <1>11, <1>12, <1>15
  <2>2. ASSUME NEW k \in Nat, OccursAt(h, n, k) PROVE FALSE
    <3>1. k >= s.at /\ k + L <= M
      BY <1>14, <2>2
    <3>2. QED
      BY <1>1, <1>13, <1>15, <3>1
  <2>3. QED
    BY <2>1, <2>2 DEF NaiveFinds, r
<1>16. CASE ~over(s) /\ done(s)
  <2>1. r = s.at /\ r \in Nat /\ r # None /\ r # Beyond
    BY <1>11, <1>12, <1>13, <1>16 DEF None, Beyond
  <2>2. OccursAt(h, n, r)
    BY <1>9, <1>10, <1>12, <1>16, <2>1
  <2>3. \A k \in 0 .. r - 1 : ~OccursAt(h, n, k)
    BY <1>12, <2>1 DEF NaiveKnows
  <2>4. ReportsFirst(h, n, r)
    BY <2>1, <2>2, <2>3 DEF ReportsFirst, Reports
  <2>5. QED
    BY <2>1, <2>4 DEF NaiveFinds, r
<1>17. CASE ~over(s) /\ ~done(s)
  <2>1. r = None /\ r # Beyond
    BY <1>11, <1>12, <1>17 DEF None, Beyond
  <2>2. s.at + s.i + 1 = M
    BY <1>12, <1>17
  <2>3. ASSUME NEW k \in Nat, OccursAt(h, n, k) PROVE FALSE
    <3>1. k >= s.at /\ k + L <= M
      BY <1>14, <2>3
    <3>2. s.i + 1 < L
      BY <1>1, <1>13, <1>17
    <3>3. QED
      BY <1>1, <1>13, <2>2, <3>1, <3>2
  <2>4. ReportsFirst(h, n, r)
    BY <2>1, <2>3 DEF ReportsFirst, Reports
  <2>5. QED
    BY <2>1, <2>4 DEF NaiveFinds, r
<1>18. QED
  BY <1>15, <1>16, <1>17

-----------------------------------------------------------------------------
(* strstr and wcsstr. *)
LEMMA NothingIsFirst ==
    ASSUME NEW h \in Seq(Nat \ {0})
    PROVE  0 \in Occurrences(h, <<>>) /\ FirstOf(Occurrences(h, <<>>)) = 0
<1> DEFINE O == Occurrences(h, <<>>)
<1>1. O \in SUBSET Nat
  BY DEF Occurrences
<1>2. 0 \in O
  <2>1. SubSeq(h, 0 + 1, 0 + Len(<<>>)) = <<>>
    OBVIOUS
  <2>2. 0 \in 0 .. Len(h) - Len(<<>>)
    OBVIOUS
  <2>3. QED
    BY <2>1, <2>2 DEF Occurrences
<1> HIDE DEF O
<1>3. Min(O) = 0
  <2>1. O \in SUBSET Int /\ \A j \in O : 0 <= j
    BY <1>1
  <2>2. QED
    BY <1>2, <2>1, LeastIs
<1>4. FirstOf(O) = 0
  BY <1>2, <1>3 DEF FirstOf
<1>5. QED
  BY <1>2, <1>4 DEF O

LEMMA FirstCharacter ==
    ASSUME NEW n \in Seq(Nat \ {0}), NEW h \in Seq(Nat \ {0}), Len(n) >= 1
    PROVE  LET first == FirstOf({j \in 0 .. Len(h) - 1 : At(h, j) = At(n, 0)})
           IN  /\ StrChr(h, n[1]) = first /\ WcsChr(h, n[1]) = first
               /\ FirstOf({i \in 0 .. Len(h) - 1 : n # <<>> /\ h[i + 1] = n[1]}) = first
<1> DEFINE T == {j \in 0 .. Len(h) - 1 : At(h, j) = At(n, 0)}
<1>1. At(n, 0) = n[1] /\ n[1] \in Nat \ {0} /\ n[1] # 0
  <2>1. 0 < Len(n) /\ 0 + 1 = 1 /\ 1 \in 1 .. Len(n)
    OBVIOUS
  <2>2. n[1] \in Nat \ {0}
    BY <2>1
  <2>3. QED
    BY <2>1, <2>2 DEF At
<1>2. StrLen(h) = Len(h)
  <2>1. StrLen(h) \in Nat /\ StrLen(h) \in 0 .. Len(h) /\ At(h, StrLen(h)) = 0
    BY StrLenFinds
  <2>2. StrLen(h) >= Len(h)
    BY <2>1, Characters
  <2>3. QED
    BY <2>1, <2>2
<1>3. T = {j \in 0 .. StrLen(h) - 1 : At(h, j) = n[1]}
  BY <1>1, <1>2
<1>4. StrChr(h, n[1]) = FirstOf(T)
  <2>1. StrChr(h, n[1]) = MemChr(h, n[1], StrLen(h), 0)
    BY Zenon DEF StrChr
  <2>2. StrLen(h) \in Nat /\ 0 \in Nat
    BY <1>2
  <2> HIDE DEF T
  <2>3. QED
    BY <1>3, <2>1, <2>2, MemChrFinds
<1>5. WcsChr(h, n[1]) = FirstOf(T)
  <2> HIDE DEF T
  <2>1. QED
    BY <1>1, <1>3, WcsChrFinds
<1>6. {i \in 0 .. Len(h) - 1 : n # <<>> /\ h[i + 1] = n[1]} = T
  <2>1. n # <<>>
    OBVIOUS
  <2>2. \A j \in 0 .. Len(h) - 1 : At(h, j) = h[j + 1]
    BY DEF At
  <2>3. QED
    BY <1>1, <2>1, <2>2
<1> HIDE DEF T
<1>7. FirstOf({i \in 0 .. Len(h) - 1 : n # <<>> /\ h[i + 1] = n[1]}) = FirstOf(T)
  BY <1>6
<1>8. QED
  BY <1>4, <1>5, <1>7 DEF T

LEMMA NotOverlong ==
    ASSUME NEW n \in Seq(Nat \ {0}), Len(n) >= 1, ~Overlong(n)
    PROVE  Factors(n).mem0 <= Factors(n).ms + 1
<1> DEFINE f == Factors(n)
<1>1. n # <<>>
  OBVIOUS
<1>2. ~(f.mem0 > f.ms + 1)
  BY <1>1, Zenon DEF Overlong
<1>3. f.mem0 \in Nat /\ f.ms \in Int
  BY FactorsAre DEF FactorsKnow
<1> HIDE DEF f
<1>4. f.mem0 <= f.ms + 1
  BY <1>2, <1>3
<1>5. QED
  BY <1>4 DEF f

LEMMA StrStrIs ==
    ASSUME NEW n \in Seq(Nat \ {0}), NEW h \in Seq(Nat \ {0})
    PROVE  LET left == Len(h) - FirstOf({i \in 0 .. Len(h) - 1 : n # <<>> /\ h[i + 1] = n[1]})
           IN  Len(n) <= 1 \/ left \in {1, Len(n)} \/ left >= 5 =>
                   /\ StrStr(h, n) \in Occurrences(h, n) \cup {None}
                   /\ StrStr(h, n) = FirstOf(Occurrences(h, n)) \/ Overlong(n)
<1> DEFINE first == FirstOf({j \in 0 .. Len(h) - 1 : At(h, j) = At(n, 0)})
           left == Len(h) - FirstOf({i \in 0 .. Len(h) - 1 : n # <<>> /\ h[i + 1] = n[1]})
           t == From(h, first)
           r == StrStr(h, n)
<1>1. CASE n = <<>>
  <2>1. r = 0
    BY <1>1 DEF StrStr
  <2>2. QED
    BY <1>1, <2>1, NothingIsFirst
<1>2. CASE n # <<>>
  <2>1. Len(n) \in Nat /\ Len(n) >= 1 /\ Len(h) \in Nat
    BY <1>2
  <2>2. StrChr(h, n[1]) = first /\ left = Len(h) - first
    BY <2>1, FirstCharacter
  <2>3. r = CASE n = <<>> -> 0
              [] n # <<>> /\ (first = None \/ Len(n) = 1) -> first
              [] OTHER -> CASE Len(t) = 1 -> None
                            [] Len(t) \in 2 .. 4 -> Moved(ShortStrStr(t, n, Len(t)), first)
                            [] OTHER -> Moved(TwoWay(t, n, TRUE), first)
    BY <2>2, Zenon DEF StrStr
  <2>4. /\ first = None => ReportsFirst(h, n, None)
        /\ first # None => BeginsAt(h, n, first)
        /\ Len(n) = 1 => ReportsFirst(h, n, first)
    <3> HIDE DEF first
    <3>1. QED
      BY <2>1, FirstLetter DEF first
  <2> HIDE DEF first, left, t, r
  <2>5. ASSUME first # None
        PROVE  t \in Seq(Nat \ {0}) /\ Len(t) = left /\ left \in Nat
    <3>1. t \in Seq(Nat \ {0}) /\ Len(t) = left
      BY <2>1, <2>2, <2>4, <2>5, RestOfSearch DEF t
    <3>2. Len(t) \in Nat
      BY <3>1
    <3>3. QED
      BY <3>1, <3>2, Zenon
  <2>12. ASSUME first # None, NEW x
        PROVE  /\ Reports(t, n, x) => Reports(h, n, Moved(x, first))
               /\ ReportsFirst(t, n, x) => ReportsFirst(h, n, Moved(x, first))
    BY <2>1, <2>4, <2>12, RestOfSearch DEF t
  <2>6. CASE first = None \/ Len(n) = 1
    <3>1. r = first
      BY <1>2, <2>3, <2>6
    <3>2. ReportsFirst(h, n, r) /\ Reports(h, n, r)
      BY <2>4, <2>6, <3>1 DEF ReportsFirst
    <3>3. QED
      BY <2>1, <3>2, ReportsOccurrence DEF r, left
  <2>7. CASE first # None /\ Len(n) # 1 /\ left = 1
    <3>1. r = None
      <4>1. Len(t) = 1
        BY <2>5, <2>7
      <4>2. QED
        BY <1>2, <2>3, <2>7, <4>1
    <3>2. ReportsFirst(t, n, None)
      <4>1. ASSUME NEW i \in Nat, OccursAt(t, n, i) PROVE FALSE
        <5>1. Len(t) = 1 /\ t \in Seq(Nat \ {0})
          BY <2>5, <2>7
        <5>2. i + Len(n) <= Len(t)
          BY <2>1, <4>1, <5>1, OccurrencesAre
        <5>3. Len(n) >= 2
          <6> DEFINE L == Len(n)
          <6>1. L \in Nat /\ L >= 1 /\ L # 1
            BY <2>1, <2>7, Zenon
          <6> HIDE DEF L
          <6>2. L >= 2
            BY <6>1
          <6>3. QED
            BY <6>2 DEF L
        <5>4. QED
          BY <2>1, <5>1, <5>2, <5>3
      <4>2. QED
        BY <4>1 DEF ReportsFirst, Reports
    <3>3. Moved(None, first) = None
      BY DEF Moved
    <3>4. ReportsFirst(h, n, r) /\ Reports(h, n, r)
      <4>1. ReportsFirst(h, n, Moved(None, first))
        BY <2>12, <2>7, <3>2
      <4>2. QED
        BY <3>1, <3>3, <4>1 DEF ReportsFirst
    <3>5. QED
      BY <2>1, <3>4, ReportsOccurrence DEF r, left
  <2>8. CASE first # None /\ Len(n) # 1 /\ left \in 2 .. 4 /\ left = Len(n)
    <3>1. r = Moved(ShortStrStr(t, n, Len(t)), first)
      <4>1. Len(t) # 1 /\ Len(t) \in 2 .. 4
        BY <2>5, <2>8
      <4>2. QED
        BY <1>2, <2>3, <2>8, <4>1
    <3>2. ReportsFirst(t, n, ShortStrStr(t, n, Len(t)))
      <4>1. t \in Seq(Nat \ {0}) /\ Len(t) = Len(n) /\ Len(n) >= 2
        BY <2>5, <2>8
      <4>2. QED
        BY <4>1, ShortFinds
    <3>3. ReportsFirst(h, n, r) /\ Reports(h, n, r)
      <4>1. ReportsFirst(h, n, r)
        BY <2>12, <2>8, <3>1, <3>2
      <4>2. QED
        BY <4>1 DEF ReportsFirst
    <3>4. QED
      BY <2>1, <3>3, ReportsOccurrence DEF r, left
  <2>9. CASE first # None /\ Len(n) # 1 /\ left >= 5
    <3>1. r = Moved(TwoWay(t, n, TRUE), first)
      <4>1. Len(t) # 1 /\ ~(Len(t) \in 2 .. 4)
        <5>1. Len(t) = left /\ left \in Nat /\ left >= 5
          BY <2>5, <2>9, Zenon
        <5>2. left # 1 /\ ~(left \in 2 .. 4)
          BY <5>1
        <5>3. QED
          BY <5>1, <5>2, Zenon
      <4>2. QED
        BY <1>2, <2>3, <2>9, <4>1
    <3>2. /\ Reports(t, n, TwoWay(t, n, TRUE))
          /\ Factors(n).mem0 <= Factors(n).ms + 1 => ReportsFirst(t, n, TwoWay(t, n, TRUE))
      BY <2>1, <2>5, <2>9, TwoWayFinds
    <3>3. Reports(h, n, r) /\ (~Overlong(n) => ReportsFirst(h, n, r))
      <4>1. Reports(h, n, r)
        BY <2>12, <2>9, <3>1, <3>2
      <4>2. ASSUME ~Overlong(n) PROVE ReportsFirst(h, n, r)
        <5>1. Factors(n).mem0 <= Factors(n).ms + 1
          BY <1>2, <2>1, <4>2, NotOverlong
        <5>2. QED
          BY <2>12, <2>9, <3>1, <3>2, <5>1
      <4>3. QED
        BY <4>1, <4>2
    <3>4. QED
      BY <2>1, <3>3, ReportsOccurrence DEF r, left
  <2>10. ASSUME first # None, Len(n) # 1, Len(n) <= 1 \/ left \in {1, Len(n)} \/ left >= 5
         PROVE  left = 1 \/ (left \in 2 .. 4 /\ left = Len(n)) \/ left >= 5
    <3> DEFINE L == Len(n)
    <3>1. L \in Nat /\ L >= 1 /\ L # 1 /\ left \in Nat
      BY <2>1, <2>5, <2>10
    <3>2. L <= 1 \/ left = 1 \/ left = L \/ left >= 5
      BY <2>10
    <3> HIDE DEF L
    <3>3. left = 1 \/ (left \in 2 .. 4 /\ left = L) \/ left >= 5
      BY <3>1, <3>2
    <3>4. QED
      BY <3>3 DEF L
  <2>11. QED
    BY <2>6, <2>7, <2>8, <2>9, <2>10 DEF left
<1>3. QED
  BY <1>1, <1>2

LEMMA WcsStrIs ==
    ASSUME NEW n \in Seq(Nat \ {0}), NEW h \in Seq(Nat \ {0})
    PROVE  LET found == Occurrences(h, n)
               r == WcsStr(h, n)
           IN  /\ r \in found \cup {None, Beyond}
               /\ r = FirstOf(found) \/ (Len(n) > 4 /\ Overlong(n))
                     \/ (r = Beyond /\ found = {} /\ Len(n) \in 2 .. 4)
<1> DEFINE first == FirstOf({j \in 0 .. Len(h) - 1 : At(h, j) = At(n, 0)})
           t == From(h, first)
           found == Occurrences(h, n)
           r == WcsStr(h, n)
<1>1. CASE n = <<>>
  <2>1. r = 0
    BY <1>1 DEF WcsStr
  <2>2. QED
    BY <1>1, <2>1, NothingIsFirst
<1>2. CASE n # <<>>
  <2> DEFINE L == Len(n)
  <2>1. L \in Nat /\ L >= 1 /\ Len(h) \in Nat /\ Len(n) >= 1
    BY <1>2
  <2>2. WcsChr(h, n[1]) = first
    BY <2>1, FirstCharacter
  <2>3. r = CASE n = <<>> -> 0
              [] n # <<>> /\ h = <<>> -> None
              [] n # <<>> /\ h # <<>> /\ (first = None \/ Len(n) = 1) -> first
              [] OTHER -> CASE Len(t) = 1 -> None
                            [] Len(t) > 1 /\ Len(n) <= 4 -> Moved(NaiveWcsStr(t, n), first)
                            [] OTHER -> Moved(TwoWay(t, n, FALSE), first)
    BY <2>2, Zenon DEF WcsStr
  <2>4. /\ first = None => ReportsFirst(h, n, None)
        /\ first # None => BeginsAt(h, n, first)
        /\ Len(n) = 1 => ReportsFirst(h, n, first)
    <3> HIDE DEF first
    <3>1. QED
      BY <2>1, FirstLetter DEF first
  <2>5. h = <<>> => first = None
    <3>1. h = <<>> => {j \in 0 .. Len(h) - 1 : At(h, j) = At(n, 0)} = {}
      OBVIOUS
    <3>2. QED
      BY <3>1 DEF FirstOf
  <2> HIDE DEF first, t, r, found, L
  <2>6. ASSUME first # None
        PROVE  t \in Seq(Nat \ {0}) /\ Len(t) \in Nat /\ Len(t) >= 1
    <3>1. t \in Seq(Nat \ {0}) /\ Len(t) = Len(h) - first
      BY <2>1, <2>4, <2>6, RestOfSearch DEF t
    <3>2. first \in 0 .. Len(h) - 1
      BY <2>4, <2>6 DEF BeginsAt
    <3>3. QED
      BY <2>1, <3>1, <3>2
  <2>7. ASSUME first # None, NEW x
        PROVE  /\ Reports(t, n, x) => Reports(h, n, Moved(x, first))
               /\ ReportsFirst(t, n, x) => ReportsFirst(h, n, Moved(x, first))
    BY <2>1, <2>4, <2>7, RestOfSearch DEF t
  <2>8. /\ Reports(h, n, r) => r \in found \cup {None}
        /\ ReportsFirst(h, n, r) => r = FirstOf(found) /\ r \in found \cup {None}
    <3>1. ReportsFirst(h, n, r) => Reports(h, n, r)
      BY DEF ReportsFirst
    <3>2. QED
      BY <2>1, <3>1, ReportsOccurrence DEF found
  <2>9. CASE first = None \/ L = 1
    <3>1. r = first
      BY <1>2, <2>3, <2>5, <2>9 DEF L
    <3>2. ReportsFirst(h, n, r)
      BY <2>4, <2>9, <3>1 DEF L
    <3>3. QED
      BY <2>8, <3>2 DEF r, found
  <2>10. CASE first # None /\ L # 1 /\ Len(t) = 1
    <3>1. r = None
      BY <1>2, <2>3, <2>5, <2>10 DEF L
    <3>2. ReportsFirst(t, n, None)
      <4>1. ASSUME NEW i \in Nat, OccursAt(t, n, i) PROVE FALSE
        <5>1. t \in Seq(Nat \ {0}) /\ Len(t) = 1
          BY <2>6, <2>10
        <5>2. i + L <= Len(t)
          BY <2>1, <4>1, <5>1, OccurrencesAre DEF L
        <5>3. L >= 2
          BY <2>1, <2>10
        <5>4. QED
          BY <2>1, <5>1, <5>2, <5>3
      <4>2. QED
        BY <4>1 DEF ReportsFirst, Reports
    <3>3. Moved(None, first) = None
      BY DEF Moved
    <3>4. ReportsFirst(h, n, r)
      BY <2>7, <2>10, <3>1, <3>2, <3>3
    <3>5. QED
      BY <2>8, <3>4 DEF r, found
  <2>11. CASE first # None /\ L # 1 /\ Len(t) # 1 /\ L <= 4
    <3> DEFINE x == NaiveWcsStr(t, n)
    <3>1. r = Moved(x, first)
      <4>1. Len(t) > 1
        <5> DEFINE M == Len(t)
        <5>1. M \in Nat /\ M >= 1 /\ M # 1
          BY <2>6, <2>11, Zenon
        <5> HIDE DEF M
        <5>2. M > 1
          BY <5>1
        <5>3. QED
          BY <5>2 DEF M
      <4>2. QED
        BY <1>2, <2>3, <2>5, <2>11, <4>1 DEF L
    <3>2. NaiveFinds(t, n, x)
      <4>1. t \in Seq(Nat \ {0})
        BY <2>6, <2>11
      <4>2. QED
        BY <2>1, <4>1, NaiveSearchFinds
    <3> HIDE DEF x
    <3>3. CASE x # Beyond
      <4>1. ReportsFirst(h, n, r)
        BY <2>7, <2>11, <3>1, <3>2, <3>3 DEF NaiveFinds
      <4>2. QED
        BY <2>8, <4>1 DEF r, found
    <3>4. CASE x = Beyond
      <4>1. r = Beyond
        BY <3>1, <3>4 DEF Moved
      <4>2. ReportsFirst(t, n, None)
        BY <3>2, <3>4 DEF NaiveFinds, ReportsFirst, Reports
      <4>3. ReportsFirst(h, n, None)
        <5>1. Moved(None, first) = None
          BY DEF Moved
        <5>2. QED
          BY <2>7, <2>11, <4>2, <5>1
      <4>4. found = {}
        <5>1. \A i \in Nat : ~OccursAt(h, n, i)
          BY <4>3 DEF ReportsFirst
        <5>2. \A i \in Nat : i \notin Occurrences(h, n)
          BY <2>1, <5>1, OccurrencesAre
        <5>3. Occurrences(h, n) \in SUBSET Nat
          BY DEF Occurrences
        <5>4. QED
          BY <5>2, <5>3 DEF found
      <4>5. Len(n) \in 2 .. 4
        <5>1. L \in 2 .. 4
          BY <2>1, <2>11
        <5>2. QED
          BY <5>1 DEF L
      <4>6. QED
        BY <4>1, <4>4, <4>5 DEF r, found
    <3>5. QED
      BY <3>3, <3>4
  <2>12. CASE first # None /\ L # 1 /\ Len(t) # 1 /\ ~(L <= 4)
    <3>1. r = Moved(TwoWay(t, n, FALSE), first)
      BY <1>2, <2>3, <2>5, <2>12 DEF L
    <3>2. /\ Reports(t, n, TwoWay(t, n, FALSE))
          /\ Factors(n).mem0 <= Factors(n).ms + 1 => ReportsFirst(t, n, TwoWay(t, n, FALSE))
      BY <2>1, <2>6, <2>12, TwoWayFinds
    <3>3. Reports(h, n, r)
      BY <2>7, <2>12, <3>1, <3>2
    <3>4. ASSUME ~Overlong(n) PROVE ReportsFirst(h, n, r)
      BY <1>2, <2>1, <2>7, <2>12, <3>1, <3>2, <3>4, NotOverlong
    <3>5. Len(n) > 4
      <4>1. L > 4
        BY <2>1, <2>12
      <4>2. QED
        BY <4>1 DEF L
    <3>6. QED
      BY <2>8, <3>3, <3>4, <3>5 DEF r, found
  <2>13. QED
    BY <2>9, <2>10, <2>11, <2>12
<1>3. QED
  BY <1>1, <1>2

LEMMA SearchCalls ==
    ASSUME Next, call'.fn = "search"
    PROVE  \E h, n \in Seq(Nat \ {0}) :
               /\ call'.h = h /\ call'.n = n /\ call'.wide = WcsStr(h, n)
               /\ Ascii(h) /\ Ascii(n) => call'.narrow = StrStr(h, n)
<1>1. Search
  BY CallsOf
<1>2. PICK h \in Texts, n \in Keywords :
          \E any : call' = [fn |-> "search", h |-> h, n |-> n,
                             narrow |-> StrStrOr(h, n, any), wide |-> WcsStr(h, n)]
  BY <1>1, Zenon DEF Search, Call
<1>3. h \in Seq(Letters) /\ n \in Seq(Letters) /\ Letters \subseteq Nat \ {0}
  <2>1. MaxText \in Nat /\ MaxWord \in Nat /\ Letters \subseteq Nat \ {0}
    BY InputsAssumption
  <2>2. QED
    BY <2>1, BoundedIsSeq DEF Texts, Keywords
<1>4. h \in Seq(Nat \ {0}) /\ n \in Seq(Nat \ {0})
  BY <1>3, SeqOfMore, Zenon
<1>5. PICK any :
          /\ call'.h = h /\ call'.n = n
          /\ call'.narrow = StrStrOr(h, n, any) /\ call'.wide = WcsStr(h, n)
  BY <1>2
<1>6. Ascii(h) /\ Ascii(n) => call'.narrow = StrStr(h, n)
  BY <1>5, Zenon DEF StrStrOr
<1>7. QED
  BY <1>4, <1>5, <1>6, Zenon

LEMMA NextStrStr == Next => StrStrFinds'
<1> SUFFICES ASSUME Next, call'.fn = "search" PROVE StrStrFinds'
  BY DEF StrStrFinds, In
<1>1. PICK h, n \in Seq(Nat \ {0}) :
          /\ call'.h = h /\ call'.n = n /\ call'.wide = WcsStr(h, n)
          /\ Ascii(h) /\ Ascii(n) => call'.narrow = StrStr(h, n)
  BY SearchCalls, Zenon
<1>2. LET left == Len(h) - FirstOf({i \in 0 .. Len(h) - 1 : n # <<>> /\ h[i + 1] = n[1]})
      IN  Len(n) <= 1 \/ left \in {1, Len(n)} \/ left >= 5 =>
              /\ StrStr(h, n) \in Occurrences(h, n) \cup {None}
              /\ StrStr(h, n) = FirstOf(Occurrences(h, n)) \/ Overlong(n)
  BY StrStrIs, Zenon
<1>3. QED
  BY <1>1, <1>2, Zenon DEF StrStrFinds

LEMMA NextWcsStr == Next => WcsStrFinds'
<1> SUFFICES ASSUME Next, call'.fn = "search" PROVE WcsStrFinds'
  BY DEF WcsStrFinds, In
<1>1. PICK h, n \in Seq(Nat \ {0}) :
          /\ call'.h = h /\ call'.n = n /\ call'.wide = WcsStr(h, n)
          /\ Ascii(h) /\ Ascii(n) => call'.narrow = StrStr(h, n)
  BY SearchCalls, Zenon
<1>2. LET found == Occurrences(h, n)
          r == WcsStr(h, n)
      IN  /\ r \in found \cup {None, Beyond}
          /\ r = FirstOf(found) \/ (Len(n) > 4 /\ Overlong(n))
                \/ (r = Beyond /\ found = {} /\ Len(n) \in 2 .. 4)
  BY WcsStrIs, Zenon
<1>3. QED
  BY <1>1, <1>2, Zenon DEF WcsStrFinds

(* strstr answers with an occurrence or none, for every haystack and       *)
(* needle of ASCII characters, and with the first unless the needle is one *)
(* that the two-way search is not exact for, where the search that strstr  *)
(* picks suits the needle (string.cpp:77-206, 271-294): StrStrFinds. *)
THEOREM AlwaysStrStrFinds == Spec => []StrStrFinds
<1>1. Init => StrStrFinds
  BY DEF Init, StrStrFinds, In, Idle
<1>2. StrStrFinds /\ [Next]_call => StrStrFinds'
  <2>1. UNCHANGED call => (StrStrFinds => StrStrFinds')
    BY Zenon DEF StrStrFinds, In
  <2>2. QED
    BY <2>1, NextStrStr
<1>3. QED
  BY <1>1, <1>2, PTL DEF Spec

(* wcsstr answers with an occurrence, with none, or leaves the haystack,   *)
(* the last only for a short needle that is not there; but for long        *)
(* Overlong needles it finds the first (wchar.cpp:78-187): WcsStrFinds. *)
THEOREM AlwaysWcsStrFinds == Spec => []WcsStrFinds
<1>1. Init => WcsStrFinds
  BY DEF Init, WcsStrFinds, In, Idle
<1>2. WcsStrFinds /\ [Next]_call => WcsStrFinds'
  <2>1. UNCHANGED call => (WcsStrFinds => WcsStrFinds')
    BY Zenon DEF WcsStrFinds, In
  <2>2. QED
    BY <2>1, NextWcsStr
<1>3. QED
  BY <1>1, <1>2, PTL DEF Spec
=============================================================================
