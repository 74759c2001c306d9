------------------------------- MODULE Floats -------------------------------
(***************************************************************************)
(* The functions of src/math.cpp that work on the bits of a number, with   *)
(* the classification macros of math.h, for any width of exponent and      *)
(* mantissa.  A float or double is its bit pattern, a natural number.      *)
(***************************************************************************)
EXTENDS Integers, FiniteSetsExt

CONSTANTS ExpBits, MantBits,    \* widths of the fields (8 and 23, 11 and 52)
          HighBits, LowBits     \* mantissa bits in a double's two words (20, 32)

ASSUME WidthAssumption ==
    /\ ExpBits \in Nat \ {0, 1} /\ MantBits \in Nat \ {0}
    /\ HighBits \in Nat \ {0} /\ LowBits \in Nat \ {0}

(* What the code writes as shifts and as constants: the powers of two. *)
TwoTo[n \in Nat] == IF n = 0 THEN 1 ELSE 2 * TwoTo[n - 1]

MaxExp == TwoTo[ExpBits] - 1
Bias == TwoTo[ExpBits - 1] - 1
Hidden == TwoTo[MantBits]

(* As in every format of the code, the root of a subnormal is a normal     *)
(* number. *)
ASSUME RangeAssumption == MantBits < Bias

Patterns == 0 .. TwoTo[1 + ExpBits + MantBits] - 1
NaN == -1       \* any of the patterns that are not a number

Magnitude(b) == b % TwoTo[ExpBits + MantBits]
Exponent(b) == Magnitude(b) \div Hidden
Mantissa(b) == b % Hidden
SignBit(b) == b \div TwoTo[ExpBits + MantBits]

-----------------------------------------------------------------------------
(* __fpclassify and __fpclassifyf. *)
FpClassify(b) ==
    CASE Exponent(b) = 0 -> IF Magnitude(b) # 0 THEN "subnormal" ELSE "zero"
      [] Exponent(b) = MaxExp -> IF Mantissa(b) # 0 THEN "nan" ELSE "infinite"
      [] OTHER -> "normal"

(* __fpclassifyl: the leading bit of the mantissa m is stored. *)
FpClassifyL(e, m) ==
    CASE e = 0 -> IF m >= Hidden THEN "nan" ELSE IF m # 0 THEN "subnormal" ELSE "zero"
      [] e = MaxExp -> IF m % Hidden # 0 THEN "nan" ELSE "infinite"
      [] OTHER -> IF m >= Hidden THEN "normal" ELSE "nan"

(* The macros isinf, isnan, isnormal and isfinite compare the magnitude. *)
IsInf(b) == Magnitude(b) = MaxExp * Hidden
IsNanOrInf(b) == Magnitude(b) >= MaxExp * Hidden    \* mutant
IsNan(b) == Magnitude(b) > MaxExp * Hidden
IsNormal(b) == Magnitude(b + Hidden) >= 2 * Hidden
IsFinite(b) == Magnitude(b) < MaxExp * Hidden

-----------------------------------------------------------------------------
(* How far a mantissa is shifted up until its bit at top is set. *)
ShiftUp(m, top) == Min({i \in 0 .. top : m * TwoTo[i] >= TwoTo[top]})

(* The digit loop of sqrtf: q collects the root's bits, the first of them  *)
(* 2 * Hidden, s is twice what was found, x the doubled rest. *)
RootBit(st, r) ==
    IF st.s + r <= st.x THEN [x |-> 2 * (st.x - st.s - r), s |-> st.s + 2 * r, q |-> st.q + r]
    ELSE [st EXCEPT !.x = 2 * @]
RootBits(x) ==
    LET st[k \in 0 .. MantBits + 2] ==
            IF k = 0 THEN [x |-> x, s |-> 0, q |-> 0]
            ELSE RootBit(st[k - 1], TwoTo[(MantBits + 2) - k])
    IN  st[MantBits + 2]

(* The mantissa and the even exponent (halved) that the loop starts from. *)
Normalized(b) ==
    LET up == IF Exponent(b) = 0 THEN ShiftUp(b, MantBits) ELSE 0
        e == (IF Exponent(b) = 0 THEN 1 - up ELSE Exponent(b)) - Bias
        x == ((b * TwoTo[up]) % Hidden) + Hidden
    IN  [x |-> IF e % 2 = 1 THEN 2 * x ELSE x, m |-> e \div 2]

(* The rest decides whether the last bit of q, one more than the mantissa  *)
(* has, rounds up. *)
CutOff(q, rest) == q    \* mutant: no rounding
RoundedUp(q, rest) == IF rest # 0 THEN q + (q % 2) ELSE q

SqrtF(b) ==
    LET n == Normalized(b)
        root == RootBits(2 * n.x)
    IN  CASE Exponent(b) = MaxExp -> IF b = MaxExp * Hidden THEN b ELSE NaN
          [] Exponent(b) # MaxExp /\ Magnitude(b) = 0 -> b
          [] Exponent(b) # MaxExp /\ Magnitude(b) # 0 /\ SignBit(b) = 1 -> NaN
          [] OTHER -> (RoundedUp(root.q, root.x) \div 2) + (Bias - 1 + n.m) * Hidden

-----------------------------------------------------------------------------
(* sqrt takes an int and runs the two-word algorithm for doubles on it:    *)
(* the bits of the low word, with the borrows and carries between words.   *)
Word == TwoTo[LowBits]
TopSet(w) == w >= Word \div 2
Doubled(hi, lo) == <<2 * hi + (IF TopSet(lo) THEN 1 ELSE 0), (2 * lo) % Word>>

HighRootBit(st, r) ==
    LET t == st.s0 + r
    IN  IF t <= st.x[1] THEN [st EXCEPT !.x = Doubled(@[1] - t, @[2]), !.s0 = t + r, !.q = @ + r]
        ELSE [st EXCEPT !.x = Doubled(@[1], @[2])]
HighRoot(x) ==
    LET st[k \in 0 .. HighBits + 2] ==
            IF k = 0 THEN [x |-> x, s0 |-> 0, s1 |-> 0, q |-> 0, q1 |-> 0]
            ELSE HighRootBit(st[k - 1], TwoTo[(HighBits + 2) - k])
    IN  st[HighBits + 2]

LowRootBit(st, r) ==
    LET t1 == (st.s1 + r) % Word
        s1 == (t1 + r) % Word
        fits == st.s0 < st.x[1] \/ (st.s0 = st.x[1] /\ t1 <= st.x[2])
        carry == IF TopSet(t1) /\ ~TopSet(s1) THEN 1 ELSE 0
        borrow == IF st.x[2] < t1 THEN 1 ELSE 0
        less == Doubled(st.x[1] - st.s0 - borrow, (st.x[2] - t1) % Word)
    IN  IF fits THEN [x |-> less, s0 |-> st.s0 + carry, s1 |-> s1, q |-> st.q, q1 |-> st.q1 + r]
        ELSE [st EXCEPT !.x = Doubled(@[1], @[2])]
LowRoot(high) ==
    LET st[k \in 0 .. LowBits] ==
            IF k = 0 THEN high ELSE LowRootBit(st[k - 1], TwoTo[LowBits - k])
    IN  st[LowBits]

(* The rounding, with the carry out of a low word that is all ones. *)
RootMantissa(st) ==
    LET inexact == st.x # <<0, 0>>
    IN  IF inexact /\ st.q1 = Word - 1 THEN (st.q + 1) * Word
        ELSE st.q * Word + (IF inexact THEN st.q1 + (st.q1 % 2) ELSE st.q1)

(* The int that the root of x > 0 is cut off to. *)
PositiveRoot(x) ==
    LET m == Max({i \in 0 .. HighBits + LowBits : TwoTo[i] <= x})
        bits == x * TwoTo[(HighBits + LowBits) - m] * (IF m % 2 = 1 THEN 2 ELSE 1)
        root == RootMantissa(LowRoot(HighRoot(Doubled(bits \div Word, bits % Word))))
    IN  ((root \div 2) * TwoTo[m \div 2]) \div TwoTo[HighBits + LowBits]

(* 0 is returned as it is; of a negative int the function divides 0 by 0,  *)
(* as ints: the division traps, or anything comes out. *)
Trap == -1
SqrtInt(x, any) ==
    CASE x > 0 -> PositiveRoot(x)
      [] x = 0 -> x
      [] OTHER -> any

-----------------------------------------------------------------------------
(* frexpl of a finite long double: a subnormal is first multiplied by a    *)
(* power of two (64), which the result's exponent then gives back. *)
FrExpL(e, m, power) ==
    LET up == ShiftUp(m, MantBits)
    IN  CASE e # 0 -> [e |-> e - (Bias - 1), m |-> m]
          [] e = 0 /\ m # 0 -> [e |-> ((power + 1) - up) - (Bias - 1) - power, m |-> m * TwoTo[up]]
          [] OTHER -> [e |-> 0, m |-> 0]
=============================================================================
