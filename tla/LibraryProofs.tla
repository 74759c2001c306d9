--------------------------- MODULE LibraryProofs ---------------------------
(* Theorems about Library, for any bounds of its inputs. *)
EXTENDS Library, Induction, FiniteSetTheorems, TLAPS

-----------------------------------------------------------------------------
(* Division with a remainder, and that there is one way to do it. *)
LEMMA Division ==
    ASSUME NEW n \in Nat \ {0}, NEW x \in Int
    PROVE  x = n * (x \div n) + (x % n) /\ x % n \in Nat /\ x % n < n /\ x \div n \in Int
  BY SMT

LEMMA DivisionIsUnique ==
    ASSUME NEW n \in Nat \ {0}, NEW x \in Int, NEW q \in Int, NEW r \in Nat, r < n,
           x = n * q + r
    PROVE  x \div n = q /\ x % n = r
<1> DEFINE d == q - (x \div n)
<1>1. x = n * (x \div n) + (x % n) /\ x % n \in Nat /\ x % n < n /\ x \div n \in Int
  BY Division
<1>2. n * d = (x % n) - r /\ d \in Int
  BY <1>1, SMT
<1>3. n * d < n /\ n * d > -n
  BY <1>1, <1>2, SMT
<1> HIDE DEF d
<1>4. ~(d >= 1)
  <2> SUFFICES ASSUME d >= 1 PROVE FALSE
    OBVIOUS
  <2>1. n * d >= n
    BY <1>2, SMT
  <2>2. QED
    BY <1>2, <1>3, <2>1, SMT
<1>5. ~(d <= -1)
  <2> SUFFICES ASSUME d <= -1 PROVE FALSE
    OBVIOUS
  <2>1. n * d <= -n
    BY <1>2, SMT
  <2>2. QED
    BY <1>2, <1>3, <2>1, SMT
<1>6. d = 0
  BY <1>2, <1>4, <1>5, SMT
<1>7. x \div n = q
  BY <1>1, <1>6, SMT DEF d
<1>8. QED
  BY <1>1, <1>7, SMT

(* The hours, minutes and seconds of a day. *)
LEMMA Clock ==
    ASSUME NEW sec \in Nat, sec < SecondsPerDay
    PROVE  /\ (sec % 3600) \div 60 \in 0 .. 59 /\ sec % 60 \in 0 .. 59
           /\ (sec % 60) + 60 * (((sec % 3600) \div 60) + 60 * (sec \div 3600)) = sec
           /\ sec \div SecondsPerDay = 0 /\ sec % SecondsPerDay = sec
<1> DEFINE h == sec \div 3600
           r == sec % 3600
           mi == r \div 60
           s == r % 60
<1>1. sec \div SecondsPerDay = 0 /\ sec % SecondsPerDay = sec
  BY DivisionIsUnique, SMT DEF SecondsPerDay
<1>2. h \in Int /\ r \in Nat /\ r < 3600 /\ sec = 3600 * h + r
  BY SMT
<1> HIDE DEF h, r
<1>3. mi \in Int /\ s \in 0 .. 59 /\ r = 60 * mi + s
  BY <1>2, SMT
<1> HIDE DEF mi, s
<1>4. mi \in 0 .. 59
  BY <1>2, <1>3, SMT
<1>5. sec = 60 * (60 * h + mi) + s /\ 60 * h + mi \in Int
  BY <1>2, <1>3, SMT
<1>6. sec % 60 = s
  BY <1>3, <1>5, DivisionIsUnique, SMT
<1>7. s + 60 * (mi + 60 * h) = sec
  BY <1>2, <1>3, <1>5, SMT
<1>8. QED
  BY <1>1, <1>3, <1>4, <1>6, <1>7 DEF h, r, mi, s

-----------------------------------------------------------------------------
(* The calendar in years that begin in March. *)
CenturyDays(c) == IF c % 4 = 3 THEN 36525 ELSE 36524
YearDays(c, y) == IF y % 4 = 3 /\ (y # 99 \/ c % 4 = 3) THEN 366 ELSE 365
InCentury(n, c) == n - (36524 * c + (c \div 4))
InYear(d, y) == d - (365 * y + (y \div 4))

(* A count of days is a day of a year of a century. *)
LEMMA CenturyOfDay ==
    ASSUME NEW n \in Nat
    PROVE  /\ Century(n) \in Nat
           /\ InCentury(n, Century(n)) \in 0 .. CenturyDays(Century(n)) - 1
  BY SMTT(60) DEF Century, DaysIn100Years, DaysIn400Years, InCentury, CenturyDays

LEMMA YearOfDay ==
    ASSUME NEW c \in Nat, NEW d \in 0 .. CenturyDays(c) - 1
    PROVE  /\ YearOfCentury(d) \in 0 .. 99
           /\ InYear(d, YearOfCentury(d)) \in 0 .. YearDays(c, YearOfCentury(d)) - 1
  BY SMTT(60) DEF YearOfCentury, DaysPerYear, DaysPerLeapYear, InYear, CenturyDays, YearDays

(* It is that of one year and century only. *)
LEMMA CenturyIsUnique ==
    ASSUME NEW n \in Nat, NEW c \in Nat,
           InCentury(n, c) \in 0 .. CenturyDays(c) - 1
    PROVE  Century(n) = c
  BY SMTT(60) DEF Century, DaysIn100Years, DaysIn400Years, InCentury, CenturyDays

LEMMA YearIsUnique ==
    ASSUME NEW d \in Nat, NEW c \in Nat, NEW y \in 0 .. 99,
           InYear(d, y) \in 0 .. YearDays(c, y) - 1
    PROVE  YearOfCentury(d) = y
  BY SMTT(60) DEF YearOfCentury, DaysPerYear, DaysPerLeapYear, InYear, CenturyDays, YearDays

-----------------------------------------------------------------------------
(* The day of such a year, as month and day of the month. *)
MarchMonth(e) == (5 * e + 2) \div 153
MarchDay(e) == e - ((153 * MarchMonth(e) + 2) \div 5) + 1
MarchLength(days, m) ==
    IF m = 11 THEN days - 337 ELSE IF m \in {1, 3, 6, 8} THEN 30 ELSE 31

LEMMA MonthOfDay ==
    ASSUME NEW days \in {365, 366}, NEW e \in 0 .. days - 1
    PROVE  /\ MarchMonth(e) \in 0 .. 11
           /\ MarchDay(e) \in 1 .. MarchLength(days, MarchMonth(e))
           /\ e = days - 1 => MarchMonth(e) = 11 /\ MarchDay(e) = MarchLength(days, 11)
  BY SMTT(60) DEF MarchMonth, MarchDay, MarchLength

LEMMA NextMarchDay ==
    ASSUME NEW days \in {365, 366}, NEW e \in 0 .. 364, e + 1 < days
    PROVE  IF MarchDay(e) < MarchLength(days, MarchMonth(e))
           THEN MarchMonth(e + 1) = MarchMonth(e) /\ MarchDay(e + 1) = MarchDay(e) + 1
           ELSE MarchMonth(e + 1) = MarchMonth(e) + 1 /\ MarchDay(e + 1) = 1
  BY SMTT(60) DEF MarchMonth, MarchDay, MarchLength

YearOf(c, y, m) == 100 * c + y + (IF m + 3 > 12 THEN 1 ELSE 0)
MonthOf(m) == IF m + 3 > 12 THEN m - 9 ELSE m + 3

(* February, the last month, has the leap day of the calendar's year. *)
LEMMA LengthOfMonth ==
    ASSUME NEW c \in Nat, NEW y \in 0 .. 99, NEW m \in 0 .. 11
    PROVE  MonthLength(YearOf(c, y, m), MonthOf(m)) = MarchLength(YearDays(c, y), m)
<1>1. IsLeap(100 * c + y + 1) <=> YearDays(c, y) = 366
  BY SMTT(60) DEF IsLeap, YearDays
<1>2. CASE m = 11
  BY <1>1, <1>2 DEF MonthLength, MarchLength, YearOf, MonthOf, YearDays
<1>3. CASE m # 11
  BY <1>3 DEF MonthLength, MarchLength, MonthOf
<1>4. QED
  BY <1>2, <1>3

(* The leap days before a year, counted by centuries. *)
LEMMA LeapDaysCounted ==
    ASSUME NEW c \in Nat, NEW y \in 0 .. 99, 100 * c + y >= 1970
    PROVE  LeapDays(100 * c + y) + (IF LeapYear(100 * c + y) THEN 1 ELSE 0) + 477
               = 24 * c + (c \div 4) + (y \div 4)
<1> DEFINE Y == 100 * c + y
<1>1. LeapDays(Y) = ((Y - 1969) \div 4) - ((Y - 1901) \div 100) + ((Y - 1601) \div 400)
  BY DEF LeapDays, Trunc
<1>2. Y \div 4 = 25 * c + (y \div 4) /\ Y \div 100 = c /\ Y \div 400 = c \div 4
  BY SMTT(60)
<1>3. /\ (Y - 1969) \div 4 = (IF Y % 4 = 0 THEN -1 ELSE 0) + (Y \div 4) - 492
      /\ (Y - 1901) \div 100 = (IF Y % 100 = 0 THEN -1 ELSE 0) + (Y \div 100) - 19
      /\ (Y - 1601) \div 400 = (IF Y % 400 = 0 THEN -1 ELSE 0) + (Y \div 400) - 4
  BY SMTT(60)
<1>4. Y % 400 = 0 => Y % 100 = 0
  BY SMTT(60)
<1>5. Y % 100 = 0 => Y % 4 = 0
  BY SMTT(60)
<1>6. QED
  BY <1>1, <1>2, <1>3, <1>4, <1>5 DEF LeapYear

-----------------------------------------------------------------------------
(* What _fromUnixtimeSpec computes on its way. *)
CenturyAt(day) == Century(719468 + day)
YearAt(day) == YearOfCentury(InCentury(719468 + day, CenturyAt(day)))
DayAt(day) == InYear(InCentury(719468 + day, CenturyAt(day)), YearAt(day))
MonthAt(day) == MarchMonth(DayAt(day))

LEMMA DateOfDay ==
    ASSUME NEW day \in Nat, NEW sec, NEW nsec
    PROVE  FromSpec([day |-> day, sec |-> sec, nsec |-> nsec]) =
               [year |-> YearOf(CenturyAt(day), YearAt(day), MonthAt(day)),
                month |-> MonthOf(MonthAt(day)),
                day |-> MarchDay(DayAt(day)),
                hour |-> sec \div 3600,
                min |-> (sec % 3600) \div 60,
                sec |-> sec % 60,
                nsec |-> nsec]
<1>1. ~(day < 0)
  BY SMT
<1>2. QED
  BY <1>1, SMT DEF FromSpec, DaysSince1970, DaysIn100Years, DaysPerYear, CenturyAt, YearAt,
              DayAt, MonthAt, InCentury, InYear, MarchMonth, MarchDay, YearOf, MonthOf

LEMMA DayParts ==
    ASSUME NEW day \in Nat
    PROVE  /\ CenturyAt(day) \in Nat /\ YearAt(day) \in 0 .. 99
           /\ DayAt(day) \in 0 .. YearDays(CenturyAt(day), YearAt(day)) - 1
           /\ MonthAt(day) \in 0 .. 11
           /\ MarchDay(DayAt(day)) \in
                  1 .. MarchLength(YearDays(CenturyAt(day), YearAt(day)), MonthAt(day))
           /\ 719468 + day = 36524 * CenturyAt(day) + (CenturyAt(day) \div 4)
                                 + 365 * YearAt(day) + (YearAt(day) \div 4) + DayAt(day)
<1> DEFINE c == CenturyAt(day)
           d == InCentury(719468 + day, c)
           y == YearAt(day)
           e == DayAt(day)
<1>1. 719468 + day \in Nat
  BY SMT
<1>2. c \in Nat /\ d \in 0 .. CenturyDays(c) - 1
  BY <1>1, CenturyOfDay, SMT DEF CenturyAt
<1> HIDE DEF c, d
<1>3. YearOfCentury(d) \in 0 .. 99 /\ InYear(d, YearOfCentury(d)) \in 0 .. YearDays(c, YearOfCentury(d)) - 1
  BY <1>2, YearOfDay, SMT
<1>4. y = YearOfCentury(d) /\ e = InYear(d, y)
  BY SMT DEF YearAt, DayAt, c, d
<1> HIDE DEF y, e
<1>5. y \in 0 .. 99 /\ e \in 0 .. YearDays(c, y) - 1
  BY <1>3, <1>4, SMT
<1>6. YearDays(c, y) \in {365, 366}
  BY SMT DEF YearDays
<1>7. MarchMonth(e) \in 0 .. 11 /\ MarchDay(e) \in 1 .. MarchLength(YearDays(c, y), MarchMonth(e))
  BY <1>5, <1>6, MonthOfDay, SMT
<1>8. MonthAt(day) = MarchMonth(e)
  BY SMT DEF MonthAt, e
<1>9. 719468 + day = 36524 * c + (c \div 4) + d
  BY <1>1, <1>2, SMT DEF d, InCentury
<1>10. d = 365 * y + (y \div 4) + e
  BY <1>2, <1>4, <1>5, SMT DEF InYear
<1>11. 719468 + day = 36524 * c + (c \div 4) + 365 * y + (y \div 4) + e
  BY <1>2, <1>5, <1>9, <1>10, SMT
<1>12. QED
  BY <1>2, <1>5, <1>7, <1>8, <1>11, SMT DEF c, y, e

(* A day is day f of the year x of the century k. *)
IsDay(day, k, x, f) ==
    /\ day \in Nat /\ k \in Nat /\ x \in 0 .. 99 /\ f \in 0 .. YearDays(k, x) - 1
    /\ 719468 + day = 36524 * k + (k \div 4) + 365 * x + (x \div 4) + f

LEMMA DayIsUnique ==
    ASSUME NEW day, NEW k, NEW x, NEW f, IsDay(day, k, x, f)
    PROVE  CenturyAt(day) = k /\ YearAt(day) = x /\ DayAt(day) = f
<1> DEFINE d == InCentury(719468 + day, k)
<1>1. /\ day \in Nat /\ k \in Nat /\ x \in 0 .. 99 /\ f \in 0 .. YearDays(k, x) - 1
      /\ d = 365 * x + (x \div 4) + f
  BY SMT DEF IsDay, InCentury
<1> HIDE DEF d
<1>2. d \in 0 .. CenturyDays(k) - 1 /\ d \in Nat
  BY <1>1, SMTT(60) DEF YearDays, CenturyDays
<1>3. CenturyAt(day) = k
  <2>1. 719468 + day \in Nat
    BY <1>1, SMT
  <2>2. QED
    BY <1>1, <1>2, <2>1, CenturyIsUnique, SMT DEF CenturyAt, d
<1>4. InYear(d, x) = f
  BY <1>1, <1>2, SMT DEF InYear
<1>5. InYear(d, x) \in 0 .. YearDays(k, x) - 1
  BY <1>1, <1>4
<1>6. YearOfCentury(d) = x
  BY <1>1, <1>2, <1>5, YearIsUnique
<1>7. QED
  BY <1>3, <1>4, <1>6, SMT DEF YearAt, DayAt, d

(* Where the next day is. *)
LEMMA NextDayParts ==
    ASSUME NEW day \in Nat, NEW c, NEW y, NEW e,
           c = CenturyAt(day), y = YearAt(day), e = DayAt(day)
    PROVE  \/ /\ e + 1 <= YearDays(c, y) - 1
              /\ CenturyAt(day + 1) = c /\ YearAt(day + 1) = y /\ DayAt(day + 1) = e + 1
           \/ /\ e = YearDays(c, y) - 1
              /\ DayAt(day + 1) = 0
              /\ 100 * CenturyAt(day + 1) + YearAt(day + 1) = 100 * c + y + 1
<1>1. /\ c \in Nat /\ y \in 0 .. 99 /\ e \in 0 .. YearDays(c, y) - 1
      /\ 719468 + day = 36524 * c + (c \div 4) + 365 * y + (y \div 4) + e
  BY DayParts, SMT
<1>2. YearDays(c, y) \in {365, 366}
  BY SMT DEF YearDays
<1>3. CASE e + 1 <= YearDays(c, y) - 1
  <2>1. IsDay(day + 1, c, y, e + 1)
    BY <1>1, <1>2, <1>3, SMT DEF IsDay
  <2>2. QED
    BY <1>3, <2>1, DayIsUnique, SMT
<1>4. CASE e = YearDays(c, y) - 1 /\ y < 99
  <2>1. IsDay(day + 1, c, y + 1, 0)
    BY <1>1, <1>4, SMTT(60) DEF IsDay, YearDays
  <2>2. CenturyAt(day + 1) = c /\ YearAt(day + 1) = y + 1 /\ DayAt(day + 1) = 0
    BY <2>1, DayIsUnique, SMT
  <2>3. QED
    BY <1>1, <1>4, <2>2, SMT
<1>5. CASE e = YearDays(c, y) - 1 /\ y = 99
  <2>1. IsDay(day + 1, c + 1, 0, 0)
    BY <1>1, <1>5, SMTT(60) DEF IsDay, YearDays
  <2>2. CenturyAt(day + 1) = c + 1 /\ YearAt(day + 1) = 0 /\ DayAt(day + 1) = 0
    BY <2>1, DayIsUnique, SMT
  <2>3. QED
    BY <1>1, <1>5, <2>2, SMT
<1>6. QED
  BY <1>1, <1>2, <1>3, <1>4, <1>5, SMT

AsDate(y, mo, d, h, mi, s, n) ==
    [year |-> y, month |-> mo, day |-> d, hour |-> h, min |-> mi, sec |-> s, nsec |-> n]

LEMMA NextDateParts ==
    ASSUME NEW y, NEW mo, NEW d, NEW h, NEW mi, NEW s, NEW n
    PROVE  NextDate(AsDate(y, mo, d, h, mi, s, n)) =
               IF d < MonthLength(y, mo) THEN AsDate(y, mo, d + 1, h, mi, s, n)
               ELSE IF mo < 12 THEN AsDate(y, mo + 1, 1, h, mi, s, n)
               ELSE AsDate(y + 1, 1, 1, h, mi, s, n)
<1> DEFINE t == AsDate(y, mo, d, h, mi, s, n)
           first == AsDate(y, mo, 1, h, mi, s, n)
           january == AsDate(y, 1, 1, h, mi, s, n)
<1>1. t.year = y /\ t.month = mo /\ t.day = d
  BY DEF AsDate
<1>2. [t EXCEPT !.day = d + 1] = AsDate(y, mo, d + 1, h, mi, s, n)
  BY DEF AsDate
<1>3. [t EXCEPT !.day = 1] = first
  BY DEF AsDate
<1>4. [first EXCEPT !.month = mo + 1] = AsDate(y, mo + 1, 1, h, mi, s, n)
  BY DEF AsDate
<1>5. [first EXCEPT !.month = 1] = january
  BY DEF AsDate
<1>6. [january EXCEPT !.year = y + 1] = AsDate(y + 1, 1, 1, h, mi, s, n)
  BY DEF AsDate
<1> HIDE DEF t, first, january
<1>7. [t EXCEPT !.day = 1, !.month = mo + 1] = [first EXCEPT !.month = mo + 1]
  BY <1>3
<1>8. [t EXCEPT !.day = 1, !.month = 1, !.year = y + 1] = [january EXCEPT !.year = y + 1]
  BY <1>3, <1>5
<1>9. NextDate(t) =
          IF d < MonthLength(y, mo) THEN [t EXCEPT !.day = d + 1]
          ELSE IF mo < 12 THEN [t EXCEPT !.day = 1, !.month = mo + 1]
          ELSE [t EXCEPT !.day = 1, !.month = 1, !.year = y + 1]
  BY <1>1, Zenon DEF NextDate
<1>10. QED
  BY <1>2, <1>4, <1>6, <1>7, <1>8, <1>9 DEF t

(* Day after day, _fromUnixtimeSpec follows the calendar. *)
LEMMA FollowingDate ==
    ASSUME NEW day \in Nat, NEW sec, NEW nsec
    PROVE  FromSpec(At0(day + 1, sec, nsec)) = NextDate(FromSpec(At0(day, sec, nsec)))
<1> DEFINE c == CenturyAt(day)
           y == YearAt(day)
           e == DayAt(day)
           m == MarchMonth(e)
           days == YearDays(c, y)
           c1 == CenturyAt(day + 1)
           y1 == YearAt(day + 1)
           e1 == DayAt(day + 1)
           m1 == MarchMonth(e1)
           now == FromSpec(At0(day, sec, nsec))
           then == FromSpec(At0(day + 1, sec, nsec))
<1>1. now = AsDate(YearOf(c, y, m), MonthOf(m), MarchDay(e),
                   sec \div 3600, (sec % 3600) \div 60, sec % 60, nsec)
  BY DateOfDay, SMT DEF At0, MonthAt, AsDate
<1>2. then = AsDate(YearOf(c1, y1, m1), MonthOf(m1), MarchDay(e1),
                    sec \div 3600, (sec % 3600) \div 60, sec % 60, nsec)
  <2>1. day + 1 \in Nat
    BY SMT
  <2>2. QED
    BY <2>1, DateOfDay, SMT DEF At0, MonthAt, AsDate
<1>3. c \in Nat /\ y \in 0 .. 99 /\ e \in 0 .. days - 1
  BY DayParts, SMT
<1>4. days \in {365, 366}
  BY SMT DEF YearDays
<1>5. \/ e + 1 <= days - 1 /\ c1 = c /\ y1 = y /\ e1 = e + 1
      \/ e = days - 1 /\ e1 = 0 /\ 100 * c1 + y1 = 100 * c + y + 1
  BY NextDayParts, SMT
<1>6. c1 \in Nat /\ y1 \in 0 .. 99
  <2>1. day + 1 \in Nat
    BY SMT
  <2>2. QED
    BY <2>1, DayParts, SMT
<1> HIDE DEF c, y, e, days, c1, y1, e1, now, then
<1>7. /\ m \in 0 .. 11 /\ MarchDay(e) \in 1 .. MarchLength(days, m)
      /\ e = days - 1 => m = 11 /\ MarchDay(e) = MarchLength(days, 11)
  <2>1. days \in {365, 366} /\ e \in 0 .. days - 1
    BY <1>3, <1>4
  <2> HIDE DEF m
  <2>2. MarchMonth(e) \in 0 .. 11
    BY <2>1, MonthOfDay, SMTT(30)
  <2>3. MarchDay(e) \in 1 .. MarchLength(days, MarchMonth(e))
    BY <2>1, MonthOfDay, SMTT(30)
  <2>4. e = days - 1 => MarchMonth(e) = 11 /\ MarchDay(e) = MarchLength(days, 11)
    BY <2>1, MonthOfDay, SMTT(30)
  <2>5. QED
    BY <2>2, <2>3, <2>4, Zenon DEF m
<1>8. MonthLength(YearOf(c, y, m), MonthOf(m)) = MarchLength(days, m)
  BY <1>3, <1>7, LengthOfMonth DEF days
<1>9. MarchLength(days, m) \in Nat /\ MarchDay(e) \in Nat
  BY <1>4, <1>7, SMT DEF MarchLength
<1>10. CASE e = days - 1
  <2>1. m1 = 0 /\ MarchDay(e1) = 1
    BY <1>5, <1>10, <1>3, <1>4, SMT DEF MarchMonth, MarchDay
  <2>2. m = 11 /\ MarchDay(e) = MarchLength(days, m)
    BY <1>7, <1>10
  <2>3. MonthOf(m1) = 3 /\ MonthOf(m) = 2
    BY <2>1, <2>2, SMT DEF MonthOf
  <2>4. YearOf(c1, y1, m1) = YearOf(c, y, m)
    BY <1>3, <1>4, <1>5, <1>6, <1>10, <2>1, <2>2, SMT DEF YearOf
  <2> HIDE DEF m, m1
  <2>5. QED
    BY <1>1, <1>2, <1>8, <1>9, <2>1, <2>2, <2>3, <2>4, NextDateParts, SMT DEF now, then
<1>11. CASE e + 1 <= days - 1
  <2>1. c1 = c /\ y1 = y /\ e1 = e + 1
    BY <1>3, <1>4, <1>5, <1>11, SMT
  <2>2. IF MarchDay(e) < MarchLength(days, m)
        THEN m1 = m /\ MarchDay(e1) = MarchDay(e) + 1
        ELSE m1 = m + 1 /\ MarchDay(e1) = 1
    <3>1. e \in 0 .. 364 /\ e + 1 < days
      BY <1>3, <1>4, <1>11, SMT
    <3>2. IF MarchDay(e) < MarchLength(days, MarchMonth(e))
          THEN MarchMonth(e + 1) = MarchMonth(e) /\ MarchDay(e + 1) = MarchDay(e) + 1
          ELSE MarchMonth(e + 1) = MarchMonth(e) + 1 /\ MarchDay(e + 1) = 1
      BY <1>4, <3>1, NextMarchDay
    <3>3. QED
      BY <2>1, <3>2
  <2>3. m1 \in 0 .. 11
    <3>1. e1 \in 0 .. days - 1
      BY <1>3, <1>4, <1>11, <2>1, SMT
    <3>2. QED
      BY <1>4, <3>1, MonthOfDay
  <2> HIDE DEF m, m1
  <2>4. CASE MarchDay(e) < MarchLength(days, m)
    BY <1>1, <1>2, <1>8, <2>1, <2>2, <2>4, NextDateParts, SMT DEF now, then
  <2>5. CASE ~(MarchDay(e) < MarchLength(days, m))
    <3>1. m1 = m + 1 /\ MarchDay(e1) = 1
      BY <2>2, <2>5
    <3>2. CASE m = 9
      <4>1. MonthOf(m) = 12 /\ MonthOf(m1) = 1 /\ YearOf(c1, y1, m1) = YearOf(c, y, m) + 1
        BY <1>3, <2>1, <3>1, <3>2, SMT DEF MonthOf, YearOf
      <4>2. QED
        BY <1>1, <1>2, <1>8, <2>5, <3>1, <4>1, NextDateParts, SMT DEF now, then
    <3>3. CASE m # 9
      <4>1. /\ MonthOf(m) < 12 /\ MonthOf(m1) = MonthOf(m) + 1
            /\ YearOf(c1, y1, m1) = YearOf(c, y, m)
        BY <1>3, <1>7, <2>1, <2>3, <3>1, <3>3, SMT DEF MonthOf, YearOf
      <4>2. QED
        BY <1>1, <1>2, <1>8, <2>5, <3>1, <4>1, NextDateParts, SMT DEF now, then
    <3>4. QED
      BY <3>2, <3>3
  <2>6. QED
    BY <2>4, <2>5
<1>12. QED
  BY <1>3, <1>4, <1>10, <1>11, SMT DEF now, then

-----------------------------------------------------------------------------
(* What _toUnixtimeSpec computes of a date is the day that                 *)
(* _fromUnixtimeSpec made the date of. *)
LEMMA NumberOfDate ==
    ASSUME NEW day \in Nat, NEW h, NEW mi, NEW s, NEW n,
           NEW m \in 0 .. 11, m = MarchMonth(DayAt(day))
    PROVE  DayNumber(AsDate(YearOf(CenturyAt(day), YearAt(day), m), MonthOf(m),
                            MarchDay(DayAt(day)), h, mi, s, n)) = day
<1> DEFINE c == CenturyAt(day)
           y == YearAt(day)
           e == DayAt(day)
           Y == YearOf(c, y, m)
           leap == IF LeapYear(Y) THEN 1 ELSE 0
           before == (153 * m + 2) \div 5
<1>1. /\ c \in Nat /\ y \in 0 .. 99 /\ e \in 0 .. YearDays(c, y) - 1
      /\ 719468 + day = 36524 * c + (c \div 4) + 365 * y + (y \div 4) + e
  BY DayParts, SMT
<1> HIDE DEF c, y, e
<1>2. /\ e = ((153 * m + 2) \div 5) + MarchDay(e) - 1 /\ MarchDay(e) \in Int
      /\ m < 10 => 153 * m + 2 <= 5 * e + 4 /\ e <= 305
      /\ m >= 10 => e >= 306
  BY <1>1, SMTT(60) DEF MarchDay, MarchMonth, YearDays, e
<1>3. 100 * c + y >= 1969 /\ (m < 10 => 100 * c + y >= 1970)
  <2>1. e \in 0 .. 365
    BY <1>1, SMT DEF YearDays
  <2>2. c >= 19
    BY <1>1, <2>1, SMT
  <2>3. c = 19 => y >= 69 /\ (m < 10 => y >= 70)
    BY <1>1, <1>2, <2>1, SMTT(60)
  <2>4. QED
    BY <1>1, <2>2, <2>3, SMT
<1>4. DayNumber(AsDate(Y, MonthOf(m), MarchDay(e), h, mi, s, n)) =
          (Y - 1970) * 365 + LeapDays(Y) + StartDays[MonthOf(m)] + MarchDay(e) - 1
              + (IF MonthOf(m) > 2 /\ LeapYear(Y) THEN 1 ELSE 0)
  BY SMT DEF DayNumber, DaysToYear, AsDate
<1>5. /\ m < 10 => MonthOf(m) = m + 3 /\ Y = 100 * c + y
      /\ m >= 10 => MonthOf(m) = m - 9 /\ Y = 100 * c + y + 1
  BY <1>1, SMT DEF MonthOf, YearOf
<1>6. LeapDays(Y) \in Int
  BY <1>1, <1>5, SMT DEF LeapDays, Trunc
<1>7. m < 10 => LeapDays(Y) + (IF LeapYear(Y) THEN 1 ELSE 0) + 477
                    = 24 * c + (c \div 4) + (y \div 4)
  BY <1>1, <1>3, <1>5, LeapDaysCounted, SMT
<1>8. m >= 10 => LeapDays(Y) + 477 = 24 * c + (c \div 4) + (y \div 4)
  BY <1>1, <1>3, <1>5, SMTT(60) DEF LeapDays, Trunc
<1>9. leap \in Int /\ before \in Int
  BY SMT
<1> HIDE DEF Y, leap, before
<1>10. CASE m < 10
  <2>1. StartDays[m + 3] = 59 + before /\ MonthOf(m) > 2
    BY <1>5, <1>10, SMT DEF StartDays, before
  <2>2. DayNumber(AsDate(Y, MonthOf(m), MarchDay(e), h, mi, s, n)) =
            (Y - 1970) * 365 + LeapDays(Y) + StartDays[m + 3] + MarchDay(e) - 1 + leap
    BY <1>4, <1>5, <1>10, <2>1 DEF leap
  <2>3. e = before + MarchDay(e) - 1 /\ MarchDay(e) \in Int
    BY <1>2 DEF before
  <2>4. LeapDays(Y) + leap + 477 = 24 * c + (c \div 4) + (y \div 4)
    BY <1>7, <1>10 DEF leap
  <2>5. (Y - 1970) * 365 + LeapDays(Y) + (59 + before) + MarchDay(e) - 1 + leap = day
    BY <1>1, <1>5, <1>6, <1>9, <1>10, <2>3, <2>4, SMT
  <2>6. QED
    BY <2>1, <2>2, <2>5, SMT DEF c, y, e, Y
<1>11. CASE m >= 10
  <2>1. StartDays[m - 9] = before - 306 /\ ~(MonthOf(m) > 2)
    BY <1>5, <1>11, SMT DEF StartDays, before
  <2>2. DayNumber(AsDate(Y, MonthOf(m), MarchDay(e), h, mi, s, n)) =
            (Y - 1970) * 365 + LeapDays(Y) + StartDays[m - 9] + MarchDay(e) - 1 + 0
    BY <1>4, <1>5, <1>11, <2>1
  <2>3. e = before + MarchDay(e) - 1 /\ MarchDay(e) \in Int
    BY <1>2 DEF before
  <2>4. (Y - 1970) * 365 + LeapDays(Y) + (before - 306) + MarchDay(e) - 1 + 0 = day
    BY <1>1, <1>5, <1>6, <1>8, <1>9, <1>11, <2>3, SMT
  <2>5. QED
    BY <2>1, <2>2, <2>4, SMT DEF c, y, e, Y
<1>12. QED
  BY <1>10, <1>11, SMT

(* From an instant to its date and back. *)
IsDate(t, day, sec, nsec) == t = FromSpec(At0(day, sec, nsec))

LEMMA SpecOfDate ==
    ASSUME NEW day \in Nat, NEW sec \in Nat, sec < SecondsPerDay, NEW nsec, NEW t,
           IsDate(t, day, sec, nsec)
    PROVE  /\ ToSpec(t) = At0(day, sec, nsec)
           /\ Seconds(t) = sec
           /\ t.sec \in 0 .. 59 /\ t.min \in 0 .. 59 /\ t.nsec = nsec
           /\ t.month \in 1 .. 12 /\ t.day \in 1 .. MonthLength(t.year, t.month)
<1> DEFINE c == CenturyAt(day)
           y == YearAt(day)
           e == DayAt(day)
           m == MonthAt(day)
           h == sec \div 3600
           mi == (sec % 3600) \div 60
           s == sec % 60
<1>1. t = AsDate(YearOf(c, y, m), MonthOf(m), MarchDay(e), h, mi, s, nsec)
  <2>1. FromSpec([day |-> day, sec |-> sec, nsec |-> nsec]) =
            AsDate(YearOf(c, y, m), MonthOf(m), MarchDay(e), h, mi, s, nsec)
    BY DateOfDay, SMT DEF AsDate
  <2>2. t = FromSpec(At0(day, sec, nsec))
    BY DEF IsDate
  <2>3. At0(day, sec, nsec) = [day |-> day, sec |-> sec, nsec |-> nsec]
    BY DEF At0
  <2> HIDE DEF c, y, e, m, h, mi, s
  <2>4. QED
    BY <2>1, <2>2, <2>3, Zenon
<1>2. /\ c \in Nat /\ y \in 0 .. 99 /\ m \in 0 .. 11
      /\ MarchDay(e) \in 1 .. MarchLength(YearDays(c, y), m)
  BY DayParts, SMT
<1>3. m = MarchMonth(e)
  BY DEF MonthAt
<1>4. mi \in 0 .. 59 /\ s \in 0 .. 59 /\ s + 60 * (mi + 60 * h) = sec
  BY Clock
<1> HIDE DEF h, mi, s, m
<1>5. DayNumber(t) = day
  <2>1. DayNumber(AsDate(YearOf(c, y, m), MonthOf(m), MarchDay(e), h, mi, s, nsec)) = day
    BY <1>2, <1>3, NumberOfDate
  <2>2. QED
    BY <1>1, <2>1
<1> HIDE DEF c, y, e
<1>6. /\ t.hour = h /\ t.min = mi /\ t.sec = s /\ t.nsec = nsec
      /\ t.year = YearOf(c, y, m) /\ t.month = MonthOf(m) /\ t.day = MarchDay(e)
  BY <1>1 DEF AsDate
<1>7. Seconds(t) = sec
  BY <1>4, <1>6, SMT DEF Seconds
<1>8. ToSpec(t) = At0(day, sec, nsec)
  <2>1. ToSpec(t) = Instant(day, sec, nsec)
    BY <1>5, <1>6, <1>7, SMT DEF ToSpec
  <2>2. sec \div SecondsPerDay = 0 /\ sec % SecondsPerDay = sec
    BY Clock
  <2>3. QED
    BY <2>1, <2>2, SMT DEF Instant, At0
<1>9. t.month \in 1 .. 12 /\ t.day \in 1 .. MonthLength(t.year, t.month)
  <2>1. MonthOf(m) \in 1 .. 12
    BY <1>2, SMT DEF MonthOf
  <2>2. MonthLength(YearOf(c, y, m), MonthOf(m)) = MarchLength(YearDays(c, y), m)
    BY <1>2, LengthOfMonth
  <2>3. QED
    BY <1>2, <1>6, <2>1, <2>2
<1>10. QED
  BY <1>4, <1>6, <1>7, <1>8, <1>9

(* The first day. *)
LEMMA FirstDate == FromSpec(At0(0, 0, 0)) = NewTime
<1>1. IsDay(0, 19, 69, 306)
  BY SMT DEF IsDay, YearDays
<1>2. CenturyAt(0) = 19 /\ YearAt(0) = 69 /\ DayAt(0) = 306
  BY <1>1, DayIsUnique, SMT
<1>3. MonthAt(0) = 10 /\ MarchDay(306) = 1
  BY <1>2, SMT DEF MonthAt, MarchDay, MarchMonth
<1>4. YearOf(19, 69, 10) = 1970 /\ MonthOf(10) = 1
  BY SMT DEF YearOf, MonthOf
<1>5. 0 \div 3600 = 0 /\ (0 % 3600) \div 60 = 0 /\ 0 % 60 = 0
  BY SMT
<1>6. FromSpec([day |-> 0, sec |-> 0, nsec |-> 0]) =
          [year |-> 1970, month |-> 1, day |-> 1, hour |-> 0, min |-> 0, sec |-> 0, nsec |-> 0]
  BY <1>2, <1>3, <1>4, <1>5, DateOfDay, SMT
<1>7. QED
  BY <1>6, SMT DEF At0, NewTime

-----------------------------------------------------------------------------
(* What a call of Library is the call of. *)
LEMMA CallsOf ==
    ASSUME Next
    PROVE  /\ call'.fn = "search" => Search
           /\ call'.fn = "scan" => Scan
           /\ call'.fn = "order" => Order
           /\ call'.fn = "copy" => Copy
           /\ call'.fn = "parse" => ParseNumber
           /\ call'.fn = "print" => PrintNumber
           /\ call'.fn = "cut" => Cut
           /\ call'.fn = "searchcon" => SearchCon
           /\ call'.fn = "copycon" => CopyCon
           /\ call'.fn = "date" => Date
           /\ call'.fn = "normalize" => Normalize
           /\ call'.fn = "compare" => Subtract
           /\ call'.fn = "clock" => SetClock
           /\ call'.fn = "classify" => Classify
           /\ call'.fn = "sqrt" => Root
           /\ call'.fn = "parsecmd" => Parse
           /\ call'.fn = "exit" => Exit
<1>1. Search => call'.fn = "search"
  BY DEF Search, Call
<1>2. Scan => call'.fn = "scan"
  BY DEF Scan, Scans, Call
<1>3. Order => call'.fn = "order"
  BY DEF Order, Call
<1>4. Copy => call'.fn = "copy"
  BY DEF Copy, Call
<1>5. ParseNumber => call'.fn = "parse"
  BY DEF ParseNumber, Call
<1>6. PrintNumber => call'.fn = "print"
  BY DEF PrintNumber, Call
<1>7. Cut => call'.fn = "cut"
  BY DEF Cut, Call
<1>8. SearchCon => call'.fn = "searchcon"
  BY DEF SearchCon, Call
<1>9. CopyCon => call'.fn = "copycon"
  BY DEF CopyCon, Call
<1>10. Date => call'.fn = "date"
  BY DEF Date, Call
<1>11. Normalize => call'.fn = "normalize"
  BY DEF Normalize, Call
<1>12. Subtract => call'.fn = "compare"
  BY DEF Subtract, Call
<1>13. SetClock => call'.fn = "clock"
  BY DEF SetClock, Call
<1>14. Classify => call'.fn = "classify"
  BY DEF Classify, Call
<1>15. Root => call'.fn = "sqrt"
  BY DEF Root, Call
<1>16. Parse => call'.fn = "parsecmd"
  BY DEF Parse, Call
<1>17. Exit => call'.fn = "exit"
  BY DEF Exit, Call
<1>18. QED
  BY <1>1, <1>2, <1>3, <1>4, <1>5, <1>6, <1>7, <1>8, <1>9, <1>10, <1>11, <1>12, <1>13, <1>14, <1>15, <1>16, <1>17
     DEF Next

LEMMA NextDates == Next => DatesFollow'
<1> SUFFICES ASSUME Next, call'.fn = "date" PROVE DatesFollow'
  BY DEF DatesFollow, In
<1>1. Date
  BY CallsOf
<1>2. PICK d \in Days :
          call' = LET ts == At0(d, d % SecondsPerDay, d)
                  IN  [fn |-> "date", ts |-> ts, time |-> FromSpec(ts), back |-> ToSpec(FromSpec(ts)),
                       val |-> FromVal(ts), next |-> FromSpec([ts EXCEPT !.day = @ + 1])]
  BY <1>1 DEF Date, Call
<1>3. d \in Nat
  BY InputsAssumption, SMT DEF Days
<1> DEFINE sec == d % SecondsPerDay
           ts == At0(d, sec, d)
           t == FromSpec(ts)
<1>4. sec \in Nat /\ sec < SecondsPerDay
  BY <1>3, Division, SMT DEF SecondsPerDay
<1>5. d = 0 => sec = 0
  BY SMT DEF SecondsPerDay
<1>6. [ts EXCEPT !.day = @ + 1] = At0(d + 1, sec, d)
  <2> HIDE DEF sec
  <2>1. QED
    BY DEF At0
<1> HIDE DEF sec
<1>7. /\ call'.ts = ts /\ call'.time = t /\ call'.back = ToSpec(t) /\ call'.val = FromVal(ts)
      /\ call'.next = FromSpec(At0(d + 1, sec, d))
  <2> HIDE DEF ts, t
  <2>1. call' = [fn |-> "date", ts |-> ts, time |-> t, back |-> ToSpec(t),
                 val |-> FromVal(ts), next |-> FromSpec(At0(d + 1, sec, d))]
    BY <1>2, <1>6, Zenon DEF sec, ts, t
  <2>2. QED
    BY <2>1
<1>8. IsDate(t, d, sec, d)
  BY DEF IsDate
<1>9. ts.day = d /\ ts.sec = sec
  BY DEF At0
<1>10. FromSpec(At0(d + 1, sec, d)) = NextDate(t)
  BY <1>3, FollowingDate
<1>11. d = 0 => t = NewTime
  BY <1>5, FirstDate
<1>12. FromVal(ts) = [t EXCEPT !.nsec = 1000 * @]
  BY Zenon DEF FromVal
<1> HIDE DEF ts, t
<1>13. ToSpec(t) = ts /\ Seconds(t) = sec /\ t.sec \in 0 .. 59 /\ t.min \in 0 .. 59
  BY <1>3, <1>4, <1>8, SpecOfDate DEF ts
<1>14. t.sec < 60 /\ t.min < 60
  BY <1>13, SMT
<1>15. call'.val = [call'.time EXCEPT !.nsec = 1000 * @]
  BY <1>7, <1>12
<1>16. /\ call'.ts.day = 0 => call'.time = NewTime
       /\ call'.next = NextDate(call'.time) /\ call'.back = call'.ts
       /\ Seconds(call'.time) = call'.ts.sec /\ call'.time.sec < 60 /\ call'.time.min < 60
  BY <1>7, <1>9, <1>10, <1>11, <1>13, <1>14, Zenon
<1>17. QED
  BY <1>15, <1>16 DEF DatesFollow

(* The dates are those of the Gregorian calendar, day after day from 1970  *)
(* on, and _toUnixtimeSpec turns them back (time.cpp:186-260): DatesFollow,*)
(* for any last day. *)
THEOREM AlwaysDatesFollow == Spec => []DatesFollow
<1>1. Init => DatesFollow
  BY DEF Init, DatesFollow, In, Idle
<1>2. DatesFollow /\ [Next]_call => DatesFollow'
  BY NextDates DEF DatesFollow, In
<1>3. QED
  BY <1>1, <1>2, PTL DEF Spec

-----------------------------------------------------------------------------
(* An instant whose seconds are not within the day. *)
LEMMA InstantParts ==
    ASSUME NEW day \in Int, NEW x \in Int, NEW n \in Int
    PROVE  \E q \in Int, r \in Nat :
               /\ r < SecondsPerDay /\ x = SecondsPerDay * q + r
               /\ Instant(day, x, n) = At0(day + q, r, n)
<1>1. SecondsPerDay \in Nat \ {0}
  BY SMT DEF SecondsPerDay
<1> DEFINE q == x \div SecondsPerDay
           r == x % SecondsPerDay
<1>2. q \in Int /\ r \in Nat /\ r < SecondsPerDay /\ x = SecondsPerDay * q + r
  BY <1>1, Division
<1>3. Instant(day, x, n) = At0(day + q, r, n)
  BY Zenon DEF Instant, At0
<1>4. QED
  BY <1>2, <1>3

LEMMA InstantIs ==
    ASSUME NEW day \in Int, NEW q \in Int, NEW r \in Nat, r < SecondsPerDay,
           NEW x \in Int, x = SecondsPerDay * q + r, NEW n \in Int
    PROVE  Instant(day, x, n) = At0(day + q, r, n)
<1>1. SecondsPerDay \in Nat \ {0}
  BY SMT DEF SecondsPerDay
<1>2. x \div SecondsPerDay = q /\ x % SecondsPerDay = r
  BY <1>1, DivisionIsUnique
<1>3. QED
  BY <1>2, Zenon DEF Instant, At0

LEMMA ToSpecFromSpec ==
    ASSUME NEW day \in Nat, NEW sec \in Nat, sec < SecondsPerDay, NEW n \in Int
    PROVE  ToSpec(FromSpec(At0(day, sec, n))) = At0(day, sec, n)
<1>1. IsDate(FromSpec(At0(day, sec, n)), day, sec, n)
  BY DEF IsDate
<1>2. QED
  BY <1>1, SpecOfDate

LEMMA PartsOfAt0 ==
    ASSUME NEW day, NEW sec, NEW n
    PROVE  At0(day, sec, n).day = day /\ At0(day, sec, n).sec = sec /\ At0(day, sec, n).nsec = n
  BY DEF At0

(* A difference of days and seconds, as whole days and the rest of one. *)
LEMMA LaterDifference ==
    ASSUME NEW d \in Nat, NEW s \in Nat, s < SecondsPerDay,
           NEW e \in Nat, NEW r \in Nat, r < SecondsPerDay,
           d > e \/ (d = e /\ s >= r),
           NEW q \in Int, NEW x \in Nat, x < SecondsPerDay, s - r = SecondsPerDay * q + x
    PROVE  d - e + q \in Nat
<1>1. SecondsPerDay \in Nat \ {0}
  BY SMT DEF SecondsPerDay
<1>2. ~(q <= -2)
  <2> SUFFICES ASSUME q <= -2 PROVE FALSE
    OBVIOUS
  <2>1. SecondsPerDay * q <= SecondsPerDay * (-2)
    BY SMT DEF SecondsPerDay
  <2>2. QED
    BY <1>1, <2>1, SMT
<1>3. d = e => q >= 0
  <2> SUFFICES ASSUME d = e, q <= -1 PROVE FALSE
    BY SMT
  <2>1. SecondsPerDay * q <= SecondsPerDay * (-1)
    BY SMT DEF SecondsPerDay
  <2>2. QED
    BY <1>1, <2>1, SMT
<1>4. QED
  BY <1>2, <1>3, SMT

LEMMA ElapsedTime ==
    ASSUME NEW d \in Nat, NEW s \in Nat, s < SecondsPerDay, NEW n \in Int,
           NEW e \in Nat, NEW r \in Nat, r < SecondsPerDay, NEW m \in Int,
           d > e \/ (d = e /\ s >= r),
           NEW diff, diff = Compare(FromSpec(At0(d, s, n)), FromSpec(At0(e, r, m)))
    PROVE  Instant(e + ToSpec(diff).day, r + ToSpec(diff).sec, m + ToSpec(diff).nsec)
               = At0(d, s, n)
<1>1. diff = FromSpec(Difference(At0(d, s, n), At0(e, r, m)))
  BY ToSpecFromSpec, Zenon DEF Compare
<1>2. Difference(At0(d, s, n), At0(e, r, m)) = Instant(d - e, s - r, n - m)
  <2>1. /\ At0(d, s, n).day = d /\ At0(d, s, n).sec = s /\ At0(d, s, n).nsec = n
        /\ At0(e, r, m).day = e /\ At0(e, r, m).sec = r /\ At0(e, r, m).nsec = m
    BY PartsOfAt0
  <2>2. QED
    BY <2>1, Zenon DEF Difference
<1>3. d - e \in Int /\ s - r \in Int /\ n - m \in Int
  BY SMT
<1>4. PICK q \in Int, x \in Nat :
          /\ x < SecondsPerDay /\ s - r = SecondsPerDay * q + x
          /\ Instant(d - e, s - r, n - m) = At0(d - e + q, x, n - m)
  <2> DEFINE a == d - e
             b == s - r
             c == n - m
  <2>1. a \in Int /\ b \in Int /\ c \in Int
    BY <1>3
  <2> HIDE DEF a, b, c
  <2>2. \E q \in Int, x \in Nat :
            /\ x < SecondsPerDay /\ b = SecondsPerDay * q + x
            /\ Instant(a, b, c) = At0(a + q, x, c)
    BY <2>1, InstantParts, ZenonT(30)
  <2>3. QED
    BY <2>2, Zenon DEF a, b, c
<1>5. d - e + q \in Nat
  BY <1>4, LaterDifference
<1>6. ToSpec(diff) = At0(d - e + q, x, n - m)
  BY <1>1, <1>2, <1>3, <1>4, <1>5, ToSpecFromSpec
<1>7. e + ToSpec(diff).day = d + q /\ r + ToSpec(diff).sec = r + x /\ m + ToSpec(diff).nsec = n
  <2>1. e + (d - e + q) = d + q /\ m + (n - m) = n
    BY SMT
  <2>2. QED
    BY <1>6, <2>1, PartsOfAt0
<1>8. Instant(d + q, r + x, n) = At0(d + q + (-q), s, n)
  <2>1. d + q \in Int /\ -q \in Int /\ r + x \in Int
    BY SMT
  <2>2. r + x = SecondsPerDay * (-q) + s
    BY <1>4, SMT DEF SecondsPerDay
  <2>3. QED
    BY <2>1, <2>2, InstantIs
<1>9. d + q + (-q) = d
  BY SMT
<1>10. QED
  BY <1>7, <1>8, <1>9

LEMMA ClockKeepsTime ==
    ASSUME NEW day \in Nat, NEW sec \in Nat, sec < SecondsPerDay, NEW n \in Int
    PROVE  SetHWTime(GetHWTime(At0(day, sec, n))) = At0(day, sec, n)
<1>1. DstSeconds \in Nat /\ sec + DstSeconds \in Nat
  BY WrapAssumption, SMT
<1>2. GetHWTime(At0(day, sec, n)) = FromSpec(Instant(day, sec + DstSeconds, n))
  <2>1. At0(day, sec, n).day = day /\ At0(day, sec, n).sec = sec /\ At0(day, sec, n).nsec = n
    BY PartsOfAt0
  <2>2. QED
    BY <2>1, Zenon DEF GetHWTime
<1>3. PICK q \in Int, x \in Nat :
          /\ x < SecondsPerDay /\ sec + DstSeconds = SecondsPerDay * q + x
          /\ Instant(day, sec + DstSeconds, n) = At0(day + q, x, n)
  <2>1. day \in Int /\ sec + DstSeconds \in Int /\ n \in Int
    BY <1>1, SMT
  <2>2. QED
    BY <2>1, InstantParts
<1>4. day + q \in Nat
  BY <1>1, <1>3, SMT DEF SecondsPerDay
<1>5. ToSpec(GetHWTime(At0(day, sec, n))) = At0(day + q, x, n)
  BY <1>2, <1>3, <1>4, ToSpecFromSpec
<1>6. SetHWTime(GetHWTime(At0(day, sec, n))) = Instant(day + q, x - DstSeconds, n)
  <2>1. /\ At0(day + q, x, n).day = day + q /\ At0(day + q, x, n).sec = x
        /\ At0(day + q, x, n).nsec = n
    BY PartsOfAt0
  <2>2. QED
    BY <1>5, <2>1, Zenon DEF SetHWTime
<1>7. Instant(day + q, x - DstSeconds, n) = At0(day + q + (-q), sec, n)
  <2>1. day + q \in Int /\ -q \in Int /\ x - DstSeconds \in Int
    BY <1>1, <1>4, SMT
  <2>2. x - DstSeconds = SecondsPerDay * (-q) + sec
    BY <1>1, <1>3, SMT DEF SecondsPerDay
  <2>3. QED
    BY <2>1, <2>2, InstantIs
<1>8. day + q + (-q) = day
  BY SMT
<1>9. QED
  BY <1>6, <1>7, <1>8

LEMMA TimesOfDay ==
    ASSUME NEW s \in DayTimes
    PROVE  s \in Nat /\ s < SecondsPerDay
<1>1. s \in 0 .. SecondsPerDay - 1
  BY InputsAssumption, Zenon
<1>2. SecondsPerDay \in Nat
  BY SMT DEF SecondsPerDay
<1>3. QED
  BY <1>1, <1>2

LEMMA NextDifferences == Next => DifferencesElapse'
<1> SUFFICES ASSUME Next PROVE DifferencesElapse'
  OBVIOUS
<1>1. ASSUME call'.fn = "clock"
      PROVE  call'.after = call'.clock
  <2>1. SetClock
    BY <1>1, CallsOf
  <2>2. PICK d \in Moments, s \in DayTimes :
            /\ call'.clock = At0(d, s, 7)
            /\ call'.after = SetHWTime(GetHWTime(At0(d, s, 7)))
    BY <2>1 DEF SetClock, Call
  <2>3. d \in Nat /\ s \in Nat /\ s < SecondsPerDay /\ 7 \in Int
    BY InputsAssumption, TimesOfDay
  <2>4. QED
    BY <2>2, <2>3, ClockKeepsTime
<1>2. ASSUME call'.fn = "compare",
             call'.t.day > call'.u.day \/ (call'.t.day = call'.u.day /\ call'.t.sec >= call'.u.sec)
      PROVE  Instant(call'.u.day + ToSpec(call'.diff).day, call'.u.sec + ToSpec(call'.diff).sec,
                     call'.u.nsec + ToSpec(call'.diff).nsec) = call'.t
  <2>1. Subtract
    BY <1>2, CallsOf
  <2>2. PICK d \in Moments, e \in Moments, s \in DayTimes, r \in DayTimes,
             n \in {0, 1}, m \in {0, 1} :
            /\ call'.t = At0(d, s, n) /\ call'.u = At0(e, r, m)
            /\ call'.diff = Compare(FromSpec(At0(d, s, n)), FromSpec(At0(e, r, m)))
    BY <2>1 DEF Subtract, Call
  <2>3. /\ call'.t.day = d /\ call'.t.sec = s
        /\ call'.u.day = e /\ call'.u.sec = r /\ call'.u.nsec = m
    BY <2>2, PartsOfAt0
  <2>4. d > e \/ (d = e /\ s >= r)
    BY <1>2, <2>3
  <2>5. /\ d \in Nat /\ e \in Nat /\ n \in Int /\ m \in Int
        /\ s \in Nat /\ s < SecondsPerDay /\ r \in Nat /\ r < SecondsPerDay
    <3>1. Moments \subseteq Nat
      BY InputsAssumption, Zenon
    <3>2. d \in Nat /\ e \in Nat
      BY <3>1
    <3>3. n \in Int /\ m \in Int
      OBVIOUS
    <3>4. s \in Nat /\ s < SecondsPerDay /\ r \in Nat /\ r < SecondsPerDay
      BY TimesOfDay, Zenon
    <3>5. QED
      BY <3>2, <3>3, <3>4
  <2>6. QED
    BY <2>2, <2>3, <2>4, <2>5, ElapsedTime
<1>3. QED
  BY <1>1, <1>2, Zenon DEF DifferencesElapse, In

(* compare gives the time that has passed, and setting the clock to what   *)
(* was read from it does not move it (time.cpp:281-306): DifferencesElapse,*)
(* whatever the zone. *)
THEOREM AlwaysDifferencesElapse == Spec => []DifferencesElapse
<1>1. Init => DifferencesElapse
  BY DEF Init, DifferencesElapse, In, Idle
<1>2. DifferencesElapse /\ [Next]_call => DifferencesElapse'
  BY NextDifferences DEF DifferencesElapse, In
<1>3. QED
  BY <1>1, <1>2, PTL DEF Spec

-----------------------------------------------------------------------------
(* The number of a day by the calendar's rules. *)
LEMMA LeapRule == \A y \in Int : IsLeap(y) <=> LeapYear(y)
<1> SUFFICES ASSUME NEW y \in Int PROVE IsLeap(y) <=> LeapYear(y)
  OBVIOUS
<1>1. y % 400 = 0 => y % 100 = 0
  BY SMTT(60)
<1>2. y % 100 = 0 => y % 4 = 0
  BY SMTT(60)
<1>3. QED
  BY <1>1, <1>2 DEF IsLeap, LeapYear

LEMMA NextLeapDays ==
    ASSUME NEW y \in Nat, y >= 1970
    PROVE  LeapDays(y) \in Int /\ LeapDays(y + 1) = LeapDays(y) + (IF IsLeap(y) THEN 1 ELSE 0)
<1>1. LeapDays(y) = ((y - 1969) \div 4) - ((y - 1901) \div 100) + ((y - 1601) \div 400)
  BY SMT DEF LeapDays, Trunc
<1>2. LeapDays(y + 1) = ((y - 1968) \div 4) - ((y - 1900) \div 100) + ((y - 1600) \div 400)
  BY SMT DEF LeapDays, Trunc
<1>3. /\ (y - 1968) \div 4 = ((y - 1969) \div 4) + (IF y % 4 = 0 THEN 1 ELSE 0)
      /\ (y - 1900) \div 100 = ((y - 1901) \div 100) + (IF y % 100 = 0 THEN 1 ELSE 0)
      /\ (y - 1600) \div 400 = ((y - 1601) \div 400) + (IF y % 400 = 0 THEN 1 ELSE 0)
  BY SMTT(60)
<1>4. (y - 1969) \div 4 \in Int /\ (y - 1901) \div 100 \in Int /\ (y - 1601) \div 400 \in Int
  BY SMT
<1>5. y % 400 = 0 => y % 100 = 0
  BY SMTT(60)
<1>6. y % 100 = 0 => y % 4 = 0
  BY SMTT(60)
<1>7. QED
  BY <1>1, <1>2, <1>3, <1>4, <1>5, <1>6, SMT DEF IsLeap

LEMMA LeapYearsCounted ==
    ASSUME NEW y \in Nat, y >= 1970
    PROVE  Cardinality(LeapYearsBefore(y)) = LeapDays(y)
<1> DEFINE S == {i \in Nat : IsFiniteSet(LeapYearsBefore(1970 + i))
                               /\ Cardinality(LeapYearsBefore(1970 + i)) = LeapDays(1970 + i)}
           n == y - 1970
<1>1. 0 \in S
  <2>1. LeapYearsBefore(1970 + 0) = {}
    BY SMT DEF LeapYearsBefore
  <2>2. LeapDays(1970 + 0) = 0
    BY SMT DEF LeapDays, Trunc
  <2>3. QED
    BY <2>1, <2>2, FS_EmptySet
<1>2. ASSUME NEW i \in 1 .. n, i - 1 \in S
      PROVE  i \in S
  <2> DEFINE x == 1970 + (i - 1)
             L == LeapYearsBefore(x)
  <2>1. x \in Nat /\ x >= 1970 /\ x + 1 = 1970 + i /\ x \notin L /\ i \in Nat
    BY SMT DEF LeapYearsBefore
  <2>2. IsFiniteSet(L) /\ Cardinality(L) = LeapDays(x)
    BY <1>2
  <2>3. LeapYearsBefore(x + 1) = IF IsLeap(x) THEN L \cup {x} ELSE L
    <3>1. 1970 .. (x + 1) - 1 = (1970 .. x - 1) \cup {x}
      BY <2>1, SMT
    <3> HIDE DEF x
    <3>2. QED
      BY <3>1 DEF LeapYearsBefore
  <2>4. LeapDays(x) \in Int /\ LeapDays(x + 1) = LeapDays(x) + (IF IsLeap(x) THEN 1 ELSE 0)
    BY <2>1, NextLeapDays
  <2> HIDE DEF x, L
  <2>5. IsFiniteSet(L \cup {x}) /\ Cardinality(L \cup {x}) = Cardinality(L) + 1
    BY <2>1, <2>2, FS_AddElement
  <2>6. IsFiniteSet(LeapYearsBefore(x + 1)) /\ Cardinality(LeapYearsBefore(x + 1)) = LeapDays(x + 1)
    BY <2>2, <2>3, <2>4, <2>5
  <2>7. QED
    BY <2>1, <2>6
<1>3. n \in Nat
  BY SMT
<1> HIDE DEF S, n
<1>4. 0 .. n \subseteq S
  BY <1>1, <1>2, <1>3, InductionUpTo
<1>5. n \in S
  BY <1>3, <1>4, SMT
<1>6. 1970 + n = y
  BY SMT DEF n
<1>7. QED
  BY <1>5, <1>6 DEF S

(* The lengths of the months add up to the table of start days. *)
LEMMA MonthsAddUp ==
    ASSUME NEW y \in Nat, NEW m \in 1 .. 12
    PROVE  FirstOfMonths(y)[m] = StartDays[m] + (IF m > 2 /\ LeapYear(y) THEN 1 ELSE 0)
<1> DEFINE leap == IF IsLeap(y) THEN 1 ELSE 0
           g == [k \in 1 .. 12 |-> StartDays[k] + (IF k > 2 THEN leap ELSE 0)]
           next(f) == [k \in 1 .. 12 |-> IF k = 1 THEN 0 ELSE f[k - 1] + MonthLength(y, k - 1)]
           f == FirstOfMonths(y)
<1>1. leap \in {0, 1}
  OBVIOUS
<1>2. /\ MonthLength(y, 1) = 31 /\ MonthLength(y, 2) = 28 + leap /\ MonthLength(y, 3) = 31
      /\ MonthLength(y, 4) = 30 /\ MonthLength(y, 5) = 31 /\ MonthLength(y, 6) = 30
      /\ MonthLength(y, 7) = 31 /\ MonthLength(y, 8) = 31 /\ MonthLength(y, 9) = 30
      /\ MonthLength(y, 10) = 31 /\ MonthLength(y, 11) = 30
  BY SMT DEF MonthLength
<1> HIDE DEF leap
<1>3. g = next(g)
  <2> SUFFICES ASSUME NEW k \in 1 .. 12 PROVE g[k] = next(g)[k]
    BY Zenon
  <2>1. CASE k = 1
    BY <2>1, SMT DEF StartDays
  <2>2. CASE k # 1
    <3>1. k \in {2, 3, 4, 5, 6, 7, 8, 9, 10, 11, 12}
      BY <2>2, SMT
    <3>2. g[k - 1] = StartDays[k - 1] + (IF k - 1 > 2 THEN leap ELSE 0)
      BY <3>1, SMT
    <3>3. StartDays[k - 1] + (IF k - 1 > 2 THEN leap ELSE 0) + MonthLength(y, k - 1) =
             StartDays[k] + (IF k > 2 THEN leap ELSE 0)
      BY <1>1, <1>2, <3>1, SMT DEF StartDays
    <3>4. QED
      BY <2>2, <3>2, <3>3
  <2>3. QED
    BY <2>1, <2>2
<1>4. f = CHOOSE h : h = next(h)
  BY Zenon DEF FirstOfMonths
<1> HIDE DEF g, next, f
<1>5. f = next(f)
  BY <1>3, <1>4, Zenon
<1>6. /\ f[1] = 0
      /\ \A k \in 2 .. 12 : f[k] = f[k - 1] + MonthLength(y, k - 1)
  BY <1>5, SMT DEF next
<1>7. /\ f[2] = f[1] + MonthLength(y, 1) /\ f[3] = f[2] + MonthLength(y, 2)
      /\ f[4] = f[3] + MonthLength(y, 3) /\ f[5] = f[4] + MonthLength(y, 4)
      /\ f[6] = f[5] + MonthLength(y, 5) /\ f[7] = f[6] + MonthLength(y, 6)
      /\ f[8] = f[7] + MonthLength(y, 7) /\ f[9] = f[8] + MonthLength(y, 8)
      /\ f[10] = f[9] + MonthLength(y, 9) /\ f[11] = f[10] + MonthLength(y, 10)
      /\ f[12] = f[11] + MonthLength(y, 11)
  BY <1>6, SMT
<1>8. /\ f[2] = 31 /\ f[3] = 59 + leap /\ f[4] = 90 + leap /\ f[5] = 120 + leap
      /\ f[6] = 151 + leap /\ f[7] = 181 + leap /\ f[8] = 212 + leap /\ f[9] = 243 + leap
      /\ f[10] = 273 + leap /\ f[11] = 304 + leap /\ f[12] = 334 + leap
  BY <1>1, <1>2, <1>6, <1>7, SMT
<1>9. f[m] = StartDays[m] + (IF m > 2 THEN leap ELSE 0)
  BY <1>1, <1>6, <1>8, SMT DEF StartDays
<1>10. IsLeap(y) <=> LeapYear(y)
  BY LeapRule, SMT
<1>11. QED
  BY <1>9, <1>10 DEF f, leap

LEMMA NumberOfDay ==
    ASSUME NEW t, t.year \in Nat, t.year >= 1970, t.month \in 1 .. 12, t.day \in Nat
    PROVE  DayNumber(t) = DaysBefore(t.year, t.month) + t.day - 1 /\ DayNumber(t) \in Int
<1> DEFINE y == t.year
           m == t.month
           leap == IF m > 2 /\ LeapYear(y) THEN 1 ELSE 0
<1>1. Cardinality(LeapYearsBefore(y)) = LeapDays(y)
  BY LeapYearsCounted
<1>2. FirstOfMonths(y)[m] = StartDays[m] + leap
  BY MonthsAddUp
<1>3. LeapDays(y) \in Int /\ StartDays[m] \in Int /\ leap \in Int
  BY NextLeapDays, SMT DEF StartDays
<1> HIDE DEF leap
<1>4. DayNumber(t) = (y - 1970) * 365 + LeapDays(y) + StartDays[m] + t.day - 1 + leap
  BY SMT DEF DayNumber, DaysToYear, leap
<1>5. DaysBefore(y, m) = 365 * (y - 1970) + LeapDays(y) + (StartDays[m] + leap)
  BY <1>1, <1>2, SMT DEF DaysBefore
<1>6. QED
  BY <1>3, <1>4, <1>5, SMT

-----------------------------------------------------------------------------
(* What the setters leave in a Time, whatever they are given. *)
Times == [year : Int, month : 0 .. 12, day : 0 .. 31, hour : 0 .. 24, min : 0 .. 60,
          sec : 0 .. 60, nsec : {0}]

LEMMA SettersBound ==
    ASSUME NEW t \in Times, NEW v \in Int
    PROVE  /\ SetField(t, "year", v) \in Times
           /\ v >= 0 => /\ SetField(t, "month", v) \in Times
                        /\ SetField(t, "day", v) \in Times
                        /\ SetField(t, "hour", v) \in Times
                        /\ SetField(t, "min", v) \in Times
                        /\ SetField(t, "sec", v) \in Times
<1>1. /\ Limit.month = 12 /\ Limit.day = 31 /\ Limit.hour = 24 /\ Limit.min = 60
      /\ Limit.sec = 60
  BY DEF Limit
<1>2. SetField(t, "year", v) \in Times
  BY DEF SetField, Times
<1>3. ASSUME v >= 0 PROVE SetField(t, "month", v) \in Times
  BY <1>1, <1>3 DEF SetField, Times
<1>4. ASSUME v >= 0 PROVE SetField(t, "day", v) \in Times
  BY <1>1, <1>4 DEF SetField, Times
<1>5. ASSUME v >= 0 PROVE SetField(t, "hour", v) \in Times
  BY <1>1, <1>5 DEF SetField, Times
<1>6. ASSUME v >= 0 PROVE SetField(t, "min", v) \in Times
  BY <1>1, <1>6 DEF SetField, Times
<1>7. ASSUME v >= 0 PROVE SetField(t, "sec", v) \in Times
  BY <1>1, <1>7 DEF SetField, Times
<1>8. QED
  BY <1>2, <1>3, <1>4, <1>5, <1>6, <1>7

LEMMA SetTimes ==
    ASSUME NEW y \in Int, NEW g \in Settings
    PROVE  Set(y, g) \in Times
<1> DEFINE a == SetField(NewTime, "year", y)
           b == SetField(a, "month", g.month)
           c == SetField(b, "day", g.day)
           e == SetField(c, "hour", g.hour)
           f == SetField(e, "min", g.min)
<1>0. /\ g.month \in Int /\ g.month >= 0 /\ g.day \in Int /\ g.day >= 0
      /\ g.hour \in Int /\ g.hour >= 0 /\ g.min \in Int /\ g.min >= 0
      /\ g.sec \in Int /\ g.sec >= 0
  <2>1. g \in [month : Nat, day : Nat, hour : Nat, min : Nat, sec : Nat]
    BY InputsAssumption
  <2>2. QED
    BY <2>1
<1>1. NewTime \in Times
  BY DEF NewTime, Times
<1>2. a \in Times
  BY <1>1, SettersBound
<1> HIDE DEF a
<1>3. b \in Times
  BY <1>0, <1>2, SettersBound, Zenon
<1> HIDE DEF b
<1>4. c \in Times
  BY <1>0, <1>3, SettersBound, Zenon
<1> HIDE DEF c
<1>5. e \in Times
  BY <1>0, <1>4, SettersBound, Zenon
<1> HIDE DEF e
<1>6. f \in Times
  BY <1>0, <1>5, SettersBound, Zenon
<1> HIDE DEF f
<1>7. SetField(f, "sec", g.sec) \in Times
  BY <1>0, <1>6, SettersBound, Zenon
<1>8. QED
  BY <1>7, Zenon DEF a, b, c, e, f, Set

Since1970(t) == t.year >= 1970

LEMMA SecondsOfTime ==
    ASSUME NEW t \in Times
    PROVE  Seconds(t) \in Nat
<1>1. t.sec \in Nat /\ t.min \in Nat /\ t.hour \in Nat
  BY SMT DEF Times
<1>2. QED
  BY <1>1, SMT DEF Seconds

(* A day and seconds of it that may reach into the next. *)
LEMMA LaterInstant ==
    ASSUME NEW day \in Nat, NEW x \in Nat
    PROVE  \E d \in Nat, r \in Nat : r < SecondsPerDay /\ Instant(day, x, 0) = At0(d, r, 0)
<1>1. day \in Int /\ x \in Int /\ 0 \in Int
  BY SMT
<1>2. PICK q \in Int, r \in Nat :
          /\ r < SecondsPerDay /\ x = SecondsPerDay * q + r
          /\ Instant(day, x, 0) = At0(day + q, r, 0)
  BY <1>1, InstantParts, Zenon
<1>3. q >= 0
  BY <1>2, SMT DEF SecondsPerDay
<1>4. day + q \in Nat
  BY <1>3, SMT
<1>5. QED
  BY <1>2, <1>4, Zenon

(* In microseconds, as a struct timeval has it. *)
Micro(u) == [u EXCEPT !.nsec = @ \div 1000]

(* The instant of a Time from 1970 on, and the date that is made of it. *)
LEMMA InstantOfTime ==
    ASSUME NEW t \in Times, ~Undefined(t), Since1970(t),
           NEW days, days = DaysBefore(t.year, t.month) + t.day - 1, days >= 0
    PROVE  /\ ToSpec(t) = Instant(days, Seconds(t), 0)
           /\ Micro(ToSpec(t)) = ToSpec(t)
           /\ ToSpec(FromSpec(ToSpec(t))) = ToSpec(t)
           /\ FromSpec(ToSpec(t)).month \in 1 .. 12
           /\ FromSpec(ToSpec(t)).day \in
                  1 .. MonthLength(FromSpec(ToSpec(t)).year, FromSpec(ToSpec(t)).month)
<1>1. t.year \in Nat /\ t.month \in 1 .. 12 /\ t.day \in Nat /\ t.nsec = 0
  BY SMT DEF Times, Since1970, Undefined
<1>2. DayNumber(t) = days /\ days \in Int
  BY <1>1, NumberOfDay, SMT DEF Since1970
<1>3. days \in Nat /\ days \in Int /\ 0 \in Int /\ ~(days < 0)
  BY <1>2, SMT
<1>4. ToSpec(t) = Instant(days, Seconds(t), 0)
  BY <1>1, <1>2, <1>3, Zenon DEF ToSpec
<1>5. Seconds(t) \in Nat
  BY SecondsOfTime
<1>6. PICK d \in Nat, r \in Nat :
          r < SecondsPerDay /\ Instant(days, Seconds(t), 0) = At0(d, r, 0)
  BY <1>3, <1>5, LaterInstant
<1> DEFINE u == FromSpec(At0(d, r, 0))
<1>7. IsDate(u, d, r, 0)
  BY DEF IsDate
<1> HIDE DEF u
<1>8. /\ ToSpec(u) = At0(d, r, 0)
      /\ u.month \in 1 .. 12 /\ u.day \in 1 .. MonthLength(u.year, u.month)
  BY <1>6, <1>7, SpecOfDate
<1>9. ToSpec(t) = At0(d, r, 0)
  BY <1>4, <1>6, Zenon
<1>10. u = FromSpec(ToSpec(t))
  BY <1>9, Zenon DEF u
<1>11. Micro(At0(d, r, 0)) = At0(d, r, 0)
  <2>1. 0 \div 1000 = 0
    BY SMT
  <2>2. QED
    BY <2>1, SMT DEF At0, Micro
<1>13. Micro(ToSpec(t)) = ToSpec(t)
  BY <1>9, <1>11, Zenon
<1>14. QED
  BY <1>4, <1>8, <1>9, <1>10, <1>13, Zenon

LEMMA NextNormal == Next => SetTimesNormalize'
<1> SUFFICES ASSUME Next, call'.fn = "normalize" PROVE SetTimesNormalize'
  BY DEF SetTimesNormalize, In
<1>1. Normalize
  BY CallsOf
<1>2. PICK y \in Years, g \in Settings :
          LET t == Set(y, g)
          IN  \E stray, other \in IF Undefined(t) THEN StrayDays ELSE {0} :
              LET spec == ToSpecOr(t, stray)
              IN  call' = [fn |-> "normalize", time |-> t, spec |-> spec,
                           val |-> ToValOr(t, other), again |-> FromSpec(spec)]
  BY <1>1, Zenon DEF Normalize, Call
<1> DEFINE t == Set(y, g)
<1>3. t \in Times
  <2>1. y \in Int
    BY InputsAssumption
  <2>2. QED
    BY <2>1, SetTimes
<1>4. PICK stray, other : 
          call' = [fn |-> "normalize", time |-> t, spec |-> ToSpecOr(t, stray),
                   val |-> ToValOr(t, other), again |-> FromSpec(ToSpecOr(t, stray))]
  BY <1>2, Zenon
<1> HIDE DEF t
<1>5. /\ call'.time = t /\ call'.spec = ToSpecOr(t, stray) /\ call'.val = ToValOr(t, other)
      /\ call'.again = FromSpec(ToSpecOr(t, stray))
  BY <1>4
<1>9. ASSUME ~Undefined(t)
      PROVE  ToSpecOr(t, stray) = ToSpec(t) /\ ToValOr(t, other) = Micro(ToSpec(t))
  BY <1>9, Zenon DEF ToSpecOr, ToValOr, Micro
<1> DEFINE days == DaysBefore(t.year, t.month) + t.day - 1
<1> HIDE DEF days
<1>6. ASSUME ~Undefined(t), Since1970(t), days >= 0
      PROVE  /\ ToSpec(t) = Instant(days, Seconds(t), 0)
             /\ Micro(ToSpec(t)) = ToSpec(t)
             /\ ToSpec(FromSpec(ToSpec(t))) = ToSpec(t)
             /\ FromSpec(ToSpec(t)).month \in 1 .. 12
             /\ FromSpec(ToSpec(t)).day \in
                    1 .. MonthLength(FromSpec(ToSpec(t)).year, FromSpec(ToSpec(t)).month)
  <2>1. days = DaysBefore(t.year, t.month) + t.day - 1
    BY DEF days
  <2>2. QED
    BY <1>3, <1>6, <2>1, InstantOfTime
<1> DEFINE spec == ToSpecOr(t, stray)
           val == ToValOr(t, other)
<1>7. SetTimesNormalize' <=>
          (~Undefined(t) /\ Since1970(t) /\ days >= 0 =>
               /\ spec = Instant(days, Seconds(t), 0) /\ val = spec
               /\ ToSpec(FromSpec(spec)) = spec
               /\ FromSpec(spec).month \in 1 .. 12
               /\ FromSpec(spec).day \in
                      1 .. MonthLength(FromSpec(spec).year, FromSpec(spec).month))
  BY <1>5, SMT DEF SetTimesNormalize, In, days, Since1970, spec, val
<1> HIDE DEF spec, val
<1>10. ASSUME ~Undefined(t) PROVE spec = ToSpec(t) /\ val = Micro(ToSpec(t))
  BY <1>9, <1>10, Zenon DEF spec, val
<1>11. ASSUME ~Undefined(t), Since1970(t), days >= 0
       PROVE  /\ spec = Instant(days, Seconds(t), 0) /\ val = spec
              /\ ToSpec(FromSpec(spec)) = spec
              /\ FromSpec(spec).month \in 1 .. 12
              /\ FromSpec(spec).day \in
                     1 .. MonthLength(FromSpec(spec).year, FromSpec(spec).month)
  <2>1. spec = ToSpec(t) /\ val = spec
    BY <1>6, <1>10, <1>11, Zenon
  <2>2. QED
    BY <1>6, <1>11, <2>1, Zenon
<1>8. QED
  BY <1>7, <1>11, Zenon

(* A Time whose fields were set is the instant its fields say, and the     *)
(* date made of that is a real one (time.cpp:186-260), whatever values the *)
(* setters accepted but month 0, years whose days overflow an int, and     *)
(* instants before 1970: SetTimesNormalize. *)
THEOREM AlwaysSetTimesNormalize == Spec => []SetTimesNormalize
<1>1. Init => SetTimesNormalize
  BY DEF Init, SetTimesNormalize, In, Idle
<1>2. SetTimesNormalize /\ [Next]_call => SetTimesNormalize'
  BY NextNormal DEF SetTimesNormalize, In
<1>3. QED
  BY <1>1, <1>2, PTL DEF Spec

-----------------------------------------------------------------------------
(* The ends of sets of numbers. *)
LEMMA LeastOf ==
    ASSUME NEW S \in SUBSET Nat, S # {}
    PROVE  Min(S) \in S /\ \A j \in S : Min(S) <= j
<1>1. \E k \in S : \A j \in S : k <= j
  BY LeastNumber
<1>2. QED
  BY <1>1, Zenon DEF Min

LEMMA GreatestOf ==
    ASSUME NEW n \in Nat, NEW S \in SUBSET (-1 .. n), S # {}
    PROVE  Max(S) \in S /\ \A j \in S : Max(S) >= j
<1> DEFINE T == {n - j : j \in S}
<1>1. T \in SUBSET Nat /\ T # {}
  <2>1. \A j \in S : n - j \in Nat
    OBVIOUS
  <2>2. QED
    BY <2>1, Zenon
<1> HIDE DEF T
<1>2. PICK k \in T : \A j \in T : k <= j
  BY <1>1, LeastNumber
<1>3. PICK x \in S : k = n - x
  BY DEF T
<1>4. \A j \in S : x >= j
  <2> SUFFICES ASSUME NEW j \in S PROVE x >= j
    OBVIOUS
  <2>1. n - j \in T
    BY DEF T
  <2>2. n - x <= n - j
    BY <1>2, <1>3, <2>1
  <2>3. x \in Int /\ j \in Int
    OBVIOUS
  <2>4. QED
    BY <2>2, <2>3
<1>5. QED
  BY <1>4, Zenon DEF Max

LEMMA LeastIs ==
    ASSUME NEW S \in SUBSET Int, NEW k \in S, \A j \in S : k <= j
    PROVE  Min(S) = k
<1>1. Min(S) \in S /\ \A j \in S : Min(S) <= j
  BY Zenon DEF Min
<1>2. Min(S) \in Int /\ k \in Int /\ Min(S) <= k /\ k <= Min(S)
  BY <1>1, Zenon
<1>3. QED
  BY <1>2, SMT

LEMMA GreatestIs ==
    ASSUME NEW S \in SUBSET Int, NEW k \in S, \A j \in S : k >= j
    PROVE  Max(S) = k
<1>1. Max(S) \in S /\ \A j \in S : Max(S) >= j
  BY Zenon DEF Max
<1>2. Max(S) \in Int /\ k \in Int /\ Max(S) >= k /\ k >= Max(S)
  BY <1>1, Zenon
<1>3. QED
  BY <1>2, SMT

(* Where a counting loop stops: at x, the first of its reasons S or the    *)
(* end. *)
StopsAt(x, i, end, S) ==
    /\ x \in i .. end
    /\ x = end \/ x \in S
    /\ \A j \in i .. x - 1 : j \notin S

LEMMA LoopStops ==
    ASSUME NEW i \in Nat, NEW end \in Nat, i <= end, NEW S \in SUBSET (i .. end)
    PROVE  StopsAt(Min({end} \cup S), i, end, S)
<1> DEFINE T == {end} \cup S
           x == Min(T)
<1>1. T \in SUBSET Nat /\ T # {} /\ T \subseteq i .. end
  OBVIOUS
<1>2. x \in T /\ \A j \in T : x <= j
  <2> HIDE DEF T
  <2>1. QED
    BY <1>1, LeastOf
<1>3. x \in i .. end /\ (x = end \/ x \in S)
  BY <1>1, <1>2
<1>4. \A j \in S : x <= j
  BY <1>2
<1> HIDE DEF x
<1>5. \A j \in i .. x - 1 : j \notin S
  BY <1>3, <1>4
<1>6. StopsAt(x, i, end, S)
  BY <1>3, <1>5 DEF StopsAt
<1>7. QED
  BY <1>6 DEF x

(* The first of the positions below n, or none. *)
LEMMA FirstFound ==
    ASSUME NEW n \in Nat, NEW S \in SUBSET (0 .. n - 1), NEW x \in 0 .. n,
           x = n \/ x \in S, \A j \in 0 .. x - 1 : j \notin S
    PROVE  AtOrNone(x, n) = FirstOf(S)
<1>1. CASE x = n
  <2>1. S = {}
    BY <1>1
  <2>2. QED
    BY <1>1, <2>1 DEF AtOrNone, FirstOf
<1>2. CASE x # n
  <2>1. x \in S /\ x < n /\ S \in SUBSET Int
    BY <1>2
  <2>2. \A j \in S : x <= j
    <3> SUFFICES ASSUME NEW j \in S, ~(x <= j) PROVE FALSE
      OBVIOUS
    <3>1. j \in 0 .. x - 1
      OBVIOUS
    <3>2. QED
      BY <3>1
  <2>3. Min(S) = x
    BY <2>1, <2>2, LeastIs
  <2>4. QED
    BY <2>1, <2>3 DEF AtOrNone, FirstOf
<1>3. QED
  BY <1>1, <1>2

(* memchr, at any alignment and with words of any size, finds the first.   *)
LEMMA MemChrFinds ==
    ASSUME NEW s, NEW c, NEW n \in Nat, NEW address \in Nat
    PROVE  MemChr(s, c, n, address) = FirstOf({j \in 0 .. n - 1 : At(s, j) = c})
<1> DEFINE W == WordSize
           A == {j \in 0 .. n : (address + j) % W = 0 \/ At(s, j) = c}
           i == Aligned(s, c, n, address)
           K == (n - i) \div W
           B == {k \in 0 .. K : \E j \in 0 .. W - 1 : At(s, i + k * W + j) = c}
           k0 == SkippedWords(s, c, n, i)
           from == i + k0 * W
           C == {j \in from .. n : At(s, j) = c}
           x == Min({n} \cup C)
           S == {j \in 0 .. n - 1 : At(s, j) = c}
<1>1. W \in Nat \ {0}
  BY WordAssumption
<1>2. MemChr(s, c, n, address) = AtOrNone(x, n)
  BY Zenon DEF MemChr, Until
<1>3. i = Min({n} \cup A)
  BY Zenon DEF Aligned, Until
<1>4. k0 = Min({K} \cup B)
  BY Zenon DEF SkippedWords, Until
<1>5. StopsAt(i, 0, n, A)
  <2>1. A \in SUBSET (0 .. n)
    OBVIOUS
  <2> HIDE DEF A
  <2>2. QED
    BY <1>3, <2>1, LoopStops
<1>6. i \in 0 .. n /\ \A j \in 0 .. i - 1 : At(s, j) # c
  BY <1>5 DEF StopsAt
<1> HIDE DEF W, i
<1>7. K \in Nat /\ n - i \in Nat /\ W * K <= n - i
  <2>1. n - i \in Nat
    BY <1>6
  <2>2. n - i \in Int
    BY <2>1, SMT
  <2>3. /\ n - i = W * ((n - i) \div W) + ((n - i) % W) /\ (n - i) % W \in Nat
        /\ (n - i) % W < W /\ (n - i) \div W \in Int
    BY <1>1, <2>2, Division, Zenon
  <2> DEFINE R == (n - i) % W
  <2> HIDE DEF R
  <2>4. n - i = W * K + R /\ R \in Nat /\ K \in Int /\ R < W
    BY <2>3, Zenon DEF R, K
  <2> HIDE DEF K
  <2>5. W * K \in Int
    BY <1>1, <2>4, SMT
  <2>6. W * K <= n - i /\ W * K > -W
    BY <1>1, <2>1, <2>4, <2>5, SMT
  <2>7. K >= 0
    <3> SUFFICES ASSUME K <= -1 PROVE FALSE
      BY <2>4, SMT
    <3>1. W * K <= -W
      BY <1>1, <2>4, SMT
    <3>2. QED
      BY <1>1, <2>5, <2>6, <3>1, SMT
  <2>8. QED
    BY <2>1, <2>4, <2>6, <2>7, SMT
<1> HIDE DEF K
<1>8. StopsAt(k0, 0, K, B)
  <2>1. B \in SUBSET (0 .. K)
    OBVIOUS
  <2> HIDE DEF B
  <2>2. QED
    BY <1>4, <1>7, <2>1, LoopStops
<1>9. k0 \in 0 .. K /\ \A k \in 0 .. k0 - 1 : \A j \in 0 .. W - 1 : At(s, i + k * W + j) # c
  <2>1. k0 \in 0 .. K /\ \A k \in 0 .. k0 - 1 : k \notin B
    BY <1>8, Zenon DEF StopsAt
  <2>2. \A k \in 0 .. k0 - 1 : k \in 0 .. K
    BY <1>7, <2>1, SMT
  <2>3. QED
    BY <2>1, <2>2, Zenon
<1> HIDE DEF k0
<1>10. k0 * W \in Nat /\ k0 * W <= n - i
  <2>1. W * k0 <= W * K
    BY <1>1, <1>7, <1>9, SMT
  <2>2. k0 * W = W * k0 /\ k0 * W \in Nat
    BY <1>1, <1>9, SMT
  <2>3. QED
    BY <1>1, <1>7, <2>1, <2>2, SMT
<1>11. \A j \in i .. from - 1 : At(s, j) # c
  <2> SUFFICES ASSUME NEW j \in i .. from - 1 PROVE At(s, j) # c
    OBVIOUS
  <2> DEFINE q == (j - i) \div W
             r == (j - i) % W
  <2>1. j - i \in Nat /\ j - i \in Int
    BY <1>6
  <2>2. j - i = W * q + r /\ r \in Nat /\ r < W /\ q \in Int
    BY <1>1, <2>1, Division, Zenon
  <2> HIDE DEF q, r
  <2>3. q >= 0
    <3> SUFFICES ASSUME q <= -1 PROVE FALSE
      BY <2>2
    <3>1. W * q <= -W
      BY <1>1, <2>2, SMT
    <3>2. QED
      BY <1>1, <2>1, <2>2, <3>1, SMT
  <2>4. q <= k0 - 1
    <3> SUFFICES ASSUME q >= k0 PROVE FALSE
      BY <1>9, <2>2
    <3>1. W * q >= k0 * W
      BY <1>1, <1>9, <2>2, SMT
    <3>2. j - i < k0 * W
      BY <1>6, <1>10
    <3>3. QED
      BY <1>1, <1>10, <2>1, <2>2, <3>1, <3>2, SMT
  <2>5. At(s, i + q * W + r) # c
    BY <1>1, <1>9, <2>2, <2>3, <2>4
  <2>6. i + q * W + r = j
    BY <1>1, <1>6, <2>1, <2>2, SMT
  <2>7. QED
    BY <2>5, <2>6
<1>12. from \in 0 .. n
  BY <1>6, <1>10
<1> HIDE DEF from
<1>13. StopsAt(x, from, n, C)
  <2>1. C \in SUBSET (from .. n) /\ from \in Nat /\ from <= n
    BY <1>12
  <2> HIDE DEF C
  <2>2. QED
    BY <2>1, LoopStops
<1>14. x \in from .. n /\ (x = n \/ At(s, x) = c) /\ \A j \in from .. x - 1 : At(s, j) # c
  BY <1>13, <1>12 DEF StopsAt
<1> HIDE DEF x
<1>15. \A j \in 0 .. x - 1 : j \notin S
  <2> SUFFICES ASSUME NEW j \in 0 .. x - 1 PROVE At(s, j) # c
    OBVIOUS
  <2>1. j \in 0 .. i - 1 \/ j \in i .. from - 1 \/ j \in from .. x - 1
    BY <1>6, <1>12, <1>14
  <2>2. QED
    BY <1>6, <1>11, <1>14, <2>1
<1>16. x \in 0 .. n /\ (x = n \/ x \in S)
  BY <1>12, <1>14
<1>17. S \in SUBSET (0 .. n - 1)
  OBVIOUS
<1> HIDE DEF S
<1>18. AtOrNone(x, n) = FirstOf(S)
  BY <1>15, <1>16, <1>17, FirstFound
<1>19. QED
  BY <1>2, <1>18, Zenon DEF S

-----------------------------------------------------------------------------
(* Strings with a terminator. *)
LEMMA BoundedIsSeq ==
    ASSUME NEW S, NEW n \in Nat, NEW s \in BoundedSeq(S, n)
    PROVE  s \in Seq(S) /\ Len(s) \in 0 .. n
<1>1. PICK m \in 0 .. n : s \in [1 .. m -> S]
  BY Zenon DEF BoundedSeq, SeqOf
<1>2. QED
  BY <1>1

LEMMA SeqOfMore ==
    ASSUME NEW S, NEW T, S \subseteq T, NEW s \in Seq(S)
    PROVE  s \in Seq(T)
<1>1. Len(s) \in Nat /\ s \in [1 .. Len(s) -> S]
  OBVIOUS
<1>2. s \in [1 .. Len(s) -> T]
  BY <1>1
<1>3. QED
  BY <1>1, <1>2

LEMMA StrLenFinds ==
    ASSUME NEW T, NEW s \in Seq(T)
    PROVE  /\ StrLen(s) \in Nat
           /\ StrLen(s) \in 0 .. Len(s) /\ At(s, StrLen(s)) = 0
           /\ \A j \in 0 .. StrLen(s) - 1 : At(s, j) # 0
           /\ FirstOf({j \in 0 .. Len(s) : At(s, j) = 0}) = StrLen(s)
<1> DEFINE Z == {j \in 0 .. Len(s) : At(s, j) = 0}
           N == StrLen(s)
<1>1. Len(s) \in Nat /\ At(s, Len(s)) = 0
  BY DEF At
<1>2. N = Min({Len(s)} \cup Z)
  BY Zenon DEF StrLen, Until
<1>3. Z \in SUBSET (0 .. Len(s)) /\ Len(s) \in Z
  BY <1>1
<1> HIDE DEF N
<1>4. StopsAt(N, 0, Len(s), Z)
  <2> HIDE DEF Z
  <2>1. QED
    BY <1>1, <1>2, <1>3, LoopStops
<1>5. N \in Z /\ \A j \in 0 .. N - 1 : j \notin Z
  BY <1>3, <1>4 DEF StopsAt
<1>6. N \in 0 .. Len(s) /\ At(s, N) = 0 /\ \A j \in 0 .. N - 1 : At(s, j) # 0
  BY <1>1, <1>5
<1>7. FirstOf(Z) = N
  <2>1. {Len(s)} \cup Z = Z /\ Z # {}
    BY <1>3
  <2>2. QED
    BY <1>2, <2>1, Zenon DEF FirstOf
<1>8. N \in Nat
  BY <1>1, <1>6
<1>9. QED
  BY <1>6, <1>7, <1>8 DEF N

LEMMA WMemChrFinds ==
    ASSUME NEW s, NEW c, NEW n \in Nat
    PROVE  WMemChr(s, c, n) = FirstOf({j \in 0 .. n - 1 : At(s, j) = c})
<1> DEFINE C == {j \in 0 .. n : At(s, j) = c}
           x == Min({n} \cup C)
           S == {j \in 0 .. n - 1 : At(s, j) = c}
<1>1. WMemChr(s, c, n) = AtOrNone(x, n)
  BY Zenon DEF WMemChr, Until
<1>2. StopsAt(x, 0, n, C)
  <2>1. C \in SUBSET (0 .. n)
    OBVIOUS
  <2> HIDE DEF C
  <2>2. QED
    BY <2>1, LoopStops
<1> HIDE DEF x
<1>3. x \in 0 .. n /\ (x = n \/ x \in S) /\ \A j \in 0 .. x - 1 : j \notin S
  BY <1>2 DEF StopsAt
<1>4. S \in SUBSET (0 .. n - 1)
  OBVIOUS
<1> HIDE DEF S
<1>5. AtOrNone(x, n) = FirstOf(S)
  BY <1>3, <1>4, FirstFound
<1>6. QED
  BY <1>1, <1>5, Zenon DEF S

LEMMA WcsChrFinds ==
    ASSUME NEW T, NEW s \in Seq(T), NEW c, c # 0
    PROVE  WcsChr(s, c) = FirstOf({j \in 0 .. StrLen(s) - 1 : At(s, j) = c})
<1>1. StrLen(s) \in Nat
  BY StrLenFinds, Zenon
<1>2. WcsChr(s, c) = WMemChr(s, c, StrLen(s))
  BY Zenon DEF WcsChr, WMemChr
<1>3. QED
  BY <1>1, <1>2, WMemChrFinds

LEMMA FoundIffThere ==
    ASSUME NEW S \in SUBSET Nat
    PROVE  FirstOf(S) # None <=> S # {}
<1>1. CASE S = {}
  BY <1>1 DEF FirstOf
<1>2. CASE S # {}
  <2>1. Min(S) \in Nat
    BY <1>2, LeastOf, Zenon
  <2>2. FirstOf(S) = Min(S)
    BY <1>2, Zenon DEF FirstOf
  <2>3. QED
    BY <1>2, <2>1, <2>2, SMT DEF None
<1>3. QED
  BY <1>1, <1>2, Zenon

(* The characters of s that are in a set, and the first of them or the end.*)
InSet(s, set, n) == {i \in 0 .. n - 1 : \E k \in DOMAIN set : set[k] = At(s, i)}

LEMMA FirstOrEnd ==
    ASSUME NEW n \in Nat, NEW S \in SUBSET (0 .. n - 1)
    PROVE  /\ Min(S \cup {n}) = IF FirstOf(S) # None THEN FirstOf(S) ELSE n
           /\ AtOrNone(Min(S \cup {n}), n) = FirstOf(S)
<1>1. StopsAt(Min({n} \cup S), 0, n, S)
  <2>1. S \in SUBSET (0 .. n)
    OBVIOUS
  <2>2. QED
    BY <2>1, LoopStops
<1>2. {n} \cup S = S \cup {n}
  OBVIOUS
<1> DEFINE x == Min(S \cup {n})
<1>3. StopsAt(x, 0, n, S)
  BY <1>1, <1>2, Zenon
<1> HIDE DEF x
<1>4. x \in 0 .. n /\ (x = n \/ x \in S) /\ \A j \in 0 .. x - 1 : j \notin S
  BY <1>3 DEF StopsAt
<1>5. AtOrNone(x, n) = FirstOf(S)
  BY <1>4, FirstFound
<1>6. x = IF FirstOf(S) # None THEN FirstOf(S) ELSE n
  <2>1. CASE x = n
    BY <1>5, <2>1 DEF AtOrNone
  <2>2. CASE x # n
    <3>1. x < n /\ x # None
      BY <1>4, <2>2 DEF None
    <3>2. QED
      BY <1>5, <3>1 DEF AtOrNone
  <2>3. QED
    BY <2>1, <2>2
<1>7. QED
  BY <1>5, <1>6 DEF x

LEMMA SpansFind ==
    ASSUME NEW T, NEW s \in Seq(T), NEW set \in Seq(Nat \ {0})
    PROVE  /\ StrCSpn(s, set) = Min(InSet(s, set, StrLen(s)) \cup {StrLen(s)})
           /\ WcsCSpn(s, set) = Min(InSet(s, set, StrLen(s)) \cup {StrLen(s)})
<1> DEFINE N == StrLen(s)
           S == InSet(s, set, N)
<1>1. N \in Nat /\ At(s, N) = 0 /\ \A j \in 0 .. N - 1 : At(s, j) # 0
  BY StrLenFinds, Zenon
<1>2. S \in SUBSET (0 .. N - 1)
  BY DEF InSet
<1>3. Min(S \cup {N}) = IF FirstOf(S) # None THEN FirstOf(S) ELSE N
  <2> HIDE DEF S, N
  <2>1. QED
    BY <1>1, <1>2, FirstOrEnd
<1> HIDE DEF N
<1>4. CASE Len(set) = 0
  <2>1. S = {}
    BY <1>4 DEF InSet
  <2>2. Min(S \cup {N}) = N
    BY <1>3, <2>1 DEF FirstOf
  <2>3. QED
    BY <1>4, <2>2 DEF StrCSpn, WcsCSpn, N
<1>5. CASE Len(set) = 1
  <2> DEFINE c == set[1]
             C == {j \in 0 .. N - 1 : At(s, j) = c}
  <2>1. c \in Nat \ {0} /\ DOMAIN set = {1}
    <3>1. DOMAIN set = 1 .. 1 /\ 1 \in 1 .. 1
      BY <1>5
    <3>2. set[1] \in Nat \ {0}
      <4>1. 1 \in 1 .. Len(set)
        BY <1>5
      <4>2. QED
        BY <4>1
    <3>3. QED
      BY <3>1, <3>2
  <2>2. S = C
    BY <2>1 DEF InSet
  <2>3. StrChr(s, c) = FirstOf(C)
    <3>1. StrChr(s, c) = MemChr(s, c, N, 0)
      BY Zenon DEF StrChr, N
    <3>2. QED
      BY <1>1, <3>1, MemChrFinds
  <2>4. WcsChr(s, c) = FirstOf(C)
    BY <2>1, WcsChrFinds DEF N
  <2>5. /\ StrCSpn(s, set) = IF StrChr(s, c) # None THEN StrChr(s, c) ELSE N
        /\ WcsCSpn(s, set) = IF WcsChr(s, c) # None THEN WcsChr(s, c) ELSE N
    BY <1>5 DEF StrCSpn, WcsCSpn, N
  <2> HIDE DEF S, C, c
  <2>6. QED
    BY <1>3, <2>2, <2>3, <2>4, <2>5, Zenon DEF S, N
<1>6. CASE Len(set) # 0 /\ Len(set) # 1
  <2> DEFINE U == {j \in 0 .. N : \E k \in DOMAIN set : set[k] = At(s, j)}
             V == {j \in 0 .. N : WcsChr(set, At(s, j)) # None}
  <2>1. StrCSpn(s, set) = Min({N} \cup U)
    BY <1>6, SMT DEF StrCSpn, Until, N
  <2>2. WcsCSpn(s, set) = Min({N} \cup V)
    BY <1>6, SMT DEF WcsCSpn, Until, N
  <2>3. {N} \cup U = S \cup {N}
    BY <1>1 DEF InSet
  <2>4. ASSUME NEW j \in 0 .. N - 1
        PROVE  WcsChr(set, At(s, j)) # None <=> \E k \in DOMAIN set : set[k] = At(s, j)
    <3> DEFINE c == At(s, j)
               M == StrLen(set)
               P == {i \in 0 .. M - 1 : At(set, i) = c}
    <3>1. c # 0
      BY <1>1
    <3>2. M = Len(set)
      <4>1. M \in 0 .. Len(set) /\ At(set, M) = 0
        BY StrLenFinds
      <4> HIDE DEF M
      <4>2. QED
        BY <4>1 DEF At
    <3> HIDE DEF c, M
    <3>3. WcsChr(set, c) = FirstOf(P)
      BY <3>1, WcsChrFinds DEF M
    <3>4. P \in SUBSET Nat
      OBVIOUS
    <3>5. P # {} <=> \E k \in DOMAIN set : set[k] = c
      <4>1. ASSUME NEW i \in P PROVE i + 1 \in DOMAIN set /\ set[i + 1] = c
        BY <3>2 DEF At
      <4>2. ASSUME NEW k \in DOMAIN set, set[k] = c PROVE k - 1 \in P
        BY <3>2, <4>2 DEF At
      <4>3. QED
        BY <4>1, <4>2
    <3> HIDE DEF P
    <3>6. QED
      BY <3>3, <3>4, <3>5, FoundIffThere DEF c
  <2>5. {N} \cup V = S \cup {N}
    <3>1. ASSUME NEW j \in 0 .. N - 1 PROVE j \in V <=> j \in S
      <4>1. j \in 0 .. N
        BY <1>1
      <4>2. QED
        BY <2>4, <4>1, Zenon DEF InSet
    <3>2. V \subseteq 0 .. N /\ S \subseteq 0 .. N - 1
      BY <1>2
    <3>3. \A j : j \in 0 .. N <=> j \in 0 .. N - 1 \/ j = N
      BY <1>1
    <3> HIDE DEF V, S
    <3>4. QED
      BY <3>1, <3>2, <3>3, Zenon
  <2>6. QED
    BY <2>1, <2>2, <2>3, <2>5, Zenon DEF S, N
<1>7. QED
  BY <1>4, <1>5, <1>6

LEMMA WcsNLenStops ==
    ASSUME NEW T, NEW s \in Seq(T), NEW n \in Nat
    PROVE  WcsNLen(s, n) = Min({StrLen(s), n})
<1> DEFINE N == StrLen(s)
           Z == {j \in 0 .. n - 1 : At(s, j) = 0}
<1>1. N \in 0 .. Len(s) /\ At(s, N) = 0 /\ \A j \in 0 .. N - 1 : At(s, j) # 0
  BY StrLenFinds
<1>2. WMemChr(s, 0, n) = FirstOf(Z)
  BY WMemChrFinds
<1> HIDE DEF N
<1>3. CASE N < n
  <2>1. N \in Z /\ Z \in SUBSET Int
    BY <1>1, <1>3
  <2>2. \A j \in Z : N <= j
    <3> SUFFICES ASSUME NEW j \in Z, ~(N <= j) PROVE FALSE
      OBVIOUS
    <3>1. j \in 0 .. N - 1 /\ At(s, j) = 0
      BY <1>1
    <3>2. QED
      BY <1>1, <3>1
  <2>3. Min(Z) = N
    <3> HIDE DEF Z
    <3>1. QED
      BY <2>1, <2>2, LeastIs
  <2>4. FirstOf(Z) = N /\ N # None
    BY <1>1, <2>1, <2>3 DEF FirstOf, None
  <2>5. Min({N, n}) = N
    <3>1. {N, n} \in SUBSET Int /\ N \in {N, n} /\ \A j \in {N, n} : N <= j
      BY <1>1, <1>3
    <3>2. QED
      BY <3>1, LeastIs, Zenon
  <2>6. QED
    BY <1>2, <2>4, <2>5 DEF WcsNLen, N
<1>4. CASE ~(N < n)
  <2>1. Z = {}
    BY <1>1, <1>4
  <2>2. Min({N, n}) = n
    <3>1. {N, n} \in SUBSET Int /\ n \in {N, n} /\ \A j \in {N, n} : n <= j
      BY <1>1, <1>4
    <3>2. QED
      BY <3>1, LeastIs, Zenon
  <2>3. QED
    BY <1>2, <2>1, <2>2 DEF WcsNLen, FirstOf, N
<1>5. QED
  BY <1>3, <1>4

(* What ScansFindFirst says of a call of the scans. *)
LEMMA ScansFind ==
    ASSUME NEW T, call'.s \in Seq(T), call'.set \in Seq(Nat \ {0}), call'.n \in Nat,
           NEW address \in Nat, call' = Scans(call'.s, call'.c, call'.set, call'.n, address)
    PROVE  ScansFindFirst'
<1> DEFINE s == call'.s
           c == call'.c
           set == call'.set
           n == call'.n
           len == FirstOf({i \in 0 .. Len(s) : At(s, i) = 0})
           buffer == {i \in 0 .. n - 1 : At(s, i) = c}
           string == {i \in 0 .. len : At(s, i) = c}
           in == {i \in 0 .. len - 1 : \E k \in DOMAIN set : set[k] = At(s, i)}
<1>1. len = StrLen(s) /\ len \in Nat
  BY StrLenFinds
<1>2. MemChr(s, c, n, address) = FirstOf(buffer) /\ WMemChr(s, c, n) = FirstOf(buffer)
  BY MemChrFinds, WMemChrFinds
<1>3. MemRChr(s, c, n) = Max(buffer \cup {None})
  <2>1. {None} \cup buffer = buffer \cup {None}
    OBVIOUS
  <2>2. QED
    BY <2>1, Zenon DEF MemRChr
<1>4. in = InSet(s, set, len)
  BY DEF InSet
<1> HIDE DEF len
<1>5. StrRChr(s, c) = Max(string \cup {None}) /\ WcsRChr(s, c) = StrRChr(s, c)
  <2>1. 0 .. (len + 1) - 1 = 0 .. len
    BY <1>1
  <2>2. StrRChr(s, c) = Max({None} \cup {j \in 0 .. (len + 1) - 1 : At(s, j) = c})
    BY <1>1, Zenon DEF StrRChr, MemRChr
  <2>3. WcsRChr(s, c) = Max({None} \cup {j \in 0 .. len : At(s, j) = c})
    BY <1>1, Zenon DEF WcsRChr
  <2>4. {None} \cup string = string \cup {None}
    OBVIOUS
  <2>5. QED
    BY <2>1, <2>2, <2>3, <2>4, Zenon
<1>6. StrCSpn(s, set) = Min(in \cup {len}) /\ WcsCSpn(s, set) = StrCSpn(s, set)
  BY <1>1, <1>4, SpansFind, Zenon
<1>7. StrPBrk(s, set) = FirstOf(in) /\ WcsPBrk(s, set) = StrPBrk(s, set)
  <2>1. in \in SUBSET (0 .. len - 1)
    OBVIOUS
  <2> HIDE DEF in
  <2>2. AtOrNone(Min(in \cup {len}), len) = FirstOf(in)
    BY <1>1, <2>1, FirstOrEnd
  <2>3. QED
    BY <1>1, <1>6, <2>2, Zenon DEF StrPBrk, WcsPBrk
<1>8. WcsNLen(s, n) = Min({len, n})
  BY <1>1, WcsNLenStops
<1>9. /\ call'.memchr = MemChr(s, c, n, address) /\ call'.memrchr = MemRChr(s, c, n)
      /\ call'.wmemchr = WMemChr(s, c, n) /\ call'.wcsnlen = WcsNLen(s, n)
      /\ call'.strcspn = StrCSpn(s, set) /\ call'.wcscspn = WcsCSpn(s, set)
      /\ call'.strpbrk = StrPBrk(s, set) /\ call'.wcspbrk = WcsPBrk(s, set)
      /\ call'.strrchr = StrRChr(s, c) /\ call'.wcsrchr = WcsRChr(s, c)
  BY DEF Scans
<1> HIDE DEF buffer, string, in
<1>10. /\ call'.memchr = FirstOf(buffer) /\ call'.wmemchr = FirstOf(buffer)
       /\ call'.memrchr = Max(buffer \cup {None})
       /\ call'.strrchr = Max(string \cup {None}) /\ call'.wcsrchr = call'.strrchr
       /\ call'.strcspn = Min(in \cup {len}) /\ call'.wcscspn = call'.strcspn
       /\ call'.strpbrk = FirstOf(in) /\ call'.wcspbrk = call'.strpbrk
       /\ call'.wcsnlen = Min({len, n})
  BY <1>2, <1>3, <1>5, <1>6, <1>7, <1>8, <1>9, Zenon
<1>11. QED
  BY <1>10, Zenon DEF ScansFindFirst, buffer, string, in, len

LEMMA NextScans == Next => ScansFindFirst'
<1> SUFFICES ASSUME Next, call'.fn = "scan" PROVE ScansFindFirst'
  BY DEF ScansFindFirst, In
<1>1. Scan
  BY CallsOf
<1>2. PICK s \in BoundedSeq(Letters \cup {0}, MaxBuffer), c \in Letters \cup {0},
           set \in BoundedSeq(Letters, MaxSet), n \in 0 .. MaxBuffer,
           address \in 0 .. WordSize - 1 : call' = Scans(s, c, set, n, address)
  BY <1>1, Zenon DEF Scan, Call
<1>3. s \in Seq(Letters \cup {0})
  <2>1. MaxBuffer \in Nat
    BY InputsAssumption
  <2>2. QED
    BY <2>1, BoundedIsSeq
<1>4. set \in Seq(Nat \ {0})
  <2>1. set \in Seq(Letters) /\ Letters \subseteq Nat \ {0}
    BY BoundedIsSeq, InputsAssumption
  <2>2. QED
    BY <2>1, SeqOfMore, Zenon
<1>5. n \in Nat /\ address \in Nat
  BY InputsAssumption, WordAssumption
<1>6. call'.s = s /\ call'.c = c /\ call'.set = set /\ call'.n = n
  BY <1>2 DEF Scans
<1>7. QED
  BY <1>2, <1>3, <1>4, <1>5, <1>6, ScansFind

(* The scans answer with the first, the r ones with the last, position of  *)
(* what they look for, at any alignment and for words of any size          *)
(* (string.cpp:34-75, 263-315, wchar.cpp:31-76): ScansFindFirst.           *)
THEOREM AlwaysScansFindFirst == Spec => []ScansFindFirst
<1>1. Init => ScansFindFirst
  BY DEF Init, ScansFindFirst, In, Idle
<1>2. ScansFindFirst /\ [Next]_call => ScansFindFirst'
  BY NextScans DEF ScansFindFirst, In
<1>3. QED
  BY <1>1, <1>2, PTL DEF Spec

-----------------------------------------------------------------------------
(* Where two strings differ. *)
Differences(l, r) == {i \in 0 .. Max({Len(l), Len(r)}) : At(l, i) # At(r, i)}
SignOf(l, r, n) ==
    IF Differences(l, r) = {} \/ FirstOf(Differences(l, r)) >= n THEN 0
    ELSE At(l, FirstOf(Differences(l, r))) - At(r, FirstOf(Differences(l, r)))

LEMMA WhereTheyDiffer ==
    ASSUME NEW l \in Seq(Nat \ {0}), NEW r \in Seq(Nat \ {0})
    PROVE  /\ Differences(l, r) \in SUBSET Nat
           /\ \A i \in Nat : i \in Differences(l, r) <=> At(l, i) # At(r, i)
<1> DEFINE m == Max({Len(l), Len(r)})
<1>1. m \in Nat /\ m >= Len(l) /\ m >= Len(r)
  <2>1. CASE Len(l) >= Len(r)
    <3>1. m = Len(l)
      <4>1. /\ {Len(l), Len(r)} \in SUBSET Int /\ Len(l) \in {Len(l), Len(r)}
            /\ \A j \in {Len(l), Len(r)} : Len(l) >= j
        BY <2>1
      <4>2. QED
        BY <4>1, GreatestIs, Zenon
    <3>2. QED
      BY <2>1, <3>1
  <2>2. CASE ~(Len(l) >= Len(r))
    <3>1. m = Len(r)
      <4>1. /\ {Len(l), Len(r)} \in SUBSET Int /\ Len(r) \in {Len(l), Len(r)}
            /\ \A j \in {Len(l), Len(r)} : Len(r) >= j
        BY <2>2
      <4>2. QED
        BY <4>1, GreatestIs, Zenon
    <3>2. QED
      BY <2>2, <3>1
  <2>3. QED
    BY <2>1, <2>2
<1> HIDE DEF m
<1>2. Differences(l, r) = {i \in 0 .. m : At(l, i) # At(r, i)}
  BY Zenon DEF Differences, m
<1>3. ASSUME NEW i \in Nat, At(l, i) # At(r, i) PROVE i \in 0 .. m
  BY <1>1, <1>3 DEF At
<1>4. QED
  BY <1>1, <1>2, <1>3

LEMMA Characters ==
    ASSUME NEW s \in Seq(Nat \ {0}), NEW i \in Nat
    PROVE  At(s, i) \in Nat /\ (At(s, i) = 0 <=> i >= Len(s))
  BY DEF At

(* The first difference is where a loop that found none before stops at    *)
(* one. *)
LEMMA FirstDifference ==
    ASSUME NEW l \in Seq(Nat \ {0}), NEW r \in Seq(Nat \ {0}), NEW i \in Nat,
           \A j \in 0 .. i - 1 : At(l, j) = At(r, j)
    PROVE  /\ At(l, i) # At(r, i) => /\ Differences(l, r) # {}
                                     /\ FirstOf(Differences(l, r)) = i
           /\ Differences(l, r) # {} => /\ FirstOf(Differences(l, r)) \in Nat
                                        /\ FirstOf(Differences(l, r)) >= i
<1> DEFINE D == Differences(l, r)
<1>1. D \in SUBSET Nat /\ \A j \in Nat : j \in D <=> At(l, j) # At(r, j)
  BY WhereTheyDiffer
<1> HIDE DEF D
<1>2. \A j \in D : i <= j
  <2> SUFFICES ASSUME NEW j \in D, ~(i <= j) PROVE FALSE
    OBVIOUS
  <2>1. j \in 0 .. i - 1 /\ j \in Nat
    BY <1>1
  <2>2. QED
    BY <1>1, <2>1
<1>3. ASSUME At(l, i) # At(r, i) PROVE D # {} /\ FirstOf(D) = i
  <2>1. i \in D /\ D \in SUBSET Int
    BY <1>1, <1>3
  <2>2. Min(D) = i
    BY <1>2, <2>1, LeastIs
  <2>3. QED
    BY <2>1, <2>2 DEF FirstOf
<1>4. ASSUME D # {} PROVE FirstOf(D) \in Nat /\ FirstOf(D) >= i
  <2>1. Min(D) \in D
    BY <1>1, <1>4, LeastOf
  <2>2. QED
    BY <1>1, <1>2, <1>4, <2>1 DEF FirstOf
<1>5. QED
  BY <1>3, <1>4 DEF D

LEMMA MemCmpOrders ==
    ASSUME NEW l \in Seq(Nat \ {0}), NEW r \in Seq(Nat \ {0}), NEW n \in Nat
    PROVE  MemCmp(l, r, n) = SignOf(l, r, n)
<1> DEFINE C == {j \in 0 .. n : At(l, j) # At(r, j)}
           i == Min({n} \cup C)
<1>1. MemCmp(l, r, n) = IF i < n THEN At(l, i) - At(r, i) ELSE 0
  BY Zenon DEF MemCmp, Until
<1>2. StopsAt(i, 0, n, C)
  <2>1. C \in SUBSET (0 .. n)
    OBVIOUS
  <2> HIDE DEF C
  <2>2. QED
    BY <2>1, LoopStops
<1> HIDE DEF i
<1>3. i \in 0 .. n /\ (i = n \/ At(l, i) # At(r, i)) /\ \A j \in 0 .. i - 1 : At(l, j) = At(r, j)
  BY <1>2 DEF StopsAt
<1> DEFINE d == FirstOf(Differences(l, r))
           D == Differences(l, r)
<1>4. /\ At(l, i) # At(r, i) => D # {} /\ d = i
      /\ D # {} => d \in Nat /\ d >= i
  BY <1>3, FirstDifference
<1>5. SignOf(l, r, n) = IF D = {} \/ d >= n THEN 0 ELSE At(l, d) - At(r, d)
  BY Zenon DEF SignOf
<1> HIDE DEF d, D
<1>6. CASE i < n
  BY <1>1, <1>3, <1>4, <1>5, <1>6
<1>7. CASE ~(i < n)
  BY <1>1, <1>3, <1>4, <1>5, <1>7
<1>8. QED
  BY <1>6, <1>7

LEMMA StrNCmpOrders ==
    ASSUME NEW l \in Seq(Nat \ {0}), NEW r \in Seq(Nat \ {0}), NEW n \in Nat
    PROVE  StrNCmp(l, r, n) = SignOf(l, r, n)
<1> DEFINE C == {j \in 0 .. n - 1 : At(l, j) = 0 \/ At(r, j) = 0 \/ At(l, j) # At(r, j)}
           i == Min({n - 1} \cup C)
           d == FirstOf(Differences(l, r))
           D == Differences(l, r)
<1>1. StrNCmp(l, r, n) = IF n = 0 THEN 0 ELSE At(l, i) - At(r, i)
  BY Zenon DEF StrNCmp, Until
<1>2. SignOf(l, r, n) = IF D = {} \/ d >= n THEN 0 ELSE At(l, d) - At(r, d)
  BY Zenon DEF SignOf
<1>3. CASE n = 0
  <2>1. D # {} => d \in Nat
    BY FirstDifference
  <2> HIDE DEF d, D
  <2>2. QED
    BY <1>1, <1>2, <1>3, <2>1
<1>4. CASE n # 0
  <2>1. StopsAt(i, 0, n - 1, C)
    <3>1. C \in SUBSET (0 .. n - 1) /\ n - 1 \in Nat /\ 0 <= n - 1
      BY <1>4
    <3> HIDE DEF C
    <3>2. QED
      BY <3>1, LoopStops
  <2> HIDE DEF i
  <2>2. /\ i \in 0 .. n - 1
        /\ i = n - 1 \/ At(l, i) = 0 \/ At(r, i) = 0 \/ At(l, i) # At(r, i)
        /\ \A j \in 0 .. i - 1 : At(l, j) = At(r, j)
    BY <1>4, <2>1 DEF StopsAt
  <2>3. /\ At(l, i) # At(r, i) => D # {} /\ d = i
        /\ D # {} => d \in Nat /\ d >= i
    BY <2>2, FirstDifference
  <2>4. D # {} => d \in D
    <3>1. D \in SUBSET Nat
      BY WhereTheyDiffer
    <3> HIDE DEF D
    <3>2. QED
      BY <3>1, LeastOf DEF FirstOf, D
  <2>5. \A j \in Nat : j \in D <=> At(l, j) # At(r, j)
    BY WhereTheyDiffer
  <2> HIDE DEF d, D
  <2>6. CASE At(l, i) # At(r, i)
    BY <1>1, <1>2, <1>4, <2>2, <2>3, <2>6
  <2>7. CASE At(l, i) = At(r, i) /\ At(l, i) # 0
    <3>1. i = n - 1 /\ At(l, i) \in Nat
      BY <2>2, <2>7, Characters
    <3>2. D = {} \/ d >= n
      <4> SUFFICES ASSUME D # {} PROVE d >= n
        OBVIOUS
      <4>1. d \in Nat /\ d >= i /\ i \in Nat
        BY <2>2, <2>3
      <4>2. d # i
        BY <2>4, <2>5, <2>7, <4>1, Zenon
      <4>3. QED
        BY <3>1, <4>1, <4>2
    <3>3. QED
      BY <1>1, <1>2, <1>4, <2>7, <3>1, <3>2
  <2>8. CASE At(l, i) = At(r, i) /\ At(l, i) = 0
    <3>1. i >= Len(l) /\ i >= Len(r)
      <4>1. i \in Nat /\ At(l, i) = 0 /\ At(r, i) = 0
        BY <2>2, <2>8
      <4>2. QED
        BY <4>1, Characters, Zenon
    <3>2. D = {}
      <4> SUFFICES ASSUME D # {} PROVE FALSE
        OBVIOUS
      <4>1. d \in Nat /\ d >= Len(l) /\ d >= Len(r)
        BY <2>2, <2>3, <3>1
      <4>2. At(l, d) = 0 /\ At(r, d) = 0
        BY <4>1, Characters
      <4>3. QED
        BY <2>4, <2>5, <4>1, <4>2
    <3>3. QED
      BY <1>1, <1>2, <1>4, <2>8, <3>2
  <2>9. QED
    BY <2>6, <2>7, <2>8
<1>5. QED
  BY <1>3, <1>4

LEMMA NCompareOrders ==
    ASSUME NEW l \in Seq(Nat \ {0}), NEW r \in Seq(Nat \ {0})
    PROVE  /\ NCompare(l, r) = 0 <=> l = r
           /\ NCompare(l, r) > 0 =>
                  Len(l) <= Len(r) /\ NCompare(l, r) = FirstOf(Differences(l, r)) + 1
<1> DEFINE n == Len(r)
           C == {j \in 0 .. n : At(l, j) # At(r, j)}
           i == Min({n} \cup C)
<1>1. NCompare(l, r) = IF Len(l) > n THEN -1 ELSE IF i < n THEN i + 1 ELSE 0
  BY Zenon DEF NCompare, Until
<1>2. StopsAt(i, 0, n, C)
  <2>1. C \in SUBSET (0 .. n) /\ n \in Nat
    OBVIOUS
  <2> HIDE DEF C, n
  <2>2. QED
    BY <2>1, LoopStops
<1> HIDE DEF i
<1>3. i \in 0 .. n /\ (i = n \/ At(l, i) # At(r, i)) /\ \A j \in 0 .. i - 1 : At(l, j) = At(r, j)
  BY <1>2 DEF StopsAt
<1>4. At(l, i) # At(r, i) => FirstOf(Differences(l, r)) = i
  BY <1>3, FirstDifference
<1>5. ASSUME l = r PROVE ~(Len(l) > n) /\ ~(i < n)
  <2>1. ~(Len(l) > n)
    BY <1>5
  <2>2. At(l, i) = At(r, i)
    BY <1>5
  <2>3. QED
    BY <1>3, <2>1, <2>2
<1>6. ASSUME ~(Len(l) > n), ~(i < n) PROVE l = r
  <2>1. \A j \in 0 .. n - 1 : At(l, j) = At(r, j)
    BY <1>3, <1>6
  <2>2. Len(l) = n
    <3> SUFFICES ASSUME Len(l) < n PROVE FALSE
      BY <1>6
    <3>1. Len(l) \in 0 .. n - 1
      OBVIOUS
    <3>2. At(l, Len(l)) = 0 /\ At(r, Len(l)) # 0
      BY <3>1, Characters
    <3>3. QED
      BY <2>1, <3>1, <3>2
  <2>3. ASSUME NEW k \in 1 .. n PROVE l[k] = r[k]
    <3>1. k - 1 \in 0 .. n - 1
      OBVIOUS
    <3>2. At(l, k - 1) = l[k] /\ At(r, k - 1) = r[k]
      BY <2>2, <3>1 DEF At
    <3>3. QED
      BY <2>1, <3>1, <3>2
  <2>4. QED
    BY <2>2, <2>3
<1> HIDE DEF n
<1>7. n \in Nat
  BY DEF n
<1>8. i < n => At(l, i) # At(r, i)
  BY <1>3, <1>7
<1>9. QED
  BY <1>1, <1>3, <1>4, <1>5, <1>6, <1>7, <1>8 DEF n

LEMMA NextComparisons == Next => ComparisonsOrder'
<1> SUFFICES ASSUME Next, call'.fn = "order" PROVE ComparisonsOrder'
  BY DEF ComparisonsOrder, In
<1>1. Order
  BY CallsOf
<1>2. PICK l \in Keywords, r \in Keywords, n \in 0 .. MaxWord :
          call' = [fn |-> "order", l |-> l, r |-> r, n |-> n, strncmp |-> StrNCmp(l, r, n),
                   memcmp |-> MemCmp(l, r, n), ncompare |-> NCompare(l, r)]
  BY <1>1 DEF Order, Call
<1>3. l \in Seq(Nat \ {0}) /\ r \in Seq(Nat \ {0}) /\ n \in Nat
  <2>1. l \in Seq(Letters) /\ r \in Seq(Letters) /\ Letters \subseteq Nat \ {0}
    BY BoundedIsSeq, InputsAssumption DEF Keywords
  <2>2. l \in Seq(Nat \ {0}) /\ r \in Seq(Nat \ {0})
    BY <2>1, SeqOfMore, Zenon
  <2>3. n \in Nat
    OBVIOUS
  <2>4. QED
    BY <2>2, <2>3
<1>4. StrNCmp(l, r, n) = SignOf(l, r, n) /\ MemCmp(l, r, n) = SignOf(l, r, n)
  BY <1>3, StrNCmpOrders, MemCmpOrders
<1>5. /\ NCompare(l, r) = 0 <=> l = r
      /\ NCompare(l, r) > 0 =>
             Len(l) <= Len(r) /\ NCompare(l, r) = FirstOf(Differences(l, r)) + 1
  BY <1>3, NCompareOrders
<1>6. /\ call'.l = l /\ call'.r = r /\ call'.n = n
      /\ call'.strncmp = StrNCmp(l, r, n) /\ call'.memcmp = MemCmp(l, r, n)
      /\ call'.ncompare = NCompare(l, r)
  BY <1>2
<1>7. QED
  BY <1>4, <1>5, <1>6, Zenon DEF ComparisonsOrder, SignOf, Differences

(* memcmp and strncmp order strings by their first difference, which       *)
(* sys::ncompare reports, and only equal ones compare equal                *)
(* (string.cpp:46-52, 255-261, utils.cpp:157-165): ComparisonsOrder.       *)
THEOREM AlwaysComparisonsOrder == Spec => []ComparisonsOrder
<1>1. Init => ComparisonsOrder
  BY DEF Init, ComparisonsOrder, In, Idle
<1>2. ComparisonsOrder /\ [Next]_call => ComparisonsOrder'
  BY NextComparisons DEF ComparisonsOrder, In
<1>3. QED
  BY <1>1, <1>2, PTL DEF Spec

-----------------------------------------------------------------------------
(* A command of the command line, what an argument does to it, and what is *)
(* true of it however many arguments were parsed. *)
DefaultTexts == Seq(Seq(Int))
CmdsOf(K, X) ==
    [key : K, skey : X, required : BOOLEAN, found : BOOLEAN, value : Nat, default : DefaultTexts]
SameOptions(new, cmd) ==
    /\ new.key = cmd.key /\ new.skey = cmd.skey /\ new.required = cmd.required
    /\ new.default = cmd.default
Kinds(argv) == \A i \in DOMAIN argv : argv[i].kind \in {"long", "short", "plain"}

Told(cmd, argv) ==
    /\ cmd.found => \E i \in DOMAIN argv : Names(argv[i], cmd)
    /\ cmd.value # Default =>
           /\ cmd.found
           /\ \/ /\ argv[cmd.value].kind = "long" /\ Names(argv[cmd.value], cmd)
                 /\ HasValue(argv[cmd.value])
              \/ \E i \in {j \in DOMAIN argv : argv[j].kind = "short"} :
                     i < cmd.value /\ Names(argv[i], cmd)

(* Of the arguments in front of next, as long as there is no short option. *)
Counted(cmd, argv, next) ==
    /\ cmd.found <=> \E i \in 1 .. next - 1 : Names(argv[i], cmd)
    /\ cmd.value # Default =>
           cmd.value \in 1 .. next - 1 /\ Names(argv[cmd.value], cmd) /\ HasValue(argv[cmd.value])
    /\ \A i \in 1 .. next - 1 : Names(argv[i], cmd) /\ HasValue(argv[i]) => i <= cmd.value

LEMMA SameNames ==
    ASSUME NEW cmd, NEW new, SameOptions(new, cmd), NEW arg
    PROVE  Names(arg, new) <=> Names(arg, cmd)
  BY DEF Names, SameOptions

(* What a long argument does to a command, and a short option with the     *)
(* argument v of n behind it. *)
LongStep(cmd, argv, i) ==
    IF cmd.key # KeyOf(argv[i]) THEN cmd
    ELSE [cmd EXCEPT !.found = TRUE, !.value = IF HasValue(argv[i]) THEN i ELSE @]
ShortStep(cmd, skey, v, n) ==
    IF cmd.skey # skey THEN cmd
    ELSE [cmd EXCEPT !.found = TRUE, !.value = IF v <= n THEN v ELSE @]

LEMMA LongTold ==
    ASSUME NEW K, NEW X, NEW cmd \in CmdsOf(K, X), NEW argv, NEW i \in DOMAIN argv, i \in Nat \ {0},
           argv[i].kind = "long"
    PROVE  /\ LongStep(cmd, argv, i) \in CmdsOf(K, X) /\ SameOptions(LongStep(cmd, argv, i), cmd)
           /\ Told(cmd, argv) => Told(LongStep(cmd, argv, i), argv)
           /\ Counted(cmd, argv, i) => Counted(LongStep(cmd, argv, i), argv, i + 1)
<1> DEFINE new == LongStep(cmd, argv, i)
<1>0. new = IF cmd.key # KeyOf(argv[i]) THEN cmd
            ELSE [cmd EXCEPT !.found = TRUE, !.value = IF HasValue(argv[i]) THEN i ELSE @]
  BY Zenon DEF LongStep
<1> HIDE DEF new
<1>1. Names(argv[i], cmd) <=> KeyOf(argv[i]) = cmd.key
  BY DEF Names
<1>2. CASE cmd.key # KeyOf(argv[i])
  <2>1. new = cmd
    BY <1>0, <1>2
  <2>2. ~Names(argv[i], cmd)
    BY <1>1, <1>2
  <2>3. cmd.value \in Nat
    BY DEF CmdsOf
  <2>4. ASSUME Counted(cmd, argv, i) PROVE Counted(cmd, argv, i + 1)
    <3>1. 1 .. (i + 1) - 1 = (1 .. i - 1) \cup {i}
      OBVIOUS
    <3>2. QED
      BY <2>2, <2>4, <3>1 DEF Counted
  <2>5. new \in CmdsOf(K, X) /\ SameOptions(new, cmd)
    BY <2>1 DEF SameOptions
  <2>6. QED
    BY <2>1, <2>4, <2>5, Zenon DEF new
<1>3. CASE cmd.key = KeyOf(argv[i])
  <2>1. Names(argv[i], cmd)
    BY <1>1, <1>3
  <2>2. /\ new \in CmdsOf(K, X) /\ new.found = TRUE
        /\ new.value = IF HasValue(argv[i]) THEN i ELSE cmd.value
        /\ SameOptions(new, cmd)
    BY <1>0, <1>3 DEF CmdsOf, SameOptions
  <2>3. \A j : Names(argv[j], new) <=> Names(argv[j], cmd)
    BY <2>2, SameNames
  <2>4. ASSUME Told(cmd, argv) PROVE Told(new, argv)
    <3>1. CASE HasValue(argv[i])
      BY <2>1, <2>2, <2>3, <3>1 DEF Told
    <3>2. CASE ~HasValue(argv[i])
      BY <2>1, <2>2, <2>3, <2>4, <3>2 DEF Told
    <3>3. QED
      BY <3>1, <3>2
  <2>5. ASSUME Counted(cmd, argv, i) PROVE Counted(new, argv, i + 1)
    <3>1. 1 .. (i + 1) - 1 = (1 .. i - 1) \cup {i} /\ i # Default
      BY DEF Default
    <3>2. cmd.value \in Nat
      BY DEF CmdsOf
    <3>3. CASE HasValue(argv[i])
      BY <2>1, <2>2, <2>3, <2>5, <3>1, <3>3 DEF Counted
    <3>4. CASE ~HasValue(argv[i])
      BY <2>1, <2>2, <2>3, <2>5, <3>1, <3>2, <3>4 DEF Counted
    <3>5. QED
      BY <3>3, <3>4
  <2>6. QED
    BY <2>2, <2>4, <2>5, Zenon DEF new
<1>4. QED
  BY <1>2, <1>3, Zenon

LEMMA ShortTold ==
    ASSUME NEW K, NEW X, NEW cmd \in CmdsOf(K, X), NEW argv, NEW i \in DOMAIN argv, i \in Nat \ {0},
           argv[i].kind = "short", NEW v \in Nat, v > i, NEW n
    PROVE  /\ ShortStep(cmd, argv[i].skey, v, n) \in CmdsOf(K, X)
           /\ SameOptions(ShortStep(cmd, argv[i].skey, v, n), cmd)
           /\ Told(cmd, argv) => Told(ShortStep(cmd, argv[i].skey, v, n), argv)
<1> DEFINE new == ShortStep(cmd, argv[i].skey, v, n)
<1>0. new = IF cmd.skey # argv[i].skey THEN cmd
            ELSE [cmd EXCEPT !.found = TRUE, !.value = IF v <= n THEN v ELSE @]
  BY Zenon DEF ShortStep
<1> HIDE DEF new
<1>1. CASE cmd.skey # argv[i].skey
  <2>1. new = cmd
    BY <1>0, <1>1
  <2>2. new \in CmdsOf(K, X) /\ SameOptions(new, cmd)
    BY <2>1 DEF SameOptions
  <2>3. QED
    BY <2>1, <2>2, Zenon DEF new
<1>2. CASE cmd.skey = argv[i].skey
  <2>1. Names(argv[i], cmd)
    BY <1>2 DEF Names
  <2>2. /\ new \in CmdsOf(K, X) /\ new.found = TRUE
        /\ new.value = IF v <= n THEN v ELSE cmd.value
        /\ SameOptions(new, cmd)
    BY <1>0, <1>2 DEF CmdsOf, SameOptions
  <2>3. \A j : Names(argv[j], new) <=> Names(argv[j], cmd)
    BY <2>2, SameNames
  <2>4. ASSUME Told(cmd, argv) PROVE Told(new, argv)
    <3>1. CASE v <= n
      BY <2>1, <2>2, <2>3, <3>1 DEF Told
    <3>2. CASE ~(v <= n)
      BY <2>1, <2>2, <2>3, <2>4, <3>2 DEF Told
    <3>3. QED
      BY <3>1, <3>2
  <2>5. QED
    BY <2>2, <2>4, Zenon DEF new
<1>3. QED
  BY <1>1, <1>2, Zenon

(* One turn of parseCmd's loop. *)
ParseStates(K, X) == [cmds : Seq(CmdsOf(K, X)), next : Nat \ {0}]
AtEnd(st, argv) == st.next > Len(argv) \/ argv[st.next].kind = "plain"

LEMMA ParseOneTurn ==
    ASSUME NEW K, NEW X, NEW A, NEW argv \in Seq(A), Kinds(argv), NEW st \in ParseStates(K, X),
           NEW new, new = ParseOne(st, argv)
    PROVE  /\ new \in ParseStates(K, X) /\ Len(new.cmds) = Len(st.cmds)
           /\ \A c \in 1 .. Len(st.cmds) :
                  /\ SameOptions(new.cmds[c], st.cmds[c])
                  /\ Told(st.cmds[c], argv) => Told(new.cmds[c], argv)
           /\ AtEnd(st, argv) => new = st
           /\ ~AtEnd(st, argv) /\ argv[st.next].kind = "long" =>
                  /\ new.next = st.next + 1
                  /\ \A c \in 1 .. Len(st.cmds) :
                         Counted(st.cmds[c], argv, st.next) => Counted(new.cmds[c], argv, st.next + 1)
<1> DEFINE i == st.next
           cmds == st.cmds
           n == Len(cmds)
<1>1. /\ i \in Nat \ {0} /\ cmds \in Seq(CmdsOf(K, X)) /\ n \in Nat /\ DOMAIN cmds = 1 .. n
      /\ \A c \in 1 .. n : cmds[c] \in CmdsOf(K, X)
  BY DEF ParseStates
<1>2. DOMAIN argv = 1 .. Len(argv) /\ Len(argv) \in Nat
  OBVIOUS
<1>3. CASE AtEnd(st, argv)
  <2>1. new = st
    BY <1>1, <1>2, <1>3 DEF ParseOne, AtEnd
  <2>2. QED
    BY <1>3, <2>1 DEF SameOptions
<1>4. CASE ~AtEnd(st, argv) /\ argv[i].kind = "long"
  <2>1. new = [cmds |-> ParseLong(cmds, argv, i), next |-> i + 1]
    BY <1>1, <1>2, <1>4 DEF ParseOne, AtEnd
  <2>2. i \in DOMAIN argv
    BY <1>1, <1>2, <1>4 DEF AtEnd
  <2> DEFINE N(c) == LongStep(cmds[c], argv, i)
  <2>3. ParseLong(cmds, argv, i) = [c \in 1 .. n |-> N(c)]
    BY <1>1, Zenon DEF ParseLong, LongStep
  <2>4. ASSUME NEW c \in 1 .. n
        PROVE  /\ N(c) \in CmdsOf(K, X) /\ SameOptions(N(c), cmds[c])
               /\ Told(cmds[c], argv) => Told(N(c), argv)
               /\ Counted(cmds[c], argv, i) => Counted(N(c), argv, i + 1)
    <3>1. cmds[c] \in CmdsOf(K, X)
      BY <1>1
    <3> HIDE DEF i, cmds
    <3>2. QED
      BY <1>1, <1>4, <2>2, <3>1, LongTold, Zenon
  <2> HIDE DEF N, i, cmds, n
  <2>5. /\ new.next = i + 1 /\ Len(new.cmds) = n /\ new.cmds \in Seq(CmdsOf(K, X))
        /\ new \in ParseStates(K, X)
        /\ \A c \in 1 .. n : new.cmds[c] = N(c)
    BY <1>1, <2>1, <2>3, <2>4 DEF ParseStates
  <2>6. QED
    BY <1>4, <2>4, <2>5 DEF i, cmds, n
<1>5. CASE ~AtEnd(st, argv) /\ argv[i].kind # "long"
  <2> DEFINE skey == argv[i].skey
             taken(c) == i + Cardinality(Sharing(cmds, skey, c))
             N(c) == ShortStep(cmds[c], skey, taken(c), Len(argv))
             after == i + 1 + Cardinality(Sharing(cmds, skey, n))
  <2>1. new = [cmds |-> ParseShort(cmds, argv, i), next |-> after]
    BY <1>1, <1>2, <1>5 DEF ParseOne, AtEnd
  <2>2. i \in DOMAIN argv /\ argv[i].kind = "short"
    BY <1>1, <1>2, <1>5 DEF AtEnd, Kinds
  <2>3. ParseShort(cmds, argv, i) = [c \in 1 .. n |-> N(c)]
    BY <1>1, Zenon DEF ParseShort, ShortStep
  <2>4. ASSUME NEW c \in 0 .. n
        PROVE  /\ IsFiniteSet(Sharing(cmds, skey, c))
               /\ Cardinality(Sharing(cmds, skey, c)) \in Nat
               /\ c \in Sharing(cmds, skey, c) => Cardinality(Sharing(cmds, skey, c)) > 0
    <3> DEFINE S == Sharing(cmds, skey, c)
    <3>1. S \subseteq 1 .. c /\ 1 \in Int /\ c \in Int
      BY <1>1 DEF Sharing
    <3> HIDE DEF S
    <3>2. IsFiniteSet(S)
      BY <3>1, FS_Interval, FS_Subset
    <3>3. Cardinality(S) \in Nat
      BY <3>2, FS_CardinalityType
    <3>4. c \in S => Cardinality(S) # 0
      BY <3>2, FS_EmptySet
    <3>5. QED
      BY <3>2, <3>3, <3>4 DEF S
  <2>5. ASSUME NEW c \in 1 .. n
        PROVE  /\ N(c) \in CmdsOf(K, X) /\ SameOptions(N(c), cmds[c])
               /\ Told(cmds[c], argv) => Told(N(c), argv)
    <3>1. cmds[c] \in CmdsOf(K, X)
      BY <1>1
    <3>2. CASE cmds[c].skey # skey
      <4>1. N(c) = cmds[c]
        BY <3>2, Zenon DEF ShortStep
      <4>2. QED
        BY <3>1, <4>1 DEF SameOptions
    <3>3. CASE cmds[c].skey = skey
      <4>1. c \in Sharing(cmds, skey, c)
        BY <1>1, <3>3 DEF Sharing
      <4> DEFINE v == taken(c)
      <4>2. v \in Nat /\ v > i
        BY <1>1, <2>4, <4>1
      <4>3. N(c) = ShortStep(cmds[c], argv[i].skey, v, Len(argv))
        BY Zenon
      <4> HIDE DEF v, N, i, cmds
      <4>4. QED
        BY <1>1, <2>2, <3>1, <4>2, <4>3, ShortTold, ZenonT(30)
    <3>4. QED
      BY <3>2, <3>3
  <2>6. after \in Nat \ {0}
    BY <1>1, <2>4, SMTT(30)
  <2> HIDE DEF N, i, cmds, n, after
  <2>9. \A c \in 1 .. n : N(c) \in CmdsOf(K, X)
    BY <2>5
  <2> DEFINE all == [c \in 1 .. n |-> N(c)]
  <2>10. all \in Seq(CmdsOf(K, X)) /\ Len(all) = n /\ \A c \in 1 .. n : all[c] = N(c)
    BY <1>1, <2>9
  <2> HIDE DEF all
  <2>11. new = [cmds |-> all, next |-> after]
    BY <2>1, <2>3, Zenon DEF all
  <2>7. /\ new.next = after /\ Len(new.cmds) = n /\ new.cmds \in Seq(CmdsOf(K, X))
        /\ new \in ParseStates(K, X)
        /\ \A c \in 1 .. n : new.cmds[c] = N(c)
    BY <2>6, <2>10, <2>11 DEF ParseStates
  <2>8. QED
    BY <1>5, <2>5, <2>7 DEF i, cmds, n
<1>6. QED
  BY <1>3, <1>4, <1>5

(* What is true after any number of turns. *)
NoShorts(argv) == \A i \in DOMAIN argv : argv[i].kind # "short"
Parsed(st, cmds, argv, k) ==
    /\ Len(st.cmds) = Len(cmds)
    /\ \A c \in 1 .. Len(cmds) : SameOptions(st.cmds[c], cmds[c]) /\ Told(st.cmds[c], argv)
    /\ NoShorts(argv) =>
           /\ \A i \in 1 .. st.next - 1 : i \in DOMAIN argv /\ argv[i].kind # "plain"
           /\ st.next = k + 1 \/ (st.next \in DOMAIN argv /\ argv[st.next].kind = "plain")
           /\ \A c \in 1 .. Len(cmds) : Counted(st.cmds[c], argv, st.next)

LEMMA ParsedOneMore ==
    ASSUME NEW K, NEW X, NEW A, NEW argv \in Seq(A), Kinds(argv), NEW st \in ParseStates(K, X),
           NEW cmds \in Seq(CmdsOf(K, X)), NEW k \in 1 .. Len(argv), Parsed(st, cmds, argv, k - 1)
    PROVE  Parsed(ParseOne(st, argv), cmds, argv, k)
<1> DEFINE new == ParseOne(st, argv)
           n == Len(cmds)
<1>1. /\ new \in ParseStates(K, X) /\ Len(new.cmds) = Len(st.cmds)
      /\ \A c \in 1 .. Len(st.cmds) :
             /\ SameOptions(new.cmds[c], st.cmds[c])
             /\ Told(st.cmds[c], argv) => Told(new.cmds[c], argv)
      /\ AtEnd(st, argv) => new = st
      /\ ~AtEnd(st, argv) /\ argv[st.next].kind = "long" =>
             /\ new.next = st.next + 1
             /\ \A c \in 1 .. Len(st.cmds) :
                    Counted(st.cmds[c], argv, st.next) => Counted(new.cmds[c], argv, st.next + 1)
  BY ParseOneTurn
<1> HIDE DEF new
<1>2. Len(st.cmds) = n /\ \A c \in 1 .. n : SameOptions(st.cmds[c], cmds[c]) /\ Told(st.cmds[c], argv)
  BY DEF Parsed
<1>3. /\ Len(new.cmds) = n
      /\ \A c \in 1 .. n : SameOptions(new.cmds[c], cmds[c]) /\ Told(new.cmds[c], argv)
  BY <1>1, <1>2 DEF SameOptions
<1>4. ASSUME NoShorts(argv)
      PROVE  /\ \A i \in 1 .. new.next - 1 : i \in DOMAIN argv /\ argv[i].kind # "plain"
             /\ new.next = k + 1 \/ (new.next \in DOMAIN argv /\ argv[new.next].kind = "plain")
             /\ \A c \in 1 .. n : Counted(new.cmds[c], argv, new.next)
  <2>1. /\ \A i \in 1 .. st.next - 1 : i \in DOMAIN argv /\ argv[i].kind # "plain"
        /\ st.next = k \/ (st.next \in DOMAIN argv /\ argv[st.next].kind = "plain")
        /\ \A c \in 1 .. n : Counted(st.cmds[c], argv, st.next)
    <3> DEFINE p == k - 1
    <3>1. p + 1 = k
      OBVIOUS
    <3>2. Parsed(st, cmds, argv, p)
      OBVIOUS
    <3> HIDE DEF p
    <3>3. /\ \A i \in 1 .. st.next - 1 : i \in DOMAIN argv /\ argv[i].kind # "plain"
          /\ st.next = p + 1 \/ (st.next \in DOMAIN argv /\ argv[st.next].kind = "plain")
          /\ \A c \in 1 .. n : Counted(st.cmds[c], argv, st.next)
      BY <1>4, <3>2, Zenon DEF Parsed
    <3>4. QED
      BY <3>1, <3>3, Zenon
  <2>2. st.next \in Nat \ {0} /\ DOMAIN argv = 1 .. Len(argv) /\ Len(argv) \in Nat
    BY DEF ParseStates
  <2>3. CASE AtEnd(st, argv)
    <3>1. new = st
      BY <1>1, <2>3
    <3>2. st.next \in DOMAIN argv /\ argv[st.next].kind = "plain"
      BY <2>1, <2>2, <2>3 DEF AtEnd
    <3>3. QED
      BY <2>1, <3>1, <3>2
  <2>4. CASE ~AtEnd(st, argv)
    <3>1. st.next \in DOMAIN argv /\ argv[st.next].kind # "plain" /\ st.next = k
      BY <2>1, <2>2, <2>4 DEF AtEnd
    <3>2. argv[st.next].kind = "long"
      BY <1>4, <3>1 DEF NoShorts, Kinds
    <3>3. new.next = k + 1 /\ \A c \in 1 .. n : Counted(new.cmds[c], argv, k + 1)
      BY <1>1, <1>2, <2>1, <2>4, <3>1, <3>2
    <3>4. 1 .. new.next - 1 = (1 .. st.next - 1) \cup {k}
      BY <3>1, <3>3
    <3>5. QED
      BY <2>1, <3>1, <3>3, <3>4
  <2>5. QED
    BY <2>3, <2>4
<1>5. Parsed(new, cmds, argv, k)
  BY <1>3, <1>4 DEF Parsed
<1>6. QED
  BY <1>5 DEF new

LEMMA ParsedAll ==
    ASSUME NEW K, NEW X, NEW A, NEW argv \in Seq(A), Kinds(argv), NEW cmds \in Seq(CmdsOf(K, X)),
           \A c \in 1 .. Len(cmds) : cmds[c].found = FALSE /\ cmds[c].value = Default
    PROVE  \E st \in ParseStates(K, X) :
               st.cmds = ParseCmd(cmds, argv) /\ Parsed(st, cmds, argv, Len(argv))
<1> DEFINE n == Len(argv)
           V == ParseStates(K, X)
           v == [cmds |-> cmds, next |-> 1]
           h == [k \in 1 .. n |-> [st \in V |-> ParseOne(st, argv)]]
           next(g) == [k \in 0 .. n |-> IF k = 0 THEN v ELSE ParseOne(g[k - 1], argv)]
           f == CHOOSE g : g = next(g)
<1>1. n \in Nat /\ v \in V
  BY DEF ParseStates
<1>2. ParseCmd(cmds, argv) = f[n].cmds
  BY Zenon DEF ParseCmd
<1>3. \A st \in V : ParseOne(st, argv) \in V
  BY ParseOneTurn
<1> HIDE DEF V, v, n
<1>4. StepsOf(V, v, n, h)
  BY <1>1, <1>3 DEF StepsOf
<1>5. PICK g : Follows(g, V, v, n, h)
  <2> HIDE DEF h
  <2>1. QED
    BY <1>4, RecursiveFunction
<1>6. g = next(g)
  <2>1. /\ g \in [0 .. n -> V] /\ g[0] = v
        /\ \A i \in 1 .. n : g[i] = h[i][g[i - 1]]
    BY <1>5, Zenon DEF Follows
  <2>2. ASSUME NEW i \in 1 .. n PROVE g[i] = ParseOne(g[i - 1], argv)
    <3>1. g[i - 1] \in V
      BY <1>1, <2>1
    <3>2. h[i][g[i - 1]] = ParseOne(g[i - 1], argv)
      BY <3>1
    <3>3. QED
      BY <2>1, <3>2, Zenon
  <2>3. ASSUME NEW i \in 0 .. n PROVE g[i] = next(g)[i]
    <3>1. i # 0 => i \in 1 .. n
      BY <1>1
    <3>2. QED
      BY <2>1, <2>2, <3>1, Zenon
  <2>4. QED
    BY <2>1, <2>3
<1> HIDE DEF h, next
<1>7. f = next(f)
  BY <1>6, Zenon
<1> HIDE DEF f
<1>8. /\ f[0] = v
      /\ \A k \in 1 .. n : f[k] = ParseOne(f[k - 1], argv)
  <2>1. 0 \in 0 .. n /\ \A k \in 1 .. n : k \in 0 .. n /\ k # 0
    BY <1>1
  <2>2. /\ next(f)[0] = v
        /\ \A k \in 1 .. n : next(f)[k] = ParseOne(f[k - 1], argv)
    BY <2>1, Zenon DEF next
  <2>3. QED
    BY <1>7, <2>2, Zenon
<1> DEFINE S == {k \in 0 .. n : f[k] \in V /\ Parsed(f[k], cmds, argv, k)}
<1>9. 0 \in S
  <2>1. Parsed(v, cmds, argv, 0)
    <3>1. v.cmds = cmds /\ v.next = 1
      BY DEF v
    <3>2. 1 .. v.next - 1 = {}
      BY <3>1
    <3>3. ASSUME NEW c \in 1 .. Len(cmds)
          PROVE  SameOptions(cmds[c], cmds[c]) /\ Told(cmds[c], argv) /\ Counted(cmds[c], argv, 1)
      BY DEF SameOptions, Told, Counted, Default
    <3>4. QED
      BY <3>1, <3>2, <3>3 DEF Parsed
  <2>2. QED
    BY <1>1, <1>8, <2>1
<1>10. ASSUME NEW i \in 1 .. n, i - 1 \in S PROVE i \in S
  <2>1. f[i - 1] \in V /\ Parsed(f[i - 1], cmds, argv, i - 1)
    BY <1>10
  <2>2. ParseOne(f[i - 1], argv) \in V
    BY <1>3, <2>1
  <2>3. Parsed(ParseOne(f[i - 1], argv), cmds, argv, i)
    BY <2>1, ParsedOneMore DEF V, n
  <2>4. QED
    BY <1>1, <1>8, <2>2, <2>3
<1> HIDE DEF S
<1>11. 0 .. n \subseteq S
  BY <1>1, <1>9, <1>10, InductionUpTo
<1>12. f[n] \in V /\ Parsed(f[n], cmds, argv, n)
  BY <1>1, <1>11 DEF S
<1>13. QED
  BY <1>2, <1>12, Zenon DEF V, n

-----------------------------------------------------------------------------
(* The commands after the first k registrations: each key once, with the   *)
(* options of the last registration that has it. *)
Options(K, X) ==
    [key : K, skey : X, required : BOOLEAN, default : DefaultTexts, given : BOOLEAN]
LastOfItsKey(regs, i, k) ==
    /\ regs[i].given
    /\ \A j \in i + 1 .. k : regs[j].given => regs[j].key # regs[i].key
Known(cmds, regs, k) ==
    /\ \A c \in 1 .. Len(cmds) : cmds[c].found = FALSE /\ cmds[c].value = Default
    /\ \A c, d \in 1 .. Len(cmds) : cmds[c].key = cmds[d].key => c = d
    /\ \A i \in 1 .. k : LastOfItsKey(regs, i, k) =>
           \E c \in 1 .. Len(cmds) : Keeps(cmds[c], regs[i])

(* What a registration makes of a list of commands without its key, and of *)
(* one that has the key. *)
Added(new, cmds, reg) ==
    /\ Len(new) = Len(cmds) + 1
    /\ \A c \in 1 .. Len(cmds) : new[c] = cmds[c]
    /\ new[Len(new)] = NewCmd(reg)
Changed(new, cmds, reg) ==
    /\ Len(new) = Len(cmds)
    /\ \A c \in 1 .. Len(cmds) :
           IF cmds[c].key = reg.key
           THEN Keeps(new[c], reg) /\ new[c].found = cmds[c].found /\ new[c].value = Default
           ELSE new[c] = cmds[c]
HasKey(cmds, key) == \E c \in 1 .. Len(cmds) : cmds[c].key = key

LEMMA RegisterOne ==
    ASSUME NEW K, NEW X, NEW cmds \in Seq(CmdsOf(K, X)), NEW reg \in Options(K, X),
           NEW new, new = RegisterCmd(cmds, reg)
    PROVE  /\ new \in Seq(CmdsOf(K, X))
           /\ ~reg.given => new = cmds
           /\ reg.given /\ ~HasKey(cmds, reg.key) => Added(new, cmds, reg)
           /\ reg.given /\ HasKey(cmds, reg.key) => Changed(new, cmds, reg)
<1> DEFINE n == Len(cmds)
           W == WithKey(cmds, reg.key)
           N(c) == IF c \in W THEN Overwritten(cmds[c], reg) ELSE cmds[c]
<1>1. n \in Nat /\ DOMAIN cmds = 1 .. n /\ \A c \in 1 .. n : cmds[c] \in CmdsOf(K, X)
  OBVIOUS
<1>2. \A c \in 1 .. n : c \in W <=> cmds[c].key = reg.key
  BY <1>1 DEF WithKey
<1>3. W # {} <=> HasKey(cmds, reg.key)
  BY <1>1 DEF WithKey, HasKey
<1>4. /\ reg.key \in K /\ reg.skey \in X /\ reg.required \in BOOLEAN
      /\ reg.default \in DefaultTexts /\ reg.given \in BOOLEAN
  BY DEF Options
<1>5. AText(<<>>) \in DefaultTexts
  BY DEF AText, DefaultTexts
<1> HIDE DEF W
<1>6. CASE ~reg.given
  BY <1>6, Zenon DEF RegisterCmd
<1>7. CASE reg.given /\ W = {}
  <2>1. new = Append(cmds, NewCmd(reg))
    BY <1>7, Zenon DEF RegisterCmd, W
  <2>2. NewCmd(reg) \in CmdsOf(K, X)
    BY <1>4 DEF NewCmd, CmdsOf, Default
  <2>3. new \in Seq(CmdsOf(K, X)) /\ Added(new, cmds, reg)
    BY <1>1, <2>1, <2>2 DEF Added
  <2>4. QED
    BY <1>3, <1>7, <2>3, Zenon
<1>8. CASE reg.given /\ W # {}
  <2>1. new = [c \in 1 .. n |-> N(c)]
    BY <1>1, <1>8, Zenon DEF RegisterCmd, W
  <2>2. ASSUME NEW c \in 1 .. n, cmds[c].key = reg.key
        PROVE  /\ N(c) \in CmdsOf(K, X)
               /\ Keeps(N(c), reg) /\ N(c).found = cmds[c].found /\ N(c).value = Default
    <3>1. N(c) = Overwritten(cmds[c], reg) /\ cmds[c] \in CmdsOf(K, X)
      BY <1>1, <1>2, <2>2
    <3> DEFINE d == IF reg.default = Null THEN AText(<<>>) ELSE reg.default
    <3>2. d \in DefaultTexts /\ (d = reg.default \/ (reg.default = Null /\ d = AText(<<>>)))
      BY <1>4, <1>5
    <3>3. N(c) = [key |-> reg.key, skey |-> reg.skey, required |-> reg.required,
                  found |-> cmds[c].found, value |-> Default, default |-> d]
      BY <3>1 DEF Overwritten, NewCmd
    <3> HIDE DEF d, N
    <3>4. /\ N(c) \in CmdsOf(K, X)
          /\ N(c).key = cmds[c].key /\ N(c).skey = reg.skey /\ N(c).required = reg.required
          /\ N(c).found = cmds[c].found /\ N(c).value = Default /\ N(c).default = d
      BY <1>4, <2>2, <3>1, <3>2, <3>3 DEF CmdsOf, Default
    <3>5. QED
      BY <2>2, <3>2, <3>4 DEF Keeps
  <2>3. ASSUME NEW c \in 1 .. n, cmds[c].key # reg.key
        PROVE  N(c) = cmds[c]
    BY <1>2, <2>3
  <2> HIDE DEF N
  <2>4. Len(new) = n /\ new \in Seq(CmdsOf(K, X)) /\ \A c \in 1 .. n : new[c] = N(c)
    BY <1>1, <2>1, <2>2, <2>3
  <2>5. Changed(new, cmds, reg)
    BY <2>2, <2>3, <2>4, Zenon DEF Changed
  <2>6. QED
    BY <1>3, <1>8, <2>4, <2>5, Zenon
<1>9. QED
  BY <1>4, <1>6, <1>7, <1>8

LEMMA KnownOneMore ==
    ASSUME NEW K, NEW X, NEW regs \in Seq(Options(K, X)), NEW k \in 1 .. Len(regs),
           NEW cmds \in Seq(CmdsOf(K, X)), Known(cmds, regs, k - 1),
           NEW new, new = RegisterCmd(cmds, regs[k])
    PROVE  new \in Seq(CmdsOf(K, X)) /\ Known(new, regs, k)
<1> DEFINE reg == regs[k]
           n == Len(cmds)
<1>1. reg \in Options(K, X) /\ n \in Nat /\ k \in Nat /\ k - 1 \in Nat
  OBVIOUS
<1> HIDE DEF reg
<1>2. new = RegisterCmd(cmds, reg)
  BY DEF reg
<1>3. /\ new \in Seq(CmdsOf(K, X))
      /\ ~reg.given => new = cmds
      /\ reg.given /\ ~HasKey(cmds, reg.key) => Added(new, cmds, reg)
      /\ reg.given /\ HasKey(cmds, reg.key) => Changed(new, cmds, reg)
  BY <1>1, <1>2, RegisterOne, Zenon
<1>4. /\ \A c \in 1 .. n : cmds[c].found = FALSE /\ cmds[c].value = Default
      /\ \A c, d \in 1 .. n : cmds[c].key = cmds[d].key => c = d
      /\ \A i \in 1 .. k - 1 : LastOfItsKey(regs, i, k - 1) =>
             \E c \in 1 .. n : Keeps(cmds[c], regs[i])
  BY DEF Known
<1>5. ASSUME NEW i \in 1 .. k - 1, LastOfItsKey(regs, i, k)
      PROVE  LastOfItsKey(regs, i, k - 1) /\ (reg.given => regs[i].key # reg.key)
  BY <1>5 DEF LastOfItsKey, reg
<1>6. ASSUME NEW i \in 1 .. k PROVE i \in 1 .. k - 1 \/ i = k
  OBVIOUS
<1>7. CASE ~reg.given
  <2>1. new = cmds
    BY <1>3, <1>7
  <2>2. ASSUME NEW i \in 1 .. k, LastOfItsKey(regs, i, k)
        PROVE  \E c \in 1 .. n : Keeps(cmds[c], regs[i])
    <3>1. i # k
      BY <1>7, <2>2 DEF LastOfItsKey, reg
    <3>2. i \in 1 .. k - 1
      BY <1>6, <3>1
    <3>3. QED
      BY <1>4, <1>5, <2>2, <3>2, Zenon
  <2>3. QED
    BY <1>3, <1>4, <2>1, <2>2, Zenon DEF Known
<1>8. CASE reg.given /\ ~HasKey(cmds, reg.key)
  <2>1. /\ Len(new) = n + 1 /\ new[n + 1] = NewCmd(reg)
        /\ \A c \in 1 .. n : new[c] = cmds[c]
    BY <1>3, <1>8 DEF Added
  <2>2. /\ Keeps(new[n + 1], reg) /\ new[n + 1].key = reg.key
        /\ new[n + 1].found = FALSE /\ new[n + 1].value = Default
    BY <2>1 DEF NewCmd, Keeps
  <2>3. 1 .. n + 1 = (1 .. n) \cup {n + 1}
    BY <1>1
  <2>4. \A c \in 1 .. n + 1 : new[c].found = FALSE /\ new[c].value = Default
    BY <1>4, <2>1, <2>2, <2>3
  <2>5. \A c, d \in 1 .. n + 1 : new[c].key = new[d].key => c = d
    <3>1. ASSUME NEW c \in 1 .. n PROVE new[c].key = cmds[c].key /\ new[c].key # reg.key
      BY <1>8, <2>1 DEF HasKey
    <3>2. new[n + 1].key = reg.key
      BY <2>2
    <3>3. ASSUME NEW c \in 1 .. n + 1, NEW d \in 1 .. n + 1, new[c].key = new[d].key PROVE c = d
      <4>1. c \in 1 .. n \/ c = n + 1
        BY <2>3
      <4>2. d \in 1 .. n \/ d = n + 1
        BY <2>3
      <4>3. CASE c \in 1 .. n /\ d \in 1 .. n
        BY <1>4, <3>1, <3>3, <4>3
      <4>4. QED
        BY <3>1, <3>2, <3>3, <4>1, <4>2, <4>3, Zenon
    <3>4. QED
      BY <3>3
  <2>6. ASSUME NEW i \in 1 .. k, LastOfItsKey(regs, i, k)
        PROVE  \E c \in 1 .. n + 1 : Keeps(new[c], regs[i])
    <3>1. CASE i = k
      BY <2>2, <2>3, <3>1 DEF reg
    <3>2. CASE i \in 1 .. k - 1
      <4>1. PICK c \in 1 .. n : Keeps(cmds[c], regs[i])
        BY <1>4, <1>5, <2>6, <3>2, Zenon
      <4>2. new[c] = cmds[c] /\ c \in 1 .. n + 1
        BY <2>1, <2>3
      <4>3. QED
        BY <4>1, <4>2
    <3>3. QED
      BY <1>6, <3>1, <3>2
  <2>7. QED
    BY <1>3, <2>1, <2>4, <2>5, <2>6, Zenon DEF Known
<1>9. CASE reg.given /\ HasKey(cmds, reg.key)
  <2>1. /\ Len(new) = n
        /\ \A c \in 1 .. n :
               IF cmds[c].key = reg.key
               THEN Keeps(new[c], reg) /\ new[c].found = cmds[c].found /\ new[c].value = Default
               ELSE new[c] = cmds[c]
    BY <1>3, <1>9, Zenon DEF Changed
  <2>2. \A c \in 1 .. n : new[c].found = FALSE /\ new[c].value = Default /\ new[c].key = cmds[c].key
    BY <1>4, <2>1 DEF Keeps
  <2>3. \A c, d \in 1 .. n : new[c].key = new[d].key => c = d
    BY <1>4, <2>2
  <2>4. ASSUME NEW i \in 1 .. k, LastOfItsKey(regs, i, k)
        PROVE  \E c \in 1 .. n : Keeps(new[c], regs[i])
    <3>1. CASE i = k
      <4>1. PICK c \in 1 .. n : cmds[c].key = reg.key
        BY <1>9 DEF HasKey
      <4>2. Keeps(new[c], reg)
        BY <2>1, <4>1
      <4>3. QED
        BY <3>1, <4>2 DEF reg
    <3>2. CASE i \in 1 .. k - 1
      <4>1. PICK c \in 1 .. n : Keeps(cmds[c], regs[i])
        BY <1>4, <1>5, <2>4, <3>2, Zenon
      <4>2. cmds[c].key # reg.key
        BY <1>5, <1>9, <2>4, <3>2, <4>1 DEF Keeps
      <4>3. QED
        BY <2>1, <4>1, <4>2
    <3>3. QED
      BY <1>6, <3>1, <3>2
  <2>5. QED
    BY <1>3, <2>1, <2>2, <2>3, <2>4, Zenon DEF Known
<1>10. QED
  BY <1>7, <1>8, <1>9

LEMMA KnownAll ==
    ASSUME NEW K, NEW X, NEW regs \in Seq(Options(K, X))
    PROVE  Registered(regs) \in Seq(CmdsOf(K, X)) /\ Known(Registered(regs), regs, Len(regs))
<1> DEFINE n == Len(regs)
           V == Seq(CmdsOf(K, X))
           v == <<>>
           step(k, cmds) == RegisterCmd(cmds, regs[k])
           h == [k \in 1 .. n |-> [cmds \in V |-> step(k, cmds)]]
           next(g) == [k \in 0 .. n |-> IF k = 0 THEN v ELSE step(k, g[k - 1])]
           f == CHOOSE g : g = next(g)
<1>1. n \in Nat /\ v \in V
  OBVIOUS
<1>2. Registered(regs) = f[n]
  BY Zenon DEF Registered
<1>3. \A k \in 1 .. n : \A cmds \in V : step(k, cmds) \in V
  <2> SUFFICES ASSUME NEW k \in 1 .. n, NEW cmds \in V PROVE step(k, cmds) \in V
    OBVIOUS
  <2>1. regs[k] \in Options(K, X)
    OBVIOUS
  <2>2. QED
    BY <2>1, RegisterOne, Zenon
<1> HIDE DEF V, v, n, step
<1>4. StepsOf(V, v, n, h)
  BY <1>1, <1>3 DEF StepsOf
<1>5. PICK g : Follows(g, V, v, n, h)
  <2> HIDE DEF h
  <2>1. QED
    BY <1>4, RecursiveFunction
<1>6. g = next(g)
  <2>1. /\ g \in [0 .. n -> V] /\ g[0] = v
        /\ \A i \in 1 .. n : g[i] = h[i][g[i - 1]]
    BY <1>5, Zenon DEF Follows
  <2>2. ASSUME NEW i \in 1 .. n PROVE g[i] = step(i, g[i - 1])
    <3>1. g[i - 1] \in V
      BY <1>1, <2>1
    <3>2. h[i][g[i - 1]] = step(i, g[i - 1])
      BY <3>1
    <3>3. QED
      BY <2>1, <3>2, Zenon
  <2>3. ASSUME NEW i \in 0 .. n PROVE g[i] = next(g)[i]
    <3>1. i # 0 => i \in 1 .. n
      BY <1>1
    <3>2. QED
      BY <2>1, <2>2, <3>1, Zenon
  <2>4. QED
    BY <2>1, <2>3
<1> HIDE DEF h, next
<1>7. f = next(f)
  BY <1>6, Zenon
<1> HIDE DEF f
<1>8. /\ f[0] = v
      /\ \A k \in 1 .. n : f[k] = step(k, f[k - 1])
  <2>1. 0 \in 0 .. n /\ \A k \in 1 .. n : k \in 0 .. n /\ k # 0
    BY <1>1
  <2>2. /\ next(f)[0] = v
        /\ \A k \in 1 .. n : next(f)[k] = step(k, f[k - 1])
    BY <2>1, Zenon DEF next
  <2>3. QED
    BY <1>7, <2>2, Zenon
<1> DEFINE S == {k \in 0 .. n : f[k] \in V /\ Known(f[k], regs, k)}
<1>9. 0 \in S
  <2>1. Known(v, regs, 0)
    BY DEF Known, v
  <2>2. QED
    BY <1>1, <1>8, <2>1
<1>10. ASSUME NEW i \in 1 .. n, i - 1 \in S PROVE i \in S
  <2>1. f[i - 1] \in V /\ Known(f[i - 1], regs, i - 1)
    BY <1>10
  <2>2. f[i] \in V /\ Known(f[i], regs, i)
    BY <1>8, <2>1, KnownOneMore DEF V, n, step
  <2>3. QED
    BY <1>1, <2>2
<1> HIDE DEF S
<1>11. 0 .. n \subseteq S
  BY <1>1, <1>9, <1>10, InductionUpTo
<1>12. f[n] \in V /\ Known(f[n], regs, n)
  BY <1>1, <1>11 DEF S
<1>13. QED
  BY <1>2, <1>12, Zenon DEF V, n

-----------------------------------------------------------------------------
(* The value of a command among the own arguments: the last that has one. *)
LEMMA ValueIsLast ==
    ASSUME NEW argv, NEW n \in Nat, NEW own \in SUBSET (1 .. n),
           NEW value \in Nat,
           value # Default => value \in own /\ HasValue(argv[value]),
           \A i \in own : HasValue(argv[i]) => i <= value
    PROVE  value = Max({Default} \cup {i \in own : HasValue(argv[i])})
<1> DEFINE S == {Default} \cup {i \in own : HasValue(argv[i])}
<1>1. S \in SUBSET Int
  <2>1. ASSUME NEW i \in own PROVE i \in Int
    OBVIOUS
  <2>2. 0 \in Int
    OBVIOUS
  <2>3. QED
    BY <2>1, <2>2 DEF Default
<1>2. value \in S
  OBVIOUS
<1>3. \A j \in S : value >= j
  BY DEF Default
<1> HIDE DEF S
<1>4. Max(S) = value
  BY <1>1, <1>2, <1>3, GreatestIs, Zenon
<1>5. QED
  BY <1>4 DEF S

LEMMA OwnCounted ==
    ASSUME NEW A, NEW argv \in Seq(A), Kinds(argv), NoShorts(argv),
           NEW next \in Nat \ {0}, NEW cmd, cmd.value \in Nat, Counted(cmd, argv, next),
           \A i \in 1 .. next - 1 : i \in DOMAIN argv /\ argv[i].kind # "plain",
           next = Len(argv) + 1 \/ (next \in DOMAIN argv /\ argv[next].kind = "plain"),
           Told(cmd, argv)
    PROVE  Earned(cmd, argv)
<1> DEFINE own == Own(cmd, argv)
<1>1. DOMAIN argv = 1 .. Len(argv) /\ Len(argv) \in Nat
  OBVIOUS
<1>2. ASSUME NEW i PROVE i \in own <=> i \in 1 .. next - 1 /\ Names(argv[i], cmd)
  <2>1. CASE next = Len(argv) + 1
    <3>1. 1 .. next - 1 = DOMAIN argv
      BY <1>1, <2>1
    <3>2. Plains(argv) = {}
      BY <3>1 DEF Plains
    <3>3. QED
      BY <3>1, <3>2 DEF Own
  <2>2. CASE next \in DOMAIN argv /\ argv[next].kind = "plain"
    <3>1. i \in own => i \in 1 .. next - 1
      BY <1>1, <2>2 DEF Own, Plains
    <3>2. i \in 1 .. next - 1 => i \in DOMAIN argv
      BY <1>1
    <3>3. ASSUME i \in 1 .. next - 1, NEW j \in DOMAIN argv, argv[j].kind = "plain" PROVE i < j
      <4>1. ~(j \in 1 .. next - 1)
        BY <3>3
      <4>2. QED
        BY <1>1, <3>3, <4>1
    <3>4. QED
      BY <3>1, <3>2, <3>3 DEF Own, Plains
  <2>3. QED
    BY <2>1, <2>2
<1> HIDE DEF own
<1>3. own \in SUBSET (1 .. next - 1) /\ next - 1 \in Nat
  BY <1>2
<1>4. /\ cmd.found <=> own # {}
      /\ cmd.value # Default => cmd.value \in own /\ HasValue(argv[cmd.value])
      /\ \A i \in own : HasValue(argv[i]) => i <= cmd.value
  BY <1>2 DEF Counted
<1>5. cmd.value = Max({Default} \cup {i \in own : HasValue(argv[i])})
  BY <1>3, <1>4, ValueIsLast
<1>6. QED
  BY <1>4, <1>5, Zenon DEF own, Earned, Told, Shorts

LEMMA NextFound == Next => FoundAreNamed'
<1> SUFFICES ASSUME Next, call'.fn = "parsecmd" PROVE FoundAreNamed'
  BY DEF FoundAreNamed, In
<1>1. Parse
  BY CallsOf
<1> DEFINE X == {"x", "y"}
<1>2. PICK regs \in BoundedSeq(Registrations, MaxRegs),
           argv \in BoundedSeq(Arguments, MaxArgs) :
          call' = [fn |-> "parsecmd", regs |-> regs, argv |-> argv,
                   cmds |-> ParseCmd(Registered(regs), argv),
                   complete |-> CheckRequired(ParseCmd(Registered(regs), argv))]
  BY <1>1 DEF Parse, Call
<1> DEFINE cmds == Registered(regs)
           n == Len(cmds)
           new == call'.cmds
<1>3. /\ call'.regs = regs /\ call'.argv = argv /\ new = ParseCmd(cmds, argv)
      /\ call'.complete = CheckRequired(new)
  BY <1>2
<1>4. regs \in Seq(Options(Keys, X)) /\ argv \in Seq(Arguments)
  <2>1. MaxRegs \in Nat /\ MaxArgs \in Nat /\ Registrations \subseteq Options(Keys, X)
    BY InputsAssumption, RegistrationsAssumption DEF Options, DefaultTexts
  <2>2. regs \in Seq(Registrations) /\ argv \in Seq(Arguments)
    BY <2>1, BoundedIsSeq, Zenon
  <2>3. QED
    BY <2>1, <2>2, SeqOfMore, Zenon
<1>5. Kinds(argv)
  <2>1. ASSUME NEW a \in Arguments PROVE a.kind \in {"long", "short", "plain"}
    <3>1. (\E p : a = Long(p)) \/ (\E s : a = Short(s)) \/ a = Plain
      BY Zenon DEF Arguments
    <3>2. (\A p : Long(p).kind = "long") /\ (\A s : Short(s).kind = "short") /\ Plain.kind = "plain"
      BY DEF Long, Short, Plain
    <3>3. QED
      BY <3>1, <3>2
  <2>2. QED
    BY <1>4, <2>1 DEF Kinds
<1>6. cmds \in Seq(CmdsOf(Keys, X)) /\ Known(cmds, regs, Len(regs))
  BY <1>4, KnownAll
<1> HIDE DEF X, cmds, new
<1>7. n \in Nat /\ \A c \in 1 .. n : cmds[c].found = FALSE /\ cmds[c].value = Default
  BY <1>6 DEF Known
<1>8. PICK st \in ParseStates(Keys, X) :
          st.cmds = new /\ Parsed(st, cmds, argv, Len(argv))
  BY <1>3, <1>4, <1>5, <1>6, <1>7, ParsedAll
<1>9. /\ DOMAIN new = 1 .. n /\ st.next \in Nat \ {0}
      /\ \A c \in 1 .. n : /\ new[c] \in CmdsOf(Keys, X) /\ new[c].value \in Nat
                           /\ SameOptions(new[c], cmds[c]) /\ Told(new[c], argv)
  <2>1. st.cmds \in Seq(CmdsOf(Keys, X)) /\ st.next \in Nat \ {0} /\ Len(new) = n
        /\ \A c \in 1 .. n : SameOptions(new[c], cmds[c]) /\ Told(new[c], argv)
    BY <1>8 DEF ParseStates, Parsed
  <2>2. new \in Seq(CmdsOf(Keys, X))
    BY <1>8, <2>1
  <2>3. DOMAIN new = 1 .. n /\ \A c \in 1 .. n : new[c] \in CmdsOf(Keys, X)
    BY <2>1, <2>2
  <2>4. \A c \in 1 .. n : new[c].value \in Nat
    BY <2>3 DEF CmdsOf
  <2>5. QED
    BY <2>1, <2>3, <2>4
<1>10. ASSUME NEW c \in 1 .. n PROVE Earned(new[c], argv)
  <2>1. CASE Shorts(argv) # {}
    <3>1. Told(new[c], argv)
      BY <1>9
    <3>2. QED
      BY <2>1, <3>1, Zenon DEF Earned, Told, Shorts
  <2>2. CASE Shorts(argv) = {}
    <3>1. NoShorts(argv)
      BY <2>2 DEF NoShorts, Shorts
    <3>2. /\ \A i \in 1 .. st.next - 1 : i \in DOMAIN argv /\ argv[i].kind # "plain"
          /\ st.next = Len(argv) + 1 \/ (st.next \in DOMAIN argv /\ argv[st.next].kind = "plain")
          /\ Counted(new[c], argv, st.next)
      BY <1>8, <3>1 DEF Parsed
    <3>3. new[c].value \in Nat /\ st.next \in Nat \ {0} /\ Told(new[c], argv)
      BY <1>9
    <3>4. QED
      BY <1>4, <1>5, <3>1, <3>2, <3>3, OwnCounted, Zenon
  <2>3. QED
    BY <2>1, <2>2
<1>11. KeysUnique(new)
  BY <1>6, <1>9 DEF Known, SameOptions, KeysUnique
<1>12. ASSUME NEW i \in DOMAIN regs, LastOfKey(regs, i)
       PROVE  \E c \in 1 .. n : Keeps(new[c], regs[i])
  <2>1. i \in 1 .. Len(regs) /\ LastOfItsKey(regs, i, Len(regs))
    BY <1>4, <1>12 DEF LastOfItsKey, LastOfKey
  <2>2. PICK c \in 1 .. n : Keeps(cmds[c], regs[i])
    BY <1>6, <2>1, Zenon DEF Known
  <2>3. QED
    BY <1>9, <2>2 DEF SameOptions, Keeps
<1>13. call'.complete <=> \A c \in 1 .. n : new[c].found \/ ~new[c].required
  BY <1>3, <1>9, Zenon DEF CheckRequired
<1>14. DOMAIN new = 1 .. n
  BY <1>9
<1> HIDE DEF n
<1>15. LastCounts(new, regs)
  BY <1>12, <1>14, Zenon DEF LastCounts
<1>16. QED
  BY <1>3, <1>10, <1>11, <1>13, <1>14, <1>15, Zenon DEF FoundAreNamed, new

(* Whatever is registered and given, a command is found exactly if an      *)
(* argument names it and its value is from its last argument that has one, *)
(* and required commands are complete when each was found (cmd.cpp:73-256):*)
(* FoundAreNamed. *)
THEOREM AlwaysFoundAreNamed == Spec => []FoundAreNamed
<1>1. Init => FoundAreNamed
  BY DEF Init, FoundAreNamed, In, Idle
<1>2. FoundAreNamed /\ [Next]_call => FoundAreNamed'
  BY NextFound DEF FoundAreNamed, In
<1>3. QED
  BY <1>1, <1>2, PTL DEF Spec

-----------------------------------------------------------------------------
(* FlattenSeq, one sequence after another. *)
Flattened(S, s, n) ==
    \E f \in [1 .. n -> Seq(S)] :
        /\ FlattenSeq(s) = f[n] /\ f[1] = s[1]
        /\ \A i \in 2 .. n : f[i] = f[i - 1] \o s[i]

LEMMA FlattenIs ==
    ASSUME NEW S, NEW s \in Seq(Seq(S)), Len(s) > 0
    PROVE  Flattened(S, s, Len(s))
<1> DEFINE n == Len(s)
           V == Seq(S)
           h == [i \in 1 .. n |-> [t \in V |-> t \o s[i]]]
           next(g) == [i \in 1 .. n |-> IF i = 1 THEN s[i] ELSE g[i - 1] \o s[i]]
           f == CHOOSE g : g = next(g)
<1>1. n \in Nat /\ n > 0 /\ <<>> \in V /\ \A i \in 1 .. n : s[i] \in V
  OBVIOUS
<1>2. FlattenSeq(s) = f[n]
  <2>1. ~(n = 0)
    BY <1>1
  <2>2. QED
    BY <2>1, Zenon DEF FlattenSeq
<1>3. \A t, u \in V : t \o u \in V
  OBVIOUS
<1>4. StepsOf(V, <<>>, n, h)
  <2> HIDE DEF V, n
  <2>1. QED
    BY <1>1, <1>3 DEF StepsOf
<1>5. PICK g : Follows(g, V, <<>>, n, h)
  <2> HIDE DEF h, V, n
  <2>1. QED
    BY <1>4, RecursiveFunction
<1> DEFINE r == [i \in 1 .. n |-> g[i]]
<1>6. r = next(r)
  <2>1. /\ g \in [0 .. n -> V] /\ g[0] = <<>>
        /\ \A i \in 1 .. n : g[i] = h[i][g[i - 1]]
    BY <1>5, Zenon DEF Follows
  <2>2. ASSUME NEW i \in 1 .. n PROVE r[i] = next(r)[i]
    <3>0. i - 1 \in 0 .. n
      OBVIOUS
    <3>1. g[i - 1] \in V /\ g[i] = g[i - 1] \o s[i] /\ r[i] = g[i]
      <4>1. g[i - 1] \in V
        <5> HIDE DEF V, n
        <5>1. QED
          BY <2>1, <3>0
      <4> HIDE DEF V
      <4>2. QED
        BY <2>1, <4>1
    <3>2. CASE i = 1
      <4>1. <<>> \o s[1] = s[1]
        BY <1>1
      <4>2. r[i] = <<>> \o s[1]
        <5>1. i - 1 = 0
          BY <3>2
        <5>2. g[i - 1] = <<>>
          BY <2>1, <5>1, Zenon
        <5>3. r[i] = g[i - 1] \o s[i]
          BY <3>1, Zenon
        <5>4. QED
          BY <3>2, <5>2, <5>3, Zenon
      <4>3. next(r)[i] = s[1]
        BY <3>2
      <4>4. QED
        BY <4>1, <4>2, <4>3
    <3>3. CASE i # 1
      <4>1. i - 1 \in 1 .. n
        BY <3>3
      <4>2. r[i - 1] = g[i - 1]
        BY <4>1
      <4> HIDE DEF r
      <4>3. next(r)[i] = r[i - 1] \o s[i]
        BY <3>3
      <4>4. QED
        BY <3>1, <4>2, <4>3
    <3>4. QED
      BY <3>2, <3>3
  <2>3. QED
    BY <2>2
<1> HIDE DEF h, r
<1>7. f = next(f)
  <2> HIDE DEF next
  <2>1. QED
    BY <1>6, Zenon
<1> HIDE DEF f
<1>8. f[1] = s[1] /\ \A i \in 2 .. n : f[i] = f[i - 1] \o s[i]
  <2>1. \A i \in 1 .. n : f[i] = IF i = 1 THEN s[i] ELSE f[i - 1] \o s[i]
    BY <1>7
  <2> HIDE DEF n
  <2>2. 1 \in 1 .. n /\ \A i \in 2 .. n : i \in 1 .. n /\ i # 1
    BY <1>1
  <2>3. QED
    BY <2>1, <2>2, Zenon
<1> DEFINE T == {i \in 0 .. n : i > 0 => f[i] \in V}
<1>9. 0 \in T
  OBVIOUS
<1>10. ASSUME NEW i \in 1 .. n, i - 1 \in T PROVE i \in T
  <2>1. CASE i = 1
    BY <1>1, <1>8, <2>1
  <2>2. CASE i # 1
    <3>1. f[i - 1] \in V /\ i \in 2 .. n
      BY <1>10, <2>2
    <3>2. f[i] = f[i - 1] \o s[i] /\ s[i] \in V
      BY <1>1, <1>8, <3>1, Zenon
    <3> HIDE DEF V
    <3>3. f[i] \in V
      BY <1>3, <3>1, <3>2
    <3>4. QED
      BY <3>3
  <2>3. QED
    BY <2>1, <2>2
<1> HIDE DEF T
<1>11. 0 .. n \subseteq T
  BY <1>1, <1>9, <1>10, InductionUpTo
<1>12. \A i \in 1 .. n : f[i] \in V
  <2> HIDE DEF V, n
  <2>1. \A i \in 1 .. n : i \in 0 .. n /\ i > 0
    BY <1>1
  <2>2. QED
    BY <1>11, <2>1 DEF T
<1>13. f \in [1 .. n -> V]
  BY <1>7, <1>12
<1>14. QED
  BY <1>2, <1>8, <1>13, Zenon DEF Flattened

Joined(S, st, s, t, m, n) ==
    /\ st \in Seq(S) /\ Len(st) = m + n
    /\ \A k \in 1 .. m : st[k] = s[k]
    /\ \A k \in 1 .. n : st[m + k] = t[k]

LEMMA Concatenated ==
    ASSUME NEW S, NEW s \in Seq(S), NEW t \in Seq(S)
    PROVE  Joined(S, s \o t, s, t, Len(s), Len(t))
  BY DEF Joined

LEMMA FlattenPrefix ==
    ASSUME NEW S, NEW s \in Seq(Seq(S)), NEW f \in [1 .. Len(s) -> Seq(S)], f[1] = s[1],
           \A i \in 2 .. Len(s) : f[i] = f[i - 1] \o s[i], NEW m \in 1 .. Len(s)
    PROVE  FlattenSeq(SubSeq(s, 1, m)) = f[m]
<1> DEFINE p == SubSeq(s, 1, m)
<1>1. m \in Nat /\ Len(s) \in Nat
  OBVIOUS
<1>2. p \in Seq(Seq(S)) /\ Len(p) = m /\ \A i \in 1 .. m : p[i] = s[i]
  <2> DEFINE V == Seq(S)
  <2>1. s \in Seq(V)
    OBVIOUS
  <2> HIDE DEF V
  <2>2. p \in Seq(V) /\ Len(p) = m /\ \A i \in 1 .. m : p[i] = s[i]
    BY <1>1, <2>1
  <2>3. QED
    BY <2>2 DEF V
<1> HIDE DEF p
<1>3. Flattened(S, p, m)
  <2>1. p \in Seq(Seq(S)) /\ Len(p) > 0
    BY <1>1, <1>2
  <2>2. Flattened(S, p, Len(p))
    BY <2>1, FlattenIs, Zenon
  <2>3. QED
    BY <1>2, <2>2, Zenon
<1>4. PICK g \in [1 .. m -> Seq(S)] :
          /\ FlattenSeq(p) = g[m] /\ g[1] = p[1]
          /\ \A i \in 2 .. m : g[i] = g[i - 1] \o p[i]
  BY <1>3, Zenon DEF Flattened
<1> DEFINE T == {i \in 0 .. m : i > 0 => g[i] = f[i]}
<1>5. 0 \in T
  BY <1>1
<1>6. ASSUME NEW i \in 1 .. m, i - 1 \in T PROVE i \in T
  <2>1. CASE i = 1
    <3>1. g[1] = f[1]
      BY <1>2, <1>4
    <3>2. QED
      BY <2>1, <3>1
  <2>2. CASE i # 1
    <3>1. i \in 2 .. m /\ i \in 2 .. Len(s) /\ g[i - 1] = f[i - 1]
      BY <1>1, <1>6, <2>2
    <3>2. g[i] = g[i - 1] \o p[i] /\ f[i] = f[i - 1] \o s[i] /\ p[i] = s[i]
      BY <1>2, <1>4, <3>1, Zenon
    <3>3. g[i] = f[i] /\ i \in 0 .. m
      BY <3>1, <3>2
    <3>4. QED
      BY <3>3
  <2>3. QED
    BY <2>1, <2>2
<1> HIDE DEF T
<1>7. 0 .. m \subseteq T
  BY <1>1, <1>5, <1>6, InductionUpTo, Zenon
<1>8. m \in T /\ m > 0
  BY <1>1, <1>7
<1>9. QED
  BY <1>4, <1>8 DEF T, p

(* The bytes that copyValue takes of each block. *)
LEMMA CopyEnds ==
    ASSUME NEW blocks \in Seq(Seq(Int)), NEW last \in 1 .. Len(blocks), NEW e \in Nat,
           e <= Len(blocks[last]), NEW b \in 1 .. last
    PROVE  /\ CopyEnd(blocks, b, last, e) \in Nat /\ CopyEnd(blocks, b, last, e) <= Len(blocks[b])
           /\ blocks[b] \in Seq(Int)
           /\ b # last => CopyEnd(blocks, b, last, e) = Len(blocks[b])
<1>1. b \in 1 .. Len(blocks) /\ blocks[b] \in Seq(Int)
  OBVIOUS
<1>2. Len(blocks[b]) \in Nat
  BY <1>1
<1>3. QED
  BY <1>1, <1>2 DEF CopyEnd

SizesAdd(blocks, p, last, e) ==
    \E size \in [0 .. last -> Nat] :
        /\ CopySize(blocks, p, last, e) = size[last] - p /\ size[0] = 0
        /\ \A b \in 1 .. last : size[b] = size[b - 1] + CopyEnd(blocks, b, last, e)

LEMMA CopySizeAdds ==
    ASSUME NEW blocks, NEW p, NEW last \in Nat, NEW e,
           \A b \in 1 .. last : CopyEnd(blocks, b, last, e) \in Nat
    PROVE  SizesAdd(blocks, p, last, e)
<1> DEFINE E(b) == CopyEnd(blocks, b, last, e)
           h == [b \in 1 .. last |-> [k \in Nat |-> k + E(b)]]
           next(g) == [b \in 0 .. last |-> IF b = 0 THEN 0 ELSE g[b - 1] + E(b)]
           f == CHOOSE g : g = next(g)
<1>1. CopySize(blocks, p, last, e) = f[last] - p
  BY Zenon DEF CopySize
<1>2. \A b \in 1 .. last : E(b) \in Nat
  OBVIOUS
<1> HIDE DEF E
<1>3. StepsOf(Nat, 0, last, h)
  BY <1>2 DEF StepsOf
<1>4. PICK g : Follows(g, Nat, 0, last, h)
  <2> HIDE DEF h
  <2>1. QED
    BY <1>3, RecursiveFunction
<1>5. g = next(g)
  <2>1. /\ g \in [0 .. last -> Nat] /\ g[0] = 0
        /\ \A b \in 1 .. last : g[b] = h[b][g[b - 1]]
    BY <1>4, Zenon DEF Follows
  <2>2. ASSUME NEW b \in 1 .. last PROVE g[b] = g[b - 1] + E(b)
    <3>1. g[b - 1] \in Nat
      BY <2>1
    <3>2. QED
      BY <2>1, <3>1
  <2>3. QED
    BY <2>1, <2>2
<1> HIDE DEF h
<1>6. f = next(f)
  <2> HIDE DEF next
  <2>1. QED
    BY <1>5, Zenon
<1> HIDE DEF f
<1>7. f[0] = 0 /\ \A b \in 1 .. last : f[b] = f[b - 1] + E(b)
  <2>1. ASSUME NEW b \in 0 .. last PROVE f[b] = IF b = 0 THEN 0 ELSE f[b - 1] + E(b)
    BY <1>6
  <2>2. QED
    BY <2>1
<1> DEFINE T == {b \in 0 .. last : f[b] \in Nat}
<1>8. 0 \in T
  BY <1>7
<1>9. ASSUME NEW b \in 1 .. last, b - 1 \in T PROVE b \in T
  BY <1>2, <1>7, <1>9
<1> HIDE DEF T
<1>10. 0 .. last \subseteq T
  BY <1>8, <1>9, InductionUpTo
<1>11. f \in [0 .. last -> Nat]
  BY <1>6, <1>10 DEF T
<1>12. QED
  BY <1>1, <1>7, <1>11 DEF E, SizesAdd

(* What copyValue returns, over any number of blocks of any size. *)
UpTo(blocks, last, e) ==
    [b \in 1 .. last |-> IF b = last THEN SubSeq(blocks[b], 1, e) ELSE blocks[b]]
Copied(blocks, p, last, e) ==
    [b \in 1 .. last |->
        IF b = 1 THEN Contribution(blocks[1], p, CopyEnd(blocks, 1, last, e))
        ELSE SubSeq(blocks[b], 1, CopyEnd(blocks, b, last, e))]

LEMMA Prefix ==
    ASSUME NEW s \in Seq(Int), NEW n \in Nat, n <= Len(s)
    PROVE  SubSeq(s, 1, n) \in Seq(Int) /\ Len(SubSeq(s, 1, n)) = n
  OBVIOUS

LEMMA FirstCopied ==
    ASSUME NEW data \in Seq(Int), NEW p \in Nat, NEW e \in Nat, e <= Len(data), ~(e < 2 * p)
    PROVE  /\ Contribution(data, p, e) \in Seq(Int)
           /\ Len(Contribution(data, p, e)) = e - p
           /\ \A k \in 1 .. e - p : Contribution(data, p, e)[k] \in {data[k + p], Garbage}
           /\ p = 0 => Contribution(data, p, e) = SubSeq(data, 1, e)
<1> DEFINE a == SubSeq(data, p + 1, e - p)
           g == [i \in 1 .. p |-> Garbage]
<1>1. Contribution(data, p, e) = a \o g
  BY DEF Contribution
<1>2. a \in Seq(Int) /\ Len(a) = e - p - p /\ \A k \in 1 .. e - p - p : a[k] = data[k + p]
  OBVIOUS
<1>3. g \in Seq(Int) /\ Len(g) = p /\ \A k \in 1 .. p : g[k] = Garbage
  BY DEF Garbage
<1> HIDE DEF a, g
<1> DEFINE n == e - p - p
           ag == a \o g
<1>0. n \in Nat /\ p \in Nat /\ e - p = n + p
  BY <1>2
<1>4. /\ ag \in Seq(Int) /\ Len(ag) = n + p
      /\ \A k \in 1 .. n : ag[k] = a[k]
      /\ \A k \in 1 .. p : ag[n + k] = g[k]
  <2>1. a \in Seq(Int) /\ g \in Seq(Int) /\ n = Len(a) /\ p = Len(g)
    BY <1>2, <1>3
  <2> HIDE DEF n
  <2>2. Joined(Int, a \o g, a, g, Len(a), Len(g))
    BY <2>1, Concatenated, Zenon
  <2>3. Joined(Int, a \o g, a, g, n, p)
    BY <2>1, <2>2, Zenon
  <2>4. QED
    BY <2>3 DEF Joined
<1> HIDE DEF n, ag
<1>5. ASSUME NEW k \in 1 .. e - p PROVE ag[k] \in {data[k + p], Garbage}
  <2>1. CASE k \in 1 .. n
    BY <1>2, <1>4, <2>1 DEF n
  <2>2. CASE k \notin 1 .. n
    <3>1. k - n \in 1 .. p /\ n + (k - n) = k
      BY <1>0, <2>2
    <3>2. ag[k] = g[k - n]
      BY <1>4, <3>1
    <3>3. QED
      BY <1>3, <3>1, <3>2
  <2>3. QED
    BY <2>1, <2>2
<1>6. ASSUME p = 0 PROVE ag = SubSeq(data, 1, e)
  <2>1. a = SubSeq(data, 1, e)
    BY <1>6 DEF a
  <2>2. g = <<>>
    BY <1>3, <1>6
  <2>3. QED
    BY <1>2, <2>1, <2>2 DEF ag
<1>7. Contribution(data, p, e) = ag
  BY <1>1 DEF ag
<1>8. QED
  BY <1>0, <1>4, <1>5, <1>6, <1>7

(* The copy c of the blocks so far, from p on, of the text t. *)
InPlaceSoFar(c, t, size, p) ==
    /\ Len(t) = size /\ size >= p /\ Len(c) = size - p
    /\ \A k \in 1 .. size - p : c[k] \in {t[k + p], Garbage}
    /\ p = 0 => c = t

LEMMA OneBlockMore ==
    ASSUME NEW c \in Seq(Int), NEW t \in Seq(Int), NEW size \in Nat, NEW p \in Nat,
           InPlaceSoFar(c, t, size, p), NEW more \in Seq(Int)
    PROVE  InPlaceSoFar(c \o more, t \o more, size + Len(more), p)
<1> DEFINE m == Len(more)
           cc == c \o more
           tt == t \o more
<1>1. /\ Len(t) = size /\ size >= p /\ Len(c) = size - p
      /\ \A k \in 1 .. size - p : c[k] \in {t[k + p], Garbage}
      /\ p = 0 => c = t
  BY DEF InPlaceSoFar
<1>2. m \in Nat
  OBVIOUS
<1>3. p = 0 => cc = tt
  BY <1>1
<1>4. /\ Len(cc) = size - p + m
      /\ \A k \in 1 .. size - p : cc[k] = c[k]
      /\ \A k \in 1 .. m : cc[size - p + k] = more[k]
  <2>1. size - p = Len(c) /\ m = Len(more)
    BY <1>1
  <2> HIDE DEF m
  <2>2. Joined(Int, c \o more, c, more, Len(c), Len(more))
    BY <2>1, Concatenated, Zenon
  <2>3. Joined(Int, c \o more, c, more, size - p, m)
    BY <2>1, <2>2, Zenon
  <2>4. QED
    BY <2>3 DEF Joined
<1>5. /\ Len(tt) = size + m
      /\ \A k \in 1 .. size : tt[k] = t[k]
      /\ \A k \in 1 .. m : tt[size + k] = more[k]
  <2>1. size = Len(t) /\ m = Len(more)
    BY <1>1
  <2> HIDE DEF m
  <2>2. Joined(Int, t \o more, t, more, Len(t), Len(more))
    BY <2>1, Concatenated, Zenon
  <2>3. Joined(Int, t \o more, t, more, size, m)
    BY <2>1, <2>2, Zenon
  <2>4. QED
    BY <2>3 DEF Joined
<1> HIDE DEF cc, tt, m
<1>6. ASSUME NEW k \in 1 .. size + m - p PROVE cc[k] \in {tt[k + p], Garbage}
  <2>1. CASE k \in 1 .. size - p
    <3>1. k + p \in 1 .. size
      BY <1>1, <2>1
    <3>2. cc[k] = c[k] /\ tt[k + p] = t[k + p]
      BY <1>4, <1>5, <2>1, <3>1
    <3>3. QED
      BY <1>1, <2>1, <3>2
  <2>2. CASE k \notin 1 .. size - p
    <3> DEFINE j == k + p - size
    <3>1. j \in 1 .. m /\ size - p + j = k /\ size + j = k + p
      BY <1>1, <1>2, <2>2
    <3> HIDE DEF j
    <3>2. cc[k] = more[j] /\ tt[k + p] = more[j]
      BY <1>4, <1>5, <3>1
    <3>3. QED
      BY <3>2
  <2>3. QED
    BY <2>1, <2>2
<1>7. size + m >= p /\ size + m - p = size - p + m
  BY <1>1, <1>2
<1>8. InPlaceSoFar(cc, tt, size + m, p)
  <2>1. Len(cc) = size + m - p
    BY <1>4, <1>7
  <2> DEFINE whole == size + m
  <2>2. Len(tt) = whole /\ whole >= p /\ Len(cc) = whole - p
    BY <1>2, <1>5, <1>7, <2>1
  <2>3. \A k \in 1 .. whole - p : cc[k] \in {tt[k + p], Garbage}
    BY <1>2, <1>6
  <2> HIDE DEF whole
  <2>4. InPlaceSoFar(cc, tt, whole, p)
    BY <1>3, <2>2, <2>3, Zenon DEF InPlaceSoFar
  <2>5. QED
    BY <2>4 DEF whole
<1>9. QED
  BY <1>8 DEF cc, tt, m

LEMMA FirstInPlace ==
    ASSUME NEW data \in Seq(Int), NEW p \in Nat, NEW e \in Nat, e <= Len(data), ~(e < 2 * p)
    PROVE  InPlaceSoFar(Contribution(data, p, e), SubSeq(data, 1, e), e, p)
<1> DEFINE c == Contribution(data, p, e)
           t == SubSeq(data, 1, e)
<1>1. Len(c) = e - p /\ (p = 0 => c = t)
      /\ \A k \in 1 .. e - p : c[k] \in {data[k + p], Garbage}
  BY FirstCopied
<1>2. Len(t) = e /\ \A k \in 1 .. e : t[k] = data[k]
  OBVIOUS
<1>3. e >= p
  OBVIOUS
<1> HIDE DEF c, t
<1>4. ASSUME NEW k \in 1 .. e - p PROVE c[k] \in {t[k + p], Garbage}
  <2>1. k + p \in 1 .. e
    BY <1>3
  <2>2. QED
    BY <1>1, <1>2, <2>1
<1>5. InPlaceSoFar(c, t, e, p)
  BY <1>1, <1>2, <1>3, <1>4, Zenon DEF InPlaceSoFar
<1>6. QED
  BY <1>5 DEF c, t

LEMMA CopiesInPlace ==
    ASSUME NEW blocks \in Seq(Seq(Int)), NEW last \in 1 .. Len(blocks), NEW e \in Nat,
           e <= Len(blocks[last]), NEW p \in Nat, ~CopyRunsAway(blocks, p, last, e)
    PROVE  \E size \in Nat :
               /\ CopySize(blocks, p, last, e) = size - p
               /\ FlattenSeq(UpTo(blocks, last, e)) \in Seq(Int)
               /\ InPlaceSoFar(CopyValue(blocks, p, last, e), FlattenSeq(UpTo(blocks, last, e)), size, p)
<1> DEFINE E(b) == CopyEnd(blocks, b, last, e)
           c == Copied(blocks, p, last, e)
           u == UpTo(blocks, last, e)
<1>1. last \in Nat \ {0}
  OBVIOUS
<1>2. ASSUME NEW b \in 1 .. last
      PROVE  /\ E(b) \in Nat /\ E(b) <= Len(blocks[b]) /\ blocks[b] \in Seq(Int)
             /\ b # last => E(b) = Len(blocks[b])
  BY CopyEnds
<1>3. E(last) = e
  BY DEF CopyEnd
<1>4. ~(E(1) < 2 * p)
  BY DEF CopyRunsAway
<1> HIDE DEF E
<1>5. ASSUME NEW b \in 1 .. last
      PROVE  /\ u[b] = SubSeq(blocks[b], 1, E(b)) /\ u[b] \in Seq(Int) /\ Len(u[b]) = E(b)
  <2>1. u[b] = IF b = last THEN SubSeq(blocks[b], 1, e) ELSE blocks[b]
    BY DEF UpTo
  <2>2. u[b] = SubSeq(blocks[b], 1, E(b))
    <3>1. CASE b = last
      BY <1>3, <2>1, <3>1
    <3>2. CASE b # last
      <4>1. u[b] = blocks[b] /\ E(b) = Len(blocks[b]) /\ blocks[b] \in Seq(Int)
        BY <1>2, <2>1, <3>2
      <4>2. QED
        BY <4>1
    <3>3. QED
      BY <3>1, <3>2
  <2> HIDE DEF u
  <2>3. E(b) \in Nat /\ E(b) <= Len(blocks[b]) /\ blocks[b] \in Seq(Int)
    BY <1>2
  <2>4. SubSeq(blocks[b], 1, E(b)) \in Seq(Int) /\ Len(SubSeq(blocks[b], 1, E(b))) = E(b)
    BY <2>3, Prefix, Zenon
  <2>5. QED
    BY <2>2, <2>4, Zenon
<1>6. ASSUME NEW b \in 1 .. last
      PROVE  c[b] = IF b = 1 THEN Contribution(blocks[1], p, E(1)) ELSE SubSeq(blocks[b], 1, E(b))
  BY DEF Copied, E
<1>7. DOMAIN u = 1 .. last /\ DOMAIN c = 1 .. last
  BY DEF UpTo, Copied
<1>8. CopyValue(blocks, p, last, e) = FlattenSeq(c)
  BY Zenon DEF CopyValue, Contributions, Copied
<1>9. u = [b \in 1 .. last |-> u[b]] /\ c = [b \in 1 .. last |-> c[b]]
  BY Zenon DEF UpTo, Copied
<1> HIDE DEF c, u
<1>10. blocks[1] \in Seq(Int) /\ E(1) \in Nat /\ E(1) <= Len(blocks[1])
  BY <1>1, <1>2
<1>11. ASSUME NEW b \in 1 .. last PROVE c[b] \in Seq(Int)
  <2>1. CASE b = 1
    <3>1. Contribution(blocks[1], p, E(1)) \in Seq(Int)
      BY <1>4, <1>10, FirstCopied, Zenon
    <3>2. QED
      BY <1>6, <2>1, <3>1, Zenon
  <2>2. CASE b # 1
    BY <1>5, <1>6, <2>2, Zenon
  <2>3. QED
    BY <2>1, <2>2
<1>12. u \in Seq(Seq(Int)) /\ Len(u) = last /\ c \in Seq(Seq(Int)) /\ Len(c) = last
  <2>1. u \in [1 .. last -> Seq(Int)] /\ c \in [1 .. last -> Seq(Int)]
    BY <1>5, <1>9, <1>11, Zenon
  <2>2. QED
    BY <1>1, <2>1
<1>13. PICK f \in [1 .. last -> Seq(Int)] :
           /\ FlattenSeq(c) = f[last] /\ f[1] = c[1]
           /\ \A i \in 2 .. last : f[i] = f[i - 1] \o c[i]
  <2>1. Len(c) > 0
    BY <1>1, <1>12
  <2>2. Flattened(Int, c, Len(c))
    BY <1>12, <2>1, FlattenIs, Zenon
  <2>3. QED
    BY <1>12, <2>2, Zenon DEF Flattened
<1>14. PICK g \in [1 .. last -> Seq(Int)] :
           /\ FlattenSeq(u) = g[last] /\ g[1] = u[1]
           /\ \A i \in 2 .. last : g[i] = g[i - 1] \o u[i]
  <2>1. Len(u) > 0
    BY <1>1, <1>12
  <2>2. Flattened(Int, u, Len(u))
    BY <1>12, <2>1, FlattenIs, Zenon
  <2>3. QED
    BY <1>12, <2>2, Zenon DEF Flattened
<1>15. PICK size \in [0 .. last -> Nat] :
           /\ CopySize(blocks, p, last, e) = size[last] - p /\ size[0] = 0
           /\ \A b \in 1 .. last : size[b] = size[b - 1] + E(b)
  <2>1. last \in Nat /\ \A b \in 1 .. last : CopyEnd(blocks, b, last, e) \in Nat
    BY <1>1, <1>2 DEF E
  <2>2. SizesAdd(blocks, p, last, e)
    BY <2>1, CopySizeAdds, Zenon
  <2>3. QED
    BY <2>2 DEF E, SizesAdd
<1> DEFINE T == {b \in 0 .. last : b > 0 => InPlaceSoFar(f[b], g[b], size[b], p)}
<1>16. 0 \in T
  BY <1>1
<1>17. ASSUME NEW b \in 1 .. last, b - 1 \in T PROVE b \in T
  <2>1. CASE b = 1
    <3>1. size[1] = E(1)
      BY <1>1, <1>10, <1>15
    <3>2. f[1] = Contribution(blocks[1], p, E(1)) /\ g[1] = SubSeq(blocks[1], 1, E(1))
      BY <1>1, <1>5, <1>6, <1>13, <1>14, SMTT(30)
    <3>3. InPlaceSoFar(Contribution(blocks[1], p, E(1)), SubSeq(blocks[1], 1, E(1)), E(1), p)
      BY <1>4, <1>10, FirstInPlace
    <3>4. InPlaceSoFar(f[1], g[1], size[1], p)
      BY <3>1, <3>2, <3>3, Zenon
    <3>5. b \in 0 .. last /\ InPlaceSoFar(f[b], g[b], size[b], p)
      BY <2>1, <3>4
    <3>6. QED
      BY <3>5, Zenon
  <2>2. CASE b # 1
    <3>1. b \in 2 .. last /\ b - 1 \in 1 .. last
      BY <2>2
    <3>2. InPlaceSoFar(f[b - 1], g[b - 1], size[b - 1], p)
      BY <1>17, <3>1
    <3>3. /\ f[b - 1] \in Seq(Int) /\ g[b - 1] \in Seq(Int) /\ size[b - 1] \in Nat
          /\ u[b] \in Seq(Int)
      <4>1. b - 1 \in 0 .. last
        BY <3>1
      <4>2. QED
        BY <1>5, <1>13, <1>14, <1>15, <3>1, <4>1, Zenon
    <3>4. InPlaceSoFar(f[b - 1] \o u[b], g[b - 1] \o u[b], size[b - 1] + Len(u[b]), p)
      BY <3>2, <3>3, OneBlockMore, Zenon
    <3>5. c[b] = u[b]
      BY <1>5, <1>6, <2>2, Zenon
    <3>6. f[b] = f[b - 1] \o u[b] /\ g[b] = g[b - 1] \o u[b]
      BY <1>13, <1>14, <3>1, <3>5
    <3>7. size[b] = size[b - 1] + Len(u[b])
      BY <1>5, <1>15
    <3>8. InPlaceSoFar(f[b], g[b], size[b], p)
      BY <3>4, <3>6, <3>7, Zenon
    <3>9. b \in 0 .. last
      OBVIOUS
    <3>10. QED
      BY <3>8, <3>9, Zenon
  <2>3. QED
    BY <2>1, <2>2
<1> HIDE DEF T
<1>18. 0 .. last \subseteq T
  BY <1>1, <1>16, <1>17, InductionUpTo
<1>19. InPlaceSoFar(f[last], g[last], size[last], p) /\ size[last] \in Nat /\ g[last] \in Seq(Int)
  BY <1>1, <1>14, <1>15, <1>18 DEF T
<1>20. QED
  BY <1>8, <1>13, <1>14, <1>15, <1>19 DEF u

LEMMA NextCopies == Next => ConCopyInPlace'
<1> SUFFICES ASSUME Next, call'.fn = "copycon" PROVE ConCopyInPlace'
  BY DEF ConCopyInPlace, In
<1>1. CopyCon
  BY CallsOf
<1>2. PICK blocks \in SeqOf(BoundedSeq(1 .. 3, MaxBlock) \ {<<>>}, MaxBlocks) :
      \E last \in DOMAIN blocks, p \in 0 .. MaxBlock - 1, e \in 1 .. MaxBlock :
           /\ p < Len(blocks[1]) /\ e <= Len(blocks[last])
           /\ call' = [fn |-> "copycon", blocks |-> blocks, startpos |-> p, last |-> last,
                       endpos |-> e, size |-> CopySize(blocks, p, last, e),
                       buf |-> CopyValue(blocks, p, last, e)]
  BY <1>1, Zenon DEF CopyCon, Call
<1>3. PICK last \in DOMAIN blocks, p \in 0 .. MaxBlock - 1, e \in 1 .. MaxBlock :
           /\ p < Len(blocks[1]) /\ e <= Len(blocks[last])
           /\ call' = [fn |-> "copycon", blocks |-> blocks, startpos |-> p, last |-> last,
                       endpos |-> e, size |-> CopySize(blocks, p, last, e),
                       buf |-> CopyValue(blocks, p, last, e)]
  BY <1>2, Zenon
<1>4. blocks \in Seq(Seq(Int)) /\ last \in 1 .. Len(blocks) /\ p \in Nat /\ e \in Nat
  <2>1. MaxBlock \in Nat /\ MaxBlocks \in Nat
    BY InputsAssumption
  <2>2. PICK m \in 0 .. MaxBlocks : blocks \in [1 .. m -> BoundedSeq(1 .. 3, MaxBlock) \ {<<>>}]
    BY Zenon DEF SeqOf
  <2>3. ASSUME NEW b \in 1 .. m PROVE blocks[b] \in Seq(Int)
    <3>1. blocks[b] \in BoundedSeq(1 .. 3, MaxBlock)
      BY <2>2, Zenon
    <3>2. blocks[b] \in Seq(1 .. 3)
      BY <2>1, <3>1, BoundedIsSeq
    <3>3. QED
      BY <3>2, SeqOfMore
  <2>4. blocks \in Seq(Seq(Int)) /\ DOMAIN blocks = 1 .. Len(blocks)
    BY <2>1, <2>2, <2>3
  <2>5. QED
    BY <2>1, <2>4
<1> DEFINE text == FlattenSeq(UpTo(blocks, last, e))
           buf == CopyValue(blocks, p, last, e)
<1>6. /\ call'.blocks = blocks /\ call'.startpos = p /\ call'.last = last /\ call'.endpos = e
      /\ call'.size = CopySize(blocks, p, last, e) /\ call'.buf = buf
  BY <1>3
<1> DEFINE Right(t) ==
        /\ call'.size = Len(t) /\ Len(call'.buf) = call'.size
        /\ \A i \in DOMAIN t : call'.buf[i] \in {t[i], Garbage}
        /\ call'.startpos = 0 => call'.buf = t
       UpToEnd ==
        [b \in 1 .. call'.last |->
            IF b = call'.last THEN SubSeq(call'.blocks[b], 1, call'.endpos) ELSE call'.blocks[b]]
       Answer == IF 2 * call'.startpos > Len(UpToEnd[1]) THEN call'.buf = Runaway
                 ELSE Right(From(FlattenSeq(UpToEnd), call'.startpos))
<1>14. SUFFICES Answer
  BY DEF ConCopyInPlace, Answer, Right, UpToEnd
<1>15. UpToEnd = UpTo(blocks, last, e)
  BY <1>6, Zenon DEF UpTo
<1>16. Len(UpToEnd[1]) = CopyEnd(blocks, 1, last, e)
  <2>1. UpToEnd[1] = IF last = 1 THEN SubSeq(blocks[1], 1, e) ELSE blocks[1]
    BY <1>4, <1>6
  <2>2. blocks[1] \in Seq(Int) /\ last \in Nat /\ e <= Len(blocks[last])
    BY <1>3, <1>4
  <2>3. CopyEnd(blocks, 1, last, e) = IF last = 1 THEN e ELSE Len(blocks[1])
    BY DEF CopyEnd
  <2> HIDE DEF UpToEnd
  <2>4. CASE last = 1
    <3>1. e <= Len(blocks[1]) /\ UpToEnd[1] = SubSeq(blocks[1], 1, e)
      BY <2>1, <2>2, <2>4
    <3>2. Len(SubSeq(blocks[1], 1, e)) = e
      BY <1>4, <2>2, <3>1
    <3>3. QED
      BY <2>3, <2>4, <3>1, <3>2
  <2>5. CASE last # 1
    BY <2>1, <2>3, <2>5
  <2>6. QED
    BY <2>4, <2>5
<1> HIDE DEF buf, text, Right, UpToEnd
<1>17. CASE CopyRunsAway(blocks, p, last, e)
  <2>1. buf = Runaway
    BY <1>17, Zenon DEF CopyValue, buf
  <2>2. 2 * call'.startpos > Len(UpToEnd[1])
    <3>1. CopyEnd(blocks, 1, last, e) < 2 * p
      BY <1>17 DEF CopyRunsAway
    <3>2. CopyEnd(blocks, 1, last, e) \in Nat
      BY <1>3, <1>4, CopyEnds
    <3>3. QED
      BY <1>4, <1>6, <1>16, <3>1, <3>2
  <2>3. QED
    BY <1>6, <2>1, <2>2
<1>18. SUFFICES ASSUME ~CopyRunsAway(blocks, p, last, e)
                PROVE  Right(From(FlattenSeq(UpToEnd), call'.startpos))
  <2>1. CopyEnd(blocks, 1, last, e) \in Nat
    BY <1>3, <1>4, CopyEnds
  <2>2. ASSUME ~CopyRunsAway(blocks, p, last, e)
        PROVE  ~(2 * call'.startpos > Len(UpToEnd[1]))
    BY <1>4, <1>6, <1>16, <2>1, <2>2 DEF CopyRunsAway
  <2>3. QED
    BY <1>17, <2>2
<1>5. PICK size \in Nat : /\ CopySize(blocks, p, last, e) = size - p /\ text \in Seq(Int)
                          /\ InPlaceSoFar(buf, text, size, p)
  BY <1>3, <1>4, <1>18, CopiesInPlace DEF buf, text
<1> DEFINE from == From(text, p)
<1>7. /\ Len(text) = size /\ size >= p /\ Len(buf) = size - p
      /\ \A k \in 1 .. size - p : buf[k] \in {text[k + p], Garbage}
      /\ p = 0 => buf = text
  BY <1>5 DEF InPlaceSoFar
<1>8. Len(from) = size - p /\ DOMAIN from = 1 .. size - p
      /\ \A k \in 1 .. size - p : from[k] = text[k + p]
  BY <1>4, <1>5, <1>7 DEF From
<1>9. p = 0 => from = text
  BY <1>5, <1>7 DEF From
<1> HIDE DEF from
<1>10. Right(from)
  BY <1>5, <1>6, <1>7, <1>8, <1>9 DEF Right
<1>11. from = From(FlattenSeq(UpToEnd), call'.startpos)
  BY <1>6, <1>15, Zenon DEF from, text
<1>12. QED
  BY <1>10, <1>11, Zenon

(* copyValue's new buffer has the size of the text between the positions,  *)
(* each byte written is the right one at its place, and from the start of  *)
(* a block all are written; from behind the middle of what is to be copied *)
(* of the first block it never returns (connection.cpp:202-233).  For any  *)
(* blocks of any sizes: ConCopyInPlace. *)
THEOREM AlwaysConCopyInPlace == Spec => []ConCopyInPlace
<1>1. Init => ConCopyInPlace
  BY DEF Init, ConCopyInPlace, In, Idle
<1>2. ConCopyInPlace /\ [Next]_call => ConCopyInPlace'
  BY NextCopies DEF ConCopyInPlace, In
<1>3. QED
  BY <1>1, <1>2, PTL DEF Spec

-----------------------------------------------------------------------------
(* The table of exit functions, and what one loop over it has called and   *)
(* left when it has come down to the entry after low. *)
ExitEntries == [f : {"f", "g", "registers", "late", Gone}, obj : Nat]
Wanted(table, f, p) == table[p].f # Gone /\ f \in {Everything, table[p].f}
Numbered(table) == \A p \in 1 .. Len(table) : table[p].f # "late" => table[p].obj = p

CalledDown(called, table, f, low) ==
    /\ called \in Seq(ExitEntries)
    /\ \A k \in 1 .. Len(called) : \E p \in low + 1 .. Len(table) :
           called[k] = table[p] /\ Wanted(table, f, p)
    /\ \A p \in low + 1 .. Len(table) : Wanted(table, f, p) =>
           \E k \in 1 .. Len(called) : called[k] = table[p]
    /\ Descending(called)

LeftDown(now, table, f, low) ==
    /\ now \in Seq(ExitEntries) /\ Len(now) >= Len(table)
    /\ \A p \in 1 .. Len(table) : now[p].obj = table[p].obj
    /\ \A p \in 1 .. low : now[p] = table[p]
    /\ \A p \in low + 1 .. Len(table) :
           IF f # Everything /\ Wanted(table, f, p) THEN now[p].f = Gone ELSE now[p] = table[p]
    /\ \A p \in Len(table) + 1 .. Len(now) : now[p].f = "late"

LEMMA CallKeepsEntries ==
    ASSUME NEW now \in Seq(ExitEntries), NEW e \in ExitEntries
    PROVE  /\ AfterCall(now, e) \in Seq(ExitEntries)
           /\ Len(AfterCall(now, e)) >= Len(now)
           /\ \A p \in 1 .. Len(now) : AfterCall(now, e)[p] = now[p]
           /\ \A p \in Len(now) + 1 .. Len(AfterCall(now, e)) : AfterCall(now, e)[p].f = "late"
<1> DEFINE late == Entry("late", e.obj)
           more == Append(now, late)
<1>1. late \in ExitEntries /\ late.f = "late"
  BY DEF Entry, ExitEntries
<1> HIDE DEF late
<1>2. /\ more \in Seq(ExitEntries) /\ Len(more) = Len(now) + 1
      /\ \A p \in 1 .. Len(now) : more[p] = now[p]
      /\ more[Len(now) + 1] = late
  BY <1>1
<1> HIDE DEF more
<1>3. CASE AfterCall(now, e) = now
  <2>1. Len(now) \in Nat
    OBVIOUS
  <2>2. QED
    BY <1>3, <2>1
<1>4. CASE AfterCall(now, e) = more
  <2>1. Len(now) \in Nat
    OBVIOUS
  <2>2. QED
    BY <1>1, <1>2, <1>4, <2>1
<1>5. AfterCall(now, e) \in {now, more}
  BY DEF AfterCall, AtExit, more, late
<1>6. QED
  BY <1>3, <1>4, <1>5, Zenon

LEMMA OneEntryCalled ==
    ASSUME NEW called \in Seq(ExitEntries), NEW table \in Seq(ExitEntries), Numbered(table),
           NEW f, NEW i \in 1 .. Len(table), CalledDown(called, table, f, i), Wanted(table, f, i)
    PROVE  CalledDown(Append(called, table[i]), table, f, i - 1)
<1> DEFINE e == table[i]
           more == Append(called, e)
           n == Len(table)
           m == Len(called)
<1>1. e \in ExitEntries /\ n \in Nat /\ m \in Nat
  OBVIOUS
<1>2. /\ more \in Seq(ExitEntries) /\ Len(more) = m + 1
      /\ \A k \in 1 .. m : more[k] = called[k]
      /\ more[m + 1] = e
  BY <1>1
<1>3. /\ \A k \in 1 .. m : \E p \in i + 1 .. n : called[k] = table[p] /\ Wanted(table, f, p)
      /\ \A p \in i + 1 .. n : Wanted(table, f, p) => \E k \in 1 .. m : called[k] = table[p]
      /\ Descending(called)
  BY DEF CalledDown
<1>4. ASSUME NEW p \in 1 .. n, table[p].f # "late" PROVE table[p].obj = p
  BY <1>4 DEF Numbered
<1> HIDE DEF more, m
<1>5. ASSUME NEW k \in 1 .. Len(more)
      PROVE  \E p \in i - 1 + 1 .. n : more[k] = table[p] /\ Wanted(table, f, p)
  <2>1. CASE k \in 1 .. m
    <3>1. PICK p \in i + 1 .. n : called[k] = table[p] /\ Wanted(table, f, p)
      BY <1>3, <2>1
    <3>2. p \in i - 1 + 1 .. n /\ more[k] = table[p]
      BY <1>1, <1>2, <2>1, <3>1
    <3>3. QED
      BY <3>1, <3>2
  <2>2. CASE k = m + 1
    <3>1. i \in i - 1 + 1 .. n /\ more[k] = table[i]
      BY <1>1, <1>2, <2>2
    <3>2. QED
      BY <3>1
  <2>3. QED
    BY <1>1, <1>2, <2>1, <2>2
<1>6. ASSUME NEW p \in i - 1 + 1 .. n, Wanted(table, f, p)
      PROVE  \E k \in 1 .. Len(more) : more[k] = table[p]
  <2>1. CASE p = i
    <3>1. m + 1 \in 1 .. Len(more) /\ more[m + 1] = table[p]
      BY <1>1, <1>2, <2>1
    <3>2. QED
      BY <3>1
  <2>2. CASE p \in i + 1 .. n
    <3>1. PICK k \in 1 .. m : called[k] = table[p]
      BY <1>3, <1>6, <2>2
    <3>2. k \in 1 .. Len(more)
      BY <1>1, <1>2
    <3>3. more[k] = table[p]
      BY <1>2, <3>1, Zenon
    <3>4. QED
      BY <3>2, <3>3
  <2>3. QED
    BY <1>1, <2>1, <2>2
<1>7. Descending(more)
  <2> SUFFICES ASSUME NEW j \in DOMAIN more, NEW k \in DOMAIN more,
                      j < k, more[j].f # "late", more[k].f # "late"
               PROVE  more[j].obj > more[k].obj
    BY Zenon DEF Descending
  <2>1. DOMAIN more = 1 .. m + 1 /\ j \in 1 .. m /\ k \in 1 .. m + 1 /\ DOMAIN called = 1 .. m
    BY <1>1, <1>2 DEF m
  <2>2. more[j] = called[j]
    BY <1>2, <2>1
  <2>3. CASE k \in 1 .. m
    <3>1. more[k] = called[k] /\ j \in DOMAIN called /\ k \in DOMAIN called
      BY <1>2, <2>1, <2>3
    <3>2. QED
      BY <1>3, <2>2, <3>1 DEF Descending
  <2>4. CASE k = m + 1
    <3>1. more[k] = table[i] /\ table[i].obj = i
      BY <1>2, <1>4, <2>4
    <3>2. PICK p \in i + 1 .. n : called[j] = table[p]
      BY <1>3, <2>1
    <3>3. p \in 1 .. n /\ p > i
      BY <1>1, <3>2
    <3>4. table[p].obj = p
      BY <1>4, <2>2, <3>2, <3>3
    <3>5. QED
      BY <2>2, <3>1, <3>2, <3>3, <3>4
  <2>5. QED
    BY <1>1, <2>1, <2>3, <2>4
<1>8. CalledDown(more, table, f, i - 1)
  BY <1>2, <1>5, <1>6, <1>7 DEF CalledDown
<1>9. QED
  BY <1>8 DEF more

LEMMA OneEntryLeft ==
    ASSUME NEW now, NEW table \in Seq(ExitEntries), NEW f, NEW i \in 1 .. Len(table),
           LeftDown(now, table, f, i), Wanted(table, f, i)
    PROVE  LET after == AfterCall(now, table[i])
           IN  LeftDown(IF f = Everything THEN after ELSE Cleared(after, i), table, f, i - 1)
<1> DEFINE n == Len(table)
           after == AfterCall(now, table[i])
           new == IF f = Everything THEN after ELSE Cleared(after, i)
<1>1. /\ now \in Seq(ExitEntries) /\ Len(now) >= n
      /\ \A p \in 1 .. n : now[p].obj = table[p].obj
      /\ \A p \in 1 .. i : now[p] = table[p]
      /\ \A p \in i + 1 .. n :
             IF f # Everything /\ Wanted(table, f, p) THEN now[p].f = Gone ELSE now[p] = table[p]
      /\ \A p \in n + 1 .. Len(now) : now[p].f = "late"
  BY DEF LeftDown
<1>2. n \in Nat /\ Len(now) \in Nat /\ table[i] \in ExitEntries
  BY <1>1
<1>3. /\ after \in Seq(ExitEntries) /\ Len(after) >= Len(now)
      /\ \A p \in 1 .. Len(now) : after[p] = now[p]
      /\ \A p \in Len(now) + 1 .. Len(after) : after[p].f = "late"
  BY <1>1, <1>2, CallKeepsEntries, Zenon
<1> HIDE DEF after
<1>4. Len(after) \in Nat /\ DOMAIN after = 1 .. Len(after) /\ i \in DOMAIN after
  BY <1>1, <1>2, <1>3
<1>5. /\ Len(after) >= n
      /\ \A p \in 1 .. n : after[p] = now[p]
      /\ \A p \in n + 1 .. Len(after) : after[p].f = "late"
  <2>1. ASSUME NEW p \in n + 1 .. Len(after) PROVE after[p].f = "late"
    <3>1. CASE p \in n + 1 .. Len(now)
      BY <1>1, <1>2, <1>3, <3>1
    <3>2. CASE p \in Len(now) + 1 .. Len(after)
      BY <1>3, <3>2
    <3>3. QED
      BY <1>2, <1>4, <3>1, <3>2
  <2>2. QED
    BY <1>1, <1>2, <1>3, <1>4, <2>1
<1>6. /\ new \in Seq(ExitEntries) /\ Len(new) = Len(after)
      /\ \A p \in 1 .. Len(after) : p # i => new[p] = after[p]
      /\ new[i].obj = after[i].obj
      /\ IF f # Everything THEN new[i].f = Gone ELSE new[i] = after[i]
  <2>1. CASE f = Everything
    BY <1>3, <1>4, <2>1
  <2>2. CASE f # Everything
    <3>1. /\ new = [after EXCEPT ![i].f = Gone] /\ after[i] \in ExitEntries
      BY <1>3, <1>4, <2>2 DEF Cleared
    <3> DEFINE gone == [after[i] EXCEPT !.f = Gone]
    <3>2. gone \in ExitEntries /\ gone.f = Gone /\ gone.obj = after[i].obj
      BY <3>1 DEF ExitEntries
    <3>3. new = [after EXCEPT ![i] = gone]
      BY <3>1
    <3> HIDE DEF gone, new
    <3>4. QED
      BY <1>3, <1>4, <2>2, <3>2, <3>3
  <2>3. QED
    BY <2>1, <2>2, Zenon
<1> HIDE DEF new
<1>7. ASSUME NEW p \in 1 .. n PROVE new[p].obj = table[p].obj
  <2>1. p \in 1 .. Len(after)
    BY <1>2, <1>4, <1>5
  <2>2. QED
    BY <1>1, <1>5, <1>6, <2>1
<1>8. ASSUME NEW p \in 1 .. i - 1 PROVE new[p] = table[p]
  <2>1. p \in 1 .. n /\ p \in 1 .. Len(after) /\ p # i /\ p \in 1 .. i
    BY <1>2, <1>4, <1>5
  <2>2. QED
    BY <1>1, <1>5, <1>6, <2>1
<1>9. ASSUME NEW p \in i - 1 + 1 .. n
      PROVE  IF f # Everything /\ Wanted(table, f, p) THEN new[p].f = Gone ELSE new[p] = table[p]
  <2>1. p \in 1 .. n /\ p \in 1 .. Len(after)
    BY <1>2, <1>4, <1>5
  <2>2. CASE p = i
    <3>1. after[i] = table[i]
      BY <1>1, <1>5, <2>1, <2>2
    <3>2. QED
      BY <1>6, <2>2, <3>1
  <2>3. CASE p # i
    <3>1. p \in i + 1 .. n
      BY <1>2, <2>3
    <3>2. new[p] = now[p]
      BY <1>5, <1>6, <2>1, <2>3
    <3>3. QED
      BY <1>1, <3>1, <3>2
  <2>4. QED
    BY <2>2, <2>3
<1>10. \A p \in n + 1 .. Len(new) : new[p].f = "late"
  <2> SUFFICES ASSUME NEW p \in n + 1 .. Len(new) PROVE new[p].f = "late"
    OBVIOUS
  <2>1. p \in 1 .. Len(after) /\ p # i
    BY <1>2, <1>6
  <2>2. QED
    BY <1>5, <1>6, <2>1
<1>11. LeftDown(new, table, f, i - 1)
  BY <1>5, <1>6, <1>7, <1>8, <1>9, <1>10 DEF LeftDown
<1>12. QED
  BY <1>11, Zenon DEF new, after

LEMMA OneEntryNotWanted ==
    ASSUME NEW called, NEW now, NEW table \in Seq(ExitEntries), NEW f, NEW i \in 1 .. Len(table),
           CalledDown(called, table, f, i), LeftDown(now, table, f, i), ~Wanted(table, f, i)
    PROVE  CalledDown(called, table, f, i - 1) /\ LeftDown(now, table, f, i - 1)
<1> DEFINE n == Len(table)
<1>0. n \in Nat
  OBVIOUS
<1>1. ASSUME NEW p \in i - 1 + 1 .. n PROVE p = i \/ p \in i + 1 .. n
  BY <1>0
<1>2. ASSUME NEW p \in i + 1 .. n PROVE p \in i - 1 + 1 .. n
  BY <1>0
<1>3. /\ called \in Seq(ExitEntries) /\ Descending(called)
      /\ \A k \in 1 .. Len(called) : \E p \in i + 1 .. n :
             called[k] = table[p] /\ Wanted(table, f, p)
      /\ \A p \in i + 1 .. n : Wanted(table, f, p) => \E k \in 1 .. Len(called) : called[k] = table[p]
  BY DEF CalledDown
<1>4. \A k \in 1 .. Len(called) : \E p \in i - 1 + 1 .. n :
          called[k] = table[p] /\ Wanted(table, f, p)
  BY <1>2, <1>3, Zenon
<1>5. \A p \in i - 1 + 1 .. n : Wanted(table, f, p) => \E k \in 1 .. Len(called) : called[k] = table[p]
  BY <1>1, <1>3, Zenon
<1>6. CalledDown(called, table, f, i - 1)
  BY <1>3, <1>4, <1>5, Zenon DEF CalledDown
<1>7. /\ now \in Seq(ExitEntries) /\ Len(now) >= n
      /\ \A p \in 1 .. n : now[p].obj = table[p].obj
      /\ \A p \in 1 .. i : now[p] = table[p]
      /\ \A p \in i + 1 .. n :
             IF f # Everything /\ Wanted(table, f, p) THEN now[p].f = Gone ELSE now[p] = table[p]
      /\ \A p \in n + 1 .. Len(now) : now[p].f = "late"
  BY DEF LeftDown
<1>8. \A p \in 1 .. i - 1 : now[p] = table[p]
  BY <1>7
<1>9. \A p \in i - 1 + 1 .. n :
          IF f # Everything /\ Wanted(table, f, p) THEN now[p].f = Gone ELSE now[p] = table[p]
  <2> SUFFICES ASSUME NEW p \in i - 1 + 1 .. n
               PROVE  IF f # Everything /\ Wanted(table, f, p) THEN now[p].f = Gone
                      ELSE now[p] = table[p]
    OBVIOUS
  <2>1. CASE p = i
    <3>1. now[i] = table[i]
      BY <1>7
    <3>2. QED
      BY <2>1, <3>1
  <2>2. CASE p \in i + 1 .. n
    BY <1>7, <2>2
  <2>3. QED
    BY <1>1, <2>1, <2>2
<1>10. LeftDown(now, table, f, i - 1)
  BY <1>7, <1>8, <1>9, Zenon DEF LeftDown
<1>11. QED
  BY <1>6, <1>10

ExitRuns(n) == {run \in [table : Seq(ExitEntries), called : Seq(ExitEntries)] : Len(run.table) >= n}

LEMMA CallEntryRuns ==
    ASSUME NEW n \in Nat, NEW run \in ExitRuns(n), NEW i \in 1 .. n, NEW f
    PROVE  CallEntry(run, i, f) \in ExitRuns(n)
<1> DEFINE e == run.table[i]
           after == AfterCall(run.table, e)
<1>1. /\ run.table \in Seq(ExitEntries) /\ run.called \in Seq(ExitEntries)
      /\ Len(run.table) >= n
  BY DEF ExitRuns
<1>2. e \in ExitEntries
  BY <1>1
<1>3. after \in Seq(ExitEntries) /\ Len(after) >= Len(run.table)
  BY <1>1, <1>2, CallKeepsEntries, Zenon
<1> HIDE DEF after
<1>4. Len(after) >= n
  <2>1. Len(after) \in Nat /\ Len(run.table) \in Nat
    BY <1>1, <1>3
  <2>2. QED
    BY <1>1, <1>3, <2>1
<1>5. Append(run.called, e) \in Seq(ExitEntries)
  <2> HIDE DEF e
  <2>1. QED
    BY <1>1, <1>2
<1>6. Cleared(after, i) \in Seq(ExitEntries) /\ Len(Cleared(after, i)) = Len(after)
  <2>1. i \in 1 .. Len(after) /\ after[i] \in ExitEntries
    BY <1>3, <1>4
  <2> DEFINE gone == [after[i] EXCEPT !.f = Gone]
  <2>2. gone \in ExitEntries
    BY <2>1 DEF ExitEntries
  <2>3. Cleared(after, i) = [after EXCEPT ![i] = gone]
    BY DEF Cleared
  <2> HIDE DEF gone
  <2>4. QED
    BY <1>3, <2>1, <2>2, <2>3
<1>7. CallEntry(run, i, f) =
          IF e.f = Gone \/ f \notin {Everything, e.f} THEN run
          ELSE [table |-> IF f = Everything THEN after ELSE Cleared(after, i),
                called |-> Append(run.called, e)]
  BY Zenon DEF CallEntry, after
<1> HIDE DEF e
<1>8. QED
  BY <1>3, <1>4, <1>5, <1>6, <1>7 DEF ExitRuns

RunDown(run, table, f, low) ==
    CalledDown(run.called, table, f, low) /\ LeftDown(run.table, table, f, low)

LEMMA CallEntryDown ==
    ASSUME NEW table \in Seq(ExitEntries), Numbered(table), NEW f, NEW i \in 1 .. Len(table),
           NEW run, RunDown(run, table, f, i)
    PROVE  RunDown(CallEntry(run, i, f), table, f, i - 1)
<1> DEFINE after == AfterCall(run.table, table[i])
           new == IF f = Everything THEN after ELSE Cleared(after, i)
<1>1. CalledDown(run.called, table, f, i) /\ LeftDown(run.table, table, f, i)
  BY DEF RunDown
<1>2. run.table[i] = table[i] /\ run.called \in Seq(ExitEntries)
  BY <1>1 DEF LeftDown, CalledDown
<1>3. CallEntry(run, i, f) = IF ~Wanted(table, f, i) THEN run
                             ELSE [table |-> new, called |-> Append(run.called, table[i])]
  BY <1>2, Zenon DEF CallEntry, Wanted
<1> HIDE DEF new
<1>4. CASE ~Wanted(table, f, i)
  <2>1. CallEntry(run, i, f) = run
    BY <1>3, <1>4, Zenon
  <2>2. CalledDown(run.called, table, f, i - 1) /\ LeftDown(run.table, table, f, i - 1)
    BY <1>1, <1>4, OneEntryNotWanted, Zenon
  <2>3. QED
    BY <2>1, <2>2, Zenon DEF RunDown
<1>5. CASE Wanted(table, f, i)
  <2>1. /\ CallEntry(run, i, f).table = new
        /\ CallEntry(run, i, f).called = Append(run.called, table[i])
    BY <1>3, <1>5
  <2>2. CalledDown(Append(run.called, table[i]), table, f, i - 1)
    BY <1>1, <1>2, <1>5, OneEntryCalled, Zenon
  <2>3. LeftDown(new, table, f, i - 1)
    BY <1>1, <1>5, OneEntryLeft, Zenon DEF new
  <2>4. QED
    BY <2>1, <2>2, <2>3, Zenon DEF RunDown
<1>6. QED
  BY <1>4, <1>5

LEMMA FinalizeDown ==
    ASSUME NEW table \in Seq(ExitEntries), Numbered(table), NEW f
    PROVE  RunDown(Finalize(table, f), table, f, 0)
<1> DEFINE n == Len(table)
           V == ExitRuns(n)
           first == [table |-> table, called |-> <<>>]
           h == [k \in 1 .. n |-> [run \in V |-> CallEntry(run, n - k + 1, f)]]
           next(g) == [k \in 0 .. n |-> IF k = 0 THEN first ELSE CallEntry(g[k - 1], n - k + 1, f)]
           runs == CHOOSE g : g = next(g)
<1>1. n \in Nat
  OBVIOUS
<1>2. Finalize(table, f) = runs[n]
  BY Zenon DEF Finalize
<1>3. first \in V
  BY <1>1 DEF ExitRuns
<1> HIDE DEF V
<1>4. ASSUME NEW k \in 1 .. n, NEW run \in V PROVE CallEntry(run, n - k + 1, f) \in V
  <2>1. n - k + 1 \in 1 .. n
    BY <1>1
  <2>2. QED
    BY <1>1, <2>1, CallEntryRuns, Zenon DEF V
<1> HIDE DEF first, n
<1>5. StepsOf(V, first, n, h)
  BY <1>1, <1>3, <1>4 DEF StepsOf
<1>6. PICK g : Follows(g, V, first, n, h)
  <2> HIDE DEF h
  <2>1. QED
    BY <1>5, RecursiveFunction, Zenon
<1>7. g = next(g)
  <2>1. /\ g \in [0 .. n -> V] /\ g[0] = first
        /\ \A k \in 1 .. n : g[k] = h[k][g[k - 1]]
    BY <1>6, Zenon DEF Follows
  <2>2. ASSUME NEW k \in 1 .. n PROVE g[k] = CallEntry(g[k - 1], n - k + 1, f)
    <3>1. k - 1 \in 0 .. n
      BY <1>1
    <3>2. g[k - 1] \in V
      BY <2>1, <3>1, Zenon
    <3>3. QED
      BY <2>1, <3>2, Zenon
  <2>3. QED
    BY <1>1, <2>1, <2>2
<1> HIDE DEF h
<1>8. runs = next(runs)
  <2> HIDE DEF next
  <2>1. QED
    BY <1>7, Zenon
<1> HIDE DEF runs
<1>9. /\ runs[0] = first
      /\ \A k \in 1 .. n : runs[k] = CallEntry(runs[k - 1], n - k + 1, f)
  <2>1. ASSUME NEW k \in 0 .. n
        PROVE  runs[k] = IF k = 0 THEN first ELSE CallEntry(runs[k - 1], n - k + 1, f)
    BY <1>8, Zenon
  <2>2. 0 \in 0 .. n /\ \A k \in 1 .. n : k \in 0 .. n /\ k # 0
    BY <1>1
  <2>3. QED
    BY <2>1, <2>2, Zenon
<1> DEFINE T == {k \in 0 .. n : RunDown(runs[k], table, f, n - k)}
<1>10. 0 \in T
  <2>1. first.table = table /\ first.called = <<>>
    BY DEF first
  <2>2. CalledDown(<<>>, table, f, n)
    BY <1>1 DEF CalledDown, Descending, n
  <2>3. LeftDown(table, table, f, n)
    BY <1>1 DEF LeftDown, n
  <2>4. RunDown(first, table, f, n)
    BY <2>1, <2>2, <2>3, Zenon DEF RunDown
  <2>5. n - 0 = n /\ 0 \in 0 .. n
    BY <1>1
  <2>6. QED
    BY <1>9, <2>4, <2>5, Zenon
<1>11. ASSUME NEW k \in 1 .. n, k - 1 \in T PROVE k \in T
  <2> DEFINE i == n - k + 1
  <2>1. i \in 1 .. n /\ n - (k - 1) = i /\ n - k = i - 1 /\ k \in 0 .. n
    BY <1>1
  <2>2. RunDown(runs[k - 1], table, f, i)
    BY <1>11, <2>1
  <2>3. runs[k] = CallEntry(runs[k - 1], i, f)
    BY <1>9
  <2> HIDE DEF i
  <2>4. RunDown(runs[k], table, f, i - 1)
    BY <2>1, <2>2, <2>3, CallEntryDown, Zenon DEF n
  <2>5. QED
    BY <2>1, <2>4
<1> HIDE DEF T
<1>12. 0 .. n \subseteq T
  BY <1>1, <1>10, <1>11, InductionUpTo, Zenon
<1>13. n \in T /\ n - n = 0
  BY <1>1, <1>12
<1>14. QED
  BY <1>2, <1>13 DEF T

(* The first entries that the registrations make. *)
FirstEntries(regs, m) == [i \in 1 .. m |-> Entry(regs[i], i)]
FewerOf(k) == IF k <= MaxFuncs THEN k ELSE MaxFuncs

LEMMA EntriesRegistered ==
    ASSUME NEW regs \in Seq({"f", "g", "registers"}), NEW m \in 0 .. Len(regs)
    PROVE  /\ FirstEntries(regs, m) \in Seq(ExitEntries) /\ Len(FirstEntries(regs, m)) = m
           /\ \A i \in 1 .. m : /\ FirstEntries(regs, m)[i] = Entry(regs[i], i)
                                /\ FirstEntries(regs, m)[i].f = regs[i]
                                /\ FirstEntries(regs, m)[i].obj = i
                                /\ regs[i] \in {"f", "g", "registers"}
<1>1. ASSUME NEW i \in 1 .. m
      PROVE  /\ Entry(regs[i], i) \in ExitEntries /\ regs[i] \in {"f", "g", "registers"}
             /\ Entry(regs[i], i).f = regs[i] /\ Entry(regs[i], i).obj = i
  <2>1. regs[i] \in {"f", "g", "registers"} /\ i \in Nat
    OBVIOUS
  <2>2. QED
    BY <2>1 DEF Entry, ExitEntries
<1>2. FirstEntries(regs, m) = [i \in 1 .. m |-> Entry(regs[i], i)]
  BY DEF FirstEntries
<1>3. m \in Nat
  OBVIOUS
<1>4. QED
  BY <1>1, <1>2, <1>3

LEMMA OneMoreEntry ==
    ASSUME NEW regs \in Seq({"f", "g", "registers"}), NEW k \in 1 .. Len(regs)
    PROVE  LET table == FirstEntries(regs, FewerOf(k - 1))
           IN  FirstEntries(regs, FewerOf(k)) = AtExit(table, Entry(regs[k], Len(table) + 1))
<1> DEFINE m == FewerOf(k - 1)
           table == FirstEntries(regs, m)
           e == Entry(regs[k], Len(table) + 1)
<1>1. MaxFuncs \in Nat
  BY FuncsAssumption
<1>2. /\ m \in 0 .. Len(regs) /\ FewerOf(k) \in 0 .. Len(regs)
      /\ m >= MaxFuncs => FewerOf(k) = m
      /\ m < MaxFuncs => m = k - 1 /\ FewerOf(k) = k
  BY <1>1 DEF FewerOf
<1> HIDE DEF m
<1>3. table \in Seq(ExitEntries) /\ Len(table) = m
  BY <1>2, EntriesRegistered, Zenon
<1>4. CASE m >= MaxFuncs
  <2>1. AtExit(table, e) = table
    BY <1>3, <1>4, Zenon DEF AtExit
  <2>2. QED
    BY <1>2, <1>4, <2>1, Zenon DEF m
<1>5. CASE m < MaxFuncs
  <2>1. ~(Len(table) >= MaxFuncs)
    BY <1>1, <1>2, <1>3, <1>5
  <2>2. AtExit(table, e) = Append(table, e)
    BY <2>1, Zenon DEF AtExit
  <2>3. m = k - 1 /\ FewerOf(k) = k /\ e = Entry(regs[k], k)
    BY <1>2, <1>3, <1>5
  <2> DEFINE new == FirstEntries(regs, k)
  <2>4. /\ new \in Seq(ExitEntries) /\ Len(new) = k
        /\ \A i \in 1 .. k : new[i] = Entry(regs[i], i)
    BY <1>2, <2>3, EntriesRegistered
  <2>5. \A i \in 1 .. m : table[i] = Entry(regs[i], i)
    BY <1>2, EntriesRegistered
  <2> HIDE DEF new, table, e
  <2>6. new = Append(table, e)
    <3>1. ASSUME NEW i \in 1 .. k PROVE new[i] = Append(table, e)[i]
      <4>1. CASE i = k
        BY <1>3, <2>3, <2>4, <4>1
      <4>2. CASE i # k
        <5>1. i \in 1 .. m
          BY <2>3, <4>2
        <5>2. Append(table, e)[i] = table[i]
          BY <1>3, <5>1
        <5>3. QED
          BY <2>4, <2>5, <5>1, <5>2
      <4>3. QED
        BY <4>1, <4>2
    <3>2. Len(Append(table, e)) = k /\ Append(table, e) = [i \in 1 .. k |-> Append(table, e)[i]]
      BY <1>3, <2>3
    <3>3. new = [i \in 1 .. k |-> new[i]]
      BY <2>4
    <3>4. QED
      BY <3>1, <3>2, <3>3
  <2>7. QED
    BY <2>2, <2>3, <2>6, Zenon DEF new, table, e, m
<1>6. m >= MaxFuncs \/ m < MaxFuncs
  BY <1>1, <1>2
<1>7. QED
  BY <1>4, <1>5, <1>6, Zenon

LEMMA TableRegistered ==
    ASSUME NEW regs \in Seq({"f", "g", "registers"})
    PROVE  Table(regs) = FirstEntries(regs, FewerOf(Len(regs)))
<1> DEFINE n == Len(regs)
           entries(k) == FirstEntries(regs, FewerOf(k))
           step(table, k) == AtExit(table, Entry(regs[k], Len(table) + 1))
           next(g) == [k \in 0 .. n |-> IF k = 0 THEN <<>> ELSE step(g[k - 1], k)]
           tables == CHOOSE g : g = next(g)
           g == [k \in 0 .. n |-> entries(k)]
<1>1. n \in Nat
  OBVIOUS
<1>2. Table(regs) = tables[n]
  BY Zenon DEF Table
<1>3. entries(0) = <<>>
  <2>1. FewerOf(0) = 0
    BY FuncsAssumption DEF FewerOf
  <2>2. QED
    BY <2>1 DEF FirstEntries
<1>4. ASSUME NEW k \in 1 .. n PROVE entries(k) = step(entries(k - 1), k)
  BY OneMoreEntry, Zenon
<1> HIDE DEF n, entries, step
<1>5. g = next(g)
  <2>1. ASSUME NEW k \in 0 .. n PROVE entries(k) = IF k = 0 THEN <<>> ELSE step(g[k - 1], k)
    <3>1. CASE k = 0
      BY <1>3, <3>1, Zenon
    <3>2. CASE k # 0
      <4>1. k \in 1 .. n /\ k - 1 \in 0 .. n
        BY <1>1, <3>2
      <4>2. g[k - 1] = entries(k - 1)
        BY <4>1, Zenon
      <4>3. QED
        BY <1>4, <3>2, <4>1, <4>2, Zenon
    <3>3. QED
      BY <3>1, <3>2
  <2>2. QED
    BY <2>1, Zenon
<1>6. tables = next(tables)
  <2> HIDE DEF next, g
  <2>1. QED
    BY <1>5, Zenon
<1> HIDE DEF tables
<1> DEFINE T == {k \in 0 .. n : tables[k] = entries(k)}
<1>7. ASSUME NEW k \in 0 .. n PROVE tables[k] = IF k = 0 THEN <<>> ELSE step(tables[k - 1], k)
  BY <1>6, Zenon
<1>8. 0 \in T
  <2>1. 0 \in 0 .. n
    BY <1>1
  <2>2. QED
    BY <1>3, <1>7, <2>1, Zenon
<1>9. ASSUME NEW k \in 1 .. n, k - 1 \in T PROVE k \in T
  <2>1. k \in 0 .. n /\ k # 0
    OBVIOUS
  <2>2. tables[k - 1] = entries(k - 1)
    BY <1>9, Zenon
  <2>3. tables[k] = entries(k)
    BY <1>4, <1>7, <2>1, <2>2, Zenon
  <2>4. QED
    BY <2>1, <2>3, Zenon
<1> HIDE DEF T
<1>10. 0 .. n \subseteq T
  BY <1>1, <1>8, <1>9, InductionUpTo, Zenon
<1>11. n \in T
  BY <1>1, <1>10
<1>12. QED
  BY <1>2, <1>11, Zenon DEF T, entries, n

LEMMA NextExits == Next => ExitsReverse'
<1> SUFFICES ASSUME Next, call'.fn = "exit" PROVE ExitsReverse'
  BY DEF ExitsReverse, In
<1>1. Exit
  BY CallsOf
<1>2. PICK regs \in BoundedSeq({"f", "g", "registers"}, MaxFuncs + 1),
           f \in {Everything, "f", "g", "registers", "late"},
           g \in {Everything, "f", "g", "registers", "late"} :
           call' = [fn |-> "exit", regs |-> regs, f |-> f, g |-> g, table |-> Table(regs),
                    accepted |-> Accepted(Table(regs)), one |-> Finalize(Table(regs), f),
                    two |-> Finalize(Finalize(Table(regs), f).table, g)]
  BY <1>1, Zenon DEF Exit, Call
<1> DEFINE table == Table(regs)
           one == Finalize(table, f)
           two == Finalize(one.table, g)
           n == FewerOf(Len(regs))
<1>3. /\ call'.regs = regs /\ call'.f = f /\ call'.one = one /\ call'.two = two
      /\ call'.accepted = Accepted(table)
  BY <1>2
<1>4. regs \in Seq({"f", "g", "registers"}) /\ MaxFuncs \in Nat
  <2>1. MaxFuncs \in Nat
    BY FuncsAssumption
  <2>2. MaxFuncs + 1 \in Nat
    BY <2>1
  <2>3. QED
    BY <2>1, <2>2, BoundedIsSeq, Zenon
<1>5. n \in 0 .. Len(regs) /\ n \in Nat /\ (n < MaxFuncs <=> ~(n >= MaxFuncs))
  BY <1>4 DEF FewerOf
<1>6. Min({Len(regs), MaxFuncs}) = n
  <2>1. /\ {Len(regs), MaxFuncs} \in SUBSET Int /\ n \in {Len(regs), MaxFuncs}
        /\ \A j \in {Len(regs), MaxFuncs} : n <= j
    BY <1>4 DEF FewerOf
  <2> HIDE DEF n
  <2>2. QED
    BY <2>1, LeastIs, Zenon
<1>7. table = FirstEntries(regs, n)
  BY <1>4, TableRegistered, Zenon
<1> HIDE DEF table, one, two, n
<1>8. /\ table \in Seq(ExitEntries) /\ Len(table) = n
      /\ \A i \in 1 .. n : /\ table[i] = Entry(regs[i], i) /\ table[i].f = regs[i]
                           /\ table[i].obj = i /\ regs[i] \in {"f", "g", "registers"}
  <2>1. /\ FirstEntries(regs, n) \in Seq(ExitEntries) /\ Len(FirstEntries(regs, n)) = n
        /\ \A i \in 1 .. n : /\ FirstEntries(regs, n)[i] = Entry(regs[i], i)
                             /\ FirstEntries(regs, n)[i].f = regs[i]
                             /\ FirstEntries(regs, n)[i].obj = i
                             /\ regs[i] \in {"f", "g", "registers"}
    BY <1>4, <1>5, EntriesRegistered, Zenon
  <2>2. QED
    BY <1>7, <2>1
<1>9. Numbered(table)
  BY <1>8, Zenon DEF Numbered
<1>10. RunDown(one, table, f, 0)
  BY <1>8, <1>9, FinalizeDown, Zenon DEF one
<1>11. /\ one.called \in Seq(ExitEntries) /\ Descending(one.called)
       /\ \A k \in 1 .. Len(one.called) : \E p \in 1 .. n :
              one.called[k] = table[p] /\ Wanted(table, f, p)
       /\ \A p \in 1 .. n : Wanted(table, f, p) =>
              \E k \in 1 .. Len(one.called) : one.called[k] = table[p]
       /\ one.table \in Seq(ExitEntries) /\ Len(one.table) >= n
       /\ \A p \in 1 .. n : one.table[p].obj = table[p].obj
       /\ \A p \in 1 .. n : IF f # Everything /\ Wanted(table, f, p) THEN one.table[p].f = Gone
                            ELSE one.table[p] = table[p]
       /\ \A p \in n + 1 .. Len(one.table) : one.table[p].f = "late"
  <2>1. 0 + 1 = 1
    OBVIOUS
  <2>2. QED
    BY <1>8, <1>10, <2>1 DEF RunDown, CalledDown, LeftDown
<1>12. ASSUME NEW p \in 1 .. Len(one.table) PROVE p \in 1 .. n \/ p \in n + 1 .. Len(one.table)
  BY <1>5, <1>11
<1>13. Numbered(one.table)
  <2> SUFFICES ASSUME NEW p \in 1 .. Len(one.table), one.table[p].f # "late"
               PROVE  one.table[p].obj = p
    BY Zenon DEF Numbered
  <2>1. p \in 1 .. n
    BY <1>11, <1>12, Zenon
  <2>2. one.table[p].obj = table[p].obj
    BY <1>11, <2>1, Zenon
  <2>3. table[p].obj = p
    BY <1>8, <2>1, Zenon
  <2>4. QED
    BY <2>2, <2>3
<1>14. RunDown(two, one.table, g, 0)
  BY <1>11, <1>13, FinalizeDown, Zenon DEF two
<1>15. /\ two.called \in Seq(ExitEntries) /\ Descending(two.called)
       /\ \A k \in 1 .. Len(two.called) : \E p \in 1 .. Len(one.table) :
              two.called[k] = one.table[p] /\ Wanted(one.table, g, p)
  <2>1. 0 + 1 = 1
    OBVIOUS
  <2>2. QED
    BY <1>14, <2>1 DEF RunDown, CalledDown
<1>16. DOMAIN one.called = 1 .. Len(one.called) /\ DOMAIN two.called = 1 .. Len(two.called)
  BY <1>11, <1>15
<1>17. ASSUME NEW p \in 1 .. n PROVE Wanted(table, f, p) <=> f \in {Everything, regs[p]}
  <2>1. table[p].f = regs[p] /\ regs[p] # Gone
    BY <1>8 DEF Gone
  <2>2. QED
    BY <2>1, Zenon DEF Wanted
<1> DEFINE wanted == {i \in 1 .. n : f \in {Everything, regs[i]}}
<1>18. {one.called[k] : k \in DOMAIN one.called} = {Entry(regs[i], i) : i \in wanted}
  <2>1. ASSUME NEW k \in DOMAIN one.called PROVE one.called[k] \in {Entry(regs[i], i) : i \in wanted}
    <3>1. PICK p \in 1 .. n : one.called[k] = table[p] /\ Wanted(table, f, p)
      BY <1>11, <1>16, Zenon
    <3>2. p \in wanted /\ table[p] = Entry(regs[p], p)
      BY <1>8, <1>17, <3>1, Zenon
    <3>3. QED
      BY <3>1, <3>2, Zenon
  <2>2. ASSUME NEW i \in wanted PROVE Entry(regs[i], i) \in {one.called[k] : k \in DOMAIN one.called}
    <3>1. i \in 1 .. n /\ Wanted(table, f, i) /\ table[i] = Entry(regs[i], i)
      BY <1>8, <1>17, Zenon
    <3>2. PICK k \in DOMAIN one.called : one.called[k] = table[i]
      BY <1>11, <1>16, <3>1, Zenon
    <3>3. QED
      BY <3>1, <3>2, Zenon
  <2> HIDE DEF wanted
  <2>3. QED
    BY <2>1, <2>2, Zenon
<1>19. Accepted(table) = 0 <=> n < MaxFuncs
  <2>1. Accepted(table) = IF n >= MaxFuncs THEN -1 ELSE 0
    BY <1>8, Zenon DEF Accepted
  <2>2. QED
    BY <1>5, <2>1
<1>20. ASSUME f # Everything PROVE Disjoint(one.called, two.called)
  <2> SUFFICES ASSUME NEW i \in DOMAIN one.called, NEW j \in DOMAIN two.called,
                      one.called[i] = two.called[j]
               PROVE  FALSE
    BY Zenon DEF Disjoint
  <2>1. PICK p \in 1 .. n : one.called[i] = table[p] /\ Wanted(table, f, p)
    BY <1>11, <1>16, Zenon
  <2>2. PICK q \in 1 .. Len(one.table) : two.called[j] = one.table[q] /\ Wanted(one.table, g, q)
    BY <1>15, <1>16, Zenon
  <2>3. table[p].f = f /\ one.table[q].f = f /\ one.table[q].f # Gone
    BY <1>20, <2>1, <2>2, Zenon DEF Wanted
  <2>4. f # "late"
    BY <1>8, <2>3
  <2>5. q \in 1 .. n
    BY <1>11, <1>12, <2>3, <2>4, Zenon
  <2>6. CASE Wanted(table, f, q)
    BY <1>11, <1>20, <2>3, <2>5, <2>6, Zenon
  <2>7. CASE ~Wanted(table, f, q)
    <3>1. one.table[q] = table[q]
      BY <1>11, <2>5, <2>7, Zenon
    <3>2. table[q].f = f /\ table[q].f # Gone
      BY <2>3, <3>1, Zenon
    <3>3. QED
      BY <2>7, <3>2, Zenon DEF Wanted
  <2>8. QED
    BY <2>6, <2>7, Zenon
<1>21. ExitsReverse'
  <2>1. {call'.one.called[k] : k \in DOMAIN call'.one.called}
            = {Entry(call'.regs[i], i) :
                  i \in {i \in 1 .. Min({Len(call'.regs), MaxFuncs}) :
                            call'.f \in {Everything, call'.regs[i]}}}
    <3>1. {i \in 1 .. Min({Len(call'.regs), MaxFuncs}) : call'.f \in {Everything, call'.regs[i]}} = wanted
      BY <1>3, <1>6, Zenon DEF wanted
    <3> HIDE DEF wanted
    <3>2. {call'.one.called[k] : k \in DOMAIN call'.one.called} = {Entry(regs[i], i) : i \in wanted}
      BY <1>3, <1>18, Zenon
    <3>3. {Entry(call'.regs[i], i) : i \in wanted} = {Entry(regs[i], i) : i \in wanted}
      BY <1>3, Zenon
    <3>4. QED
      BY <3>1, <3>2, <3>3, Zenon
  <2>2. Descending(call'.one.called) /\ Descending(call'.two.called)
    BY <1>3, <1>11, <1>15, Zenon
  <2>3. call'.accepted = 0 <=> Min({Len(call'.regs), MaxFuncs}) < MaxFuncs
    BY <1>3, <1>6, <1>19, Zenon
  <2>4. call'.f # Everything => Disjoint(call'.one.called, call'.two.called)
    BY <1>3, <1>20, Zenon
  <2>5. QED
    BY <2>1, <2>2, <2>3, <2>4, Zenon DEF ExitsReverse, Descending, Disjoint
<1>22. QED
  BY <1>21

(* However many exit functions are registered, __cxa_finalize calls those  *)
(* it is to call and no other, each once, in the reverse order of their    *)
(* registration, and none again that it called by its function's name      *)
(* (cxa_exception.cpp:47-90): ExitsReverse. *)
THEOREM AlwaysExitsReverse == Spec => []ExitsReverse
<1>1. Init => ExitsReverse
  BY DEF Init, ExitsReverse, In, Idle
<1>2. ExitsReverse /\ [Next]_call => ExitsReverse'
  <2>1. ExitsReverse /\ UNCHANGED call => ExitsReverse'
    BY Zenon DEF ExitsReverse, Descending, Disjoint, In
  <2>2. QED
    BY <2>1, NextExits
<1>3. QED
  BY <1>1, <1>2, PTL DEF Spec

-----------------------------------------------------------------------------
(* The bytes of a list of blocks: each has a place in one of them, as far  *)
(* behind the blocks in front of that one as the place says. *)
Chars == Nat \ {0}
PlaceSet == [pos : Nat, block : Nat]
IsPlace(pl, blocks, k, text) ==
    /\ pl \in PlaceSet /\ pl.block \in 1 .. Len(blocks)
    /\ BytesBefore(blocks, pl.block) + pl.pos = k - 1
    /\ blocks[pl.block][pl.pos + 1] = text[k]
RowOf(blocks, b) == [i \in 1 .. Len(blocks[b]) |-> Found(i - 1, b)]
AllPlaces(places, blocks, text) ==
    /\ Len(places) = Len(text)
    /\ \A k \in 1 .. Len(text) : IsPlace(places[k], blocks, k, text)

LEMMA RowIs ==
    ASSUME NEW blocks \in Seq(Seq(Chars)), NEW b \in 1 .. Len(blocks)
    PROVE  /\ blocks[b] \in Seq(Chars) /\ Len(blocks[b]) \in Nat
           /\ RowOf(blocks, b) \in Seq(PlaceSet) /\ Len(RowOf(blocks, b)) = Len(blocks[b])
           /\ \A i \in 1 .. Len(blocks[b]) :
                  /\ RowOf(blocks, b)[i] \in PlaceSet
                  /\ RowOf(blocks, b)[i].pos = i - 1 /\ RowOf(blocks, b)[i].block = b
<1>1. blocks[b] \in Seq(Chars) /\ b \in Nat
  OBVIOUS
<1>2. Len(blocks[b]) \in Nat
  BY <1>1
<1>3. ASSUME NEW i \in 1 .. Len(blocks[b])
      PROVE  Found(i - 1, b) \in PlaceSet /\ Found(i - 1, b).pos = i - 1 /\ Found(i - 1, b).block = b
  BY <1>1, <1>2 DEF Found, PlaceSet
<1>4. RowOf(blocks, b) = [i \in 1 .. Len(blocks[b]) |-> Found(i - 1, b)]
  BY DEF RowOf
<1>5. QED
  BY <1>1, <1>2, <1>3, <1>4

LEMMA OneBlockPlaced ==
    ASSUME NEW blocks \in Seq(Seq(Chars)), NEW b \in 1 .. Len(blocks),
           NEW text \in Seq(Chars), NEW places \in Seq(PlaceSet), AllPlaces(places, blocks, text),
           BytesBefore(blocks, b) = Len(text)
    PROVE  AllPlaces(places \o RowOf(blocks, b), blocks, text \o blocks[b])
<1> DEFINE row == RowOf(blocks, b)
           new == blocks[b]
           all == places \o row
           whole == text \o new
           m == Len(text)
           n == Len(new)
<1>1. /\ new \in Seq(Chars) /\ n \in Nat /\ row \in Seq(PlaceSet) /\ Len(row) = n
      /\ \A i \in 1 .. n : row[i] \in PlaceSet /\ row[i].pos = i - 1 /\ row[i].block = b
  BY RowIs
<1>2. m \in Nat /\ Len(places) = m /\ \A k \in 1 .. m : IsPlace(places[k], blocks, k, text)
  BY DEF AllPlaces
<1>3. Joined(Chars, whole, text, new, m, n)
  BY <1>1, Concatenated, Zenon
<1>4. Joined(PlaceSet, all, places, row, m, n)
  <2>1. Joined(PlaceSet, all, places, row, Len(places), Len(row))
    BY <1>1, Concatenated, Zenon
  <2> HIDE DEF all, row, m, n
  <2>2. QED
    BY <1>1, <1>2, <2>1, Zenon
<1>5. BytesBefore(blocks, b) = m
  OBVIOUS
<1> HIDE DEF all, row, whole, new, m, n
<1>6. ASSUME NEW k \in 1 .. m + n PROVE IsPlace(all[k], blocks, k, whole)
  <2>1. CASE k \in 1 .. m
    <3>1. all[k] = places[k] /\ whole[k] = text[k] /\ IsPlace(places[k], blocks, k, text)
      BY <1>2, <1>3, <1>4, <2>1 DEF Joined
    <3>2. QED
      BY <3>1, Zenon DEF IsPlace
  <2>2. CASE k \notin 1 .. m
    <3> DEFINE i == k - m
    <3>1. i \in 1 .. n /\ k = m + i /\ m + (i - 1) = k - 1 /\ i - 1 + 1 = i
      BY <1>1, <1>2, <2>2
    <3> HIDE DEF i
    <3>2. all[k] = row[i] /\ whole[k] = new[i]
      BY <1>3, <1>4, <3>1 DEF Joined
    <3>3. row[i] \in PlaceSet /\ row[i].pos = i - 1 /\ row[i].block = b
      BY <1>1, <3>1
    <3>4. all[k].block = b /\ all[k].pos = i - 1 /\ all[k] \in PlaceSet
      BY <3>2, <3>3
    <3>5. BytesBefore(blocks, all[k].block) + all[k].pos = k - 1
      BY <1>5, <3>1, <3>4
    <3>6. blocks[all[k].block][all[k].pos + 1] = whole[k]
      BY <3>1, <3>2, <3>4 DEF new
    <3>7. all[k].block \in 1 .. Len(blocks)
      BY <3>4
    <3>8. QED
      BY <3>4, <3>5, <3>6, <3>7, Zenon DEF IsPlace
  <2>3. QED
    BY <2>1, <2>2
<1>7. Len(whole) = m + n /\ Len(all) = m + n
  BY <1>3, <1>4 DEF Joined
<1>8. AllPlaces(all, blocks, whole)
  BY <1>6, <1>7 DEF AllPlaces
<1>9. QED
  BY <1>8 DEF all, whole, row, new

LEMMA FirstBlockPlaced ==
    ASSUME NEW blocks \in Seq(Seq(Chars)), Len(blocks) > 0
    PROVE  AllPlaces(RowOf(blocks, 1), blocks, blocks[1])
<1>1. 1 \in 1 .. Len(blocks)
  OBVIOUS
<1>2. BytesBefore(blocks, 1) = 0
  <2>1. SubSeq(blocks, 1, 1 - 1) = <<>>
    OBVIOUS
  <2>2. FlattenSeq(<<>>) = <<>> /\ Len(<<>>) = 0
    BY DEF FlattenSeq
  <2>3. QED
    BY <2>1, <2>2 DEF BytesBefore
<1> DEFINE row == RowOf(blocks, 1)
           n == Len(blocks[1])
<1>3. /\ n \in Nat /\ Len(row) = n
      /\ \A i \in 1 .. n : row[i] \in PlaceSet /\ row[i].pos = i - 1 /\ row[i].block = 1
  BY <1>1, RowIs
<1> HIDE DEF row
<1>4. ASSUME NEW k \in 1 .. n PROVE IsPlace(row[k], blocks, k, blocks[1])
  <2>1. row[k] \in PlaceSet /\ row[k].pos = k - 1 /\ row[k].block = 1
    BY <1>3
  <2>2. BytesBefore(blocks, row[k].block) + row[k].pos = k - 1
    BY <1>2, <1>3, <2>1
  <2>3. row[k].pos + 1 = k
    BY <1>3, <2>1
  <2>4. QED
    BY <1>1, <2>1, <2>2, <2>3 DEF IsPlace
<1>5. QED
  BY <1>3, <1>4 DEF AllPlaces, row

LEMMA PlacesInText ==
    ASSUME NEW blocks \in Seq(Seq(Chars))
    PROVE  /\ FlattenSeq(blocks) \in Seq(Chars) /\ Places(blocks) \in Seq(PlaceSet)
           /\ AllPlaces(Places(blocks), blocks, FlattenSeq(blocks))
<1> DEFINE n == Len(blocks)
           rows == [b \in 1 .. n |-> RowOf(blocks, b)]
<1>1. n \in Nat /\ DOMAIN blocks = 1 .. n
  OBVIOUS
<1>2. Places(blocks) = FlattenSeq(rows)
  BY <1>1, Zenon DEF Places, RowOf
<1>3. rows \in Seq(Seq(PlaceSet)) /\ Len(rows) = n /\ \A b \in 1 .. n : rows[b] = RowOf(blocks, b)
  <2>1. \A b \in 1 .. n : RowOf(blocks, b) \in Seq(PlaceSet)
    BY RowIs
  <2>2. QED
    BY <1>1, <2>1
<1> HIDE DEF rows
<1>4. CASE n = 0
  <2>1. blocks = <<>> /\ rows = <<>>
    BY <1>3, <1>4
  <2>2. FlattenSeq(<<>>) = <<>>
    BY DEF FlattenSeq
  <2>3. FlattenSeq(blocks) = <<>> /\ Places(blocks) = <<>>
    BY <1>2, <2>1, <2>2, Zenon
  <2>4. /\ <<>> \in Seq(Chars) /\ <<>> \in Seq(PlaceSet)
        /\ \A k \in 1 .. Len(<<>>) : IsPlace(<<>>[k], blocks, k, <<>>)
    OBVIOUS
  <2>5. AllPlaces(<<>>, blocks, <<>>)
    BY <2>4, Zenon DEF AllPlaces
  <2>6. QED
    BY <2>3, <2>4, <2>5, Zenon
<1>5. CASE n > 0
  <2>1. Flattened(Chars, blocks, n) /\ Flattened(PlaceSet, rows, n)
    <3>1. Flattened(PlaceSet, rows, Len(rows))
      <4>1. Len(rows) > 0
        BY <1>3, <1>5
      <4>2. QED
        BY <1>3, <4>1, FlattenIs, Zenon
    <3>2. QED
      BY <1>3, <1>5, <3>1, FlattenIs, Zenon
  <2>2. PICK f \in [1 .. n -> Seq(Chars)] :
            /\ FlattenSeq(blocks) = f[n] /\ f[1] = blocks[1]
            /\ \A b \in 2 .. n : f[b] = f[b - 1] \o blocks[b]
    BY <2>1, Zenon DEF Flattened
  <2>3. PICK g \in [1 .. n -> Seq(PlaceSet)] :
            /\ FlattenSeq(rows) = g[n] /\ g[1] = rows[1]
            /\ \A b \in 2 .. n : g[b] = g[b - 1] \o rows[b]
    BY <2>1, Zenon DEF Flattened
  <2> DEFINE T == {b \in 0 .. n : b > 0 => AllPlaces(g[b], blocks, f[b])}
  <2>4. 0 \in T
    BY <1>1
  <2>5. ASSUME NEW b \in 1 .. n, b - 1 \in T PROVE b \in T
    <3>0. b \in 0 .. n
      OBVIOUS
    <3>1. CASE b = 1
      <4>1. AllPlaces(g[1], blocks, f[1])
        <5>1. g[1] = RowOf(blocks, 1)
          BY <1>3, <2>3, <3>1
        <5>2. QED
          BY <1>5, <2>2, <5>1, FirstBlockPlaced, Zenon
      <4>2. QED
        BY <3>0, <3>1, <4>1, Zenon
    <3>2. CASE b # 1
      <4>1. b \in 2 .. n /\ b - 1 \in 1 .. n /\ AllPlaces(g[b - 1], blocks, f[b - 1])
        BY <2>5, <3>2
      <4>2. f[b - 1] \in Seq(Chars) /\ g[b - 1] \in Seq(PlaceSet)
        BY <2>2, <2>3, <4>1, Zenon
      <4>3. BytesBefore(blocks, b) = Len(f[b - 1])
        <5>1. FlattenSeq(SubSeq(blocks, 1, b - 1)) = f[b - 1]
          <6>1. b - 1 \in 1 .. Len(blocks)
            BY <4>1
          <6>2. QED
            BY <2>2, <6>1, FlattenPrefix, Zenon
        <5>2. QED
          BY <5>1, Zenon DEF BytesBefore
      <4>4. AllPlaces(g[b - 1] \o RowOf(blocks, b), blocks, f[b - 1] \o blocks[b])
        BY <4>1, <4>2, <4>3, OneBlockPlaced, Zenon
      <4>5. f[b] = f[b - 1] \o blocks[b] /\ g[b] = g[b - 1] \o RowOf(blocks, b)
        BY <1>3, <2>2, <2>3, <4>1, Zenon
      <4>6. QED
        BY <3>0, <4>4, <4>5, Zenon
    <3>3. QED
      BY <3>1, <3>2
  <2> HIDE DEF T
  <2>6. 0 .. n \subseteq T
    BY <1>1, <2>4, <2>5, InductionUpTo, Zenon
  <2> HIDE DEF n
  <2>7. n \in T /\ n \in 1 .. n
    BY <1>1, <1>5, <2>6
  <2>8. AllPlaces(g[n], blocks, f[n]) /\ f[n] \in Seq(Chars) /\ g[n] \in Seq(PlaceSet)
    BY <1>5, <2>2, <2>3, <2>7 DEF T
  <2>9. QED
    BY <1>2, <2>2, <2>3, <2>8, Zenon
<1>6. QED
  BY <1>1, <1>4, <1>5

(* What searchValue knows after k bytes of the text. *)
SearchStates == [matched : Nat, start : PlaceSet]
NothingMatched == [matched |-> 0, start |-> Found(0, 0)]
Follow(st, text, key, k) ==
    IF st.matched < Len(key) /\ text[k] = key[st.matched + 1] THEN st.matched + 1 ELSE 0
InMatch(st, text, key, places, k) ==
    /\ st \in SearchStates /\ st.matched <= Len(key) /\ st.matched <= k
    /\ \A j \in 1 .. st.matched : text[k - st.matched + j] = key[j]
    /\ st.matched > 0 => st.start = places[k - st.matched + 1]

LEMMA SearchByteState ==
    ASSUME NEW st \in SearchStates, NEW blocks, NEW place \in PlaceSet, NEW key
    PROVE  SearchByte(st, blocks, place, key) \in SearchStates
<1> DEFINE new == SearchByte(st, blocks, place, key)
           hit == At(key, st.matched) = blocks[place.block][place.pos + 1]
<1>1. st.matched \in Nat /\ st.start \in PlaceSet
  BY DEF SearchStates
<1>2. Found(0, 0) \in PlaceSet
  BY DEF Found, PlaceSet
<1>3. new = [matched |-> Matched(hit, st.matched),
             start |-> IF ~hit THEN Found(0, 0) ELSE IF st.matched = 0 THEN place ELSE st.start]
  BY Zenon DEF SearchByte
<1>4. Matched(hit, st.matched) \in Nat
  BY <1>1 DEF Matched
<1> HIDE DEF hit, new
<1>5. QED
  BY <1>1, <1>2, <1>3, <1>4 DEF SearchStates, new

LEMMA SearchByteMatches ==
    ASSUME NEW text \in Seq(Chars), NEW key \in Seq(Chars), NEW blocks, NEW places \in Seq(PlaceSet),
           NEW k \in 1 .. Len(text), IsPlace(places[k], blocks, k, text),
           NEW st, InMatch(st, text, key, places, k - 1)
    PROVE  LET new == SearchByte(st, blocks, places[k], key)
           IN  new.matched = Follow(st, text, key, k) /\ InMatch(new, text, key, places, k)
<1> DEFINE place == places[k]
           m == st.matched
           hit == At(key, m) = blocks[place.block][place.pos + 1]
           new == SearchByte(st, blocks, place, key)
           n == Len(key)
<1>1. /\ st \in SearchStates /\ m <= n /\ m <= k - 1
      /\ \A j \in 1 .. m : text[k - 1 - m + j] = key[j]
      /\ m > 0 => st.start = places[k - 1 - m + 1]
  BY DEF InMatch
<1>2. m \in Nat /\ n \in Nat /\ k \in Nat \ {0} /\ place \in PlaceSet
  BY <1>1 DEF SearchStates, IsPlace
<1>3. text[k] \in Chars /\ text[k] = blocks[place.block][place.pos + 1]
  BY DEF IsPlace
<1>4. hit <=> m < n /\ text[k] = key[m + 1]
  <2>1. text[k] # 0
    BY <1>3 DEF Chars
  <2>2. At(key, m) = IF m < n THEN key[m + 1] ELSE 0
    BY Zenon DEF At
  <2> HIDE DEF n, m
  <2>3. QED
    BY <1>3, <2>1, <2>2
<1>5. /\ new.matched = Matched(hit, m)
      /\ new.start = IF ~hit THEN Found(0, 0) ELSE IF m = 0 THEN place ELSE st.start
  <2>1. new = [matched |-> Matched(hit, m),
               start |-> IF ~hit THEN Found(0, 0) ELSE IF m = 0 THEN place ELSE st.start]
    BY Zenon DEF SearchByte
  <2> HIDE DEF new, hit, m, place
  <2>2. QED
    BY <2>1
<1>6. new \in SearchStates
  BY <1>1, <1>2, SearchByteState, Zenon
<1>7. Follow(st, text, key, k) = IF hit THEN m + 1 ELSE 0
  BY <1>4, Zenon DEF Follow
<1> HIDE DEF new, hit, n, m, place
<1>8. CASE hit
  <2>1. new.matched = m + 1 /\ new.start = (IF m = 0 THEN place ELSE st.start)
    BY <1>5, <1>8 DEF Matched
  <2>2. m + 1 <= n /\ m + 1 <= k /\ text[k] = key[m + 1]
    BY <1>1, <1>2, <1>4, <1>8
  <2>3. ASSUME NEW j \in 1 .. m + 1 PROVE text[k - (m + 1) + j] = key[j]
    <3>1. CASE j = m + 1
      <4>1. k - (m + 1) + j = k
        BY <1>2, <3>1
      <4>2. QED
        BY <2>2, <3>1, <4>1
    <3>2. CASE j # m + 1
      <4>1. j \in 1 .. m /\ k - (m + 1) + j = k - 1 - m + j
        BY <1>2, <3>2
      <4>2. QED
        BY <1>1, <4>1
    <3>3. QED
      BY <3>1, <3>2
  <2>4. new.start = places[k - (m + 1) + 1]
    <3>1. CASE m = 0
      <4>1. k - (m + 1) + 1 = k
        BY <1>2, <3>1
      <4>2. QED
        BY <2>1, <3>1, <4>1 DEF place
    <3>2. CASE m # 0
      <4>1. m > 0 /\ k - (m + 1) + 1 = k - 1 - m + 1
        BY <1>2, <3>2
      <4>2. QED
        BY <1>1, <2>1, <3>2, <4>1
    <3>3. QED
      BY <3>1, <3>2
  <2> DEFINE q == m + 1
  <2>5. q <= n /\ q <= k /\ (\A j \in 1 .. q : text[k - q + j] = key[j]) /\ new.start = places[k - q + 1]
    BY <2>2, <2>3, <2>4
  <2>6. new.matched = q
    BY <2>1
  <2> HIDE DEF q
  <2>7. InMatch(new, text, key, places, k)
    BY <1>6, <2>5, <2>6, Zenon DEF InMatch, n
  <2>8. new.matched = Follow(st, text, key, k)
    BY <1>7, <1>8, <2>1, Zenon
  <2>9. QED
    BY <2>7, <2>8, Zenon DEF new, place
<1>9. CASE ~hit
  <2>1. new.matched = 0
    BY <1>5, <1>9 DEF Matched
  <2>2. InMatch(new, text, key, places, k)
    BY <1>2, <1>6, <2>1 DEF InMatch, n
  <2>3. new.matched = Follow(st, text, key, k)
    BY <1>7, <1>9, <2>1, Zenon
  <2>4. QED
    BY <2>2, <2>3, Zenon DEF new, place
<1>10. QED
  BY <1>8, <1>9

(* searchValue by its states: st[k] after k bytes. *)
SearchedBy(st, blocks, key) ==
    LET places == Places(blocks)
        ends == {k \in 1 .. Len(places) : st[k].matched = Len(key)}
    IN  /\ st[0] = NothingMatched
        /\ \A k \in 1 .. Len(places) : st[k] = SearchByte(st[k - 1], blocks, places[k], key)
        /\ SearchValue(blocks, key) = IF ends = {} THEN Found(None, st[Len(places)].start.block)
                                      ELSE st[Min(ends)].start

LEMMA SearchHasStates ==
    ASSUME NEW blocks, Places(blocks) \in Seq(PlaceSet), NEW key
    PROVE  \E st : SearchedBy(st, blocks, key)
<1> DEFINE places == Places(blocks)
           n == Len(places)
           V == SearchStates
           h == [k \in 1 .. n |-> [s \in V |-> SearchByte(s, blocks, places[k], key)]]
           next(g) == [k \in 0 .. n |-> IF k = 0 THEN NothingMatched
                                        ELSE SearchByte(g[k - 1], blocks, places[k], key)]
           st == CHOOSE g : g = next(g)
           ends == {k \in 1 .. n : st[k].matched = Len(key)}
<1>1. n \in Nat /\ \A k \in 1 .. n : places[k] \in PlaceSet
  OBVIOUS
<1>2. SearchValue(blocks, key) = IF ends = {} THEN Found(None, st[n].start.block)
                                 ELSE st[Min(ends)].start
  BY Zenon DEF SearchValue, NothingMatched
<1> HIDE DEF places, n
<1>3. StepsOf(V, NothingMatched, n, h)
  <2>1. NothingMatched \in V
    BY DEF NothingMatched, SearchStates, Found, PlaceSet
  <2>2. ASSUME NEW k \in 1 .. n, NEW s \in V PROVE SearchByte(s, blocks, places[k], key) \in V
    BY <1>1, SearchByteState
  <2> HIDE DEF V
  <2>3. QED
    BY <1>1, <2>1, <2>2 DEF StepsOf
<1>4. PICK g : Follows(g, V, NothingMatched, n, h)
  <2> HIDE DEF h, V
  <2>1. QED
    BY <1>3, RecursiveFunction, Zenon
<1>5. g = next(g)
  <2>1. /\ g \in [0 .. n -> V] /\ g[0] = NothingMatched
        /\ \A k \in 1 .. n : g[k] = h[k][g[k - 1]]
    BY <1>4, Zenon DEF Follows
  <2> HIDE DEF V
  <2>2. ASSUME NEW k \in 1 .. n PROVE g[k] = SearchByte(g[k - 1], blocks, places[k], key)
    <3>1. k - 1 \in 0 .. n
      BY <1>1
    <3>2. g[k - 1] \in V
      BY <2>1, <3>1, Zenon
    <3>3. QED
      BY <2>1, <3>2, Zenon
  <2>3. QED
    BY <1>1, <2>1, <2>2
<1> HIDE DEF h
<1>6. st = next(st)
  <2> HIDE DEF next
  <2>1. QED
    BY <1>5, Zenon
<1>7. st[0] = NothingMatched /\ \A k \in 1 .. n : st[k] = SearchByte(st[k - 1], blocks, places[k], key)
  <2> HIDE DEF st
  <2>1. ASSUME NEW k \in 0 .. n
        PROVE  st[k] = IF k = 0 THEN NothingMatched ELSE SearchByte(st[k - 1], blocks, places[k], key)
    BY <1>6, Zenon
  <2>2. 0 \in 0 .. n /\ \A k \in 1 .. n : k \in 0 .. n /\ k # 0
    BY <1>1
  <2>3. QED
    BY <2>1, <2>2, Zenon
<1> HIDE DEF st
<1>8. SearchedBy(st, blocks, key)
  BY <1>2, <1>7, Zenon DEF SearchedBy, places, n
<1>9. QED
  BY <1>8, Zenon

LEMMA SearchMatches ==
    ASSUME NEW blocks \in Seq(Seq(Chars)), NEW key \in Seq(Chars), NEW st, SearchedBy(st, blocks, key)
    PROVE  LET text == FlattenSeq(blocks)
               places == Places(blocks)
           IN  /\ st[0].matched = 0
               /\ \A k \in 0 .. Len(text) : InMatch(st[k], text, key, places, k)
               /\ \A k \in 1 .. Len(text) : st[k].matched = Follow(st[k - 1], text, key, k)
<1> DEFINE text == FlattenSeq(blocks)
           places == Places(blocks)
           n == Len(text)
<1>1. /\ text \in Seq(Chars) /\ places \in Seq(PlaceSet) /\ Len(places) = n /\ n \in Nat
      /\ \A k \in 1 .. n : IsPlace(places[k], blocks, k, text)
  BY PlacesInText DEF AllPlaces
<1>2. st[0] = NothingMatched /\ \A k \in 1 .. n : st[k] = SearchByte(st[k - 1], blocks, places[k], key)
  BY <1>1, Zenon DEF SearchedBy
<1> HIDE DEF text, places
<1> DEFINE T == {k \in 0 .. n : InMatch(st[k], text, key, places, k)}
<1>3. NothingMatched.matched = 0 /\ NothingMatched \in SearchStates
  BY DEF NothingMatched, SearchStates, Found, PlaceSet
<1>4. 0 \in T
  <2>1. InMatch(NothingMatched, text, key, places, 0)
    BY <1>3 DEF InMatch
  <2>2. 0 \in 0 .. n
    BY <1>1
  <2>3. QED
    BY <1>2, <2>1, <2>2, Zenon
<1>5. ASSUME NEW k \in 1 .. n, InMatch(st[k - 1], text, key, places, k - 1)
      PROVE  InMatch(st[k], text, key, places, k) /\ st[k].matched = Follow(st[k - 1], text, key, k)
  <2> DEFINE new == SearchByte(st[k - 1], blocks, places[k], key)
  <2>1. k \in 1 .. Len(text) /\ IsPlace(places[k], blocks, k, text)
    BY <1>1
  <2>2. new.matched = Follow(st[k - 1], text, key, k) /\ InMatch(new, text, key, places, k)
    BY <1>1, <1>5, <2>1, SearchByteMatches, Zenon
  <2>3. st[k] = new
    BY <1>2, Zenon
  <2> HIDE DEF new
  <2>4. QED
    BY <2>2, <2>3, Zenon
<1>6. ASSUME NEW k \in 1 .. n, k - 1 \in T PROVE k \in T
  <2>1. k \in 0 .. n
    OBVIOUS
  <2>2. QED
    BY <1>5, <1>6, <2>1, Zenon
<1>7. 0 .. n \subseteq T
  <2> HIDE DEF T, n
  <2>1. QED
    BY <1>1, <1>4, <1>6, InductionUpTo, Zenon
<1>8. \A k \in 0 .. n : InMatch(st[k], text, key, places, k)
  BY <1>7, Zenon
<1>9. ASSUME NEW k \in 1 .. n PROVE st[k].matched = Follow(st[k - 1], text, key, k)
  <2>1. k - 1 \in 0 .. n
    BY <1>1
  <2>2. QED
    BY <1>5, <1>8, <2>1, Zenon
<1>10. st[0].matched = 0
  BY <1>2, <1>3, Zenon
<1>11. QED
  BY <1>8, <1>9, <1>10, Zenon DEF text, places

FirstIn(text, key) == FirstOf({i \in 0 .. Len(text) - 1 : text[i + 1] = key[1]})

(* The keyword that begins with the first of its characters' occurrences   *)
(* is matched in one go. *)
LEMMA FirstIsMatched ==
    ASSUME NEW text \in Seq(Chars), NEW key \in Seq(Chars), Len(key) > 0, NEW st, st[0].matched = 0,
           \A k \in 1 .. Len(text) : st[k].matched = Follow(st[k - 1], text, key, k),
           FirstIn(text, key) \in Occurrences(text, key)
    PROVE  /\ FirstIn(text, key) \in Nat /\ FirstIn(text, key) + Len(key) <= Len(text)
           /\ st[FirstIn(text, key) + Len(key)].matched = Len(key)
           /\ \A k \in 1 .. FirstIn(text, key) + Len(key) - 1 : st[k].matched # Len(key)
<1> DEFINE p == FirstIn(text, key)
           n == Len(text)
           L == Len(key)
           S == {i \in 0 .. n - 1 : text[i + 1] = key[1]}
<1>1. n \in Nat /\ L \in Nat \ {0} /\ S \in SUBSET Nat
  OBVIOUS
<1>2. p \in 0 .. n - L /\ SubSeq(text, p + 1, p + L) = key
  BY Zenon DEF Occurrences
<1>3. p = FirstOf(S)
  BY Zenon DEF FirstIn
<1> HIDE DEF p
<1>4. p \in Nat /\ p + L <= n
  BY <1>1, <1>2
<1>5. \A j \in S : p <= j
  <2>1. S # {}
    <3>1. FirstOf(S) # None
      BY <1>3, <1>4 DEF None
    <3> HIDE DEF S
    <3>2. QED
      BY <1>1, <3>1, FoundIffThere, Zenon
  <2>2. p = Min(S)
    BY <1>3, <2>1, Zenon DEF FirstOf
  <2> HIDE DEF S
  <2>3. QED
    BY <1>1, <2>1, <2>2, LeastOf, Zenon
<1>6. ASSUME NEW k \in 1 .. p PROVE text[k] # key[1]
  <2>1. k - 1 \in 0 .. n - 1 /\ ~(p <= k - 1) /\ k - 1 + 1 = k
    BY <1>1, <1>4
  <2>2. QED
    BY <1>5, <2>1
<1>7. ASSUME NEW i \in 1 .. L PROVE text[p + i] = key[i]
  <2>1. SubSeq(text, p + 1, p + L)[i] = text[p + i]
    BY <1>1, <1>4
  <2>2. QED
    BY <1>2, <2>1
<1> HIDE DEF S
<1>8. \A k \in 1 .. n : st[k].matched = IF st[k - 1].matched < L /\ text[k] = key[st[k - 1].matched + 1]
                                       THEN st[k - 1].matched + 1 ELSE 0
  BY Zenon DEF Follow
<1> HIDE DEF n, L
<1> DEFINE T == {k \in 0 .. p : st[k].matched = 0}
           U == {i \in 0 .. L : st[p + i].matched = i}
<1>9. 0 .. p \subseteq T
  <2>1. 0 \in T
    BY <1>4
  <2>2. ASSUME NEW k \in 1 .. p, k - 1 \in T PROVE k \in T
    <3>1. k \in 1 .. n /\ k \in 0 .. p
      BY <1>1, <1>4
    <3>2. st[k - 1].matched = 0 /\ 0 + 1 = 1
      BY <2>2
    <3>3. text[k] # key[1]
      BY <1>6
    <3>4. st[k].matched = 0
      BY <1>8, <3>1, <3>2, <3>3, Zenon
    <3>5. QED
      BY <3>1, <3>4
  <2> HIDE DEF T
  <2>3. QED
    BY <1>4, <2>1, <2>2, InductionUpTo, Zenon
<1>10. 0 .. L \subseteq U
  <2>1. 0 \in U
    <3>1. p \in T /\ p + 0 = p
      BY <1>4, <1>9
    <3>2. 0 \in 0 .. L
      BY <1>1
    <3>3. QED
      BY <3>1, <3>2
  <2>2. ASSUME NEW i \in 1 .. L, i - 1 \in U PROVE i \in U
    <3> DEFINE k == p + i
    <3>1. k \in 1 .. n /\ k - 1 = p + (i - 1) /\ i \in 0 .. L
      BY <1>1, <1>4
    <3>2. st[k - 1].matched = i - 1
      BY <2>2, <3>1
    <3>3. text[k] = key[i]
      BY <1>7
    <3> HIDE DEF k
    <3>4. i - 1 < L /\ i - 1 + 1 = i
      BY <1>1
    <3>5. st[k].matched = i
      BY <1>8, <3>1, <3>2, <3>3, <3>4
    <3>6. QED
      BY <3>1, <3>5 DEF k
  <2> HIDE DEF U
  <2>3. QED
    BY <1>1, <2>1, <2>2, InductionUpTo
<1>11. st[p + L].matched = L
  <2>1. L \in U
    BY <1>1, <1>10
  <2>2. QED
    BY <2>1
<1>12. ASSUME NEW k \in 1 .. p + L - 1 PROVE st[k].matched # L
  <2>1. CASE k <= p
    <3>1. k \in T
      BY <1>4, <1>9, <2>1
    <3>2. QED
      BY <1>1, <3>1
  <2>2. CASE k > p
    <3>1. k - p \in 0 .. L /\ p + (k - p) = k /\ k - p # L
      BY <1>1, <1>4, <2>2
    <3>2. k - p \in U
      BY <1>10, <3>1
    <3>3. QED
      BY <3>1, <3>2
  <2>3. QED
    BY <1>4, <2>1, <2>2
<1>13. QED
  BY <1>4, <1>11, <1>12 DEF p, n, L

LEMMA SearchFinds ==
    ASSUME NEW blocks \in Seq(Seq(Chars)), NEW key \in Seq(Chars), Len(key) > 0
    PROVE  LET text == FlattenSeq(blocks)
               hit == SearchValue(blocks, key)
               at == BytesBefore(blocks, hit.block) + hit.pos
           IN  /\ hit.pos # None => at \in Occurrences(text, key)
               /\ FirstIn(text, key) \in Occurrences(text, key) =>
                      hit.pos # None /\ at = FirstIn(text, key)
<1> DEFINE text == FlattenSeq(blocks)
           places == Places(blocks)
           n == Len(text)
           L == Len(key)
           p == FirstIn(text, key)
           hit == SearchValue(blocks, key)
           at == BytesBefore(blocks, hit.block) + hit.pos
<1>1. /\ text \in Seq(Chars) /\ places \in Seq(PlaceSet) /\ Len(places) = n /\ n \in Nat
      /\ \A k \in 1 .. n : IsPlace(places[k], blocks, k, text)
  BY PlacesInText DEF AllPlaces
<1>2. PICK st : SearchedBy(st, blocks, key)
  BY <1>1, SearchHasStates, Zenon
<1> DEFINE ends == {k \in 1 .. n : st[k].matched = L}
<1>3. hit = IF ends = {} THEN Found(None, st[n].start.block) ELSE st[Min(ends)].start
  BY <1>1, <1>2, Zenon DEF SearchedBy
<1>4. /\ st[0].matched = 0
      /\ \A k \in 0 .. n : InMatch(st[k], text, key, places, k)
      /\ \A k \in 1 .. n : st[k].matched = Follow(st[k - 1], text, key, k)
  BY <1>2, SearchMatches, Zenon
<1>5. L \in Nat \ {0} /\ ends \in SUBSET Nat
  OBVIOUS
<1>6. ASSUME p \in Occurrences(text, key)
      PROVE  /\ p \in Nat /\ p + L <= n /\ p + L \in ends
             /\ \A k \in ends : ~(k < p + L)
  <2>1. /\ p \in Nat /\ p + L <= n /\ st[p + L].matched = L
        /\ \A k \in 1 .. p + L - 1 : st[k].matched # L
    BY <1>1, <1>4, <1>6, FirstIsMatched, Zenon
  <2> HIDE DEF p, L, n, text
  <2>2. p + L \in ends
    BY <1>1, <1>5, <2>1
  <2>3. ASSUME NEW k \in ends, k < p + L PROVE FALSE
    <3>1. k \in 1 .. p + L - 1
      BY <1>1, <1>5, <2>1, <2>3
    <3>2. QED
      BY <2>1, <3>1
  <2>4. QED
    BY <2>1, <2>2, <2>3
<1>7. CASE ends = {}
  <2>1. hit.pos = None
    BY <1>3, <1>7 DEF Found
  <2>2. p \notin Occurrences(text, key)
    BY <1>6, <1>7, Zenon
  <2>3. QED
    BY <2>1, <2>2, Zenon
<1>8. CASE ends # {}
  <2> DEFINE e == Min(ends)
             b == e - L
  <2>1. e \in ends /\ \A k \in ends : e <= k
    <3> HIDE DEF ends
    <3>1. QED
      BY <1>5, <1>8, LeastOf, Zenon
  <2>2. hit = st[e].start
    BY <1>3, <1>8, Zenon
  <2> HIDE DEF e, hit
  <2>3. e \in 1 .. n /\ e \in 0 .. n /\ st[e].matched = L
    BY <1>1, <2>1
  <2>4. InMatch(st[e], text, key, places, e)
    BY <1>4, <2>3, Zenon
  <2>5. /\ L <= e /\ (\A j \in 1 .. L : text[e - L + j] = key[j])
        /\ st[e].start = places[e - L + 1]
    BY <1>5, <2>3, <2>4 DEF InMatch
  <2> HIDE DEF L, n, ends, text, places
  <2>6. b \in 0 .. n - L /\ b + 1 \in 1 .. n /\ (b + 1) - 1 = b
    BY <1>1, <1>5, <2>3, <2>5
  <2>7. IsPlace(hit, blocks, b + 1, text)
    <3>1. hit = places[b + 1]
      BY <2>2, <2>5, Zenon
    <3>2. QED
      BY <1>1, <2>6, <3>1, Zenon
  <2>8. at = b /\ hit.pos # None
    <3>1. BytesBefore(blocks, hit.block) + hit.pos = (b + 1) - 1 /\ hit \in PlaceSet
      <4> HIDE DEF b
      <4>1. QED
        BY <2>7 DEF IsPlace
    <3>2. hit.pos \in Nat
      BY <3>1 DEF PlaceSet
    <3>3. QED
      BY <2>6, <3>1, <3>2 DEF None
  <2>9. SubSeq(text, b + 1, b + L) = key
    <3> DEFINE part == SubSeq(text, b + 1, b + L)
    <3>1. part \in Seq(Chars) /\ Len(part) = L /\ \A j \in 1 .. L : part[j] = text[b + j]
      <4>1. b \in Nat /\ b + L <= Len(text) /\ L \in Nat
        BY <1>1, <1>5, <2>6 DEF n
      <4> HIDE DEF b
      <4>2. QED
        BY <1>1, <4>1
    <3>2. \A j \in 1 .. L : part[j] = key[j]
      BY <2>5, <3>1
    <3> HIDE DEF part
    <3>3. key \in Seq(Chars) /\ Len(key) = L
      BY DEF L
    <3>4. part = [j \in 1 .. L |-> part[j]] /\ key = [j \in 1 .. L |-> key[j]]
      BY <3>1, <3>3
    <3>5. QED
      BY <3>2, <3>4 DEF part
  <2>10. b \in Occurrences(text, key)
    BY <2>6, <2>9, Zenon DEF Occurrences, n, L
  <2>11. ASSUME p \in Occurrences(text, key) PROVE b = p
    <3>1. p \in Nat /\ p + L \in ends /\ \A k \in ends : ~(k < p + L)
      BY <1>6, <2>11, Zenon
    <3> HIDE DEF p
    <3>2. e <= p + L /\ ~(e < p + L)
      BY <2>1, <3>1, Zenon
    <3>3. QED
      BY <1>1, <1>5, <2>3, <3>1, <3>2
  <2> HIDE DEF b, at, p
  <2>12. /\ hit.pos # None => at \in Occurrences(text, key)
         /\ p \in Occurrences(text, key) => hit.pos # None /\ at = p
    BY <2>8, <2>10, <2>11, Zenon
  <2>13. QED
    BY <2>12, Zenon DEF at, p, hit, text
<1>9. QED
  BY <1>7, <1>8, Zenon

LEMMA NextSearches == Next => ConSearchSound'
<1> SUFFICES ASSUME Next, call'.fn = "searchcon", call'.key # <<>> PROVE ConSearchSound'
  BY DEF ConSearchSound, In
<1>1. SearchCon
  BY CallsOf
<1>2. PICK blocks \in BlockLists, key \in Keywords :
          call' = [fn |-> "searchcon", blocks |-> blocks, key |-> key, hit |-> SearchValue(blocks, key)]
  BY <1>1, Zenon DEF SearchCon, Call
<1>3. call'.blocks = blocks /\ call'.key = key /\ call'.hit = SearchValue(blocks, key)
  BY <1>2
<1>4. blocks \in Seq(Seq(Chars)) /\ key \in Seq(Chars) /\ Len(key) > 0
  <2>1. Letters \subseteq Chars
    BY InputsAssumption DEF Chars
  <2>2. blocks \in Seq(Seq(Letters) \ {<<>>})
    BY InputsAssumption
  <2>3. \A s \in Seq(Letters) \ {<<>>} : s \in Seq(Chars)
    BY <2>1, SeqOfMore, Zenon
  <2>4. blocks \in Seq(Seq(Chars))
    <3> DEFINE V == Seq(Letters) \ {<<>>}
               W == Seq(Chars)
    <3>1. V \subseteq W
      BY <2>3
    <3> HIDE DEF V, W
    <3>2. blocks \in Seq(V) => blocks \in Seq(W)
      BY <3>1, SeqOfMore
    <3>3. QED
      BY <2>2, <3>2 DEF V, W
  <2>5. key \in Seq(Letters)
    BY BoundedIsSeq, InputsAssumption DEF Keywords
  <2>6. key \in Seq(Chars)
    BY <2>1, <2>5, SeqOfMore, Zenon
  <2>7. Len(key) > 0
    BY <1>3, <2>6
  <2>8. QED
    BY <2>4, <2>6, <2>7
<1> DEFINE text == FlattenSeq(blocks)
           hit == SearchValue(blocks, key)
           at == BytesBefore(blocks, hit.block) + hit.pos
<1>5. /\ hit.pos # None => at \in Occurrences(text, key)
      /\ FirstIn(text, key) \in Occurrences(text, key) => hit.pos # None /\ at = FirstIn(text, key)
  BY <1>4, SearchFinds, Zenon
<1>6. QED
  BY <1>3, <1>5, Zenon DEF ConSearchSound, FirstIn

(* Where searchValue reports the keyword it is, over any blocks, and it    *)
(* finds one that begins with the first occurrence of its first character  *)
(* (connection.cpp:236-262): ConSearchSound. *)
THEOREM AlwaysConSearchSound == Spec => []ConSearchSound
<1>1. Init => ConSearchSound
  BY DEF Init, ConSearchSound, In, Idle
<1>2. ConSearchSound /\ [Next]_call => ConSearchSound'
  BY NextSearches DEF ConSearchSound, In
<1>3. QED
  BY <1>1, <1>2, PTL DEF Spec

-----------------------------------------------------------------------------
(* The memory after n bytes were copied, if each was there before. *)
CopiedTo(mem, dest, src, n) ==
    [j \in DOMAIN mem |-> IF j \in dest + 1 .. dest + n THEN mem[(j - dest) + src] ELSE mem[j]]

(* memcpy byte by byte: what it reads it has not written, as long as the   *)
(* destination does not begin inside the source. *)
WithByte(c, dest, src, i) == [c EXCEPT ![dest + i] = c[src + i]]
CopiedBytes(mem, dest, src, n) ==
    \E copy : /\ MemCpy(mem, dest, src, n) = copy[n] /\ copy[0] = mem
              /\ \A i \in 1 .. n : copy[i] = WithByte(copy[i - 1], dest, src, i)

LEMMA MemCpyCopiesBytes ==
    ASSUME NEW M \in Nat, NEW mem \in [1 .. M -> Int], NEW dest \in Nat, NEW src \in Nat, NEW n \in Nat,
           dest + n <= M, src + n <= M
    PROVE  CopiedBytes(mem, dest, src, n)
<1> DEFINE V == [1 .. M -> Int]
           byte(c, i) == WithByte(c, dest, src, i)
           h == [i \in 1 .. n |-> [c \in V |-> byte(c, i)]]
           next(g) == [i \in 0 .. n |-> IF i = 0 THEN mem ELSE byte(g[i - 1], i)]
           st == CHOOSE g : g = next(g)
<1>1. MemCpy(mem, dest, src, n) = st[n]
  BY Zenon DEF MemCpy, WithByte
<1>2. ASSUME NEW c \in V, NEW i \in 1 .. n PROVE byte(c, i) \in V
  <2>1. dest + i \in 1 .. M /\ src + i \in 1 .. M
    OBVIOUS
  <2>2. c[src + i] \in Int
    BY <2>1
  <2>3. QED
    BY <2>1, <2>2 DEF WithByte
<1>3. \A i \in 1 .. n : \A c \in V : h[i][c] = byte(c, i)
  <2> HIDE DEF V, byte
  <2>1. QED
    BY Zenon
<1> HIDE DEF byte
<1>4. StepsOf(V, mem, n, h)
  <2>1. mem \in V
    OBVIOUS
  <2> HIDE DEF V
  <2>2. QED
    BY <1>2, <2>1 DEF StepsOf
<1> HIDE DEF h, V
<1>5. PICK g : Follows(g, V, mem, n, h)
  BY <1>4, RecursiveFunction, Zenon
<1>6. g \in [0 .. n -> V] /\ g[0] = mem /\ \A i \in 1 .. n : g[i] = byte(g[i - 1], i)
  <2>1. g \in [0 .. n -> V] /\ g[0] = mem /\ \A i \in 1 .. n : g[i] = h[i][g[i - 1]]
    BY <1>5, Zenon DEF Follows
  <2>2. ASSUME NEW i \in 1 .. n PROVE g[i] = byte(g[i - 1], i)
    <3>1. i - 1 \in 0 .. n
      OBVIOUS
    <3>2. g[i - 1] \in V
      BY <2>1, <3>1, Zenon
    <3>3. QED
      BY <1>3, <2>1, <3>2, Zenon
  <2>3. QED
    BY <2>1, <2>2
<1>7. g = next(g)
  <2>1. \A i \in 0 .. n : g[i] = IF i = 0 THEN mem ELSE byte(g[i - 1], i)
    BY <1>6
  <2>2. QED
    BY <1>6, <2>1
<1>8. st = next(st)
  <2> HIDE DEF next
  <2>1. QED
    BY <1>7, Zenon
<1>9. ASSUME NEW i \in 0 .. n
      PROVE  st[i] = IF i = 0 THEN mem ELSE byte(st[i - 1], i)
  <2> HIDE DEF st
  <2>1. QED
    BY <1>8, Zenon
<1> HIDE DEF st
<1>10. st[0] = mem
  BY <1>9
<1>11. ASSUME NEW i \in 1 .. n PROVE st[i] = byte(st[i - 1], i)
  BY <1>9
<1>12. QED
  BY <1>1, <1>10, <1>11, Zenon DEF CopiedBytes, byte

LEMMA MemCpyCopies ==
    ASSUME NEW M \in Nat, NEW mem \in [1 .. M -> Int], NEW dest \in Nat, NEW src \in Nat, NEW n \in Nat,
           dest + n <= M, src + n <= M, dest \notin src + 1 .. src + n - 1
    PROVE  MemCpy(mem, dest, src, n) = CopiedTo(mem, dest, src, n)
<1>0. CopiedBytes(mem, dest, src, n)
  BY MemCpyCopiesBytes
<1>1. PICK copy : /\ MemCpy(mem, dest, src, n) = copy[n] /\ copy[0] = mem
                  /\ \A i \in 1 .. n : copy[i] = WithByte(copy[i - 1], dest, src, i)
  BY <1>0, Zenon DEF CopiedBytes
<1> DEFINE S == {i \in 0 .. n : copy[i] = CopiedTo(mem, dest, src, i)}
<1>2. 0 \in S
  <2>1. 0 \in 0 .. n /\ dest + 1 .. dest + 0 = {}
    OBVIOUS
  <2>2. CopiedTo(mem, dest, src, 0) = [j \in DOMAIN mem |-> mem[j]]
    BY <2>1 DEF CopiedTo
  <2>3. QED
    BY <1>1, <2>1, <2>2
<1>3. ASSUME NEW i \in 1 .. n, i - 1 \in S PROVE i \in S
  <2> DEFINE c == CopiedTo(mem, dest, src, i - 1)
  <2>1. copy[i - 1] = c /\ i \in 0 .. n
    BY <1>3
  <2>2. src + i \in 1 .. M /\ dest + i \in 1 .. M /\ src + i \notin dest + 1 .. dest + (i - 1)
    OBVIOUS
  <2>3. c[src + i] = mem[src + i]
    BY <2>2 DEF CopiedTo
  <2>4. c \in [1 .. M -> Int]
    <3>1. ASSUME NEW j \in 1 .. M, j \in dest + 1 .. dest + (i - 1) PROVE (j - dest) + src \in 1 .. M
      BY <3>1
    <3>2. QED
      BY <3>1 DEF CopiedTo
  <2>5. copy[i] = [c EXCEPT ![dest + i] = mem[src + i]]
    <3> HIDE DEF c
    <3>1. copy[i] = WithByte(c, dest, src, i)
      BY <1>1, <2>1
    <3>2. WithByte(c, dest, src, i) = [c EXCEPT ![dest + i] = c[src + i]]
      BY Zenon DEF WithByte
    <3>3. QED
      BY <2>3, <3>1, <3>2, Zenon
  <2>6. \A j \in 1 .. M : c[j] = IF j \in dest + 1 .. dest + (i - 1) THEN mem[(j - dest) + src] ELSE mem[j]
    BY DEF CopiedTo
  <2> HIDE DEF c
  <2>7. ASSUME NEW j \in 1 .. M
        PROVE  copy[i][j] = IF j \in dest + 1 .. dest + i THEN mem[(j - dest) + src] ELSE mem[j]
    <3>1. CASE j = dest + i
      <4>1. (j - dest) + src = src + i /\ j \in dest + 1 .. dest + i
        BY <3>1
      <4>2. copy[i][j] = mem[src + i]
        BY <2>2, <2>4, <2>5, <3>1
      <4>3. QED
        BY <4>1, <4>2
    <3>2. CASE j # dest + i
      <4>1. j \in dest + 1 .. dest + i <=> j \in dest + 1 .. dest + (i - 1)
        BY <3>2
      <4>2. copy[i][j] = c[j]
        BY <2>4, <2>5, <3>2
      <4>3. QED
        BY <2>6, <4>1, <4>2
    <3>3. QED
      BY <3>1, <3>2
  <2>8. copy[i] \in [1 .. M -> Int]
    BY <2>2, <2>4, <2>5
  <2>9. copy[i] = CopiedTo(mem, dest, src, i)
    BY <2>7, <2>8 DEF CopiedTo
  <2>10. QED
    BY <2>1, <2>9
<1> HIDE DEF S
<1>4. 0 .. n \subseteq S
  BY <1>2, <1>3, InductionUpTo
<1>5. QED
  BY <1>1, <1>4 DEF S

(* memmove by way of a temporary. *)
LEMMA MemMoveCopies ==
    ASSUME NEW M \in Nat, NEW mem \in [1 .. M -> Int], NEW dest \in Nat, NEW src \in Nat, NEW n \in Nat,
           dest + n <= M, src + n <= M
    PROVE  MemMove(mem, dest, src, n) = CopiedTo(mem, dest, src, n)
<1> DEFINE temp == SubSeq(mem, src + 1, src + n)
<1>1. mem \in Seq(Int) /\ Len(mem) = M
  OBVIOUS
<1>2. ASSUME NEW j \in dest + 1 .. dest + n
      PROVE  temp[j - dest] = mem[(j - dest) + src]
  <2>1. j - dest \in 1 .. n /\ (j - dest) + src = (src + 1 + (j - dest)) - 1
    OBVIOUS
  <2>2. QED
    BY <1>1, <2>1
<1> HIDE DEF temp
<1>3. MemMove(mem, dest, src, n) = [j \in DOMAIN mem |-> IF j \in dest + 1 .. dest + n THEN temp[j - dest] ELSE mem[j]]
  BY Zenon DEF MemMove, temp
<1>4. QED
  BY <1>2, <1>3 DEF CopiedTo

-----------------------------------------------------------------------------
(* The states of the loop of cleannewline. *)
PieceStates(S) == [i : Nat, from : Nat, text : Seq(S)]
FirstPiece == [i |-> 0, from |-> 0, text |-> <<>>]
PassesMade(s, S, pass) ==
    /\ CleanNewLine(s) = pass[Len(s)].text
    /\ pass \in [0 .. Len(s) -> PieceStates(S)]
    /\ pass[0] = FirstPiece
    /\ \A k \in 1 .. Len(s) : pass[k] = NextPiece(s, pass[k - 1])

LEMMA PieceText ==
    ASSUME NEW S, NEW s \in Seq(S), NEW from \in Nat, NEW i \in Nat, i <= Len(s)
    PROVE  /\ SubStr(s, from, i) \in Seq(S)
           /\ from <= i => Len(SubStr(s, from, i)) = i - from
           /\ \A k \in 1 .. i - from : SubStr(s, from, i)[k] = s[from + k]
<1>1. SubStr(s, from, i) = SubSeq(s, from + 1, i)
  BY DEF SubStr
<1>2. SubSeq(s, from + 1, i) \in Seq(S)
  OBVIOUS
<1>3. from <= i => Len(SubSeq(s, from + 1, i)) = i - from
  OBVIOUS
<1>4. ASSUME NEW k \in 1 .. i - from PROVE SubSeq(s, from + 1, i)[k] = s[from + k]
  <2>1. (from + 1 + k) - 1 = from + k
    OBVIOUS
  <2>2. QED
    BY <2>1
<1>5. QED
  BY <1>1, <1>2, <1>3, <1>4

LEMMA NextPieceIs ==
    ASSUME NEW S, NEW s \in Seq(S), NEW st \in PieceStates(S)
    PROVE  /\ NextPiece(s, st) \in PieceStates(S)
           /\ st.i >= Len(s) => NextPiece(s, st) = st
           /\ st.i < Len(s) /\ At(s, st.i) \notin {NewLine, CarriageReturn} =>
                  NextPiece(s, st) = [i |-> st.i + 1, from |-> st.from, text |-> st.text]
           /\ st.i < Len(s) /\ At(s, st.i) \in {NewLine, CarriageReturn} =>
                  NextPiece(s, st) = [i |-> AfterLineEnd(s, st.i) + 1, from |-> AfterLineEnd(s, st.i),
                                      text |-> st.text \o SubStr(s, st.from, st.i)]
<1>1. /\ st = [i |-> st.i, from |-> st.from, text |-> st.text]
      /\ st.i \in Nat /\ st.from \in Nat /\ st.text \in Seq(S) /\ Len(s) \in Nat
  BY DEF PieceStates
<1>2. CASE st.i >= Len(s)
  <2>1. NextPiece(s, st) = st
    BY <1>1, <1>2 DEF NextPiece
  <2>2. QED
    BY <1>1, <1>2, <2>1
<1>3. CASE st.i < Len(s) /\ At(s, st.i) \notin {NewLine, CarriageReturn}
  <2>1. NextPiece(s, st) = [st EXCEPT !.i = st.i + 1]
    BY <1>1, <1>3 DEF NextPiece
  <2>2. [st EXCEPT !.i = st.i + 1] = [i |-> st.i + 1, from |-> st.from, text |-> st.text]
    BY <1>1
  <2>3. NextPiece(s, st) \in PieceStates(S)
    BY <1>1, <2>1, <2>2 DEF PieceStates
  <2>4. QED
    BY <1>1, <1>3, <2>1, <2>2, <2>3
<1>4. CASE st.i < Len(s) /\ At(s, st.i) \in {NewLine, CarriageReturn}
  <2>1. AfterLineEnd(s, st.i) \in Nat
    BY <1>1 DEF AfterLineEnd
  <2>2. SubStr(s, st.from, st.i) \in Seq(S)
    BY <1>1, <1>4, PieceText
  <2>3. st.text \o SubStr(s, st.from, st.i) \in Seq(S)
    BY <1>1, <2>2
  <2>4. NextPiece(s, st) = [i |-> AfterLineEnd(s, st.i) + 1, from |-> AfterLineEnd(s, st.i),
                            text |-> st.text \o SubStr(s, st.from, st.i)]
    BY <1>1, <1>4 DEF NextPiece
  <2>5. NextPiece(s, st) \in PieceStates(S)
    BY <2>1, <2>3, <2>4 DEF PieceStates
  <2>6. QED
    BY <1>1, <1>4, <2>4, <2>5
<1>5. QED
  BY <1>1, <1>2, <1>3, <1>4

LEMMA PassesAreMade ==
    ASSUME NEW S, NEW s \in Seq(S)
    PROVE  \E pass : PassesMade(s, S, pass)
<1> DEFINE n == Len(s)
           V == PieceStates(S)
           h == [k \in 1 .. n |-> [st \in V |-> NextPiece(s, st)]]
           next(g) == [k \in 0 .. n |-> IF k = 0 THEN FirstPiece ELSE NextPiece(s, g[k - 1])]
           st == CHOOSE g : g = next(g)
<1>1. CleanNewLine(s) = st[n].text
  BY Zenon DEF CleanNewLine, FirstPiece
<1>2. n \in Nat /\ FirstPiece \in V
  <2>1. <<>> \in Seq(S)
    OBVIOUS
  <2>2. QED
    BY <2>1 DEF PieceStates, FirstPiece
<1>3. ASSUME NEW x \in V PROVE NextPiece(s, x) \in V
  BY NextPieceIs
<1>4. StepsOf(V, FirstPiece, n, h)
  <2> HIDE DEF V, n
  <2>1. QED
    BY <1>2, <1>3 DEF StepsOf
<1>5. \A k \in 1 .. n : \A x \in V : h[k][x] = NextPiece(s, x)
  <2> HIDE DEF V
  <2>1. QED
    BY Zenon
<1> HIDE DEF h, V
<1>6. PICK g : Follows(g, V, FirstPiece, n, h)
  BY <1>4, RecursiveFunction, Zenon
<1>7. g \in [0 .. n -> V] /\ g[0] = FirstPiece /\ \A k \in 1 .. n : g[k] = NextPiece(s, g[k - 1])
  <2>1. g \in [0 .. n -> V] /\ g[0] = FirstPiece /\ \A k \in 1 .. n : g[k] = h[k][g[k - 1]]
    BY <1>6, Zenon DEF Follows
  <2>2. ASSUME NEW k \in 1 .. n PROVE g[k] = NextPiece(s, g[k - 1])
    <3>1. k - 1 \in 0 .. n
      BY <1>2
    <3>2. g[k - 1] \in V
      BY <2>1, <3>1, Zenon
    <3>3. QED
      BY <1>5, <2>1, <3>2, Zenon
  <2>3. QED
    BY <2>1, <2>2
<1>8. g = next(g)
  <2>1. \A k \in 0 .. n : g[k] = IF k = 0 THEN FirstPiece ELSE NextPiece(s, g[k - 1])
    BY <1>2, <1>7
  <2>2. QED
    BY <1>7, <2>1
<1>9. st = next(st)
  <2> HIDE DEF next
  <2>1. QED
    BY <1>8, Zenon
<1>10. ASSUME NEW k \in 0 .. n PROVE st[k] = IF k = 0 THEN FirstPiece ELSE NextPiece(s, st[k - 1])
  <2> HIDE DEF st
  <2>1. QED
    BY <1>9, Zenon
<1> HIDE DEF st
<1> DEFINE T == {k \in 0 .. n : st[k] \in V}
<1>11. 0 \in T
  BY <1>2, <1>10
<1>12. ASSUME NEW k \in 1 .. n, k - 1 \in T PROVE k \in T
  BY <1>2, <1>3, <1>10, <1>12
<1> HIDE DEF T
<1>13. 0 .. n \subseteq T
  BY <1>2, <1>11, <1>12, InductionUpTo
<1>14. \A k \in 0 .. n : st[k] \in V
  BY <1>13 DEF T
<1>15. st \in [0 .. n -> V]
  BY <1>9, <1>14
<1>16. st[0] = FirstPiece /\ \A k \in 1 .. n : st[k] = NextPiece(s, st[k - 1])
  BY <1>2, <1>10
<1>17. PassesMade(s, S, st)
  BY <1>1, <1>15, <1>16, Zenon DEF PassesMade, V, n
<1>18. QED
  BY <1>17

(* What the loop has kept after any number of passes, at its places in the *)
(* text, up to the line end e that it found last: it may have stepped over *)
(* the character behind that one. *)
KeptUpTo(s, at, e) ==
    \A i \in 1 .. e - 1 :
        IF i \in LineEnds(s)
        THEN i \in Range(at) => \E j \in LineEnds(s) : j \in {i - 1, i - 2}
        ELSE i \in Range(at) \/ TakenForEnd(s, i)
Rising(s, text, at, e) ==
    /\ at \in [1 .. Len(text) -> 1 .. e - 1]
    /\ \A k \in 1 .. Len(text) : text[k] = s[at[k]]
    /\ \A j, k \in 1 .. Len(text) : j < k => at[j] < at[k]
BehindEnd(st, e) == IF e = 0 THEN st.from = 0 ELSE st.from = e \/ (st.from = e + 1 /\ e = NewLine)
Pieced(s, st, at, e) ==
    /\ st.from <= st.i /\ e \in {0} \cup LineEnds(s) /\ BehindEnd(st, e)
    /\ Rising(s, st.text, at, e) /\ KeptUpTo(s, at, e)
    /\ \A i \in LineEnds(s) : i > e => i > st.i \/ (e > 0 /\ i <= st.from + 1)

(* One piece more: its text, and its places behind those of the others. *)
Longer(at, n, from, i) == [k \in 1 .. n + (i - from) |-> IF k <= n THEN at[k] ELSE from + (k - n)]

LEMMA LongerRises ==
    ASSUME NEW S, NEW s \in Seq(S), NEW text \in Seq(S), NEW at, NEW e \in Nat,
           NEW from \in Nat, NEW i \in Nat, e <= from, from <= i, i < Len(s), Rising(s, text, at, e)
    PROVE  LET bt == Longer(at, Len(text), from, i)
           IN  /\ Rising(s, text \o SubStr(s, from, i), bt, i + 1)
               /\ \A p \in 1 .. i : p \in Range(bt) <=> p \in Range(at) \/ p \in from + 1 .. i
<1> DEFINE n == Len(text)
           p == SubStr(s, from, i)
           bt == Longer(at, n, from, i)
           all == text \o p
<1>1. n \in Nat /\ i <= Len(s) /\ Len(s) \in Nat
  OBVIOUS
<1>2. p \in Seq(S) /\ Len(p) = i - from /\ \A k \in 1 .. i - from : p[k] = s[from + k]
  <2>1. SubStr(s, from, i) \in Seq(S)
    BY <1>1, PieceText
  <2>2. from <= i => Len(SubStr(s, from, i)) = i - from
    BY <1>1, PieceText
  <2>3. \A k \in 1 .. i - from : SubStr(s, from, i)[k] = s[from + k]
    BY <1>1, PieceText
  <2>4. QED
    BY <2>1, <2>2, <2>3
<1>3. /\ at \in [1 .. n -> 1 .. e - 1] /\ \A k \in 1 .. n : text[k] = s[at[k]]
      /\ \A j, k \in 1 .. n : j < k => at[j] < at[k]
  BY DEF Rising
<1> HIDE DEF p
<1>4. /\ Len(all) = n + (i - from) /\ \A k \in 1 .. n : all[k] = text[k]
      /\ \A k \in 1 .. i - from : all[n + k] = p[k]
  <2> DEFINE m == Len(p)
  <2>1. Len(all) = n + m
    BY <1>2, SMTT(30)
  <2>2. \A k \in 1 .. n : all[k] = text[k]
    BY <1>2
  <2>3. \A k \in 1 .. m : all[n + k] = p[k]
    <3>1. \A k \in 1 .. m : n + k \in 1 .. n + m /\ ~(n + k <= n) /\ (n + k) - n = k
      BY <1>1, <1>2
    <3>2. QED
      BY <1>2, <3>1
  <2> HIDE DEF all, n
  <2>4. QED
    BY <1>2, <2>1, <2>2, <2>3
<1> HIDE DEF all, n
<1> DEFINE m == n + (i - from)
<1>5. m \in Nat /\ bt = [k \in 1 .. m |-> IF k <= n THEN at[k] ELSE from + (k - n)]
  BY <1>1 DEF Longer
<1> HIDE DEF bt
<1>6. ASSUME NEW k \in 1 .. m, k <= n
      PROVE  bt[k] = at[k] /\ bt[k] \in 1 .. e - 1 /\ all[k] = s[bt[k]] /\ k \in 1 .. n
  <2>1. k \in 1 .. n
    BY <1>6
  <2>2. bt[k] = at[k]
    BY <1>5, <1>6
  <2>3. at[k] \in 1 .. e - 1 /\ all[k] = s[at[k]]
    BY <1>3, <1>4, <2>1
  <2>4. QED
    BY <2>1, <2>2, <2>3
<1>7. ASSUME NEW k \in 1 .. m, ~(k <= n)
      PROVE  bt[k] = from + (k - n) /\ bt[k] \in from + 1 .. i /\ all[k] = s[bt[k]]
  <2>1. k - n \in 1 .. i - from /\ n + (k - n) = k
    BY <1>1, <1>7
  <2>2. bt[k] = from + (k - n)
    BY <1>5, <1>7
  <2>3. all[k] = p[k - n]
    BY <1>4, <2>1
  <2>4. p[k - n] = s[from + (k - n)]
    BY <1>2, <2>1
  <2>5. QED
    BY <2>1, <2>2, <2>3, <2>4
<1>8. ASSUME NEW k \in 1 .. m PROVE bt[k] \in 1 .. (i + 1) - 1 /\ all[k] = s[bt[k]]
  <2>1. CASE k <= n
    BY <1>6, <2>1
  <2>2. CASE ~(k <= n)
    BY <1>7, <2>2
  <2>3. QED
    BY <2>1, <2>2
<1>9. ASSUME NEW j \in 1 .. m, NEW k \in 1 .. m, j < k PROVE bt[j] < bt[k]
  <2>1. CASE k <= n
    <3>1. j <= n
      BY <1>1, <1>9, <2>1
    <3>2. j \in 1 .. n /\ k \in 1 .. n /\ bt[j] = at[j] /\ bt[k] = at[k]
      BY <1>6, <2>1, <3>1
    <3>3. QED
      BY <1>3, <1>9, <3>2
  <2>2. CASE ~(k <= n) /\ j <= n
    <3>1. bt[j] \in 1 .. e - 1 /\ bt[k] \in from + 1 .. i
      BY <1>6, <1>7, <2>2
    <3>2. QED
      BY <3>1
  <2>3. CASE ~(k <= n) /\ ~(j <= n)
    <3>1. bt[j] = from + (j - n) /\ bt[k] = from + (k - n)
      BY <1>7, <2>3
    <3>2. QED
      BY <1>1, <1>9, <3>1
  <2>4. QED
    BY <2>1, <2>2, <2>3
<1>10. Rising(s, all, bt, i + 1)
  <2>1. bt \in [1 .. m -> 1 .. (i + 1) - 1]
    BY <1>5, <1>8
  <2>2. Len(all) = m
    BY <1>4
  <2>3. QED
    BY <1>8, <1>9, <2>1, <2>2 DEF Rising
<1>11. ASSUME NEW q \in 1 .. i
       PROVE  q \in Range(bt) <=> q \in Range(at) \/ q \in from + 1 .. i
  <2>1. DOMAIN bt = 1 .. m /\ DOMAIN at = 1 .. n
    BY <1>3, <1>5
  <2>2. ASSUME q \in Range(bt) PROVE q \in Range(at) \/ q \in from + 1 .. i
    <3>1. PICK k \in 1 .. m : q = bt[k]
      BY <2>1, <2>2 DEF Range
    <3>2. CASE k <= n
      <4>1. k \in 1 .. n /\ q = at[k]
        BY <1>6, <3>1, <3>2
      <4>2. QED
        BY <2>1, <4>1 DEF Range
    <3>3. CASE ~(k <= n)
      BY <1>7, <3>1, <3>3
    <3>4. QED
      BY <3>2, <3>3
  <2>3. ASSUME q \in Range(at) PROVE q \in Range(bt)
    <3>1. PICK k \in 1 .. n : q = at[k]
      BY <2>1, <2>3 DEF Range
    <3>2. k \in 1 .. m /\ k <= n
      BY <1>1
    <3>3. bt[k] = q
      BY <1>6, <3>1, <3>2
    <3>4. QED
      BY <2>1, <3>2, <3>3 DEF Range
  <2>4. ASSUME q \in from + 1 .. i PROVE q \in Range(bt)
    <3> DEFINE k == n + (q - from)
    <3>1. k \in 1 .. m /\ ~(k <= n) /\ k - n = q - from
      BY <1>1, <2>4
    <3> HIDE DEF k
    <3>2. bt[k] = from + (q - from)
      BY <1>7, <3>1
    <3>3. bt[k] = q
      BY <2>4, <3>2
    <3>4. QED
      BY <2>1, <3>1, <3>3 DEF Range
  <2>5. QED
    BY <2>2, <2>3, <2>4
<1>12. QED
  BY <1>10, <1>11 DEF bt, all, p, n

LEMMA EndsKept ==
    ASSUME NEW S, NEW s \in Seq(S), NEW st, NEW at, NEW e \in Nat, NEW from \in Nat, NEW i \in Nat, NEW bt,
           from <= i, i < Len(s), st.from = from, e \in {0} \cup LineEnds(s), BehindEnd(st, e),
           KeptUpTo(s, at, e),
           \A q \in LineEnds(s) : q > e => q > i \/ (e > 0 /\ q <= from + 1),
           \A q \in 1 .. i : q \in Range(bt) <=> q \in Range(at) \/ q \in from + 1 .. i,
           \A q \in Range(at) : q <= e - 1
    PROVE  KeptUpTo(s, bt, i + 1)
<1>1. IF e = 0 THEN from = 0 ELSE from = e \/ (from = e + 1 /\ e = NewLine)
  BY DEF BehindEnd
<1>2. e <= from
  BY <1>1
<1> DEFINE E == LineEnds(s)
<1> HIDE DEF E
<1> SUFFICES ASSUME NEW q \in 1 .. (i + 1) - 1
             PROVE  IF q \in E
                    THEN q \in Range(bt) => \E j \in E : j \in {q - 1, q - 2}
                    ELSE q \in Range(bt) \/ TakenForEnd(s, q)
  BY Zenon DEF KeptUpTo, E
<1>3. q \in 1 .. i
  OBVIOUS
<1>4. q \in Range(bt) <=> q \in Range(at) \/ q \in from + 1 .. i
  BY <1>3
<1>5. CASE q \in 1 .. e - 1
  <2>1. IF q \in E
        THEN q \in Range(at) => \E j \in E : j \in {q - 1, q - 2}
        ELSE q \in Range(at) \/ TakenForEnd(s, q)
    BY <1>5, Zenon DEF KeptUpTo, E
  <2>2. q \notin from + 1 .. i
    BY <1>2, <1>5
  <2>3. QED
    BY <1>4, <2>1, <2>2
<1>6. CASE q = e
  <2>1. q \in E /\ q \notin from + 1 .. i
    BY <1>2, <1>6 DEF E
  <2>2. q \notin Range(at)
    BY <1>6
  <2>3. QED
    BY <1>4, <2>1, <2>2
<1>7. CASE q > e /\ q <= from
  <2>1. e # 0 /\ q = e + 1 /\ from = e + 1 /\ e = NewLine
    BY <1>1, <1>7
  <2>2. e \in LineEnds(s) /\ q - 1 = e
    BY <2>1
  <2>3. TakenForEnd(s, q)
    BY <2>1, <2>2 DEF TakenForEnd
  <2>4. q \notin Range(bt)
    BY <1>4, <1>7
  <2>5. QED
    BY <2>3, <2>4
<1>8. CASE q > from
  <2>1. q \in Range(bt) /\ q > e
    BY <1>2, <1>3, <1>4, <1>8
  <2>2. CASE q \in E
    <3>1. e > 0 /\ q = from + 1
      BY <1>3, <1>8, <2>1, <2>2 DEF E
    <3>2. e \in E /\ e \in {q - 1, q - 2}
      BY <1>1, <3>1 DEF E
    <3>3. QED
      BY <2>1, <2>2, <3>2
  <2>3. QED
    BY <2>1, <2>2
<1>9. QED
  BY <1>3, <1>5, <1>6, <1>7, <1>8

(* One pass of the loop keeps that up and comes further in the text. *)
OnePassMore(s, st, next) ==
    /\ \E bt, f : Pieced(s, next, bt, f)
    /\ next.i > st.i \/ next.i >= Len(s)

LEMMA PassKeeps ==
    ASSUME NEW S, NEW s \in Seq(S), NEW st \in PieceStates(S), NEW at, NEW e, Pieced(s, st, at, e)
    PROVE  OnePassMore(s, st, NextPiece(s, st))
<1> DEFINE i == st.i
           from == st.from
           text == st.text
           next == NextPiece(s, st)
<1>1. i \in Nat /\ from \in Nat /\ text \in Seq(S) /\ Len(s) \in Nat
  BY DEF PieceStates
<1>2. /\ from <= i /\ e \in {0} \cup LineEnds(s) /\ BehindEnd(st, e)
      /\ Rising(s, text, at, e) /\ KeptUpTo(s, at, e)
      /\ \A q \in LineEnds(s) : q > e => q > i \/ (e > 0 /\ q <= from + 1)
  BY DEF Pieced
<1>3. LineEnds(s) = {q \in 1 .. Len(s) : s[q] \in {NewLine, CarriageReturn}}
  BY DEF LineEnds
<1>4. e \in Nat /\ e <= from
  BY <1>1, <1>2, <1>3 DEF BehindEnd
<1>5. CASE i >= Len(s)
  <2>1. next = st
    BY <1>5, NextPieceIs
  <2>2. QED
    BY <1>5, <2>1 DEF OnePassMore
<1>6. CASE i < Len(s) /\ At(s, i) \notin {NewLine, CarriageReturn}
  <2>1. next = [i |-> i + 1, from |-> from, text |-> text]
    BY <1>6, NextPieceIs
  <2>2. next.i = i + 1 /\ next.from = from /\ next.text = text
    BY <2>1
  <2> HIDE DEF next
  <2>3. i + 1 \notin LineEnds(s)
    BY <1>3, <1>6 DEF At
  <2>4. \A q \in LineEnds(s) : q > e => q > i + 1 \/ (e > 0 /\ q <= from + 1)
    <3> SUFFICES ASSUME NEW q \in LineEnds(s), q > e PROVE q > i + 1 \/ (e > 0 /\ q <= from + 1)
      OBVIOUS
    <3>1. q > i \/ (e > 0 /\ q <= from + 1)
      BY <1>2
    <3>2. q \in Nat /\ q # i + 1
      BY <1>3, <2>3
    <3>3. QED
      BY <1>1, <3>1, <3>2
  <2>5. BehindEnd(next, e) /\ next.from <= next.i
    BY <1>1, <1>2, <2>2 DEF BehindEnd
  <2>6. Pieced(s, next, at, e)
    BY <1>2, <2>2, <2>4, <2>5 DEF Pieced
  <2>7. QED
    BY <1>1, <2>2, <2>6 DEF OnePassMore, next
<1>7. CASE i < Len(s) /\ At(s, i) \in {NewLine, CarriageReturn}
  <2> DEFINE f == i + 1
             after == AfterLineEnd(s, i)
             bt == Longer(at, Len(text), from, i)
  <2>1. next = [i |-> after + 1, from |-> after, text |-> text \o SubStr(s, from, i)]
    BY <1>7, NextPieceIs
  <2> HIDE DEF next
  <2>2. next.i = after + 1 /\ next.from = after /\ next.text = text \o SubStr(s, from, i)
    BY <2>1
  <2>3. f \in LineEnds(s)
    BY <1>1, <1>3, <1>7 DEF At
  <2>4. after = f \/ (after = f + 1 /\ f = NewLine)
    BY <1>1 DEF AfterLineEnd
  <2> HIDE DEF after
  <2>5. BehindEnd(next, f) /\ next.from <= next.i
    BY <1>1, <2>2, <2>4 DEF BehindEnd
  <2>6. /\ Rising(s, text \o SubStr(s, from, i), bt, f)
        /\ \A p \in 1 .. i : p \in Range(bt) <=> p \in Range(at) \/ p \in from + 1 .. i
    BY <1>1, <1>2, <1>4, <1>7, LongerRises
  <2> HIDE DEF bt
  <2>7. \A q \in Range(at) : q <= e - 1
    <3>1. at \in [1 .. Len(text) -> 1 .. e - 1]
      BY <1>2 DEF Rising
    <3>2. Range(at) \subseteq 1 .. e - 1
      BY <3>1 DEF Range
    <3>3. QED
      BY <1>4, <3>2
  <2>8. KeptUpTo(s, bt, f)
    BY <1>1, <1>2, <1>4, <1>7, <2>6, <2>7, EndsKept
  <2>9. ASSUME NEW q \in LineEnds(s), q > f PROVE q > next.i \/ (f > 0 /\ q <= next.from + 1)
    <3>1. q \in Nat
      BY <1>3
    <3>2. QED
      BY <1>1, <2>2, <2>4, <2>9, <3>1
  <2>10. Pieced(s, next, bt, f)
    <3> HIDE DEF f
    <3>1. QED
      BY <2>2, <2>3, <2>5, <2>6, <2>8, <2>9 DEF Pieced
  <2>11. next.i > i
    BY <1>1, <2>2, <2>4
  <2>12. QED
    BY <2>10, <2>11 DEF OnePassMore, next
<1>8. QED
  BY <1>1, <1>5, <1>6, <1>7

LEMMA FirstPieced ==
    ASSUME NEW S, NEW s \in Seq(S)
    PROVE  Pieced(s, FirstPiece, <<>>, 0)
<1>1. FirstPiece.i = 0 /\ FirstPiece.from = 0 /\ FirstPiece.text = <<>>
  BY DEF FirstPiece
<1>2. Rising(s, <<>>, <<>>, 0)
  BY DEF Rising
<1>3. KeptUpTo(s, <<>>, 0)
  BY DEF KeptUpTo
<1>4. \A q \in LineEnds(s) : q > 0
  BY DEF LineEnds
<1>5. QED
  BY <1>1, <1>2, <1>3, <1>4 DEF Pieced, BehindEnd

(* What cleannewline keeps of a text. *)
LEMMA CleanKeepsInOrder ==
    ASSUME NEW S, NEW s \in Seq(S)
    PROVE  KeptInOrder(s, CleanNewLine(s))
<1> DEFINE n == Len(s)
           E == LineEnds(s)
           last == Max({0} \cup E)
<1>1. n \in Nat /\ E \subseteq 1 .. n
  BY DEF LineEnds
<1>2. PICK pass : PassesMade(s, S, pass)
  BY PassesAreMade
<1>3. /\ CleanNewLine(s) = pass[n].text /\ pass[0] = FirstPiece
      /\ \A k \in 0 .. n : pass[k] \in PieceStates(S)
      /\ \A k \in 1 .. n : pass[k] = NextPiece(s, pass[k - 1])
  BY <1>2 DEF PassesMade
<1> DEFINE T == {k \in 0 .. n : (\E at, e : Pieced(s, pass[k], at, e)) /\ (pass[k].i >= k \/ pass[k].i >= n)}
<1>4. 0 \in T
  <2>1. Pieced(s, pass[0], <<>>, 0) /\ pass[0].i = 0
    BY <1>3, FirstPieced DEF FirstPiece
  <2>2. QED
    BY <1>1, <2>1
<1>5. ASSUME NEW k \in 1 .. n, k - 1 \in T PROVE k \in T
  <2>1. PICK at, e : Pieced(s, pass[k - 1], at, e)
    BY <1>5
  <2>2. k - 1 \in 0 .. n /\ pass[k - 1] \in PieceStates(S) /\ pass[k] \in PieceStates(S)
    BY <1>1, <1>3
  <2>3. OnePassMore(s, pass[k - 1], NextPiece(s, pass[k - 1]))
    BY <2>1, <2>2, PassKeeps
  <2>4. OnePassMore(s, pass[k - 1], pass[k])
    BY <1>3, <2>3
  <2>5. (\E bt, f : Pieced(s, pass[k], bt, f)) /\ (pass[k].i > pass[k - 1].i \/ pass[k].i >= n)
    BY <2>4, Zenon DEF OnePassMore
  <2>6. pass[k].i \in Nat /\ pass[k - 1].i \in Nat
    BY <2>2 DEF PieceStates
  <2>7. pass[k].i >= k \/ pass[k].i >= n
    <3>1. pass[k - 1].i >= k - 1 \/ pass[k - 1].i >= n
      BY <1>5
    <3>2. QED
      BY <1>1, <2>5, <2>6, <3>1
  <2>8. QED
    BY <2>5, <2>7
<1> HIDE DEF T
<1>6. 0 .. n \subseteq T
  BY <1>1, <1>4, <1>5, InductionUpTo
<1>7. n \in T /\ pass[n] \in PieceStates(S)
  BY <1>1, <1>3, <1>6
<1> DEFINE st == pass[n]
           clean == CleanNewLine(s)
<1>8. PICK at, e : Pieced(s, st, at, e)
  BY <1>7, Zenon DEF T
<1>9. st.i \in Nat /\ st.from \in Nat /\ clean \in Seq(S) /\ clean = st.text
  BY <1>3, <1>7 DEF PieceStates
<1>10. st.i >= n
  BY <1>1, <1>7, <1>9 DEF T
<1>11. /\ e \in {0} \cup E /\ BehindEnd(st, e) /\ Rising(s, clean, at, e) /\ KeptUpTo(s, at, e)
       /\ \A q \in E : q > e => q > st.i \/ (e > 0 /\ q <= st.from + 1)
  BY <1>8, <1>9 DEF Pieced
<1> HIDE DEF E, st, clean
<1>12. last \in {0} \cup E /\ \A q \in E : q <= last
  <2> DEFINE U == {0} \cup E
  <2>1. U \in SUBSET (-1 .. n) /\ U # {}
    BY <1>1
  <2> HIDE DEF U
  <2>2. Max(U) \in U /\ \A q \in U : Max(U) >= q
    BY <1>1, <2>1, GreatestOf
  <2>3. U \subseteq Int
    BY <1>1, <2>1
  <2>4. QED
    BY <2>2, <2>3 DEF U
<1> HIDE DEF last
<1>13. e \in Nat /\ last \in Nat /\ e <= last
  BY <1>1, <1>11, <1>12
<1>14. /\ at \in [1 .. Len(clean) -> 1 .. e - 1] /\ \A k \in 1 .. Len(clean) : clean[k] = s[at[k]]
       /\ \A j, k \in 1 .. Len(clean) : j < k => at[j] < at[k]
  BY <1>11 DEF Rising
<1>15. DOMAIN clean = 1 .. Len(clean)
  BY <1>9
<1>16. at \in [DOMAIN clean -> 1 .. last - 1]
  BY <1>13, <1>14, <1>15
<1>17. ASSUME NEW q \in 1 .. last - 1
       PROVE  IF q \in E THEN q \in Range(at) => \E j \in E : j \in {q - 1, q - 2}
              ELSE q \in Range(at) \/ TakenForEnd(s, q)
  <2>1. CASE q \in 1 .. e - 1
    BY <1>11, <2>1, Zenon DEF KeptUpTo, E
  <2>2. CASE q >= e
    <3>1. q \notin Range(at)
      <4>1. Range(at) \subseteq 1 .. e - 1
        BY <1>14 DEF Range
      <4>2. QED
        BY <1>13, <2>2, <4>1
    <3>2. CASE q \in E
      BY <3>1, <3>2
    <3>3. CASE q \notin E
      <4>1. last \in E /\ last > e /\ last <= n
        BY <1>1, <1>12, <1>13, <2>2
      <4>2. e > 0 /\ last <= st.from + 1
        BY <1>9, <1>10, <1>11, <4>1, <1>1, <1>13
      <4>3. st.from = e \/ (st.from = e + 1 /\ e = NewLine)
        BY <1>11, <4>2 DEF BehindEnd
      <4>4. q # e /\ q > e
        BY <1>11, <1>13, <2>2, <3>3, <4>2
      <4>5. q = e + 1 /\ e = NewLine
        BY <1>13, <4>2, <4>3, <4>4
      <4>6. e \in LineEnds(s) /\ q - 1 = e
        BY <1>11, <1>13, <4>2, <4>5 DEF E
      <4>7. TakenForEnd(s, q)
        BY <4>5, <4>6 DEF TakenForEnd
      <4>8. QED
        BY <3>3, <4>7
    <3>4. QED
      BY <3>2, <3>3
  <2>3. QED
    BY <1>13, <2>1, <2>2
<1>18. KeptInOrder(s, clean)
  BY <1>14, <1>15, <1>16, <1>17, Zenon DEF KeptInOrder, last, E
<1>19. QED
  BY <1>18 DEF clean

(* A line from the console, and append of a text and of a character. *)
LEMMA LineEndsAtNewLine ==
    ASSUME NEW s \in Seq(Int), NEW a \in Int, a # NewLine
    PROVE  LET line == ReadLine(<<a>>, s)
           IN  \/ line = Endless /\ NewLine \notin {s[i] : i \in DOMAIN s}
               \/ /\ IsPrefix(Append(Tail(line), NewLine), s)
                  /\ \A i \in DOMAIN line : line[i] # NewLine
<1> DEFINE n == Len(s)
           S == {j \in 0 .. n : At(s, j) = NewLine}
           i == Min({n} \cup S)
           p == SubStr(s, 0, i)
           line == ReadLine(<<a>>, s)
<1>1. n \in Nat /\ S \in SUBSET (0 .. n) /\ 0 <= n
  OBVIOUS
<1>2. line = IF i = n THEN Endless ELSE <<a>> \o p
  BY Zenon DEF ReadLine, Until
<1>3. StopsAt(i, 0, n, S)
  <2> HIDE DEF S, n
  <2>1. QED
    BY <1>1, LoopStops
<1> HIDE DEF i, line
<1>4. i \in 0 .. n /\ (i = n \/ i \in S) /\ \A j \in 0 .. i - 1 : j \notin S
  BY <1>3 DEF StopsAt
<1>5. \A j \in 1 .. i : s[j] # NewLine
  <2> SUFFICES ASSUME NEW j \in 1 .. i PROVE s[j] # NewLine
    OBVIOUS
  <2>1. j - 1 \in 0 .. i - 1 /\ j - 1 < n /\ (j - 1) + 1 = j
    BY <1>4
  <2>2. At(s, j - 1) = s[j]
    BY <2>1 DEF At
  <2>3. j - 1 \in 0 .. n /\ j - 1 \notin S
    BY <1>1, <1>4, <2>1
  <2>4. QED
    BY <2>2, <2>3
<1>6. CASE i = n
  <2>1. NewLine \notin {s[k] : k \in DOMAIN s}
    BY <1>5, <1>6
  <2>2. line = Endless
    BY <1>2, <1>6
  <2>3. QED
    BY <2>1, <2>2 DEF line
<1>7. CASE i # n
  <2>1. i \in Nat /\ i < n /\ s[i + 1] = NewLine
    BY <1>1, <1>4, <1>7 DEF At
  <2>2. p \in Seq(Int) /\ Len(p) = i /\ \A k \in 1 .. i : p[k] = s[k]
    <3> DEFINE z == 0
    <3>1. z \in Nat /\ z <= i /\ i - z = i /\ \A k \in 1 .. i : z + k = k
      BY <2>1
    <3> HIDE DEF z
    <3>2. /\ SubStr(s, z, i) \in Seq(Int) /\ Len(SubStr(s, z, i)) = i - z
          /\ \A k \in 1 .. i - z : SubStr(s, z, i)[k] = s[z + k]
      BY <2>1, <3>1, PieceText
    <3>3. p = SubStr(s, z, i)
      BY DEF z
    <3> HIDE DEF p
    <3>4. QED
      BY <3>1, <3>2, <3>3
  <2> HIDE DEF p
  <2>3. line = <<a>> \o p
    BY <1>2, <1>7
  <2>4. Tail(line) = p
    BY <2>2, <2>3
  <2>5. Len(line) = i + 1 /\ line[1] = a /\ \A k \in 2 .. i + 1 : line[k] = p[k - 1]
    BY <2>1, <2>2, <2>3
  <2>6. \A k \in 1 .. i + 1 : line[k] # NewLine
    <3> SUFFICES ASSUME NEW k \in 2 .. i + 1 PROVE line[k] # NewLine
      BY <2>1, <2>5
    <3>1. k - 1 \in 1 .. i
      BY <2>1
    <3>2. QED
      BY <1>5, <2>2, <2>5, <3>1
  <2>7. DOMAIN line = 1 .. i + 1
    BY <2>1, <2>2, <2>3
  <2>8. IsPrefix(Append(p, NewLine), s)
    <3> DEFINE q == Append(p, NewLine)
    <3>1. NewLine \in Int
      BY <2>1
    <3>2. q \in Seq(Int) /\ Len(q) = i + 1 /\ q[i + 1] = NewLine /\ \A k \in 1 .. i : q[k] = p[k]
      BY <2>1, <2>2, <3>1
    <3> HIDE DEF q
    <3>3. \A k \in 1 .. i + 1 : q[k] = s[k]
      BY <2>1, <2>2, <3>2
    <3>4. Len(q) <= Len(s) /\ SubSeq(q, 1, Len(q)) = q
      BY <2>1, <3>2
    <3>5. SubSeq(s, 1, i + 1) = q
      <4>1. SubSeq(s, 1, i + 1) = [k \in 1 .. i + 1 |-> s[k]]
        BY <2>1
      <4>2. q = [k \in 1 .. i + 1 |-> q[k]]
        BY <2>1, <3>2
      <4>3. QED
        BY <3>3, <4>1, <4>2
    <3>6. QED
      BY <3>2, <3>4, <3>5 DEF IsPrefix, q
  <2>9. QED
    BY <2>4, <2>6, <2>7, <2>8 DEF line
<1>8. QED
  BY <1>6, <1>7

LEMMA AppendKeepsBoth ==
    ASSUME NEW s \in Seq(Int), NEW c \in Int
    PROVE  LET twice == AppendText(s, AppendChar(s, c))
           IN  /\ SubStr(twice, 0, Len(s)) = s
               /\ SubStr(twice, Len(s), 2 * Len(s)) = s
<1> DEFINE n == Len(s)
           t == AppendChar(s, c)
           twice == AppendText(s, t)
<1>1. n \in Nat /\ s = [k \in 1 .. n |-> s[k]]
  OBVIOUS
<1>2. t \in Seq(Int) /\ Len(t) >= n /\ \A k \in 1 .. n : t[k] = s[k]
  BY DEF AppendChar
<1> HIDE DEF t
<1>3. /\ twice \in Seq(Int) /\ Len(twice) = n + Len(t)
      /\ \A k \in 1 .. n : twice[k] = s[k] /\ twice[n + k] = s[k]
  <2>1. twice = s \o t
    BY DEF AppendText
  <2>2. twice \in Seq(Int) /\ Len(twice) = n + Len(t) /\ \A k \in 1 .. n : twice[k] = s[k]
    BY <1>2, <2>1
  <2>3. \A k \in 1 .. Len(t) : twice[n + k] = t[k]
    BY <1>2, <2>1, Concatenated DEF Joined
  <2> HIDE DEF twice, n
  <2>4. ASSUME NEW k \in 1 .. n PROVE twice[n + k] = s[k] /\ twice[k] = s[k]
    <3>1. k \in 1 .. Len(t)
      BY <1>1, <1>2
    <3>2. QED
      BY <1>2, <2>2, <2>3, <3>1
  <2>5. QED
    BY <2>2, <2>4
<1> HIDE DEF twice
<1>4. SubStr(twice, 0, n) = s
  <2>1. SubStr(twice, 0, n) = SubSeq(twice, 1, n)
    BY DEF SubStr
  <2>2. SubSeq(twice, 1, n) = [k \in 1 .. n |-> twice[k]]
    BY <1>1, <1>2, <1>3
  <2>3. QED
    BY <1>1, <1>3, <2>1, <2>2
<1>5. SubStr(twice, n, 2 * n) = s
  <2> DEFINE e == 2 * n
  <2>1. e \in Nat /\ n <= e /\ e - n = n /\ e <= Len(twice)
    BY <1>1, <1>2, <1>3
  <2> HIDE DEF e
  <2> DEFINE u == SubStr(twice, n, e)
  <2>2. /\ Len(u) = e - n /\ u \in Seq(Int)
        /\ \A k \in 1 .. e - n : u[k] = twice[n + k]
    <3>1. n \in Nat /\ twice \in Seq(Int)
      BY <1>1, <1>3
    <3> HIDE DEF n, twice
    <3>2. u \in Seq(Int)
      BY <2>1, <3>1, PieceText
    <3>3. Len(u) = e - n
      BY <2>1, <3>1, PieceText
    <3>4. \A k \in 1 .. e - n : u[k] = twice[n + k]
      BY <2>1, <3>1, PieceText
    <3>5. QED
      BY <3>2, <3>3, <3>4
  <2>3. u \in Seq(Int) /\ Len(u) = n /\ \A k \in 1 .. n : u[k] = s[k]
    <3> HIDE DEF u, n
    <3>1. QED
      BY <1>3, <2>1, <2>2
  <2> HIDE DEF u
  <2>4. u = [k \in 1 .. n |-> u[k]]
    BY <2>3
  <2>5. u = s
    BY <1>1, <2>3, <2>4
  <2>6. QED
    BY <2>5 DEF u, e
<1>6. QED
  BY <1>4, <1>5 DEF twice, t

LEMMA NextPieces == Next => PiecesInOrder'
<1> SUFFICES ASSUME Next, call'.fn \in {"copy", "cut"} PROVE PiecesInOrder'
  BY DEF PiecesInOrder, In
<1>1. CASE call'.fn = "copy"
  <2> DEFINE M == MaxMemory
             mem == Memory
  <2>1. PICK dest \in 0 .. M, src \in 0 .. M, n \in 0 .. M :
            /\ dest + n <= M /\ src + n <= M
            /\ call' = [fn |-> "copy", dest |-> dest, src |-> src, n |-> n,
                        memcpy |-> MemCpy(mem, dest, src, n), memmove |-> MemMove(mem, dest, src, n),
                        memset |-> MemSet(mem, dest, 0, n)]
    BY <1>1, CallsOf DEF Copy, Call
  <2>2. M \in Nat /\ mem \in [1 .. M -> Int] /\ dest \in Nat /\ src \in Nat /\ n \in Nat
    BY InputsAssumption DEF Memory
  <2>3. DOMAIN mem = 1 .. M
    BY <2>2
  <2> HIDE DEF mem, M
  <2> DEFINE to == dest + 1 .. dest + n
             moved == [i \in DOMAIN mem |-> IF i \in to THEN mem[i - dest + src] ELSE mem[i]]
  <2>4. moved = CopiedTo(mem, dest, src, n)
    BY <2>2, <2>3 DEF CopiedTo
  <2> HIDE DEF moved
  <2>5. MemMove(mem, dest, src, n) = moved
    BY <2>1, <2>2, <2>4, MemMoveCopies
  <2>6. MemCpy(mem, dest, src, n) = moved \/ dest \in src + 1 .. src + n - 1
    BY <2>1, <2>2, <2>4, MemCpyCopies
  <2>7. \A i \in DOMAIN mem : MemSet(mem, dest, 0, n)[i] = IF i \in to THEN 0 ELSE mem[i]
    BY DEF MemSet
  <2>8. /\ call'.fn = "copy" /\ call'.dest = dest /\ call'.src = src /\ call'.n = n
        /\ call'.memcpy = MemCpy(mem, dest, src, n) /\ call'.memmove = MemMove(mem, dest, src, n)
        /\ call'.memset = MemSet(mem, dest, 0, n)
    BY <2>1
  <2>9. QED
    BY <2>5, <2>6, <2>7, <2>8, Zenon DEF PiecesInOrder, In, moved, mem
<1>2. CASE call'.fn = "cut"
  <2> DEFINE L == {1, 2, NewLine, CarriageReturn}
  <2>1. PICK s \in BoundedSeq(L, MaxLines), c \in {0, 1} :
            call' = [fn |-> "cut", s |-> s, c |-> c, clean |-> CleanNewLine(s),
                     line |-> ReadLine(<<1>>, s),
                     twice |-> AppendText(s, AppendChar(s, c)), last |-> RFind(s, Len(s), c)]
    BY <1>2, CallsOf DEF Cut, Call
  <2>2. s \in Seq(L)
    <3> HIDE DEF L
    <3>1. MaxLines \in Nat
      BY InputsAssumption
    <3>2. QED
      BY <3>1, BoundedIsSeq
  <2>3. s \in Seq(Int)
    <3>1. NewLine \in Int /\ CarriageReturn \in Int
      BY InputsAssumption
    <3>2. L \subseteq Int
      BY <3>1
    <3> HIDE DEF L
    <3>3. QED
      BY <2>2, <3>2, SeqOfMore
  <2> HIDE DEF L
  <2>4. KeptInOrder(s, CleanNewLine(s))
    BY <2>2, CleanKeepsInOrder
  <2>5. LET line == ReadLine(<<1>>, s)
        IN  \/ line = Endless /\ NewLine \notin {s[i] : i \in DOMAIN s}
            \/ /\ IsPrefix(Append(Tail(line), NewLine), s)
               /\ \A i \in DOMAIN line : line[i] # NewLine
    <3>1. 1 \in Int /\ 1 # NewLine
      BY InputsAssumption
    <3>2. QED
      BY <2>3, <3>1, LineEndsAtNewLine
  <2>6. LET twice == AppendText(s, AppendChar(s, c))
        IN  /\ SubStr(twice, 0, Len(s)) = s
            /\ SubStr(twice, Len(s), 2 * Len(s)) = s
    <3>1. c \in Int
      OBVIOUS
    <3>2. QED
      BY <2>3, <3>1, AppendKeepsBoth
  <2>7. /\ call'.fn = "cut" /\ call'.s = s /\ call'.clean = CleanNewLine(s) /\ call'.line = ReadLine(<<1>>, s)
        /\ call'.twice = AppendText(s, AppendChar(s, c))
    BY <2>1
  <2>8. QED
    BY <2>4, <2>5, <2>6, <2>7, Zenon DEF PiecesInOrder, In
<1>3. QED
  BY <1>1, <1>2

(* cleannewline keeps what it should, in its order, append both its parts, *)
(* a line from the console ends at the first newline, memmove copies what  *)
(* was there before and memcpy does where the destination does not begin   *)
(* inside the source (utils.cpp:201-247, string.cpp, console.cpp,          *)
(* array.h): PiecesInOrder. *)
THEOREM AlwaysPiecesInOrder == Spec => []PiecesInOrder
<1>1. Init => PiecesInOrder
  BY DEF Init, PiecesInOrder, In, Idle
<1>2. PiecesInOrder /\ [Next]_call => PiecesInOrder'
  BY NextPieces DEF PiecesInOrder, In
<1>3. QED
  BY <1>1, <1>2, PTL DEF Spec
=============================================================================
