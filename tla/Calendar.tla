------------------------------ MODULE Calendar ------------------------------
(***************************************************************************)
(* The Time class of src/linux/time.cpp.  A Time is the record of its      *)
(* fields; a struct timespec is the day, the second of that day and the    *)
(* nanosecond, since TLC's integers are too small for its tv_sec.          *)
(***************************************************************************)
EXTENDS Integers

CONSTANTS DayWrap,      \* 2^32, the number of ints, and where a day count wraps
          DstSeconds    \* tz_dsttime * 60 of the zone

SecondsPerDay == 86400
ASSUME WrapAssumption == DayWrap \in Nat /\ DstSeconds \in Nat /\ DstSeconds < SecondsPerDay

DaysPerYear == 365
DaysPerLeapYear == 1461
DaysIn100Years == 36524
DaysIn400Years == 146097
DaysSince1970 == 719468
StartDays == <<0, 31, 59, 90, 120, 151, 181, 212, 243, 273, 304, 334>>
Before1970 == [year |-> 0]      \* what an unsigned conversion makes of it

Fields == {"nsec", "sec", "min", "hour", "day", "month", "year"}

(* The setters accept up to these; setYear takes any int. *)
Limit == [nsec |-> 999999999, sec |-> 60, min |-> 60, hour |-> 24, day |-> 31, month |-> 12]
SetField(t, f, v) == IF f # "year" /\ v > Limit[f] THEN t ELSE [t EXCEPT ![f] = v]
NewTime == [nsec |-> 0, sec |-> 0, min |-> 0, hour |-> 0, day |-> 1, month |-> 1, year |-> 1970]

Trunc(n, m) == IF n < 0 THEN -((-n) \div m) ELSE n \div m
Seconds(t) == t.sec + 60 * (t.min + 60 * t.hour)
Instant(day, sec, nsec) ==
    [day |-> day + (sec \div SecondsPerDay), sec |-> sec % SecondsPerDay, nsec |-> nsec]

-----------------------------------------------------------------------------
(* _fromUnixtimeSpec: year, month and day of a count of days, in years     *)
(* that begin in March; the 400-year cycle, then the 4-year one. *)
Century(dayn) == ((4 * (dayn + DaysIn100Years + 1)) \div DaysIn400Years) - 1
YearTooLate(dayn) == (4 * (dayn + DaysPerYear)) \div DaysPerLeapYear - 1   \* mutant
YearOfCentury(dayn) == ((4 * (dayn + DaysPerYear + 1)) \div DaysPerLeapYear) - 1

FromSpec(ts) ==
    LET dayn == DaysSince1970 + ts.day
        c == Century(dayn)
        inCentury == dayn - (DaysIn100Years * c + (c \div 4))
        y == YearOfCentury(inCentury)
        inYear == inCentury - (DaysPerYear * y + (y \div 4))
        m == (5 * inYear + 2) \div 153
    IN  IF ts.day < 0 THEN Before1970
        ELSE [year |-> 100 * c + y + (IF m + 3 > 12 THEN 1 ELSE 0),
              month |-> IF m + 3 > 12 THEN m - 9 ELSE m + 3,
              day |-> inYear - ((153 * m + 2) \div 5) + 1,
              hour |-> ts.sec \div 3600,
              min |-> (ts.sec % 3600) \div 60,
              sec |-> ts.sec % 60,
              nsec |-> ts.nsec]

(* _toUnixtimeSpec: an unsigned sum of days, so that one below zero wraps. *)
LeapYear(y) == y % 4 = 0 /\ (y % 100 # 0 \/ y % 400 = 0)
LeapDaysJulian(y) == Trunc(y - 1 - 1968, 4)     \* mutant: centuries are leap years
LeapDays(y) == Trunc(y - 1 - 1968, 4) - Trunc(y - 1 - 1900, 100) + Trunc(y - 1 - 1600, 400)
DaysToYear(t) == (t.year - 1970) * 365
DayNumber(t) ==
    DaysToYear(t) + LeapDays(t.year) + StartDays[t.month] + t.day - 1
        + (IF t.month > 2 /\ LeapYear(t.year) THEN 1 ELSE 0)
ToSpec(t) ==
    LET d == DayNumber(t) IN Instant(IF d < 0 THEN d + DayWrap ELSE d, Seconds(t), t.nsec)

(* Month 0, which setMounth accepts, reads in front of the table, and the  *)
(* days of a year far away are no int: any number of days may come out. *)
Undefined(t) == t.month = 0 \/ 2 * DaysToYear(t) \notin -DayWrap .. DayWrap - 1
ToSpecOr(t, stray) == IF Undefined(t) THEN Instant(stray, Seconds(t), t.nsec) ELSE ToSpec(t)

(* The same for a struct timeval, which counts microseconds. *)
FromVal(tv) == [FromSpec(tv) EXCEPT !.nsec = 1000 * @]
ToValOr(t, stray) == [ToSpecOr(t, stray) EXCEPT !.nsec = @ \div 1000]

(* compare subtracts seconds and nanoseconds, without a borrow between     *)
(* them, and makes a date of the difference. *)
DifferenceUncarried(a, b) ==    \* mutant: no borrow from the days either
    [day |-> a.day - b.day, sec |-> (a.sec - b.sec) % SecondsPerDay, nsec |-> a.nsec - b.nsec]
Difference(a, b) ==
    Instant(a.day - b.day, a.sec - b.sec, a.nsec - b.nsec)
Compare(t, u) == FromSpec(Difference(ToSpec(t), ToSpec(u)))

(* getHWTime and setHWTime: the clock moved by the zone's dsttime. *)
GetHWTime(clock) == FromSpec(Instant(clock.day, clock.sec + DstSeconds, clock.nsec))
SetHWTime(t) == LET ts == ToSpec(t) IN Instant(ts.day, ts.sec - DstSeconds, ts.nsec)
=============================================================================
