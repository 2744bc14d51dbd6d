------------------------------ MODULE Calendar ------------------------------
(***************************************************************************)
(* networker::Date: days as Julian day numbers, and the conversions        *)
(* between them and the Gregorian calendar.                                *)
(***************************************************************************)
EXTENDS Integers

Month(y, m, d) == [year |-> y, month |-> m, day |-> d]

(* getJulianDayNumber.                                                     *)
JulianDayNumber(year, month, day) ==
    LET a == (14 - month) \div 12
        y == year + 4800 - a
        m == month + 12 * a - 3
    IN  day + (153 * m + 2) \div 5 + y * 365 + y \div 4 - y \div 100
            + y \div 400 - 32045

(* Variant: every century year is a leap year of the inverse.              *)
YearMonthDayJulian(julianDayNumber) ==
    LET c == julianDayNumber + 32082
        d == (4 * c + 3) \div 1461
        e == c - (1461 * d) \div 4
        m == (5 * e + 2) \div 153
    IN  Month(d - 4800 + m \div 10, m + 3 - 12 * (m \div 10),
              e - (153 * m + 2) \div 5 + 1)

(* getYearMonthDay.                                                        *)
YearMonthDay(julianDayNumber) ==
    LET a == julianDayNumber + 32044
        b == (4 * a + 3) \div 146097
        c == a - (b * 146097) \div 4
        d == (4 * c + 3) \div 1461
        e == c - (1461 * d) \div 4
        m == (5 * e + 2) \div 153
    IN  Month(b * 100 + d - 4800 + m \div 10, m + 3 - 12 * (m \div 10),
              e - (153 * m + 2) \div 5 + 1)

(* The first day, March 1 of the year -4800, whose conversions divide      *)
(* nothing negative: from it on \div rounds as the division of C++ does.   *)
FirstDay == -32044

kJulianDayOf1970_01_01 == JulianDayNumber(1970, 1, 1)

(* Date::weekDay, 0 for Sunday.                                            *)
WeekDay(julianDayNumber) == (julianDayNumber + 1) % 7

-----------------------------------------------------------------------------
(* The Gregorian calendar.                                                 *)
LeapYear(y) == y % 4 = 0 /\ (y % 100 = 0 => y % 400 = 0)

DaysIn(y, m) == CASE m = 2 -> IF LeapYear(y) THEN 29 ELSE 28
                  [] m \in {4, 6, 9, 11} -> 30
                  [] OTHER -> 31

DayAfter(date) ==
    IF date.day < DaysIn(date.year, date.month)
    THEN [date EXCEPT !.day = @ + 1]
    ELSE IF date.month < 12 THEN Month(date.year, date.month + 1, 1)
    ELSE Month(date.year + 1, 1, 1)

(* From a year on, day after day, until another: both conversions agree    *)
(* with the calendar and with each other, and 1970-01-01 is a Thursday.    *)
DaysRight(first, last) ==
    /\ YearMonthDay(kJulianDayOf1970_01_01) = Month(1970, 1, 1)
    /\ WeekDay(kJulianDayOf1970_01_01) = 4
    /\ \A j \in JulianDayNumber(first, 1, 1)..JulianDayNumber(last, 12, 31) :
          LET date == YearMonthDay(j)
          IN  /\ YearMonthDay(j + 1) = DayAfter(date)
              /\ JulianDayNumber(date.year, date.month, date.day) = j
=============================================================================
