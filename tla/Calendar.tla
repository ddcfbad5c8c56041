------------------------------ MODULE Calendar -------------------------------
(***************************************************************************)
(* The Gregorian calendar as Date computes it (src/date.cpp), and the      *)
(* number of a day, the reference that its steps are compared with.        *)
(***************************************************************************)
EXTENDS Integers

(* Faulty variant: the leap years of the Julian calendar. *)
IsLeapYearJulian(year) == year % 4 = 0

(* (year & 3) is year % 4.  Years are those of the four digits of Zinc. *)
IsLeapYear(year) == year % 4 = 0 /\ (year % 100 # 0 \/ year % 400 = 0)

(* The tables daysInMon and daysInMonLeap. *)
DaysInMonth(year, month) ==
    IF month = 2 THEN (IF IsLeapYear(year) THEN 29 ELSE 28)
    ELSE IF month \in {4, 6, 9, 11} THEN 30 ELSE 31

Day(year, month, day) == [year |-> year, month |-> month, day |-> day]

IsDate(d) == /\ d = Day(d.year, d.month, d.day)
             /\ d.year \in Nat
             /\ d.month \in 1..12
             /\ d.day \in 1..DaysInMonth(d.year, d.month)

(* The body of the loop of Date::inc_days. *)
NextDay(d) ==
    IF d.day + 1 <= DaysInMonth(d.year, d.month) THEN Day(d.year, d.month, d.day + 1)
    ELSE IF d.month + 1 > 12 THEN Day(d.year + 1, 1, 1)
    ELSE Day(d.year, d.month + 1, 1)

(* Faulty variant: the length of the month that is left. *)
PrevDayWrongMonth(d) ==
    IF d.day - 1 > 0 THEN Day(d.year, d.month, d.day - 1)
    ELSE IF d.month - 1 < 1 THEN Day(d.year - 1, 12, 31)
    ELSE Day(d.year, d.month - 1, DaysInMonth(d.year, d.month))

(* The body of the loop of Date::dec_days. *)
PrevDay(d) ==
    IF d.day - 1 > 0 THEN Day(d.year, d.month, d.day - 1)
    ELSE IF d.month - 1 < 1 THEN Day(d.year - 1, 12, DaysInMonth(d.year - 1, 12))
    ELSE Day(d.year, d.month - 1, DaysInMonth(d.year, d.month - 1))

(* The whole loops, for a count that is not negative; DayLoop runs them    *)
(* step by step and for every count.  (A set of one day holds the value    *)
(* that TLC would otherwise compute again at each mention of it.)          *)
IncDays(d, n) == LET after[i \in 0..n] == IF i = 0 THEN {d}
                                          ELSE {NextDay(e) : e \in after[i - 1]}
                 IN CHOOSE e \in after[n] : TRUE
DecDays(d, n) == LET before[i \in 0..n] == IF i = 0 THEN {d}
                                           ELSE {PrevDay(e) : e \in before[i - 1]}
                 IN CHOOSE e \in before[n] : TRUE
-----------------------------------------------------------------------------
(* The number of days before the month in a common year. *)
BeforeMonth == <<0, 31, 59, 90, 120, 151, 181, 212, 243, 273, 304, 334>>

(* Leap days in the years 0 to y - 1. *)
LeapDays(y) == (y + 3) \div 4 - (y + 99) \div 100 + (y + 399) \div 400

LeapDay(y, m) == IF m > 2 /\ y % 4 = 0 /\ (y % 100 # 0 \/ y % 400 = 0) THEN 1 ELSE 0

(* The number of a day, 1 for the first of January of the year 0.  It has  *)
(* its own rule for leap years, and none of the code's tables.             *)
NumberOf(y, m, n) == 365 * y + LeapDays(y) + BeforeMonth[m] + LeapDay(y, m) + n

DayNumber(d) == NumberOf(d.year, d.month, d.day)

(* Sunday is 1.  Date::weekday asks mktime and localtime for it. *)
Weekday(d) == ((DayNumber(d) + 5) % 7) + 1
=============================================================================
