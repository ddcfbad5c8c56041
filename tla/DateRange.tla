------------------------------ MODULE DateRange ------------------------------
(***************************************************************************)
(* The ranges that DateTimeRange makes relative to the current day, while  *)
(* the clock goes on.  Date::today is the date in the zone of the machine; *)
(* a range is made for a zone that the caller names.  A TimeZone has one   *)
(* offset, without daylight saving time (src/timezone.cpp), so an instant  *)
(* is a number of hours, and a day has 24 of them.                         *)
(***************************************************************************)
EXTENDS Calendar

CONSTANTS Starts,       \* the dates on which the clock starts, of the year 1 or later
          Span,         \* bound: how many hours it runs
          LocalOffset,  \* offset of TimeZone::DEFAULT, in hours
          ZoneOffset    \* offset of the zone that ranges are made for

ASSUME StartsAssumption == \A d \in Starts : IsDate(d) /\ d.year >= 1
ASSUME OffsetsAssumption == LocalOffset \in -12..14 /\ ZoneOffset \in -12..14

VARIABLES today,        \* the date on the machine's clock
          hour,         \* and its hour
          ran           \* hours that have passed, for the bound

vars == <<today, hour, ran>>

Init == today \in Starts /\ hour = 0 /\ ran = 0

Tick == /\ ran < Span
        /\ ran' = ran + 1
        /\ \/ hour < 23 /\ hour' = hour + 1 /\ UNCHANGED today
           \/ hour = 23 /\ hour' = 0 /\ today' = NextDay(today)

Next == Tick

Spec == Init /\ [][Next]_vars

Now == 24 * DayNumber(today) + hour - LocalOffset
-----------------------------------------------------------------------------
(* Date::midnight: the instant at which the day begins in the zone. *)
Midnight(d) == 24 * DayNumber(d) - ZoneOffset

(* Faulty variant: the last day is left out. *)
MakeRangeExclusive(first, last) ==
    [start |-> Midnight(first), end |-> Midnight(last)]

MakeRange(first, last) ==
    [start |-> Midnight(first), end |-> Midnight(IncDays(last, 1))]

Sunday == 1
Saturday == 7

Yesterday == MakeRange(DecDays(today, 1), DecDays(today, 1))
Today == MakeRange(today, today)

WeekOf(d) == MakeRange(DecDays(d, Weekday(d) - Sunday),
                       IncDays(d, Saturday - Weekday(d)))

(* Faulty variant: the week runs from this day of the week to the next. *)
ThisWeekRolling == MakeRange(today, IncDays(today, 6))

ThisWeek == WeekOf(today)
LastWeek == WeekOf(DecDays(today, 7))

MonthOf(year, month) ==
    MakeRange(Day(year, month, 1), Day(year, month, DaysInMonth(year, month)))

ThisMonth == MonthOf(today.year, today.month)

(* Faulty variant: December of the same year. *)
LastMonthSameYear ==
    MonthOf(today.year, IF today.month = 1 THEN 12 ELSE today.month - 1)

LastMonth == IF today.month = 1 THEN MonthOf(today.year - 1, 12)
             ELSE MonthOf(today.year, today.month - 1)

YearOf(year) == MakeRange(Day(year, 1, 1), Day(year, 12, 31))

ThisYear == YearOf(today.year)
LastYear == YearOf(today.year - 1)

Current == <<Today, ThisWeek, ThisMonth, ThisYear>>
Previous == <<Yesterday, LastWeek, LastMonth, LastYear>>
-----------------------------------------------------------------------------
(* No instant is lost or counted twice between what came before and what   *)
(* is: yesterday, last week, last month and last year end at the instant   *)
(* at which today, this week, this month and this year start.              *)
RangesTile == \A i \in 1..4 : Previous[i].end = Current[i].start

(* As time passes a range stays what it is until its end; then it becomes  *)
(* the previous one, and the next begins there.                            *)
RangesAdvance ==
    [][\A i \in 1..4 : \/ Current'[i] = Current[i] /\ Previous'[i] = Previous[i]
                       \/ /\ Current'[i].start = Current[i].end
                          /\ Previous'[i] = Current[i]]_vars

(* The current day, week, month and year hold the current instant as long  *)
(* as it is the same day in the zone as on the machine.  Otherwise nothing *)
(* is said: datetimerange.hpp:89 makes the zone the "context for date      *)
(* based ranges", but the code takes the date of the machine, and a range  *)
(* may then have ended already or not have begun.                          *)
SameDay == DayNumber(today) = (Now + ZoneOffset) \div 24

NowIsInRange ==
    SameDay => \A i \in 1..4 : Current[i].start <= Now /\ Now < Current[i].end
=============================================================================
