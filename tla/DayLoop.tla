------------------------------- MODULE DayLoop -------------------------------
(***************************************************************************)
(* Date::inc_days and Date::dec_days: each hands a negative count to the   *)
(* other and steps day by day for a positive one.                          *)
(***************************************************************************)
EXTENDS Calendar

CONSTANTS Years,        \* the years of the dates that the loops start from
          MaxDays       \* the most days to go

ASSUME YearsAssumption == Years \subseteq Nat /\ MaxDays \in Nat

VARIABLES start, days,  \* the date, and how far to go: to the past if < 0
          cur,          \* year, month and day of the loop
          numDays       \* its counter

dayVars == <<start, days, cur, numDays>>

(* A going back that would leave the year 0 is left out. *)
DayInit == /\ start \in {d \in [year : Years, month : 1..12, day : 1..31] : IsDate(d)}
           /\ days \in -MaxDays..MaxDays
           /\ DayNumber(start) + days > 0
           /\ cur = start
           /\ numDays = IF days < 0 THEN -days ELSE days

StepForward == /\ days > 0 /\ numDays > 0
               /\ cur' = NextDay(cur)
               /\ numDays' = numDays - 1
               /\ UNCHANGED <<start, days>>

StepBack == /\ days < 0 /\ numDays > 0
            /\ cur' = PrevDay(cur)
            /\ numDays' = numDays - 1
            /\ UNCHANGED <<start, days>>

DayNext == StepForward \/ StepBack

DaySpec == DayInit /\ [][DayNext]_dayVars
-----------------------------------------------------------------------------
Gone == IF days < 0 THEN days + numDays ELSE days - numDays

(* The loops stay on real dates and count them one by one, over months,    *)
(* years, and centuries with and without a leap day.                       *)
StepsCount == IsDate(cur) /\ DayNumber(cur) = DayNumber(start) + Gone

(* Going there and back again ends on the date given.                      *)
ThereAndBack == numDays = 0 => start = IF days < 0 THEN IncDays(cur, -days)
                                       ELSE DecDays(cur, days)
=============================================================================
