\* A leap and a common century, a leap year and its neighbours, over a year.
CONSTANTS
    Years = {1899, 1900, 2000, 2016}
    MaxDays = 32
SPECIFICATION DaySpec
INVARIANTS StepsCount ThereAndBack
CHECK_DEADLOCK FALSE
