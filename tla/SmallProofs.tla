---------------------------- MODULE SmallProofs -----------------------------
(***************************************************************************)
(* The systems of one process.  inc_days and dec_days, step by step: they  *)
(* count real days and undo one another, for every date and every number   *)
(* of days, from what OperatorProofs says of one step.  The ranges         *)
(* relative to the current day, for every date, every pair of offsets and  *)
(* every length of time: a range of days is the pair of the numbers of its *)
(* first and last day, so the properties become sums of day numbers.  And  *)
(* the erasing loop, run slot by slot: it does what the closed forms of    *)
(* Subscription say, for every subscription and every set of victims.      *)
(***************************************************************************)
EXTENDS DateRange, DayLoop, EraseLoop, OperatorProofs

(* The inductive invariant: StepsCount needs that the loop does not leave  *)
(* the year 0, which the counter and the number of the first date bound.   *)
DayInv == /\ days \in Int /\ numDays \in Nat
          /\ IsDate(start) /\ DayNumber(start) + days > 0
          /\ numDays <= IF days < 0 THEN -days ELSE days
          /\ StepsCount

LEMMA DayInvInit == DayInit => DayInv
  <1> SUFFICES ASSUME DayInit PROVE DayInv
    OBVIOUS
  <1>1. /\ days \in Int /\ numDays \in Nat
        /\ numDays <= IF days < 0 THEN -days ELSE days
    BY YearsAssumption DEF DayInit
  <1>2. IsDate(start) /\ cur = start /\ DayNumber(start) + days > 0
    BY DEF DayInit
  <1>3. Gone = 0
    BY <1>1 DEF DayInit, Gone
  <1>4. DayNumber(start) \in Int
    BY <1>2, NumberOfDate
  <1> QED BY <1>1, <1>2, <1>3, <1>4 DEF DayInv, StepsCount

LEMMA DayInvStep == DayInv /\ [DayNext]_dayVars => DayInv'
  <1> SUFFICES ASSUME DayInv, [DayNext]_dayVars PROVE DayInv'
    OBVIOUS
  <1>1. /\ days \in Int /\ numDays \in Nat
        /\ numDays <= IF days < 0 THEN -days ELSE days
        /\ IsDate(start) /\ DayNumber(start) + days > 0
        /\ IsDate(cur) /\ DayNumber(cur) = DayNumber(start) + Gone
    BY DEF DayInv, StepsCount
  <1>2. DayNumber(start) \in Int /\ DayNumber(cur) \in Int
    BY <1>1, NumberOfDate
  <1>3. CASE StepForward
    <2>1. /\ days > 0 /\ numDays > 0 /\ cur' = NextDay(cur)
          /\ numDays' = numDays - 1 /\ start' = start /\ days' = days
      BY <1>3 DEF StepForward
    <2>2. IsDate(cur') /\ DayNumber(cur') = DayNumber(cur) + 1
      BY <2>1, <1>1, NextDayCounts
    <2>3. Gone' = Gone + 1 /\ Gone \in Int
      BY <2>1, <1>1 DEF Gone
    <2>4. DayNumber(cur') = DayNumber(start) + Gone'
      BY <2>2, <2>3, <1>1, <1>2
    <2> QED BY <2>1, <2>2, <2>4, <1>1 DEF DayInv, StepsCount
  <1>4. CASE StepBack
    <2>1. /\ days < 0 /\ numDays > 0 /\ cur' = PrevDay(cur)
          /\ numDays' = numDays - 1 /\ start' = start /\ days' = days
      BY <1>4 DEF StepBack
    <2>2. Gone' = Gone - 1 /\ Gone \in Int /\ Gone = days + numDays
      BY <2>1, <1>1 DEF Gone
    <2>3. DayNumber(cur) > 1
      BY <2>1, <2>2, <1>1, <1>2
    <2>4. IsDate(cur') /\ DayNumber(cur) = DayNumber(cur') + 1
      BY <2>1, <2>3, <1>1, PrevDayCounts
    <2>5. DayNumber(cur') \in Int
      BY <2>4, NumberOfDate
    <2>6. DayNumber(cur') = DayNumber(start) + Gone'
      BY <2>2, <2>4, <2>5, <1>1, <1>2
    <2> QED BY <2>1, <2>4, <2>6, <1>1 DEF DayInv, StepsCount
  <1>5. CASE UNCHANGED dayVars
    BY <1>1, <1>5 DEF dayVars, DayInv, StepsCount, Gone
  <1> QED BY <1>3, <1>4, <1>5 DEF DayNext

(* From any date and for any count, inc_days and dec_days stay on real     *)
(* dates and move by one day at a time: the result is the right day.       *)
THEOREM StepsAlwaysCount == DaySpec => []StepsCount
  <1>1. DayInv => StepsCount
    BY DEF DayInv
  <1> QED BY DayInvInit, DayInvStep, <1>1, PTL DEF DaySpec

(* The way back from where the loop is leads to the date start: at the end *)
(* of the loop that is ThereAndBack.                                       *)
WayBack == start = IF days < 0 THEN IncDays(cur, 0 - Gone) ELSE DecDays(cur, Gone)

LEMMA WayBackInit == DayInit => WayBack
  <1> SUFFICES ASSUME DayInit PROVE WayBack
    OBVIOUS
  <1>1. days \in Int /\ cur = start
    BY YearsAssumption DEF DayInit
  <1>2. Gone = 0
    BY <1>1 DEF DayInit, Gone
  <1>3. IncDays(cur, 0) = cur /\ DecDays(cur, 0) = cur
    BY IncDaysOneMore, DecDaysOneMore
  <1> QED BY <1>1, <1>2, <1>3 DEF WayBack

LEMMA WayBackStep == DayInv /\ WayBack /\ [DayNext]_dayVars => WayBack'
  <1> SUFFICES ASSUME DayInv, WayBack, [DayNext]_dayVars PROVE WayBack'
    OBVIOUS
  <1>1. /\ days \in Int /\ numDays \in Nat
        /\ numDays <= IF days < 0 THEN -days ELSE days
        /\ IsDate(start) /\ DayNumber(start) + days > 0
        /\ IsDate(cur) /\ DayNumber(cur) = DayNumber(start) + Gone
    BY DEF DayInv, StepsCount
  <1>2. PICK c : c = cur
    OBVIOUS
  <1>3. PICK g \in Int : g = Gone
    BY <1>1 DEF Gone
  <1>4. CASE StepForward
    <2>1. /\ days > 0 /\ cur' = NextDay(c) /\ start' = start /\ days' = days
          /\ numDays' = numDays - 1
      BY <1>2, <1>4 DEF StepForward
    <2>2. g \in Nat /\ Gone' = g + 1 /\ start = DecDays(c, g)
      BY <2>1, <1>1, <1>2, <1>3, <1>4 DEF Gone, WayBack
    <2>3. DecDays(NextDay(c), g + 1) = DecDays(c, g)
      BY <2>2, <1>1, <1>2, <1>3, DecDaysStepFirst, BackUndoesForward
    <2>4. start' = DecDays(cur', Gone')
      BY <2>1, <2>2, <2>3
    <2> QED BY <1>1, <2>1, <2>4 DEF WayBack
  <1>5. CASE StepBack
    <2>1. /\ days < 0 /\ cur' = PrevDay(c) /\ start' = start /\ days' = days
          /\ numDays' = numDays - 1 /\ numDays > 0
      BY <1>2, <1>5 DEF StepBack
    <2>2. Gone' = g - 1 /\ 0 - (g - 1) = (0 - g) + 1 /\ start = IncDays(c, 0 - g)
      BY <2>1, <1>1, <1>2, <1>3 DEF Gone, WayBack
    <2>3. DayNumber(c) > 1 /\ 0 - g \in Nat
      BY <2>1, <1>1, <1>2, <1>3, NumberOfDate DEF Gone
    <2>4. IncDays(PrevDay(c), (0 - g) + 1) = IncDays(c, 0 - g)
      BY <2>3, <1>1, <1>2, <1>3, IncDaysStepFirst, ForwardUndoesBack
    <2>5. 0 - Gone' = (0 - g) + 1
      BY <2>2
    <2>6. start' = IncDays(cur', 0 - Gone')
      BY <2>1, <2>2, <2>4, <2>5
    <2> QED BY <1>1, <2>1, <2>6 DEF WayBack
  <1>6. CASE UNCHANGED dayVars
    BY <1>6 DEF dayVars, WayBack, Gone
  <1> QED BY <1>4, <1>5, <1>6 DEF DayNext

(* The end of inc_days is the date from which dec_days comes back, and the *)
(* other way round, for every date and count.                              *)
THEOREM AlwaysThereAndBack == DaySpec => []ThereAndBack
  <1>1. DayInv /\ WayBack => ThereAndBack
    <2> SUFFICES ASSUME DayInv, WayBack, numDays = 0
                 PROVE  start = IF days < 0 THEN IncDays(cur, -days)
                                ELSE DecDays(cur, days)
      BY DEF ThereAndBack
    <2>1. days \in Int
      BY DEF DayInv
    <2>2. Gone = days
      BY <2>1 DEF Gone
    <2>3. days < 0 => -days = 0 - days
      BY <2>1
    <2> QED BY <2>2, <2>3 DEF WayBack
  <1> QED BY DayInvInit, DayInvStep, WayBackInit, WayBackStep, <1>1, PTL DEF DaySpec
-----------------------------------------------------------------------------
Between(i, j) == [start |-> 24 * i - ZoneOffset, end |-> 24 * (j + 1) - ZoneOffset]

(* The number of the Sunday of the week of the day with the number n. *)
WeekStart(n) == n - ((n + 5) % 7)

(* The ranges of a day, a week, a month and a year, for any current day. *)
CurrentOn(d) == <<MakeRange(d, d), WeekOf(d), MonthOf(d.year, d.month), YearOf(d.year)>>
PreviousOn(d) ==
    <<MakeRange(DecDays(d, 1), DecDays(d, 1)), WeekOf(DecDays(d, 7)),
      IF d.month = 1 THEN MonthOf(d.year - 1, 12) ELSE MonthOf(d.year, d.month - 1),
      YearOf(d.year - 1)>>

(* The numbers of their first and last days, and of the first day of the   *)
(* range before.                                                           *)
FirstDay(d) == <<DayNumber(d), WeekStart(DayNumber(d)),
                 NumberOf(d.year, d.month, 1), NumberOf(d.year, 1, 1)>>
LastDay(d) == <<DayNumber(d), WeekStart(DayNumber(d)) + 6,
                NumberOf(d.year, d.month, DaysInMonth(d.year, d.month)),
                NumberOf(d.year, 12, 31)>>
DayBefore(d) ==
    <<DayNumber(d) - 1, WeekStart(DayNumber(d)) - 7,
      IF d.month = 1 THEN NumberOf(d.year - 1, 12, 1)
      ELSE NumberOf(d.year, d.month - 1, 1),
      NumberOf(d.year - 1, 1, 1)>>

(* The dates the clock can show. *)
Shown(d) == IsDate(d) /\ d.year >= 1
-----------------------------------------------------------------------------
LEMMA NumberType ==
    ASSUME NEW y \in Nat, NEW m \in 1..12, NEW n \in Int
    PROVE  NumberOf(y, m, n) \in Int
  <1>1. LeapDays(y) \in Int /\ BeforeMonth[m] \in Nat /\ LeapDay(y, m) \in 0..1
    BY PartTypes
  <1> QED BY <1>1 DEF NumberOf

LEMMA NumberTypes ==
    ASSUME NEW y \in Nat, NEW m \in 1..12
    PROVE  /\ NumberOf(y, m, 1) \in Int
           /\ NumberOf(y, m, DaysInMonth(y, m)) \in Int
           /\ NumberOf(y, 1, 1) \in Int
           /\ NumberOf(y, 12, 1) \in Int
           /\ NumberOf(y, 12, 31) \in Int
  <1>1. DaysInMonth(y, m) \in Int
    BY DayTypes
  <1>2. \A l \in 1..12, n \in Int : NumberOf(y, l, n) \in Int
    BY NumberType
  <1>3. 1 \in 1..12 /\ 12 \in 1..12 /\ 1 \in Int /\ 31 \in Int
    OBVIOUS
  <1> QED BY <1>1, <1>2, <1>3, Zenon

(* make_range includes its last day: the end is the midnight after it. *)
LEMMA RangeCounts ==
    ASSUME NEW a, NEW b, IsDate(a), IsDate(b)
    PROVE  MakeRange(a, b) = Between(DayNumber(a), DayNumber(b))
  <1>1. DayNumber(IncDays(b, 1)) = DayNumber(b) + 1
    BY IncDaysCount
  <1> QED BY <1>1 DEF MakeRange, Midnight, Between

(* A year has passed before the first day of the year 1. *)
LEMMA YearZeroPassed ==
    ASSUME NEW d, Shown(d)
    PROVE  DayNumber(d) > 365
  <1>1. PICK y \in Nat, m \in 1..12 : \E n \in 1..DaysInMonth(y, m) : d = Day(y, m, n)
    BY Parts DEF Shown
  <1>2. PICK n \in 1..DaysInMonth(y, m) : d = Day(y, m, n)
    BY <1>1
  <1>3. y >= 1
    BY <1>2 DEF Shown, Day
  <1>4. (y + 3) \div 4 - (y + 99) \div 100 + (y + 399) \div 400 >= 0
    BY <1>3, SMT
  <1>5. LeapDays(y) \in Nat
    BY <1>4, LeapStep DEF LeapDays
  <1>6. /\ BeforeMonth[m] \in Nat /\ LeapDay(y, m) \in 0..1
        /\ n \in Int /\ n >= 1
    BY PartTypes, DayTypes
  <1>7. NumberOf(y, m, n) > 365
    BY <1>3, <1>5, <1>6 DEF NumberOf
  <1> QED BY <1>2, <1>7, NumberOfDay

(* The week of a day begins at most six days before it, and the next week  *)
(* seven days after it.                                                    *)
LEMMA WeekStarts ==
    ASSUME NEW n \in Int
    PROVE  /\ (n + 5) % 7 \in 0..6 /\ WeekStart(n) \in Int
           /\ WeekStart(n) <= n /\ n <= WeekStart(n) + 6
           /\ WeekStart(n - 7) = WeekStart(n) - 7
           /\ WeekStart(n + 1) \in {WeekStart(n), WeekStart(n) + 7}
  <1>1. PICK j \in 0..6 : j = (n + 5) % 7
    BY SMT
  <1>2. ((n - 7) + 5) % 7 = j
    BY <1>1, SMT
  <1>3. PICK l \in 0..6 : l = ((n + 1) + 5) % 7
    BY SMT
  <1>4. l = j + 1 \/ (l = 0 /\ j = 6)
    BY <1>1, <1>3, SMT
  <1>5. /\ WeekStart(n) = n - j
        /\ WeekStart(n - 7) = (n - 7) - j
        /\ WeekStart(n + 1) = (n + 1) - l
    BY <1>1, <1>2, <1>3 DEF WeekStart
  <1> QED BY <1>1, <1>4, <1>5

LEMMA WeekdayCounts ==
    ASSUME NEW d, IsDate(d)
    PROVE  \E k \in 0..6 : /\ Weekday(d) - Sunday = k /\ Saturday - Weekday(d) = 6 - k
                          /\ WeekStart(DayNumber(d)) = DayNumber(d) - k
  <1>1. PICK n \in Int : n = DayNumber(d)
    BY NumberOfDate
  <1>2. PICK k \in 0..6 : k = (n + 5) % 7
    BY SMT
  <1>3. Weekday(d) = k + 1
    BY <1>1, <1>2 DEF Weekday
  <1>4. WeekStart(n) = n - k
    BY <1>2 DEF WeekStart
  <1> QED BY <1>1, <1>3, <1>4 DEF Sunday, Saturday

(* The week of a day, and of the day a week before it. *)
LEMMA WeekCounts ==
    ASSUME NEW d, IsDate(d), DayNumber(d) > 7
    PROVE  WeekOf(d) = Between(WeekStart(DayNumber(d)), WeekStart(DayNumber(d)) + 6)
  <1>1. PICK n \in Int : n = DayNumber(d) /\ n > 7
    BY NumberOfDate
  <1>2. PICK k \in 0..6 : /\ Weekday(d) - Sunday = k /\ Saturday - Weekday(d) = 6 - k
                          /\ WeekStart(n) = n - k
    BY <1>1, WeekdayCounts
  <1>3. k \in Nat /\ 6 - k \in Nat /\ n > k
    BY <1>1
  <1>4. /\ IsDate(DecDays(d, k)) /\ DayNumber(DecDays(d, k)) = n - k
        /\ IsDate(IncDays(d, 6 - k)) /\ DayNumber(IncDays(d, 6 - k)) = n + (6 - k)
    BY <1>1, <1>3, IncDaysCount, DecDaysCount
  <1>5. WeekOf(d) = Between(n - k, n + (6 - k))
    BY <1>2, <1>4, RangeCounts DEF WeekOf
  <1>6. n + (6 - k) = WeekStart(n) + 6
    BY <1>2
  <1> QED BY <1>1, <1>2, <1>5, <1>6

LEMMA MonthCounts ==
    ASSUME NEW y \in Nat, NEW m \in 1..12
    PROVE  MonthOf(y, m) = Between(NumberOf(y, m, 1), NumberOf(y, m, DaysInMonth(y, m)))
  <1>1. IsDate(Day(y, m, 1)) /\ IsDate(Day(y, m, DaysInMonth(y, m)))
    BY DayTypes, NumberOfDay
  <1> QED BY <1>1, RangeCounts, NumberOfDay DEF MonthOf

LEMMA YearCounts ==
    ASSUME NEW y \in Nat
    PROVE  YearOf(y) = Between(NumberOf(y, 1, 1), NumberOf(y, 12, 31))
  <1>1. 1 \in 1..DaysInMonth(y, 1) /\ 31 \in 1..DaysInMonth(y, 12)
    BY DayTypes
  <1>2. IsDate(Day(y, 1, 1)) /\ IsDate(Day(y, 12, 31))
    BY <1>1, NumberOfDay
  <1> QED BY <1>2, RangeCounts, NumberOfDay DEF YearOf

(* The parts of a date that the clock can show. *)
LEMMA ShownParts ==
    ASSUME NEW d, Shown(d)
    PROVE  /\ d.year \in Nat /\ d.year - 1 \in Nat /\ d.month \in 1..12
           /\ d.day \in 1..DaysInMonth(d.year, d.month) /\ d.day \in Int
           /\ DaysInMonth(d.year, d.month) \in 28..31
           /\ DayNumber(d) \in Int /\ DayNumber(d) > 365
           /\ d = Day(d.year, d.month, d.day)
  <1>1. /\ d.year \in Nat /\ d.year - 1 \in Nat /\ d.month \in 1..12
        /\ d.day \in 1..DaysInMonth(d.year, d.month)
        /\ d = Day(d.year, d.month, d.day)
    BY DEF Shown, IsDate
  <1>2. DaysInMonth(d.year, d.month) \in 28..31
    BY <1>1, DayTypes
  <1> QED BY <1>1, <1>2, NumberOfDate, YearZeroPassed DEF Shown
-----------------------------------------------------------------------------
(* The ranges lie between those days, and the one before ends on the day   *)
(* before the first.                                                       *)
LEMMA Spans ==
    ASSUME NEW d, Shown(d), NEW i \in 1..4
    PROVE  /\ FirstDay(d)[i] \in Int /\ LastDay(d)[i] \in Int /\ DayBefore(d)[i] \in Int
           /\ CurrentOn(d)[i] = Between(FirstDay(d)[i], LastDay(d)[i])
           /\ PreviousOn(d)[i] = Between(DayBefore(d)[i], FirstDay(d)[i] - 1)
  <1> DEFINE y == d.year
             m == d.month
             n == DayNumber(d)
  <1>0. /\ y \in Nat /\ y - 1 \in Nat /\ m \in 1..12 /\ n \in Int /\ n > 365
        /\ DaysInMonth(y, m) \in 28..31 /\ IsDate(d)
    BY ShownParts DEF Shown
  <1>1. CASE i = 1
    <2>1. IsDate(DecDays(d, 1)) /\ DayNumber(DecDays(d, 1)) = n - 1
      BY <1>0, DecDaysCount
    <2>2. MakeRange(d, d) = Between(n, n)
      BY <1>0, RangeCounts
    <2>3. MakeRange(DecDays(d, 1), DecDays(d, 1)) = Between(n - 1, n - 1)
      BY <2>1, RangeCounts
    <2> QED BY <1>0, <1>1, <2>2, <2>3 DEF CurrentOn, PreviousOn, FirstDay, LastDay, DayBefore
  <1>2. CASE i = 2
    <2>1. IsDate(DecDays(d, 7)) /\ DayNumber(DecDays(d, 7)) = n - 7
      BY <1>0, DecDaysCount
    <2>2. WeekOf(d) = Between(WeekStart(n), WeekStart(n) + 6)
      BY <1>0, WeekCounts
    <2>3. WeekOf(DecDays(d, 7)) = Between(WeekStart(n - 7), WeekStart(n - 7) + 6)
      BY <1>0, <2>1, WeekCounts
    <2>4. WeekStart(n - 7) = WeekStart(n) - 7 /\ WeekStart(n) \in Int
      BY <1>0, WeekStarts
    <2>5. WeekOf(DecDays(d, 7)) = Between(WeekStart(n) - 7, WeekStart(n) - 1)
      BY <2>3, <2>4
    <2> QED BY <1>2, <2>2, <2>4, <2>5
            DEF CurrentOn, PreviousOn, FirstDay, LastDay, DayBefore
  <1>3. CASE i = 3 /\ m = 1
    <2>1. MonthOf(y, m) = Between(NumberOf(y, m, 1), NumberOf(y, m, DaysInMonth(y, m)))
      BY <1>0, MonthCounts
    <2>2. MonthOf(y - 1, 12) = Between(NumberOf(y - 1, 12, 1), NumberOf(y - 1, 12, 31))
      BY <1>0, MonthCounts, DayTypes
    <2>3. NumberOf((y - 1) + 1, 1, 1) = NumberOf(y - 1, 12, 31) + 1 /\ (y - 1) + 1 = y
      BY <1>0, IntoYear
    <2>4. /\ NumberOf(y, m, 1) \in Int /\ NumberOf(y, m, DaysInMonth(y, m)) \in Int
          /\ NumberOf(y - 1, 12, 1) \in Int /\ NumberOf(y - 1, 12, 31) \in Int
      BY <1>0, NumberTypes
    <2>5. NumberOf(y - 1, 12, 31) = NumberOf(y, m, 1) - 1
      BY <1>3, <2>3, <2>4
    <2>6. MonthOf(y - 1, 12) = Between(NumberOf(y - 1, 12, 1), NumberOf(y, m, 1) - 1)
      BY <2>2, <2>5
    <2> QED BY <1>3, <2>1, <2>4, <2>6
            DEF CurrentOn, PreviousOn, FirstDay, LastDay, DayBefore
  <1>4. CASE i = 3 /\ m # 1
    <2>1. MonthOf(y, m) = Between(NumberOf(y, m, 1), NumberOf(y, m, DaysInMonth(y, m)))
      BY <1>0, MonthCounts
    <2>2. m - 1 \in 1..11 /\ m - 1 \in 1..12 /\ (m - 1) + 1 = m
      BY <1>0, <1>4
    <2>3. MonthOf(y, m - 1) = Between(NumberOf(y, m - 1, 1),
                                      NumberOf(y, m - 1, DaysInMonth(y, m - 1)))
      BY <1>0, <2>2, MonthCounts
    <2>4. NumberOf(y, m, 1) = NumberOf(y, m - 1, DaysInMonth(y, m - 1)) + 1
      BY <1>0, <2>2, IntoMonth
    <2>5. DaysInMonth(y, m - 1) \in 28..31
      BY <1>0, <2>2, DayTypes
    <2>6. /\ NumberOf(y, m, 1) \in Int /\ NumberOf(y, m, DaysInMonth(y, m)) \in Int
          /\ NumberOf(y, m - 1, 1) \in Int
          /\ NumberOf(y, m - 1, DaysInMonth(y, m - 1)) \in Int
      BY <1>0, <2>2, NumberTypes
    <2>7. NumberOf(y, m - 1, DaysInMonth(y, m - 1)) = NumberOf(y, m, 1) - 1
      BY <2>4, <2>6
    <2>8. MonthOf(y, m - 1) = Between(NumberOf(y, m - 1, 1), NumberOf(y, m, 1) - 1)
      BY <2>3, <2>7
    <2> QED BY <1>4, <2>1, <2>6, <2>8
            DEF CurrentOn, PreviousOn, FirstDay, LastDay, DayBefore
  <1>5. CASE i = 4
    <2>1. /\ YearOf(y) = Between(NumberOf(y, 1, 1), NumberOf(y, 12, 31))
          /\ YearOf(y - 1) = Between(NumberOf(y - 1, 1, 1), NumberOf(y - 1, 12, 31))
      BY <1>0, YearCounts
    <2>2. NumberOf((y - 1) + 1, 1, 1) = NumberOf(y - 1, 12, 31) + 1 /\ (y - 1) + 1 = y
      BY <1>0, IntoYear
    <2>3. /\ NumberOf(y, 1, 1) \in Int /\ NumberOf(y, 12, 31) \in Int
          /\ NumberOf(y - 1, 1, 1) \in Int /\ NumberOf(y - 1, 12, 31) \in Int
      BY <1>0, NumberTypes
    <2>4. NumberOf(y - 1, 12, 31) = NumberOf(y, 1, 1) - 1
      BY <2>2, <2>3
    <2>5. YearOf(y - 1) = Between(NumberOf(y - 1, 1, 1), NumberOf(y, 1, 1) - 1)
      BY <2>1, <2>4
    <2> QED BY <1>5, <2>1, <2>3, <2>5
            DEF CurrentOn, PreviousOn, FirstDay, LastDay, DayBefore
  <1> QED BY <1>1, <1>2, <1>3, <1>4, <1>5

(* A date lies between the first and the last day of its ranges. *)
LEMMA SpansHold ==
    ASSUME NEW d, Shown(d), NEW i \in 1..4
    PROVE  FirstDay(d)[i] <= DayNumber(d) /\ DayNumber(d) <= LastDay(d)[i]
  <1> DEFINE y == d.year
             m == d.month
             k == d.day
             n == DayNumber(d)
             leap == IF IsLeapYear(y) THEN 1 ELSE 0
  <1>0. /\ y \in Nat /\ m \in 1..12 /\ k \in 1..DaysInMonth(y, m) /\ k \in Int
        /\ DaysInMonth(y, m) \in 28..31 /\ n \in Int
    BY ShownParts
  <1>1. n = NumberOf(y, m, k)
    BY DEF DayNumber
  <1>2. /\ LeapDays(y) \in Int /\ BeforeMonth[m] \in Nat /\ LeapDay(y, m) \in 0..1
    BY <1>0, PartTypes
  <1>3. NumberOf(y, m, 1) <= n /\ n <= NumberOf(y, m, DaysInMonth(y, m))
    <2> HIDE DEF y, m, k, n
    <2> QED BY <1>0, <1>1, <1>2 DEF NumberOf
  <1>4. WeekStart(n) <= n /\ n <= WeekStart(n) + 6
    BY <1>0, WeekStarts
  <1>5. LeapDay(y, 1) = 0 /\ LeapDay(y, 12) = leap /\ leap \in 0..1
    BY DEF LeapDay, IsLeapYear
  <1>6. BeforeMonth[12] = 334 /\ BeforeMonth[1] = 0
    BY <1>0, DayTypes
  <1>7. BeforeMonth[m] + LeapDay(y, m) + DaysInMonth(y, m) <= 365 + leap
    <2>1. LeapDay(y, m) = IF m > 2 THEN leap ELSE 0
      BY DEF LeapDay, IsLeapYear
    <2>2. m \in {1, 2, 3, 4, 5, 6, 7, 8, 9, 10, 11, 12}
      BY <1>0
    <2> QED BY <2>1, <2>2 DEF BeforeMonth, DaysInMonth
  <1>8. NumberOf(y, 1, 1) <= n /\ n <= NumberOf(y, 12, 31)
    <2> HIDE DEF y, m, k, n, leap
    <2> QED BY <1>0, <1>1, <1>2, <1>5, <1>6, <1>7 DEF NumberOf
  <1> QED BY <1>0, <1>3, <1>4, <1>8 DEF FirstDay, LastDay

(* The next day is in the same range, or on the first day of the next. *)
LEMMA SpansAdvance ==
    ASSUME NEW d, Shown(d), NEW i \in 1..4
    PROVE  LET e == NextDay(d) IN
           \/ /\ FirstDay(e)[i] = FirstDay(d)[i] /\ LastDay(e)[i] = LastDay(d)[i]
              /\ DayBefore(e)[i] = DayBefore(d)[i]
           \/ FirstDay(e)[i] = LastDay(d)[i] + 1 /\ DayBefore(e)[i] = FirstDay(d)[i]
  <1> DEFINE y == d.year
             m == d.month
             k == d.day
             n == DayNumber(d)
             e == NextDay(d)
  <1>0. /\ y \in Nat /\ m \in 1..12 /\ k \in 1..DaysInMonth(y, m) /\ k \in Int
        /\ DaysInMonth(y, m) \in 28..31 /\ n \in Int
        /\ d = Day(y, m, k) /\ DaysInMonth(y, 12) = 31
    BY ShownParts, DayTypes
  <1>1. DayNumber(e) = n + 1
    BY NextDayCounts DEF Shown
  <1>2. CASE i = 1
    BY <1>0, <1>1, <1>2 DEF FirstDay, LastDay, DayBefore
  <1>3. CASE i = 2
    <2>1. \/ WeekStart(n + 1) = WeekStart(n)
          \/ WeekStart(n + 1) = WeekStart(n) + 7
      BY <1>0, WeekStarts
    <2>2. WeekStart(n) \in Int
      BY <1>0, WeekStarts
    <2> QED BY <1>1, <1>3, <2>1, <2>2 DEF FirstDay, LastDay, DayBefore
  <1>4. CASE i \in {3, 4} /\ k + 1 <= DaysInMonth(y, m)
    <2>1. e = Day(y, m, k + 1)
      BY <1>4 DEF NextDay
    <2>2. e.year = y /\ e.month = m
      BY <2>1 DEF Day
    <2> QED BY <1>4, <2>2 DEF FirstDay, LastDay, DayBefore
  <1>5. CASE i \in {3, 4} /\ k + 1 > DaysInMonth(y, m) /\ m < 12
    <2>1. e = Day(y, m + 1, 1)
      BY <1>0, <1>5 DEF NextDay
    <2>2. e.year = y /\ e.month = m + 1
      BY <2>1 DEF Day
    <2>3. NumberOf(y, m + 1, 1) = NumberOf(y, m, DaysInMonth(y, m)) + 1
      BY <1>0, <1>5, IntoMonth
    <2>4. m + 1 # 1 /\ (m + 1) - 1 = m
      BY <1>0
    <2> QED BY <1>5, <2>2, <2>3, <2>4 DEF FirstDay, LastDay, DayBefore
  <1>6. CASE i \in {3, 4} /\ k + 1 > DaysInMonth(y, m) /\ m = 12
    <2>1. e = Day(y + 1, 1, 1)
      BY <1>0, <1>6 DEF NextDay
    <2>2. e.year = y + 1 /\ e.month = 1
      BY <2>1 DEF Day
    <2>3. NumberOf(y + 1, 1, 1) = NumberOf(y, 12, 31) + 1 /\ (y + 1) - 1 = y
      BY <1>0, IntoYear
    <2> QED BY <1>0, <1>6, <2>2, <2>3 DEF FirstDay, LastDay, DayBefore
  <1> QED BY <1>0, <1>2, <1>3, <1>4, <1>5, <1>6

(* The clock keeps to dates of the year 1 and later. *)
LEMMA NextDayShown ==
    ASSUME NEW d, Shown(d)
    PROVE  Shown(NextDay(d))
  <1>1. IsDate(NextDay(d))
    BY NextDayCounts DEF Shown
  <1>2. NextDay(d).year \in {d.year, d.year + 1}
    BY DEF NextDay, Day
  <1> QED BY <1>1, <1>2 DEF Shown, IsDate
-----------------------------------------------------------------------------
ClockInv == Shown(today) /\ hour \in 0..23

LEMMA RangesAre ==
    /\ Current = CurrentOn(today) /\ Previous = PreviousOn(today)
    /\ Current' = CurrentOn(today') /\ Previous' = PreviousOn(today')
  BY DEF Current, Previous, CurrentOn, PreviousOn, Today, ThisWeek, ThisMonth, ThisYear,
         Yesterday, LastWeek, LastMonth, LastYear

LEMMA InitClock == Init => ClockInv
  BY StartsAssumption DEF Init, ClockInv, Shown

LEMMA TickClock == ClockInv /\ [Next]_vars => ClockInv'
  <1> SUFFICES ASSUME ClockInv, [Next]_vars PROVE ClockInv'
    OBVIOUS
  <1>1. CASE UNCHANGED vars
    BY <1>1 DEF ClockInv, vars
  <1>2. CASE Tick /\ hour < 23 /\ hour' = hour + 1 /\ UNCHANGED today
    BY <1>2 DEF ClockInv
  <1>3. CASE Tick /\ hour = 23 /\ hour' = 0 /\ today' = NextDay(today)
    <2>1. Shown(NextDay(today))
      BY NextDayShown DEF ClockInv
    <2> QED BY <1>3, <2>1 DEF ClockInv
  <1> QED BY <1>1, <1>2, <1>3 DEF Next, Tick

LEMMA ClockAlways == Spec => []ClockInv
  BY InitClock, TickClock, PTL DEF Spec

(* On every date, yesterday, last week, last month and last year end where *)
(* today, this week, this month and this year start.                       *)
THEOREM RangesAlwaysTile == Spec => []RangesTile
  <1>1. ClockInv => RangesTile
    <2> SUFFICES ASSUME ClockInv, NEW i \in 1..4
                 PROVE  Previous[i].end = Current[i].start
      BY DEF RangesTile
    <2>1. /\ FirstDay(today)[i] \in Int
          /\ Current[i] = Between(FirstDay(today)[i], LastDay(today)[i])
          /\ Previous[i] = Between(DayBefore(today)[i], FirstDay(today)[i] - 1)
      BY Spans, RangesAre DEF ClockInv
    <2> QED BY <2>1 DEF Between
  <1> QED BY <1>1, ClockAlways, PTL

(* The current day, week, month and year hold the current instant, as long *)
(* as it is the same day in the zone as on the machine.                    *)
THEOREM NowAlwaysInRange == Spec => []NowIsInRange
  <1>1. ClockInv => NowIsInRange
    <2> SUFFICES ASSUME ClockInv, SameDay, NEW i \in 1..4
                 PROVE  /\ Current[i].start <= Now
                        /\ Now < Current[i].end
      BY DEF NowIsInRange
    <2>1. PICK a, b, n : a = FirstDay(today)[i] /\ b = LastDay(today)[i]
                           /\ n = DayNumber(today)
      OBVIOUS
    <2>2. a \in Int /\ b \in Int /\ Current[i] = Between(a, b)
      BY <2>1, Spans, RangesAre DEF ClockInv
    <2>3. n \in Int /\ a <= n /\ n <= b
      BY <2>1, SpansHold, ShownParts DEF ClockInv
    <2>4. PICK t : t = Now + ZoneOffset
      OBVIOUS
    <2>5. t \in Int /\ Now = t - ZoneOffset /\ n = t \div 24
      BY <2>1, <2>3, <2>4, OffsetsAssumption DEF Now, SameDay, ClockInv
    <2>6. 24 * n <= t /\ t < 24 * (n + 1)
      BY <2>3, <2>5
    <2> QED BY <2>2, <2>3, <2>5, <2>6, OffsetsAssumption DEF Between
  <1> QED BY <1>1, ClockAlways, PTL

(* As time passes a range stays what it is, or becomes the previous one    *)
(* while the next begins at its end: no day, week, month or year is left   *)
(* out or entered twice.                                                   *)
THEOREM RangesAlwaysAdvance == Spec => RangesAdvance
  <1> DEFINE Advance ==
        \A i \in 1..4 : \/ Current'[i] = Current[i] /\ Previous'[i] = Previous[i]
                        \/ /\ Current'[i].start = Current[i].end
                           /\ Previous'[i] = Current[i]
  <1>1. ClockInv /\ [Next]_vars => [Advance]_vars
    <2> SUFFICES ASSUME ClockInv, Tick, NEW i \in 1..4
                 PROVE  \/ Current'[i] = Current[i] /\ Previous'[i] = Previous[i]
                        \/ /\ Current'[i].start = Current[i].end
                           /\ Previous'[i] = Current[i]
      BY DEF Next
    <2>1. PICK d, e : d = today /\ e = today'
      OBVIOUS
    <2>2. /\ Current = CurrentOn(d) /\ Previous = PreviousOn(d)
          /\ Current' = CurrentOn(e) /\ Previous' = PreviousOn(e)
      BY <2>1, RangesAre
    <2>3. CASE hour < 23 /\ hour' = hour + 1 /\ UNCHANGED today
      BY <2>1, <2>2, <2>3
    <2>4. CASE hour = 23 /\ hour' = 0 /\ today' = NextDay(today)
      <3>1. e = NextDay(d) /\ Shown(d) /\ Shown(e)
        BY <2>1, <2>4, NextDayShown DEF ClockInv
      <3>2. /\ LastDay(d)[i] \in Int
            /\ CurrentOn(d)[i] = Between(FirstDay(d)[i], LastDay(d)[i])
            /\ PreviousOn(d)[i] = Between(DayBefore(d)[i], FirstDay(d)[i] - 1)
        BY <3>1, Spans
      <3>3. /\ CurrentOn(e)[i] = Between(FirstDay(e)[i], LastDay(e)[i])
            /\ PreviousOn(e)[i] = Between(DayBefore(e)[i], FirstDay(e)[i] - 1)
        BY <3>1, Spans
      <3>4. \/ /\ FirstDay(e)[i] = FirstDay(d)[i] /\ LastDay(e)[i] = LastDay(d)[i]
               /\ DayBefore(e)[i] = DayBefore(d)[i]
            \/ FirstDay(e)[i] = LastDay(d)[i] + 1 /\ DayBefore(e)[i] = FirstDay(d)[i]
        BY <3>1, SpansAdvance
      <3>5. CASE /\ FirstDay(e)[i] = FirstDay(d)[i] /\ LastDay(e)[i] = LastDay(d)[i]
                 /\ DayBefore(e)[i] = DayBefore(d)[i]
        BY <2>2, <3>2, <3>3, <3>5
      <3>6. CASE FirstDay(e)[i] = LastDay(d)[i] + 1 /\ DayBefore(e)[i] = FirstDay(d)[i]
        <4>1. FirstDay(e)[i] - 1 = LastDay(d)[i]
          BY <3>2, <3>6
        <4>2. PreviousOn(e)[i] = CurrentOn(d)[i]
          BY <3>2, <3>3, <3>6, <4>1
        <4>3. CurrentOn(e)[i].start = CurrentOn(d)[i].end
          BY <3>2, <3>3, <3>6 DEF Between
        <4> QED BY <2>2, <4>2, <4>3
      <3> QED BY <3>4, <3>5, <3>6
    <2> QED BY <2>3, <2>4 DEF Tick
  <1>2. Spec => [][Advance]_vars
    BY <1>1, ClockAlways, PTL DEF Spec
  <1> QED BY <1>2 DEF RangesAdvance
-----------------------------------------------------------------------------
Length == Len(given)
Hits == Erased(given, victims)
Kept == DOMAIN given \ Hits

(* How many have been erased, and how many elements of the vector as it    *)
(* was the iterator has passed: each erased one makes it pass two.         *)
Gap == Length - size
Passed == it - 1 + Gap

(* From the iterator on the storage holds the vector, moved down by the    *)
(* gap, and then its last element again and again.  Before the iterator    *)
(* lies what the loop has kept, as long as it is inside the vector; once   *)
(* it is past its end, what is left of the vector is all that is kept.     *)
StorageInv ==
    /\ \A j \in it..Length : slots[j] = IF j + Gap <= Length THEN given[j + Gap]
                                       ELSE given[Length]
    /\ Passed <= Length => SubSeq(slots, 1, it - 1) = Collected(given, Kept, Passed)
    /\ Passed >= Length => Held = Selected(given, Kept)

(* The gap is open as soon as something has been erased; and behind the    *)
(* end the iterator only ever meets the last element, which it can pass    *)
(* only if that is no victim, or if it has just been erased inside.        *)
HitsInv ==
    /\ Gap = 0 <=> \A j \in 1..Length : j <= Passed => j \notin Hits
    /\ Passed <= Length => Passed \notin Hits
    /\ Passed > Length => \/ given[Length] \notin victims
                          \/ Length \in Hits /\ Passed = Length + 1
    /\ Hits \subseteq {Length} => Gap = 0 \/ it = Length + 1
    /\ Gap = 1 /\ Length \in Hits /\ Passed > Length => Hits = {Length}

LoopInv ==
    /\ given \in Seq(Elems) /\ victims \subseteq Elems
    /\ slots \in [1..Length -> Elems]
    /\ size \in 0..Length /\ it \in 1..Length + 1 /\ overrun \in BOOLEAN
    /\ IF overrun THEN OverrunsEnd(given, victims) ELSE StorageInv /\ HitsInv
-----------------------------------------------------------------------------
LEMMA HitsPlaces ==
    ASSUME given \in Seq(Elems)
    PROVE  /\ Hits \subseteq 1..Length
           /\ \A j \in 1..Length : j \in Hits <=> given[j] \in victims /\ j - 1 \notin Hits
           /\ \A j \in 1..Length : j \in Kept <=> j \notin Hits
  BY ErasedPlaces DEF Hits, Length, Kept

LEMMA LoopInit == EraseInit => LoopInv
  <1> SUFFICES ASSUME EraseInit PROVE LoopInv
    OBVIOUS
  <1>1. /\ given \in Seq(Elems) /\ victims \subseteq Elems
        /\ Length \in Nat /\ slots = given /\ size = Length /\ it = 1 /\ overrun = FALSE
    BY DEF EraseInit, Length
  <1>2. slots \in [1..Length -> Elems] /\ size \in 0..Length /\ it \in 1..Length + 1
    BY <1>1 DEF Length
  <1>3. Gap = 0 /\ Passed = 0
    BY <1>1 DEF Gap, Passed
  <1>4. StorageInv
    <2>1. \A j \in it..Length : slots[j] = IF j + Gap <= Length THEN given[j + Gap]
                                           ELSE given[Length]
      BY <1>1, <1>3
    <2>2. SubSeq(slots, 1, it - 1) = <<>> /\ SubSeq(slots, 1, 0) = <<>>
      BY <1>1
    <2>3. Collected(given, Kept, 0) = <<>>
      BY CollectedOneMore
    <2>4. Passed >= Length => Held = Selected(given, Kept)
      <3> SUFFICES ASSUME Length = 0 PROVE Held = Selected(given, Kept)
        BY <1>1, <1>3
      <3>1. Held = <<>> /\ Selected(given, Kept) = Collected(given, Kept, 0)
        BY <1>1, <2>2 DEF Held, Selected, Length
      <3> QED BY <2>3, <3>1
    <2> QED BY <1>3, <2>1, <2>2, <2>3, <2>4 DEF StorageInv
  <1>5. HitsInv
    <2>1. 0 \notin Hits
      BY <1>1, HitsPlaces
    <2> QED BY <1>1, <1>3, <2>1 DEF HitsInv
  <1> QED BY <1>1, <1>2, <1>4, <1>5 DEF LoopInv
-----------------------------------------------------------------------------
LEMMA KeepInv ==
    ASSUME LoopInv, Keep
    PROVE  LoopInv'
  <1>1. /\ given \in Seq(Elems) /\ victims \subseteq Elems
        /\ slots \in [1..Length -> Elems] /\ slots \in Seq(Elems) /\ Len(slots) = Length
        /\ Length \in Nat /\ size \in 0..Length /\ it \in 1..Length
        /\ overrun = FALSE /\ StorageInv /\ HitsInv
    BY DEF LoopInv, Keep, Running, Length
  <1>2. /\ it' = it + 1 /\ slots[it] \notin victims
        /\ UNCHANGED <<given, victims, slots, size, overrun>>
    BY DEF Keep
  <1>3. /\ Length' = Length /\ Hits' = Hits /\ Kept' = Kept /\ Held' = Held
        /\ Gap \in Nat /\ Gap' = Gap /\ Passed \in Nat /\ Passed' = Passed + 1
        /\ Passed = it - 1 + Gap /\ Gap = Length - size
    BY <1>1, <1>2 DEF Length, Hits, Kept, Held, Gap, Passed
  <1>4. Passed < Length => /\ slots[it] = given[Passed + 1]
                           /\ Passed + 1 \notin Hits /\ Passed + 1 \in Kept
    <2> SUFFICES ASSUME Passed < Length
                 PROVE  /\ slots[it] = given[Passed + 1]
                        /\ Passed + 1 \notin Hits /\ Passed + 1 \in Kept
      OBVIOUS
    <2>1. it + Gap <= Length /\ it + Gap = Passed + 1 /\ it \in it..Length
      BY <1>1, <1>3
    <2>2. slots[it] = given[Passed + 1]
      BY <1>1, <2>1 DEF StorageInv
    <2> QED BY <1>1, <1>2, <1>3, <2>2, HitsPlaces
  <1>5. Passed >= Length => slots[it] = given[Length] /\ given[Length] \notin victims
    <2> SUFFICES ASSUME Passed >= Length PROVE slots[it] = given[Length]
      BY <1>2
    <2>1. ~(it + Gap <= Length) /\ it \in it..Length
      BY <1>1, <1>3
    <2> QED BY <1>1, <2>1 DEF StorageInv
  <1>6. StorageInv'
    <2>1. \A j \in it'..Length : slots[j] = IF j + Gap <= Length THEN given[j + Gap]
                                            ELSE given[Length]
      BY <1>1, <1>2 DEF StorageInv
    <2>2. Passed < Length => SubSeq(slots, 1, it) = Collected(given, Kept, Passed + 1)
      <3> SUFFICES ASSUME Passed < Length
                   PROVE  SubSeq(slots, 1, it) = Collected(given, Kept, Passed + 1)
        OBVIOUS
      <3>1. PICK m \in Nat : m = it - 1 /\ it = m + 1 /\ m + 1 <= Len(slots)
        BY <1>1
      <3>2. SubSeq(slots, 1, m + 1) = Append(SubSeq(slots, 1, m), slots[m + 1])
        BY <1>1, <3>1, PrefixOneMore
      <3>3. SubSeq(slots, 1, m) = Collected(given, Kept, Passed)
        BY <1>1, <1>3, <3>1 DEF StorageInv
      <3>4. \A k \in Nat : Collected(given, Kept, k + 1)
                            = IF k + 1 \in Kept THEN Append(Collected(given, Kept, k), given[k + 1])
                              ELSE Collected(given, Kept, k)
        BY CollectedOneMore
      <3>5. Collected(given, Kept, Passed + 1)
              = Append(Collected(given, Kept, Passed), given[Passed + 1])
        BY <1>3, <1>4, <3>4
      <3> QED BY <1>4, <3>1, <3>2, <3>3, <3>5
    <2>3. Passed + 1 >= Length => Held = Selected(given, Kept)
      <3>1. CASE Passed >= Length
        BY <1>1, <3>1 DEF StorageInv
      <3>2. CASE Passed + 1 = Length
        <4>1. it = size
          BY <1>1, <1>3, <3>2
        <4>2. Selected(given, Kept) = Collected(given, Kept, Passed + 1)
          BY <3>2 DEF Selected, Length
        <4> QED BY <1>1, <1>3, <2>2, <3>2, <4>1, <4>2 DEF Held
      <3> QED BY <1>1, <1>3, <3>1, <3>2
    <2> QED BY <1>1, <1>2, <1>3, <2>1, <2>2, <2>3 DEF StorageInv
  <1>7. HitsInv'
    <2>1. (Gap = 0)' <=> \A j \in 1..Length : j <= Passed + 1 => j \notin Hits
      BY <1>1, <1>3, <1>4 DEF HitsInv
    <2> QED BY <1>1, <1>2, <1>3, <1>4, <1>5, <2>1 DEF HitsInv
  <1> QED BY <1>1, <1>2, <1>3, <1>6, <1>7 DEF LoopInv

(* Erasing inside the vector: the element after the erased one moves into  *)
(* its slot and is passed with it.                                         *)
LEMMA EraseInsideInv ==
    ASSUME LoopInv, Erase, it <= size
    PROVE  LoopInv'
  <1>1. /\ given \in Seq(Elems) /\ victims \subseteq Elems
        /\ slots \in [1..Length -> Elems] /\ slots \in Seq(Elems) /\ Len(slots) = Length
        /\ Length \in Nat /\ size \in 1..Length /\ it \in 1..size
        /\ overrun = FALSE /\ StorageInv /\ HitsInv
    BY DEF LoopInv, Erase, Running, Length
  <1>2. /\ it' = it + 1 /\ slots[it] \in victims /\ size' = size - 1
        /\ slots' = [j \in 1..Length |-> IF it <= j /\ j < size THEN slots[j + 1]
                                         ELSE slots[j]]
        /\ UNCHANGED <<given, victims, overrun>>
    BY <1>1 DEF Erase
  <1>3. /\ Length' = Length /\ Hits' = Hits /\ Kept' = Kept
        /\ Gap \in Nat /\ Gap' = Gap + 1 /\ Passed \in Nat /\ Passed' = Passed + 2
        /\ Passed = it - 1 + Gap /\ Gap = Length - size /\ Passed < Length
    BY <1>1, <1>2 DEF Length, Hits, Kept, Gap, Passed
  <1>4. slots' \in [1..Length -> Elems] /\ slots' \in Seq(Elems) /\ Len(slots') = Length
    <2>1. \A j \in 1..Length : it <= j /\ j < size => j + 1 \in 1..Length
      BY <1>1
    <2>2. slots' \in [1..Length -> Elems]
      BY <1>1, <1>2, <2>1
    <2> QED BY <1>1, <2>2
  <1>5. /\ slots[it] = given[Passed + 1] /\ Passed + 1 \in 1..Length
        /\ Passed + 1 \in Hits /\ Passed + 1 \notin Kept
    <2>1. it + Gap <= Length /\ it + Gap = Passed + 1 /\ it \in it..Length
      BY <1>1, <1>3
    <2>2. slots[it] = given[Passed + 1]
      BY <1>1, <2>1 DEF StorageInv
    <2>3. Passed \notin Hits /\ Passed + 1 \in 1..Length /\ (Passed + 1) - 1 = Passed
      BY <1>1, <1>3 DEF HitsInv
    <2> QED BY <1>1, <1>2, <2>2, <2>3, HitsPlaces
  <1>6. Passed + 2 <= Length => /\ slots'[it] = given[Passed + 2]
                               /\ Passed + 2 \notin Hits /\ Passed + 2 \in Kept
    <2> SUFFICES ASSUME Passed + 2 <= Length
                 PROVE  /\ slots'[it] = given[Passed + 2]
                        /\ Passed + 2 \notin Hits /\ Passed + 2 \in Kept
      OBVIOUS
    <2>1. /\ it < size /\ it + 1 + Gap <= Length /\ it + 1 + Gap = Passed + 2
          /\ it \in 1..Length /\ it + 1 \in it..Length
      BY <1>1, <1>3
    <2>2. slots'[it] = slots[it + 1] /\ slots[it + 1] = given[Passed + 2]
      BY <1>1, <1>2, <2>1 DEF StorageInv
    <2>3. Passed + 2 \in 1..Length /\ (Passed + 2) - 1 = Passed + 1
      BY <1>3
    <2> QED BY <1>1, <1>5, <2>2, <2>3, HitsPlaces
  <1>7. \A k \in Nat : Collected(given, Kept, k + 1)
                        = IF k + 1 \in Kept THEN Append(Collected(given, Kept, k), given[k + 1])
                          ELSE Collected(given, Kept, k)
    BY CollectedOneMore
  <1>8. /\ SubSeq(slots', 1, it - 1) = Collected(given, Kept, Passed + 1)
        /\ Passed + 2 <= Length => SubSeq(slots', 1, it) = Collected(given, Kept, Passed + 2)
    <2>1. PICK m \in Nat : m = it - 1 /\ it = m + 1 /\ m + 1 <= Length
      BY <1>1
    <2>2. \A j \in 1..m : slots'[j] = slots[j]
      BY <1>1, <1>2, <2>1
    <2>3. SubSeq(slots', 1, m) = SubSeq(slots, 1, m)
      BY <1>1, <1>4, <2>1, <2>2, PrefixSame
    <2>4. SubSeq(slots, 1, m) = Collected(given, Kept, Passed)
      BY <1>1, <1>3, <2>1 DEF StorageInv
    <2>5. Collected(given, Kept, Passed + 1) = Collected(given, Kept, Passed)
      BY <1>3, <1>5, <1>7
    <2>6. SubSeq(slots', 1, m + 1) = Append(SubSeq(slots', 1, m), slots'[m + 1])
      BY <1>4, <2>1, PrefixOneMore
    <2>7. Passed + 2 <= Length
            => Collected(given, Kept, Passed + 2)
                 = Append(Collected(given, Kept, Passed + 1), given[Passed + 2])
      <3>1. Passed + 1 \in Nat /\ (Passed + 1) + 1 = Passed + 2
        BY <1>3
      <3> QED BY <1>6, <1>7, <3>1
    <2> QED BY <1>6, <2>1, <2>3, <2>4, <2>5, <2>6, <2>7
  <1>9. StorageInv'
    <2>1. ASSUME NEW j \in it + 1..Length
          PROVE  slots'[j] = IF j + (Gap + 1) <= Length THEN given[j + (Gap + 1)]
                             ELSE given[Length]
      <3>1. CASE j < size
        <4>1. slots'[j] = slots[j + 1] /\ j + 1 \in it..Length /\ (j + 1) + Gap = j + (Gap + 1)
          BY <1>1, <1>2, <1>3, <3>1
        <4> QED BY <1>1, <4>1 DEF StorageInv
      <3>2. CASE j >= size
        <4>1. slots'[j] = slots[j] /\ j \in it..Length /\ ~(j + (Gap + 1) <= Length)
          BY <1>1, <1>2, <1>3, <3>2
        <4>2. slots[j] = IF j + Gap <= Length THEN given[j + Gap] ELSE given[Length]
          BY <1>1, <4>1 DEF StorageInv
        <4>3. j + Gap <= Length => j + Gap = Length
          BY <1>1, <1>3, <3>2
        <4> QED BY <4>1, <4>2, <4>3
      <3> QED BY <1>1, <3>1, <3>2
    <2>2. Passed + 2 >= Length => SubSeq(slots', 1, size - 1) = Selected(given, Kept)
      <3>1. CASE Passed + 2 = Length
        <4>1. it = size - 1
          BY <1>1, <1>3, <3>1
        <4>2. Selected(given, Kept) = Collected(given, Kept, Passed + 2)
          BY <3>1 DEF Selected, Length
        <4> QED BY <1>8, <1>1, <1>3, <3>1, <4>1, <4>2
      <3>2. CASE Passed + 1 = Length
        <4>1. it = size
          BY <1>1, <1>3, <3>2
        <4>2. Selected(given, Kept) = Collected(given, Kept, Passed + 1)
          BY <3>2 DEF Selected, Length
        <4> QED BY <1>8, <4>1, <4>2
      <3> QED BY <1>1, <1>3, <3>1, <3>2
    <2>3. (it + 1) - 1 = it
      BY <1>1
    <2> QED BY <1>1, <1>2, <1>3, <1>8, <2>1, <2>2, <2>3 DEF StorageInv, Held
  <1>10. HitsInv'
    <2>1. ~(Gap + 1 = 0) /\ Passed + 1 \in 1..Length /\ Passed + 1 <= Passed + 2
          /\ Passed + 1 \in Hits
      BY <1>3, <1>5
    <2>2. Passed + 2 > Length => Passed + 1 = Length
      BY <1>1, <1>3
    <2>3. Hits \subseteq {Length} => it + 1 = Length + 1
      <3> SUFFICES ASSUME Hits \subseteq {Length} PROVE it = Length
        BY <1>1
      <3>1. Passed + 1 = Length
        BY <1>5
      <3> QED BY <1>1, <1>3, <3>1 DEF HitsInv
    <2>4. Gap + 1 = 1 /\ Passed + 2 > Length => Hits = {Length}
      <3> SUFFICES ASSUME Gap = 0, Passed + 1 = Length PROVE Hits = {Length}
        BY <1>3, <2>2
      <3>1. \A j \in 1..Length : j <= Passed => j \notin Hits
        BY <1>1 DEF HitsInv
      <3>2. \A j \in 1..Length : j # Length => j <= Passed
        BY <1>1, <1>3
      <3>3. Hits \subseteq 1..Length
        BY <1>1, HitsPlaces
      <3> QED BY <1>5, <3>1, <3>2, <3>3
    <2> QED BY <1>1, <1>2, <1>3, <1>6, <2>1, <2>2, <2>3, <2>4 DEF HitsInv
  <1>11. /\ given' \in Seq(Elems) /\ victims' \subseteq Elems /\ slots' \in [1..Length' -> Elems]
         /\ overrun' = FALSE
    BY <1>1, <1>2, <1>3, <1>4, Zenon
  <1>12. size' \in 0..Length' /\ it' \in 1..Length' + 1
    BY <1>1, <1>2, <1>3
  <1> QED BY <1>9, <1>10, <1>11, <1>12 DEF LoopInv

(* Erasing behind the end: the last element is a victim, and something     *)
(* else than it has been erased before.                                    *)
LEMMA EraseBehindInv ==
    ASSUME LoopInv, Erase, it > size
    PROVE  LoopInv'
  <1>1. /\ given \in Seq(Elems) /\ victims \subseteq Elems
        /\ slots \in [1..Length -> Elems]
        /\ Length \in Nat /\ size \in 0..Length /\ it \in 1..Length
        /\ overrun = FALSE /\ StorageInv /\ HitsInv
    BY DEF LoopInv, Erase, Running, Length
  <1>2. /\ it' = it + 1 /\ slots[it] \in victims /\ overrun' = TRUE
        /\ UNCHANGED <<given, victims, slots, size>>
    BY <1>1 DEF Erase
  <1>3. Length' = Length /\ Hits' = Hits
    BY <1>2 DEF Length, Hits
  <1>4. Gap # 0 /\ ~(it + Gap <= Length) /\ it \in it..Length /\ it # Length + 1
    BY <1>1 DEF Gap
  <1>5. given[Length] \in victims
    BY <1>1, <1>2, <1>4 DEF StorageInv
  <1>6. ~(Hits \subseteq {Length})
    BY <1>1, <1>4 DEF HitsInv
  <1>7. OverrunsEnd(given, victims)
    BY <1>5, <1>6 DEF OverrunsEnd, Hits, Length
  <1> QED BY <1>1, <1>2, <1>3, <1>7 DEF LoopInv

LEMMA LoopStep == LoopInv /\ [EraseNext]_eraseVars => LoopInv'
  <1> SUFFICES ASSUME LoopInv, [EraseNext]_eraseVars PROVE LoopInv'
    OBVIOUS
  <1>1. CASE Keep
    BY <1>1, KeepInv
  <1>2. CASE Erase
    <2>1. size \in Int /\ it \in Int
      BY DEF LoopInv
    <2> QED BY <1>2, <2>1, EraseInsideInv, EraseBehindInv
  <1>3. CASE UNCHANGED eraseVars
    <2>1. UNCHANGED <<given, victims, slots, size, it, overrun>>
      BY <1>3 DEF eraseVars
    <2>2. /\ Length' = Length /\ Hits' = Hits /\ Kept' = Kept
          /\ Gap' = Gap /\ Passed' = Passed /\ Held' = Held
      BY <2>1 DEF Length, Hits, Kept, Gap, Passed, Held
    <2>3. StorageInv' = StorageInv /\ HitsInv' = HitsInv
      BY <2>1, <2>2 DEF StorageInv, HitsInv
    <2> QED BY <2>1, <2>2, <2>3 DEF LoopInv
  <1> QED BY <1>1, <1>2, <1>3 DEF EraseNext
-----------------------------------------------------------------------------
(* At the end of the loop the closed forms hold.                           *)
LEMMA LoopEnds ==
    ASSUME LoopInv, ~Running
    PROVE  /\ overrun = OverrunsEnd(given, victims)
           /\ ~overrun => Held = Remaining(given, victims)
  <1>1. CASE overrun
    <2>1. overrun = TRUE /\ OverrunsEnd(given, victims)
      BY <1>1 DEF LoopInv
    <2> QED BY <2>1 DEF OverrunsEnd
  <1>2. CASE ~overrun
    <2>1. /\ Length \in Nat /\ size \in 0..Length /\ it = Length + 1
          /\ overrun = FALSE /\ StorageInv /\ HitsInv
      BY <1>2 DEF LoopInv, Running, Length
    <2>2. Passed >= Length /\ Passed = Length + Gap /\ Gap \in Nat
      BY <2>1 DEF Passed, Gap
    <2>3. Held = Remaining(given, victims)
      BY <2>1, <2>2 DEF StorageInv, Remaining, Kept, Hits
    <2>4. ~(~(Hits \subseteq {Length}) /\ given[Length] \in victims)
      <3>1. CASE Gap = 0
        <4>1. Hits \subseteq 1..Length
          BY HitsPlaces DEF LoopInv
        <4>2. \A j \in 1..Length : j <= Passed
          BY <2>1, <2>2
        <4> QED BY <2>1, <3>1, <4>1, <4>2 DEF HitsInv
      <3>2. CASE Gap # 0
        <4>1. Passed > Length /\ (Passed = Length + 1 => Gap = 1)
          BY <2>1, <2>2, <3>2
        <4> QED BY <2>1, <4>1 DEF HitsInv
      <3> QED BY <3>1, <3>2
    <2>5. ~OverrunsEnd(given, victims)
      BY <2>4 DEF OverrunsEnd, Hits, Length
    <2> QED BY <2>1, <2>3, <2>5 DEF OverrunsEnd
  <1> QED BY <1>1, <1>2

(* The closed forms of Subscription, which Watches uses for the whole of   *)
(* unsub, are what the loop computes, on every subscription and every set  *)
(* of ids; and it erases end() exactly when OverrunsEnd says so.           *)
THEOREM AlwaysAgrees == EraseSpec => []LoopAgrees
  <1>1. LoopInv => LoopAgrees
    BY LoopEnds DEF LoopAgrees
  <1> QED BY LoopInit, LoopStep, <1>1, PTL DEF EraseSpec

(* Without duplicates one id is removed, and nothing else, wherever it is. *)
THEOREM AlwaysRemovesOne == EraseSpec => []OneIdIsRemoved
  <1>1. LoopInv => OneIdIsRemoved
    <2> SUFFICES ASSUME LoopInv, ~Running, IsInjective(given),
                        NEW e \in Elems, victims = {e}
                 PROVE  /\ ~overrun
                        /\ Held = Selected(given, Others(given, victims))
      BY DEF OneIdIsRemoved
    <2>1. \A u, v \in victims : u = v
      OBVIOUS
    <2>2. given \in Seq(Elems) /\ \A j, k \in DOMAIN given : given[j] = given[k] => j = k
      BY DEF LoopInv, IsInjective
    <2>3. /\ ~OverrunsEnd(given, victims)
          /\ Remaining(given, victims)
               = Selected(given, Others(given, victims))
      BY <2>1, <2>2, OneIdErased
    <2> QED BY <2>3, LoopEnds
  <1> QED BY LoopInit, LoopStep, <1>1, PTL DEF EraseSpec
=============================================================================
