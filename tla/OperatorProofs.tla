--------------------------- MODULE OperatorProofs ---------------------------
(***************************************************************************)
(* Facts about the operators that the components share, for every value:   *)
(* induction over the numbers; the calendar, where a step from day to day  *)
(* adds one to the number of the day and n steps add n; what a loop over a *)
(* vector has collected; what the erasing loop of TestWatch erases; and    *)
(* sequences put end to end.                                               *)
(***************************************************************************)
EXTENDS Calendar, Subscription, SequencesExt, WellFoundedInduction, TLAPS

(* Induction, of a set of numbers instead of a predicate: what is missing  *)
(* from the set would have a smallest number.                              *)
LEMMA Induction ==
    ASSUME NEW T, 0 \in T, \A n \in Nat : n \in T => n + 1 \in T
    PROVE  \A n \in Nat : n \in T
  <1> DEFINE Smaller == OpToRel(<, Nat)
             Missing == {n \in Nat : n \notin T}
  <1> SUFFICES ASSUME Missing # {} PROVE FALSE
    OBVIOUS
  <1>1. IsWellFoundedOn(Smaller, Nat)
    BY NatLessThanWellFounded
  <1>2. PICK x \in Missing : \A y \in Missing : ~(<<y, x>> \in Smaller)
    <2> HIDE DEF Smaller
    <2> QED BY <1>1, WFMin
  <1>3. x - 1 \in Nat /\ (x - 1) + 1 = x
    OBVIOUS
  <1>4. x - 1 \notin T
    BY <1>3
  <1>5. <<x - 1, x>> \in Smaller
    BY <1>3 DEF OpToRel
  <1> QED BY <1>2, <1>3, <1>4, <1>5

(* Some place among several is the first. *)
LEMMA FirstPlace ==
    ASSUME NEW B, B \subseteq Nat, B # {}
    PROVE  \E i \in B : \A j \in B : i <= j
  <1> DEFINE Smaller == OpToRel(<, Nat)
  <1>1. IsWellFoundedOn(Smaller, Nat)
    BY NatLessThanWellFounded
  <1>2. PICK i \in B : \A j \in B : ~(<<j, i>> \in Smaller)
    <2> HIDE DEF Smaller
    <2> QED BY <1>1, WFMin
  <1>3. \A j \in B : <<j, i>> \in Smaller <=> j < i
    BY DEF OpToRel
  <1> HIDE DEF Smaller
  <1>4. \A j \in B : ~(j < i)
    BY <1>2, <1>3
  <1>5. i \in Nat /\ \A j \in B : j \in Nat
    OBVIOUS
  <1> QED BY <1>4, <1>5
-----------------------------------------------------------------------------
(* A year after a leap year has one more leap day behind it. *)
LEMMA LeapStep ==
    ASSUME NEW y \in Int
    PROVE  /\ LeapDays(y) \in Int
           /\ LeapDays(y + 1) = LeapDays(y) + (IF IsLeapYear(y) THEN 1 ELSE 0)
  <1>1. (y + 4) \div 4 = (y + 3) \div 4 + (IF y % 4 = 0 THEN 1 ELSE 0)
    BY SMT
  <1>2. (y + 100) \div 100 = (y + 99) \div 100 + (IF y % 100 = 0 THEN 1 ELSE 0)
    BY SMT
  <1>3. (y + 400) \div 400 = (y + 399) \div 400 + (IF y % 400 = 0 THEN 1 ELSE 0)
    BY SMT
  <1>4. (y % 100 = 0 => y % 4 = 0) /\ (y % 400 = 0 => y % 100 = 0)
    BY SMT
  <1>5. /\ y + 1 + 3 = y + 4 /\ y + 1 + 99 = y + 100 /\ y + 1 + 399 = y + 400
    OBVIOUS
  <1> QED BY <1>1, <1>2, <1>3, <1>4, <1>5 DEF LeapDays, IsLeapYear

(* The months of a year follow one another. *)
LEMMA MonthStep ==
    ASSUME NEW y \in Nat, NEW m \in 1..11
    PROVE  DaysInMonth(y, m)
             = BeforeMonth[m + 1] - BeforeMonth[m]
                 + (IF m = 2 /\ IsLeapYear(y) THEN 1 ELSE 0)
  <1>1. m \in {1, 2, 3, 4, 5, 6, 7, 8, 9, 10, 11}
    OBVIOUS
  <1> QED BY <1>1 DEF DaysInMonth, BeforeMonth

(* Every month has a first day and every date a number. *)
LEMMA DayTypes ==
    ASSUME NEW y \in Nat, NEW m \in 1..12
    PROVE  /\ DaysInMonth(y, m) \in 28..31
           /\ BeforeMonth[m] \in Nat
           /\ DaysInMonth(y, 12) = 31 /\ BeforeMonth[12] = 334 /\ BeforeMonth[1] = 0
  <1>1. m \in {1, 2, 3, 4, 5, 6, 7, 8, 9, 10, 11, 12}
    OBVIOUS
  <1> QED BY <1>1 DEF DaysInMonth, BeforeMonth

(* A date is put together from its parts and has a number. *)
LEMMA Parts ==
    ASSUME NEW d, IsDate(d)
    PROVE  \E y \in Nat, m \in 1..12 : \E n \in 1..DaysInMonth(y, m) :
              d = Day(y, m, n)
  BY DEF IsDate

LEMMA NumberOfDay ==
    ASSUME NEW y, NEW m, NEW n
    PROVE  /\ DayNumber(Day(y, m, n)) = NumberOf(y, m, n)
           /\ IsDate(Day(y, m, n)) <=> /\ y \in Nat /\ m \in 1..12
                                       /\ n \in 1..DaysInMonth(y, m)
  BY DEF DayNumber, IsDate, Day

LEMMA PartTypes ==
    ASSUME NEW y \in Nat, NEW m \in 1..12
    PROVE  LeapDays(y) \in Int /\ BeforeMonth[m] \in Nat /\ LeapDay(y, m) \in 0..1
  <1>1. LeapDays(y) \in Int /\ BeforeMonth[m] \in Nat
    BY LeapStep, DayTypes
  <1>2. LeapDay(y, m) \in 0..1
    BY DEF LeapDay
  <1> QED BY <1>1, <1>2

(* The step within a month, into the next month, into the next year. *)
LEMMA WithinMonth ==
    ASSUME NEW y \in Nat, NEW m \in 1..12, NEW n \in Int
    PROVE  NumberOf(y, m, n + 1) = NumberOf(y, m, n) + 1
  <1>1. LeapDays(y) \in Int /\ BeforeMonth[m] \in Nat /\ LeapDay(y, m) \in 0..1
    BY PartTypes
  <1> DEFINE before == 365 * y + LeapDays(y) + BeforeMonth[m] + LeapDay(y, m)
  <1>2. before \in Int
    BY <1>1
  <1>3. NumberOf(y, m, n) = before + n /\ NumberOf(y, m, n + 1) = before + (n + 1)
    BY DEF NumberOf
  <1> HIDE DEF before
  <1> QED BY <1>2, <1>3

LEMMA IntoMonth ==
    ASSUME NEW y \in Nat, NEW m \in 1..11
    PROVE  NumberOf(y, m + 1, 1) = NumberOf(y, m, DaysInMonth(y, m)) + 1
  <1>1. m \in 1..12 /\ m + 1 \in 1..12
    OBVIOUS
  <1>2. LeapDay(y, m + 1) = LeapDay(y, m) + (IF m = 2 /\ IsLeapYear(y) THEN 1 ELSE 0)
    BY DEF LeapDay, IsLeapYear
  <1>3. /\ LeapDays(y) \in Int /\ BeforeMonth[m] \in Nat /\ LeapDay(y, m) \in 0..1
        /\ BeforeMonth[m + 1] \in Nat /\ LeapDay(y, m + 1) \in 0..1
    BY <1>1, PartTypes
  <1> QED BY <1>1, <1>2, <1>3, MonthStep DEF NumberOf

LEMMA IntoYear ==
    ASSUME NEW y \in Nat
    PROVE  NumberOf(y + 1, 1, 1) = NumberOf(y, 12, 31) + 1
  <1>1. LeapDay(y + 1, 1) = 0 /\ LeapDay(y, 12) = IF IsLeapYear(y) THEN 1 ELSE 0
    BY DEF LeapDay, IsLeapYear
  <1>2. BeforeMonth[12] = 334 /\ BeforeMonth[1] = 0
    BY DayTypes
  <1>3. LeapDays(y) \in Int /\ LeapDays(y + 1) = LeapDays(y) + LeapDay(y, 12)
    BY <1>1, LeapStep
  <1>4. LeapDay(y, 12) \in 0..1
    BY <1>1
  <1> QED BY <1>1, <1>2, <1>3, <1>4 DEF NumberOf

(* A step of inc_days ends on a date, the next one. *)
LEMMA NextDayCounts ==
    ASSUME NEW d, IsDate(d)
    PROVE  IsDate(NextDay(d)) /\ DayNumber(NextDay(d)) = DayNumber(d) + 1
  <1>1. PICK y \in Nat, m \in 1..12 : \E n \in 1..DaysInMonth(y, m) : d = Day(y, m, n)
    BY Parts
  <1>2. PICK n \in 1..DaysInMonth(y, m) : d = Day(y, m, n)
    BY <1>1
  <1>3. DaysInMonth(y, m) \in 28..31 /\ n \in Int
    BY DayTypes
  <1>4. DayNumber(d) = NumberOf(y, m, n)
    BY <1>2, NumberOfDay
  <1>5. CASE n + 1 <= DaysInMonth(y, m)
    <2>1. NextDay(d) = Day(y, m, n + 1)
      BY <1>2, <1>5 DEF NextDay, Day
    <2>2. IsDate(Day(y, m, n + 1))
      BY <1>3, <1>5, NumberOfDay
    <2> QED BY <2>1, <2>2, <1>3, <1>4, NumberOfDay, WithinMonth
  <1>6. CASE n + 1 > DaysInMonth(y, m) /\ m < 12
    <2>1. NextDay(d) = Day(y, m + 1, 1) /\ n = DaysInMonth(y, m)
      BY <1>2, <1>3, <1>6 DEF NextDay, Day
    <2>2. m \in 1..11 /\ m + 1 \in 1..12
      BY <1>6
    <2>3. DaysInMonth(y, m + 1) \in 28..31
      BY <2>2, DayTypes
    <2>4. IsDate(Day(y, m + 1, 1))
      BY <2>2, <2>3, NumberOfDay
    <2> QED BY <2>1, <2>2, <2>4, <1>4, NumberOfDay, IntoMonth
  <1>7. CASE n + 1 > DaysInMonth(y, m) /\ m = 12
    <2>1. NextDay(d) = Day(y + 1, 1, 1) /\ n = 31
      BY <1>2, <1>3, <1>7, DayTypes DEF NextDay, Day
    <2>2. DaysInMonth(y + 1, 1) \in 28..31
      BY DayTypes
    <2>3. IsDate(Day(y + 1, 1, 1))
      BY <2>2, NumberOfDay
    <2> QED BY <2>1, <2>3, <1>4, <1>7, NumberOfDay, IntoYear
  <1> QED BY <1>3, <1>5, <1>6, <1>7

(* A step of dec_days ends on a date, the one before, unless it leaves the *)
(* year 0.                                                                 *)
LEMMA PrevDayCounts ==
    ASSUME NEW d, IsDate(d), DayNumber(d) > 1
    PROVE  IsDate(PrevDay(d)) /\ DayNumber(d) = DayNumber(PrevDay(d)) + 1
  <1>1. PICK y \in Nat, m \in 1..12 : \E n \in 1..DaysInMonth(y, m) : d = Day(y, m, n)
    BY Parts
  <1>2. PICK n \in 1..DaysInMonth(y, m) : d = Day(y, m, n)
    BY <1>1
  <1>3. DaysInMonth(y, m) \in 28..31 /\ n \in Int
    BY DayTypes
  <1>4. DayNumber(d) = NumberOf(y, m, n)
    BY <1>2, NumberOfDay
  <1>5. CASE n - 1 > 0
    <2>1. PrevDay(d) = Day(y, m, n - 1)
      BY <1>2, <1>5 DEF PrevDay, Day
    <2>2. IsDate(Day(y, m, n - 1))
      BY <1>3, <1>5, NumberOfDay
    <2>3. n - 1 \in Int /\ n = (n - 1) + 1
      BY <1>3
    <2>4. NumberOf(y, m, n) = NumberOf(y, m, n - 1) + 1
      BY <2>3, WithinMonth
    <2> QED BY <2>1, <2>2, <2>4, <1>4, NumberOfDay
  <1>6. CASE ~(n - 1 > 0) /\ m > 1
    <2>1. PrevDay(d) = Day(y, m - 1, DaysInMonth(y, m - 1)) /\ n = 1
      BY <1>2, <1>3, <1>6 DEF PrevDay, Day
    <2>2. m - 1 \in 1..11 /\ m - 1 \in 1..12 /\ (m - 1) + 1 = m
      BY <1>6
    <2>3. DaysInMonth(y, m - 1) \in 28..31
      BY <2>2, DayTypes
    <2>4. IsDate(Day(y, m - 1, DaysInMonth(y, m - 1)))
      BY <2>2, <2>3, NumberOfDay
    <2>5. NumberOf(y, m, 1) = NumberOf(y, m - 1, DaysInMonth(y, m - 1)) + 1
      BY <2>2, IntoMonth
    <2> QED BY <2>1, <2>4, <2>5, <1>4, NumberOfDay
  <1>7. CASE ~(n - 1 > 0) /\ ~(m > 1)
    <2>1. m = 1 /\ n = 1
      BY <1>3, <1>7
    <2>2. y # 0
      <3> SUFFICES ASSUME y = 0 PROVE FALSE
        OBVIOUS
      <3>1. LeapDays(y) = 0
        <4>1. (y + 3) \div 4 = 0 /\ (y + 99) \div 100 = 0 /\ (y + 399) \div 400 = 0
          BY SMT
        <4> QED BY <4>1 DEF LeapDays
      <3>2. LeapDay(y, m) = 0 /\ BeforeMonth[m] = 0
        BY <2>1, DayTypes DEF LeapDay
      <3>3. NumberOf(y, m, n) = 1
        BY <2>1, <3>1, <3>2 DEF NumberOf
      <3> QED BY <3>3, <1>4
    <2>3. y - 1 \in Nat /\ (y - 1) + 1 = y
      BY <2>2
    <2>4. DaysInMonth(y - 1, 12) = 31
      BY <2>3, DayTypes
    <2>5. PrevDay(d) = Day(y - 1, 12, 31)
      BY <2>1, <2>4, <1>2 DEF PrevDay, Day
    <2>6. IsDate(Day(y - 1, 12, 31))
      BY <2>3, <2>4, NumberOfDay
    <2>7. NumberOf(y, 1, 1) = NumberOf(y - 1, 12, 31) + 1
      BY <2>3, IntoYear
    <2> QED BY <2>1, <2>5, <2>6, <2>7, <1>4, NumberOfDay
  <1> QED BY <1>5, <1>6, <1>7

LEMMA NumberOfDate ==
    ASSUME NEW d, IsDate(d)
    PROVE  DayNumber(d) \in Int
  <1>1. PICK y \in Nat, m \in 1..12 : \E n \in 1..DaysInMonth(y, m) : d = Day(y, m, n)
    BY Parts
  <1>2. PICK n \in 1..DaysInMonth(y, m) : d = Day(y, m, n)
    BY <1>1
  <1>3. LeapDays(y) \in Int /\ BeforeMonth[m] \in Nat /\ LeapDay(y, m) \in 0..1
    BY PartTypes
  <1>4. n \in Int
    BY DayTypes
  <1>5. NumberOf(y, m, n) \in Int
    BY <1>3, <1>4 DEF NumberOf
  <1> QED BY <1>2, <1>5, NumberOfDay

(* A day back undoes a day forward, whatever the date.                     *)
THEOREM BackUndoesForward ==
    ASSUME NEW d, IsDate(d)
    PROVE  PrevDay(NextDay(d)) = d
  <1>1. PICK y \in Nat, m \in 1..12 : \E n \in 1..DaysInMonth(y, m) : d = Day(y, m, n)
    BY Parts
  <1>2. PICK n \in 1..DaysInMonth(y, m) : d = Day(y, m, n)
    BY <1>1
  <1>3. DaysInMonth(y, m) \in 28..31 /\ n \in Int
    BY DayTypes
  <1>4. CASE n + 1 <= DaysInMonth(y, m)
    <2>1. NextDay(d) = Day(y, m, n + 1) /\ n + 1 - 1 > 0 /\ n + 1 - 1 = n
      BY <1>2, <1>3, <1>4 DEF NextDay, Day
    <2> QED BY <2>1, <1>2 DEF PrevDay, Day
  <1>5. CASE n + 1 > DaysInMonth(y, m) /\ m < 12
    <2>1. NextDay(d) = Day(y, m + 1, 1) /\ n = DaysInMonth(y, m)
      BY <1>2, <1>3, <1>5 DEF NextDay, Day
    <2>2. ~(1 - 1 > 0) /\ ~(m + 1 - 1 < 1) /\ m + 1 - 1 = m
      BY <1>5
    <2> QED BY <2>1, <2>2, <1>2 DEF PrevDay, Day
  <1>6. CASE n + 1 > DaysInMonth(y, m) /\ m = 12
    <2>1. NextDay(d) = Day(y + 1, 1, 1) /\ n = DaysInMonth(y, m)
      BY <1>2, <1>3, <1>6 DEF NextDay, Day
    <2>2. ~(1 - 1 > 0) /\ 1 - 1 < 1 /\ y + 1 - 1 = y
      OBVIOUS
    <2> QED BY <2>1, <2>2, <1>2, <1>6 DEF PrevDay, Day
  <1> QED BY <1>3, <1>4, <1>5, <1>6

(* And a day forward undoes a day back, as long as the year 0 is not left. *)
THEOREM ForwardUndoesBack ==
    ASSUME NEW d, IsDate(d), DayNumber(d) > 1
    PROVE  NextDay(PrevDay(d)) = d
  <1>1. PICK y \in Nat, m \in 1..12 : \E n \in 1..DaysInMonth(y, m) : d = Day(y, m, n)
    BY Parts
  <1>2. PICK n \in 1..DaysInMonth(y, m) : d = Day(y, m, n)
    BY <1>1
  <1>3. DaysInMonth(y, m) \in 28..31 /\ n \in Int
    BY DayTypes
  <1>4. CASE n - 1 > 0
    <2>1. PrevDay(d) = Day(y, m, n - 1) /\ (n - 1) + 1 = n /\ n <= DaysInMonth(y, m)
      BY <1>2, <1>3, <1>4 DEF PrevDay, Day
    <2> QED BY <2>1, <1>2 DEF NextDay, Day
  <1>5. CASE ~(n - 1 > 0) /\ m > 1
    <2>1. PrevDay(d) = Day(y, m - 1, DaysInMonth(y, m - 1)) /\ n = 1
      BY <1>2, <1>3, <1>5 DEF PrevDay, Day
    <2>2. m - 1 \in 1..12 /\ (m - 1) + 1 = m /\ ~(m > 12)
      BY <1>5
    <2>3. DaysInMonth(y, m - 1) \in 28..31
      BY <2>2, DayTypes
    <2>4. ~(DaysInMonth(y, m - 1) + 1 <= DaysInMonth(y, m - 1))
      BY <2>3
    <2> QED BY <2>1, <2>2, <2>4, <1>2 DEF NextDay, Day
  <1>6. CASE ~(n - 1 > 0) /\ ~(m > 1)
    <2>1. IsDate(PrevDay(d)) /\ n = 1 /\ m = 1
      BY <1>3, <1>6, PrevDayCounts
    <2>2. PrevDay(d) = Day(y - 1, 12, DaysInMonth(y - 1, 12))
      BY <1>2, <2>1 DEF PrevDay, Day
    <2>3. y - 1 \in Nat /\ (y - 1) + 1 = y
      BY <2>1, <2>2, NumberOfDay
    <2>4. DaysInMonth(y - 1, 12) = 31
      BY <2>3, DayTypes
    <2> QED BY <2>1, <2>2, <2>3, <2>4, <1>2 DEF NextDay, Day
  <1> QED BY <1>3, <1>4, <1>5, <1>6
-----------------------------------------------------------------------------
(* The chain of sets that IncDays(d, n) is read from exists, and has one   *)
(* day at each place, whatever the length of the chain.                    *)
LEMMA IncDaysSteps ==
    ASSUME NEW d, NEW n \in Nat
    PROVE  \E f : /\ f[0] = {d}
                  /\ \A i \in 1..n : f[i] = {NextDay(e) : e \in f[i - 1]}
                  /\ IncDays(d, n) = CHOOSE e \in f[n] : TRUE
  <1> DEFINE Chain(f, m) == f = [i \in 0..m |-> IF i = 0 THEN {d}
                                                ELSE {NextDay(e) : e \in f[i - 1]}]
             Long == {m \in Nat : \E f : Chain(f, m)}
             F == CHOOSE f : Chain(f, n)
  <1>1. 0 \in Long
    <2>1. Chain([i \in 0..0 |-> {d}], 0)
      OBVIOUS
    <2> QED BY <2>1
  <1>2. ASSUME NEW m \in Nat, m \in Long PROVE m + 1 \in Long
    <2>1. PICK f : Chain(f, m)
      BY <1>2
    <2> DEFINE g == [i \in 0..m + 1 |-> IF i = m + 1 THEN {NextDay(e) : e \in f[m]} ELSE f[i]]
    <2>2. ASSUME NEW i \in 0..m + 1
          PROVE  g[i] = IF i = 0 THEN {d} ELSE {NextDay(e) : e \in g[i - 1]}
      <3>1. CASE i = m + 1
        <4>1. i # 0 /\ i - 1 = m /\ m \in 0..m + 1 /\ m # m + 1
          BY <3>1
        <4>2. g[m] = f[m]
          BY <4>1
        <4> QED BY <3>1, <4>1, <4>2
      <3>2. CASE i # m + 1 /\ i # 0
        <4>1. i \in 0..m /\ i - 1 \in 0..m + 1 /\ i - 1 # m + 1
          BY <3>2
        <4>2. g[i] = f[i] /\ g[i - 1] = f[i - 1]
          BY <3>2, <4>1
        <4> QED BY <2>1, <3>2, <4>1, <4>2
      <3>3. CASE i = 0
        <4>1. 0 \in 0..m /\ 0 \in 0..m + 1 /\ 0 # m + 1
          OBVIOUS
        <4> QED BY <2>1, <3>3, <4>1
      <3> QED BY <3>1, <3>2, <3>3
    <2>3. Chain(g, m + 1)
      <3>1. g = [i \in 0..m + 1 |-> g[i]]
        OBVIOUS
      <3> HIDE DEF g
      <3> QED BY <2>2, <3>1
    <2>4. \E h : Chain(h, m + 1)
      <3> HIDE DEF g, Chain
      <3> QED BY <2>3
    <2> QED BY <2>4
  <1>3. n \in Long
    <2> HIDE DEF Long
    <2> QED BY <1>1, <1>2, Induction
  <1>4. Chain(F, n)
    BY <1>3
  <1>5. IncDays(d, n) = CHOOSE e \in F[n] : TRUE
    BY DEF IncDays
  <1> HIDE DEF F
  <1>6. F[0] = {d} /\ \A i \in 1..n : F[i] = {NextDay(e) : e \in F[i - 1]}
    BY <1>4
  <1> QED BY <1>5, <1>6

(* One day more is one step more. *)
LEMMA IncDaysOneMore ==
    ASSUME NEW d
    PROVE  /\ IncDays(d, 0) = d
           /\ \A n \in Nat : IncDays(d, n + 1) = NextDay(IncDays(d, n))
  <1>1. IncDays(d, 0) = d
    BY IncDaysSteps
  <1>2. ASSUME NEW n \in Nat PROVE IncDays(d, n + 1) = NextDay(IncDays(d, n))
    <2>1. PICK f : /\ f[0] = {d}
                   /\ \A i \in 1..n : f[i] = {NextDay(e) : e \in f[i - 1]}
                   /\ IncDays(d, n) = CHOOSE e \in f[n] : TRUE
      BY IncDaysSteps
    <2>2. PICK g : /\ g[0] = {d}
                   /\ \A i \in 1..n + 1 : g[i] = {NextDay(e) : e \in g[i - 1]}
                   /\ IncDays(d, n + 1) = CHOOSE e \in g[n + 1] : TRUE
      <3>1. n + 1 \in Nat
        OBVIOUS
      <3> QED BY <3>1, IncDaysSteps
    <2> DEFINE Same == {i \in Nat : i <= n => \E e : f[i] = {e} /\ g[i] = {e}}
    <2>3. 0 \in Same
      BY <2>1, <2>2
    <2>4. ASSUME NEW i \in Nat, i \in Same PROVE i + 1 \in Same
      <3> SUFFICES ASSUME i + 1 <= n
                   PROVE  \E e : f[i + 1] = {e} /\ g[i + 1] = {e}
        OBVIOUS
      <3>1. i <= n /\ i + 1 \in 1..n /\ i + 1 \in 1..n + 1 /\ (i + 1) - 1 = i
        OBVIOUS
      <3>2. PICK e : f[i] = {e} /\ g[i] = {e}
        BY <2>4, <3>1
      <3>3. f[i + 1] = {NextDay(x) : x \in f[i]} /\ g[i + 1] = {NextDay(x) : x \in g[i]}
        BY <2>1, <2>2, <3>1
      <3>4. f[i + 1] = {NextDay(e)} /\ g[i + 1] = {NextDay(e)}
        BY <3>2, <3>3
      <3> QED BY <3>4
    <2>5. n \in Same
      <3> HIDE DEF Same
      <3> QED BY <2>3, <2>4, Induction
    <2>6. PICK e : f[n] = {e} /\ g[n] = {e}
      BY <2>5
    <2>7. n + 1 \in 1..n + 1 /\ (n + 1) - 1 = n
      OBVIOUS
    <2>8. g[n + 1] = {NextDay(x) : x \in g[n]}
      BY <2>2, <2>7
    <2>9. g[n + 1] = {NextDay(e)}
      BY <2>6, <2>8
    <2> QED BY <2>1, <2>2, <2>6, <2>9
  <1> QED BY <1>1, <1>2

(* The chain of sets that DecDays(d, n) is read from exists, and has one   *)
(* day at each place, whatever the length of the chain.                    *)
LEMMA DecDaysSteps ==
    ASSUME NEW d, NEW n \in Nat
    PROVE  \E f : /\ f[0] = {d}
                  /\ \A i \in 1..n : f[i] = {PrevDay(e) : e \in f[i - 1]}
                  /\ DecDays(d, n) = CHOOSE e \in f[n] : TRUE
  <1> DEFINE Chain(f, m) == f = [i \in 0..m |-> IF i = 0 THEN {d}
                                                ELSE {PrevDay(e) : e \in f[i - 1]}]
             Long == {m \in Nat : \E f : Chain(f, m)}
             F == CHOOSE f : Chain(f, n)
  <1>1. 0 \in Long
    <2>1. Chain([i \in 0..0 |-> {d}], 0)
      OBVIOUS
    <2> QED BY <2>1
  <1>2. ASSUME NEW m \in Nat, m \in Long PROVE m + 1 \in Long
    <2>1. PICK f : Chain(f, m)
      BY <1>2
    <2> DEFINE g == [i \in 0..m + 1 |-> IF i = m + 1 THEN {PrevDay(e) : e \in f[m]} ELSE f[i]]
    <2>2. ASSUME NEW i \in 0..m + 1
          PROVE  g[i] = IF i = 0 THEN {d} ELSE {PrevDay(e) : e \in g[i - 1]}
      <3>1. CASE i = m + 1
        <4>1. i # 0 /\ i - 1 = m /\ m \in 0..m + 1 /\ m # m + 1
          BY <3>1
        <4>2. g[m] = f[m]
          BY <4>1
        <4> QED BY <3>1, <4>1, <4>2
      <3>2. CASE i # m + 1 /\ i # 0
        <4>1. i \in 0..m /\ i - 1 \in 0..m + 1 /\ i - 1 # m + 1
          BY <3>2
        <4>2. g[i] = f[i] /\ g[i - 1] = f[i - 1]
          BY <3>2, <4>1
        <4> QED BY <2>1, <3>2, <4>1, <4>2
      <3>3. CASE i = 0
        <4>1. 0 \in 0..m /\ 0 \in 0..m + 1 /\ 0 # m + 1
          OBVIOUS
        <4> QED BY <2>1, <3>3, <4>1
      <3> QED BY <3>1, <3>2, <3>3
    <2>3. Chain(g, m + 1)
      <3>1. g = [i \in 0..m + 1 |-> g[i]]
        OBVIOUS
      <3> HIDE DEF g
      <3> QED BY <2>2, <3>1
    <2>4. \E h : Chain(h, m + 1)
      <3> HIDE DEF g, Chain
      <3> QED BY <2>3
    <2> QED BY <2>4
  <1>3. n \in Long
    <2> HIDE DEF Long
    <2> QED BY <1>1, <1>2, Induction
  <1>4. Chain(F, n)
    BY <1>3
  <1>5. DecDays(d, n) = CHOOSE e \in F[n] : TRUE
    BY DEF DecDays
  <1> HIDE DEF F
  <1>6. F[0] = {d} /\ \A i \in 1..n : F[i] = {PrevDay(e) : e \in F[i - 1]}
    BY <1>4
  <1> QED BY <1>5, <1>6

(* One day more is one step more. *)
LEMMA DecDaysOneMore ==
    ASSUME NEW d
    PROVE  /\ DecDays(d, 0) = d
           /\ \A n \in Nat : DecDays(d, n + 1) = PrevDay(DecDays(d, n))
  <1>1. DecDays(d, 0) = d
    BY DecDaysSteps
  <1>2. ASSUME NEW n \in Nat PROVE DecDays(d, n + 1) = PrevDay(DecDays(d, n))
    <2>1. PICK f : /\ f[0] = {d}
                   /\ \A i \in 1..n : f[i] = {PrevDay(e) : e \in f[i - 1]}
                   /\ DecDays(d, n) = CHOOSE e \in f[n] : TRUE
      BY DecDaysSteps
    <2>2. PICK g : /\ g[0] = {d}
                   /\ \A i \in 1..n + 1 : g[i] = {PrevDay(e) : e \in g[i - 1]}
                   /\ DecDays(d, n + 1) = CHOOSE e \in g[n + 1] : TRUE
      <3>1. n + 1 \in Nat
        OBVIOUS
      <3> QED BY <3>1, DecDaysSteps
    <2> DEFINE Same == {i \in Nat : i <= n => \E e : f[i] = {e} /\ g[i] = {e}}
    <2>3. 0 \in Same
      BY <2>1, <2>2
    <2>4. ASSUME NEW i \in Nat, i \in Same PROVE i + 1 \in Same
      <3> SUFFICES ASSUME i + 1 <= n
                   PROVE  \E e : f[i + 1] = {e} /\ g[i + 1] = {e}
        OBVIOUS
      <3>1. i <= n /\ i + 1 \in 1..n /\ i + 1 \in 1..n + 1 /\ (i + 1) - 1 = i
        OBVIOUS
      <3>2. PICK e : f[i] = {e} /\ g[i] = {e}
        BY <2>4, <3>1
      <3>3. f[i + 1] = {PrevDay(x) : x \in f[i]} /\ g[i + 1] = {PrevDay(x) : x \in g[i]}
        BY <2>1, <2>2, <3>1
      <3>4. f[i + 1] = {PrevDay(e)} /\ g[i + 1] = {PrevDay(e)}
        BY <3>2, <3>3
      <3> QED BY <3>4
    <2>5. n \in Same
      <3> HIDE DEF Same
      <3> QED BY <2>3, <2>4, Induction
    <2>6. PICK e : f[n] = {e} /\ g[n] = {e}
      BY <2>5
    <2>7. n + 1 \in 1..n + 1 /\ (n + 1) - 1 = n
      OBVIOUS
    <2>8. g[n + 1] = {PrevDay(x) : x \in g[n]}
      BY <2>2, <2>7
    <2>9. g[n + 1] = {PrevDay(e)}
      BY <2>6, <2>8
    <2> QED BY <2>1, <2>2, <2>6, <2>9
  <1> QED BY <1>1, <1>2

(* Whether the extra step comes first or last makes no difference. *)
LEMMA IncDaysStepFirst ==
    ASSUME NEW d, NEW n \in Nat
    PROVE  IncDays(NextDay(d), n) = IncDays(d, n + 1)
  <1> DEFINE T == {m \in Nat : IncDays(NextDay(d), m) = IncDays(d, m + 1)}
  <1>1. 0 \in T
    <2>1. IncDays(d, 0 + 1) = NextDay(IncDays(d, 0))
      BY IncDaysOneMore
    <2> QED BY <2>1, IncDaysOneMore
  <1>2. ASSUME NEW m \in Nat, m \in T PROVE m + 1 \in T
    <2>1. m + 1 \in Nat
      OBVIOUS
    <2>2. IncDays(NextDay(d), m + 1) = NextDay(IncDays(NextDay(d), m))
      BY IncDaysOneMore
    <2>3. IncDays(d, (m + 1) + 1) = NextDay(IncDays(d, m + 1))
      BY <2>1, IncDaysOneMore
    <2> QED BY <1>2, <2>1, <2>2, <2>3
  <1> HIDE DEF T
  <1>3. n \in T
    BY <1>1, <1>2, Induction
  <1> QED BY <1>3 DEF T

LEMMA DecDaysStepFirst ==
    ASSUME NEW d, NEW n \in Nat
    PROVE  DecDays(PrevDay(d), n) = DecDays(d, n + 1)
  <1> DEFINE T == {m \in Nat : DecDays(PrevDay(d), m) = DecDays(d, m + 1)}
  <1>1. 0 \in T
    <2>1. DecDays(d, 0 + 1) = PrevDay(DecDays(d, 0))
      BY DecDaysOneMore
    <2> QED BY <2>1, DecDaysOneMore
  <1>2. ASSUME NEW m \in Nat, m \in T PROVE m + 1 \in T
    <2>1. m + 1 \in Nat
      OBVIOUS
    <2>2. DecDays(PrevDay(d), m + 1) = PrevDay(DecDays(PrevDay(d), m))
      BY DecDaysOneMore
    <2>3. DecDays(d, (m + 1) + 1) = PrevDay(DecDays(d, m + 1))
      BY <2>1, DecDaysOneMore
    <2> QED BY <1>2, <2>1, <2>2, <2>3
  <1> HIDE DEF T
  <1>3. n \in T
    BY <1>1, <1>2, Induction
  <1> QED BY <1>3 DEF T

(* n steps from a date end on the date whose number is n more or less. *)
LEMMA IncDaysCount ==
    ASSUME NEW d, IsDate(d), NEW n \in Nat
    PROVE  IsDate(IncDays(d, n)) /\ DayNumber(IncDays(d, n)) = DayNumber(d) + n
  <1> DEFINE T == {m \in Nat : /\ IsDate(IncDays(d, m))
                               /\ DayNumber(IncDays(d, m)) = DayNumber(d) + m}
  <1>1. DayNumber(d) \in Int
    BY NumberOfDate
  <1>2. 0 \in T
    BY <1>1, IncDaysOneMore
  <1>3. ASSUME NEW m \in Nat, m \in T PROVE m + 1 \in T
    <2>1. PICK e : e = IncDays(d, m)
      OBVIOUS
    <2>2. IncDays(d, m + 1) = NextDay(e)
      BY <2>1, IncDaysOneMore
    <2>3. IsDate(e) /\ DayNumber(e) = DayNumber(d) + m
      BY <1>3, <2>1
    <2>4. IsDate(NextDay(e)) /\ DayNumber(NextDay(e)) = DayNumber(d) + (m + 1)
      BY <1>1, <2>3, NextDayCounts
    <2> QED BY <2>2, <2>4
  <1> HIDE DEF T
  <1>4. n \in T
    BY <1>2, <1>3, Induction
  <1> QED BY <1>4 DEF T

LEMMA DecDaysCount ==
    ASSUME NEW d, IsDate(d), NEW n \in Nat, DayNumber(d) > n
    PROVE  IsDate(DecDays(d, n)) /\ DayNumber(DecDays(d, n)) = DayNumber(d) - n
  <1> DEFINE T == {m \in Nat : m <= n => /\ IsDate(DecDays(d, m))
                                         /\ DayNumber(DecDays(d, m)) = DayNumber(d) - m}
  <1>1. DayNumber(d) \in Int
    BY NumberOfDate
  <1>2. 0 \in T
    BY <1>1, DecDaysOneMore
  <1>3. ASSUME NEW m \in Nat, m \in T PROVE m + 1 \in T
    <2> SUFFICES ASSUME m + 1 <= n
                 PROVE  /\ IsDate(DecDays(d, m + 1))
                        /\ DayNumber(DecDays(d, m + 1)) = DayNumber(d) - (m + 1)
      OBVIOUS
    <2>1. PICK e : e = DecDays(d, m)
      OBVIOUS
    <2>2. DecDays(d, m + 1) = PrevDay(e)
      BY <2>1, DecDaysOneMore
    <2>3. IsDate(e) /\ DayNumber(e) = DayNumber(d) - m
      BY <1>3, <2>1
    <2>4. DayNumber(e) > 1
      BY <1>1, <2>3
    <2>5. IsDate(PrevDay(e)) /\ DayNumber(e) = DayNumber(PrevDay(e)) + 1
      BY <2>3, <2>4, PrevDayCounts
    <2>6. DayNumber(PrevDay(e)) \in Int
      BY <2>5, NumberOfDate
    <2> QED BY <1>1, <2>2, <2>3, <2>5, <2>6
  <1> HIDE DEF T
  <1>4. n \in T
    BY <1>2, <1>3, Induction
  <1> QED BY <1>4 DEF T
-----------------------------------------------------------------------------
LEMMA ConcatPlaces ==
    ASSUME NEW S, NEW s \in Seq(S), NEW t \in Seq(S)
    PROVE  /\ s \o t \in Seq(S) /\ Len(s \o t) = Len(s) + Len(t)
           /\ \A i \in 1..Len(s) + Len(t) :
                 (s \o t)[i] = IF i <= Len(s) THEN s[i] ELSE t[i - Len(s)]
  OBVIOUS

(* The beginning of a vector grows by one element, and depends on nothing  *)
(* but its elements.                                                       *)
LEMMA PrefixOneMore ==
    ASSUME NEW S, NEW s \in Seq(S), NEW m \in Nat, m + 1 <= Len(s)
    PROVE  SubSeq(s, 1, m + 1) = Append(SubSeq(s, 1, m), s[m + 1])
  OBVIOUS

LEMMA PrefixSame ==
    ASSUME NEW S, NEW s \in Seq(S), NEW t \in Seq(S), NEW m \in Nat,
           m <= Len(s), m <= Len(t), \A j \in 1..m : s[j] = t[j]
    PROVE  SubSeq(s, 1, m) = SubSeq(t, 1, m)
  OBVIOUS

(* What a loop has collected exists, and grows with each element.          *)
LEMMA CollectedSteps ==
    ASSUME NEW s, NEW P, NEW k \in Nat
    PROVE  \E f : /\ f[0] = <<>>
                  /\ \A i \in 1..k : f[i] = IF i \in P THEN Append(f[i - 1], s[i])
                                            ELSE f[i - 1]
                  /\ Collected(s, P, k) = f[k]
  <1> DEFINE Chain(f, m) == f = [i \in 0..m |->
                                   IF i = 0 THEN <<>>
                                   ELSE IF i \in P THEN Append(f[i - 1], s[i])
                                   ELSE f[i - 1]]
             Long == {m \in Nat : \E f : Chain(f, m)}
             F == CHOOSE f : Chain(f, k)
  <1>1. 0 \in Long
    <2>1. Chain([i \in 0..0 |-> <<>>], 0)
      OBVIOUS
    <2> QED BY <2>1
  <1>2. ASSUME NEW m \in Nat, m \in Long PROVE m + 1 \in Long
    <2>1. PICK f : Chain(f, m)
      BY <1>2
    <2> DEFINE g == [i \in 0..m + 1 |->
                       IF i = m + 1 THEN IF i \in P THEN Append(f[m], s[i]) ELSE f[m]
                       ELSE f[i]]
    <2>2. ASSUME NEW i \in 0..m + 1
          PROVE  g[i] = IF i = 0 THEN <<>>
                        ELSE IF i \in P THEN Append(g[i - 1], s[i])
                        ELSE g[i - 1]
      <3>1. CASE i = m + 1
        <4>1. i # 0 /\ i - 1 = m /\ m \in 0..m + 1 /\ m # m + 1
          BY <3>1
        <4>2. g[m] = f[m]
          BY <4>1
        <4> QED BY <3>1, <4>1, <4>2
      <3>2. CASE i # m + 1 /\ i # 0
        <4>1. i \in 0..m /\ i - 1 \in 0..m + 1 /\ i - 1 # m + 1
          BY <3>2
        <4>2. g[i] = f[i] /\ g[i - 1] = f[i - 1]
          BY <3>2, <4>1
        <4> QED BY <2>1, <3>2, <4>1, <4>2
      <3>3. CASE i = 0
        <4>1. 0 \in 0..m /\ 0 \in 0..m + 1 /\ 0 # m + 1
          OBVIOUS
        <4> QED BY <2>1, <3>3, <4>1
      <3> QED BY <3>1, <3>2, <3>3
    <2>3. Chain(g, m + 1)
      <3>1. g = [i \in 0..m + 1 |-> g[i]]
        OBVIOUS
      <3> HIDE DEF g
      <3> QED BY <2>2, <3>1
    <2>4. \E h : Chain(h, m + 1)
      <3> HIDE DEF g, Chain
      <3> QED BY <2>3
    <2> QED BY <2>4
  <1>3. k \in Long
    <2> HIDE DEF Long
    <2> QED BY <1>1, <1>2, Induction
  <1>4. Chain(F, k)
    BY <1>3
  <1>5. Collected(s, P, k) = F[k]
    BY DEF Collected
  <1> HIDE DEF F
  <1>6. \A i \in 0..k : F[i] = IF i = 0 THEN <<>>
                              ELSE IF i \in P THEN Append(F[i - 1], s[i])
                              ELSE F[i - 1]
    BY <1>4, Zenon
  <1>7. 0 \in 0..k /\ \A i \in 1..k : i \in 0..k /\ i # 0
    OBVIOUS
  <1>8. /\ F[0] = <<>>
        /\ \A i \in 1..k : F[i] = IF i \in P THEN Append(F[i - 1], s[i]) ELSE F[i - 1]
    BY <1>6, <1>7, Zenon
  <1> QED BY <1>5, <1>8

LEMMA CollectedOneMore ==
    ASSUME NEW s, NEW P
    PROVE  /\ Collected(s, P, 0) = <<>>
           /\ \A k \in Nat : Collected(s, P, k + 1)
                               = IF k + 1 \in P THEN Append(Collected(s, P, k), s[k + 1])
                                 ELSE Collected(s, P, k)
  <1>1. Collected(s, P, 0) = <<>>
    BY CollectedSteps
  <1>2. ASSUME NEW k \in Nat
        PROVE  Collected(s, P, k + 1)
                 = IF k + 1 \in P THEN Append(Collected(s, P, k), s[k + 1])
                   ELSE Collected(s, P, k)
    <2>1. PICK f : /\ f[0] = <<>>
                   /\ \A i \in 1..k : f[i] = IF i \in P THEN Append(f[i - 1], s[i])
                                             ELSE f[i - 1]
                   /\ Collected(s, P, k) = f[k]
      BY CollectedSteps
    <2>2. PICK g : /\ g[0] = <<>>
                   /\ \A i \in 1..k + 1 : g[i] = IF i \in P THEN Append(g[i - 1], s[i])
                                                 ELSE g[i - 1]
                   /\ Collected(s, P, k + 1) = g[k + 1]
      <3>1. k + 1 \in Nat
        OBVIOUS
      <3> QED BY <3>1, CollectedSteps
    <2> DEFINE Same == {i \in Nat : i <= k => f[i] = g[i]}
    <2>3. 0 \in Same
      BY <2>1, <2>2
    <2>4. ASSUME NEW i \in Nat, i \in Same PROVE i + 1 \in Same
      <3> SUFFICES ASSUME i + 1 <= k PROVE f[i + 1] = g[i + 1]
        OBVIOUS
      <3>1. i <= k /\ i + 1 \in 1..k /\ i + 1 \in 1..k + 1 /\ (i + 1) - 1 = i
        OBVIOUS
      <3> QED BY <2>1, <2>2, <2>4, <3>1
    <2>5. k \in Same
      <3> HIDE DEF Same
      <3> QED BY <2>3, <2>4, Induction
    <2>6. k + 1 \in 1..k + 1 /\ (k + 1) - 1 = k
      OBVIOUS
    <2> QED BY <2>1, <2>2, <2>5, <2>6
  <1> QED BY <1>1, <1>2

(* It is a sequence of elements of the vector, no longer than what has     *)
(* been looked at.                                                         *)
LEMMA CollectedType ==
    ASSUME NEW S, NEW s \in Seq(S), NEW P, NEW k \in 0..Len(s)
    PROVE  Collected(s, P, k) \in Seq(S) /\ Len(Collected(s, P, k)) <= k
  <1> DEFINE T == {m \in Nat : m <= Len(s) => /\ Collected(s, P, m) \in Seq(S)
                                              /\ Len(Collected(s, P, m)) <= m}
  <1>1. 0 \in T
    <2>1. <<>> \in Seq(S) /\ Len(<<>>) <= 0
      OBVIOUS
    <2>2. Collected(s, P, 0) = <<>>
      BY CollectedOneMore
    <2> QED BY <2>1, <2>2
  <1>2. ASSUME NEW m \in Nat, m \in T PROVE m + 1 \in T
    <2> SUFFICES ASSUME m + 1 <= Len(s)
                 PROVE  /\ Collected(s, P, m + 1) \in Seq(S)
                        /\ Len(Collected(s, P, m + 1)) <= m + 1
      OBVIOUS
    <2>1. PICK c : c = Collected(s, P, m)
      OBVIOUS
    <2>2. c \in Seq(S) /\ Len(c) <= m /\ s[m + 1] \in S
      BY <1>2, <2>1
    <2>3. Collected(s, P, m + 1) = IF m + 1 \in P THEN Append(c, s[m + 1]) ELSE c
      <3>1. \A j \in Nat : Collected(s, P, j + 1)
                            = IF j + 1 \in P THEN Append(Collected(s, P, j), s[j + 1])
                              ELSE Collected(s, P, j)
        BY CollectedOneMore
      <3> QED BY <2>1, <3>1
    <2>4. CASE m + 1 \in P
      BY <2>2, <2>3, <2>4
    <2>5. CASE m + 1 \notin P
      BY <2>2, <2>3, <2>5
    <2> QED BY <2>4, <2>5
  <1> HIDE DEF T
  <1>3. k \in T
    BY <1>1, <1>2, Induction
  <1> QED BY <1>3 DEF T

(* Only the places that have been passed matter. *)
LEMMA CollectedSame ==
    ASSUME NEW s, NEW P, NEW Q, NEW k \in Nat,
           \A i \in 1..k : i \in P <=> i \in Q
    PROVE  Collected(s, P, k) = Collected(s, Q, k)
  <1> DEFINE T == {m \in Nat : m <= k => Collected(s, P, m) = Collected(s, Q, m)}
  <1>1. 0 \in T
    BY CollectedOneMore
  <1>2. ASSUME NEW m \in Nat, m \in T PROVE m + 1 \in T
    <2> SUFFICES ASSUME m + 1 <= k
                 PROVE  Collected(s, P, m + 1) = Collected(s, Q, m + 1)
      OBVIOUS
    <2>1. m + 1 \in P <=> m + 1 \in Q
      OBVIOUS
    <2>2. Collected(s, P, m) = Collected(s, Q, m)
      BY <1>2
    <2>3. Collected(s, P, m + 1) = IF m + 1 \in P THEN Append(Collected(s, P, m), s[m + 1])
                                   ELSE Collected(s, P, m)
      BY CollectedOneMore
    <2>4. Collected(s, Q, m + 1) = IF m + 1 \in Q THEN Append(Collected(s, Q, m), s[m + 1])
                                   ELSE Collected(s, Q, m)
      BY CollectedOneMore
    <2> QED BY <2>1, <2>2, <2>3, <2>4
  <1> HIDE DEF T
  <1>3. k \in T
    BY <1>1, <1>2, Induction
  <1> QED BY <1>3 DEF T

LEMMA SelectedType ==
    ASSUME NEW S, NEW s \in Seq(S), NEW P
    PROVE  Selected(s, P) \in Seq(S)
  BY CollectedType DEF Selected

(* It holds the elements at the places, each once and in their order. *)
LEMMA CollectedPlaces ==
    ASSUME NEW S, NEW s \in Seq(S), NEW P, NEW k \in 0..Len(s)
    PROVE  \E place \in [1..Len(Collected(s, P, k)) -> 1..k] :
              /\ \A j \in 1..Len(Collected(s, P, k)) :
                    place[j] \in P /\ Collected(s, P, k)[j] = s[place[j]]
              /\ \A i, j \in 1..Len(Collected(s, P, k)) : i < j => place[i] < place[j]
              /\ \A i \in 1..k : i \in P => \E j \in 1..Len(Collected(s, P, k)) : place[j] = i
  <1> DEFINE Places(c, m, f) == /\ f \in [1..Len(c) -> 1..m]
                                /\ \A j \in 1..Len(c) : f[j] \in P /\ c[j] = s[f[j]]
                                /\ \A i, j \in 1..Len(c) : i < j => f[i] < f[j]
                                /\ \A i \in 1..m : i \in P => \E j \in 1..Len(c) : f[j] = i
             T == {m \in Nat : m <= Len(s) => \E f : Places(Collected(s, P, m), m, f)}
  <1>1. 0 \in T
    <2>1. Len(<<>>) = 0 /\ Places(<<>>, 0, [j \in 1..0 |-> 0])
      OBVIOUS
    <2>2. Collected(s, P, 0) = <<>>
      BY CollectedOneMore
    <2> HIDE DEF Places
    <2> QED BY <2>1, <2>2
  <1>2. ASSUME NEW m \in Nat, m \in T PROVE m + 1 \in T
    <2> SUFFICES ASSUME m + 1 <= Len(s)
                 PROVE  \E f : Places(Collected(s, P, m + 1), m + 1, f)
      OBVIOUS
    <2>1. PICK c \in Seq(S) : c = Collected(s, P, m)
      BY CollectedType
    <2>2. PICK f : Places(c, m, f)
      BY <1>2, <2>1
    <2>3. Collected(s, P, m + 1) = IF m + 1 \in P THEN Append(c, s[m + 1]) ELSE c
      <3>1. \A j \in Nat : Collected(s, P, j + 1)
                            = IF j + 1 \in P THEN Append(Collected(s, P, j), s[j + 1])
                              ELSE Collected(s, P, j)
        BY CollectedOneMore
      <3> QED BY <2>1, <3>1
    <2>4. CASE m + 1 \notin P
      <3>1. Places(c, m + 1, f)
        BY <2>2, <2>4
      <3> HIDE DEF Places
      <3> QED BY <2>3, <2>4, <3>1
    <2>5. CASE m + 1 \in P
      <3>1. PICK d \in Seq(S) : d = Append(c, s[m + 1])
        <4> HIDE DEF Places
        <4>1. s[m + 1] \in S
          OBVIOUS
        <4>2. Append(c, s[m + 1]) \in Seq(S)
          BY <4>1
        <4> QED BY <4>2
      <3>2. /\ Len(d) = Len(c) + 1 /\ d[Len(c) + 1] = s[m + 1]
            /\ \A j \in 1..Len(c) : d[j] = c[j]
        BY <3>1
      <3> DEFINE g == [j \in 1..Len(d) |-> IF j = Len(d) THEN m + 1 ELSE f[j]]
      <3>3. PICK n \in Nat : n = Len(c)
        OBVIOUS
      <3>4. g = [j \in 1..n + 1 |-> IF j = n + 1 THEN m + 1 ELSE f[j]]
        BY <3>2, <3>3
      <3>5. /\ n + 1 \in 1..n + 1 /\ g[n + 1] = m + 1
            /\ \A j \in 1..n : j \in 1..n + 1 /\ g[j] = f[j]
            /\ \A j \in 1..n + 1 : j # n + 1 => j \in 1..n
        BY <3>4
      <3>6. /\ f \in [1..n -> 1..m]
            /\ \A j \in 1..n : f[j] \in P /\ c[j] = s[f[j]]
            /\ \A i, j \in 1..n : i < j => f[i] < f[j]
            /\ \A i \in 1..m : i \in P => \E j \in 1..n : f[j] = i
        BY <2>2, <3>3
      <3>7. g \in [1..n + 1 -> 1..m + 1]
        BY <3>6, <3>4
      <3> HIDE DEF g, Places
      <3>8. \A j \in 1..n + 1 : g[j] \in P /\ d[j] = s[g[j]]
        BY <3>6, <2>5, <3>2, <3>3, <3>5
      <3>9. \A i, j \in 1..n + 1 : i < j => g[i] < g[j]
        <4> SUFFICES ASSUME NEW i \in 1..n + 1, NEW j \in 1..n + 1, i < j
                     PROVE  g[i] < g[j]
          OBVIOUS
        <4>1. i \in 1..n
          OBVIOUS
        <4>2. g[i] = f[i] /\ f[i] \in 1..m
          BY <3>6, <3>5, <4>1
        <4>3. CASE j = n + 1
          BY <3>5, <4>3, <4>2
        <4>4. CASE j # n + 1
          BY <3>6, <3>5, <4>1, <4>4, <4>2
        <4> QED BY <4>3, <4>4
      <3>10. \A i \in 1..m + 1 : i \in P => \E j \in 1..n + 1 : g[j] = i
        <4> SUFFICES ASSUME NEW i \in 1..m + 1, i \in P
                     PROVE  \E j \in 1..n + 1 : g[j] = i
          OBVIOUS
        <4>1. CASE i = m + 1
          BY <3>5, <4>1
        <4>2. CASE i # m + 1
          <5>1. i \in 1..m
            BY <4>2
          <5>2. PICK j \in 1..n : f[j] = i
            BY <3>6, <5>1, Zenon
          <5> QED BY <3>5, <5>2
        <4> QED BY <4>1, <4>2
      <3>11. Places(d, m + 1, g)
        <4> USE DEF Places
        <4> QED BY <3>2, <3>3, <3>7, <3>8, <3>9, <3>10
      <3> QED BY <2>3, <2>5, <3>1, <3>11
    <2> QED BY <2>4, <2>5
  <1>3. k \in T
    <2> HIDE DEF T
    <2> QED BY <1>1, <1>2, Induction
  <1> QED BY <1>3

(* So it has no duplicates when the vector has none. *)
LEMMA SelectedElements ==
    ASSUME NEW S, NEW s \in Seq(S), NEW P
    PROVE  /\ \A j \in DOMAIN Selected(s, P) :
                 \E i \in DOMAIN s : i \in P /\ Selected(s, P)[j] = s[i]
           /\ \A i \in DOMAIN s :
                 i \in P => \E j \in DOMAIN Selected(s, P) : Selected(s, P)[j] = s[i]
           /\ (\A i, j \in DOMAIN s : s[i] = s[j] => i = j)
                 => \A i, j \in DOMAIN Selected(s, P) :
                       Selected(s, P)[i] = Selected(s, P)[j] => i = j
  <1>1. PICK c \in Seq(S) : c = Selected(s, P)
    BY SelectedType
  <1>2. PICK f \in [1..Len(c) -> 1..Len(s)] :
              /\ \A j \in 1..Len(c) : f[j] \in P /\ c[j] = s[f[j]]
              /\ \A i, j \in 1..Len(c) : i < j => f[i] < f[j]
              /\ \A i \in 1..Len(s) : i \in P => \E j \in 1..Len(c) : f[j] = i
    <2>1. Len(s) \in 0..Len(s)
      OBVIOUS
    <2> QED BY <1>1, <2>1, CollectedPlaces DEF Selected
  <1>3. DOMAIN c = 1..Len(c) /\ DOMAIN s = 1..Len(s)
    OBVIOUS
  <1>4. \A i, j \in 1..Len(c) : f[i] = f[j] => i = j
    <2> SUFFICES ASSUME NEW i \in 1..Len(c), NEW j \in 1..Len(c), f[i] = f[j], i # j
                 PROVE  FALSE
      OBVIOUS
    <2>1. i < j \/ j < i
      OBVIOUS
    <2>2. f[i] \in 1..Len(s) /\ f[j] \in 1..Len(s)
      OBVIOUS
    <2> QED BY <1>2, <2>1, <2>2
  <1> QED BY <1>1, <1>2, <1>3, <1>4

(* All elements of a vector are the vector. *)
LEMMA SelectedAll ==
    ASSUME NEW S, NEW s \in Seq(S), NEW P, DOMAIN s \subseteq P
    PROVE  Selected(s, P) = s
<1> DEFINE T == {m \in Nat : m <= Len(s) => Collected(s, P, m) = SubSeq(s, 1, m)}
<1>1. 0 \in T
  <2>1. SubSeq(s, 1, 0) = <<>>
    OBVIOUS
  <2>. QED
    BY <2>1, CollectedOneMore
<1>2. ASSUME NEW m \in Nat, m \in T PROVE m + 1 \in T
  <2> SUFFICES ASSUME m + 1 <= Len(s)
               PROVE  Collected(s, P, m + 1) = SubSeq(s, 1, m + 1)
    OBVIOUS
  <2>1. Collected(s, P, m) = SubSeq(s, 1, m) /\ m + 1 \in P
    BY <1>2
  <2>2. Collected(s, P, m + 1) = IF m + 1 \in P THEN Append(Collected(s, P, m), s[m + 1])
                                 ELSE Collected(s, P, m)
    BY CollectedOneMore
  <2>3. SubSeq(s, 1, m + 1) = Append(SubSeq(s, 1, m), s[m + 1])
    BY PrefixOneMore
  <2>. QED
    BY <2>1, <2>2, <2>3
<1>3. Len(s) \in T
  <2>1. Len(s) \in Nat
    OBVIOUS
  <2> HIDE DEF T
  <2>. QED
    BY <1>1, <1>2, <2>1, Induction
<1>4. SubSeq(s, 1, Len(s)) = s /\ Len(s) <= Len(s)
  OBVIOUS
<1>. QED
  BY <1>3, <1>4 DEF Selected

(* Putting sequences end to end takes one of them after the other. *)
LEMMA FlattenedSteps ==
    ASSUME NEW ss, NEW n \in Nat, n = Len(ss), n # 0
    PROVE  \E f : /\ \A i \in 1..n : f[i] = IF i = 1 THEN ss[i] ELSE f[i - 1] \o ss[i]
                  /\ FlattenSeq(ss) = f[n]
<1> DEFINE Chain(f, m) == f = [i \in 1..m |-> IF i = 1 THEN ss[i] ELSE f[i - 1] \o ss[i]]
           Long == {m \in Nat : \E f : Chain(f, m)}
           F == CHOOSE f : Chain(f, Len(ss))
<1>1. 0 \in Long
  <2>1. Chain([i \in 1..0 |-> <<>>], 0)
    OBVIOUS
  <2>. QED
    BY <2>1
<1>2. ASSUME NEW m \in Nat, m \in Long PROVE m + 1 \in Long
  <2>1. PICK f : Chain(f, m)
    BY <1>2
  <2> DEFINE g == [i \in 1..m + 1 |-> IF i = m + 1
                                        THEN IF i = 1 THEN ss[i] ELSE f[m] \o ss[i]
                                        ELSE f[i]]
  <2>2. ASSUME NEW i \in 1..m + 1
        PROVE  g[i] = IF i = 1 THEN ss[i] ELSE g[i - 1] \o ss[i]
    <3>1. CASE i = m + 1 /\ i # 1
      <4>1. i - 1 = m /\ m \in 1..m + 1 /\ m # m + 1
        BY <3>1
      <4>2. g[m] = f[m]
        BY <4>1
      <4>. QED
        BY <3>1, <4>1, <4>2
    <3>2. CASE i # m + 1 /\ i # 1
      <4>1. i \in 1..m /\ i - 1 \in 1..m + 1 /\ i - 1 # m + 1
        BY <3>2
      <4>2. g[i] = f[i] /\ g[i - 1] = f[i - 1]
        BY <3>2, <4>1
      <4>. QED
        BY <2>1, <3>2, <4>1, <4>2
    <3>3. CASE i = 1
      <4>1. CASE m = 0
        BY <3>3, <4>1
      <4>2. CASE m # 0
        <5>1. i \in 1..m /\ i # m + 1
          BY <3>3, <4>2
        <5>. QED
          BY <2>1, <3>3, <5>1
      <4>. QED
        BY <4>1, <4>2
    <3>. QED
      BY <3>1, <3>2, <3>3
  <2>3. Chain(g, m + 1)
    <3>1. g = [i \in 1..m + 1 |-> g[i]]
      OBVIOUS
    <3> HIDE DEF g
    <3>. QED
      BY <2>2, <3>1
  <2>4. \E h : Chain(h, m + 1)
    <3> HIDE DEF g, Chain
    <3>. QED
      BY <2>3
  <2> HIDE DEF Chain
  <2>. QED
    BY <2>4
<1>3. Len(ss) \in Long
  <2> HIDE DEF Long
  <2>. QED
    BY <1>1, <1>2, Induction
<1>4. Chain(F, n)
  BY <1>3
<1>5. FlattenSeq(ss) = F[n]
  BY DEF FlattenSeq
<1> HIDE DEF F
<1>6. \A i \in 1..n : F[i] = IF i = 1 THEN ss[i] ELSE F[i - 1] \o ss[i]
  BY <1>4, Zenon
<1>. QED
  BY <1>5, <1>6

LEMMA FlattenedOneMore ==
    ASSUME NEW S, NEW ss \in Seq(Seq(S)), NEW s \in Seq(S)
    PROVE  FlattenSeq(Append(ss, s)) = FlattenSeq(ss) \o s
<1>1. PICK n \in Nat : n = Len(ss)
  OBVIOUS
<1>2. PICK tt \in Seq(Seq(S)) : tt = Append(ss, s)
  <2>1. Append(ss, s) \in Seq(Seq(S))
    OBVIOUS
  <2>. QED
    BY <2>1
<1>3. Len(tt) = n + 1 /\ tt[n + 1] = s /\ \A i \in 1..n : tt[i] = ss[i]
  BY <1>1, <1>2
<1>4. PICK g : /\ \A i \in 1..n + 1 : g[i] = IF i = 1 THEN tt[i] ELSE g[i - 1] \o tt[i]
               /\ FlattenSeq(tt) = g[n + 1]
  BY <1>3, FlattenedSteps
<1>5. CASE n = 0
  <2>1. FlattenSeq(tt) = s
    BY <1>3, <1>4, <1>5
  <2>2. FlattenSeq(ss) = <<>>
    <3>1. FlattenSeq(ss) = ss
      BY <1>1, <1>5 DEF FlattenSeq
    <3>2. \A U : ss \in Seq(U) /\ Len(ss) = 0 => ss = <<>>
      OBVIOUS
    <3>3. ss = <<>>
      BY <1>1, <1>5, <3>2
    <3>. QED
      BY <3>1, <3>3
  <2>3. <<>> \o s = s
    OBVIOUS
  <2>. QED
    BY <1>2, <2>1, <2>2, <2>3
<1>6. CASE n # 0
  <2>1. PICK f : /\ \A i \in 1..n : f[i] = IF i = 1 THEN ss[i] ELSE f[i - 1] \o ss[i]
                 /\ FlattenSeq(ss) = f[n]
    BY <1>1, <1>6, FlattenedSteps
  <2> DEFINE T == {i \in Nat : i \in 1..n => f[i] = g[i]}
  <2>2. 0 \in T
    OBVIOUS
  <2>3. ASSUME NEW i \in Nat, i \in T PROVE i + 1 \in T
    <3>1. i + 1 \in Nat /\ (i + 1) - 1 = i /\ (i + 1 \in 1..n => i + 1 \in 1..n + 1)
      OBVIOUS
    <3>2. i # 0 /\ i + 1 \in 1..n => i \in 1..n /\ i + 1 # 1
      OBVIOUS
    <3>3. ASSUME i + 1 \in 1..n PROVE f[i + 1] = g[i + 1]
      <4>1. CASE i = 0
        BY <1>3, <1>4, <2>1, <3>1, <3>3, <4>1
      <4>2. CASE i # 0
        BY <1>3, <1>4, <2>1, <2>3, <3>1, <3>2, <3>3, <4>2
      <4>. QED
        BY <4>1, <4>2
    <3>. QED
      BY <3>1, <3>3
  <2>4. n \in T
    <3> HIDE DEF T
    <3>. QED
      BY <2>2, <2>3, Induction
  <2>5. n \in 1..n /\ n + 1 \in 1..n + 1 /\ n + 1 # 1 /\ (n + 1) - 1 = n
    BY <1>6
  <2>6. g[n + 1] = g[n] \o s
    BY <1>3, <1>4, <2>5
  <2>. QED
    BY <1>2, <1>4, <2>1, <2>4, <2>5, <2>6
<1>. QED
  BY <1>5, <1>6

(* What sequences put end to end hold *)
LEMMA FlattenedElements ==
    ASSUME NEW S, NEW ss \in Seq(Seq(S))
    PROVE  /\ FlattenSeq(ss) \in Seq(S)
           /\ \A i \in DOMAIN FlattenSeq(ss) :
                 \E k \in DOMAIN ss, j \in Nat : /\ j \in DOMAIN ss[k]
                                                 /\ FlattenSeq(ss)[i] = ss[k][j]
           /\ \A k \in DOMAIN ss : \A j \in DOMAIN ss[k] :
                 \E i \in DOMAIN FlattenSeq(ss) : FlattenSeq(ss)[i] = ss[k][j]
<1> DEFINE n == Len(ss)
<1>0. CASE n = 0
  <2>1. FlattenSeq(ss) = ss /\ DOMAIN ss = {}
    BY <1>0 DEF FlattenSeq
  <2>2. ss \in Seq(S)
    BY <1>0
  <2>. QED
    BY <2>1, <2>2
<1>1. CASE n # 0
  <2>5. PICK F : /\ \A i \in 1..n : F[i] = IF i = 1 THEN ss[i] ELSE F[i - 1] \o ss[i]
                 /\ FlattenSeq(ss) = F[n]
    BY <1>1, FlattenedSteps
  <2>6. \A i \in 1..n : F[i] = IF i = 1 THEN ss[i] ELSE F[i - 1] \o ss[i]
    BY <2>5
  <2>7. n \in Nat /\ DOMAIN ss = 1..n /\ \A k \in 1..n : ss[k] \in Seq(S)
    OBVIOUS
  <2> HIDE DEF n
  <2> DEFINE Whole(m) ==
          /\ F[m] \in Seq(S)
          /\ \A i \in DOMAIN F[m] :
                \E k \in 1..m, j \in Nat : j \in DOMAIN ss[k] /\ F[m][i] = ss[k][j]
          /\ \A k \in 1..m : \A j \in DOMAIN ss[k] : \E i \in DOMAIN F[m] : F[m][i] = ss[k][j]
             T == {m \in Nat : m \in 1..n => Whole(m)}
  <2>8. 0 \in T
    OBVIOUS
  <2>9. ASSUME NEW m \in Nat, m \in T PROVE m + 1 \in T
    <3>0. m + 1 \in Nat
      OBVIOUS
    <3> SUFFICES ASSUME m + 1 \in 1..n PROVE Whole(m + 1)
      BY <3>0, Zenon
    <3>1. PICK t \in Seq(S) : t = ss[m + 1]
      BY <2>7
    <3>2. DOMAIN t = 1..Len(t) /\ Len(t) \in Nat
      OBVIOUS
    <3>3. CASE m = 0
      <4>1. F[m + 1] = t
        BY <2>6, <3>1, <3>3
      <4>2. 1..m + 1 = {1} /\ m + 1 = 1
        BY <3>3
      <4>. QED
        BY <3>1, <3>2, <4>1, <4>2
    <3>4. CASE m # 0
      <4>1. m \in 1..n /\ m + 1 # 1 /\ (m + 1) - 1 = m
        BY <2>7, <3>4
      <4>2. Whole(m)
        BY <2>9, <4>1
      <4>3. PICK s \in Seq(S) : s = F[m]
        BY <4>2
      <4>4. F[m + 1] = s \o t
        BY <2>6, <3>1, <4>1, <4>3
      <4>5. /\ s \o t \in Seq(S) /\ Len(s \o t) = Len(s) + Len(t)
            /\ \A i \in 1..Len(s) + Len(t) :
                  (s \o t)[i] = IF i <= Len(s) THEN s[i] ELSE t[i - Len(s)]
        BY ConcatPlaces
      <4>6. PICK u \in Seq(S) : u = s \o t
        BY <4>5
      <4>7. /\ DOMAIN s = 1..Len(s) /\ Len(s) \in Nat
            /\ DOMAIN u = 1..Len(s) + Len(t)
            /\ \A i \in 1..Len(s) + Len(t) : u[i] = IF i <= Len(s) THEN s[i] ELSE t[i - Len(s)]
        BY <4>5, <4>6
      <4>8. ASSUME NEW i \in DOMAIN u
            PROVE  \E k \in 1..m + 1, j \in Nat : j \in DOMAIN ss[k] /\ u[i] = ss[k][j]
        <5>1. CASE i <= Len(s)
          <6>1. i \in DOMAIN s /\ u[i] = s[i]
            BY <3>2, <4>7, <4>8, <5>1
          <6>2. PICK k \in 1..m, j \in Nat : j \in DOMAIN ss[k] /\ s[i] = ss[k][j]
            BY <4>2, <4>3, <6>1
          <6>3. k \in 1..m + 1
            OBVIOUS
          <6>. QED
            BY <6>1, <6>2, <6>3
        <5>2. CASE ~(i <= Len(s))
          <6>1. i - Len(s) \in DOMAIN t /\ i - Len(s) \in Nat /\ u[i] = t[i - Len(s)]
            BY <3>2, <4>7, <4>8, <5>2
          <6>2. m + 1 \in 1..m + 1
            OBVIOUS
          <6>. QED
            BY <3>1, <6>1, <6>2
        <5>. QED
          BY <5>1, <5>2
      <4>9. ASSUME NEW k \in 1..m + 1, NEW j \in DOMAIN ss[k]
            PROVE  \E i \in DOMAIN u : u[i] = ss[k][j]
        <5>1. CASE k = m + 1
          <6>1. j \in 1..Len(t) /\ ss[k][j] = t[j]
            BY <3>1, <3>2, <4>9, <5>1
          <6>2. /\ Len(s) + j \in DOMAIN u
                /\ u[Len(s) + j] = t[(Len(s) + j) - Len(s)]
                /\ (Len(s) + j) - Len(s) = j
            BY <3>2, <4>7, <6>1
          <6>. QED
            BY <6>1, <6>2
        <5>2. CASE k # m + 1
          <6>1. k \in 1..m
            BY <5>2
          <6>2. PICK i \in DOMAIN s : s[i] = ss[k][j]
            BY <4>2, <4>3, <4>9, <6>1
          <6>3. i \in DOMAIN u /\ u[i] = s[i]
            BY <3>2, <4>7, <6>2
          <6>. QED
            BY <6>2, <6>3
        <5>. QED
          BY <5>1, <5>2
      <4>10. F[m + 1] = u
        BY <4>4, <4>6
      <4>. QED
        BY <4>8, <4>9, <4>10
    <3>. QED
      BY <3>3, <3>4
  <2>10. n \in T
    <3> HIDE DEF T
    <3>. QED
      BY <2>7, <2>8, <2>9, Induction
  <2>11. n \in 1..n
    BY <1>1, <2>7
  <2>12. Whole(n)
    BY <2>10, <2>11
  <2>13. PICK w \in Seq(S) : w = F[n]
    BY <2>12
  <2>14. /\ \A i \in DOMAIN w : \E k \in 1..n, j \in Nat : j \in DOMAIN ss[k] /\ w[i] = ss[k][j]
         /\ \A k \in 1..n : \A j \in DOMAIN ss[k] : \E i \in DOMAIN w : w[i] = ss[k][j]
    BY <2>12, <2>13
  <2>15. FlattenSeq(ss) = w
    BY <2>5, <2>13
  <2>16. /\ \A i \in DOMAIN w :
               \E k \in DOMAIN ss, j \in Nat : j \in DOMAIN ss[k] /\ w[i] = ss[k][j]
         /\ \A k \in DOMAIN ss : \A j \in DOMAIN ss[k] : \E i \in DOMAIN w : w[i] = ss[k][j]
    BY <2>7, <2>14, Zenon
  <2>17. w \in Seq(S)
    OBVIOUS
  <2>. QED
    BY <2>15, <2>16, <2>17, Zenon
<1>. QED
  BY <1>0, <1>1

LEMMA OneElement ==
    ASSUME NEW S, NEW s \in Seq(S), Len(s) = 1
    PROVE  s[1] \in S /\ <<>> \in Seq(S) /\ Tail(s) = <<>> /\ s = Append(<<>>, s[1])
<1>1. s[1] \in S /\ <<>> \in Seq(S)
  OBVIOUS
<1>2. s = Append(<<>>, s[1])
  <2>1. PICK x \in S : x = s[1]
    BY <1>1
  <2>2. Append(<<>>, x) \in Seq(S) /\ Len(Append(<<>>, x)) = 1 /\ Append(<<>>, x)[1] = x
    OBVIOUS
  <2>3. PICK u \in Seq(S) : u = Append(<<>>, x)
    BY <2>2
  <2>4. u = s
    BY <2>1, <2>2, <2>3
  <2>. QED
    BY <2>1, <2>3, <2>4
<1>3. Tail(s) \in Seq(S) /\ Len(Tail(s)) = 0
  OBVIOUS
<1>4. PICK t \in Seq(S) : t = Tail(s)
  BY <1>3
<1>5. Len(t) = 0
  BY <1>3, <1>4
<1>6. t = <<>>
  BY <1>5
<1>. QED
  BY <1>1, <1>2, <1>4, <1>6

(* Or the first of them and then the others. *)
LEMMA FlattenedFirst ==
    ASSUME NEW S, NEW ss \in Seq(Seq(S)), ss # <<>>
    PROVE  FlattenSeq(ss) = ss[1] \o FlattenSeq(Tail(ss))
<1> DEFINE T == {n \in Nat : \A tt \in Seq(Seq(S)) :
                    Len(tt) = n + 1 => FlattenSeq(tt) = tt[1] \o FlattenSeq(Tail(tt))}
<1>1. 0 \in T
  <2> SUFFICES ASSUME NEW tt \in Seq(Seq(S)), Len(tt) = 1
               PROVE  FlattenSeq(tt) = tt[1] \o FlattenSeq(Tail(tt))
    OBVIOUS
  <2> HIDE DEF T
  <2>1. PICK s \in Seq(S) : s = tt[1]
    BY OneElement, Zenon
  <2>2. tt = Append(<<>>, s) /\ Tail(tt) = <<>> /\ <<>> \in Seq(Seq(S))
    BY <2>1, OneElement, Zenon
  <2>3. FlattenSeq(tt) = FlattenSeq(<<>>) \o s
    BY <2>2, FlattenedOneMore
  <2>4. FlattenSeq(<<>>) = <<>>
    BY DEF FlattenSeq
  <2>5. <<>> \o s = s /\ s \o <<>> = s
    OBVIOUS
  <2>. QED
    BY <2>1, <2>2, <2>3, <2>4, <2>5
<1>2. ASSUME NEW n \in Nat, n \in T PROVE n + 1 \in T
  <2> SUFFICES ASSUME NEW tt \in Seq(Seq(S)), Len(tt) = (n + 1) + 1
               PROVE  FlattenSeq(tt) = tt[1] \o FlattenSeq(Tail(tt))
    OBVIOUS
  <2>1. PICK s \in Seq(S) : s = tt[Len(tt)]
    OBVIOUS
  <2>2. PICK uu \in Seq(Seq(S)) : uu = SubSeq(tt, 1, n + 1)
    <3>1. SubSeq(tt, 1, n + 1) \in Seq(Seq(S))
      OBVIOUS
    <3>. QED
      BY <3>1
  <2>3. tt = Append(uu, s) /\ Len(uu) = n + 1 /\ uu[1] = tt[1]
    BY <2>1, <2>2
  <2>4. PICK vv \in Seq(Seq(S)) : vv = Tail(uu)
    <3>1. Tail(uu) \in Seq(Seq(S))
      BY <2>3
    <3>. QED
      BY <3>1
  <2>5. Tail(tt) = Append(vv, s)
    BY <2>3, <2>4
  <2>6. PICK w \in Seq(S) : w = FlattenSeq(vv)
    BY FlattenedElements
  <2>7. FlattenSeq(uu) = uu[1] \o w
    BY <1>2, <2>3, <2>4, <2>6
  <2>8. FlattenSeq(tt) = FlattenSeq(uu) \o s /\ FlattenSeq(Tail(tt)) = w \o s
    BY <2>3, <2>5, <2>6, FlattenedOneMore
  <2>9. PICK a \in Seq(S) : a = tt[1]
    OBVIOUS
  <2>10. (a \o w) \o s = a \o (w \o s)
    OBVIOUS
  <2>. QED
    BY <2>3, <2>7, <2>8, <2>9, <2>10
<1>3. Len(ss) - 1 \in T /\ (Len(ss) - 1) + 1 = Len(ss)
  <2>1. Len(ss) - 1 \in Nat /\ (Len(ss) - 1) + 1 = Len(ss)
    OBVIOUS
  <2> HIDE DEF T
  <2>. QED
    BY <1>1, <1>2, <2>1, Induction
<1>. QED
  BY <1>3
-----------------------------------------------------------------------------
(* What the erasing loop erases: an id to erase, unless it has just erased *)
(* the one before.                                                         *)
LEMMA ErasedPlaces ==
    ASSUME NEW S, NEW s \in Seq(S), NEW V
    PROVE  /\ Erased(s, V) \subseteq 1..Len(s)
           /\ \A i \in 1..Len(s) :
                 i \in Erased(s, V) <=> s[i] \in V /\ i - 1 \notin Erased(s, V)
  <1> DEFINE Chain(f, m) == f = [i \in 0..m |-> i > 0 /\ s[i] \in V /\ ~f[i - 1]]
             Long == {m \in Nat : \E f : Chain(f, m)}
             F == CHOOSE f : Chain(f, Len(s))
  <1>1. 0 \in Long
    <2> DEFINE none == [i \in 0..0 |-> FALSE]
    <2>1. \A i \in 0..0 : FALSE = (i > 0 /\ s[i] \in V /\ ~none[i - 1])
      OBVIOUS
    <2>2. Chain(none, 0)
      BY <2>1
    <2> QED BY <2>2
  <1>2. ASSUME NEW m \in Nat, m \in Long PROVE m + 1 \in Long
    <2>1. PICK f : Chain(f, m)
      BY <1>2
    <2> DEFINE g == [i \in 0..m + 1 |-> IF i = m + 1 THEN s[i] \in V /\ ~f[m] ELSE f[i]]
    <2>2. ASSUME NEW i \in 0..m + 1
          PROVE  g[i] = (i > 0 /\ s[i] \in V /\ ~g[i - 1])
      <3>1. CASE i = m + 1
        <4>1. i > 0 /\ i - 1 = m /\ m \in 0..m + 1 /\ m # m + 1
          BY <3>1
        <4>2. g[m] = f[m] /\ g[i] = (s[i] \in V /\ ~f[m])
          BY <3>1, <4>1
        <4> HIDE DEF g
        <4> QED BY <4>1, <4>2, Zenon
      <3>2. CASE i # m + 1 /\ i # 0
        <4>1. i \in 0..m /\ i - 1 \in 0..m + 1 /\ i - 1 # m + 1
          BY <3>2
        <4>2. g[i] = f[i] /\ g[i - 1] = f[i - 1]
          BY <3>2, <4>1
        <4>3. f[i] = (i > 0 /\ s[i] \in V /\ ~f[i - 1])
          BY <2>1, <4>1, Zenon
        <4> HIDE DEF g
        <4> QED BY <4>2, <4>3, Zenon
      <3>3. CASE i = 0
        <4>1. 0 \in 0..m /\ 0 \in 0..m + 1 /\ 0 # m + 1 /\ ~(0 > 0)
          OBVIOUS
        <4>2. g[0] = f[0]
          BY <4>1
        <4>3. f[0] = (0 > 0 /\ s[0] \in V /\ ~f[0 - 1])
          BY <2>1, <4>1, Zenon
        <4> HIDE DEF g
        <4> QED BY <3>3, <4>1, <4>2, <4>3, Zenon
      <3> QED BY <3>1, <3>2, <3>3
    <2>3. Chain(g, m + 1)
      <3>1. g = [i \in 0..m + 1 |-> g[i]]
        OBVIOUS
      <3> HIDE DEF g
      <3> QED BY <2>2, <3>1, Zenon
    <2>4. \E h : Chain(h, m + 1)
      <3> HIDE DEF g, Chain
      <3> QED BY <2>3
    <2> QED BY <2>4
  <1>3. Len(s) \in Long
    <2> HIDE DEF Long
    <2> QED BY <1>1, <1>2, Induction
  <1>4. Chain(F, Len(s))
    BY <1>3
  <1>5. Erased(s, V) = {i \in DOMAIN s : F[i]}
    BY DEF Erased
  <1> HIDE DEF F
  <1>6. \A i \in 0..Len(s) : F[i] = (i > 0 /\ s[i] \in V /\ ~F[i - 1])
    BY <1>4, Zenon
  <1>7. ASSUME NEW i \in 1..Len(s)
        PROVE  i \in Erased(s, V) <=> s[i] \in V /\ i - 1 \notin Erased(s, V)
    <2>1. /\ i \in 0..Len(s) /\ i > 0 /\ i \in DOMAIN s
          /\ 0 \in 0..Len(s) /\ ~(0 > 0) /\ (i - 1 \in DOMAIN s <=> i - 1 # 0)
      OBVIOUS
    <2>2. ~F[0]
      BY <1>6, <2>1, Zenon
    <2>3. i - 1 \in Erased(s, V) <=> i - 1 # 0 /\ F[i - 1]
      BY <1>5, <2>1, Zenon
    <2>4. F[i] <=> s[i] \in V /\ ~F[i - 1]
      BY <1>6, <2>1, Zenon
    <2> QED BY <1>5, <2>1, <2>2, <2>3, <2>4, Zenon
  <1> QED BY <1>5, <1>7

LEMMA RemainingType ==
    ASSUME NEW S, NEW s \in Seq(S), NEW V
    PROVE  Remaining(s, V) \in Seq(S)
  BY SelectedType DEF Remaining

(* Of a vector without duplicates one id is erased, wherever it is, and    *)
(* nothing else.                                                           *)
LEMMA OneIdErased ==
    ASSUME NEW S, NEW s \in Seq(S), \A i, j \in DOMAIN s : s[i] = s[j] => i = j,
           NEW V, \A u, v \in V : u = v
    PROVE  /\ ~OverrunsEnd(s, V)
           /\ Remaining(s, V) = Selected(s, Others(s, V))
  <1>1. Erased(s, V) \subseteq 1..Len(s) /\ DOMAIN s = 1..Len(s)
    BY ErasedPlaces
  <1>2. ASSUME NEW j \in 1..Len(s) PROVE j \in Erased(s, V) <=> s[j] \in V
    <2>1. j - 1 \in Erased(s, V) /\ s[j] \in V => FALSE
      <3> SUFFICES ASSUME j - 1 \in Erased(s, V), s[j] \in V PROVE FALSE
        OBVIOUS
      <3>1. j - 1 \in 1..Len(s) /\ j - 1 # j
        BY <1>1
      <3>2. s[j - 1] \in V
        BY <3>1, ErasedPlaces
      <3>3. s[j - 1] = s[j]
        BY <3>2
      <3> QED BY <1>1, <3>1, <3>3
    <2>2. j \in Erased(s, V) <=> s[j] \in V /\ j - 1 \notin Erased(s, V)
      BY ErasedPlaces
    <2> QED BY <2>1, <2>2
  <1>3. ~OverrunsEnd(s, V)
    <2> SUFFICES ASSUME NEW j \in Erased(s, V), j # Len(s), s[Len(s)] \in V PROVE FALSE
      BY DEF OverrunsEnd
    <2>1. j \in 1..Len(s) /\ Len(s) \in 1..Len(s)
      BY <1>1
    <2>2. s[j] = s[Len(s)]
      BY <1>2, <2>1
    <2> QED BY <1>1, <2>1, <2>2
  <1>4. DOMAIN s \ Erased(s, V) = Others(s, V)
    BY <1>1, <1>2 DEF Others
  <1> QED BY <1>3, <1>4 DEF Remaining
=============================================================================
