------------------------- MODULE CalendarDateProofs -------------------------
(***************************************************************************)
(* What is true of the dates of CalendarDate for every year: days and      *)
(* dates correspond one to one, the methods added to Date do what their    *)
(* names say (the lengths of months, ISO 8601 weeks, setFullYear that      *)
(* clamps 29 February), parseDate always finds a date, and what is printed *)
(* is read back.  Folds over the words of a text are functions that refer  *)
(* to themselves; facts about all their values are proved by the least     *)
(* index at which they would fail (LeastOf).                               *)
(***************************************************************************)
EXTENDS CalendarDate, WellFoundedInduction, TLAPS

\* The leap day of a year.
LeapDay(y) == IF IsLeap(y) THEN 1 ELSE 0

\* The days of the years before year y.
DaysBeforeYear(y) ==
    365 * (y - 1) + ((y - 1) \div 4) - ((y - 1) \div 100) + ((y - 1) \div 400)

\* The length of month m of year y, the month after December being January.
MonthLength(y, m) ==
    IF m = 1 THEN 28 + LeapDay(y) ELSE IF m \in {3, 5, 8, 10} THEN 30 ELSE 31

\* A date of the calendar.
IsDate(y, m, d) ==
    /\ y \in Int /\ m \in 0..11 /\ d \in Int
    /\ 1 <= d /\ d <= MonthLength(y, m)

\* A leap year has one day more.
LEMMA LeapDayIsDay == ASSUME NEW y PROVE LeapDay(y) \in 0..1
BY DEF LeapDay

\* The days before a year are a number.
LEMMA DaysBeforeYearIsInt == ASSUME NEW y \in Int PROVE DaysBeforeYear(y) \in Int
BY SMT DEF DaysBeforeYear

\* The table of DaysBeforeMonth, month by month.
LEMMA MonthTable ==
    ASSUME NEW y
    PROVE  /\ DaysBeforeMonth(y, 0) = 0
           /\ DaysBeforeMonth(y, 1) = 31
           /\ DaysBeforeMonth(y, 2) = 59 + LeapDay(y)
           /\ DaysBeforeMonth(y, 3) = 90 + LeapDay(y)
           /\ DaysBeforeMonth(y, 4) = 120 + LeapDay(y)
           /\ DaysBeforeMonth(y, 5) = 151 + LeapDay(y)
           /\ DaysBeforeMonth(y, 6) = 181 + LeapDay(y)
           /\ DaysBeforeMonth(y, 7) = 212 + LeapDay(y)
           /\ DaysBeforeMonth(y, 8) = 243 + LeapDay(y)
           /\ DaysBeforeMonth(y, 9) = 273 + LeapDay(y)
           /\ DaysBeforeMonth(y, 10) = 304 + LeapDay(y)
           /\ DaysBeforeMonth(y, 11) = 334 + LeapDay(y)
BY SMTT(30) DEF DaysBeforeMonth, LeapDay

\* For a month of the year DayNumber needs no carry.
LEMMA DayNumberOfMonth ==
    ASSUME NEW y \in Int, NEW m \in 0..11, NEW d \in Int
    PROVE  DayNumber(y, m, d) = DaysBeforeYear(y) + DaysBeforeMonth(y, m) + d
<1>1. m \div 12 = 0 /\ m % 12 = m
  BY SMT
<1>2. y + (m \div 12) - 1 + 1 = y
  BY <1>1, SMT
<1>. QED
  BY <1>1, <1>2, SMT DEF DayNumber, DaysBeforeYear

\* A year is 365 days long, a leap year 366.
LEMMA NextYear ==
    ASSUME NEW y \in Int
    PROVE  DaysBeforeYear(y + 1) = DaysBeforeYear(y) + 365 + LeapDay(y)
BY SMTT(30) DEF DaysBeforeYear, LeapDay, IsLeap

\* A later year starts after all the days of an earlier one.
LEMMA LaterYear ==
    ASSUME NEW y \in Int, NEW z \in Int, y < z
    PROVE  DaysBeforeYear(y) + 365 + LeapDay(y) <= DaysBeforeYear(z)
<1>1. \A a, b \in Int : a <= b =>
          (a \div 4) - (a \div 100) + (a \div 400)
              <= (b \div 4) - (b \div 100) + (b \div 400)
  BY SMTT(30)
<1>2. (y \div 4) - (y \div 100) + (y \div 400)
          <= ((z - 1) \div 4) - ((z - 1) \div 100) + ((z - 1) \div 400)
  <2>1. z - 1 \in Int /\ y <= z - 1
    BY SMT
  <2>. QED
    BY <1>1, <2>1, Zenon
<1>3. DaysBeforeYear(y + 1) <= DaysBeforeYear(z)
  BY <1>2, SMTT(30) DEF DaysBeforeYear
<1>. QED
  BY <1>3, NextYear

\* The months of a year follow each other without a gap.
LEMMA NextMonth ==
    ASSUME NEW y \in Int, NEW m \in 0..11
    PROVE  DaysBeforeMonth(y, m) + MonthLength(y, m)
               = IF m = 11 THEN 365 + LeapDay(y) ELSE DaysBeforeMonth(y, m + 1)
BY MonthTable, LeapDayIsDay, SMT DEF MonthLength

\* A later month of a year starts after all the days of an earlier one.
LEMMA LaterMonth ==
    ASSUME NEW y \in Int, NEW m \in 0..11, NEW k \in 0..11, m < k
    PROVE  DaysBeforeMonth(y, m) + MonthLength(y, m) <= DaysBeforeMonth(y, k)
BY MonthTable, LeapDayIsDay, SMTT(30) DEF MonthLength

\* The months of a year fit into it.
LEMMA DaysOfYear ==
    ASSUME NEW y \in Int, NEW m \in 0..11
    PROVE  /\ DaysBeforeMonth(y, m) \in Int
           /\ 0 <= DaysBeforeMonth(y, m)
           /\ DaysBeforeMonth(y, m) + MonthLength(y, m) <= 365 + LeapDay(y)
           /\ MonthLength(y, m) \in 28..31
BY MonthTable, LeapDayIsDay, SMTT(30) DEF MonthLength

-----------------------------------------------------------------------------
(* A date has one number, and a number one date. *)

\* A day has a number whatever its year, month and day of the month are.
LEMMA DayNumberIsInt ==
    ASSUME NEW y \in Int, NEW m \in Int, NEW d \in Int
    PROVE  DayNumber(y, m, d) \in Int
<1>1. m % 12 \in 0..11 /\ m \div 12 \in Int
  BY SMT
<1>2. DaysBeforeMonth(y + (m \div 12) - 1 + 1, m % 12) \in Int
  <2> DEFINE z == y + (m \div 12) - 1 + 1
             k == m % 12
  <2>1. z \in Int /\ k \in 0..11
    BY <1>1, SMT
  <2> HIDE DEF z, k
  <2>2. DaysBeforeMonth(z, k) \in Int
    BY <2>1, DaysOfYear
  <2>. QED
    BY <2>2 DEF z, k
<1>. QED
  BY <1>1, <1>2, SMT DEF DayNumber

\* Two dates of the calendar with one number are one date.
LEMMA DayNumberIsInjective ==
    ASSUME NEW y, NEW m, NEW d, IsDate(y, m, d),
           NEW z, NEW k, NEW e, IsDate(z, k, e),
           DayNumber(y, m, d) = DayNumber(z, k, e)
    PROVE  y = z /\ m = k /\ d = e
<1>1. /\ y \in Int /\ m \in 0..11 /\ d \in Int /\ 1 <= d /\ d <= MonthLength(y, m)
      /\ z \in Int /\ k \in 0..11 /\ e \in Int /\ 1 <= e /\ e <= MonthLength(z, k)
  BY DEF IsDate
<1>2. DaysBeforeYear(y) + DaysBeforeMonth(y, m) + d
          = DaysBeforeYear(z) + DaysBeforeMonth(z, k) + e
  BY <1>1, DayNumberOfMonth
<1>3. DaysBeforeYear(y) \in Int /\ DaysBeforeYear(z) \in Int
  BY <1>1, SMT DEF DaysBeforeYear
<1>4. /\ DaysBeforeMonth(y, m) \in Int /\ 0 <= DaysBeforeMonth(y, m)
      /\ DaysBeforeMonth(y, m) + MonthLength(y, m) <= 365 + LeapDay(y)
      /\ MonthLength(y, m) \in 28..31 /\ LeapDay(y) \in 0..1
  BY <1>1, DaysOfYear, LeapDayIsDay
<1>5. /\ DaysBeforeMonth(z, k) \in Int /\ 0 <= DaysBeforeMonth(z, k)
      /\ DaysBeforeMonth(z, k) + MonthLength(z, k) <= 365 + LeapDay(z)
      /\ MonthLength(z, k) \in 28..31 /\ LeapDay(z) \in 0..1
  BY <1>1, DaysOfYear, LeapDayIsDay
<1>6. y = z
  <2>1. y < z => DaysBeforeYear(y) + 365 + LeapDay(y) <= DaysBeforeYear(z)
    BY <1>1, LaterYear
  <2>2. z < y => DaysBeforeYear(z) + 365 + LeapDay(z) <= DaysBeforeYear(y)
    BY <1>1, LaterYear
  <2>. QED
    BY <1>1, <1>2, <1>3, <1>4, <1>5, <2>1, <2>2, SMT
<1>7. m = k
  <2>1. m < k => DaysBeforeMonth(y, m) + MonthLength(y, m) <= DaysBeforeMonth(y, k)
    BY <1>1, LaterMonth
  <2>2. k < m => DaysBeforeMonth(y, k) + MonthLength(y, k) <= DaysBeforeMonth(y, m)
    BY <1>1, LaterMonth
  <2>. QED
    BY <1>1, <1>2, <1>3, <1>4, <1>5, <1>6, <2>1, <2>2, SMT
<1>. QED
  BY <1>1, <1>2, <1>3, <1>4, <1>6, <1>7, SMT

\* The arithmetic of Civil in a cycle of 400 years that start in March.
LEMMA MarchYear ==
    ASSUME NEW n \in Int, 0 <= n, n <= 146096
    PROVE  LET y == marchYear(n)
               day == n - 365 * y - (y \div 4) + (y \div 100)
           IN  /\ y \in Int /\ 0 <= y /\ y <= 399
               /\ day \in Int /\ 0 <= day /\ day <= 365
               /\ day = 365 => IsLeap(y + 1)
BY SMTT(60) DEF marchYear, IsLeap

\* The month of a day counted from 1 March, by the division marchDay makes.
LEMMA MarchMonth ==
    ASSUME NEW day \in Int, 0 <= day, day <= 365
    PROVE  LET month == (5 * day + 2) \div 153
           IN  /\ month \in 0..11
               /\ 0 <= day - ((153 * month + 2) \div 5)
               /\ day - ((153 * month + 2) \div 5) + 1 <= MonthLength(2001, (month + 2) % 12)
                      + (IF day = 365 THEN 1 ELSE 0)
               /\ day = 365 => month = 11
BY SMTT(60) DEF MonthLength, LeapDay, IsLeap

\* DaysBeforeYear of year 400 c + y + 1, the months counted from March.
LEMMA CycleOf400 ==
    ASSUME NEW c \in Int, NEW y \in Int, 0 <= y, y <= 399
    PROVE  DaysBeforeYear(400 * c + y + 1)
               = 146097 * c + 365 * y + (y \div 4) - (y \div 100)
BY SMTT(60) DEF DaysBeforeYear

\* Every number is that of the date Civil gives it: the getters of Date invert its
\* constructor.
THEOREM CivilDate ==
    ASSUME NEW n \in Int
    PROVE  /\ IsDate(Civil(n).year, Civil(n).month, Civil(n).date)
           /\ DayNumber(Civil(n).year, Civil(n).month, Civil(n).date) = n
           /\ Civil(n) = [year |-> Civil(n).year, month |-> Civil(n).month,
                          date |-> Civil(n).date]
<1> DEFINE c == (n + 305) \div 146097
           k == (n + 305) % 146097
           y == marchYear(k)
           day == k - 365 * y - (y \div 4) + (y \div 100)
           month == (5 * day + 2) \div 153
           Y == 400 * c + y + (IF month > 9 THEN 1 ELSE 0)
           M == (month + 2) % 12
           D == day - ((153 * month + 2) \div 5) + 1
<1>1. c \in Int /\ k \in Int /\ 0 <= k /\ k <= 146096 /\ n + 305 = 146097 * c + k
  BY SMTT(20)
<1>2. Civil(n) = [year |-> Y, month |-> M, date |-> D]
  BY DEF Civil, inCycle, marchDay, marchDate
<1> HIDE DEF c, k
<1>3. /\ y \in Int /\ 0 <= y /\ y <= 399
      /\ day \in Int /\ 0 <= day /\ day <= 365
      /\ day = 365 => IsLeap(y + 1)
  BY <1>1, MarchYear
<1>4. k = day + 365 * y + (y \div 4) - (y \div 100)
  BY <1>1, <1>3, SMT
<1> HIDE DEF y, day
<1>5. /\ month \in 0..11
      /\ 1 <= D
      /\ D <= MonthLength(2001, M) + (IF day = 365 THEN 1 ELSE 0)
      /\ day = 365 => month = 11
  BY <1>3, MarchMonth, SMT
<1>6. M \in 0..11 /\ D \in Int /\ Y \in Int
  BY <1>1, <1>3, <1>5, SMT
<1>7. D <= MonthLength(Y, M)
  <2>1. M = 1 <=> month = 11
    BY <1>5, SMT
  <2>2. CASE day = 365
    <3>1. Y = 400 * c + y + 1 /\ M = 1
      BY <1>1, <1>3, <1>5, <2>1, <2>2, SMT
    <3>2. IsLeap(y + 1)
      BY <1>3, <2>2
    <3>3. LeapDay(Y) = 1
      BY <1>1, <1>3, <3>1, <3>2, SMT DEF LeapDay, IsLeap
    <3>. QED
      BY <1>5, <1>6, <2>2, <3>1, <3>3, SMT DEF MonthLength, LeapDay, IsLeap
  <2>3. CASE day # 365
    BY <1>5, <1>6, <2>3, LeapDayIsDay, SMT DEF MonthLength, LeapDay, IsLeap
  <2>. QED
    BY <2>2, <2>3
<1>8. DayNumber(Y, M, D) = n
  <2>1. DayNumber(Y, M, D) = DaysBeforeYear(Y) + DaysBeforeMonth(Y, M) + D
    BY <1>6, DayNumberOfMonth
  <2>2. DaysBeforeYear(Y) + DaysBeforeMonth(Y, M)
            = DaysBeforeYear(400 * c + y + 1) + ((153 * month + 2) \div 5) - 306
    <3>1. CASE month > 9
      BY <1>1, <1>3, <1>5, <3>1, MonthTable, SMT
    <3>2. CASE ~(month > 9)
      <4>1. Y = 400 * c + y /\ Y + 1 = 400 * c + y + 1
        BY <1>1, <1>3, <1>5, <3>2, SMT
      <4>2. /\ DaysBeforeYear(Y + 1) = DaysBeforeYear(Y) + 365 + LeapDay(Y)
            /\ DaysBeforeYear(Y) \in Int /\ LeapDay(Y) \in 0..1
        <5>1. Y \in Int
          BY <1>6
        <5> HIDE DEF Y
        <5>2. DaysBeforeYear(Y) \in Int
          BY <5>1, SMT DEF DaysBeforeYear
        <5>. QED
          BY <5>1, <5>2, NextYear, LeapDayIsDay, SMT
      <4>3. DaysBeforeMonth(Y, M) = ((153 * month + 2) \div 5) + 59 + LeapDay(Y)
        BY <1>5, <1>6, <3>2, <4>2, MonthTable, SMT
      <4>. QED
        BY <1>5, <4>1, <4>2, <4>3, SMT
    <3>. QED
      BY <3>1, <3>2
  <2>3. DaysBeforeYear(400 * c + y + 1)
            = 146097 * c + 365 * y + (y \div 4) - (y \div 100)
    BY <1>1, <1>3, CycleOf400, SMT
  <2>. QED
    BY <1>1, <1>3, <1>4, <1>5, <1>6, <2>1, <2>2, <2>3, SMT
<1>9. IsDate(Y, M, D)
  BY <1>5, <1>6, <1>7 DEF IsDate
<1> HIDE DEF Y, M, D
<1>. QED
  BY <1>2, <1>8, <1>9

\* Civil finds year, month and day of the month of every date again.
THEOREM CivilOfDayNumber ==
    ASSUME NEW y, NEW m, NEW d, IsDate(y, m, d)
    PROVE  Civil(DayNumber(y, m, d)) = [year |-> y, month |-> m, date |-> d]
<1> DEFINE n == DayNumber(y, m, d)
           c == Civil(n)
<1>1. n \in Int
  BY DayNumberIsInt DEF IsDate
<1> HIDE DEF n
<1>2. /\ IsDate(c.year, c.month, c.date)
      /\ DayNumber(c.year, c.month, c.date) = n
      /\ c = [year |-> c.year, month |-> c.month, date |-> c.date]
  BY <1>1, CivilDate
<1> HIDE DEF c
<1>3. c.year = y /\ c.month = m /\ c.date = d
  BY <1>2, DayNumberIsInjective DEF n
<1>4. c = [year |-> y, month |-> m, date |-> d]
  BY <1>2, <1>3
<1>. QED
  BY <1>4 DEF c, n

\* The number of days before a date in its year.
LEMMA DayOfYear ==
    ASSUME NEW n \in Int
    PROVE  LET c == Civil(n)
           IN  /\ c.year \in Int /\ c.month \in 0..11 /\ c.date \in 1..31
               /\ c.date <= MonthLength(c.year, c.month)
               /\ n = DaysBeforeYear(c.year) + DaysBeforeMonth(c.year, c.month) + c.date
<1> DEFINE c == Civil(n)
<1>1. IsDate(c.year, c.month, c.date) /\ DayNumber(c.year, c.month, c.date) = n
  BY CivilDate
<1>2. MonthLength(c.year, c.month) \in 28..31
  BY <1>1, DaysOfYear DEF IsDate
<1> HIDE DEF c
<1>3. /\ c.year \in Int /\ c.month \in 0..11 /\ c.date \in Int
      /\ 1 <= c.date /\ c.date <= MonthLength(c.year, c.month)
  BY <1>1 DEF IsDate
<1>4. n = DaysBeforeYear(c.year) + DaysBeforeMonth(c.year, c.month) + c.date
  BY <1>1, <1>3, DayNumberOfMonth
<1>5. c.date \in 1..31
  BY <1>2, <1>3, SMT
<1>. QED
  BY <1>3, <1>4, <1>5 DEF c

\* The year of a day, by the days before it.
LEMMA YearOfDay ==
    ASSUME NEW n \in Int, NEW y \in Int
    PROVE  /\ Civil(n).year = y <=> DaysBeforeYear(y) < n /\ n <= DaysBeforeYear(y + 1)
           /\ Civil(n).year < y <=> n <= DaysBeforeYear(y)
           /\ DaysBeforeYear(y) \in Int
<1> DEFINE z == Civil(n).year
<1>1. z \in Int /\ DaysBeforeYear(z) < n /\ n <= DaysBeforeYear(z + 1)
  <2> DEFINE m == Civil(n).month
             d == Civil(n).date
  <2>1. /\ z \in Int /\ m \in 0..11 /\ d \in 1..31
        /\ d <= MonthLength(z, m)
        /\ n = DaysBeforeYear(z) + DaysBeforeMonth(z, m) + d
    BY DayOfYear
  <2> HIDE DEF z, m, d
  <2>2. /\ DaysBeforeYear(z + 1) = DaysBeforeYear(z) + 365 + LeapDay(z)
        /\ DaysBeforeYear(z) \in Int /\ LeapDay(z) \in 0..1
    BY <2>1, NextYear, LeapDayIsDay, SMT DEF DaysBeforeYear
  <2>3. /\ DaysBeforeMonth(z, m) \in Int /\ 0 <= DaysBeforeMonth(z, m)
        /\ DaysBeforeMonth(z, m) + MonthLength(z, m) <= 365 + LeapDay(z)
        /\ MonthLength(z, m) \in 28..31
    BY <2>1, DaysOfYear
  <2>. QED
    BY <2>1, <2>2, <2>3, SMT
<1> HIDE DEF z
<1>2. /\ DaysBeforeYear(y) \in Int /\ DaysBeforeYear(z) \in Int
      /\ DaysBeforeYear(y + 1) \in Int /\ DaysBeforeYear(z + 1) \in Int
  BY <1>1, SMT DEF DaysBeforeYear
<1>3. /\ DaysBeforeYear(y + 1) = DaysBeforeYear(y) + 365 + LeapDay(y)
      /\ DaysBeforeYear(z + 1) = DaysBeforeYear(z) + 365 + LeapDay(z)
      /\ LeapDay(y) \in 0..1 /\ LeapDay(z) \in 0..1
  BY <1>1, NextYear, LeapDayIsDay
<1>4. /\ z < y => DaysBeforeYear(z) + 365 + LeapDay(z) <= DaysBeforeYear(y)
      /\ y < z => DaysBeforeYear(y) + 365 + LeapDay(y) <= DaysBeforeYear(z)
  BY <1>1, LaterYear
<1>5. /\ z = y <=> DaysBeforeYear(y) < n /\ n <= DaysBeforeYear(y + 1)
      /\ z < y <=> n <= DaysBeforeYear(y)
  BY <1>1, <1>2, <1>3, <1>4, SMT
<1>. QED
  BY <1>2, <1>5 DEF z

\* The days with a number are those of the years FirstYear to LastYear.
LEMMA DayOfYears ==
    ASSUME NEW n \in Int
    PROVE  /\ n \in Day <=> Civil(n).year \in Years
           /\ n \in Day => 1 <= n
<1>1. FirstYear \in Int /\ LastYear \in Int /\ 1 <= FirstYear
  BY YearsAssumption
<1>2. /\ DayNumber(FirstYear, 0, 1) = DaysBeforeYear(FirstYear) + 1
      /\ DayNumber(LastYear, 11, 31) = DaysBeforeYear(LastYear + 1)
  <2>1. /\ DayNumber(FirstYear, 0, 1)
               = DaysBeforeYear(FirstYear) + DaysBeforeMonth(FirstYear, 0) + 1
        /\ DayNumber(LastYear, 11, 31)
               = DaysBeforeYear(LastYear) + DaysBeforeMonth(LastYear, 11) + 31
    BY <1>1, DayNumberOfMonth, SMT
  <2>2. DaysBeforeYear(FirstYear) \in Int /\ DaysBeforeYear(LastYear) \in Int
    BY <1>1, SMT DEF DaysBeforeYear
  <2>. QED
    BY <1>1, <2>1, <2>2, MonthTable, NextYear, LeapDayIsDay, SMT
<1>3. /\ Civil(n).year < FirstYear <=> n <= DaysBeforeYear(FirstYear)
      /\ Civil(n).year < LastYear + 1 <=> n <= DaysBeforeYear(LastYear + 1)
      /\ DaysBeforeYear(FirstYear) \in Int /\ DaysBeforeYear(LastYear + 1) \in Int
  <2>1. LastYear + 1 \in Int
    BY <1>1, SMT
  <2>. QED
    BY <1>1, <2>1, YearOfDay
<1>4. Civil(n).year \in Int
  BY DayOfYear
<1>5. 0 <= DaysBeforeYear(FirstYear)
  BY <1>1, SMT DEF DaysBeforeYear
<1>. QED
  BY <1>1, <1>2, <1>3, <1>4, <1>5, SMT DEF Day, Years

\* Later days are in later years, and days less than a month apart that have
\* the same month have the same year.
LEMMA YearIsMonotone ==
    ASSUME NEW n \in Int, NEW k \in Int, n <= k
    PROVE  Civil(n).year <= Civil(k).year
<1> DEFINE y == Civil(n).year
           z == Civil(k).year
<1>1. y \in Int /\ z \in Int
  BY DayOfYear
<1>2. /\ z < y <=> k <= DaysBeforeYear(y)
      /\ ~(y < y) /\ (y < y <=> n <= DaysBeforeYear(y))
      /\ DaysBeforeYear(y) \in Int
  BY <1>1, YearOfDay, SMT
<1> HIDE DEF y, z
<1>3. y <= z
  BY <1>1, <1>2, SMT
<1>. QED
  BY <1>3 DEF y, z

\* Day n of a month, with day k of the same month.
LEMMA SetDay ==
    ASSUME NEW n \in Int, NEW k \in Int
    PROVE  LET c == Civil(n)
           IN  /\ DayNumber(c.year, c.month, k) = n - c.date + k
               /\ 1 <= k /\ k <= MonthLength(c.year, c.month) =>
                    Civil(n - c.date + k)
                        = [year |-> c.year, month |-> c.month, date |-> k]
<1> DEFINE y == Civil(n).year
           m == Civil(n).month
           d == Civil(n).date
<1>1. /\ y \in Int /\ m \in 0..11 /\ d \in 1..31
      /\ n = DaysBeforeYear(y) + DaysBeforeMonth(y, m) + d
  BY DayOfYear
<1> HIDE DEF y, m, d
<1>2. DayNumber(y, m, k) = DaysBeforeYear(y) + DaysBeforeMonth(y, m) + k
  BY <1>1, DayNumberOfMonth
<1>3. DaysBeforeYear(y) \in Int /\ DaysBeforeMonth(y, m) \in Int
  BY <1>1, DaysOfYear, DaysBeforeYearIsInt
<1>4. DayNumber(y, m, k) = n - d + k
  BY <1>1, <1>2, <1>3, SMT
<1>5. ASSUME 1 <= k, k <= MonthLength(y, m)
      PROVE  Civil(DayNumber(y, m, k)) = [year |-> y, month |-> m, date |-> k]
  BY <1>1, <1>5, CivilOfDayNumber DEF IsDate
<1>. QED
  BY <1>4, <1>5 DEF y, m, d

\* The first day of the month of day n, and of the next one.
MonthStart(n) == n - Civil(n).date + 1
MonthOf(n) == MonthLength(Civil(n).year, Civil(n).month)

\* The days from the start of a month to its end are those with its year and month.
LEMMA SameMonth ==
    ASSUME NEW n \in Int, NEW k \in Int
    PROVE  /\ MonthStart(n) <= k /\ k < MonthStart(n) + MonthOf(n) <=>
                Civil(k).year = Civil(n).year /\ Civil(k).month = Civil(n).month
           /\ MonthStart(n) <= n /\ n < MonthStart(n) + MonthOf(n)
           /\ MonthStart(n) \in Int /\ MonthOf(n) \in 28..31
<1> DEFINE y == Civil(n).year
           m == Civil(n).month
           d == Civil(n).date
           e == Civil(k).date
<1>1. /\ y \in Int /\ m \in 0..11 /\ d \in 1..31 /\ d <= MonthLength(y, m)
      /\ n = DaysBeforeYear(y) + DaysBeforeMonth(y, m) + d
  BY DayOfYear
<1>2. e \in 1..31 /\ e <= MonthLength(Civil(k).year, Civil(k).month)
  BY DayOfYear
<1>3. MonthLength(y, m) \in 28..31
  BY <1>1, DaysOfYear
<1>4. Civil(k).year = y /\ Civil(k).month = m => k - e = n - d
  <2>1. k = DaysBeforeYear(Civil(k).year)
              + DaysBeforeMonth(Civil(k).year, Civil(k).month) + e
    BY DayOfYear
  <2>2. DaysBeforeYear(y) \in Int /\ DaysBeforeMonth(y, m) \in Int
    BY <1>1, DaysOfYear, DaysBeforeYearIsInt
  <2> HIDE DEF y, m, d, e
  <2>. QED
    BY <1>1, <1>2, <2>1, <2>2, SMT
<1>5. ASSUME n - d + 1 <= k, k < n - d + 1 + MonthLength(y, m)
      PROVE  Civil(k).year = y /\ Civil(k).month = m
  <2> DEFINE j == k - n + d
  <2>1. j \in Int /\ 1 <= j /\ j <= MonthLength(y, m) /\ n - d + j = k
    <3> HIDE DEF y, m, d
    <3>. QED
      BY <1>1, <1>3, <1>5, SMT
  <2> HIDE DEF j
  <2>2. Civil(n - d + j) = [year |-> y, month |-> m, date |-> j]
    BY <2>1, SetDay
  <2>. QED
    BY <2>1, <2>2
<1>6. ASSUME Civil(k).year = y, Civil(k).month = m
      PROVE  n - d + 1 <= k /\ k < n - d + 1 + MonthLength(y, m)
  <2>1. e <= MonthLength(y, m)
    BY <1>2, <1>6
  <2>2. k - e = n - d
    BY <1>4, <1>6
  <2> HIDE DEF y, m, d, e
  <2>. QED
    BY <1>1, <1>2, <1>3, <2>1, <2>2, SMT
<1>7. /\ n - d + 1 <= n /\ n < n - d + 1 + MonthLength(y, m)
      /\ n - d + 1 \in Int
  <2> HIDE DEF y, m, d
  <2>. QED
    BY <1>1, <1>3, SMT
<1>. QED
  BY <1>3, <1>5, <1>6, <1>7 DEF MonthStart, MonthOf

\* Days less than 300 days apart that have one month have one year.
LEMMA MonthIsUnique ==
    ASSUME NEW n \in Int, NEW k \in Int, n - 300 < k, k < n + 300,
           Civil(n).month = Civil(k).month
    PROVE  Civil(n).year = Civil(k).year
<1> DEFINE y == Civil(n).year
           z == Civil(k).year
           m == Civil(n).month
           d == Civil(n).date
           e == Civil(k).date
<1>1. /\ y \in Int /\ m \in 0..11 /\ d \in 1..31
      /\ n = DaysBeforeYear(y) + DaysBeforeMonth(y, m) + d
  BY DayOfYear
<1>2. /\ z \in Int /\ e \in 1..31
      /\ k = DaysBeforeYear(z) + DaysBeforeMonth(z, m) + e
  BY DayOfYear
<1>3. n - 300 < k /\ k < n + 300
  OBVIOUS
<1> HIDE DEF y, z, m, d, e
<1>4. /\ DaysBeforeYear(y) \in Int /\ DaysBeforeYear(z) \in Int
      /\ LeapDay(y) \in 0..1 /\ LeapDay(z) \in 0..1
  BY <1>1, <1>2, LeapDayIsDay, SMT DEF DaysBeforeYear
<1>5. /\ DaysBeforeMonth(y, m) \in Int /\ DaysBeforeMonth(z, m) \in Int
      /\ DaysBeforeMonth(y, m) - 1 <= DaysBeforeMonth(z, m)
      /\ DaysBeforeMonth(z, m) <= DaysBeforeMonth(y, m) + 1
  BY <1>1, <1>2, <1>4, MonthTable, SMTT(20)
<1>6. /\ y < z => DaysBeforeYear(y) + 365 + LeapDay(y) <= DaysBeforeYear(z)
      /\ z < y => DaysBeforeYear(z) + 365 + LeapDay(z) <= DaysBeforeYear(y)
  BY <1>1, <1>2, LaterYear, SMT
<1>7. y = z
  BY <1>1, <1>2, <1>3, <1>4, <1>5, <1>6, SMT
<1>. QED
  BY <1>7 DEF y, z

\* The first day of the month after the one of day n, also after December.
LEMMA NextMonthStart ==
    ASSUME NEW n \in Int
    PROVE  LET c == Civil(n)
           IN  /\ DayNumber(c.year, c.month, 1) = MonthStart(n)
               /\ DayNumber(c.year, c.month + 1, 1) = MonthStart(n) + MonthOf(n)
<1> DEFINE y == Civil(n).year
           m == Civil(n).month
           d == Civil(n).date
<1>1. /\ y \in Int /\ m \in 0..11 /\ d \in 1..31
      /\ n = DaysBeforeYear(y) + DaysBeforeMonth(y, m) + d
  BY DayOfYear
<1> HIDE DEF y, m, d
<1>3. /\ DaysBeforeYear(y) \in Int /\ LeapDay(y) \in 0..1
      /\ DaysBeforeYear(y + 1) = DaysBeforeYear(y) + 365 + LeapDay(y)
  BY <1>1, NextYear, LeapDayIsDay, SMT DEF DaysBeforeYear
<1>4. DaysBeforeMonth(y, m) + MonthLength(y, m)
          = IF m = 11 THEN 365 + LeapDay(y) ELSE DaysBeforeMonth(y, m + 1)
  BY <1>1, NextMonth
<1>5. DaysBeforeMonth(y, m) \in Int /\ MonthLength(y, m) \in 28..31
  BY <1>1, DaysOfYear
<1>2. DayNumber(y, m, 1) = n - d + 1
  <2>1. DayNumber(y, m, 1) = DaysBeforeYear(y) + DaysBeforeMonth(y, m) + 1
    BY <1>1, DayNumberOfMonth
  <2>. QED
    BY <1>1, <1>3, <1>5, <2>1, SMT
<1>6. DayNumber(y, m + 1, 1) = n - d + 1 + MonthLength(y, m)
  <2>1. CASE m = 11
    <3>1. y + (12 \div 12) - 1 = y /\ 12 % 12 = 0 /\ y + 1 \in Int
      BY <1>1, SMT
    <3>2. DayNumber(y, 12, 1) = DaysBeforeYear(y + 1) + DaysBeforeMonth(y + 1, 0) + 1
      BY <1>1, <3>1, SMT DEF DayNumber, DaysBeforeYear
    <3>. QED
      BY <1>1, <1>3, <1>4, <1>5, <2>1, <3>1, <3>2, MonthTable, SMT
  <2>2. CASE m # 11
    <3>1. m + 1 \in 0..11
      BY <1>1, <2>2, SMT
    <3>2. DayNumber(y, m + 1, 1) = DaysBeforeYear(y) + DaysBeforeMonth(y, m + 1) + 1
      BY <1>1, <3>1, DayNumberOfMonth
    <3>. QED
      BY <1>1, <1>3, <1>4, <1>5, <2>2, <3>2, SMT
  <2>. QED
    BY <2>1, <2>2
<1>. QED
  BY <1>2, <1>6 DEF y, m, d, MonthStart, MonthOf

\* The days of a month, counted from its first one.
LEMMA MonthByDays ==
    ASSUME NEW y \in Int, NEW m \in 0..11
    PROVE  LET first == DayNumber(y, m, 1)
           IN  /\ first \in Int
               /\ Civil(first) = [year |-> y, month |-> m, date |-> 1]
               /\ DayNumber(y, m + 1, 1) - first = MonthLength(y, m)
               /\ \A d \in Int : DayNumber(y, m, d) = first - 1 + d
<1> DEFINE first == DayNumber(y, m, 1)
           one == 1
<1>1. one \in Int /\ 1 <= one /\ one <= MonthLength(y, m)
  BY LeapDayIsDay, SMT DEF MonthLength
<1>2. m \in Int
  BY SMT
<1> HIDE DEF one
<1>3. DayNumber(y, m, one) \in Int /\ Civil(DayNumber(y, m, one)) = [year |-> y, month |-> m, date |-> one]
  BY <1>1, <1>2, DayNumberIsInt, CivilOfDayNumber DEF IsDate
<1>4. first \in Int /\ Civil(first) = [year |-> y, month |-> m, date |-> 1]
  BY <1>3 DEF one
<1>5. ASSUME NEW d \in Int PROVE DayNumber(y, m, d) = first - 1 + d
  <2>1. DayNumber(y, m, d) = DaysBeforeYear(y) + DaysBeforeMonth(y, m) + d
    BY DayNumberOfMonth
  <2>2. DayNumber(y, m, one) = DaysBeforeYear(y) + DaysBeforeMonth(y, m) + one
    BY <1>1, DayNumberOfMonth
  <2>3. DaysBeforeYear(y) \in Int /\ DaysBeforeMonth(y, m) \in Int
    BY DaysBeforeYearIsInt, DaysOfYear
  <2>. QED
    BY <2>1, <2>2, <2>3, SMT DEF one
<1>6. DayNumber(y, m + 1, 1) = MonthStart(first) + MonthOf(first)
  <2>1. LET c == Civil(first)
        IN  DayNumber(c.year, c.month + 1, 1) = MonthStart(first) + MonthOf(first)
    BY <1>4, NextMonthStart
  <2> HIDE DEF first
  <2>. QED
    BY <1>4, <2>1
<1>7. MonthStart(first) = first /\ MonthOf(first) = MonthLength(y, m)
  <2> HIDE DEF first
  <2>. QED
    BY <1>4, SMT DEF MonthStart, MonthOf
<1>8. MonthLength(y, m) \in Int
  BY LeapDayIsDay, SMT DEF MonthLength
<1> HIDE DEF first
<1>9. DayNumber(y, m + 1, 1) - first = MonthLength(y, m)
  BY <1>4, <1>6, <1>7, <1>8, SMT
<1>. QED
  BY <1>4, <1>5, <1>9 DEF first

-----------------------------------------------------------------------------
(* The methods of Date *)

\* Any date JavaScript computes with: a number of a day and a time.
DateTime == [day: Int, hours: Int, minutes: Int]

\* A date of numbered days is a date.
LEMMA DateIsDateTime == ASSUME NEW d \in Date PROVE d \in DateTime
BY SMT DEF Date, DateTime, Day

\* What the getters of Date return, and that it makes the date again.
LEMMA Getters ==
    ASSUME NEW d \in DateTime
    PROVE  /\ d.day \in Int /\ d.hours \in Int /\ d.minutes \in Int
           /\ getFullYear(d) \in Int /\ getMonth(d) \in 0..11 /\ getDate(d) \in 1..31
           /\ getDate(d) <= MonthLength(getFullYear(d), getMonth(d))
           /\ DayNumber(getFullYear(d), getMonth(d), getDate(d)) = d.day
<1>1. d.day \in Int /\ d.hours \in Int /\ d.minutes \in Int
  BY DEF DateTime
<1>2. DayNumber(Civil(d.day).year, Civil(d.day).month, Civil(d.day).date) = d.day
  BY <1>1, CivilDate
<1>. QED
  BY <1>1, <1>2, DayOfYear DEF getFullYear, getMonth, getDate

\* A date is its year, month, day and time.
LEMMA GettersAreInt ==
    ASSUME NEW d \in DateTime
    PROVE  /\ d.day \in Int /\ d.hours \in Int /\ d.minutes \in Int
           /\ getFullYear(d) \in Int /\ getMonth(d) \in Int /\ getDate(d) \in Int
<1>1. getMonth(d) \in 0..11 /\ getDate(d) \in 1..31
  BY Getters
<1>2. /\ d.day \in Int /\ d.hours \in Int /\ d.minutes \in Int /\ getFullYear(d) \in Int
  BY Getters
<1>. QED
  BY <1>1, <1>2

\* equalsTo is equality: year, month and day of the month make the day.
LEMMA EqualDates ==
    ASSUME NEW d \in DateTime, NEW e \in DateTime
    PROVE  /\ equalsTo(d, e) <=> d = e
           /\ getFullYear(d) = getFullYear(e) /\ getMonth(d) = getMonth(e)
                  /\ getDate(d) = getDate(e) => d.day = e.day
<1>1. ASSUME getFullYear(d) = getFullYear(e), getMonth(d) = getMonth(e),
             getDate(d) = getDate(e)
      PROVE  d.day = e.day
  <2>1. /\ DayNumber(getFullYear(d), getMonth(d), getDate(d)) = d.day
        /\ DayNumber(getFullYear(e), getMonth(e), getDate(e)) = e.day
    BY Getters
  <2>. QED
    BY <1>1, <2>1
<1>2. ASSUME d.day = e.day, d.hours = e.hours, d.minutes = e.minutes
      PROVE  d = e
  BY <1>2, SMT DEF DateTime
<1>. QED
  BY <1>1, <1>2 DEF equalsTo

\* setDate goes to a day of the month, and over the ends of the month by days.
LEMMA SetDate ==
    ASSUME NEW d \in DateTime, NEW k \in Int
    PROVE  /\ setDate(d, k) = [d EXCEPT !.day = d.day - getDate(d) + k]
           /\ setDate(d, k) \in DateTime
           /\ setDate(d, k).day = d.day - getDate(d) + k
           /\ 1 <= k /\ k <= MonthLength(getFullYear(d), getMonth(d)) =>
                Civil(setDate(d, k).day)
                    = [year |-> getFullYear(d), month |-> getMonth(d), date |-> k]
<1>1. d.day \in Int /\ getDate(d) \in 1..31
  BY Getters
<1>2. /\ DayNumber(getFullYear(d), getMonth(d), k) = d.day - getDate(d) + k
      /\ 1 <= k /\ k <= MonthLength(getFullYear(d), getMonth(d)) =>
           Civil(d.day - getDate(d) + k)
               = [year |-> getFullYear(d), month |-> getMonth(d), date |-> k]
  BY <1>1, SetDay DEF getFullYear, getMonth, getDate
<1>3. setDate(d, k) = [d EXCEPT !.day = d.day - getDate(d) + k]
  BY <1>2 DEF setDate
<1>4. d.day - getDate(d) + k \in Int
  BY <1>1, SMT
<1>5. setDate(d, k) \in DateTime /\ setDate(d, k).day = d.day - getDate(d) + k
  BY <1>3, <1>4 DEF DateTime
<1>. QED
  BY <1>2, <1>3, <1>5

\* A date whose day is replaced.
LEMMA WithDay ==
    ASSUME NEW d \in DateTime, NEW n \in Int
    PROVE  /\ [d EXCEPT !.day = n] \in DateTime
           /\ [d EXCEPT !.day = n].day = n
           /\ [d EXCEPT !.day = n].hours = d.hours
           /\ [d EXCEPT !.day = n].minutes = d.minutes
BY DEF DateTime

\* setMonth goes to the same day of another month, if that has one.
LEMMA SetMonth ==
    ASSUME NEW d \in DateTime, NEW m \in Int
    PROVE  /\ setMonth(d, m) \in DateTime
           /\ setMonth(d, m).day = DayNumber(getFullYear(d), m, getDate(d))
           /\ setMonth(d, m).hours = d.hours /\ setMonth(d, m).minutes = d.minutes
           /\ m \in 0..11 /\ getDate(d) <= MonthLength(getFullYear(d), m) =>
                Civil(setMonth(d, m).day)
                    = [year |-> getFullYear(d), month |-> m, date |-> getDate(d)]
<1>1. getFullYear(d) \in Int /\ getDate(d) \in Int /\ 1 <= getDate(d)
  BY Getters, SMT
<1>2. DayNumber(getFullYear(d), m, getDate(d)) \in Int
  BY <1>1, DayNumberIsInt
<1>3. ASSUME m \in 0..11, getDate(d) <= MonthLength(getFullYear(d), m)
      PROVE  Civil(DayNumber(getFullYear(d), m, getDate(d)))
                 = [year |-> getFullYear(d), month |-> m, date |-> getDate(d)]
  BY <1>1, <1>3, CivilOfDayNumber DEF IsDate
<1>. QED
  BY <1>2, <1>3, WithDay DEF setMonth

Least(a, b) == IF a <= b THEN a ELSE b

\* The patched setFullYear keeps the month, and the day but for 29 February.
THEOREM SetFullYear ==
    ASSUME NEW d \in DateTime, NEW y \in Int
    PROVE  /\ setFullYear(d, y) \in DateTime
           /\ setFullYear(d, y).hours = d.hours
           /\ setFullYear(d, y).minutes = d.minutes
           /\ Civil(setFullYear(d, y).day)
                  = [year |-> y, month |-> getMonth(d),
                     date |-> Least(getDate(d), MonthLength(y, getMonth(d)))]
<1> DEFINE m == getMonth(d)
           k == getDate(d)
           moved == oldSetFullYear(d, y)
<1>1. m \in 0..11 /\ k \in 1..31 /\ k <= MonthLength(getFullYear(d), m)
  BY Getters
<1>2. DayNumber(y, m, k) \in Int
  <2>1. m \in Int /\ k \in Int
    BY <1>1
  <2>. QED
    BY <2>1, DayNumberIsInt
<1>3. /\ moved \in DateTime /\ moved.day = DayNumber(y, m, k)
      /\ moved.hours = d.hours /\ moved.minutes = d.minutes
  BY <1>2, WithDay DEF oldSetFullYear
<1>4. MonthLength(y, m) \in 28..31
  BY <1>1, DaysOfYear
<1>5. CASE k <= MonthLength(y, m)
  <2>1. IsDate(y, m, k)
    BY <1>1, <1>5, SMT DEF IsDate
  <2>2. Civil(moved.day) = [year |-> y, month |-> m, date |-> k]
    BY <1>3, <2>1, CivilOfDayNumber
  <2>3. getMonth(moved) = m
    BY <2>2 DEF getMonth
  <2>4. setFullYear(d, y) = moved
    BY <2>3 DEF setFullYear
  <2>5. Least(k, MonthLength(y, m)) = k
    BY <1>5 DEF Least
  <2>. QED
    BY <1>3, <2>2, <2>4, <2>5
<1>6. CASE ~(k <= MonthLength(y, m))
  <2>1. m = 1 /\ k = 29 /\ MonthLength(y, m) = 28 /\ LeapDay(y) = 0
    <3>1. LeapDay(y) \in 0..1 /\ LeapDay(getFullYear(d)) \in 0..1
      BY LeapDayIsDay
    <3> HIDE DEF m, k
    <3>. QED
      BY <1>1, <1>6, <3>1, SMT DEF MonthLength
  <2>2. DayNumber(y, 1, 29) = DayNumber(y, 2, 1)
    <3>1. /\ DayNumber(y, 1, 29) = DaysBeforeYear(y) + DaysBeforeMonth(y, 1) + 29
          /\ DayNumber(y, 2, 1) = DaysBeforeYear(y) + DaysBeforeMonth(y, 2) + 1
      BY DayNumberOfMonth, SMT
    <3>. QED
      BY <2>1, <3>1, MonthTable, DaysBeforeYearIsInt, SMT
  <2>3. Civil(moved.day).month = 2
    <3>1. IsDate(y, 2, 1)
      BY SMT DEF IsDate, MonthLength
    <3>2. Civil(DayNumber(y, 2, 1)) = [year |-> y, month |-> 2, date |-> 1]
      BY <3>1, CivilOfDayNumber
    <3>. QED
      BY <1>3, <2>1, <2>2, <3>2
  <2>4. setFullYear(d, y) = oldSetFullYear(setDate(d, 28), y)
    BY <2>1, <2>3 DEF setFullYear, getMonth
  <2>5. /\ setDate(d, 28) \in DateTime
        /\ setDate(d, 28).hours = d.hours /\ setDate(d, 28).minutes = d.minutes
        /\ getMonth(setDate(d, 28)) = 1 /\ getDate(setDate(d, 28)) = 28
    <3>1. 28 <= MonthLength(getFullYear(d), getMonth(d))
      <4>1. MonthLength(getFullYear(d), getMonth(d)) \in 28..31
        BY Getters, DaysOfYear
      <4>. QED
        BY <4>1, SMT
    <3>2. /\ setDate(d, 28) = [d EXCEPT !.day = d.day - getDate(d) + 28]
          /\ setDate(d, 28) \in DateTime
          /\ Civil(setDate(d, 28).day)
                 = [year |-> getFullYear(d), month |-> getMonth(d), date |-> 28]
      BY <3>1, SetDate, SMT
    <3>3. setDate(d, 28).hours = d.hours /\ setDate(d, 28).minutes = d.minutes
      BY <3>2 DEF DateTime
    <3>. QED
      BY <2>1, <3>2, <3>3 DEF getMonth, getDate
  <2>6. IsDate(y, 1, 28)
    BY <2>1, SMT DEF IsDate
  <2>7. /\ DayNumber(y, 1, 28) \in Int
        /\ Civil(DayNumber(y, 1, 28)) = [year |-> y, month |-> 1, date |-> 28]
    BY <2>6, CivilOfDayNumber, DayNumberIsInt, SMT
  <2>8. setFullYear(d, y) = [setDate(d, 28) EXCEPT !.day = DayNumber(y, 1, 28)]
    BY <2>4, <2>5 DEF oldSetFullYear
  <2>9. Least(k, MonthLength(y, m)) = 28
    BY <2>1, SMT DEF Least
  <2>10. /\ setFullYear(d, y) \in DateTime
         /\ setFullYear(d, y).hours = d.hours
         /\ setFullYear(d, y).minutes = d.minutes
         /\ setFullYear(d, y).day = DayNumber(y, 1, 28)
    BY <2>5, <2>7, <2>8, WithDay
  <2>. QED
    BY <2>1, <2>7, <2>9, <2>10
<1>. QED
  BY <1>5, <1>6

\* getMonthDays is the length of the month.
LEMMA GetMonthDays ==
    ASSUME NEW d, NEW m \in 0..11
    PROVE  getMonthDays(d, m) = MonthLength(getFullYear(d), m)
BY SMTT(20) DEF getMonthDays, MonthLength, LeapDay, IsLeap

\* setDateOnly takes the day of e whatever the day of d is: it goes to the
\* first of the month before the year and the month are set.
THEOREM SetDateOnly ==
    ASSUME NEW d \in DateTime, NEW e \in DateTime
    PROVE  setDateOnly(d, e) = [d EXCEPT !.day = e.day]
<1> DEFINE y == getFullYear(e)
           m == getMonth(e)
           k == getDate(e)
           d1 == setDate(d, 1)
           d2 == setFullYear(d1, y)
           d3 == setMonth(d2, m)
           d4 == setDate(d3, k)
<1>1. /\ y \in Int /\ m \in 0..11 /\ k \in 1..31 /\ DayNumber(y, m, k) = e.day
  BY Getters
<1>2. \A x \in Int, z \in 0..11 : 1 <= MonthLength(x, z)
  <2>1. SUFFICES ASSUME NEW x \in Int, NEW z \in 0..11
                 PROVE  1 <= MonthLength(x, z)
    OBVIOUS
  <2>2. MonthLength(x, z) \in 28..31
    BY DaysOfYear
  <2>. QED
    BY <2>2, SMT
<1>3. /\ d1 \in DateTime /\ getDate(d1) = 1
      /\ d1.hours = d.hours /\ d1.minutes = d.minutes
  <2>1. getFullYear(d) \in Int /\ getMonth(d) \in 0..11
    BY Getters
  <2>2. 1 <= MonthLength(getFullYear(d), getMonth(d))
    BY <1>2, <2>1
  <2>3. /\ d1 = [d EXCEPT !.day = d.day - getDate(d) + 1]
        /\ d1 \in DateTime
        /\ Civil(d1.day) = [year |-> getFullYear(d), month |-> getMonth(d), date |-> 1]
    BY <2>2, SetDate, SMT
  <2>4. d1.hours = d.hours /\ d1.minutes = d.minutes
    BY <2>3 DEF DateTime
  <2>. QED
    BY <2>3, <2>4 DEF getDate
<1> HIDE DEF d1
<1>4. /\ d2 \in DateTime /\ d2.hours = d.hours /\ d2.minutes = d.minutes
      /\ getFullYear(d2) = y /\ getDate(d2) = 1
  <2>1. getMonth(d1) \in 0..11
    BY <1>3, Getters
  <2>2. Least(1, MonthLength(y, getMonth(d1))) = 1
    BY <1>1, <1>2, <2>1, SMT DEF Least
  <2>3. Civil(d2.day) = [year |-> y, month |-> getMonth(d1), date |-> 1]
    BY <1>1, <1>3, <2>2, SetFullYear
  <2>4. d2 \in DateTime /\ d2.hours = d1.hours /\ d2.minutes = d1.minutes
    BY <1>1, <1>3, SetFullYear
  <2>. QED
    BY <1>3, <2>3, <2>4 DEF getFullYear, getDate
<1> HIDE DEF d2
<1>5. /\ d3 \in DateTime /\ d3.hours = d.hours /\ d3.minutes = d.minutes
      /\ getFullYear(d3) = y /\ getMonth(d3) = m /\ getDate(d3) = 1
  <2>1. m \in Int /\ 1 <= MonthLength(y, m)
    BY <1>1, <1>2
  <2>2. Civil(d3.day) = [year |-> y, month |-> m, date |-> 1]
    BY <1>1, <1>4, <2>1, SetMonth
  <2>. QED
    BY <1>4, <2>1, <2>2, SetMonth DEF getFullYear, getMonth, getDate
<1> HIDE DEF d3
<1>6. /\ d4 \in DateTime /\ d4.hours = d.hours /\ d4.minutes = d.minutes
      /\ d4.day = e.day
  <2>1. k \in Int
    BY <1>1
  <2>2. d4 = [d3 EXCEPT !.day = DayNumber(y, m, k)]
    BY <1>5 DEF setDate
  <2>3. DayNumber(y, m, k) \in Int
    BY <1>1, Getters
  <2>4. /\ d4 \in DateTime /\ d4.day = DayNumber(y, m, k)
        /\ d4.hours = d3.hours /\ d4.minutes = d3.minutes
    BY <1>5, <2>2, <2>3, WithDay
  <2>. QED
    BY <1>1, <1>5, <2>4
<1>7. d4 = [d EXCEPT !.day = e.day]
  BY <1>6, SMT DEF DateTime
<1>. QED
  BY <1>7 DEF setDateOnly, d1, d2, d3

\* The month before or after, of the year of d: the day is cut to its length.
THEOREM SetMonthClamped ==
    ASSUME NEW d \in DateTime, NEW m \in 0..11
    PROVE  LET length == getMonthDays(d, m)
               cut == IF getDate(d) > length THEN setDate(d, length) ELSE d
           IN  /\ setMonth(cut, m) \in DateTime
               /\ setMonth(cut, m).hours = d.hours
               /\ setMonth(cut, m).minutes = d.minutes
               /\ Civil(setMonth(cut, m).day)
                      = [year |-> getFullYear(d), month |-> m,
                         date |-> Least(getDate(d), MonthLength(getFullYear(d), m))]
<1> DEFINE length == getMonthDays(d, m)
           y == getFullYear(d)
           k == getDate(d)
           cut == IF k > length THEN setDate(d, length) ELSE d
<1>1. length = MonthLength(y, m)
  BY GetMonthDays
<1>2. y \in Int /\ k \in 1..31 /\ getMonth(d) \in 0..11 /\ k <= MonthLength(y, getMonth(d))
  BY Getters
<1>3. MonthLength(y, m) \in 28..31 /\ MonthLength(y, getMonth(d)) \in 28..31
  BY <1>2, DaysOfYear
<1>4. /\ cut \in DateTime /\ cut.hours = d.hours /\ cut.minutes = d.minutes
      /\ getFullYear(cut) = y /\ getDate(cut) = Least(k, MonthLength(y, m))
  <2>1. CASE k > length
    <3>1. length \in Int /\ 1 <= length /\ length <= MonthLength(y, getMonth(d))
      <4> HIDE DEF length, y, k
      <4>. QED
        BY <1>1, <1>2, <1>3, <2>1, SMT
    <3>2. Least(k, MonthLength(y, m)) = length
      <4> HIDE DEF length, y, k
      <4>. QED
        BY <1>1, <1>2, <1>3, <2>1, SMT DEF Least
    <3>3. /\ setDate(d, length) = [d EXCEPT !.day = d.day - getDate(d) + length]
          /\ setDate(d, length) \in DateTime
          /\ Civil(setDate(d, length).day)
                 = [year |-> y, month |-> getMonth(d), date |-> length]
      BY <3>1, SetDate
    <3>4. setDate(d, length).hours = d.hours /\ setDate(d, length).minutes = d.minutes
      BY <3>3 DEF DateTime
    <3>. QED
      BY <2>1, <3>2, <3>3, <3>4 DEF getFullYear, getDate
  <2>2. CASE ~(k > length)
    <3>1. Least(k, MonthLength(y, m)) = k
      <4> HIDE DEF length, y, k
      <4>. QED
        BY <1>1, <1>2, <1>3, <2>2, SMT DEF Least
    <3>. QED
      BY <2>2, <3>1
  <2>. QED
    BY <2>1, <2>2
<1>5. Least(k, MonthLength(y, m)) <= MonthLength(y, m) /\ m \in Int
  <2> HIDE DEF y, k
  <2>. QED
    BY <1>2, <1>3, SMT DEF Least
<1> HIDE DEF cut
<1>6. /\ setMonth(cut, m) \in DateTime
      /\ setMonth(cut, m).hours = d.hours /\ setMonth(cut, m).minutes = d.minutes
      /\ Civil(setMonth(cut, m).day)
             = [year |-> y, month |-> m, date |-> Least(k, MonthLength(y, m))]
  BY <1>4, <1>5, SetMonth
<1>. QED
  BY <1>6 DEF cut

\* Weeks are counted from the Thursdays of the year, although the days of
\* summer time start an hour early: the rounding absorbs the hour.
THEOREM WeekNumber ==
    ASSUME NEW d \in DateTime
    PROVE  LET thu == d.day + 3 - ((d.day + 6) % 7)
           IN  getWeekNumber(d)
                   = ((thu - DayNumber(Civil(thu).year, 0, 1)) \div 7) + 1
<1> DEFINE x == (d.day + 6) % 7
           thu == d.day + 3 - x
           t == setDate(d, getDate(d) - ((getDay(d) + 6) % 7) + 3)
           y == Civil(thu).year
           jan4 == setDate(setMonth(t, 0), 4)
           week == Midnight(t.day) - Midnight(jan4.day)
<1>1. d.day \in Int /\ getDate(d) \in 1..31 /\ x \in 0..6 /\ thu \in Int
  <2>1. d.day \in Int /\ getDate(d) \in 1..31
    BY Getters
  <2>2. x \in 0..6
    BY <2>1, SMT
  <2> HIDE DEF x
  <2>. QED
    BY <2>1, <2>2, SMT
<1>2. (getDay(d) + 6) % 7 = x
  BY <1>1, SMT DEF getDay
<1>3. t \in DateTime /\ t.day = thu
  <2> DEFINE k == getDate(d) - x + 3
  <2>1. k \in Int /\ d.day - getDate(d) + k = thu
    <3> HIDE DEF x
    <3>. QED
      BY <1>1, SMT
  <2>2. t = setDate(d, k)
    BY <1>2
  <2> HIDE DEF k, t
  <2>. QED
    BY <2>1, <2>2, SetDate
<1> HIDE DEF x, thu, t
<1>4. y \in Int /\ getFullYear(t) = y /\ getDate(t) \in 1..31
  BY <1>1, <1>3, DayOfYear, Getters DEF getFullYear
<1>5. /\ setMonth(t, 0) \in DateTime
      /\ getFullYear(setMonth(t, 0)) = y /\ getMonth(setMonth(t, 0)) = 0
  <2>1. MonthLength(y, 0) = 31
    BY SMT DEF MonthLength
  <2>2. getDate(t) <= MonthLength(getFullYear(t), 0)
    BY <1>4, <2>1, SMT
  <2>3. /\ setMonth(t, 0) \in DateTime
        /\ Civil(setMonth(t, 0).day)
               = [year |-> getFullYear(t), month |-> 0, date |-> getDate(t)]
    BY <1>3, <2>2, SetMonth, SMT
  <2>. QED
    BY <1>4, <2>3 DEF getFullYear, getMonth
<1>6. jan4.day = DayNumber(y, 0, 1) + 3 /\ DayNumber(y, 0, 1) \in Int
  <2>1. /\ DayNumber(y, 0, 4) = DaysBeforeYear(y) + DaysBeforeMonth(y, 0) + 4
        /\ DayNumber(y, 0, 1) = DaysBeforeYear(y) + DaysBeforeMonth(y, 0) + 1
    BY <1>4, DayNumberOfMonth, SMT
  <2>2. DayNumber(y, 0, 4) = DayNumber(y, 0, 1) + 3 /\ DayNumber(y, 0, 4) \in Int
        /\ DayNumber(y, 0, 1) \in Int
    BY <1>4, <2>1, MonthTable, DaysBeforeYearIsInt, SMT
  <2>3. jan4 = [setMonth(t, 0) EXCEPT !.day = DayNumber(y, 0, 4)]
    BY <1>5 DEF setDate
  <2>4. jan4.day = DayNumber(y, 0, 4)
    <3> DEFINE n == DayNumber(y, 0, 4)
               e == setMonth(t, 0)
    <3>1. n \in Int /\ e \in DateTime /\ jan4 = [e EXCEPT !.day = n]
      BY <1>5, <2>2, <2>3
    <3> HIDE DEF n, e, jan4
    <3>2. jan4.day = n
      BY <3>1, WithDay
    <3>. QED
      BY <3>2 DEF n
  <2>. QED
    BY <2>2, <2>4
<1> DEFINE first == DayNumber(y, 0, 1)
<1> HIDE DEF y, first, jan4
<1>7. /\ week \in Int
      /\ 24 * (thu - first - 3) - 1 <= week /\ week <= 24 * (thu - first - 3) + 1
  <2>1. /\ t.day \in Int /\ jan4.day \in Int
        /\ t.day - jan4.day = thu - first - 3 /\ first \in Int
    BY <1>1, <1>3, <1>6, SMT DEF first
  <2>. QED
    BY <1>1, <2>1, SMT DEF Midnight
<1> HIDE DEF week
<1>8. (2 * week + 168) \div 336 = (thu - first) \div 7
  BY <1>1, <1>6, <1>7, SMTT(30) DEF first
<1>9. getWeekNumber(d) = ((thu - first) \div 7) + 1
  <2>1. Round(week, 7 * 24) = (2 * week + 168) \div 336
    BY <1>7, SMT DEF Round
  <2>2. getWeekNumber(d) = Round(week, 7 * 24) + 1
    BY DEF getWeekNumber, week, t, jan4
  <2>. QED
    BY <1>8, <2>1, <2>2
<1>. QED
  BY <1>9 DEF first, y, thu, x

-----------------------------------------------------------------------------
(* Functions defined by a step.  A counterexample to a statement about every   *)
(* number would have a least one.                                              *)

\* The order of the numbers as a set of pairs.
LessThan == {ss \in Nat \X Nat : ss[1] < ss[2]}

\* Every set of numbers has a least one.
LEMMA LeastOf ==
    ASSUME NEW T \in SUBSET Nat, T # {}
    PROVE  \E x \in T : \A y \in T : x <= y
<1>1. IsWellFoundedOn(LessThan, Nat)
  BY NatLessThanWellFounded, Zenon DEF OpToRel, LessThan
<1>2. PICK x \in T : \A y \in T : ~(<<y, x>> \in LessThan)
  BY <1>1, WFMin
<1>3. ASSUME NEW y \in T PROVE x <= y
  <2>1. <<y, x>> \notin LessThan /\ x \in Nat /\ y \in Nat
    BY <1>2
  <2>2. y < x => <<y, x>> \in LessThan
    BY <2>1, SMT DEF LessThan
  <2>. QED
    BY <2>1, <2>2, SMT
<1>. QED
  BY <1>3

\* What a step keeps in a set stays in it.
LEMMA IterationType ==
    ASSUME NEW S, NEW n \in Nat, NEW f, f[0] \in S,
           \A i \in 1..n : f[i - 1] \in S => f[i] \in S
    PROVE  \A i \in 0..n : f[i] \in S
<1> DEFINE bad == {i \in 0..n : f[i] \notin S}
<1>1. SUFFICES ASSUME bad # {} PROVE FALSE
  OBVIOUS
<1>2. bad \in SUBSET Nat
  BY SMT
<1>3. PICK k \in bad : \A j \in bad : k <= j
  BY <1>1, <1>2, LeastOf
<1>4. k \in 1..n
  BY <1>3, SMT
<1>5. k - 1 \in 0..n /\ k - 1 \notin bad
  BY <1>3, <1>4, SMT
<1>. QED
  BY <1>3, <1>4, <1>5

\* A function is defined by its first value and a step to the next one.
StepsIn(S, n) == [1..n -> [S -> S]]
HasIteration(S, x, n, F) ==
    \E f \in [0..n -> S] : f[0] = x /\ \A i \in 1..n : f[i] = F[i][f[i - 1]]

\* A sequence of steps on the elements of S can be taken from x, one after another:
\* by the least number of steps that cannot.
LEMMA Iteration ==
    ASSUME NEW S, NEW x \in S, NEW n \in Nat, NEW F \in StepsIn(S, n)
    PROVE  HasIteration(S, x, n, F)
<1>. USE DEF StepsIn, HasIteration
<1> DEFINE goes(f, k) == f[0] = x /\ \A i \in 1..k : f[i] = F[i][f[i - 1]]
           bad == {k \in 0..n : ~(\E f \in [0..k -> S] : goes(f, k))}
<1>1. SUFFICES ASSUME bad # {} PROVE FALSE
  <2>1. n \in 0..n
    BY SMT
  <2>. QED
    BY <2>1
<1>2. bad \in SUBSET Nat
  BY SMT
<1>3. PICK k \in bad : \A j \in bad : k <= j
  BY <1>1, <1>2, LeastOf
<1>4. k # 0
  <2>1. [i \in 0..0 |-> x] \in [0..0 -> S] /\ goes([i \in 0..0 |-> x], 0)
    BY SMT
  <2>. QED
    BY <1>3, <2>1
<1>5. k \in 1..n /\ k - 1 \in 0..n /\ k - 1 \notin bad
  BY <1>3, <1>4, SMT
<1>6. PICK g \in [0..(k - 1) -> S] : goes(g, k - 1)
  BY <1>5
<1> DEFINE f == [i \in 0..k |-> IF i = k THEN F[k][g[k - 1]] ELSE g[i]]
<1>7. k - 1 \in 0..(k - 1) /\ F[k][g[k - 1]] \in S
  BY <1>5, SMT
<1>8. f \in [0..k -> S]
  BY <1>5, <1>7, SMT
<1>9. goes(f, k)
  <2>1. f[0] = x
    BY <1>5, <1>6, SMT
  <2>2. ASSUME NEW i \in 1..k PROVE f[i] = F[i][f[i - 1]]
    BY <1>5, <1>6, SMT
  <2>. QED
    BY <2>1, <2>2
<1>. QED
  BY <1>3, <1>8, <1>9

-----------------------------------------------------------------------------
(* Parsing: whatever a field holds, a date is read from it. *)

\* What parseDate knows of a date while it reads the words.
Parts == [y: Int, m: Int, d: Int, hr: Int, min: Int]

\* One word more of either pass.
LEMMA WordsArePartsOfDates ==
    ASSUME NEW r \in Parts, NEW par, NEW v \in Int
    PROVE  readWord(r, par, v) \in Parts /\ guessWord(r, v) \in Parts
<1>1. century(v) \in Int /\ NaN \in Int /\ v - 1 \in Int /\ r.hr + 12 \in Int /\ r.hr - 12 \in Int
  BY SMT DEF century, NaN, Parts
<1>2. readWord(r, par, v) \in Parts
  BY <1>1, Zenon DEF readWord, Parts
<1>3. guessWord(r, v) \in Parts
  BY <1>1, Zenon DEF guessWord, Parts
<1>. QED
  BY <1>2, <1>3

\* The first pass over a text, up to each of its words.
LEMMA ReadUpTo ==
    ASSUME NEW text \in Seq(Int), NEW b
    PROVE  /\ readUpTo(text, b) = [i \in 0..Len(text) |->
                IF i = 0 THEN Unread
                ELSE IF i > Len(b) THEN readUpTo(text, b)[i - 1]
                ELSE readWord(readUpTo(text, b)[i - 1], b[i], text[i])]
           /\ readUpTo(text, b) \in [0..Len(text) -> Parts]
<1> DEFINE n == Len(text)
           Step(i, r) == IF i > Len(b) THEN r ELSE readWord(r, b[i], text[i])
           defines(f) == f = [i \in 0..n |-> IF i = 0 THEN Unread
                                ELSE IF i > Len(b) THEN f[i - 1]
                                ELSE readWord(f[i - 1], b[i], text[i])]
<1>1. n \in Nat /\ \A i \in 1..n : text[i] \in Int
  OBVIOUS
<1>2. Unread \in Parts
  BY SMT DEF Unread, Parts
<1>3. \A i \in 1..n, r \in Parts : Step(i, r) \in Parts
  BY <1>1, WordsArePartsOfDates
<1>4. PICK F \in [1..n -> [Parts -> Parts]] : \A i \in 1..n, r \in Parts : F[i][r] = Step(i, r)
  <2>1. [i \in 1..n |-> [r \in Parts |-> Step(i, r)]] \in [1..n -> [Parts -> Parts]]
    BY <1>3
  <2>. QED
    BY <2>1
<1> HIDE DEF n
<1>5. PICK f \in [0..n -> Parts] : f[0] = Unread /\ \A i \in 1..n : f[i] = F[i][f[i - 1]]
  <2>1. F \in StepsIn(Parts, n)
    BY DEF StepsIn
  <2>2. HasIteration(Parts, Unread, n, F)
    BY <1>1, <1>2, <2>1, Iteration
  <2>. QED
    BY <2>2 DEF HasIteration
<1>6. defines(f)
  <2>1. ASSUME NEW i \in 1..n PROVE f[i] = Step(i, f[i - 1])
    <3>1. i - 1 \in 0..n
      BY <1>1, SMT
    <3>. QED
      BY <1>4, <1>5, <3>1
  <2>2. \A i \in 0..n : f[i] = IF i = 0 THEN Unread ELSE Step(i, f[i - 1])
    <3>1. \A i \in 0..n : i # 0 => i \in 1..n
      BY <1>1, SMT
    <3>. QED
      BY <1>5, <2>1, <3>1
  <2>. QED
    BY <1>5, <2>2
<1>7. readUpTo(text, b) = CHOOSE g : defines(g)
  BY DEF readUpTo, n
<1>8. defines(readUpTo(text, b))
  BY <1>6, <1>7
<1> DEFINE g == readUpTo(text, b)
<1>9. g \in [0..n -> Parts]
  <2> HIDE DEF g
  <2>0. defines(g)
    BY <1>8 DEF g
  <2>1. g[0] \in Parts
    BY <1>1, <1>2, <2>0
  <2>2. \A i \in 1..n : g[i - 1] \in Parts => g[i] \in Parts
    <3>1. \A i \in 1..n : i # 0 /\ i \in 0..n
      BY <1>1, SMT
    <3>. QED
      BY <1>3, <2>0, <3>1
  <2>3. \A i \in 0..n : g[i] \in Parts
    BY <1>1, <2>1, <2>2, IterationType
  <2>. QED
    BY <2>0, <2>3
<1>. QED
  BY <1>8, <1>9 DEF n
\* The second pass.
LEMMA GuessUpTo ==
    ASSUME NEW text \in Seq(Int)
    PROVE  /\ guessUpTo(text) = [i \in 0..Len(text) |->
                IF i = 0 THEN Unread
                ELSE guessWord(guessUpTo(text)[i - 1], text[i])]
           /\ guessUpTo(text) \in [0..Len(text) -> Parts]
<1> DEFINE n == Len(text)
           Step(i, r) == guessWord(r, text[i])
           defines(f) == f = [i \in 0..n |-> IF i = 0 THEN Unread
                                ELSE guessWord(f[i - 1], text[i])]
<1>1. n \in Nat /\ \A i \in 1..n : text[i] \in Int
  OBVIOUS
<1>2. Unread \in Parts
  BY SMT DEF Unread, Parts
<1>3. \A i \in 1..n, r \in Parts : Step(i, r) \in Parts
  BY <1>1, WordsArePartsOfDates
<1>4. PICK F \in [1..n -> [Parts -> Parts]] : \A i \in 1..n, r \in Parts : F[i][r] = Step(i, r)
  <2>1. [i \in 1..n |-> [r \in Parts |-> Step(i, r)]] \in [1..n -> [Parts -> Parts]]
    BY <1>3
  <2>. QED
    BY <2>1
<1> HIDE DEF n
<1>5. PICK f \in [0..n -> Parts] : f[0] = Unread /\ \A i \in 1..n : f[i] = F[i][f[i - 1]]
  <2>1. F \in StepsIn(Parts, n)
    BY DEF StepsIn
  <2>2. HasIteration(Parts, Unread, n, F)
    BY <1>1, <1>2, <2>1, Iteration
  <2>. QED
    BY <2>2 DEF HasIteration
<1>6. defines(f)
  <2>1. ASSUME NEW i \in 1..n PROVE f[i] = Step(i, f[i - 1])
    <3>1. i - 1 \in 0..n
      BY <1>1, SMT
    <3>. QED
      BY <1>4, <1>5, <3>1
  <2>2. \A i \in 0..n : f[i] = IF i = 0 THEN Unread ELSE Step(i, f[i - 1])
    <3>1. \A i \in 0..n : i # 0 => i \in 1..n
      BY <1>1, SMT
    <3>. QED
      BY <1>5, <2>1, <3>1
  <2>. QED
    BY <1>5, <2>2
<1>7. guessUpTo(text) = CHOOSE g : defines(g)
  BY DEF guessUpTo, n
<1>8. defines(guessUpTo(text))
  BY <1>6, <1>7
<1> DEFINE g == guessUpTo(text)
<1>9. g \in [0..n -> Parts]
  <2> HIDE DEF g
  <2>0. defines(g)
    BY <1>8 DEF g
  <2>1. g[0] \in Parts
    BY <1>1, <1>2, <2>0
  <2>2. \A i \in 1..n : g[i - 1] \in Parts => g[i] \in Parts
    <3>1. \A i \in 1..n : i # 0 /\ i \in 0..n
      BY <1>1, SMT
    <3>. QED
      BY <1>3, <2>0, <3>1
  <2>3. \A i \in 0..n : g[i] \in Parts
    BY <1>1, <2>1, <2>2, IterationType
  <2>. QED
    BY <2>0, <2>3
<1>. QED
  BY <1>8, <1>9 DEF n

\* Whatever the text and the format, parseDate gives a date.
THEOREM ParseDate ==
    ASSUME NEW text \in Seq(Int), NEW fmt
    PROVE  parseDate(text, fmt) \in DateTime
<1> DEFINE n == Len(text)
           r == readWords(text, fmt)
           g == guessWords(text)
<1>1. n \in Nat /\ n \in 0..n /\ Today \in DateTime
  BY TodayAssumption, DateIsDateTime
<1>2. g \in Parts /\ readUpTo(text, directives(fmt))[n] \in Parts
  BY <1>1, ReadUpTo, GuessUpTo DEF guessWords
<1>3. r \in Parts
  <2> DEFINE q == readUpTo(text, directives(fmt))[n]
  <2>1. /\ getFullYear(Today) \in Int /\ getMonth(Today) \in Int /\ getDate(Today) \in Int
        /\ Today.hours \in Int /\ Today.minutes \in Int
    BY <1>1, GettersAreInt
  <2>2. q \in Parts
    BY <1>2
  <2>3. r = [y |-> IF q.y = NaN THEN getFullYear(Today) ELSE q.y,
             m |-> IF q.m = NaN THEN getMonth(Today) ELSE q.m,
             d |-> IF q.d = NaN THEN getDate(Today) ELSE q.d,
             hr |-> IF q.hr = NaN THEN Today.hours ELSE q.hr,
             min |-> IF q.min = NaN THEN Today.minutes ELSE q.min]
    BY DEF readWords
  <2> HIDE DEF q, r
  <2>. QED
    BY <2>1, <2>2, <2>3 DEF Parts
<1>4. ASSUME NEW y \in Int, NEW m \in Int, NEW d \in Int, NEW hr \in Int, NEW min \in Int
      PROVE  newDate(y, m, d, hr, min) \in DateTime
  BY DayNumberIsInt DEF newDate, DateTime
<1>5. NoDate \in DateTime
  BY DEF NoDate, DateTime
<1>6. getFullYear(Today) \in Int
  BY <1>1, GettersAreInt
<1>7. parseDate(text, fmt) \in {NoDate, Today, newDate(r.y, r.m, r.d, r.hr, r.min),
          newDate(IF g.y = 0 THEN getFullYear(Today) ELSE g.y, g.m, g.d, r.hr, r.min)}
  BY DEF parseDate
<1> HIDE DEF r, g
<1>8. /\ r.y \in Int /\ r.m \in Int /\ r.d \in Int /\ r.hr \in Int /\ r.min \in Int
      /\ g.y \in Int /\ g.m \in Int /\ g.d \in Int
  BY <1>2, <1>3 DEF Parts
<1>. QED
  <2> DEFINE y == IF g.y = 0 THEN getFullYear(Today) ELSE g.y
  <2>1. y \in Int
    BY <1>6, <1>8
  <2>2. newDate(r.y, r.m, r.d, r.hr, r.min) \in DateTime
    BY <1>4, <1>8
  <2> HIDE DEF y
  <2>3. newDate(y, g.m, g.d, r.hr, r.min) \in DateTime
    BY <1>4, <1>8, <2>1
  <2>. QED
    BY <1>1, <1>5, <1>7, <2>2, <2>3 DEF y

\* What a date prints, in any format, is a text of numbers.
LEMMA PrintIsText ==
    ASSUME NEW d \in DateTime, NEW fmt \in Seq(Word)
    PROVE  print(d, fmt) \in Seq(Int)
<1>1. /\ getFullYear(d) \in Int /\ getMonth(d) \in Int /\ getDate(d) \in Int
      /\ d.day \in Int /\ d.hours \in Int /\ d.minutes \in Int
  BY GettersAreInt
<1>2. getDayOfYear(d) \in Int
  <2>1. DayNumber(getFullYear(d), 0, 0) \in Int
    BY <1>1, DayNumberIsInt
  <2>. QED
    BY <1>1, <2>1, SMT DEF getDayOfYear, Midnight
<1>3. getWeekNumber(d) \in Int
  <2> DEFINE thu == d.day + 3 - ((d.day + 6) % 7)
             first == DayNumber(Civil(thu).year, 0, 1)
  <2>1. thu \in Int
    BY <1>1, SMT
  <2>2. first \in Int
    <3>1. Civil(thu).year \in Int
      BY <2>1, DayOfYear
    <3> DEFINE zero == 0
               one == 1
    <3>2. zero \in Int /\ one \in Int
      OBVIOUS
    <3> HIDE DEF zero, one, thu
    <3>3. DayNumber(Civil(thu).year, zero, one) \in Int
      BY <3>1, <3>2, DayNumberIsInt
    <3>. QED
      BY <3>3 DEF zero, one
  <2>3. getWeekNumber(d) = ((thu - first) \div 7) + 1
    BY WeekNumber
  <2> HIDE DEF thu, first
  <2>. QED
    BY <2>1, <2>2, <2>3, SMT
<1>4. /\ getMonth(d) + 1 \in Int /\ getFullYear(d) % 100 \in Int
      /\ 1 + (getFullYear(d) \div 100) \in Int /\ hour12(d.hours) \in Int
      /\ getDay(d) \in Int /\ getDay(d) + 1 \in Int /\ Empty \in Int /\ NaN \in Int
  BY <1>1, SMT DEF hour12, getDay, Empty, NaN
<1>5. ASSUME NEW par PROVE directive(d, par) \in Int
  <2>1. directive(d, par) \in
            {getDate(d), getMonth(d) + 1, getFullYear(d), getFullYear(d) % 100,
             1 + (getFullYear(d) \div 100), d.hours, hour12(d.hours), d.minutes, 0, 1,
             getDayOfYear(d), getWeekNumber(d), getDay(d) + 1, getDay(d), Empty, NaN}
    BY Zenon DEF directive
  <2>2. 0 \in Int /\ 1 \in Int
    OBVIOUS
  <2>. QED
    BY <1>1, <1>2, <1>3, <1>4, <2>1, <2>2, Zenon
<1>6. Len(fmt) \in Nat /\ DOMAIN fmt = 1..Len(fmt)
  OBVIOUS
<1>. QED
  BY <1>4, <1>5, <1>6 DEF print

-----------------------------------------------------------------------------
(* Reading what was printed                                                    *)

\* What holds at first and is kept by every step holds everywhere.
LEMMA EveryStep ==
    ASSUME NEW n \in Nat, NEW G, 0 \in G, \A i \in 1..n : i - 1 \in G => i \in G
    PROVE  \A i \in 0..n : i \in G
<1> DEFINE f == [i \in 0..n |-> i]
<1>1. f[0] \in G /\ \A i \in 1..n : f[i - 1] \in G => f[i] \in G
  BY SMT
<1> HIDE DEF f
<1>2. \A i \in 0..n : f[i] \in G
  BY <1>1, IterationType
<1>. QED
  BY <1>2 DEF f

\* The words of a format that are not directives.
literal(w) == w \in {"word", ""}

\* A sequence with one more element.
LEMMA AppendElement ==
    ASSUME NEW S, NEW s \in Seq(S), NEW x \in S
    PROVE  /\ Append(s, x) \in Seq(S) /\ Len(Append(s, x)) = Len(s) + 1
           /\ \A j \in 1..Len(s) : Append(s, x)[j] = s[j]
           /\ Append(s, x)[Len(s) + 1] = x
OBVIOUS

\* The words of a format that are not literal, up to each place.
LEMMA DirectivesUpTo ==
    ASSUME NEW fmt \in Seq(Word)
    PROVE  directivesUpTo(fmt) = [i \in 0..Len(fmt) |->
                IF i = 0 THEN <<>>
                ELSE IF literal(fmt[i]) THEN directivesUpTo(fmt)[i - 1]
                ELSE Append(directivesUpTo(fmt)[i - 1], fmt[i])]
<1> DEFINE n == Len(fmt)
           S == Seq(Word)
           skip(i) == literal(fmt[i])
           Step(i, s) == IF skip(i) THEN s ELSE Append(s, fmt[i])
           defines(f) == f = [i \in 0..n |-> IF i = 0 THEN <<>>
                                ELSE IF skip(i) THEN f[i - 1]
                                ELSE Append(f[i - 1], fmt[i])]
<1>1. n \in Nat /\ \A i \in 1..n : fmt[i] \in Word
  OBVIOUS
<1>2. <<>> \in S
  OBVIOUS
<1>3. \A i \in 1..n, s \in S : Step(i, s) \in S
  <2>1. ASSUME NEW i \in 1..n, NEW s \in S PROVE Append(s, fmt[i]) \in S
    BY <1>1, AppendElement
  <2> HIDE DEF skip, S
  <2>. QED
    BY <2>1
<1>4. PICK F \in [1..n -> [S -> S]] : \A i \in 1..n, s \in S : F[i][s] = Step(i, s)
  <2> HIDE DEF Step, S
  <2>1. [i \in 1..n |-> [s \in S |-> Step(i, s)]] \in [1..n -> [S -> S]]
    BY <1>3
  <2>. QED
    BY <2>1
<1> HIDE DEF n, S, skip
<1>5. PICK f \in [0..n -> S] : f[0] = <<>> /\ \A i \in 1..n : f[i] = F[i][f[i - 1]]
  <2>1. F \in StepsIn(S, n)
    BY DEF StepsIn
  <2> DEFINE x == <<>>
  <2>2. x \in S
    BY <1>2
  <2> HIDE DEF x
  <2>3. HasIteration(S, x, n, F)
    BY <1>1, <2>1, <2>2, Iteration
  <2>. QED
    BY <2>3 DEF HasIteration, x
<1>6. defines(f)
  <2>1. ASSUME NEW i \in 1..n PROVE f[i] = Step(i, f[i - 1])
    <3>1. i - 1 \in 0..n
      BY <1>1, SMT
    <3>. QED
      BY <1>4, <1>5, <3>1
  <2>2. \A i \in 0..n : f[i] = IF i = 0 THEN <<>> ELSE Step(i, f[i - 1])
    <3>1. \A i \in 0..n : i # 0 => i \in 1..n
      BY <1>1, SMT
    <3>. QED
      BY <1>5, <2>1, <3>1
  <2>. QED
    BY <1>5, <2>2
<1>7. directivesUpTo(fmt) = CHOOSE g : defines(g)
  BY Zenon DEF directivesUpTo, n, skip, literal
<1>. QED
  BY <1>6, <1>7 DEF n, skip

\* A format without literal words is the sequence of its directives.
LEMMA DirectivesOfPlain ==
    ASSUME NEW fmt \in Seq(Word), \A i \in 1..Len(fmt) : ~literal(fmt[i])
    PROVE  /\ directives(fmt) \in Seq(Word) /\ Len(directives(fmt)) = Len(fmt)
           /\ \A i \in 1..Len(fmt) : directives(fmt)[i] = fmt[i]
<1> DEFINE n == Len(fmt)
           D == directivesUpTo(fmt)
           G == {i \in 0..n : /\ D[i] \in Seq(Word) /\ Len(D[i]) = i
                              /\ \A j \in 1..i : D[i][j] = fmt[j]}
<1>1. n \in Nat /\ n \in 0..n /\ \A i \in 1..n : fmt[i] \in Word
  <2>1. n \in Nat /\ \A i \in 1..n : fmt[i] \in Word
    OBVIOUS
  <2> HIDE DEF n
  <2>. QED
    BY <2>1
<1>2. D[0] = <<>> /\ \A i \in 1..n : D[i] = Append(D[i - 1], fmt[i])
  <2>1. D = [i \in 0..n |-> IF i = 0 THEN <<>>
                ELSE IF literal(fmt[i]) THEN D[i - 1] ELSE Append(D[i - 1], fmt[i])]
    BY DirectivesUpTo
  <2>2. 0 \in 0..n /\ \A i \in 1..n : i \in 0..n /\ i # 0
    BY <1>1, SMT
  <2> HIDE DEF D, n
  <2>3. D[0] = <<>>
    BY <2>1, <2>2
  <2>4. ASSUME NEW i \in 1..n PROVE D[i] = Append(D[i - 1], fmt[i])
    BY <2>1, <2>2 DEF n
  <2>. QED
    BY <2>3, <2>4
<1> HIDE DEF D, n
<1>3. 0 \in G
  <2>1. 0 \in 0..n /\ D[0] \in Seq(Word) /\ Len(D[0]) = 0
    BY <1>1, <1>2
  <2>2. \A j \in 1..0 : D[0][j] = fmt[j]
    BY SMT
  <2>. QED
    BY <2>1, <2>2
<1>4. ASSUME NEW i \in 1..n, i - 1 \in G PROVE i \in G
  <2> DEFINE s == D[i - 1]
  <2>1. /\ s \in Seq(Word) /\ Len(s) = i - 1 /\ \A j \in 1..(i - 1) : s[j] = fmt[j]
    BY <1>4
  <2>2. D[i] = Append(s, fmt[i]) /\ fmt[i] \in Word
    BY <1>1, <1>2
  <2> HIDE DEF s
  <2>3. /\ Append(s, fmt[i]) \in Seq(Word) /\ Len(Append(s, fmt[i])) = i
        /\ \A j \in 1..i : Append(s, fmt[i])[j] = fmt[j]
    <3>1. i \in Nat /\ i - 1 + 1 = i /\ \A j \in 1..i : j \in 1..(i - 1) \/ j = i
      BY <1>1, SMT
    <3>2. /\ Append(s, fmt[i]) \in Seq(Word) /\ Len(Append(s, fmt[i])) = Len(s) + 1
          /\ \A j \in 1..Len(s) : Append(s, fmt[i])[j] = s[j]
          /\ Append(s, fmt[i])[Len(s) + 1] = fmt[i]
      BY <2>1, <2>2, AppendElement
    <3> DEFINE u == Append(s, fmt[i])
    <3> HIDE DEF u
    <3>. QED
      BY <2>1, <3>1, <3>2 DEF u
  <2>4. i \in 0..n
    BY <1>1, SMT
  <2>. QED
    BY <2>2, <2>3, <2>4
<1>5. n \in G
  <2> HIDE DEF G
  <2>1. \A i \in 0..n : i \in G
    BY <1>1, <1>3, <1>4, EveryStep
  <2>. QED
    BY <1>1, <2>1
<1>. QED
  BY <1>5 DEF directives, D, n

\* What parseDate makes of one printed word.
LEMMA ReadPrintedWord ==
    ASSUME NEW d \in DateTime, d.hours \in 0..23, d.minutes \in 0..59, NEW r \in Parts
    PROVE  /\ readWord(r, "%d", directive(d, "%d")) = [r EXCEPT !.d = getDate(d)]
           /\ readWord(r, "%e", directive(d, "%e")) = [r EXCEPT !.d = getDate(d)]
           /\ readWord(r, "%m", directive(d, "%m")) = [r EXCEPT !.m = getMonth(d)]
           /\ 100 <= getFullYear(d) =>
                readWord(r, "%Y", directive(d, "%Y")) = [r EXCEPT !.y = getFullYear(d)]
           /\ getFullYear(d) \in 1930..2029 =>
                readWord(r, "%y", directive(d, "%y")) = [r EXCEPT !.y = getFullYear(d)]
           /\ readWord(r, "%H", directive(d, "%H")) = [r EXCEPT !.hr = d.hours]
           /\ readWord(r, "%I", directive(d, "%I")) = [r EXCEPT !.hr = hour12(d.hours)]
           /\ readWord(r, "%M", directive(d, "%M")) = [r EXCEPT !.min = d.minutes]
           /\ r.hr \in {d.hours, hour12(d.hours)} =>
                readWord(r, "%p", directive(d, "%p")) = [r EXCEPT !.hr = d.hours]
<1>1. getDate(d) \in 1..31 /\ getMonth(d) \in 0..11 /\ getFullYear(d) \in Int
  BY Getters
<1>2. /\ directive(d, "%d") = getDate(d) /\ directive(d, "%e") = getDate(d)
      /\ directive(d, "%m") = getMonth(d) + 1
      /\ directive(d, "%Y") = getFullYear(d) /\ directive(d, "%y") = getFullYear(d) % 100
      /\ directive(d, "%H") = d.hours /\ directive(d, "%I") = hour12(d.hours)
      /\ directive(d, "%M") = d.minutes
      /\ directive(d, "%p") = IF d.hours >= 12 THEN 1 ELSE 0
  BY Zenon DEF directive
<1>3. ASSUME NEW v \in Int, 0 <= v
      PROVE  /\ readWord(r, "%d", v) = [r EXCEPT !.d = v]
             /\ readWord(r, "%e", v) = [r EXCEPT !.d = v]
             /\ readWord(r, "%m", v) = [r EXCEPT !.m = v - 1]
             /\ readWord(r, "%Y", v) = [r EXCEPT !.y = century(v)]
             /\ readWord(r, "%y", v) = [r EXCEPT !.y = century(v)]
             /\ readWord(r, "%H", v) = [r EXCEPT !.hr = v]
             /\ readWord(r, "%I", v) = [r EXCEPT !.hr = v]
             /\ readWord(r, "%M", v) = [r EXCEPT !.min = v]
             /\ r.hr # NaN => readWord(r, "%p", v) =
                    [r EXCEPT !.hr = IF v = 1 /\ r.hr < 12 THEN r.hr + 12
                                     ELSE IF v = 0 /\ r.hr >= 12 THEN r.hr - 12 ELSE r.hr]
  <2>1. v # Empty /\ v # NaN
    BY <1>3, SMT DEF Empty, NaN
  <2>. QED
    BY <2>1 DEF readWord
<1>4. \A y \in Int : 100 <= y => century(y) = y
  BY SMT DEF century
<1>5. \A y \in 1930..2029 : century(y % 100) = y
  BY SMT DEF century, NaN
<1>6. \A h \in 0..23 : hour12(h) \in 1..12
  BY SMT DEF hour12
<1>8. \A h \in 0..23 : /\ h >= 12 => (hour12(h) = 12 /\ h = 12) \/ hour12(h) + 12 = h
                       /\ h < 12 => (hour12(h) = 12 /\ h = 0) \/ hour12(h) = h
  BY SMT DEF hour12
<1>9. readWord(r, "%d", directive(d, "%d")) = [r EXCEPT !.d = getDate(d)]
      /\ readWord(r, "%e", directive(d, "%e")) = [r EXCEPT !.d = getDate(d)]
  BY <1>1, <1>2, <1>3
<1>10. readWord(r, "%m", directive(d, "%m")) = [r EXCEPT !.m = getMonth(d)]
  BY <1>1, <1>2, <1>3
<1>11. 100 <= getFullYear(d) =>
         readWord(r, "%Y", directive(d, "%Y")) = [r EXCEPT !.y = getFullYear(d)]
  BY <1>1, <1>2, <1>3, <1>4
<1>12. getFullYear(d) \in 1930..2029 =>
         readWord(r, "%y", directive(d, "%y")) = [r EXCEPT !.y = getFullYear(d)]
  <2>1. SUFFICES ASSUME getFullYear(d) \in 1930..2029
        PROVE  readWord(r, "%y", getFullYear(d) % 100) = [r EXCEPT !.y = getFullYear(d)]
    BY <1>2
  <2>2. getFullYear(d) % 100 \in Int /\ 0 <= getFullYear(d) % 100
    BY <2>1, SMT
  <2>. QED
    BY <1>3, <1>5, <2>1, <2>2
<1>13. /\ readWord(r, "%H", directive(d, "%H")) = [r EXCEPT !.hr = d.hours]
       /\ readWord(r, "%I", directive(d, "%I")) = [r EXCEPT !.hr = hour12(d.hours)]
       /\ readWord(r, "%M", directive(d, "%M")) = [r EXCEPT !.min = d.minutes]
  BY <1>2, <1>3, <1>6
<1>14. r.hr \in {d.hours, hour12(d.hours)} =>
         readWord(r, "%p", directive(d, "%p")) = [r EXCEPT !.hr = d.hours]
  <2>1. SUFFICES ASSUME r.hr \in {d.hours, hour12(d.hours)}
        PROVE  readWord(r, "%p", IF d.hours >= 12 THEN 1 ELSE 0) = [r EXCEPT !.hr = d.hours]
    BY <1>2
  <2> DEFINE v == IF d.hours >= 12 THEN 1 ELSE 0
             h == r.hr
  <2>2. v \in Int /\ 0 <= v /\ h \in Int /\ h # NaN
    BY <1>6, <2>1, SMT DEF NaN
  <2>3. (IF v = 1 /\ h < 12 THEN h + 12 ELSE IF v = 0 /\ h >= 12 THEN h - 12 ELSE h)
            = d.hours
    BY <1>6, <1>8, <2>1, SMT
  <2> HIDE DEF v
  <2>4. readWord(r, "%p", v) =
            [r EXCEPT !.hr = IF v = 1 /\ r.hr < 12 THEN r.hr + 12
                             ELSE IF v = 0 /\ r.hr >= 12 THEN r.hr - 12 ELSE r.hr]
    BY <1>3, <2>2
  <2>. QED
    BY <2>3, <2>4 DEF v
<1>. QED
  BY <1>9, <1>10, <1>11, <1>12, <1>13, <1>14

\* What the first i words of d, printed in fmt, tell of it.
told(fmt, d, i) ==
    [y |-> IF Seen(fmt, i, {"%Y", "%y"}) THEN getFullYear(d) ELSE 0,
     m |-> IF Seen(fmt, i, {"%m"}) THEN getMonth(d) ELSE -1,
     d |-> IF Seen(fmt, i, {"%d", "%e"}) THEN getDate(d) ELSE 0,
     hr |-> IF Seen(fmt, i, {"%H", "%p"}) THEN d.hours
            ELSE IF Seen(fmt, i, {"%I"}) THEN hour12(d.hours) ELSE 0,
     min |-> IF Seen(fmt, i, {"%M"}) THEN d.minutes ELSE 0]

\* A word more.
LEMMA SeenNext ==
    ASSUME NEW fmt, NEW i \in Nat, i # 0, NEW par
    PROVE  Seen(fmt, i, par) <=> Seen(fmt, i - 1, par) \/ fmt[i] \in par
<1>1. \A j : j \in 1..i <=> j \in 1..(i - 1) \/ j = i
  BY SMT
<1>. QED
  BY <1>1 DEF Seen

\* Every word adds to what is told.
LEMMA ToldNext ==
    ASSUME NEW fmt, Readable(fmt), NEW d \in DateTime, d.hours \in 0..23, d.minutes \in 0..59,
           100 <= getFullYear(d),
           Seen(fmt, Len(fmt), {"%y"}) => getFullYear(d) \in 1930..2029,
           NEW i \in 1..Len(fmt)
    PROVE  /\ told(fmt, d, i - 1) \in Parts
           /\ readWord(told(fmt, d, i - 1), fmt[i], directive(d, fmt[i])) = told(fmt, d, i)
<1> DEFINE n == Len(fmt)
           w == fmt[i]
           r == told(fmt, d, i - 1)
           t == told(fmt, d, i)
<1>1. n \in Nat /\ i \in Nat /\ i # 0
  BY SMT DEF Readable
<1>2. w \in Numeric
  BY DEF Readable
<1>3. \A par : Seen(fmt, i, par) <=> Seen(fmt, i - 1, par) \/ w \in par
  BY <1>1, SeenNext
<1>4. \A par : w \in par => Seen(fmt, n, par)
  BY DEF Seen
<1>5. getFullYear(d) \in Int /\ getMonth(d) \in Int /\ getDate(d) \in Int /\ hour12(d.hours) \in Int
  <2>1. hour12(d.hours) \in Int
    BY SMT DEF hour12
  <2>. QED
    BY <2>1, GettersAreInt
<1>6. r \in Parts
  <2>0. 0 \in Int /\ -1 \in Int /\ d.hours \in Int /\ d.minutes \in Int
    BY GettersAreInt
  <2>1. /\ r.y \in Int /\ r.m \in Int /\ r.d \in Int
        /\ r.hr \in Int /\ r.min \in Int
    <3>1. r.y \in {getFullYear(d), 0}
      BY DEF told
    <3>2. r.m \in {getMonth(d), -1}
      BY DEF told
    <3>3. r.d \in {getDate(d), 0}
      BY DEF told
    <3>4. r.hr \in {d.hours, hour12(d.hours), 0}
      BY DEF told
    <3>5. r.min \in {d.minutes, 0}
      BY DEF told
    <3> HIDE DEF r
    <3>. QED
      BY <1>5, <2>0, <3>1, <3>2, <3>3, <3>4, <3>5
  <2>2. r = [y |-> r.y, m |-> r.m, d |-> r.d, hr |-> r.hr, min |-> r.min]
    BY DEF told
  <2> HIDE DEF r
  <2>. QED
    BY <2>1, <2>2 DEF Parts
<1> HIDE DEF r, w
<1>7. CASE w \in {"%d", "%e"}
  <2>1. readWord(r, w, directive(d, w)) = [r EXCEPT !.d = getDate(d)]
    <3>1. CASE w = "%d"
      BY <1>6, <3>1, ReadPrintedWord
    <3>2. CASE w = "%e"
      BY <1>6, <3>2, ReadPrintedWord
    <3>. QED
      BY <1>7, <3>1, <3>2
  <2>2. t = [r EXCEPT !.d = getDate(d)]
    BY <1>3, <1>7 DEF told, r, t
  <2>. QED
    BY <1>6, <2>1, <2>2 DEF w, r
<1>8. CASE w = "%m"
  <2>1. readWord(r, w, directive(d, w)) = [r EXCEPT !.m = getMonth(d)]
    BY <1>6, <1>8, ReadPrintedWord
  <2>2. t = [r EXCEPT !.m = getMonth(d)]
    BY <1>3, <1>8 DEF told, r, t
  <2>. QED
    BY <1>6, <2>1, <2>2 DEF w, r
<1>9. CASE w \in {"%Y", "%y"}
  <2>1. w = "%y" => getFullYear(d) \in 1930..2029
    <3>1. Seen(fmt, Len(fmt), {"%y"}) => getFullYear(d) \in 1930..2029
      OBVIOUS
    <3> DEFINE par == {"%y"}
    <3>2. w = "%y" => w \in par
      OBVIOUS
    <3> HIDE DEF par
    <3>3. w = "%y" => Seen(fmt, n, par)
      BY <1>4, <3>2
    <3>. QED
      BY <3>1, <3>3 DEF par
  <2>2. readWord(r, w, directive(d, w)) = [r EXCEPT !.y = getFullYear(d)]
    <3>1. CASE w = "%Y"
      BY <1>6, <3>1, ReadPrintedWord
    <3>2. CASE w = "%y"
      BY <1>6, <2>1, <3>2, ReadPrintedWord
    <3>. QED
      BY <1>9, <3>1, <3>2
  <2>3. t = [r EXCEPT !.y = getFullYear(d)]
    BY <1>3, <1>9 DEF told, r, t
  <2>. QED
    BY <1>6, <2>2, <2>3 DEF w, r
<1>10. CASE w = "%M"
  <2>1. readWord(r, w, directive(d, w)) = [r EXCEPT !.min = d.minutes]
    BY <1>6, <1>10, ReadPrintedWord
  <2>2. t = [r EXCEPT !.min = d.minutes]
    BY <1>3, <1>10 DEF told, r, t
  <2>. QED
    BY <1>6, <2>1, <2>2 DEF w, r
<1>11. CASE w = "%H"
  <2>1. readWord(r, w, directive(d, w)) = [r EXCEPT !.hr = d.hours]
    BY <1>6, <1>11, ReadPrintedWord
  <2>2. t = [r EXCEPT !.hr = d.hours]
    BY <1>3, <1>11 DEF told, r, t
  <2>. QED
    BY <1>6, <2>1, <2>2 DEF w, r
<1>12. CASE w = "%I"
  <2>1. readWord(r, w, directive(d, w)) = [r EXCEPT !.hr = hour12(d.hours)]
    BY <1>6, <1>12, ReadPrintedWord
  <2>2. ~Seen(fmt, i, {"%H", "%p"})
    <3>1. Seen(fmt, n, {"%I", "%p"})
      BY <1>4, <1>12
    <3>2. /\ ~Seen(fmt, n, {"%H"})
          /\ \A j \in 1..n : fmt[j] = "%p" => \A k \in j..n : fmt[k] # "%I"
      BY <3>1 DEF Readable
    <3>3. ASSUME NEW j \in 1..i PROVE fmt[j] \notin {"%H", "%p"}
      <4>1. j \in 1..n /\ i \in j..n
        BY <1>1, SMT
      <4>. QED
        BY <1>12, <3>2, <4>1 DEF Seen, w
    <3>. QED
      BY <3>3 DEF Seen
  <2>3. t = [r EXCEPT !.hr = hour12(d.hours)]
    BY <1>3, <1>12, <2>2 DEF told, r, t
  <2>. QED
    BY <1>6, <2>1, <2>3 DEF w, r
<1>13. CASE w = "%p"
  <2>1. Seen(fmt, i - 1, {"%I"})
    <3>1. Seen(fmt, n, {"%I", "%p"})
      BY <1>4, <1>13
    <3>. QED
      BY <1>13, <3>1 DEF Readable, w
  <2>2. r.hr \in {d.hours, hour12(d.hours)}
    BY <2>1 DEF told, r
  <2>3. readWord(r, w, directive(d, w)) = [r EXCEPT !.hr = d.hours]
    BY <1>6, <1>13, <2>2, ReadPrintedWord
  <2>4. t = [r EXCEPT !.hr = d.hours]
    BY <1>3, <1>13 DEF told, r, t
  <2>. QED
    BY <1>6, <2>3, <2>4 DEF w, r
<1>. QED
  BY <1>2, <1>6, <1>7, <1>8, <1>9, <1>10, <1>11, <1>12, <1>13 DEF Numeric, w, r, t

\* Printed and read again, a date in a readable format is what its words tell of it.
LEMMA ReadBack ==
    ASSUME NEW fmt, Readable(fmt), NEW d \in DateTime, d.hours \in 0..23, d.minutes \in 0..59,
           100 <= getFullYear(d),
           Seen(fmt, Len(fmt), {"%y"}) => getFullYear(d) \in 1930..2029
    PROVE  /\ Len(print(d, fmt)) = Len(fmt)
           /\ readUpTo(print(d, fmt), directives(fmt))[Len(fmt)] = told(fmt, d, Len(fmt))
<1> DEFINE n == Len(fmt)
           text == print(d, fmt)
           b == directives(fmt)
           u == readUpTo(text, b)
           G == {i \in 0..n : u[i] = told(fmt, d, i)}
<1>1. fmt \in Seq(Word) /\ n \in Nat /\ \A i \in 1..n : fmt[i] \in Numeric
  BY DEF Readable
<1>2. \A w \in Numeric : ~literal(w) /\ w \notin {"%k", "%w"}
  BY Zenon DEF Numeric, literal
<1>3. Len(b) = n /\ \A i \in 1..n : b[i] = fmt[i]
  BY <1>1, <1>2, DirectivesOfPlain
<1>4. text \in Seq(Int) /\ Len(text) = n
  <2>1. text \in Seq(Int)
    BY <1>1, PrintIsText
  <2>2. DOMAIN text = 1..n
    BY <1>1 DEF print
  <2> HIDE DEF text
  <2>3. Len(text) \in Nat /\ DOMAIN text = 1..Len(text)
    BY <2>1
  <2>. QED
    BY <1>1, <2>1, <2>2, <2>3
<1>5. \A i \in 1..n : text[i] = directive(d, fmt[i])
  BY <1>1, <1>2 DEF print
<1> HIDE DEF text, b
<1>6. u = [i \in 0..n |-> IF i = 0 THEN Unread
                          ELSE IF i > Len(b) THEN u[i - 1]
                          ELSE readWord(u[i - 1], b[i], text[i])]
  BY <1>4, ReadUpTo
<1> HIDE DEF u, n
<1>7. u[0] = Unread /\ \A i \in 1..n : u[i] = readWord(u[i - 1], fmt[i], directive(d, fmt[i]))
  <2>1. 0 \in 0..n /\ \A i \in 1..n : i \in 0..n /\ i # 0 /\ ~(i > n)
    BY <1>1, SMT
  <2>2. u[0] = Unread
    BY <1>6, <2>1
  <2>3. ASSUME NEW i \in 1..n PROVE u[i] = readWord(u[i - 1], fmt[i], directive(d, fmt[i]))
    BY <1>3, <1>5, <1>6, <2>1
  <2>. QED
    BY <2>2, <2>3
<1>8. told(fmt, d, 0) = Unread
  <2>1. \A par : ~Seen(fmt, 0, par)
    BY SMT DEF Seen
  <2>. QED
    BY <2>1 DEF told, Unread
<1>9. 0 \in G
  BY <1>1, <1>7, <1>8
<1>10. ASSUME NEW i \in 1..n, i - 1 \in G PROVE i \in G
  <2>1. u[i - 1] = told(fmt, d, i - 1)
    BY <1>10
  <2>2. u[i] = readWord(told(fmt, d, i - 1), fmt[i], directive(d, fmt[i]))
    BY <1>7, <2>1
  <2>3. readWord(told(fmt, d, i - 1), fmt[i], directive(d, fmt[i])) = told(fmt, d, i)
    BY ToldNext DEF n
  <2>4. i \in 0..n
    BY <1>1, SMT
  <2>. QED
    BY <2>2, <2>3, <2>4
<1>11. n \in G
  <2> HIDE DEF G
  <2>1. \A i \in 0..n : i \in G
    <3>1. \A i \in 1..n : i - 1 \in G => i \in G
      BY <1>10
    <3>2. n \in Nat
      BY <1>1
    <3>. QED
      BY ONLY <1>9, <3>1, <3>2, EveryStep
  <2>. QED
    BY <1>1, <2>1
<1>. QED
  BY <1>4, <1>11 DEF n, u, b, text

\* The hour and the minute that are read are numbers.
LEMMA TimesAreNumbers ==
    ASSUME NEW hours \in 0..23, NEW minutes \in 0..59,
           NEW hr \in {hours, hour12(hours), 0}, NEW min \in {minutes, 0}
    PROVE  hr \in Int /\ min \in Int /\ hr # NaN /\ min # NaN
<1>1. hour12(hours) \in 1..12
  BY SMT DEF hour12
<1>2. \A x \in 0..59 : x \in Int /\ x # NaN
  BY SMT DEF NaN
<1>3. /\ 0 \in 0..59 /\ hours \in 0..59 /\ minutes \in 0..59
      /\ hour12(hours) \in 0..59
  BY <1>1, SMT
<1>4. hr \in 0..59 /\ min \in 0..59
  BY <1>3
<1>. QED
  BY <1>2, <1>4

\* So are the year, the month and the day, and they are not what parseDate starts from.
LEMMA DaysAreNumbers ==
    ASSUME NEW y \in Int, 100 <= y, NEW m \in 0..11, NEW k \in 1..31
    PROVE  y # NaN /\ m # NaN /\ k # NaN /\ y # 0 /\ m # -1 /\ k # 0
BY SMT DEF NaN

\* A date that is printed in a format of day, month and year is read as the same day,
\* and as the same minute when the format has the time, whatever the order and the
\* separators of its words: print and parseDate of calendar.js are inverse.
THEOREM PrintedDate ==
    ASSUME NEW fmt, Readable(fmt), NEW d \in DateTime, d.hours \in 0..23, d.minutes \in 0..59,
           100 <= getFullYear(d),
           Seen(fmt, Len(fmt), {"%d", "%e"}), Seen(fmt, Len(fmt), {"%m"}),
           \/ Seen(fmt, Len(fmt), {"%Y"})
           \/ Seen(fmt, Len(fmt), {"%y"}) /\ getFullYear(d) \in 1930..2029
    PROVE  LET r == parseDate(print(d, fmt), fmt)
           IN  /\ r.day = d.day
               /\ (Seen(fmt, Len(fmt), {"%H", "%p"}) /\ Seen(fmt, Len(fmt), {"%M"})) => r = d
<1> DEFINE n == Len(fmt)
           text == print(d, fmt)
           q == told(fmt, d, n)
           y == getFullYear(d)
           m == getMonth(d)
           k == getDate(d)
           r == readWords(text, fmt)
<1>1. y \in Int /\ 100 <= y /\ m \in 0..11 /\ k \in 1..31 /\ d.hours \in Int /\ d.minutes \in Int
      /\ DayNumber(y, m, k) = d.day
  BY Getters
<1>2. Seen(fmt, n, {"%y"}) => getFullYear(d) \in 1930..2029
  BY DEF Readable
<1>3. Len(text) = n /\ readUpTo(text, directives(fmt))[n] = q
  BY <1>2, ReadBack
<1>4. Seen(fmt, n, {"%Y", "%y"})
  <2>1. \A w : w \in {"%Y"} \/ w \in {"%y"} => w \in {"%Y", "%y"}
    OBVIOUS
  <2>2. \/ \E j \in 1..n : fmt[j] \in {"%Y"}
        \/ \E j \in 1..n : fmt[j] \in {"%y"}
    BY DEF Seen
  <2>3. \E j \in 1..n : fmt[j] \in {"%Y", "%y"}
    BY <2>1, <2>2
  <2>. QED
    BY <2>3, Zenon DEF Seen
<1>5. q.y = y /\ q.m = m /\ q.d = k
  BY <1>4 DEF told
<1>6. /\ q.hr \in Int /\ q.min \in Int /\ q.hr # NaN /\ q.min # NaN
      /\ Seen(fmt, n, {"%H", "%p"}) => q.hr = d.hours
      /\ Seen(fmt, n, {"%M"}) => q.min = d.minutes
  <2>1. q.hr \in {d.hours, hour12(d.hours), 0} /\ q.min \in {d.minutes, 0}
    BY DEF told
  <2>2. /\ Seen(fmt, n, {"%H", "%p"}) => q.hr = d.hours
        /\ Seen(fmt, n, {"%M"}) => q.min = d.minutes
    BY DEF told
  <2> DEFINE hr == q.hr
             min == q.min
             hours == d.hours
             minutes == d.minutes
  <2>3. hours \in 0..23 /\ minutes \in 0..59 /\ hr \in {hours, hour12(hours), 0} /\ min \in {minutes, 0}
    BY <2>1
  <2> HIDE DEF hr, min, hours, minutes
  <2>4. hr \in Int /\ min \in Int /\ hr # NaN /\ min # NaN
    BY ONLY <2>3, TimesAreNumbers
  <2>. QED
    BY <2>2, <2>4 DEF hr, min
<1>7. y # NaN /\ m # NaN /\ k # NaN /\ y # 0 /\ m # -1 /\ k # 0
  <2> HIDE DEF y, m, k
  <2>. QED
    BY ONLY <1>1, DaysAreNumbers
<1> HIDE DEF q, y, m, k, text
<1>8. r = [y |-> y, m |-> m, d |-> k, hr |-> q.hr, min |-> q.min]
  BY <1>3, <1>5, <1>6, <1>7 DEF readWords
<1>9. directives(fmt) # <<>>
  <2>1. n \in Nat /\ n # 0
    <3>1. \E j \in 1..n : TRUE
      BY DEF Seen
    <3>2. n \in Nat
      BY DEF Readable
    <3>. QED
      BY <3>1, <3>2
  <2>2. \A w \in Numeric : ~literal(w)
    BY Zenon DEF Numeric, literal
  <2>3. Len(directives(fmt)) = n
    BY <2>2, DirectivesOfPlain DEF Readable
  <2>. QED
    BY <2>1, <2>3
<1>10. parseDate(text, fmt) = newDate(y, m, k, q.hr, q.min)
  BY <1>7, <1>8, <1>9 DEF parseDate
<1>11. newDate(y, m, k, q.hr, q.min) = [day |-> d.day, hours |-> q.hr, minutes |-> q.min]
  BY <1>1 DEF newDate
<1>. QED
  BY <1>6, <1>10, <1>11 DEF DateTime, n, text
=============================================================================
